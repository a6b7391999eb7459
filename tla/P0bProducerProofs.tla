------------------------- MODULE P0bProducerProofs -------------------------
(***************************************************************************)
(* The safety properties of the P0-B producer and its callers for every    *)
(* number of invocations, sources, candidates, batches and faults and      *)
(* every chunk size and drain limit, with and without R2.                  *)
(***************************************************************************)
EXTENDS P0bProducerInv, SumLemmas, TLAPS

(***************************************************************************)
(* Lists of candidates.                                                    *)
(***************************************************************************)

(* A bundle is a list of candidates, and its batch is their set.           *)
LEMMA BundleIsList ==
    ASSUME NEW u \in Uri
    PROVE  /\ u \in Seq(Candidate) /\ u # <<>>
           /\ Manifest[u] = ToSet(u)
           /\ ToSet(u) \in Batch
           /\ ToSet(u) \subseteq Candidate
<1>1. u \in Bundles /\ Manifest[u] = ToSet(u)
  BY ProducerAssumption
<1>2. PICK n \in 1..ChunkLimit : u \in [1..n -> Candidate]
  BY <1>1 DEF Bundles
<1>3. u \in Seq(Candidate) /\ u # <<>>
  BY <1>2, ProducerAssumption
<1> QED BY <1>1, <1>2, <1>3 DEF Batch, ToSet

(* What seals a batch is a bundle of its candidates.                       *)
LEMMA SealsBatch ==
    ASSUME NEW u, NEW b, Seals(u, b)
    PROVE  /\ u \in Uri /\ u \in Seq(Candidate) /\ ToSet(u) = b
           /\ b \in Batch /\ b \subseteq Candidate /\ u # NoUri
BY BundleIsList, StoreAssumption DEF Seals

(* A batch is a set of candidates.                                         *)
LEMMA BatchIsCandidates ==
    ASSUME NEW b \in Batch PROVE b \in SUBSET Candidate
BY StoreAssumption DEF Batch

(* A nonempty cut of scanned candidates with distinct digests is a bundle. *)
LEMMA CutIsBundle ==
    ASSUME NEW p \in Seq(Candidate), p # <<>>,
           \A i, j \in DOMAIN p : Sha[p[i]] = Sha[p[j]] => i = j
    PROVE  /\ SubSeq(p, 1, Cut(p)) \in Uri
           /\ SubSeq(p, 1, Cut(p)) \in Seq(Candidate)
           /\ ToSet(SubSeq(p, 1, Cut(p))) \subseteq ToSet(p)
<1> DEFINE n == Cut(p)
           s == SubSeq(p, 1, n)
<1>1. n \in 1..ChunkLimit /\ n \in 1..Len(p)
  BY ProducerAssumption DEF Cut
<1> HIDE DEF n
<1>2. s \in [1..n -> Candidate] /\ \A i \in 1..n : s[i] = p[i]
  <2>1. Len(s) = n /\ s \in Seq(Candidate) /\ \A i \in 1..n : s[i] = p[i]
    BY <1>1
  <2> HIDE DEF s
  <2>2. s \in [1..n -> Candidate]
    BY <2>1
  <2> QED BY <2>1, <2>2
<1>3. s \in Bundles
  <2>1. \A i, j \in DOMAIN s : Sha[s[i]] = Sha[s[j]] => i = j
    BY <1>1, <1>2
  <2> QED BY <1>1, <1>2, <2>1 DEF Bundles
<1>4. s \in Seq(Candidate)
  BY <1>1
<1> QED BY <1>1, <1>2, <1>3, <1>4, ProducerAssumption DEF n, ToSet

(* What is left after the cut is a list of other positions of the list.    *)
LEMMA RestAfterCut ==
    ASSUME NEW p \in Seq(Candidate), p # <<>>,
           \A i, j \in DOMAIN p : Sha[p[i]] = Sha[p[j]] => i = j
    PROVE  LET q == SubSeq(p, Cut(p) + 1, Len(p)) IN
           /\ q \in Seq(Candidate) /\ ToSet(q) \subseteq ToSet(p)
           /\ \A i, j \in DOMAIN q : Sha[q[i]] = Sha[q[j]] => i = j
<1> DEFINE n == Cut(p)
           q == SubSeq(p, n + 1, Len(p))
<1>1. n \in 1..Len(p)
  BY ProducerAssumption DEF Cut
<1> HIDE DEF n
<1>2. q \in Seq(Candidate) /\ DOMAIN q = 1..(Len(p) - n)
  BY <1>1
<1>3. \A i \in DOMAIN q : q[i] = p[n + i] /\ n + i \in DOMAIN p
  BY <1>1, <1>2
<1>4. \A i, j \in DOMAIN q : Sha[q[i]] = Sha[q[j]] => i = j
  <2> SUFFICES ASSUME NEW i \in DOMAIN q, NEW j \in DOMAIN q, Sha[q[i]] = Sha[q[j]]
               PROVE  i = j
    OBVIOUS
  <2>1. Sha[p[n + i]] = Sha[p[n + j]] /\ n + i \in DOMAIN p /\ n + j \in DOMAIN p
    BY <1>3
  <2> HIDE DEF q
  <2>2. n + i = n + j
    BY <2>1
  <2> QED BY <1>1, <1>2, <2>2
<1> QED BY <1>2, <1>3, <1>4 DEF n, ToSet

(* Appending to a list of distinct items one that is not among them.       *)
LEMMA ListAppend ==
    ASSUME NEW S, NEW p \in Seq(S), NEW c \in S
    PROVE  /\ Append(p, c) \in Seq(S)
           /\ ToSet(Append(p, c)) = ToSet(p) \cup {c}
           /\ DOMAIN Append(p, c) = DOMAIN p \cup {Len(p) + 1}
           /\ Append(p, c)[Len(p) + 1] = c
           /\ Len(p) + 1 \notin DOMAIN p
           /\ \A i \in DOMAIN p : Append(p, c)[i] = p[i]
<1>1. /\ Append(p, c) \in Seq(S) /\ DOMAIN Append(p, c) = 1..(Len(p) + 1)
      /\ DOMAIN p = 1..Len(p) /\ Len(p) \in Nat
      /\ \A i \in DOMAIN p : Append(p, c)[i] = p[i]
      /\ Append(p, c)[Len(p) + 1] = c
  OBVIOUS
<1>2. DOMAIN Append(p, c) = DOMAIN p \cup {Len(p) + 1} /\ Len(p) + 1 \notin DOMAIN p
  BY <1>1
<1> QED BY <1>1, <1>2 DEF ToSet

(***************************************************************************)
(* The runs.                                                               *)
(***************************************************************************)

RunsOK == run \in [Worker -> Run] /\ \A w \in Worker : RunOK(run[w])

(* A step moves one run; it is enough to look at that one.                 *)
LEMMA OneRunMoves ==
    ASSUME RunsOK, NEW w \in Worker, NEW r \in Run, RunOK(r), run' = [run EXCEPT ![w] = r]
    PROVE  RunsOK'
<1>1. run' \in [Worker -> Run]
  BY DEF RunsOK
<1>2. \A v \in Worker : run'[v] = run[v] \/ run'[v] = r
  BY DEF RunsOK
<1>3. \A v \in Worker : RunOK(run'[v])
  BY <1>2 DEF RunsOK
<1> QED BY <1>1, <1>3 DEF RunsOK

(* Moving on to a stage that makes no bundle needs no more than the run.   *)
LEMMA MoveOn ==
    ASSUME RunsOK, NEW w \in Worker, NEW stage \in RunStage \ Bundling,
           NEW trip \in BOOLEAN, NEW stop \in BOOLEAN
    PROVE  LET r == [run[w] EXCEPT !.pc = stage, !.trip = trip, !.stop = stop] IN
           r \in Run /\ RunOK(r)
<1> DEFINE r == [run[w] EXCEPT !.pc = stage, !.trip = trip, !.stop = stop]
<1>1. run[w] \in Run /\ RunOK(run[w])
  BY DEF RunsOK
<1>2. r \in Run
  BY <1>1 DEF Run
<1>3. RunOK(r)
  BY <1>1 DEF RunOK, Run, Bundling
<1> QED BY <1>2, <1>3

(* A worker without a run is in order.                                     *)
LEMMA IdleOK == Idle \in Run /\ RunOK(Idle)
<1>1. Idle \in Run
  BY DEF Idle, Run, RunStage
<1>2. RunOK(Idle)
  BY DEF Idle, RunOK, Bundling, ToSet
<1> QED BY <1>1, <1>2

(* Whatever the run was given, it starts with nothing scanned or bundled.  *)
LEMMA StartOK ==
    ASSUME RunsOK, NEW w \in Worker, NEW offers \in Seq(Candidate),
           NEW job \in SUBSET Candidate, Start(w, offers, job)
    PROVE  RunsOK'
<1> DEFINE r == [Idle EXCEPT !.pc = "guard", !.offers = offers, !.job = job]
<1>1. r \in Run
  BY IdleOK DEF Run, RunStage
<1>2. r.seen = 0 /\ r.pending = <<>> /\ r.offers = offers /\ r.pc = "guard"
      /\ r.durable = {} /\ r.staged = {}
  BY DEF Idle
<1>3. RunOK(r)
  BY <1>2 DEF RunOK, Bundling, ToSet
<1>4. run' = [run EXCEPT ![w] = r]
  BY DEF Start
<1> HIDE DEF r
<1> QED BY <1>1, <1>3, <1>4, OneRunMoves

(* A throw leaves the chunk as it is, for R2 or for nobody.                *)
LEMMA ThrowOK ==
    ASSUME RunsOK, NEW w \in Worker, run[w].pc \in Bundling,
           NEW r2 \in BOOLEAN, NEW trip \in BOOLEAN, Throw(w, r2, trip)
    PROVE  RunsOK'
<1> DEFINE stage == IF r2 /\ R2Enabled THEN "fallback" ELSE "hold"
           r == [run[w] EXCEPT !.pc = stage, !.trip = trip]
<1>1. run[w] \in Run /\ RunOK(run[w])
  BY DEF RunsOK
<1>2. r \in Run
  BY <1>1 DEF Run, RunStage
<1>3. RunOK(r)
  BY <1>1 DEF RunOK, Run, Bundling
<1>4. run' = [run EXCEPT ![w] = r]
  BY DEF Throw, RunsOK
<1> HIDE DEF r
<1> QED BY <1>2, <1>3, <1>4, OneRunMoves

(* So does a step to the next stage of the same chunk.                     *)
LEMMA MoveToOK ==
    ASSUME RunsOK, NEW w \in Worker, NEW stage \in RunStage, MoveTo(w, stage),
           stage \in Bundling => run[w].pc \in Bundling,
           stage \in {"spool", "commit", "register"} =>
             run[w].pc \in {"spool", "commit", "register"}
    PROVE  RunsOK'
<1> DEFINE r == [run[w] EXCEPT !.pc = stage]
<1>1. run[w] \in Run /\ RunOK(run[w])
  BY DEF RunsOK
<1>2. r \in Run
  BY <1>1 DEF Run
<1>3. RunOK(r)
  BY <1>1 DEF RunOK, Run
<1>4. run' = [run EXCEPT ![w] = r]
  BY DEF MoveTo, RunsOK
<1> HIDE DEF r
<1> QED BY <1>2, <1>3, <1>4, OneRunMoves

(* The scan takes one offer; only the first of a digest is to be bundled.  *)
LEMMA ScanOK ==
    ASSUME RunsOK, NEW w \in Worker, Scan(w)
    PROVE  RunsOK'
<1> DEFINE old == run[w]
           c == old.offers[old.seen + 1]
<1>1. /\ old \in Run /\ RunOK(old)
      /\ old.pc = "scan" /\ old.seen < Len(old.offers)
  BY DEF RunsOK, Scan, At
<1>2. /\ old.seen \in Nat /\ old.seen + 1 \in Nat /\ old.seen + 1 <= Len(old.offers)
      /\ old.seen + 1 \in DOMAIN old.offers /\ c \in Candidate
      /\ old.pending \in Seq(Candidate)
      /\ c \in ToSet(old.offers)
      /\ {old.offers[i] : i \in 1..(old.seen + 1)}
           = {old.offers[i] : i \in 1..old.seen} \cup {c}
  BY <1>1 DEF Run, ToSet
<1>3. CASE run' = [run EXCEPT ![w].seen = @ + 1]
  <2> DEFINE r == [old EXCEPT !.seen = @ + 1]
  <2>1. r \in Run
    BY <1>1, <1>2 DEF Run
  <2>2. RunOK(r)
    BY <1>1, <1>2 DEF RunOK, Run, Bundling
  <2>3. run' = [run EXCEPT ![w] = r]
    BY <1>3
  <2> HIDE DEF r
  <2> QED BY <2>1, <2>2, <2>3, OneRunMoves
<1>4. CASE run' = [run EXCEPT ![w].seen = @ + 1, ![w].durable = @ \cup {c}]
  <2> DEFINE r == [old EXCEPT !.seen = @ + 1, !.durable = @ \cup {c}]
  <2>1. r \in Run
    BY <1>1, <1>2 DEF Run
  <2>2. RunOK(r)
    BY <1>1, <1>2 DEF RunOK, Run, Bundling
  <2>3. run' = [run EXCEPT ![w] = r]
    BY <1>4 DEF RunsOK
  <2> HIDE DEF r
  <2> QED BY <2>1, <2>2, <2>3, OneRunMoves
<1>5. CASE /\ run' = [run EXCEPT ![w].seen = @ + 1, ![w].pending = Append(@, c)]
           /\ ~\E i \in 1..old.seen : Sha[old.offers[i]] = Sha[c]
  <2> DEFINE r == [old EXCEPT !.seen = @ + 1, !.pending = Append(@, c)]
  <2>1. r \in Run
    <3>1. Append(old.pending, c) \in Seq(Candidate)
      BY <1>2
    <3> QED BY <1>1, <1>2, <3>1 DEF Run
  <2>2. /\ r.seen = old.seen + 1 /\ r.offers = old.offers /\ r.pc = "scan"
        /\ r.durable = old.durable /\ r.staged = old.staged
        /\ r.pending = Append(old.pending, c)
    BY <1>1 DEF Run
  <2>3. ToSet(r.pending) \subseteq {r.offers[i] : i \in 1..r.seen}
    BY <1>1, <1>2, <2>2, ListAppend DEF RunOK
  <2>4. \A i \in DOMAIN old.pending : Sha[old.pending[i]] # Sha[c]
    BY <1>1, <1>5 DEF RunOK, ToSet
  <2>5. \A i, j \in DOMAIN r.pending : Sha[r.pending[i]] = Sha[r.pending[j]] => i = j
    <3> DEFINE p == old.pending
               q == Append(p, c)
    <3>1. /\ DOMAIN q = DOMAIN p \cup {Len(p) + 1} /\ q[Len(p) + 1] = c
          /\ \A i \in DOMAIN p : q[i] = p[i]
      BY <1>2, ListAppend
    <3>2. \A i, j \in DOMAIN p : Sha[p[i]] = Sha[p[j]] => i = j
      BY <1>1 DEF RunOK
    <3> HIDE DEF q
    <3>3. \A i, j \in DOMAIN q : Sha[q[i]] = Sha[q[j]] => i = j
      BY <2>4, <3>1, <3>2
    <3> QED BY <2>2, <3>3 DEF q
  <2>6. RunOK(r)
    BY <1>1, <1>2, <2>2, <2>3, <2>5 DEF RunOK, Bundling
  <2>7. run' = [run EXCEPT ![w] = r]
    BY <1>5 DEF RunsOK
  <2> HIDE DEF r
  <2> QED BY <2>1, <2>6, <2>7, OneRunMoves
<1> QED BY <1>3, <1>4, <1>5 DEF Scan

(* The chunk that is cut is a bundle of scanned candidates.                *)
LEMMA NextChunkOK ==
    ASSUME RunsOK, NEW w \in Worker, NextChunk(w)
    PROVE  RunsOK'
<1> DEFINE old == run[w]
           p == old.pending
<1>1. old \in Run /\ RunOK(old) /\ old.pc = "chunk"
  BY DEF RunsOK, NextChunk, At
<1>2. CASE p = <<>>
  <2>1. MoveTo(w, "done")
    BY <1>2 DEF NextChunk, MoveTo
  <2> QED BY <2>1, MoveToOK DEF RunStage, Bundling
<1>3. CASE p # <<>>
  <2> DEFINE stage == IF ~old.stop THEN "insert" ELSE IF R2Enabled THEN "fallback" ELSE "chunk"
             s == SubSeq(p, 1, Cut(p))
             q == SubSeq(p, Cut(p) + 1, Len(p))
             r == [old EXCEPT !.chunk = s, !.pending = q, !.pc = stage]
  <2>1. /\ p \in Seq(Candidate) /\ \A i, j \in DOMAIN p : Sha[p[i]] = Sha[p[j]] => i = j
        /\ ToSet(p) \subseteq {old.offers[i] : i \in 1..old.seen}
        /\ 1..old.seen \subseteq DOMAIN old.offers
    BY <1>1 DEF RunOK, Run
  <2>2. s \in Uri /\ s \in Seq(Candidate) /\ ToSet(s) \subseteq ToSet(p)
    BY <1>3, <2>1, CutIsBundle
  <2>3. /\ q \in Seq(Candidate) /\ ToSet(q) \subseteq ToSet(p)
        /\ \A i, j \in DOMAIN q : Sha[q[i]] = Sha[q[j]] => i = j
    BY <1>3, <2>1, RestAfterCut
  <2>4. run' = [run EXCEPT ![w] = r]
    BY <1>3 DEF NextChunk, RunsOK
  <2>5. ToSet(p) \subseteq ToSet(old.offers)
    BY <2>1 DEF ToSet
  <2> HIDE DEF s, q
  <2>6. r \in Run
    BY <1>1, <2>2, <2>3 DEF Run, RunStage
  <2>7. RunOK(r)
    BY <1>1, <2>1, <2>2, <2>3, <2>5 DEF RunOK, Run, Bundling
  <2> HIDE DEF r
  <2> QED BY <2>4, <2>6, <2>7, OneRunMoves
<1> QED BY <1>2, <1>3

(* Opening the row tells the run which bundle stands for its batch.        *)
LEMMA OutboxOpenOK ==
    ASSUME ProducerTypeOK, RunsOK, RowsSealed, NEW w \in Worker, Knows(w), OutboxOpen(w)
    PROVE  RunsOK'
<1> DEFINE old == run[w]
           b == ToSet(old.chunk)
           own == outState[b] = "REPLAYING" /\ outLease[b] = w /\ old.job = b
<1>1. /\ old \in Run /\ RunOK(old) /\ old.pc = "open"
      /\ old.chunk \in Uri /\ b \in Batch /\ Seals(old.chunk, b)
  BY BundleIsList DEF RunsOK, OutboxOpen, At, RunOK, Bundling, Seals
<1>2. CASE outState[b] = "REPLAYING" /\ ~own
  <2>1. Throw(w, FALSE, FALSE)
    BY <1>2 DEF OutboxOpen
  <2> QED BY <1>1, <2>1, ThrowOK DEF Bundling
<1>3. CASE ~(outState[b] = "REPLAYING" /\ ~own)
  <2> DEFINE uri == IF outState[b] = "ARCHIVED" THEN old.chunk ELSE outSealed[b]
             r == [old EXCEPT !.pc = "spool", !.leased = own, !.uri = uri]
  <2>1. outState[b] \in {"PENDING_ARCHIVE", "REPLAYING", "ARCHIVED"}
    BY <1>1 DEF ProducerTypeOK, Knows, At
  <2>2. Seals(uri, b)
    BY <1>1, <2>1 DEF RowsSealed
  <2>3. uri \in Uri /\ own \in BOOLEAN
    BY <2>2 DEF Seals
  <2>4. run' = [run EXCEPT ![w] = r]
    BY <1>3 DEF OutboxOpen, RunsOK
  <2> HIDE DEF uri, own
  <2>5. r \in Run
    BY <1>1, <2>3 DEF Run, RunStage
  <2>6. RunOK(r)
    BY <1>1, <2>2 DEF RunOK, Run, Bundling
  <2> HIDE DEF r
  <2> QED BY <2>4, <2>5, <2>6, OneRunMoves
<1> QED BY <1>2, <1>3

(* Between two chunks the run keeps what it was given and what it made.     *)
LEMMA NextOfOK ==
    ASSUME RunsOK, NEW w \in Worker
    PROVE  LET n == NextOf(w) IN
           /\ n \in Run /\ RunOK(n)
           /\ n.pc = "chunk" /\ n.stop = run[w].stop /\ n.offers = run[w].offers
           /\ n.durable = run[w].durable /\ n.staged = run[w].staged
           /\ n.job = run[w].job
<1> DEFINE n == NextOf(w)
<1>1. run[w] \in Run /\ RunOK(run[w]) /\ <<>> \in Seq(Candidate)
  BY DEF RunsOK
<1>2. /\ n.pc = "chunk" /\ n.stop = run[w].stop /\ n.offers = run[w].offers
      /\ n.durable = run[w].durable /\ n.staged = run[w].staged
      /\ n.seen = run[w].seen /\ n.pending = run[w].pending /\ n.job = run[w].job
  BY <1>1 DEF NextOf, Run
<1>3. n \in Run
  BY <1>1 DEF NextOf, Run, RunStage
<1> HIDE DEF n
<1>4. RunOK(n)
  BY <1>1, <1>2 DEF RunOK, Bundling
<1> QED BY <1>2, <1>3, <1>4 DEF n

(* A chunk counts as durable once its rows were read back.                 *)
LEMMA RegisterOK ==
    ASSUME RunsOK, NEW w \in Worker, Register(w)
    PROVE  RunsOK'
<1> DEFINE old == run[w]
<1>1. old \in Run /\ RunOK(old) /\ old.pc = "register"
  BY DEF RunsOK, Register, At
<1>2. CASE run' = [run EXCEPT ![w] = [NextOf(w) EXCEPT !.durable = @ \cup ToSet(old.chunk)]]
  <2> DEFINE n == NextOf(w)
             r == [n EXCEPT !.durable = @ \cup ToSet(old.chunk)]
  <2>1. ToSet(old.chunk) \subseteq ToSet(old.offers) /\ ToSet(old.chunk) \subseteq Candidate
    BY <1>1, BundleIsList DEF RunOK, Bundling
  <2>2. n \in Run /\ RunOK(n) /\ n.offers = old.offers
    BY NextOfOK
  <2>3. run' = [run EXCEPT ![w] = r]
    BY <1>2
  <2> HIDE DEF n
  <2>4. r \in Run
    BY <2>1, <2>2 DEF Run
  <2>5. RunOK(r)
    BY <2>1, <2>2 DEF RunOK, Run
  <2> HIDE DEF r
  <2> QED BY <2>3, <2>4, <2>5, OneRunMoves
<1>3. CASE Throw(w, FALSE, FALSE)
  BY <1>1, <1>3, ThrowOK DEF Bundling
<1> QED BY <1>2, <1>3 DEF Register

(* A chunk that B2 did not take is journaled already, staged in R2, or     *)
(* given up.                                                               *)
LEMMA FallbackOK ==
    ASSUME RunsOK, NEW w \in Worker, Fallback(w)
    PROVE  RunsOK'
<1> DEFINE old == run[w]
           b == ToSet(old.chunk)
<1>1. /\ old \in Run /\ RunOK(old) /\ old.pc = "fallback"
      /\ b \subseteq ToSet(old.offers) /\ b \subseteq Candidate
  BY BundleIsList DEF RunsOK, Fallback, At, RunOK, Bundling
<1>2. CASE run' = [run EXCEPT ![w].pc = "hold", ![w].durable = @ \cup b]
  <2> DEFINE r == [old EXCEPT !.pc = "hold", !.durable = @ \cup b]
  <2>1. r \in Run
    BY <1>1 DEF Run, RunStage
  <2>2. RunOK(r)
    BY <1>1 DEF RunOK, Run, Bundling
  <2>3. run' = [run EXCEPT ![w] = r]
    BY <1>2 DEF RunsOK
  <2> HIDE DEF r
  <2> QED BY <2>1, <2>2, <2>3, OneRunMoves
<1>3. CASE run' = [run EXCEPT ![w].pc = "hold", ![w].staged = @ \cup b]
  <2> DEFINE r == [old EXCEPT !.pc = "hold", !.staged = @ \cup b]
  <2>1. r \in Run
    BY <1>1 DEF Run, RunStage
  <2>2. RunOK(r)
    BY <1>1 DEF RunOK, Run, Bundling
  <2>3. run' = [run EXCEPT ![w] = r]
    BY <1>3 DEF RunsOK
  <2> HIDE DEF r
  <2> QED BY <2>1, <2>2, <2>3, OneRunMoves
<1>4. CASE MoveTo(w, "hold")
  BY <1>4, MoveToOK DEF RunStage, Bundling
<1> QED BY <1>2, <1>3, <1>4 DEF Fallback

(* A chunk ends, and the run with it if it tripped the circuit.            *)
LEMMA HoldOK ==
    ASSUME RunsOK, NEW w \in Worker, Hold(w)
    PROVE  RunsOK'
<1> DEFINE n == NextOf(w)
           r == [n EXCEPT !.stop = @ \/ run[w].trip]
<1>1. n \in Run /\ RunOK(n)
  BY NextOfOK
<1>2. run' = [run EXCEPT ![w] = r]
  BY DEF Hold
<1> HIDE DEF n
<1>3. (n.stop \/ run[w].trip) \in BOOLEAN
  OBVIOUS
<1>4. r \in Run
  BY <1>1, <1>3 DEF Run
<1>5. RunOK(r)
  BY <1>1 DEF RunOK, Run
<1> HIDE DEF r
<1> QED BY <1>2, <1>4, <1>5, OneRunMoves

(* The oldest source that is not finished is one of the run's sources.     *)
LEMMA FinishSourceOK ==
    ASSUME RunsOK, NEW w \in Worker, FinishSource(w)
    PROVE  RunsOK'
<1> DEFINE old  == run[w]
           left == {i \in DOMAIN old.offers : SourceOf[old.offers[i]] \notin old.finished}
           s    == SourceOf[old.offers[Min(left)]]
           mine == {c \in ToSet(old.offers) : SourceOf[c] = s}
<1>1. old \in Run /\ RunOK(old) /\ old.offers \in Seq(Candidate)
  BY DEF RunsOK, Run
<1>2. CASE run' = [run EXCEPT ![w] = Idle]
  BY <1>2, IdleOK, OneRunMoves
<1>3. CASE /\ run' = [run EXCEPT ![w] = [old EXCEPT !.finished = @ \cup {s}]]
           /\ left # {}
  <2> DEFINE r == [old EXCEPT !.finished = @ \cup {s}]
  <2>1. left \subseteq 1..Len(old.offers)
    BY <1>1
  <2>2. Min(left) \in left
    <3> HIDE DEF left
    <3> DEFINE n == Len(old.offers)
    <3>1. n \in Nat /\ left \in SUBSET (1..n) /\ left # {}
      BY <1>1, <1>3, <2>1
    <3> HIDE DEF n
    <3>2. \E i \in left : \A j \in left : i <= j
      BY <3>1, LeastIndex
    <3> QED BY <3>2 DEF Min
  <2>3. s \in {SourceOf[c] : c \in Candidate}
    <3>1. Min(left) \in 1..Len(old.offers)
      BY <2>1, <2>2
    <3> DEFINE m == Min(left)
    <3> HIDE DEF m
    <3>2. m \in 1..Len(old.offers) => old.offers[m] \in Candidate
      BY <1>1
    <3>3. old.offers[Min(left)] \in Candidate
      BY <3>1, <3>2 DEF m
    <3> QED BY <3>3
  <2> HIDE DEF s
  <2>4. r \in Run
    BY <1>1, <2>3 DEF Run
  <2>5. RunOK(r)
    BY <1>1 DEF RunOK, Run
  <2> HIDE DEF r
  <2> QED BY <1>3, <2>4, <2>5, OneRunMoves DEF r
<1> QED BY <1>2, <1>3 DEF FinishSource

(* Every step leaves the runs as the stages say.                           *)
LEMMA RunsStep ==
    ASSUME ProducerTypeOK, RunsOK, RowsSealed, \A w \in Worker : Knows(w), [ProducerNext]_pvars
    PROVE  RunsOK'
<1>1. ASSUME NEW w \in Worker, BatchStep(w) PROVE RunsOK'
  <2>1. CASE ReadGuard(w)
    <3> DEFINE r == [run[w] EXCEPT !.pc = "scan", !.trip = run[w].trip, !.stop = held]
    <3>1. run[w] \in Run /\ held \in BOOLEAN
      BY DEF RunsOK, ProducerTypeOK
    <3>2. run[w].trip \in BOOLEAN
      BY <3>1 DEF Run
    <3>3. r \in Run /\ RunOK(r)
      BY <3>1, <3>2, MoveOn DEF RunStage, Bundling
    <3>4. run' = [run EXCEPT ![w] = r]
      BY <2>1, <3>1 DEF ReadGuard, RunsOK, Run
    <3> HIDE DEF r
    <3> QED BY <3>3, <3>4, OneRunMoves
  <2>2. CASE Scan(w)
    BY <2>2, ScanOK
  <2>3. CASE EndScan(w)
    BY <2>3, MoveToOK DEF EndScan, RunStage, Bundling
  <2>4. CASE NextChunk(w)
    BY <2>4, NextChunkOK
  <2>5. CASE OutboxInsert(w)
    BY <2>5, MoveToOK, ThrowOK DEF OutboxInsert, At, RunStage, Bundling
  <2>6. CASE OutboxOpen(w)
    BY <2>6, OutboxOpenOK
  <2>7. CASE Spool(w)
    BY <2>7, MoveToOK, ThrowOK DEF Spool, At, RunStage, Bundling
  <2>8. CASE CommitBatch(w)
    BY <2>8, MoveToOK, ThrowOK DEF CommitBatch, At, RunStage, Bundling
  <2>9. CASE Register(w)
    BY <2>9, RegisterOK
  <2>10. CASE Fallback(w)
    BY <2>10, FallbackOK
  <2>11. CASE Hold(w)
    BY <2>11, HoldOK
  <2> QED BY <1>1, <2>1, <2>2, <2>3, <2>4, <2>5, <2>6, <2>7, <2>8, <2>9, <2>10, <2>11
          DEF BatchStep
<1>2. ASSUME NEW w \in Worker, FinishRun(w) \/ Evicted(w) PROVE RunsOK'
  <2>1. CASE FinishSource(w)
    BY <2>1, FinishSourceOK
  <2>2. CASE run' = [run EXCEPT ![w] = Idle]
    BY <2>2, IdleOK, OneRunMoves
  <2> QED BY <1>2, <2>1, <2>2 DEF FinishRun, DrainFinish, R2Finish, Evicted
<1>3. ASSUME NEW w \in Poller, NEW f \in Fetch, Poll(w, f) PROVE RunsOK'
  <2>1. f \in Seq(Candidate) /\ {} \in SUBSET Candidate /\ w \in Worker
    BY ProducerAssumption DEF Worker
  <2> QED BY <1>3, <2>1, StartOK DEF Poll
<1>4. ASSUME NEW w \in Drainer, NEW b \in Batch, DrainClaim(w, b) PROVE RunsOK'
  <2>1. Seals(outSealed[b], b)
    BY <1>4 DEF DrainClaim, Selected, OutboxDue, RowsSealed
  <2>2. outSealed[b] \in Seq(Candidate) /\ b \in SUBSET Candidate /\ w \in Worker
    BY <2>1, SealsBatch DEF Worker
  <2> QED BY <1>4, <2>2, StartOK DEF DrainClaim
<1>5. ASSUME NEW w \in R2Drainer, NEW b \in Batch, R2Claim(w, b) PROVE RunsOK'
  <2>1. Seals(r2Sealed[b], b)
    BY <1>5 DEF R2Claim, R2Due, RowsSealed
  <2>2. r2Sealed[b] \in Seq(Candidate) /\ b \in SUBSET Candidate /\ w \in Worker
    BY <2>1, SealsBatch DEF Worker
  <2> QED BY <1>5, <2>2, StartOK DEF R2Claim
<1>6. CASE UNCHANGED run
  BY <1>6 DEF RunsOK
<1> QED BY <1>1, <1>2, <1>3, <1>4, <1>5, <1>6
        DEF ProducerNext, CallerNext, OutboxLeaseLapses, R2LeaseLapses, HoldExpires, Consumers,
            pvars

(***************************************************************************)
(* The tables only go forward.                                             *)
(***************************************************************************)

(* Objects, journal rows, bundle rows, outbox rows and R2 rows are never   *)
(* taken back, and an archived row keeps its address.                      *)
Forward ==
    /\ b2 \subseteq b2'
    /\ \A c \in Candidate : rowUri[c] # NoUri => rowUri'[c] = rowUri[c]
    /\ \A u \in Uri : bundleState[u] # "NONE" => bundleState'[u] # "NONE"
    /\ \A b \in Batch : outState[b] # "NONE" => outState'[b] # "NONE"
    /\ \A b \in Batch : outState[b] = "ARCHIVED" =>
         outState'[b] = "ARCHIVED" /\ outUri'[b] = outUri[b]
    /\ \A b \in Batch : r2State[b] # "NONE" => r2State'[b] # "NONE"

(* A journal batch gives no journaled row another bundle and takes none    *)
(* away.                                                                   *)
LEMMA JournalForward ==
    ASSUME ProducerTypeOK, NEW u \in Uri, JournalBatch(u)
    PROVE  /\ \A c \in Candidate : rowUri[c] # NoUri => rowUri'[c] = rowUri[c]
           /\ \A v \in Uri : bundleState[v] # "NONE" => bundleState'[v] # "NONE"
           /\ bundleState'[u] # "NONE"
           /\ \A c \in Manifest[u] : Journaled(c)'
           /\ \A c \in Candidate : rowUri'[c] = rowUri[c] \/ rowUri'[c] = u
           /\ StoreTypeOK'
<1>1. \A c \in Candidate : rowUri[c] # NoUri => Journaled(c)
  BY DEF Journaled
<1>2. /\ \A c \in Candidate : rowUri'[c] = rowUri[c] \/ rowUri'[c] = u
      /\ \A c \in Candidate : rowUri[c] # NoUri => rowUri'[c] = rowUri[c]
  BY <1>1 DEF JournalBatch
<1>3. /\ \A v \in Uri : bundleState[v] # "NONE" => bundleState'[v] # "NONE"
      /\ bundleState'[u] # "NONE"
  BY DEF JournalBatch, ProducerTypeOK, StoreTypeOK
<1>4. ASSUME NEW c \in Manifest[u] PROVE \E d \in Candidate : Sha[d] = Sha[c] /\ rowUri'[d] # NoUri
  <2>1. c \in Candidate /\ u # NoUri
    BY StoreAssumption
  <2>2. CASE Journaled(c)
    BY <1>2, <2>2 DEF Journaled
  <2>3. CASE ~Journaled(c)
    <3>1. rowUri'[c] = u
      BY <2>1, <2>3 DEF JournalBatch
    <3> QED BY <2>1, <3>1
  <2> QED BY <2>2, <2>3
<1>5. \A c \in Manifest[u] : Journaled(c)'
  BY <1>4 DEF Journaled
<1>6. StoreTypeOK'
  BY DEF JournalBatch, ProducerTypeOK, StoreTypeOK, BundleState, RowState
<1> QED BY <1>2, <1>3, <1>5, <1>6

(* Nor do the consumers.                                                   *)
LEMMA SettlementForward ==
    ASSUME ProducerTypeOK, NEW u \in Uri, SettlementStep(u)
    PROVE  /\ rowUri' = rowUri
           /\ \A v \in Uri : bundleState[v] # "NONE" => bundleState'[v] # "NONE"
           /\ StoreTypeOK'
<1>1. ASSUME NEW items \in SUBSET Manifest[u], Admit(u, items)
      PROVE  /\ rowUri' = rowUri /\ bundleState' = bundleState
             /\ StoreTypeOK'
  BY <1>1 DEF Admit, ProducerTypeOK, StoreTypeOK, RowState
<1>2. CASE Commit(u) \/ Abandon(u)
  <2>1. rowUri' = rowUri /\ \A v \in Uri : bundleState[v] # "NONE" => bundleState'[v] # "NONE"
    BY <1>2 DEF Commit, Abandon, ProducerTypeOK, StoreTypeOK
  <2>2. StoreTypeOK'
    BY <1>2 DEF Commit, Abandon, ProducerTypeOK, StoreTypeOK, BundleState
  <2> QED BY <2>1, <2>2
<1> QED BY <1>1, <1>2 DEF SettlementStep

(* Few steps write the tables; all others leave them as they are.          *)
TablesSame == UNCHANGED <<storeVars, b2, outVars, r2Vars>>

ChunkWrites(w) == OutboxInsert(w) \/ Spool(w) \/ CommitBatch(w) \/ Fallback(w)

OutboxWrites ==
    \/ \E w \in Drainer, b \in Batch : DrainClaim(w, b)
    \/ \E w \in Drainer : DrainFinish(w)
    \/ \E b \in Batch : OutboxLeaseLapses(b)

R2Writes ==
    \/ \E w \in R2Drainer, b \in Batch : R2Claim(w, b)
    \/ \E w \in R2Drainer : R2Finish(w)
    \/ \E b \in Batch : R2LeaseLapses(b)

(* Who writes which tables.                                                *)
LEMMA CallerTables ==
    ASSUME CallerNext
    PROVE  \/ TablesSame
           \/ \E w \in Worker : ChunkWrites(w)
           \/ OutboxWrites \/ R2Writes
<1>1. ASSUME NEW w \in Worker, BatchStep(w)
      PROVE  ChunkWrites(w) \/ TablesSame
  BY <1>1 DEF BatchStep, ChunkWrites, TablesSame, ReadGuard, Scan, EndScan, NextChunk,
              OutboxOpen, Register, Hold
<1>2. ASSUME NEW w \in Worker, FinishRun(w) \/ Evicted(w)
      PROVE  TablesSame \/ OutboxWrites \/ R2Writes
  <2>1. CASE FinishSource(w) \/ Evicted(w)
    BY <2>1 DEF FinishSource, Evicted, TablesSame
  <2>2. CASE DrainFinish(w)
    BY <2>2 DEF DrainFinish, OutboxWrites
  <2>3. CASE R2Finish(w)
    BY <2>3 DEF R2Finish, R2Writes
  <2> QED BY <1>2, <2>1, <2>2, <2>3 DEF FinishRun
<1>3. ASSUME NEW w \in Poller, NEW f \in Fetch, Poll(w, f)
      PROVE  TablesSame
  BY <1>3 DEF Poll, TablesSame
<1>4. CASE HoldExpires
  BY <1>4 DEF HoldExpires, TablesSame
<1> QED BY <1>1, <1>2, <1>3, <1>4 DEF CallerNext, OutboxWrites, R2Writes

(* And with the consumers.                                                 *)
LEMMA TableSteps ==
    ASSUME [ProducerNext]_pvars
    PROVE  \/ TablesSame
           \/ \E w \in Worker : ChunkWrites(w)
           \/ OutboxWrites \/ R2Writes \/ Consumers
BY CallerTables DEF ProducerNext, pvars, TablesSame

(* What a run relies on when it writes.                                    *)
LEMMA ChunkFacts ==
    ASSUME RunsOK, NEW w \in Worker, ChunkWrites(w)
    PROVE  /\ run[w] \in Run
           /\ run[w].chunk \in Uri /\ run[w].chunk \in Seq(Candidate)
           /\ ToSet(run[w].chunk) \in Batch
           /\ Seals(run[w].chunk, ToSet(run[w].chunk))
           /\ At(w, "spool") \/ At(w, "commit") => Seals(run[w].uri, ToSet(run[w].chunk))
<1>1. run[w] \in Run /\ RunOK(run[w]) /\ run[w].pc \in Bundling
  BY DEF RunsOK, ChunkWrites, OutboxInsert, Spool, CommitBatch, Fallback, At, Bundling
<1>2. run[w].chunk \in Uri
  BY <1>1 DEF RunOK
<1>3. At(w, "spool") \/ At(w, "commit") => Seals(run[w].uri, ToSet(run[w].chunk))
  BY <1>1 DEF RunOK, At
<1> QED BY <1>1, <1>2, <1>3, BundleIsList DEF Seals

OutboxTyped ==
    /\ outState \in [Batch -> {"NONE", "PENDING_ARCHIVE", "REPLAYING", "ARCHIVED"}]
    /\ outSealed \in [Batch -> Uri \cup {NoUri}] /\ outUri \in [Batch -> Uri \cup {NoUri}]
    /\ outLease \in [Batch -> Drainer \cup {Nobody}] /\ outLive \in [Batch -> BOOLEAN]
    /\ outOrder \in Seq(Batch) /\ IsInjective(outOrder)
    /\ ToSet(outOrder) = {b \in Batch : outState[b] # "NONE"}

R2Typed ==
    /\ r2State \in [Batch -> {"NONE", "PENDING_B2", "PROCESSING", "B2_VERIFIED"}]
    /\ r2Sealed \in [Batch -> Uri \cup {NoUri}]
    /\ r2Lease \in [Batch -> R2Drainer \cup {Nobody}] /\ r2Live \in [Batch -> BOOLEAN]

(* INSERT ... ON CONFLICT(batch_id) DO NOTHING, and nothing else, adds a   *)
(* row to the outbox.                                                      *)
LEMMA InsertTyped ==
    ASSUME OutboxTyped, RunsOK, NEW w \in Worker, OutboxInsert(w)
    PROVE  OutboxTyped'
<1> DEFINE u == run[w].chunk
           b == ToSet(u)
<1>1. u \in Uri /\ b \in Batch
  BY ChunkFacts DEF ChunkWrites
<1>2. CASE SealRow(w) /\ outState[b] = "NONE"
  <2>1. /\ outState' = [outState EXCEPT ![b] = "PENDING_ARCHIVE"]
        /\ outSealed' = [outSealed EXCEPT ![b] = u]
        /\ outOrder' = Append(outOrder, b)
        /\ UNCHANGED <<outUri, outLease, outLive>>
    BY <1>2 DEF SealRow, OutboxInsert
  <2> HIDE DEF b, u
  <2>2. /\ outState' \in [Batch -> {"NONE", "PENDING_ARCHIVE", "REPLAYING", "ARCHIVED"}]
        /\ outSealed' \in [Batch -> Uri \cup {NoUri}]
    BY <1>1, <2>1 DEF OutboxTyped
  <2>3. /\ outOrder' \in Seq(Batch)
        /\ ToSet(outOrder') = ToSet(outOrder) \cup {b}
        /\ DOMAIN outOrder' = DOMAIN outOrder \cup {Len(outOrder) + 1}
        /\ outOrder'[Len(outOrder) + 1] = b
        /\ \A i \in DOMAIN outOrder : outOrder'[i] = outOrder[i]
    BY <1>1, <2>1, ListAppend DEF OutboxTyped
  <2>4. b \notin ToSet(outOrder)
    BY <1>2 DEF OutboxTyped
  <2>5. IsInjective(outOrder')
    BY <2>3, <2>4 DEF OutboxTyped, IsInjective, ToSet
  <2>6. ToSet(outOrder') = {a \in Batch : outState'[a] # "NONE"}
    BY <1>1, <2>1, <2>3 DEF OutboxTyped
  <2> QED BY <2>1, <2>2, <2>3, <2>5, <2>6 DEF OutboxTyped
<1>3. CASE UNCHANGED <<outState, outSealed, outOrder>>
  BY <1>3 DEF OutboxTyped, OutboxInsert, IsInjective, ToSet
<1> QED BY <1>2, <1>3 DEF OutboxInsert, InsertRow

(* The statement that archives an outbox row leaves a typed row.           *)
LEMMA ArchiveTyped ==
    ASSUME OutboxTyped, RunsOK, NEW w \in Worker, CommitBatch(w)
    PROVE  OutboxTyped'
<1> DEFINE u == run[w].uri
           b == ToSet(run[w].chunk)
<1>1. u \in Uri /\ b \in Batch
  BY ChunkFacts DEF ChunkWrites, CommitBatch, Seals
<1>2. CASE /\ outState[b] \in {"PENDING_ARCHIVE", "REPLAYING"}
           /\ outState' = [outState EXCEPT ![b] = "ARCHIVED"]
           /\ outSealed' = [outSealed EXCEPT ![b] = NoUri]
           /\ outUri' = [outUri EXCEPT ![b] = u]
           /\ outLease' = [outLease EXCEPT ![b] = Nobody]
           /\ outLive' = [outLive EXCEPT ![b] = FALSE]
           /\ outOrder' = outOrder
  <2> HIDE DEF b, u
  <2>1. {a \in Batch : outState'[a] # "NONE"} = {a \in Batch : outState[a] # "NONE"}
    BY <1>1, <1>2 DEF OutboxTyped
  <2>2. /\ outState' \in [Batch -> {"NONE", "PENDING_ARCHIVE", "REPLAYING", "ARCHIVED"}]
        /\ outSealed' \in [Batch -> Uri \cup {NoUri}] /\ outUri' \in [Batch -> Uri \cup {NoUri}]
        /\ outLease' \in [Batch -> Drainer \cup {Nobody}] /\ outLive' \in [Batch -> BOOLEAN]
    BY <1>1, <1>2 DEF OutboxTyped
  <2> QED BY <1>2, <2>1, <2>2 DEF OutboxTyped, IsInjective, ToSet
<1>3. CASE UNCHANGED outVars
  BY <1>3 DEF OutboxTyped, outVars, IsInjective, ToSet
<1> QED BY <1>2, <1>3 DEF CommitBatch, OutboxArchive, outVars

(* Outbox rows keep their types.                                           *)
LEMMA OutboxTypedStep ==
    ASSUME OutboxTyped, RunsOK, [ProducerNext]_pvars
    PROVE  OutboxTyped'
<1>1. CASE UNCHANGED outVars
  BY <1>1 DEF OutboxTyped, outVars, IsInjective, ToSet
<1>2. ASSUME NEW w \in Worker, ChunkWrites(w) PROVE OutboxTyped'
  BY <1>1, <1>2, InsertTyped, ArchiveTyped DEF ChunkWrites, Spool, Fallback
<1>3. ASSUME NEW w \in Drainer, NEW b \in Batch, DrainClaim(w, b) PROVE OutboxTyped'
  <2>1. /\ outState[b] # "NONE"
        /\ outState' = [outState EXCEPT ![b] = "REPLAYING"]
        /\ outLease' = [outLease EXCEPT ![b] = w] /\ outLive' = [outLive EXCEPT ![b] = TRUE]
        /\ UNCHANGED <<outSealed, outUri, outOrder>>
    BY <1>3 DEF DrainClaim, Selected, OutboxDue
  <2>2. {a \in Batch : outState'[a] # "NONE"} = {a \in Batch : outState[a] # "NONE"}
    BY <2>1 DEF OutboxTyped
  <2>3. /\ outState' \in [Batch -> {"NONE", "PENDING_ARCHIVE", "REPLAYING", "ARCHIVED"}]
        /\ outLease' \in [Batch -> Drainer \cup {Nobody}] /\ outLive' \in [Batch -> BOOLEAN]
    BY <2>1 DEF OutboxTyped
  <2> QED BY <2>1, <2>2, <2>3 DEF OutboxTyped, IsInjective, ToSet
<1>4. ASSUME NEW w \in Drainer, DrainFinish(w) PROVE OutboxTyped'
  <2> DEFINE b == run[w].job
  <2>1. CASE /\ outState[b] = "REPLAYING"
             /\ outState' = [outState EXCEPT ![b] = "PENDING_ARCHIVE"]
             /\ outLease' = [outLease EXCEPT ![b] = Nobody]
             /\ outLive' = [outLive EXCEPT ![b] = FALSE]
             /\ UNCHANGED <<outSealed, outUri, outOrder>>
    <3> HIDE DEF b
    <3>1. {a \in Batch : outState'[a] # "NONE"} = {a \in Batch : outState[a] # "NONE"}
      BY <2>1 DEF OutboxTyped
    <3>2. /\ outState' \in [Batch -> {"NONE", "PENDING_ARCHIVE", "REPLAYING", "ARCHIVED"}]
          /\ outLease' \in [Batch -> Drainer \cup {Nobody}] /\ outLive' \in [Batch -> BOOLEAN]
      BY <2>1 DEF OutboxTyped
    <3> QED BY <2>1, <3>1, <3>2 DEF OutboxTyped, IsInjective, ToSet
  <2> QED BY <1>1, <1>4, <2>1 DEF DrainFinish, outVars
<1>5. ASSUME NEW b \in Batch, OutboxLeaseLapses(b) PROVE OutboxTyped'
  BY <1>5 DEF OutboxLeaseLapses, OutboxTyped, IsInjective, ToSet
<1> QED BY <1>1, <1>2, <1>3, <1>4, <1>5, TableSteps
        DEF OutboxWrites, R2Writes, R2Claim, R2Finish, R2LeaseLapses, Consumers, TablesSame

(* Staged rows keep theirs.                                                *)
LEMMA R2TypedStep ==
    ASSUME R2Typed, RunsOK, [ProducerNext]_pvars
    PROVE  R2Typed'
<1>1. CASE UNCHANGED r2Vars
  BY <1>1 DEF R2Typed, r2Vars
<1>2. ASSUME NEW w \in Worker, ChunkWrites(w) PROVE R2Typed'
  <2>1. ASSUME Stage2R2(w), UNCHANGED <<r2Lease, r2Live>> PROVE R2Typed'
    <3>1. run[w].chunk \in Uri
      BY <1>2, ChunkFacts
    <3> QED BY <2>1, <3>1 DEF Stage2R2, R2Typed
  <2> QED BY <1>1, <1>2, <2>1 DEF ChunkWrites, OutboxInsert, Spool, CommitBatch, Fallback, r2Vars
<1>3. ASSUME NEW w \in R2Drainer, NEW b \in Batch, R2Claim(w, b) PROVE R2Typed'
  BY <1>3 DEF R2Claim, R2Typed
<1>4. ASSUME NEW w \in R2Drainer, R2Finish(w) PROVE R2Typed'
  <2> DEFINE b == run[w].job
  <2>1. \/ UNCHANGED r2Vars
        \/ /\ \E st \in {"PENDING_B2", "B2_VERIFIED"} : r2State' = [r2State EXCEPT ![b] = st]
           /\ r2Lease' = [r2Lease EXCEPT ![b] = Nobody]
           /\ r2Live' = [r2Live EXCEPT ![b] = FALSE]
           /\ r2Sealed' = r2Sealed
    BY <1>4 DEF R2Finish, r2Vars
  <2> HIDE DEF b
  <2> QED BY <1>1, <2>1 DEF R2Typed
<1>5. ASSUME NEW b \in Batch, R2LeaseLapses(b) PROVE R2Typed'
  BY <1>5 DEF R2LeaseLapses, R2Typed
<1> QED BY <1>1, <1>2, <1>3, <1>4, <1>5, TableSteps
        DEF OutboxWrites, R2Writes, DrainClaim, DrainFinish, OutboxLeaseLapses, Consumers,
            TablesSame

(* So do the journal and the bucket.                                       *)
LEMMA StoreTypedStep ==
    ASSUME ProducerTypeOK, RunsOK, [ProducerNext]_pvars
    PROVE  StoreTypeOK' /\ b2' \in SUBSET Uri
<1>1. CASE UNCHANGED <<storeVars, b2>>
  BY <1>1 DEF ProducerTypeOK, StoreTypeOK, storeVars
<1>2. ASSUME NEW w \in Worker, Spool(w) PROVE StoreTypeOK' /\ b2' \in SUBSET Uri
  <2>1. run[w].uri \in Uri
    BY <1>2, ChunkFacts DEF ChunkWrites, Spool, Seals
  <2>2. UNCHANGED storeVars /\ b2' \in SUBSET Uri
    BY <1>2, <2>1 DEF Spool, ProducerTypeOK
  <2> QED BY <2>2 DEF ProducerTypeOK, StoreTypeOK, storeVars
<1>3. ASSUME NEW w \in Worker, CommitBatch(w) PROVE StoreTypeOK' /\ b2' \in SUBSET Uri
  <2>1. run[w].uri \in Uri
    BY <1>3, ChunkFacts DEF ChunkWrites, CommitBatch, Seals
  <2>2. CASE JournalBatch(run[w].uri)
    BY <1>3, <2>1, <2>2, JournalForward DEF CommitBatch, ProducerTypeOK
  <2> QED BY <1>1, <1>3, <2>2 DEF CommitBatch
<1>4. CASE Consumers
  <2>1. PICK u \in Consumed : SettlementStep(u)
    BY <1>4 DEF Consumers
  <2> QED BY <1>4, <2>1, SettlementForward, ProducerAssumption DEF Consumers, ProducerTypeOK
<1> QED BY <1>1, <1>2, <1>3, <1>4, TableSteps
        DEF ChunkWrites, OutboxWrites, R2Writes, OutboxInsert, Fallback, DrainClaim, DrainFinish,
            OutboxLeaseLapses, R2Claim, R2Finish, R2LeaseLapses, TablesSame

(* Only a bounded number of things go wrong, and the circuit and the       *)
(* cursors hold what they should.                                          *)
LEMMA RestTypedStep ==
    ASSUME ProducerTypeOK, RunsOK, [ProducerNext]_pvars
    PROVE  failures' \in 0..MaxFailures /\ held' \in BOOLEAN /\ advanced' \in SUBSET Candidate
<1>1. failures' \in 0..MaxFailures
  <2>1. Failure \/ UNCHANGED failures
    BY DEF ProducerNext, CallerNext, BatchStep, FinishRun, ReadGuard, Scan, EndScan, NextChunk,
           OutboxInsert, OutboxOpen, Spool, CommitBatch, Register, Fallback, Hold, FinishSource,
           DrainFinish, R2Finish, Evicted, Poll, DrainClaim, R2Claim, OutboxLeaseLapses,
           R2LeaseLapses, HoldExpires, Consumers, pvars
  <2> QED BY <2>1, ProducerAssumption DEF Failure, ProducerTypeOK
<1>2. held' \in BOOLEAN
  <2>1. \/ UNCHANGED held
        \/ held' = FALSE
        \/ \E w \in Worker : held' = (held \/ run[w].trip)
    BY DEF ProducerNext, CallerNext, BatchStep, FinishRun, ReadGuard, Scan, EndScan, NextChunk,
           OutboxInsert, OutboxOpen, Spool, CommitBatch, Register, Fallback, Hold, FinishSource,
           DrainFinish, R2Finish, Evicted, Poll, DrainClaim, R2Claim, OutboxLeaseLapses,
           R2LeaseLapses, HoldExpires, Consumers, pvars
  <2> QED BY <2>1 DEF ProducerTypeOK
<1>3. advanced' \in SUBSET Candidate
  <2>1. \/ UNCHANGED advanced
        \/ \E w \in Worker : FinishSource(w)
    BY DEF ProducerNext, CallerNext, BatchStep, FinishRun, ReadGuard, Scan, EndScan, NextChunk,
           OutboxInsert, OutboxOpen, Spool, CommitBatch, Register, Fallback, Hold, DrainFinish,
           R2Finish, Evicted, Poll, DrainClaim, R2Claim, OutboxLeaseLapses, R2LeaseLapses,
           HoldExpires, Consumers, pvars
  <2>2. ASSUME NEW w \in Worker, FinishSource(w) PROVE advanced' \in SUBSET Candidate
    <3>1. ToSet(run[w].offers) \subseteq Candidate
      BY DEF RunsOK, Run, ToSet
    <3> QED BY <2>2, <3>1 DEF FinishSource, ProducerTypeOK
  <2> QED BY <2>1, <2>2 DEF ProducerTypeOK
<1> QED BY <1>1, <1>2, <1>3

(* The types, by table.                                                    *)
LEMMA TypeParts ==
    ProducerTypeOK <=>
      /\ StoreTypeOK /\ b2 \in SUBSET Uri
      /\ OutboxTyped /\ R2Typed
      /\ held \in BOOLEAN
      /\ run \in [Worker -> Run]
      /\ \A w \in Worker : run[w].durable \cup run[w].staged \subseteq ToSet(run[w].offers)
      /\ advanced \in SUBSET Candidate
      /\ failures \in 0..MaxFailures
BY DEF ProducerTypeOK, OutboxTyped, R2Typed

(* Every step keeps all types, and every run in order.                     *)
LEMMA ProducerTypeStep ==
    ASSUME ProducerTypeOK, RowsSealed, \A w \in Worker : RunOK(run[w]), \A w \in Worker : Knows(w),
           [ProducerNext]_pvars
    PROVE  ProducerTypeOK' /\ RunsOK'
<1>1. RunsOK
  BY DEF RunsOK, ProducerTypeOK
<1>2. RunsOK'
  BY <1>1, RunsStep
<1>3. OutboxTyped' /\ R2Typed'
  BY <1>1, OutboxTypedStep, R2TypedStep, TypeParts
<1>4. /\ run' \in [Worker -> Run]
      /\ \A w \in Worker : run'[w].durable \cup run'[w].staged \subseteq ToSet(run'[w].offers)
  BY <1>2 DEF RunsOK, RunOK
<1>5. ProducerTypeOK'
  BY <1>1, <1>3, <1>4, StoreTypedStep, RestTypedStep DEF ProducerTypeOK, OutboxTyped, R2Typed
<1> QED BY <1>2, <1>5

(* No step takes back an object, a journaled row or bundle, or an archive, *)
(* and no row of the outbox or of R2 disappears.                           *)
LEMMA ForwardStep ==
    ASSUME ProducerTypeOK, RunsOK, [ProducerNext]_pvars
    PROVE  Forward
<1>1. CASE TablesSame
  BY <1>1 DEF TablesSame, Forward, storeVars, outVars, r2Vars
<1>2. ASSUME NEW w \in Worker, ChunkWrites(w) PROVE Forward
  <2> DEFINE b == ToSet(run[w].chunk)
             u == run[w].uri
  <2>1. b \in Batch /\ (At(w, "spool") \/ At(w, "commit") => u \in Uri)
    BY <1>2, ChunkFacts DEF Seals
  <2>2. CASE OutboxInsert(w)
    <3>1. UNCHANGED <<storeVars, b2, outUri, r2Vars>>
      BY <2>2 DEF OutboxInsert
    <3>2. \/ UNCHANGED outState
          \/ outState[b] = "NONE" /\ outState' = [outState EXCEPT ![b] = "PENDING_ARCHIVE"]
      BY <2>2 DEF OutboxInsert, InsertRow, SealRow
    <3> HIDE DEF b
    <3> QED BY <2>1, <3>1, <3>2 DEF Forward, ProducerTypeOK, storeVars, r2Vars
  <2>3. CASE Spool(w)
    BY <2>3 DEF Spool, Forward, storeVars, outVars, r2Vars
  <2>4. CASE CommitBatch(w)
    <3>1. UNCHANGED <<b2, r2Vars>>
      BY <2>4 DEF CommitBatch
    <3>2. /\ \A c \in Candidate : rowUri[c] # NoUri => rowUri'[c] = rowUri[c]
          /\ \A v \in Uri : bundleState[v] # "NONE" => bundleState'[v] # "NONE"
      <4>1. CASE JournalBatch(u)
        BY <2>1, <2>4, <4>1, JournalForward DEF CommitBatch
      <4>2. CASE UNCHANGED storeVars
        BY <4>2 DEF storeVars
      <4> QED BY <2>4, <4>1, <4>2 DEF CommitBatch
    <3>3. \/ UNCHANGED <<outState, outUri>>
          \/ /\ outState[b] # "ARCHIVED"
             /\ outState' = [outState EXCEPT ![b] = "ARCHIVED"]
             /\ outUri' = [outUri EXCEPT ![b] = u]
      BY <2>4 DEF CommitBatch, OutboxArchive
    <3> HIDE DEF b, u
    <3> QED BY <2>1, <3>1, <3>2, <3>3 DEF Forward, ProducerTypeOK, r2Vars
  <2>5. CASE Fallback(w)
    <3>1. UNCHANGED <<storeVars, b2, outVars>>
      BY <2>5 DEF Fallback
    <3>2. UNCHANGED r2State \/ r2State' = [r2State EXCEPT ![b] = "PENDING_B2"]
      BY <2>5 DEF Fallback, Stage2R2
    <3> HIDE DEF b
    <3> QED BY <2>1, <3>1, <3>2 DEF Forward, ProducerTypeOK, storeVars, outVars
  <2> QED BY <1>2, <2>2, <2>3, <2>4, <2>5 DEF ChunkWrites
<1>3. CASE OutboxWrites
  <2>1. UNCHANGED <<storeVars, b2, outUri, r2Vars>>
    BY <1>3 DEF OutboxWrites, DrainClaim, DrainFinish, OutboxLeaseLapses
  <2>2. \/ UNCHANGED outState
        \/ \E b, st : /\ outState[b] \in {"PENDING_ARCHIVE", "REPLAYING"}
                      /\ st \in {"PENDING_ARCHIVE", "REPLAYING"}
                      /\ outState' = [outState EXCEPT ![b] = st]
    BY <1>3 DEF OutboxWrites, DrainClaim, DrainFinish, OutboxLeaseLapses, Selected, OutboxDue
  <2> QED BY <2>1, <2>2 DEF Forward, ProducerTypeOK, storeVars, r2Vars
<1>4. CASE R2Writes
  <2>1. UNCHANGED <<storeVars, b2, outVars>>
    BY <1>4 DEF R2Writes, R2Claim, R2Finish, R2LeaseLapses
  <2>2. \/ UNCHANGED r2State
        \/ \E b, st : st # "NONE" /\ r2State' = [r2State EXCEPT ![b] = st]
    <3>1. ASSUME NEW w \in R2Drainer, R2Finish(w)
          PROVE  \/ UNCHANGED r2State
                 \/ \E st : st # "NONE" /\ r2State' = [r2State EXCEPT ![run[w].job] = st]
      <4>1. /\ (IF R2Proven(w) THEN "B2_VERIFIED" ELSE "PENDING_B2") # "NONE"
            /\ "PENDING_B2" # "NONE"
        OBVIOUS
      <4> QED BY <3>1, <4>1 DEF R2Finish
    <3>2. ASSUME NEW w \in R2Drainer, NEW b \in Batch, R2Claim(w, b)
          PROVE  "PROCESSING" # "NONE" /\ r2State' = [r2State EXCEPT ![b] = "PROCESSING"]
      BY <3>2 DEF R2Claim
    <3>3. ASSUME NEW b \in Batch, R2LeaseLapses(b) PROVE UNCHANGED r2State
      BY <3>3 DEF R2LeaseLapses
    <3> QED BY <1>4, <3>1, <3>2, <3>3 DEF R2Writes
  <2> QED BY <2>1, <2>2 DEF Forward, ProducerTypeOK, storeVars, outVars
<1>5. CASE Consumers
  <2>1. PICK u \in Consumed : SettlementStep(u)
    BY <1>5 DEF Consumers
  <2>2. /\ rowUri' = rowUri
        /\ \A v \in Uri : bundleState[v] # "NONE" => bundleState'[v] # "NONE"
    BY <2>1, SettlementForward, ProducerAssumption
  <2> QED BY <1>5, <2>2 DEF Consumers, Forward, outVars, r2Vars
<1> QED BY <1>1, <1>2, <1>3, <1>4, <1>5, TableSteps

(***************************************************************************)
(* The sealed payloads.                                                    *)
(***************************************************************************)

(* The rows of the outbox and of R2 that are open hold their batch sealed. *)
LEMMA RowsSealedStep ==
    ASSUME ProducerTypeOK, RunsOK, RowsSealed, [ProducerNext]_pvars
    PROVE  RowsSealed'
<1> DEFINE Open  == {"PENDING_ARCHIVE", "REPLAYING"}
           OutOK == \A b \in Batch : outState'[b] \in Open => Seals(outSealed'[b], b)
           R2OK  == \A b \in Batch : r2State'[b] # "NONE" => Seals(r2Sealed'[b], b)
<1>1. ASSUME UNCHANGED <<outState, outSealed>> PROVE OutOK
  BY <1>1 DEF RowsSealed
<1>2. ASSUME UNCHANGED <<r2State, r2Sealed>> PROVE R2OK
  BY <1>2 DEF RowsSealed
<1>3. ASSUME NEW w \in Worker, OutboxInsert(w) PROVE OutOK
  <2> DEFINE u == run[w].chunk
             b == ToSet(u)
  <2>1. b \in Batch /\ Seals(u, b)
    BY <1>3, ChunkFacts DEF ChunkWrites
  <2>2. \/ UNCHANGED <<outState, outSealed>>
        \/ /\ outState' = [outState EXCEPT ![b] = "PENDING_ARCHIVE"]
           /\ outSealed' = [outSealed EXCEPT ![b] = u]
    BY <1>3 DEF OutboxInsert, InsertRow, SealRow
  <2> HIDE DEF b, u
  <2> QED BY <1>1, <2>1, <2>2 DEF RowsSealed, ProducerTypeOK
<1>4. ASSUME NEW w \in Worker, CommitBatch(w) PROVE OutOK
  <2> DEFINE b == ToSet(run[w].chunk)
  <2>1. \/ UNCHANGED <<outState, outSealed>>
        \/ /\ outState' = [outState EXCEPT ![b] = "ARCHIVED"]
           /\ outSealed' = [outSealed EXCEPT ![b] = NoUri]
    BY <1>4 DEF CommitBatch, OutboxArchive
  <2> HIDE DEF b
  <2> QED BY <1>1, <2>1 DEF RowsSealed, ProducerTypeOK
<1>5. ASSUME OutboxWrites PROVE OutOK
  <2>1. outSealed' = outSealed
    BY <1>5 DEF OutboxWrites, DrainClaim, DrainFinish, OutboxLeaseLapses
  <2>2. \/ UNCHANGED outState
        \/ \E b, st : /\ outState[b] \in {"PENDING_ARCHIVE", "REPLAYING"}
                      /\ st \in {"PENDING_ARCHIVE", "REPLAYING"}
                      /\ outState' = [outState EXCEPT ![b] = st]
    BY <1>5 DEF OutboxWrites, DrainClaim, DrainFinish, OutboxLeaseLapses, Selected, OutboxDue
  <2> QED BY <2>1, <2>2 DEF RowsSealed, ProducerTypeOK
<1>6. ASSUME NEW w \in Worker, Fallback(w) PROVE R2OK
  <2> DEFINE u == run[w].chunk
             b == ToSet(u)
  <2>1. b \in Batch /\ Seals(u, b)
    BY <1>6, ChunkFacts DEF ChunkWrites
  <2>2. \/ UNCHANGED <<r2State, r2Sealed>>
        \/ /\ r2State' = [r2State EXCEPT ![b] = "PENDING_B2"]
           /\ r2Sealed' = [r2Sealed EXCEPT ![b] = u]
    BY <1>6 DEF Fallback, Stage2R2
  <2> HIDE DEF b, u
  <2> QED BY <1>2, <2>1, <2>2 DEF RowsSealed, ProducerTypeOK
<1>7. ASSUME R2Writes PROVE R2OK
  <2>1. r2Sealed' = r2Sealed
    BY <1>7 DEF R2Writes, R2Claim, R2Finish, R2LeaseLapses
  <2>2. \/ UNCHANGED r2State
        \/ \E b, st : r2State[b] # "NONE" /\ r2State' = [r2State EXCEPT ![b] = st]
    BY <1>7 DEF R2Writes, R2Claim, R2Due, R2Finish, R2LeaseLapses
  <2> QED BY <2>1, <2>2 DEF RowsSealed, ProducerTypeOK
<1>8. OutOK
  <2>1. \/ UNCHANGED <<outState, outSealed>>
        \/ OutboxWrites
        \/ \E w \in Worker : OutboxInsert(w) \/ CommitBatch(w)
    BY TableSteps DEF TablesSame, outVars, ChunkWrites, Spool, Fallback, Consumers,
                      R2Writes, R2Claim, R2Finish, R2LeaseLapses
  <2> QED BY <1>1, <1>3, <1>4, <1>5, <2>1
<1>9. R2OK
  <2>1. \/ UNCHANGED <<r2State, r2Sealed>>
        \/ R2Writes
        \/ \E w \in Worker : Fallback(w)
    BY TableSteps DEF TablesSame, r2Vars, ChunkWrites, Spool, OutboxInsert, CommitBatch, Consumers,
                      OutboxWrites, DrainClaim, DrainFinish, OutboxLeaseLapses
  <2> QED BY <1>2, <1>6, <1>7, <2>1
<1> QED BY <1>8, <1>9 DEF RowsSealed

(* B2 before D1: the journal is written after the object was read back.    *)
LEMMA RowsStoredStep ==
    ASSUME ProducerTypeOK, RunsOK, RowsStored, \A w \in Worker : Knows(w), [ProducerNext]_pvars
    PROVE  RowsStored'
<1>1. Forward
  BY ForwardStep
<1>2. ASSUME UNCHANGED rowUri PROVE RowsStored'
  BY <1>1, <1>2 DEF RowsStored, Forward
<1>3. ASSUME NEW w \in Worker, CommitBatch(w), JournalBatch(run[w].uri) PROVE RowsStored'
  <2>1. run[w].uri \in Uri /\ run[w].uri \in b2
    BY <1>3, ChunkFacts DEF ChunkWrites, CommitBatch, Seals, Knows
  <2>2. \A c \in Candidate : rowUri'[c] = rowUri[c] \/ rowUri'[c] = run[w].uri
    BY <1>3, <2>1, JournalForward
  <2> QED BY <1>1, <2>1, <2>2 DEF RowsStored, Forward
<1>4. CASE Consumers
  <2>1. rowUri' = rowUri
    BY <1>4, SettlementForward, ProducerAssumption DEF Consumers
  <2> QED BY <1>2, <2>1
<1> QED BY <1>2, <1>3, <1>4, TableSteps
        DEF TablesSame, storeVars, ChunkWrites, OutboxInsert, Spool, CommitBatch, Fallback,
            OutboxWrites, DrainClaim, DrainFinish, OutboxLeaseLapses,
            R2Writes, R2Claim, R2Finish, R2LeaseLapses

(***************************************************************************)
(* What a run knows.                                                       *)
(***************************************************************************)

(* Other runs cannot take away what a run knows ...                        *)
LEMMA KnowsStays ==
    ASSUME Forward, RunsOK, NEW w \in Worker, Knows(w), run'[w] = run[w]
    PROVE  Knows(w)'
<1>1. run[w] \in Run /\ RunOK(run[w])
  BY DEF RunsOK
<1>2. At(w, "open") => ToSet(run[w].chunk) \in Batch
  BY <1>1, BundleIsList DEF At, RunOK, Bundling
<1>3. run[w].durable \subseteq Candidate
  BY <1>1 DEF Run
<1> QED BY <1>2, <1>3 DEF Knows, At, Forward

(* ... nor does it forget, as long as it goes on with what it was given.   *)
LEMMA KnowsOn ==
    ASSUME Forward, RunsOK, NEW w \in Worker, Knows(w),
           run[w].pc # "idle", run'[w].pc \notin {"open", "commit", "register"},
           run'[w].job = run[w].job, run'[w].offers = run[w].offers,
           run'[w].durable = run[w].durable
    PROVE  Knows(w)'
<1>1. run[w].durable \subseteq Candidate
  BY DEF RunsOK, Run
<1> QED BY <1>1 DEF Knows, At, Forward

(* The run's record after the helpers of its steps.                        *)
LEMMA RunAfterThrow ==
    ASSUME RunsOK, NEW w \in Worker, NEW r2, NEW trip, Throw(w, r2, trip)
    PROVE  /\ run'[w].pc \in {"fallback", "hold"} /\ run'[w].job = run[w].job
           /\ run'[w].offers = run[w].offers /\ run'[w].durable = run[w].durable
           /\ run'[w].staged = run[w].staged
           /\ run'[w].chunk = run[w].chunk /\ run'[w].uri = run[w].uri
           /\ \A v \in Worker \ {w} : run'[v] = run[v]
<1>1. run \in [Worker -> Run]
  BY DEF RunsOK
<1> QED BY <1>1 DEF Throw, Run

(* What a run knows is not changed by going on.                            *)
LEMMA RunAfterMove ==
    ASSUME RunsOK, NEW w \in Worker, NEW stage, MoveTo(w, stage)
    PROVE  /\ run'[w].pc = stage /\ run'[w].job = run[w].job
           /\ run'[w].offers = run[w].offers /\ run'[w].durable = run[w].durable
           /\ run'[w].staged = run[w].staged
           /\ run'[w].chunk = run[w].chunk /\ run'[w].uri = run[w].uri
           /\ \A v \in Worker \ {w} : run'[v] = run[v]
<1>1. run \in [Worker -> Run]
  BY DEF RunsOK
<1> QED BY <1>1 DEF MoveTo, Run

(* Every step of the chunk loop keeps the offers and the job, and adds to  *)
(* the durable candidates only those with a journal row of their own.      *)
LEMMA BatchStepRun ==
    ASSUME ProducerTypeOK, RunsOK, R2VerifiedIsJournaled, NEW w \in Worker, BatchStep(w)
    PROVE  /\ run[w].pc # "idle"
           /\ run'[w].job = run[w].job /\ run'[w].offers = run[w].offers
           /\ \A c \in run'[w].durable \ run[w].durable : rowUri[c] # NoUri
           /\ \A v \in Worker \ {w} : run'[v] = run[v]
           /\ run'[w].pc = "open" => OutboxInsert(w) /\ run'[w].chunk = run[w].chunk
           /\ run'[w].pc = "commit" => Spool(w) /\ run'[w].uri = run[w].uri
           /\ run'[w].pc = "register" => CommitBatch(w) /\ run'[w].uri = run[w].uri
<1> DEFINE old == run[w]
<1>1. run \in [Worker -> Run] /\ old \in Run
  BY DEF RunsOK
<1>2. CASE ReadGuard(w) \/ EndScan(w) \/ NextChunk(w) \/ OutboxOpen(w)
  <2>1. CASE ReadGuard(w)
    BY <1>1, <2>1 DEF ReadGuard, At, Run
  <2>2. CASE EndScan(w)
    BY <1>1, <2>2 DEF EndScan, MoveTo, At, Run
  <2>3. CASE NextChunk(w)
    BY <1>1, <2>3 DEF NextChunk, At, Run
  <2>4. CASE OutboxOpen(w)
    <3>1. old.pc = "open"
      BY <2>4 DEF OutboxOpen, At
    <3>2. \/ Throw(w, FALSE, FALSE)
          \/ \E own, uri : run' = [run EXCEPT ![w].pc = "spool", ![w].leased = own, ![w].uri = uri]
      BY <2>4 DEF OutboxOpen
    <3>3. CASE Throw(w, FALSE, FALSE)
      BY <3>1, <3>3, RunAfterThrow
    <3>4. ASSUME NEW own, NEW uri,
                 run' = [run EXCEPT ![w].pc = "spool", ![w].leased = own, ![w].uri = uri]
          PROVE  /\ run'[w].pc = "spool" /\ run'[w].job = old.job
                 /\ run'[w].offers = old.offers /\ run'[w].durable = old.durable
                 /\ \A v \in Worker \ {w} : run'[v] = run[v]
      BY <1>1, <3>4 DEF Run
    <3> QED BY <3>1, <3>2, <3>3, <3>4
  <2> QED BY <1>2, <2>1, <2>2, <2>3, <2>4
<1>3. CASE Scan(w)
  <2>1. \/ run' = [run EXCEPT ![w].seen = @ + 1]
        \/ \E c : RowHolds(c) /\ run' = [run EXCEPT ![w].seen = @ + 1, ![w].durable = @ \cup {c}]
        \/ \E c : run' = [run EXCEPT ![w].seen = @ + 1, ![w].pending = Append(@, c)]
    BY <1>3 DEF Scan
  <2>2. old.pc = "scan"
    BY <1>3 DEF Scan, At
  <2>3. CASE run' = [run EXCEPT ![w].seen = @ + 1]
    BY <1>1, <2>2, <2>3 DEF Run
  <2>4. ASSUME NEW c, RowHolds(c),
               run' = [run EXCEPT ![w].seen = @ + 1, ![w].durable = @ \cup {c}]
        PROVE  /\ run'[w].pc = "scan" /\ run'[w].job = old.job /\ run'[w].offers = old.offers
               /\ \A d \in run'[w].durable \ old.durable : rowUri[d] # NoUri
               /\ \A v \in Worker \ {w} : run'[v] = run[v]
    BY <1>1, <2>2, <2>4 DEF Run, RowHolds
  <2>5. ASSUME NEW c, run' = [run EXCEPT ![w].seen = @ + 1, ![w].pending = Append(@, c)]
        PROVE  /\ run'[w].pc = "scan" /\ run'[w].job = old.job /\ run'[w].offers = old.offers
               /\ run'[w].durable = old.durable
               /\ \A v \in Worker \ {w} : run'[v] = run[v]
    BY <1>1, <2>2, <2>5 DEF Run
  <2> QED BY <2>1, <2>2, <2>3, <2>4, <2>5
<1>4. CASE OutboxInsert(w)
  BY <1>4, RunAfterThrow, RunAfterMove DEF OutboxInsert, At
<1>5. CASE Spool(w)
  BY <1>5, RunAfterThrow, RunAfterMove DEF Spool, At
<1>6. CASE CommitBatch(w)
  BY <1>6, RunAfterThrow, RunAfterMove DEF CommitBatch, At
<1>7. CASE Register(w)
  <2>1. old.pc = "register"
    BY <1>7 DEF Register, At
  <2>2. CASE Throw(w, FALSE, FALSE)
    BY <2>1, <2>2, RunAfterThrow
  <2>3. CASE /\ Registered(w)
             /\ run' = [run EXCEPT ![w] = [NextOf(w) EXCEPT !.durable = @ \cup ToSet(old.chunk)]]
    <3>1. old.uri \in Uri /\ old.uri # NoUri
      BY <2>1, StoreAssumption DEF RunsOK, RunOK, Seals
    <3>2. \A c \in ToSet(old.chunk) : rowUri[c] # NoUri
      BY <2>3, <3>1 DEF Registered, JournalOf
    <3> QED BY <1>1, <2>1, <2>3, <3>2 DEF NextOf, Run
  <2> QED BY <1>7, <2>2, <2>3 DEF Register
<1>8. CASE Fallback(w)
  <2> DEFINE b == ToSet(old.chunk)
  <2>1. old.pc = "fallback" /\ b \in Batch
    BY <1>8, ChunkFacts DEF ChunkWrites, Fallback, At
  <2>2. \/ /\ \A c \in b : rowUri[c] # NoUri
           /\ run' = [run EXCEPT ![w].pc = "hold", ![w].durable = @ \cup b]
        \/ run' = [run EXCEPT ![w].pc = "hold", ![w].staged = @ \cup b]
        \/ MoveTo(w, "hold")
    BY <1>8, <2>1 DEF Fallback, R2VerifiedIsJournaled
  <2> HIDE DEF b
  <2>3. CASE /\ \A c \in b : rowUri[c] # NoUri
             /\ run' = [run EXCEPT ![w].pc = "hold", ![w].durable = @ \cup b]
    BY <1>1, <2>1, <2>3 DEF Run
  <2>4. CASE run' = [run EXCEPT ![w].pc = "hold", ![w].staged = @ \cup b]
    BY <1>1, <2>1, <2>4 DEF Run
  <2>5. CASE MoveTo(w, "hold")
    BY <2>1, <2>5, RunAfterMove
  <2> QED BY <2>2, <2>3, <2>4, <2>5
<1>9. CASE Hold(w)
  BY <1>1, <1>9 DEF Hold, NextOf, At, Run
<1> QED BY <1>2, <1>3, <1>4, <1>5, <1>6, <1>7, <1>8, <1>9 DEF BatchStep

(* What the worker in a chunk knows is still true after its own step.      *)
LEMMA KnowsAfterBatchStep ==
    ASSUME ProducerTypeOK, RunsOK, RunsOK', R2VerifiedIsJournaled, Forward,
           NEW w \in Worker, Knows(w), BatchStep(w)
    PROVE  Knows(w)'
<1>1. /\ run[w].pc # "idle"
      /\ run'[w].job = run[w].job /\ run'[w].offers = run[w].offers
      /\ \A c \in run'[w].durable \ run[w].durable : rowUri[c] # NoUri
      /\ run'[w].pc = "open" => OutboxInsert(w) /\ run'[w].chunk = run[w].chunk
      /\ run'[w].pc = "commit" => Spool(w) /\ run'[w].uri = run[w].uri
      /\ run'[w].pc = "register" => CommitBatch(w) /\ run'[w].uri = run[w].uri
  BY BatchStepRun
<1>2. run'[w].durable \subseteq Candidate
  BY DEF RunsOK, Run
<1>3. \A c \in run'[w].durable : rowUri'[c] # NoUri
  BY <1>1, <1>2 DEF Knows, Forward
<1>4. run'[w].pc = "open" => outState'[ToSet(run'[w].chunk)] # "NONE"
  <2> SUFFICES ASSUME run'[w].pc = "open" PROVE outState'[ToSet(run[w].chunk)] # "NONE"
    BY <1>1
  <2> DEFINE b == ToSet(run[w].chunk)
  <2>1. OutboxInsert(w) /\ b \in Batch
    BY <1>1, ChunkFacts DEF ChunkWrites
  <2>2. run'[w].pc # "hold" /\ run'[w].pc # "fallback"
    OBVIOUS
  <2>3. InsertRow(w)
    BY <2>1, <2>2, RunAfterThrow DEF OutboxInsert
  <2> QED BY <2>1, <2>3 DEF InsertRow, SealRow, ProducerTypeOK
<1>5. run'[w].pc = "commit" => run'[w].uri \in b2'
  <2> SUFFICES ASSUME run'[w].pc = "commit" PROVE run[w].uri \in b2'
    BY <1>1
  <2>1. Spool(w)
    BY <1>1
  <2>2. run'[w].pc # "hold" /\ run'[w].pc # "fallback"
    OBVIOUS
  <2> QED BY <2>1, <2>2, RunAfterThrow DEF Spool
<1>6. run'[w].pc = "register" => run'[w].uri \in b2'
  BY <1>1 DEF CommitBatch, Knows, Forward
<1> QED BY <1>1, <1>3, <1>4, <1>5, <1>6 DEF Knows, At

(* What each worker knows is still true after anybody's step.              *)
LEMMA KnowsStep ==
    ASSUME ProducerTypeOK, RunsOK, RunsOK', RowsSealed, R2VerifiedIsJournaled,
           \A w \in Worker : Knows(w), [ProducerNext]_pvars
    PROVE  \A w \in Worker : Knows(w)'
<1> USE ForwardStep
<1>1. ASSUME NEW w \in Worker, BatchStep(w) PROVE \A v \in Worker : Knows(v)'
  BY <1>1, BatchStepRun, KnowsAfterBatchStep, KnowsStays
<1>2. ASSUME NEW w \in Worker, FinishRun(w) \/ Evicted(w) PROVE \A v \in Worker : Knows(v)'
  <2>1. CASE run' = [run EXCEPT ![w] = Idle]
    <3>1. Knows(w)'
      BY <2>1 DEF Knows, At, Idle, RunsOK
    <3>2. \A v \in Worker \ {w} : run'[v] = run[v]
      BY <2>1 DEF RunsOK
    <3> QED BY <3>1, <3>2, KnowsStays
  <2>2. CASE \E s : run' = [run EXCEPT ![w] = [run[w] EXCEPT !.finished = @ \cup {s}]]
             /\ At(w, "done")
    <3>1. PICK s : run' = [run EXCEPT ![w] = [run[w] EXCEPT !.finished = @ \cup {s}]]
      BY <2>2
    <3>2. /\ run'[w].pc = "done" /\ run'[w].job = run[w].job
          /\ run'[w].offers = run[w].offers /\ run'[w].durable = run[w].durable
          /\ run[w].pc = "done"
          /\ \A v \in Worker \ {w} : run'[v] = run[v]
      BY <2>2, <3>1 DEF RunsOK, Run, At
    <3>3. Knows(w)'
      BY <3>2, KnowsOn
    <3> QED BY <3>2, <3>3, KnowsStays
  <2> QED BY <1>2, <2>1, <2>2 DEF FinishRun, FinishSource, DrainFinish, R2Finish, Evicted
<1>3. ASSUME NEW w \in Poller \cup Drainer, NEW offers, NEW job, Start(w, offers, job)
      PROVE  \A v \in Worker : Knows(v)'
  <2>1. w \in Worker /\ w \notin R2Drainer
    BY ProducerAssumption DEF Worker
  <2>2. run'[w].pc = "guard" /\ run'[w].durable = {}
    BY <1>3, <2>1 DEF Start, Idle, RunsOK
  <2>3. \A v \in Worker \ {w} : run'[v] = run[v]
    BY <1>3, <2>1 DEF Start, RunsOK
  <2>4. Knows(w)'
    BY <2>1, <2>2 DEF Knows, At
  <2> QED BY <2>3, <2>4, KnowsStays
<1>4. ASSUME NEW w \in R2Drainer, NEW b \in Batch, R2Claim(w, b)
      PROVE  \A v \in Worker : Knows(v)'
  <2>1. w \in Worker
    BY DEF Worker
  <2>2. Seals(r2Sealed[b], b)
    BY <1>4 DEF R2Claim, R2Due, RowsSealed
  <2>3. ToSet(r2Sealed[b]) = b
    BY <2>2, SealsBatch
  <2>4. /\ run'[w].pc = "guard" /\ run'[w].durable = {}
        /\ run'[w].job = b /\ run'[w].offers = r2Sealed[b]
    BY <1>4, <2>1 DEF R2Claim, Start, Idle, RunsOK
  <2>5. \A v \in Worker \ {w} : run'[v] = run[v]
    BY <1>4, <2>1 DEF R2Claim, Start, RunsOK
  <2>6. Knows(w)'
    BY <2>3, <2>4 DEF Knows, At
  <2> QED BY <2>5, <2>6, KnowsStays
<1>5. CASE UNCHANGED run
  BY <1>5, KnowsStays
<1> QED BY <1>1, <1>2, <1>3, <1>4, <1>5
        DEF ProducerNext, CallerNext, Poll, DrainClaim, OutboxLeaseLapses, R2LeaseLapses,
            HoldExpires, Consumers, pvars

(***************************************************************************)
(* What was accepted is kept.                                              *)
(***************************************************************************)

(* What is journaled or staged remains so.                                 *)
LEMMA KeptForward ==
    ASSUME Forward, NEW c \in Candidate
    PROVE  /\ rowUri[c] # NoUri => rowUri'[c] # NoUri
           /\ InR2(c) => InR2(c)'
           /\ Journaled(c) => Journaled(c)'
BY DEF Forward, InR2, Journaled

(* A candidate is staged only after stageP0bR2Fallback left an R2 row.     *)
LEMMA StagedByFallback ==
    ASSUME ProducerTypeOK, RunsOK, NEW w \in Worker, BatchStep(w), NEW c \in run'[w].staged
    PROVE  c \in run[w].staged \/ InR2(c)'
<1> DEFINE old == run[w]
<1>1. run \in [Worker -> Run] /\ old \in Run
  BY DEF RunsOK
<1>2. CASE Fallback(w)
  <2> DEFINE b == ToSet(old.chunk)
  <2>1. b \in Batch
    BY <1>2, ChunkFacts DEF ChunkWrites
  <2>2. CASE Stage2R2(w) /\ run' = [run EXCEPT ![w].pc = "hold", ![w].staged = @ \cup b]
    <3>1. r2State'[b] # "NONE"
      BY <2>1, <2>2 DEF Stage2R2, ProducerTypeOK
    <3> HIDE DEF b
    <3>2. run'[w].staged = old.staged \cup b
      BY <1>1, <2>2 DEF Run
    <3> QED BY <2>1, <3>1, <3>2 DEF InR2
  <2>3. CASE run' = [run EXCEPT ![w].pc = "hold", ![w].durable = @ \cup b]
    <3> HIDE DEF b
    <3> QED BY <1>1, <2>3 DEF Run
  <2>4. CASE MoveTo(w, "hold")
    BY <2>4, RunAfterMove
  <2> QED BY <1>2, <2>2, <2>3, <2>4 DEF Fallback
<1>3. CASE Throw(w, FALSE, FALSE) \/ \E r2, trip \in BOOLEAN : Throw(w, r2, trip)
  BY <1>3, RunAfterThrow
<1>4. CASE \E stage : MoveTo(w, stage)
  BY <1>4, RunAfterMove
<1>5. CASE ReadGuard(w) \/ Scan(w) \/ NextChunk(w) \/ Hold(w)
  <2>1. CASE ReadGuard(w)
    BY <1>1, <2>1 DEF ReadGuard, Run
  <2>2. CASE Scan(w)
    <3>1. \/ run' = [run EXCEPT ![w].seen = @ + 1]
          \/ \E d : run' = [run EXCEPT ![w].seen = @ + 1, ![w].durable = @ \cup {d}]
          \/ \E d : run' = [run EXCEPT ![w].seen = @ + 1, ![w].pending = Append(@, d)]
      BY <2>2 DEF Scan
    <3>2. CASE run' = [run EXCEPT ![w].seen = @ + 1]
      BY <1>1, <3>2 DEF Run
    <3>3. ASSUME NEW d, run' = [run EXCEPT ![w].seen = @ + 1, ![w].durable = @ \cup {d}]
          PROVE  run'[w].staged = old.staged
      BY <1>1, <3>3 DEF Run
    <3>4. ASSUME NEW d, run' = [run EXCEPT ![w].seen = @ + 1, ![w].pending = Append(@, d)]
          PROVE  run'[w].staged = old.staged
      BY <1>1, <3>4 DEF Run
    <3> QED BY <3>1, <3>2, <3>3, <3>4
  <2>3. CASE NextChunk(w)
    BY <1>1, <2>3 DEF NextChunk, Run
  <2>4. CASE Hold(w)
    BY <1>1, <2>4 DEF Hold, NextOf, Run
  <2> QED BY <1>5, <2>1, <2>2, <2>3, <2>4
<1>6. CASE OutboxOpen(w)
  <2>1. \/ Throw(w, FALSE, FALSE)
        \/ \E own, uri : run' = [run EXCEPT ![w].pc = "spool", ![w].leased = own, ![w].uri = uri]
    BY <1>6 DEF OutboxOpen
  <2>2. ASSUME NEW own, NEW uri,
               run' = [run EXCEPT ![w].pc = "spool", ![w].leased = own, ![w].uri = uri]
        PROVE  run'[w].staged = old.staged
    BY <1>1, <2>2 DEF Run
  <2> QED BY <1>3, <2>1, <2>2
<1>7. CASE Register(w)
  <2>1. ASSUME NEW r, r = [NextOf(w) EXCEPT !.durable = @ \cup ToSet(old.chunk)],
               run' = [run EXCEPT ![w] = r]
        PROVE  run'[w].staged = old.staged
    BY <1>1, <2>1 DEF NextOf, Run
  <2> QED BY <1>3, <1>7, <2>1 DEF Register
<1> QED BY <1>2, <1>3, <1>4, <1>5, <1>6, <1>7
        DEF BatchStep, EndScan, OutboxInsert, Spool, CommitBatch

(* What a run has counted as staged is in R2.                              *)
LEMMA StagedStep ==
    ASSUME ProducerTypeOK, RunsOK, RunsOK', R2VerifiedIsJournaled, StagedInR2, [ProducerNext]_pvars
    PROVE  StagedInR2'
<1> SUFFICES ASSUME NEW w \in Worker, NEW c \in run'[w].staged PROVE InR2(c)'
  BY DEF StagedInR2
<1>1. c \in Candidate
  BY DEF RunsOK, Run
<1>2. ASSUME c \in run[w].staged PROVE InR2(c)'
  BY <1>1, <1>2, ForwardStep, KeptForward DEF StagedInR2
<1>3. c \in run[w].staged \/ InR2(c)'
  <2>1. ASSUME NEW v \in Worker, BatchStep(v) PROVE c \in run[w].staged \/ InR2(c)'
    BY <2>1, BatchStepRun, StagedByFallback
  <2>2. ASSUME NEW v \in Worker, FinishRun(v) \/ Evicted(v) PROVE c \in run[w].staged
    <3>1. run'[w].staged = run[w].staged \/ run'[w].staged = {}
      <4>1. CASE run' = [run EXCEPT ![v] = Idle]
        BY <4>1 DEF RunsOK, Idle
      <4>2. ASSUME NEW s, run' = [run EXCEPT ![v] = [run[v] EXCEPT !.finished = @ \cup {s}]]
            PROVE  run'[w].staged = run[w].staged
        BY <4>2 DEF RunsOK, Run
      <4> QED BY <2>2, <4>1, <4>2 DEF FinishRun, FinishSource, DrainFinish, R2Finish, Evicted
    <3> QED BY <3>1
  <2>3. ASSUME NEW v \in Worker, NEW offers, NEW job, Start(v, offers, job)
        PROVE  c \in run[w].staged
    BY <2>3 DEF Start, Idle, RunsOK
  <2>4. CASE UNCHANGED run
    BY <2>4
  <2> QED BY <2>1, <2>2, <2>3, <2>4
          DEF ProducerNext, CallerNext, Poll, DrainClaim, R2Claim, OutboxLeaseLapses,
              R2LeaseLapses, HoldExpires, Consumers, pvars, Worker
<1> QED BY <1>2, <1>3

(* A cursor passes what its run made durable or staged, and nothing else.  *)
LEMMA PassedStep ==
    ASSUME ProducerTypeOK, RunsOK, \A w \in Worker : Knows(w), StagedInR2, PassedIsKept,
           [ProducerNext]_pvars
    PROVE  PassedIsKept'
<1> SUFFICES ASSUME NEW c \in advanced' PROVE rowUri'[c] # NoUri \/ InR2(c)'
  BY DEF PassedIsKept
<1>1. c \in Candidate
  BY RestTypedStep
<1>2. rowUri[c] # NoUri \/ InR2(c)
  <2>1. CASE c \in advanced
    BY <2>1 DEF PassedIsKept
  <2>2. CASE c \notin advanced
    <3>1. PICK w \in Worker : FinishSource(w)
      BY <2>2 DEF ProducerNext, CallerNext, BatchStep, FinishRun, ReadGuard, Scan, EndScan,
                  NextChunk, OutboxInsert, OutboxOpen, Spool, CommitBatch, Register, Fallback,
                  Hold, DrainFinish, R2Finish, Evicted, Poll, DrainClaim, R2Claim,
                  OutboxLeaseLapses, R2LeaseLapses, HoldExpires, Consumers, pvars
    <3>2. c \in Accepted(w)
      BY <2>2, <3>1 DEF FinishSource
    <3> QED BY <3>2 DEF Accepted, Knows, StagedInR2
  <2> QED BY <2>1, <2>2
<1> QED BY <1>1, <1>2, ForwardStep, KeptForward

(***************************************************************************)
(* Archived rows and verified batches.                                     *)
(***************************************************************************)

Covered(b, u) ==
    /\ u \in b2 /\ Manifest[u] = b
    /\ bundleState[u] # "NONE"
    /\ \A c \in b : Journaled(c)

(* A covered batch stays covered.                                          *)
LEMMA CoveredForward ==
    ASSUME ProducerTypeOK, Forward, NEW b \in Batch, NEW u, Covered(b, u)
    PROVE  Covered(b, u)'
<1>1. u \in Uri /\ \A c \in b : c \in Candidate
  BY BatchIsCandidates DEF Covered, ProducerTypeOK
<1>2. \A c \in b : Journaled(c)'
  BY <1>1, KeptForward DEF Covered
<1> QED BY <1>1, <1>2 DEF Covered, Forward

(* The CAS archives a row only in the db.batch that journals its bundle.   *)
LEMMA ArchivedStep ==
    ASSUME ProducerTypeOK, RunsOK, \A w \in Worker : Knows(w), ArchivedIsCovered,
           [ProducerNext]_pvars
    PROVE  ArchivedIsCovered'
<1> SUFFICES ASSUME NEW b \in Batch, outState'[b] = "ARCHIVED" PROVE Covered(b, outUri[b])'
  BY DEF ArchivedIsCovered, Covered
<1>1. Forward
  BY ForwardStep
<1>2. CASE outState[b] = "ARCHIVED"
  <2>1. outUri'[b] = outUri[b]
    BY <1>1, <1>2 DEF Forward
  <2>2. Covered(b, outUri[b])
    BY <1>2 DEF ArchivedIsCovered, Covered
  <2>3. ASSUME NEW u, u = outUri[b], Covered(b, u) PROVE Covered(b, u)'
    BY <1>1, <2>3, CoveredForward
  <2> QED BY <2>1, <2>2, <2>3, CoveredForward, <1>1 DEF Covered
<1>3. CASE outState[b] # "ARCHIVED"
  <2>1. PICK w \in Worker : CommitBatch(w)
    <3>1. ASSUME NEW w \in Worker, OutboxInsert(w) PROVE FALSE
      <4>1. ToSet(run[w].chunk) \in Batch
        BY <3>1, ChunkFacts DEF ChunkWrites
      <4>2. \/ outState' = outState
            \/ outState' = [outState EXCEPT ![ToSet(run[w].chunk)] = "PENDING_ARCHIVE"]
        BY <3>1 DEF OutboxInsert, InsertRow, SealRow
      <4> QED BY <1>3, <4>1, <4>2 DEF ProducerTypeOK
    <3>2. ASSUME OutboxWrites PROVE FALSE
      <4>1. \/ UNCHANGED outState
            \/ \E a, st : /\ st \in {"PENDING_ARCHIVE", "REPLAYING"}
                          /\ outState' = [outState EXCEPT ![a] = st]
        BY <3>2 DEF OutboxWrites, DrainClaim, DrainFinish, OutboxLeaseLapses
      <4> QED BY <1>3, <4>1 DEF ProducerTypeOK
    <3>3. outState' # outState
      BY <1>3
    <3> QED BY <3>1, <3>2, <3>3, TableSteps
            DEF TablesSame, outVars, ChunkWrites, Spool, Fallback, Consumers,
                R2Writes, R2Claim, R2Finish, R2LeaseLapses
  <2> DEFINE u == run[w].uri
  <2>2. Seals(u, ToSet(run[w].chunk)) /\ ToSet(run[w].chunk) \in Batch /\ u \in b2
    BY <2>1, ChunkFacts DEF ChunkWrites, CommitBatch, Knows
  <2>3. /\ b = ToSet(run[w].chunk)
        /\ outUri' = [outUri EXCEPT ![b] = u]
        /\ JournalBatch(u) /\ b2' = b2
    <3>1. OutboxArchive(w) /\ JournalBatch(u) /\ b2' = b2
      BY <1>3, <2>1 DEF CommitBatch
    <3>2. /\ outState' = [outState EXCEPT ![ToSet(run[w].chunk)] = "ARCHIVED"]
          /\ outUri' = [outUri EXCEPT ![ToSet(run[w].chunk)] = u]
      BY <1>3, <3>1 DEF OutboxArchive
    <3>3. b = ToSet(run[w].chunk)
      BY <1>3, <3>2 DEF ProducerTypeOK
    <3> QED BY <3>1, <3>2, <3>3
  <2> HIDE DEF u
  <2>4. u \in Uri /\ Manifest[u] = b /\ u \in b2'
    BY <2>2, <2>3 DEF Seals
  <2>5. bundleState'[u] # "NONE" /\ \A c \in b : Journaled(c)'
    BY <2>3, <2>4, JournalForward
  <2>6. outUri'[b] = u
    BY <2>3 DEF ProducerTypeOK
  <2> QED BY <2>4, <2>5, <2>6 DEF Covered
<1> QED BY <1>2, <1>3

(* An R2 batch is verified by a replay that made all of it durable.        *)
LEMMA R2VerifiedStep ==
    ASSUME ProducerTypeOK, RunsOK, \A w \in Worker : Knows(w), R2VerifiedIsJournaled,
           [ProducerNext]_pvars
    PROVE  R2VerifiedIsJournaled'
<1> SUFFICES ASSUME NEW b \in Batch, r2State'[b] = "B2_VERIFIED", NEW c \in b
             PROVE  rowUri'[c] # NoUri
  BY DEF R2VerifiedIsJournaled
<1>1. c \in Candidate
  BY BatchIsCandidates
<1>2. CASE r2State[b] = "B2_VERIFIED"
  <2>1. rowUri[c] # NoUri
    BY <1>2 DEF R2VerifiedIsJournaled
  <2> QED BY <1>1, <2>1, ForwardStep, KeptForward
<1>3. CASE r2State[b] # "B2_VERIFIED"
  <2>1. PICK w \in R2Drainer : R2Finish(w)
    <3>1. ASSUME NEW w \in Worker, Fallback(w) PROVE FALSE
      <4>1. \/ UNCHANGED r2State
            \/ r2State' = [r2State EXCEPT ![ToSet(run[w].chunk)] = "PENDING_B2"]
        BY <3>1 DEF Fallback, Stage2R2
      <4> QED BY <1>3, <4>1 DEF ProducerTypeOK
    <3>2. ASSUME NEW w \in R2Drainer, NEW a \in Batch, R2Claim(w, a) PROVE FALSE
      BY <1>3, <3>2 DEF R2Claim, ProducerTypeOK
    <3>3. r2State' # r2State
      BY <1>3
    <3> QED BY <3>1, <3>2, <3>3, TableSteps
            DEF TablesSame, r2Vars, ChunkWrites, Spool, OutboxInsert, CommitBatch, Consumers,
                OutboxWrites, DrainClaim, DrainFinish, OutboxLeaseLapses, R2Writes, R2LeaseLapses
  <2>2. w \in Worker /\ At(w, "done")
    BY <2>1 DEF Worker, R2Finish
  <2>3. b = run[w].job /\ R2Proven(w)
    BY <1>3, <2>1 DEF R2Finish, ProducerTypeOK
  <2>4. c \in run[w].durable
    BY <2>2, <2>3 DEF Knows, At, R2Proven
  <2>5. rowUri[c] # NoUri
    BY <2>2, <2>4 DEF Knows
  <2> QED BY <1>1, <2>5, ForwardStep, KeptForward
<1> QED BY <1>2, <1>3

(***************************************************************************)
(* The invariant.                                                          *)
(***************************************************************************)

(* The invariant holds before the first poll.                              *)
LEMMA InitProducerInv == ProducerInit => ProducerIInv
<1> SUFFICES ASSUME ProducerInit PROVE ProducerIInv
  OBVIOUS
<1> USE DEF ProducerInit, SettlementInit, StoreInit
<1>1. run = [w \in Worker |-> Idle]
  OBVIOUS
<1>2. RunsOK
  BY <1>1, IdleOK DEF RunsOK
<1>3. StoreTypeOK /\ b2 \in SUBSET Uri
  BY DEF StoreTypeOK, BundleState, RowState
<1>4. OutboxTyped
  <2>1. ToSet(<<>>) = {} /\ IsInjective(<<>>) /\ <<>> \in Seq(Batch)
    BY DEF ToSet, IsInjective
  <2> QED BY <2>1 DEF OutboxTyped
<1>5. R2Typed
  BY DEF R2Typed
<1>6. /\ held \in BOOLEAN /\ advanced \in SUBSET Candidate /\ failures \in 0..MaxFailures
  <2>1. MaxFailures \in Nat
    BY ProducerAssumption
  <2>2. held = FALSE /\ advanced = {} /\ failures = 0
    OBVIOUS
  <2>3. 0 \in 0..MaxFailures
    BY <2>1
  <2>4. held \in BOOLEAN
    BY <2>2, Zenon
  <2> QED BY <2>2, <2>3, <2>4
<1>7. ProducerTypeOK
  <2>1. /\ run \in [Worker -> Run]
        /\ \A w \in Worker : run[w].durable \cup run[w].staged \subseteq ToSet(run[w].offers)
    BY <1>2 DEF RunsOK, RunOK
  <2> QED BY <1>3, <1>4, <1>5, <1>6, <2>1, TypeParts
<1>8. RowsSealed /\ RowsStored /\ ArchivedIsCovered /\ R2VerifiedIsJournaled
  BY DEF RowsSealed, RowsStored, ArchivedIsCovered, R2VerifiedIsJournaled
<1>9. \A w \in Worker : Knows(w)
  BY <1>1 DEF Knows, At, Idle
<1>10. StagedInR2 /\ PassedIsKept
  BY <1>1 DEF StagedInR2, PassedIsKept, Idle
<1> QED BY <1>2, <1>7, <1>8, <1>9, <1>10 DEF ProducerIInv, RunsOK

(* The invariant is inductive.                                             *)
LEMMA StepProducerInv == ProducerIInv /\ [ProducerNext]_pvars => ProducerIInv'
<1> SUFFICES ASSUME ProducerIInv, [ProducerNext]_pvars PROVE ProducerIInv'
  OBVIOUS
<1>1. /\ ProducerTypeOK /\ RowsSealed /\ RowsStored /\ ArchivedIsCovered /\ R2VerifiedIsJournaled
      /\ StagedInR2 /\ PassedIsKept
      /\ \A w \in Worker : RunOK(run[w])
      /\ \A w \in Worker : Knows(w)
  BY DEF ProducerIInv
<1>2. RunsOK
  BY <1>1 DEF RunsOK, ProducerTypeOK
<1>3. ProducerTypeOK' /\ RunsOK'
  BY <1>1, ProducerTypeStep
<1>4. RowsSealed' /\ RowsStored'
  BY <1>1, <1>2, RowsSealedStep, RowsStoredStep
<1>5. \A w \in Worker : Knows(w)'
  BY <1>1, <1>2, <1>3, KnowsStep
<1>6. StagedInR2' /\ PassedIsKept'
  BY <1>1, <1>2, <1>3, StagedStep, PassedStep
<1>7. ArchivedIsCovered' /\ R2VerifiedIsJournaled'
  BY <1>1, <1>2, ArchivedStep, R2VerifiedStep
<1> QED BY <1>3, <1>4, <1>5, <1>6, <1>7 DEF ProducerIInv, RunsOK

(* It holds in every behaviour.                                            *)
LEMMA ProducerInvariance == ProducerSpec => []ProducerIInv
  BY InitProducerInv, StepProducerInv, PTL DEF ProducerSpec

(***************************************************************************)
(* The theorems.                                                           *)
(***************************************************************************)

(* The state stays well-formed: what a run sealed, opened or staged is a   *)
(* bundle, the outbox has one row per batch, and a run accepts only offers.*)
THEOREM ProducerTypeCorrect == ProducerSpec => []ProducerTypeOK
<1>1. ProducerIInv => ProducerTypeOK
  BY DEF ProducerIInv
<1> QED BY <1>1, ProducerInvariance, PTL

(* No cursor passes a candidate that is neither in B2 under its own D1 row *)
(* nor in R2, whatever fails and however polls and drains interleave.      *)
THEOREM CursorsPassDurable == ProducerSpec => []AdvancedIsDurable
<1>1. ProducerIInv => AdvancedIsDurable
  BY DEF ProducerIInv, PassedIsKept, InR2, RowsStored, AdvancedIsDurable, ProducerTypeOK
<1> QED BY <1>1, ProducerInvariance, PTL

(* An outbox row is archived only together with its journal, for an object *)
(* B2 holds, although the statements of the db.batch are guarded apart.    *)
THEOREM ArchiveIsCovered == ProducerSpec => []ArchivedIsCovered
<1>1. ProducerIInv => ArchivedIsCovered
  BY DEF ProducerIInv
<1> QED BY <1>1, ProducerInvariance, PTL

(* A batch in R2 is verified only when all of it has reached B2.           *)
THEOREM VerifiedIsJournaled == ProducerSpec => []R2VerifiedIsJournaled
<1>1. ProducerIInv => R2VerifiedIsJournaled
  BY DEF ProducerIInv
<1> QED BY <1>1, ProducerInvariance, PTL

(* No step drops or reorders a sealed payload before its row is archived,  *)
(* and none reopens or redirects an archived row.                          *)
LEMMA SealedStep ==
    ASSUME ProducerTypeOK, RunsOK, [ProducerNext]_pvars, NEW b \in Batch
    PROVE  /\ outState[b] \in {"PENDING_ARCHIVE", "REPLAYING"} =>
                outSealed'[b] = outSealed[b] \/ outState'[b] = "ARCHIVED"
           /\ outState[b] = "ARCHIVED" => outState'[b] = "ARCHIVED" /\ outUri'[b] = outUri[b]
<1>1. ASSUME outState[b] \in {"PENDING_ARCHIVE", "REPLAYING"}
      PROVE  outSealed'[b] = outSealed[b] \/ outState'[b] = "ARCHIVED"
  <2>1. ASSUME NEW w \in Worker, OutboxInsert(w) PROVE outSealed'[b] = outSealed[b]
    <3>1. \/ outSealed' = outSealed
          \/ /\ outState[ToSet(run[w].chunk)] = "NONE"
             /\ outSealed' = [outSealed EXCEPT ![ToSet(run[w].chunk)] = run[w].chunk]
      BY <2>1 DEF OutboxInsert, InsertRow, SealRow
    <3> QED BY <1>1, <3>1 DEF ProducerTypeOK
  <2>2. ASSUME NEW w \in Worker, CommitBatch(w)
        PROVE  outSealed'[b] = outSealed[b] \/ outState'[b] = "ARCHIVED"
    <3>1. \/ outSealed' = outSealed
          \/ /\ outState' = [outState EXCEPT ![ToSet(run[w].chunk)] = "ARCHIVED"]
             /\ outSealed' = [outSealed EXCEPT ![ToSet(run[w].chunk)] = NoUri]
      BY <2>2 DEF CommitBatch, OutboxArchive
    <3> QED BY <3>1 DEF ProducerTypeOK
  <2> QED BY <2>1, <2>2, TableSteps
          DEF TablesSame, outVars, ChunkWrites, Spool, Fallback, OutboxWrites, DrainClaim,
              DrainFinish, OutboxLeaseLapses, R2Writes, R2Claim, R2Finish, R2LeaseLapses, Consumers
<1>2. Forward
  BY ForwardStep
<1> QED BY <1>1, <1>2 DEF Forward

(* A payload sealed in an open outbox row is not replaced or dropped       *)
(* before the row is archived, whoever holds, loses or takes over the row. *)
THEOREM SealedStaysSealed == ProducerSpec => SealedUntilArchived
<1>1. ProducerIInv /\ [ProducerNext]_pvars =>
        [\A b \in Batch :
           /\ outState[b] \in {"PENDING_ARCHIVE", "REPLAYING"} =>
                outSealed'[b] = outSealed[b] \/ outState'[b] = "ARCHIVED"
           /\ outState[b] = "ARCHIVED" =>
                outState'[b] = "ARCHIVED" /\ outUri'[b] = outUri[b]]_pvars
  BY SealedStep DEF ProducerIInv, RunsOK, ProducerTypeOK
<1> QED BY <1>1, ProducerInvariance, PTL DEF ProducerSpec, SealedUntilArchived

(* The callers write the shared tables only by journaling a bundle whose   *)
(* object B2 holds.                                                        *)
LEMMA CallersJournal ==
    ASSUME ProducerIInv, CallerNext
    PROVE  UNCHANGED storeVars \/ \E u \in Uri : u \in b2 /\ JournalBatch(u)
<1>1. RunsOK
  BY DEF ProducerIInv, RunsOK, ProducerTypeOK
<1>2. ASSUME NEW w \in Worker, CommitBatch(w)
      PROVE  UNCHANGED storeVars \/ \E u \in Uri : u \in b2 /\ JournalBatch(u)
  <2>1. run[w].uri \in Uri
    BY <1>1, <1>2, ChunkFacts DEF ChunkWrites, CommitBatch, Seals
  <2>2. run[w].uri \in b2
    BY <1>2 DEF ProducerIInv, Knows, CommitBatch
  <2> QED BY <1>2, <2>1, <2>2 DEF CommitBatch
<1> QED BY <1>2, CallerTables
        DEF TablesSame, ChunkWrites, OutboxInsert, Spool, Fallback, OutboxWrites, DrainClaim,
            DrainFinish, OutboxLeaseLapses, R2Writes, R2Claim, R2Finish, R2LeaseLapses

(* The producers and drains touch the shared tables as the settlement      *)
(* protocol lets them: what the consumers are proved against is the system *)
(* they run in.                                                            *)
THEOREM ProducerKeepsSettlement == ProducerSpec => SettlementSpec
<1>1. ProducerInit => SettlementInit
  BY DEF ProducerInit
<1>2. ProducerIInv /\ [ProducerNext]_pvars => [SettlementNext]_storeVars
  <2> SUFFICES ASSUME ProducerIInv, [ProducerNext]_pvars PROVE SettlementNext \/ UNCHANGED storeVars
    OBVIOUS
  <2>1. RunsOK
    BY DEF ProducerIInv, RunsOK, ProducerTypeOK
  <2>2. ASSUME NEW w \in Worker, CommitBatch(w) PROVE SettlementNext \/ UNCHANGED storeVars
    <3>1. run[w].uri \in Uri
      BY <2>1, <2>2, ChunkFacts DEF ChunkWrites, CommitBatch, Seals
    <3> QED BY <2>2, <3>1 DEF CommitBatch, SettlementNext, Journal
  <2>3. CASE Consumers
    BY <2>3, ProducerAssumption DEF Consumers, SettlementNext
  <2> QED BY <2>2, <2>3, TableSteps
          DEF TablesSame, ChunkWrites, OutboxInsert, Spool, Fallback, OutboxWrites, DrainClaim,
              DrainFinish, OutboxLeaseLapses, R2Writes, R2Claim, R2Finish, R2LeaseLapses
<1> QED BY <1>1, <1>2, ProducerInvariance, PTL DEF ProducerSpec, SettlementSpec
=============================================================================
