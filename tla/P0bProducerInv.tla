--------------------------- MODULE P0bProducerInv ---------------------------
(***************************************************************************)
(* The inductive invariant of the P0-B producer: the properties of         *)
(* P0bProducer, and what a run may rely on at each stage of a chunk while  *)
(* other runs, which hold no lock on it, share the outbox, R2 and journal. *)
(***************************************************************************)
EXTENDS P0bProducer

\* Bundle u is made of the candidates of batch b.
Seals(u, b) == u \in Uri /\ Manifest[u] = b

\* A row that can still be replayed has its sealed payload.
RowsSealed ==
    /\ \A b \in Batch : outState[b] \in {"PENDING_ARCHIVE", "REPLAYING"} =>
         Seals(outSealed[b], b)
    /\ \A b \in Batch : r2State[b] # "NONE" => Seals(r2Sealed[b], b)

\* B2 before D1: a journal row names a stored object.
RowsStored == \A c \in Candidate : rowUri[c] # NoUri => rowUri[c] \in b2

Bundling == {"insert", "open", "spool", "commit", "register", "fallback"}

\* What is left to bundle was scanned, once per digest; the chunk is a bundle,
\* and after the outbox row was opened the run knows which one B2 will hold.
RunOK(r) ==
    /\ r.seen <= Len(r.offers)
    /\ ToSet(r.pending) \subseteq {r.offers[i] : i \in 1..r.seen}
    /\ \A i, j \in DOMAIN r.pending : Sha[r.pending[i]] = Sha[r.pending[j]] => i = j
    /\ r.pc \in Bundling => r.chunk \in Uri /\ ToSet(r.chunk) \subseteq ToSet(r.offers)
    /\ r.pc \in {"spool", "commit", "register"} => Seals(r.uri, ToSet(r.chunk))
    /\ r.durable \cup r.staged \subseteq ToSet(r.offers)

\* What it knows of the tables, which no other run undoes.
Knows(w) ==
    /\ At(w, "open") => outState[ToSet(run[w].chunk)] # "NONE"
    /\ At(w, "commit") \/ At(w, "register") => run[w].uri \in b2
    /\ w \in R2Drainer /\ ~At(w, "idle") =>
         run[w].job \in Batch /\ ToSet(run[w].offers) = run[w].job
    /\ \A c \in run[w].durable : rowUri[c] # NoUri

InR2(c) == \E b \in Batch : c \in b /\ r2State[b] # "NONE"

\* Accepted for R2 means an R2 row, and a cursor passes nothing else.
StagedInR2   == \A w \in Worker : \A c \in run[w].staged : InR2(c)
PassedIsKept == \A c \in advanced : rowUri[c] # NoUri \/ InR2(c)

ProducerIInv ==
    /\ ProducerTypeOK
    /\ RowsSealed
    /\ RowsStored
    /\ \A w \in Worker : RunOK(run[w])
    /\ \A w \in Worker : Knows(w)
    /\ StagedInR2
    /\ PassedIsKept
    /\ ArchivedIsCovered
    /\ R2VerifiedIsJournaled
=============================================================================
