---------------------------- MODULE P0bProducer ----------------------------
(***************************************************************************)
(* The P0-B producer (processFetchedBatch) and its three callers: source   *)
(* polls, which advance a source's cursor when everything it offered was   *)
(* accepted; drainP0bArchiveOutbox, which replays sealed outbox rows; and  *)
(* drainR2Fallback, which replays batches staged in R2.  The consumers are *)
(* their abstract specification, P0bSettlement.                            *)
(*                                                                         *)
(* A bundle is named by its ordered items: the key time and the item clocks*)
(* are the first_seen_at of the outbox row, so order and batch decide the  *)
(* B2 URI.  A batch, the key of the outbox and of R2, forgets the order.   *)
(***************************************************************************)
EXTENDS P0bSettlement, Naturals, Sequences, SequencesExt

CONSTANTS
    Poller, Drainer, R2Drainer,  \* invocations of each caller that may overlap
    Fetch,        \* what a poll window may offer: a sequence of candidates
    SourceOf,     \* candidate -> source_id
    ChunkLimit,   \* items per bundle (100 items or 320 KiB in the code)
    DrainLimit,   \* oldest due outbox rows a drain looks at (2 in the code)
    R2Enabled,    \* whether P0B_PRIVATE_FALLBACK_R2 is bound
    Consumed,     \* the bundles whose consumers run
    MaxFailures   \* bound on crashes, slow lease holders and failed calls

Worker == Poller \cup Drainer \cup R2Drainer
Batch  == {Manifest[u] : u \in Uri}

\* Every list of candidates with distinct digests that fits in a chunk.
Bundles == {s \in UNION {[1..n -> Candidate] : n \in 1..ChunkLimit} :
              \A i, j \in DOMAIN s : Sha[s[i]] = Sha[s[j]] => i = j}

ASSUME ProducerAssumption ==
    /\ Uri = Bundles /\ \A u \in Uri : Manifest[u] = ToSet(u)
    /\ \A f \in Fetch : f \in Seq(Candidate) /\ IsInjective(f)
    /\ Poller \cap Drainer = {} /\ Poller \cap R2Drainer = {} /\ Drainer \cap R2Drainer = {}
    /\ Nobody \notin Worker
    /\ ChunkLimit \in Nat \ {0} /\ DrainLimit \in Nat \ {0}
    /\ R2Enabled \in BOOLEAN /\ Consumed \subseteq Uri /\ MaxFailures \in Nat

VARIABLES
    b2,         \* the URIs whose object B2 holds
    outState,   \* p0b_archive_outbox.state, "NONE" where there is no row
    outSealed,  \* the ordered payloads sealed in the row, NoUri once archived
    outUri,     \* its b2_uri
    outLease,   \* whose lease_id it carries
    outLive,    \* its locked_until lies in the future
    outOrder,   \* the rows' batches by first_seen_at
    r2State, r2Sealed, r2Lease, r2Live,  \* the same of p0b_private_r2_fallback
    held,       \* p0b_storage_circuit.hold_until lies in the future
    run,        \* the state of each invocation
    advanced,   \* history: candidates their source's cursor has passed
    failures

outVars == <<outState, outSealed, outUri, outLease, outLive, outOrder>>
r2Vars  == <<r2State, r2Sealed, r2Lease, r2Live>>
pvars   == <<storeVars, b2, outVars, r2Vars, held, run, advanced, failures>>

RunStage == {"idle", "guard", "scan", "chunk", "insert", "open", "spool", "commit",
          "register", "fallback", "hold", "done"}

Idle == [pc |-> "idle",
         offers |-> <<>>,     \* the candidates processFetchedBatch was given
         seen |-> 0,          \* how many of them it has scanned
         stop |-> FALSE,      \* stopCode is set
         pending |-> <<>>,    \* candidates still to be bundled
         chunk |-> <<>>,      \* the candidates of the bundle being made
         uri |-> NoUri,       \* the bundle the opened outbox row stands for
         leased |-> FALSE,    \* that row was read under this run's own lease
         trip |-> FALSE,      \* the failure trips the circuit
         durable |-> {},      \* QUEUED, DURABLE_PENDING_REDISPATCH, ALREADY_COMMITTED
         staged |-> {},       \* R2_DURABLE_PENDING_B2
         finished |-> {},     \* sources whose poll is finished
         job |-> {}]          \* the outbox or R2 batch being replayed

Run == [pc : RunStage, offers : Seq(Candidate), seen : Nat, stop : BOOLEAN,
        pending : Seq(Candidate), chunk : Seq(Candidate), uri : Uri \cup {NoUri},
        leased : BOOLEAN, trip : BOOLEAN, durable : SUBSET Candidate,
        staged : SUBSET Candidate, finished : SUBSET {SourceOf[c] : c \in Candidate},
        job : SUBSET Candidate]

ProducerTypeOK ==
    /\ StoreTypeOK
    /\ b2 \in SUBSET Uri
    /\ outState \in [Batch -> {"NONE", "PENDING_ARCHIVE", "REPLAYING", "ARCHIVED"}]
    /\ outSealed \in [Batch -> Uri \cup {NoUri}] /\ outUri \in [Batch -> Uri \cup {NoUri}]
    /\ outLease \in [Batch -> Drainer \cup {Nobody}] /\ outLive \in [Batch -> BOOLEAN]
    /\ outOrder \in Seq(Batch) /\ IsInjective(outOrder)
    /\ ToSet(outOrder) = {b \in Batch : outState[b] # "NONE"}
    /\ r2State \in [Batch -> {"NONE", "PENDING_B2", "PROCESSING", "B2_VERIFIED"}]
    /\ r2Sealed \in [Batch -> Uri \cup {NoUri}]
    /\ r2Lease \in [Batch -> R2Drainer \cup {Nobody}] /\ r2Live \in [Batch -> BOOLEAN]
    /\ held \in BOOLEAN
    /\ run \in [Worker -> Run]
    /\ \A w \in Worker : run[w].durable \cup run[w].staged \subseteq ToSet(run[w].offers)
    /\ advanced \in SUBSET Candidate
    /\ failures \in 0..MaxFailures

ProducerInit ==
    /\ SettlementInit
    /\ b2 = {}
    /\ outState = [b \in Batch |-> "NONE"] /\ outSealed = [b \in Batch |-> NoUri]
    /\ outUri = [b \in Batch |-> NoUri] /\ outLease = [b \in Batch |-> Nobody]
    /\ outLive = [b \in Batch |-> FALSE] /\ outOrder = <<>>
    /\ r2State = [b \in Batch |-> "NONE"] /\ r2Sealed = [b \in Batch |-> NoUri]
    /\ r2Lease = [b \in Batch |-> Nobody] /\ r2Live = [b \in Batch |-> FALSE]
    /\ held = FALSE
    /\ run = [w \in Worker |-> Idle]
    /\ advanced = {} /\ failures = 0

Failure == failures < MaxFailures /\ failures' = failures + 1
At(w, stage) == run[w].pc = stage
MoveTo(w, stage) == run' = [run EXCEPT ![w].pc = stage]

\* throw in the chunk's try block: r2 says whether the code starts with
\* P0B_B2_, trip whether holdMillis gives it a hold.
Throw(w, r2, trip) ==
    run' = [run EXCEPT ![w].pc = IF r2 /\ R2Enabled THEN "fallback" ELSE "hold",
                       ![w].trip = trip]

\* The run as it goes on to its next chunk.
NextOf(w) == [run[w] EXCEPT !.pc = "chunk", !.chunk = <<>>, !.uri = NoUri,
                            !.leased = FALSE, !.trip = FALSE]

-----------------------------------------------------------------------------
(* processFetchedBatch: the guard, the scan of the offered candidates and  *)
(* the cut into chunks.                                                    *)

Start(w, offers, job) ==
    run' = [run EXCEPT ![w] = [Idle EXCEPT !.pc = "guard", !.offers = offers, !.job = job]]

ReadGuard(w) ==
    /\ At(w, "guard")
    /\ run' = [run EXCEPT ![w].pc = "scan", ![w].stop = held]
    /\ UNCHANGED <<storeVars, b2, outVars, r2Vars, held, advanced, failures>>

\* A row of the same source makes the candidate durable, whatever became of the
\* row's bundle: it is committed, or its bundle's message is sent once more.
RowHolds(c) == rowUri[c] # NoUri

Scan(w) ==
    LET r == run[w]
        c == r.offers[r.seen + 1]
        repeats == \E i \in 1..r.seen : Sha[r.offers[i]] = Sha[c]
    IN /\ At(w, "scan") /\ r.seen < Len(r.offers)
       /\ \/ /\ repeats \/ r.stop \/ (Journaled(c) /\ ~RowHolds(c))
             /\ run' = [run EXCEPT ![w].seen = @ + 1]
             /\ UNCHANGED failures
          \/ /\ ~repeats /\ ~r.stop /\ RowHolds(c)
             /\ run' = [run EXCEPT ![w].seen = @ + 1, ![w].durable = @ \cup {c}]
             /\ UNCHANGED failures
          \/ /\ ~repeats /\ ~r.stop /\ ~Journaled(c)
             /\ run' = [run EXCEPT ![w].seen = @ + 1, ![w].pending = Append(@, c)]
             /\ UNCHANGED failures
          \/ /\ ~repeats /\ ~r.stop /\ Failure   \* the D1 read fails
             /\ run' = [run EXCEPT ![w].seen = @ + 1]
       /\ UNCHANGED <<storeVars, b2, outVars, r2Vars, held, advanced>>

EndScan(w) ==
    /\ At(w, "scan") /\ run[w].seen = Len(run[w].offers)
    /\ MoveTo(w, "chunk")
    /\ UNCHANGED <<storeVars, b2, outVars, r2Vars, held, advanced, failures>>

Cut(p) == IF Len(p) > ChunkLimit THEN ChunkLimit ELSE Len(p)

\* Once stopped, a chunk goes to R2 or is given up without an outbox row.
NextChunk(w) ==
    LET p == run[w].pending IN
    /\ At(w, "chunk")
    /\ run' = IF p = <<>> THEN [run EXCEPT ![w].pc = "done"]
              ELSE [run EXCEPT ![w].chunk = SubSeq(p, 1, Cut(p)),
                               ![w].pending = SubSeq(p, Cut(p) + 1, Len(p)),
                               ![w].pc = IF ~run[w].stop THEN "insert"
                                         ELSE IF R2Enabled THEN "fallback" ELSE "chunk"]
    /\ UNCHANGED <<storeVars, b2, outVars, r2Vars, held, advanced, failures>>

-----------------------------------------------------------------------------
(* One chunk: outbox row, B2 object, journal, readback and message.        *)

SealRow(w) ==
    LET b == ToSet(run[w].chunk) IN
    /\ outState' = [outState EXCEPT ![b] = "PENDING_ARCHIVE"]
    /\ outSealed' = [outSealed EXCEPT ![b] = run[w].chunk]
    /\ outOrder' = Append(outOrder, b)

ReplaceRow(w) ==
    LET b == ToSet(run[w].chunk) IN
    /\ outState' = [outState EXCEPT ![b] = "PENDING_ARCHIVE"]
    /\ outSealed' = [outSealed EXCEPT ![b] = run[w].chunk]
    /\ outOrder' = Append(SelectSeq(outOrder, LAMBDA o : o # b), b)

\* INSERT ... ON CONFLICT(batch_id) DO NOTHING
InsertRow(w) ==
    IF outState[ToSet(run[w].chunk)] = "NONE"
    THEN SealRow(w)
    ELSE UNCHANGED <<outState, outSealed, outOrder>>

OutboxInsert(w) ==
    /\ At(w, "insert")
    /\ \/ InsertRow(w) /\ MoveTo(w, "open") /\ UNCHANGED failures
       \/ /\ Throw(w, FALSE, FALSE) /\ Failure
          /\ UNCHANGED <<outState, outSealed, outOrder>>
    /\ UNCHANGED <<storeVars, b2, outUri, outLease, outLive, r2Vars, held, advanced>>

\* A row another replay holds is refused; an archived one is bundled in the
\* caller's order, any other in the order it was sealed with.
OutboxOpen(w) ==
    LET b   == ToSet(run[w].chunk)
        own == outState[b] = "REPLAYING" /\ outLease[b] = w /\ run[w].job = b
    IN /\ At(w, "open")
       /\ IF outState[b] = "REPLAYING" /\ ~own
          THEN Throw(w, FALSE, FALSE)
          ELSE run' = [run EXCEPT ![w].pc = "spool", ![w].leased = own,
                         ![w].uri = IF outState[b] = "ARCHIVED" THEN run[w].chunk
                                    ELSE outSealed[b]]
       /\ UNCHANGED <<storeVars, b2, outVars, r2Vars, held, advanced, failures>>

SpoolUnread(w) ==
    /\ At(w, "spool")
    /\ b2' \in {b2, b2 \cup {run[w].uri}}
    /\ MoveTo(w, "commit") /\ UNCHANGED <<storeVars, outVars, r2Vars, held, advanced, failures>>

\* PUT and the exact GET; a failed call may have stored the object.
Spool(w) ==
    /\ At(w, "spool")
    /\ \/ b2' = b2 \cup {run[w].uri} /\ MoveTo(w, "commit") /\ UNCHANGED failures
       \/ /\ b2' \in {b2, b2 \cup {run[w].uri}}
          /\ \E r2, trip \in BOOLEAN : Throw(w, r2, trip)
          /\ Failure
    /\ UNCHANGED <<storeVars, outVars, r2Vars, held, advanced>>

\* The outbox statement of the batch: PENDING_ARCHIVE, or REPLAYING under the
\* lease that was read when the row was opened.
OutboxArchive(w) ==
    LET b == ToSet(run[w].chunk) IN
    IF \/ outState[b] = "PENDING_ARCHIVE"
       \/ outState[b] = "REPLAYING" /\ run[w].leased /\ outLease[b] = w
    THEN /\ outState' = [outState EXCEPT ![b] = "ARCHIVED"]
         /\ outSealed' = [outSealed EXCEPT ![b] = NoUri]
         /\ outUri' = [outUri EXCEPT ![b] = run[w].uri]
         /\ outLease' = [outLease EXCEPT ![b] = Nobody]
         /\ outLive' = [outLive EXCEPT ![b] = FALSE]
    ELSE UNCHANGED <<outState, outSealed, outUri, outLease, outLive>>

ArchiveFirst(w) ==
    /\ At(w, "commit")
    /\ OutboxArchive(w)
    /\ \/ JournalBatch(run[w].uri) /\ MoveTo(w, "register") /\ UNCHANGED failures
       \/ Throw(w, FALSE, FALSE) /\ Failure /\ UNCHANGED storeVars
    /\ UNCHANGED <<b2, outOrder, r2Vars, held, advanced>>

\* One db.batch, applied whole; its answer may be lost.
CommitBatch(w) ==
    /\ At(w, "commit")
    /\ \/ /\ JournalBatch(run[w].uri) /\ OutboxArchive(w)
          /\ \/ MoveTo(w, "register") /\ UNCHANGED failures
             \/ Throw(w, FALSE, FALSE) /\ Failure
       \/ /\ Throw(w, FALSE, FALSE) /\ Failure
          /\ UNCHANGED <<storeVars, outState, outSealed, outUri, outLease, outLive>>
    /\ UNCHANGED <<b2, outOrder, r2Vars, held, advanced>>

RegisteredInOutbox(w) ==
    /\ outState[ToSet(run[w].chunk)] = "ARCHIVED"
    /\ outUri[ToSet(run[w].chunk)] = run[w].uri

\* The readbacks of outbox, bundle and rows; a failed send only changes QUEUED
\* to DURABLE_PENDING_REDISPATCH.
Registered(w) ==
    LET b == ToSet(run[w].chunk) IN
    /\ outState[b] = "ARCHIVED" /\ outUri[b] = run[w].uri
    /\ JournalOf(run[w].uri) = b

Register(w) ==
    /\ At(w, "register")
    /\ \/ /\ Registered(w) /\ UNCHANGED failures
          /\ run' = [run EXCEPT ![w] = [NextOf(w) EXCEPT !.durable = @ \cup ToSet(run[w].chunk)]]
       \/ ~Registered(w) /\ Throw(w, FALSE, FALSE) /\ UNCHANGED failures
       \/ Throw(w, FALSE, FALSE) /\ Failure
    /\ UNCHANGED <<storeVars, b2, outVars, r2Vars, held, advanced>>

StageUnindexed(w) == UNCHANGED <<r2State, r2Sealed>>

\* stageP0bR2Fallback: a batch R2 already holds is verified again; the index
\* row may be inserted by a call that then fails.
Stage2R2(w) ==
    LET b == ToSet(run[w].chunk) IN
    IF r2State[b] = "NONE"
    THEN /\ r2State' = [r2State EXCEPT ![b] = "PENDING_B2"]
         /\ r2Sealed' = [r2Sealed EXCEPT ![b] = run[w].chunk]
    ELSE UNCHANGED <<r2State, r2Sealed>>

Fallback(w) ==
    LET b == ToSet(run[w].chunk) IN
    /\ At(w, "fallback")
    /\ \/ /\ Stage2R2(w) /\ UNCHANGED failures
          /\ run' = IF r2State[b] = "B2_VERIFIED"
                    THEN [run EXCEPT ![w].pc = "hold", ![w].durable = @ \cup b]
                    ELSE [run EXCEPT ![w].pc = "hold", ![w].staged = @ \cup b]
       \/ /\ Stage2R2(w) \/ UNCHANGED <<r2State, r2Sealed>>
          /\ MoveTo(w, "hold") /\ Failure
    /\ UNCHANGED <<storeVars, b2, outVars, r2Lease, r2Live, held, advanced>>

\* The circuit is tripped for all and this run stops; the UPDATE may fail.
Hold(w) ==
    /\ At(w, "hold")
    /\ run' = [run EXCEPT ![w] = [NextOf(w) EXCEPT !.stop = @ \/ run[w].trip]]
    /\ \/ held' = (held \/ run[w].trip) /\ UNCHANGED failures
       \/ run[w].trip /\ UNCHANGED held /\ Failure
    /\ UNCHANGED <<storeVars, b2, outVars, r2Vars, advanced>>

BatchStep(w) ==
    \/ ReadGuard(w) \/ Scan(w) \/ EndScan(w) \/ NextChunk(w)
    \/ OutboxInsert(w) \/ OutboxOpen(w) \/ Spool(w) \/ CommitBatch(w) \/ Register(w)
    \/ Fallback(w) \/ Hold(w)

-----------------------------------------------------------------------------
(* The callers.                                                            *)

\* pollP0aSources admits no poll while the circuit is held.
Poll(w, f) ==
    /\ w \in Poller /\ At(w, "idle") /\ ~held
    /\ Start(w, f, {})
    /\ UNCHANGED <<storeVars, b2, outVars, r2Vars, held, advanced, failures>>

\* finishP0bSource of one source: its cursor passes what it offered when all of
\* it was accepted.  The run ends with its last source.
Accepted(w) == run[w].durable \cup run[w].staged

FinishSource(w) ==
    LET r    == run[w]
        left == {i \in DOMAIN r.offers : SourceOf[r.offers[i]] \notin r.finished}
        s    == SourceOf[r.offers[Min(left)]]
        mine == {c \in ToSet(r.offers) : SourceOf[c] = s}
    IN /\ w \in Poller /\ At(w, "done")
       /\ run' = [run EXCEPT ![w] = IF \A i \in left : r.offers[i] \in mine THEN Idle
                                    ELSE [r EXCEPT !.finished = @ \cup {s}]]
       /\ \/ /\ advanced' = IF mine \subseteq Accepted(w) THEN advanced \cup mine ELSE advanced
             /\ UNCHANGED failures
          \/ UNCHANGED advanced /\ Failure
       /\ UNCHANGED <<storeVars, b2, outVars, r2Vars, held>>

OutboxDue(b) ==
    \/ outState[b] = "PENDING_ARCHIVE"
    \/ outState[b] = "REPLAYING" /\ ~outLive[b]

Older(o, b) == \E i, j \in DOMAIN outOrder : i < j /\ outOrder[i] = o /\ outOrder[j] = b

\* The DrainLimit oldest due rows.  A failed row is due again in 60 seconds,
\* which is before the next ten-minute tick.
Selected ==
    {b \in ToSet(outOrder) :
        /\ OutboxDue(b)
        /\ Cardinality({o \in ToSet(outOrder) : OutboxDue(o) /\ Older(o, b)}) < DrainLimit}

DrainClaim(w, b) ==
    /\ w \in Drainer /\ At(w, "idle") /\ ~held
    /\ b \in Selected
    /\ outState' = [outState EXCEPT ![b] = "REPLAYING"]
    /\ outLease' = [outLease EXCEPT ![b] = w]
    /\ outLive' = [outLive EXCEPT ![b] = TRUE]
    /\ Start(w, outSealed[b], b)
    /\ UNCHANGED <<storeVars, b2, outSealed, outUri, outOrder, r2Vars, held, advanced, failures>>

\* Anything but an archived row puts a row still leased back to PENDING_ARCHIVE.
DrainFinish(w) ==
    LET b      == run[w].job
        proven == ToSet(run[w].offers) \subseteq run[w].durable /\ outState[b] = "ARCHIVED"
        leased == outState[b] = "REPLAYING" /\ outLease[b] = w
    IN /\ w \in Drainer /\ At(w, "done")
       /\ run' = [run EXCEPT ![w] = Idle]
       /\ \/ /\ ~proven /\ leased
             /\ outState' = [outState EXCEPT ![b] = "PENDING_ARCHIVE"]
             /\ outLease' = [outLease EXCEPT ![b] = Nobody]
             /\ outLive' = [outLive EXCEPT ![b] = FALSE]
             /\ UNCHANGED failures
          \/ (proven \/ ~leased) /\ UNCHANGED <<outState, outLease, outLive, failures>>
          \/ ~proven /\ leased /\ Failure /\ UNCHANGED <<outState, outLease, outLive>>
       /\ UNCHANGED <<storeVars, b2, outSealed, outUri, outOrder, r2Vars, held, advanced>>

R2Pending(b) == r2State[b] = "PENDING_B2"

\* The backoff of a failing batch, up to an hour, lets younger ones through the
\* LIMIT.
R2Due(b) ==
    \/ r2State[b] = "PENDING_B2"
    \/ r2State[b] = "PROCESSING" /\ ~r2Live[b]

R2Claim(w, b) ==
    /\ w \in R2Drainer /\ At(w, "idle") /\ ~held
    /\ R2Due(b)
    /\ r2State' = [r2State EXCEPT ![b] = "PROCESSING"]
    /\ r2Lease' = [r2Lease EXCEPT ![b] = w]
    /\ r2Live' = [r2Live EXCEPT ![b] = TRUE]
    /\ Start(w, r2Sealed[b], b)
    /\ UNCHANGED <<storeVars, b2, outVars, r2Sealed, held, advanced, failures>>

R2Accepted(w) == ToSet(run[w].offers) \subseteq run[w].durable \cup run[w].staged

\* A batch that only went back to R2 is no proof.
R2Proven(w) == ToSet(run[w].offers) \subseteq run[w].durable

R2Finish(w) ==
    LET b == run[w].job
    IN /\ w \in R2Drainer /\ At(w, "done")
       /\ run' = [run EXCEPT ![w] = Idle]
       /\ \/ /\ r2State[b] = "PROCESSING" /\ r2Lease[b] = w
             /\ \/ /\ r2State' = [r2State EXCEPT ![b] = IF R2Proven(w) THEN "B2_VERIFIED"
                                                          ELSE "PENDING_B2"]
                   /\ UNCHANGED failures
                \/ r2State' = [r2State EXCEPT ![b] = "PENDING_B2"] /\ Failure
             /\ r2Lease' = [r2Lease EXCEPT ![b] = Nobody]
             /\ r2Live' = [r2Live EXCEPT ![b] = FALSE]
          \/ /\ ~(r2State[b] = "PROCESSING" /\ r2Lease[b] = w)
             /\ UNCHANGED <<r2State, r2Lease, r2Live, failures>>
          \/ UNCHANGED <<r2State, r2Lease, r2Live>> /\ Failure
       /\ UNCHANGED <<storeVars, b2, outVars, r2Sealed, held, advanced>>

-----------------------------------------------------------------------------
(* The environment.                                                        *)

\* The invocation is evicted, or a statement outside the try blocks throws.
Evicted(w) ==
    /\ ~At(w, "idle")
    /\ run' = [run EXCEPT ![w] = Idle] /\ Failure
    /\ UNCHANGED <<storeVars, b2, outVars, r2Vars, held, advanced>>

\* 15 (outbox) or 5 (R2) minutes pass; that the holder still works is a fault.
Working(w, b) == w # Nobody /\ ~At(w, "idle") /\ run[w].job = b

OutboxLeaseLapses(b) ==
    /\ outLive[b]
    /\ outLive' = [outLive EXCEPT ![b] = FALSE]
    /\ IF Working(outLease[b], b) THEN Failure ELSE UNCHANGED failures
    /\ UNCHANGED <<storeVars, b2, outState, outSealed, outUri, outLease, outOrder,
                   r2Vars, held, run, advanced>>

R2LeaseLapses(b) ==
    /\ r2Live[b]
    /\ r2Live' = [r2Live EXCEPT ![b] = FALSE]
    /\ IF Working(r2Lease[b], b) THEN Failure ELSE UNCHANGED failures
    /\ UNCHANGED <<storeVars, b2, outVars, r2State, r2Sealed, r2Lease, held, run, advanced>>

HoldExpires ==
    /\ held /\ held' = FALSE
    /\ UNCHANGED <<storeVars, b2, outVars, r2Vars, run, advanced, failures>>

Consumers ==
    /\ \E u \in Consumed : bundleState[u] # "NONE" /\ SettlementStep(u)
    /\ UNCHANGED <<b2, outVars, r2Vars, held, run, advanced, failures>>

FinishRun(w) == FinishSource(w) \/ DrainFinish(w) \/ R2Finish(w)

\* A step of the producers, the drains or their clocks.
CallerNext ==
    \/ \E w \in Worker : BatchStep(w) \/ FinishRun(w) \/ Evicted(w)
    \/ \E w \in Poller, f \in Fetch : Poll(w, f)
    \/ \E w \in Drainer, b \in Batch : DrainClaim(w, b)
    \/ \E w \in R2Drainer, b \in Batch : R2Claim(w, b)
    \/ \E b \in Batch : OutboxLeaseLapses(b) \/ R2LeaseLapses(b)
    \/ HoldExpires

ProducerNext == CallerNext \/ Consumers

ProducerSpec == ProducerInit /\ [][ProducerNext]_pvars

(* Fairness: an invocation goes on, clocks advance past leases and holds,  *)
(* and the ten-minute cron comes round to every row it selects.  Polls and *)
(* consumers owe nothing.                                                  *)
ProducerFairness ==
    /\ \A w \in Worker : WF_pvars(BatchStep(w) \/ FinishRun(w))
    /\ \A b \in Batch : /\ SF_pvars(\E w \in Drainer : DrainClaim(w, b))
                       /\ SF_pvars(\E w \in R2Drainer : R2Claim(w, b))
                       /\ WF_pvars(OutboxLeaseLapses(b)) /\ WF_pvars(R2LeaseLapses(b))
    /\ WF_pvars(HoldExpires)

ProducerFairSpec == ProducerSpec /\ ProducerFairness

-----------------------------------------------------------------------------
(* Properties.                                                             *)

(* A source's cursor only passes candidates whose D1 row names an object B2*)
(* holds, or that an R2 batch still holds, whatever failed in the run and  *)
(* whoever raced with it.                                                  *)
AdvancedIsDurable ==
    \A c \in advanced : \/ rowUri[c] \in b2
                        \/ \E b \in Batch : c \in b /\ r2State[b] # "NONE"

(* An archived outbox row has its object in B2, its bundle row, and a row  *)
(* for every digest of the batch, although its CAS and the journal inserts *)
(* of the same db.batch have different guards.                             *)
ArchivedIsCovered ==
    \A b \in Batch : outState[b] = "ARCHIVED" =>
        /\ outUri[b] \in b2 /\ Manifest[outUri[b]] = b
        /\ bundleState[outUri[b]] # "NONE"
        /\ \A c \in b : Journaled(c)

(* R2 is never taken for B2: a staged batch is B2_VERIFIED only when every *)
(* one of its candidates has a row of its own, hence an object in B2.      *)
R2VerifiedIsJournaled ==
    \A b \in Batch : r2State[b] = "B2_VERIFIED" => \A c \in b : rowUri[c] # NoUri

(* A sealed payload is kept, in the order its URI was computed from, until *)
(* its row is archived; an archived row is never reopened or redirected.   *)
SealedUntilArchived ==
    [][\A b \in Batch :
         /\ outState[b] \in {"PENDING_ARCHIVE", "REPLAYING"} =>
              outSealed'[b] = outSealed[b] \/ outState'[b] = "ARCHIVED"
         /\ outState[b] = "ARCHIVED" =>
              outState'[b] = "ARCHIVED" /\ outUri'[b] = outUri[b]]_pvars

(* "No cursor advances on failed durability": what a cursor has passed can *)
(* still be admitted, because its row names a bundle whose journal is its  *)
(* manifest, which the consumers demand.                                   *)
AdvancedIsAdmissible ==
    \A c \in advanced : rowUri[c] # NoUri => JournalOf(rowUri[c]) = Manifest[rowUri[c]]

(* Every batch staged in R2 is replayed into B2 in the end: a drain that   *)
(* dies with the lease, or finds B2 or the outbox busy, is followed by one *)
(* that succeeds; unless a record of the batch was journaled for another   *)
(* source, which the scan accepts from nobody else.                        *)
JournaledElsewhere(b) == \E c \in b : Journaled(c) /\ rowUri[c] = NoUri

R2Replayed ==
    \A b \in Batch :
        r2State[b] # "NONE" ~> r2State[b] = "B2_VERIFIED" \/ JournaledElsewhere(b)

(* "The sealed pending payload is replayed on the ten-minute cron": once   *)
(* faults stop, every record sealed in the outbox gets a journal row.      *)
OutboxReplayed ==
    \A b \in Batch : outState[b] # "NONE" ~> \A c \in b : Journaled(c)
=============================================================================
