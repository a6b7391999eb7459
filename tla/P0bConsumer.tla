---------------------------- MODULE P0bConsumer ----------------------------
(***************************************************************************)
(* The bundle consumer (handleBundleQueueBatch): worker invocations that   *)
(* take a bundle message, lease the bundle row, restore the B2 object,     *)
(* admit its items and acknowledge the message; and drainBacklog, the cron *)
(* that re-sends messages of bundles that are not settled.                 *)
(*                                                                         *)
(* Every awaited statement of the handler is an action; an invocation may  *)
(* be evicted between any two.  The lease is 120 seconds and nothing stops *)
(* a slow invocation when it lapses, so several may work on one bundle.    *)
(* The environment journals bundles and sends messages as producers may.   *)
(***************************************************************************)
EXTENDS P0bStore, Naturals, FiniteSets

CONSTANTS
    Consumer,      \* queue-consumer invocations that may run at once
    MaxRetries,    \* ingestion_spool_bundles.max_retries (the column's default is 3)
    SliceSize,     \* items per db.batch (20 in the code)
    DailyCeiling,  \* committed_today at which drainBacklog holds (90000)
    MaxFaults      \* bound on crashes, lost messages and failed B2/D1 calls

ASSUME ConsumerAssumption ==
    /\ Nobody \notin Consumer
    /\ MaxRetries \in Nat \ {0}
    /\ SliceSize \in Nat \ {0}
    /\ DailyCeiling \in Nat
    /\ MaxFaults \in Nat

VARIABLES
    bundleRetry, \* ingestion_spool_bundles.retry_count
    messages,    \* bundle messages in the queue: at least one copy is there
    leaseOwner,  \* which invocation's locked_until is stored in the bundle row
    leaseLive,   \* that locked_until lies in the future
    cpc,         \* where an invocation stands in the handler
    cmsg,        \* the bundle whose message it handles
    todo,        \* manifest items it has not sent to D1 yet
    acked,       \* history: bundles for which some invocation called message.ack()
    faults       \* faults so far

leaseVars    == <<leaseOwner, leaseLive>>
consumerVars == <<leaseOwner, leaseLive, cpc, cmsg, todo, acked>>
cvars        == <<storeVars, bundleRetry, messages, consumerVars, faults>>

Stage == {"idle", "reading", "checking", "committing", "verifying", "finishing",
          "proving", "failing"}

TypeOK ==
    /\ StoreTypeOK
    /\ bundleRetry \in [Uri -> 0..MaxRetries]
    /\ messages \in SUBSET Uri
    /\ leaseOwner \in [Uri -> Consumer \cup {Nobody}]
    /\ leaseLive \in [Uri -> BOOLEAN]
    /\ cpc \in [Consumer -> Stage]
    /\ cmsg \in [Consumer -> Uri \cup {NoUri}]
    /\ todo \in [Consumer -> SUBSET Candidate]
    /\ acked \in SUBSET Uri
    /\ faults \in 0..MaxFaults

ConsumerInit ==
    /\ bundleRetry = [u \in Uri |-> 0]
    /\ messages = {}
    /\ leaseOwner = [u \in Uri |-> Nobody]
    /\ leaseLive = [u \in Uri |-> FALSE]
    /\ cpc = [k \in Consumer |-> "idle"]
    /\ cmsg = [k \in Consumer |-> NoUri]
    /\ todo = [k \in Consumer |-> {}]
    /\ acked = {}

\* INGEST_QUEUE.send of the P0B_BUNDLE_V1 message for u.
Send(u) == messages' = messages \cup {u}

Init == StoreInit /\ ConsumerInit /\ faults = 0

Fault == faults < MaxFaults /\ faults' = faults + 1

-----------------------------------------------------------------------------
(* Taking a message.                                                       *)

ClaimableUnlessTaken(u) == bundleState[u] \in {"PENDING", "RETRY"}

\* The CAS of the claim: PENDING, RETRY, or PROCESSING under a lapsed lease.
Claimable(u) ==
    \/ bundleState[u] \in {"PENDING", "RETRY"}
    \/ bundleState[u] = "PROCESSING" /\ ~leaseLive[u]

Claim(k, u) ==
    /\ cpc[k] = "idle" /\ u \in messages
    /\ Claimable(u)
    /\ bundleState' = [bundleState EXCEPT ![u] = "PROCESSING"]
    /\ leaseOwner' = [leaseOwner EXCEPT ![u] = k]
    /\ leaseLive' = [leaseLive EXCEPT ![u] = TRUE]
    /\ cpc' = [cpc EXCEPT ![k] = "reading"]
    /\ cmsg' = [cmsg EXCEPT ![k] = u]
    /\ todo' = [todo EXCEPT ![k] = Manifest[u]]
    /\ UNCHANGED <<bundleRetry, rowUri, rowState, article, messages, acked, faults>>

AckUnclaimed(k, u) ==
    /\ cpc[k] = "idle" /\ u \in messages
    /\ ~Claimable(u)
    /\ messages' = messages \ {u}
    /\ acked' = acked \cup {u}
    /\ UNCHANGED <<bundleState, bundleRetry, rowUri, rowState, article,
                   leaseVars, cpc, cmsg, todo, faults>>

\* The claim changed no row and the bundle is settled: the copy is a duplicate.
\* Otherwise the message goes back to the queue, which changes nothing here.
AckDuplicate(k, u) ==
    /\ cpc[k] = "idle" /\ u \in messages
    /\ bundleState[u] \in Terminal
    /\ messages' = messages \ {u}
    /\ acked' = acked \cup {u}
    /\ UNCHANGED <<bundleState, bundleRetry, rowUri, rowState, article,
                   leaseVars, cpc, cmsg, todo, faults>>

-----------------------------------------------------------------------------
(* Working on a claimed bundle.                                            *)

Goto(k, stage) == cpc' = [cpc EXCEPT ![k] = stage]

ReadBundle(k) ==
    /\ cpc[k] = "reading"
    /\ \/ Goto(k, "checking") /\ UNCHANGED faults
       \/ Goto(k, "failing") /\ Fault
    /\ UNCHANGED <<storeVars, bundleRetry, messages, leaseVars, cmsg, todo, acked>>

NothingForeignJournaled(u) == JournalOf(u) \subseteq Manifest[u]

\* Exactly the manifest must be journaled under this URI.
ManifestJournaled(u) ==
    /\ JournalOf(u) = Manifest[u]
    /\ \A c \in Manifest[u] : rowState[c] \in {"PENDING", "D1_COMMITTED"}

CheckJournal(k) ==
    /\ cpc[k] = "checking"
    /\ IF ManifestJournaled(cmsg[k]) THEN Goto(k, "committing") ELSE Goto(k, "failing")
    /\ UNCHANGED <<storeVars, bundleRetry, messages, leaseVars, cmsg, todo, acked, faults>>

CommitRowsAhead(k, slice) ==
    /\ cpc[k] = "committing"
    /\ slice # {} /\ slice \subseteq todo[k]
    /\ Cardinality(slice) <= SliceSize
    /\ LET u == cmsg[k] IN
       /\ article' = [c \in Candidate |->
                        IF c \in slice /\ ~Admitted(c) THEN u ELSE article[c]]
       /\ rowState' = [c \in Candidate |->
                        IF rowUri[c] = u /\ rowState[c] = "PENDING"
                        THEN "D1_COMMITTED" ELSE rowState[c]]
    /\ todo' = [todo EXCEPT ![k] = @ \ slice]
    /\ Goto(k, IF todo[k] = slice THEN "verifying" ELSE "committing")
    /\ UNCHANGED <<bundleState, bundleRetry, rowUri, messages, leaseVars, cmsg, acked, faults>>

(* One db.batch of at most SliceSize items: article INSERT ON CONFLICT DO  *)
(* NOTHING and the row's move to D1_COMMITTED.  Neither looks at the lease.*)
CommitSlice(k, slice) ==
    /\ cpc[k] = "committing"
    /\ slice # {} /\ slice \subseteq todo[k]
    /\ Cardinality(slice) <= SliceSize
    /\ LET u == cmsg[k] IN
       /\ article' = [c \in Candidate |->
                        IF c \in slice /\ ~Admitted(c) THEN u ELSE article[c]]
       /\ rowState' = [c \in Candidate |->
                        IF c \in slice /\ rowUri[c] = u /\ rowState[c] = "PENDING"
                        THEN "D1_COMMITTED" ELSE rowState[c]]
    /\ todo' = [todo EXCEPT ![k] = @ \ slice]
    /\ Goto(k, IF todo[k] = slice THEN "verifying" ELSE "committing")
    /\ UNCHANGED <<bundleState, bundleRetry, rowUri, messages, leaseVars, cmsg, acked, faults>>

\* The exact readback of rows and articles.
Verify(k) ==
    /\ cpc[k] = "verifying"
    /\ LET u == cmsg[k] IN
       IF /\ JournalOf(u) = Manifest[u]
          /\ \A c \in Manifest[u] : rowState[c] = "D1_COMMITTED" /\ article[c] = u
       THEN Goto(k, "finishing") ELSE Goto(k, "failing")
    /\ UNCHANGED <<storeVars, bundleRetry, messages, leaseVars, cmsg, todo, acked, faults>>

\* The fence of the closing UPDATEs: WHERE state='PROCESSING' AND locked_until=?.
UnfencedLease(k) == TRUE

HoldsLease(k) ==
    /\ bundleState[cmsg[k]] = "PROCESSING"
    /\ leaseOwner[cmsg[k]] = k

(* The fenced UPDATE to D1_COMMITTED; it compares locked_until with the    *)
(* value this invocation wrote, not with the clock.                        *)
Finish(k) ==
    /\ cpc[k] = "finishing"
    /\ LET u == cmsg[k] IN
       \/ /\ HoldsLease(k)
          /\ bundleState' = [bundleState EXCEPT ![u] = "D1_COMMITTED"]
          /\ leaseOwner' = [leaseOwner EXCEPT ![u] = Nobody]
          /\ leaseLive' = [leaseLive EXCEPT ![u] = FALSE]
          /\ Goto(k, "proving")
       \/ /\ ~HoldsLease(k)
          /\ Goto(k, "failing")
          /\ UNCHANGED <<bundleState, leaseVars>>
    /\ UNCHANGED <<bundleRetry, rowUri, rowState, article, messages, cmsg, todo, acked, faults>>

Release(k) ==
    /\ Goto(k, "idle")
    /\ cmsg' = [cmsg EXCEPT ![k] = NoUri]
    /\ todo' = [todo EXCEPT ![k] = {}]

AckMessage(u) ==
    /\ messages' = messages \ {u}
    /\ acked' = acked \cup {u}

\* The last readback and message.ack().
Prove(k) ==
    /\ cpc[k] = "proving"
    /\ AckMessage(cmsg[k])
    /\ Release(k)
    /\ UNCHANGED <<bundleState, bundleRetry, rowUri, rowState, article, leaseVars, faults>>

\* The failure about to be counted is the last one the bundle may have.
LateDeadLetter(u) == bundleRetry[u] + 1 > MaxRetries

LastFailure(u) == bundleRetry[u] + 1 >= MaxRetries

(* The catch block: the fenced UPDATE counts the failure and settles the   *)
(* bundle as DEAD_LETTER on the last one; RETURNING tells the handler to   *)
(* acknowledge the message then, unless that answer is lost.  In every     *)
(* other case message.retry() leaves the message in the queue.             *)
CountFailure(k) ==
    LET u == cmsg[k] IN
    /\ HoldsLease(k)
    /\ bundleState' = [bundleState EXCEPT ![u] = IF LastFailure(u) THEN "DEAD_LETTER" ELSE "RETRY"]
    /\ bundleRetry' = [bundleRetry EXCEPT ![u] = @ + 1]
    /\ leaseOwner' = [leaseOwner EXCEPT ![u] = Nobody]
    /\ leaseLive' = [leaseLive EXCEPT ![u] = FALSE]
    /\ \/ LastFailure(u) /\ AckMessage(u) /\ UNCHANGED faults
       \/ ~LastFailure(u) /\ UNCHANGED <<messages, acked, faults>>
       \/ LastFailure(u) /\ Fault /\ UNCHANGED <<messages, acked>>

Fail(k) ==
    /\ cpc[k] = "failing"
    /\ \/ CountFailure(k)
       \/ /\ ~HoldsLease(k)
          /\ UNCHANGED <<bundleState, bundleRetry, leaseVars, messages, acked, faults>>
    /\ Release(k)
    /\ UNCHANGED <<rowUri, rowState, article>>

-----------------------------------------------------------------------------
(* What goes wrong around the handler.                                     *)

\* A D1 call throws; whether its statement was applied is not known, so this
\* step may follow the statement's own action as well as replace it.  A claim
\* whose answer is lost is Claim followed by Crash: no failure is counted.
D1Error(k) ==
    /\ cpc[k] \in {"checking", "committing", "verifying", "finishing", "proving"}
    /\ Goto(k, "failing") /\ Fault
    /\ UNCHANGED <<storeVars, bundleRetry, messages, leaseVars, cmsg, todo, acked>>

\* The invocation is evicted, or the catch block's own statement throws.
Crash(k) ==
    /\ cpc[k] # "idle"
    /\ Release(k) /\ Fault
    /\ UNCHANGED <<storeVars, bundleRetry, messages, leaseVars, acked>>

(* 120 seconds pass after the claim.  That the holder is still at work then*)
(* is a fault like the others: it may happen, but not without end.         *)
AtWork(k, u) == cpc[k] # "idle" /\ cmsg[k] = u

LeaseLapses(u) ==
    /\ leaseLive[u]
    /\ leaseLive' = [leaseLive EXCEPT ![u] = FALSE]
    /\ IF AtWork(leaseOwner[u], u) THEN Fault ELSE UNCHANGED faults
    /\ UNCHANGED <<storeVars, bundleRetry, messages, leaseOwner, cpc, cmsg, todo, acked>>

\* After max_retries deliveries the queue moves a message to its own
\* dead-letter queue, which no worker of the repository reads.
DropMessage(u) ==
    /\ u \in messages /\ Fault
    /\ messages' = messages \ {u}
    /\ UNCHANGED <<bundleState, bundleRetry, rowUri, rowState, article, consumerVars>>

-----------------------------------------------------------------------------

\* drainBacklog below its ceiling; the model spans one UTC day.
CommittedToday == Cardinality({c \in Candidate : rowState[c] = "D1_COMMITTED"})

DrainBacklog(u) ==
    /\ Claimable(u)
    /\ CommittedToday < DailyCeiling
    /\ u \notin messages
    /\ Send(u)
    /\ UNCHANGED <<bundleState, bundleRetry, rowUri, rowState, article, consumerVars, faults>>

\* The environment: any producer journals a bundle, or sends its message once
\* more (a redispatch, or the queue's own at-least-once delivery).
ProducerJournals(u) ==
    /\ JournalBatch(u) /\ UNCHANGED <<bundleRetry, messages, consumerVars, faults>>

ProducerSends(u) ==
    /\ bundleState[u] # "NONE" /\ Send(u)
    /\ UNCHANGED <<bundleState, bundleRetry, rowUri, rowState, article, consumerVars, faults>>

ConsumerStep(k) ==
    \/ \E u \in Uri : Claim(k, u) \/ AckDuplicate(k, u)
    \/ ReadBundle(k) \/ CheckJournal(k)
    \/ \E slice \in SUBSET todo[k] : CommitSlice(k, slice)
    \/ Verify(k) \/ Finish(k) \/ Prove(k) \/ Fail(k)

ConsumerFault ==
    \/ \E k \in Consumer : D1Error(k) \/ Crash(k)
    \/ \E u \in Uri : LeaseLapses(u) \/ DropMessage(u)

Next ==
    \/ \E k \in Consumer : ConsumerStep(k)
    \/ ConsumerFault
    \/ \E u \in Uri : DrainBacklog(u) \/ ProducerJournals(u) \/ ProducerSends(u)

Spec == Init /\ [][Next]_cvars

(* Fairness.  An invocation that runs goes on (or is evicted, which Crash  *)
(* covers); the ten-minute cron keeps calling drainBacklog; a lease in the *)
(* past is in the past; and the queue does deliver a message it keeps being*)
(* given.  Producers and faults owe nothing.                               *)
Fairness ==
    /\ \A k \in Consumer : WF_cvars(cpc[k] # "idle" /\ ConsumerStep(k))
    /\ \A u \in Uri :
        /\ SF_cvars(\E k \in Consumer : Claim(k, u) \/ AckDuplicate(k, u))
        /\ WF_cvars(DrainBacklog(u))
        /\ WF_cvars(LeaseLapses(u))

FairSpec == Spec /\ Fairness

-----------------------------------------------------------------------------
(* Properties.                                                             *)

(* A bundle row says D1_COMMITTED only when its whole manifest is journaled*)
(* under its URI, committed and admitted, although the item batches are    *)
(* not fenced by the lease and several invocations may run them at once.   *)
CommittedIsComplete ==
    \A u \in Uri : bundleState[u] = "D1_COMMITTED" =>
        /\ JournalOf(u) = Manifest[u]
        /\ \A c \in Manifest[u] : rowState[c] = "D1_COMMITTED" /\ article[c] = u

(* message.ack() is only ever called for a bundle D1 has settled: a crash, *)
(* a lapsed lease or an uncertain commit never loses an unsettled bundle.  *)
AckedIsSettled == \A u \in acked : bundleState[u] \in Terminal

(* Articles and committed journal rows stand for the same candidates, and  *)
(* the article names the archive object its row names.                     *)
ArticleJournalParity ==
    \A c \in Candidate :
        article[c] = IF rowState[c] = "D1_COMMITTED" THEN rowUri[c] ELSE NoUri

(* Nothing is admitted from a bundle whose journal does not hold its whole *)
(* manifest ("No forged/partial D1 items").                                *)
NoPartialAdmission ==
    \A c \in Candidate : article[c] # NoUri =>
        JournalOf(article[c]) = Manifest[article[c]]

(* The dead letter is reached by the last counted failure and only by it.  *)
RetryBudget ==
    \A u \in Uri : bundleState[u] = "DEAD_LETTER" <=> bundleRetry[u] = MaxRetries

(* No late invocation, whatever it still believes, reopens or re-decides a *)
(* settled bundle, or takes back an admitted article.                      *)
SettledIsFinal ==
    [][/\ \A u \in Uri : bundleState[u] \in Terminal => bundleState'[u] = bundleState[u]
       /\ \A c \in Candidate : article[c] # NoUri => article'[c] = article[c]]_cvars

(* An open bundle is one no invocation has settled.  Seen that way, leases,*)
(* retries, crashes and duplicates implement the abstract settlement.      *)
Open(u) == bundleState[u] \in {"PENDING", "PROCESSING", "RETRY"}

Settlement == INSTANCE P0bSettlement WITH
    bundleState <- [u \in Uri |-> IF Open(u) THEN "PENDING" ELSE bundleState[u]]

ImplementsSettlement == Settlement!SettlementSpec

(* Every journaled bundle is settled in the end: crashes, lapsed leases and*)
(* lost messages only delay it, because drainBacklog re-sends it.          *)
BundlesSettle ==
    \A u \in Uri : bundleState[u] # "NONE" ~> bundleState[u] \in Terminal
=============================================================================
