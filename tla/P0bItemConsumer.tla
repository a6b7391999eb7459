-------------------------- MODULE P0bItemConsumer --------------------------
(***************************************************************************)
(* The single-item consumer (handleQueueBatch) of rows spooled before the  *)
(* bundles: each row of ingestion_spool_queue carries its own lease, retry *)
(* count and B2 object.  The article INSERT and the row's UPDATE share one *)
(* db.batch; the UPDATE is fenced by the lease and the INSERT is not.      *)
(***************************************************************************)
EXTENDS P0bConsumer

CONSTANTS
    Item,           \* rows journaled without a bundle
    NoItem,         \* no message
    MaxItemRetries  \* ingestion_spool_queue.max_retries (the column's default is 3)

ASSUME ItemConsumerAssumption ==
    /\ NoItem \notin Item
    /\ MaxItemRetries \in Nat \ {0}

\* Invocations (Consumer) and the bound on faults are the bundle consumer's: the
\* same worker handles both kinds of message.
VARIABLES
    itemState,      \* ingestion_spool_queue.state
    itemRetry,      \* ingestion_spool_queue.retry_count
    itemOwner,      \* which invocation's locked_until is stored in the row
    itemLive,       \* that locked_until lies in the future
    itemCommitter,  \* which invocation's committedAt is in d1_committed_at
    itemArticle,    \* the items normalized_articles holds
    itemMessages,   \* item messages in the queue
    itemAcked,      \* history: items whose message some invocation acknowledged
    ipc, imsg       \* where an invocation stands, and the item it handles

itemRowVars == <<itemState, itemRetry, itemOwner, itemLive, itemCommitter>>
itemOwnVars == <<itemRowVars, itemArticle, itemMessages, itemAcked, ipc, imsg>>
itemVars    == <<itemOwnVars, faults>>

ItemState == {"PENDING", "PROCESSING", "RETRY", "D1_COMMITTED", "DEAD_LETTER"}

ItemTypeOK ==
    /\ itemState \in [Item -> ItemState]
    /\ itemRetry \in [Item -> 0..MaxItemRetries]
    /\ itemOwner \in [Item -> Consumer \cup {Nobody}]
    /\ itemLive \in [Item -> BOOLEAN]
    /\ itemCommitter \in [Item -> Consumer \cup {Nobody}]
    /\ itemArticle \in SUBSET Item
    /\ itemMessages \in SUBSET Item
    /\ itemAcked \in SUBSET Item
    /\ ipc \in [Consumer -> {"idle", "reading", "committing", "verifying", "failing"}]
    /\ imsg \in [Consumer -> Item \cup {NoItem}]
    /\ faults \in 0..MaxFaults

ItemInit ==
    /\ itemState = [c \in Item |-> "PENDING"]
    /\ itemRetry = [c \in Item |-> 0]
    /\ itemOwner = [c \in Item |-> Nobody]
    /\ itemLive = [c \in Item |-> FALSE]
    /\ itemCommitter = [c \in Item |-> Nobody]
    /\ itemArticle = {} /\ itemMessages = {} /\ itemAcked = {}
    /\ ipc = [k \in Consumer |-> "idle"]
    /\ imsg = [k \in Consumer |-> NoItem]
    /\ faults = 0

GotoItem(k, stage) == ipc' = [ipc EXCEPT ![k] = stage]
ReleaseItem(k) == GotoItem(k, "idle") /\ imsg' = [imsg EXCEPT ![k] = NoItem]
AckItem(c) == itemMessages' = itemMessages \ {c} /\ itemAcked' = itemAcked \cup {c}

-----------------------------------------------------------------------------

ItemClaimable(c) ==
    \/ itemState[c] \in {"PENDING", "RETRY"}
    \/ itemState[c] = "PROCESSING" /\ ~itemLive[c]

ClaimItem(k, c) ==
    /\ ipc[k] = "idle" /\ c \in itemMessages
    /\ ItemClaimable(c)
    /\ itemState' = [itemState EXCEPT ![c] = "PROCESSING"]
    /\ itemOwner' = [itemOwner EXCEPT ![c] = k]
    /\ itemLive' = [itemLive EXCEPT ![c] = TRUE]
    /\ GotoItem(k, "reading")
    /\ imsg' = [imsg EXCEPT ![k] = c]
    /\ UNCHANGED <<itemRetry, itemCommitter, itemArticle, itemMessages, itemAcked, faults>>

AckUnclaimedItem(k, c) ==
    /\ ipc[k] = "idle" /\ c \in itemMessages
    /\ ~ItemClaimable(c)
    /\ AckItem(c)
    /\ UNCHANGED <<itemRowVars, itemArticle, ipc, imsg, faults>>

\* A copy of a settled item's message; any other unclaimed copy is retried.
AckDuplicateItem(k, c) ==
    /\ ipc[k] = "idle" /\ c \in itemMessages
    /\ itemState[c] \in Terminal
    /\ AckItem(c)
    /\ UNCHANGED <<itemRowVars, itemArticle, ipc, imsg, faults>>

ReadItem(k) ==
    /\ ipc[k] = "reading"
    /\ \/ GotoItem(k, "committing") /\ UNCHANGED faults
       \/ GotoItem(k, "failing") /\ Fault
    /\ UNCHANGED <<itemRowVars, itemArticle, itemMessages, itemAcked, imsg>>

UnfencedItemLease(k) == TRUE

\* The fence: WHERE state='PROCESSING' AND locked_until=?.
HoldsItemLease(k) ==
    /\ itemState[imsg[k]] = "PROCESSING"
    /\ itemOwner[imsg[k]] = k

AdmitItemLater(k) == UNCHANGED itemArticle

\* INSERT INTO normalized_articles ... ON CONFLICT DO NOTHING.
AdmitItem(k) == itemArticle' = itemArticle \cup {imsg[k]}

\* The db.batch: the INSERT, which nothing fences, and the fenced UPDATE.
CommitItem(k) ==
    /\ ipc[k] = "committing"
    /\ AdmitItem(k)
    /\ LET c == imsg[k] IN
       \/ /\ HoldsItemLease(k)
          /\ itemState' = [itemState EXCEPT ![c] = "D1_COMMITTED"]
          /\ itemOwner' = [itemOwner EXCEPT ![c] = Nobody]
          /\ itemLive' = [itemLive EXCEPT ![c] = FALSE]
          /\ itemCommitter' = [itemCommitter EXCEPT ![c] = k]
       \/ /\ ~HoldsItemLease(k)
          /\ UNCHANGED <<itemState, itemOwner, itemLive, itemCommitter>>
    /\ GotoItem(k, "verifying")
    /\ UNCHANGED <<itemRetry, itemMessages, itemAcked, imsg, faults>>

\* The readback accepts only the committedAt this invocation wrote.
VerifyItem(k) ==
    /\ ipc[k] = "verifying"
    /\ LET c == imsg[k] IN
       IF c \in itemArticle /\ itemState[c] = "D1_COMMITTED" /\ itemCommitter[c] = k
       THEN AckItem(c) /\ ReleaseItem(k)
       ELSE GotoItem(k, "failing") /\ UNCHANGED <<itemMessages, itemAcked, imsg>>
    /\ UNCHANGED <<itemRowVars, itemArticle, faults>>

LateItemDeadLetter(c) == itemRetry[c] + 1 > MaxItemRetries

LastItemFailure(c) == itemRetry[c] + 1 >= MaxItemRetries

\* The catch block's fenced UPDATE ... RETURNING state, whose answer may be lost.
CountItemFailure(k) ==
    LET c == imsg[k] IN
    /\ HoldsItemLease(k)
    /\ itemState' = [itemState EXCEPT ![c] =
                        IF LastItemFailure(c) THEN "DEAD_LETTER" ELSE "RETRY"]
    /\ itemRetry' = [itemRetry EXCEPT ![c] = @ + 1]
    /\ itemOwner' = [itemOwner EXCEPT ![c] = Nobody]
    /\ itemLive' = [itemLive EXCEPT ![c] = FALSE]
    /\ \/ LastItemFailure(c) /\ AckItem(c) /\ UNCHANGED faults
       \/ ~LastItemFailure(c) /\ UNCHANGED <<itemMessages, itemAcked, faults>>
       \/ LastItemFailure(c) /\ Fault /\ UNCHANGED <<itemMessages, itemAcked>>

FailItem(k) ==
    /\ ipc[k] = "failing"
    /\ \/ CountItemFailure(k)
       \/ /\ ~HoldsItemLease(k)
          /\ UNCHANGED <<itemState, itemRetry, itemOwner, itemLive, itemMessages, itemAcked,
                         faults>>
    /\ ReleaseItem(k)
    /\ UNCHANGED <<itemCommitter, itemArticle>>

-----------------------------------------------------------------------------

ItemD1Error(k) ==
    /\ ipc[k] \in {"committing", "verifying"}
    /\ GotoItem(k, "failing") /\ Fault
    /\ UNCHANGED <<itemRowVars, itemArticle, itemMessages, itemAcked, imsg>>

ItemCrash(k) ==
    /\ ipc[k] # "idle"
    /\ ReleaseItem(k) /\ Fault
    /\ UNCHANGED <<itemRowVars, itemArticle, itemMessages, itemAcked>>

ItemAtWork(k, c) == ipc[k] # "idle" /\ imsg[k] = c

ItemLeaseLapses(c) ==
    /\ itemLive[c]
    /\ itemLive' = [itemLive EXCEPT ![c] = FALSE]
    /\ IF ItemAtWork(itemOwner[c], c) THEN Fault ELSE UNCHANGED faults
    /\ UNCHANGED <<itemState, itemRetry, itemOwner, itemCommitter, itemArticle, itemMessages,
                   itemAcked, ipc, imsg>>

DropItemMessage(c) ==
    /\ c \in itemMessages /\ Fault
    /\ itemMessages' = itemMessages \ {c}
    /\ UNCHANGED <<itemRowVars, itemArticle, itemAcked, ipc, imsg>>

\* drainBacklog's second SELECT, the producer's redispatch of a row without a
\* bundle, and the queue's own duplicates.
RedispatchItem(c) ==
    /\ itemMessages' = itemMessages \cup {c}
    /\ UNCHANGED <<itemRowVars, itemArticle, itemAcked, ipc, imsg, faults>>

ItemNext ==
    \/ \E k \in Consumer :
        \/ \E c \in Item : ClaimItem(k, c) \/ AckDuplicateItem(k, c)
        \/ ReadItem(k) \/ CommitItem(k) \/ VerifyItem(k) \/ FailItem(k)
        \/ ItemD1Error(k) \/ ItemCrash(k)
    \/ \E c \in Item : ItemLeaseLapses(c) \/ DropItemMessage(c) \/ RedispatchItem(c)

ItemSpec == ItemInit /\ [][ItemNext]_itemVars

-----------------------------------------------------------------------------

(* A committed row is an admitted article, whoever committed it and however*)
(* many invocations ran the batch.                                         *)
CommittedItemIsAdmitted ==
    \A c \in Item : itemState[c] = "D1_COMMITTED" => c \in itemArticle

(* An acknowledged item is settled in D1.                                  *)
AckedItemIsSettled == \A c \in itemAcked : itemState[c] \in Terminal

(* An acknowledged item is an article or a dead letter, although only one  *)
(* of the two statements that commit it is fenced.                         *)
AckedIsStored == \A c \in itemAcked : c \in itemArticle \/ itemState[c] = "DEAD_LETTER"

(* A late invocation cannot reopen a settled row or withdraw an article.   *)
ItemsStaySettled ==
    [][/\ \A c \in Item : itemState[c] \in Terminal => itemState'[c] = itemState[c]
       /\ itemArticle \subseteq itemArticle']_itemVars
=============================================================================
