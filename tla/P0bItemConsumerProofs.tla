----------------------- MODULE P0bItemConsumerProofs -----------------------
(***************************************************************************)
(* What the single-item consumer keeps for any number of rows, invocations,*)
(* failures allowed and faults, although only one of the two statements of *)
(* its batch is fenced.                                                    *)
(***************************************************************************)
EXTENDS P0bItemConsumer, TLAPS

(* An invocation at work handles an item.                                  *)
WorkInv == \A k \in Consumer : ipc[k] # "idle" => imsg[k] \in Item

(* A row that is not a dead letter has failures left.                      *)
CountInv == \A c \in Item : itemState[c] # "DEAD_LETTER" => itemRetry[c] < MaxItemRetries

IInv == ItemTypeOK /\ WorkInv /\ CountInv /\ CommittedItemIsAdmitted /\ AckedItemIsSettled

-----------------------------------------------------------------------------
(* Steps by what they write.                                               *)

(* The invariant holds before the first message.                           *)
LEMMA InitIInv == ItemInit => IInv
  BY ConsumerAssumption, ItemConsumerAssumption
  DEF ItemInit, IInv, ItemTypeOK, ItemState, WorkInv, CountInv, CommittedItemIsAdmitted,
      AckedItemIsSettled

(* Where invocations stand.                                                *)
PlacesTyped ==
    /\ ipc \in [Consumer -> {"idle", "reading", "committing", "verifying", "failing"}]
    /\ imsg \in [Consumer -> Item \cup {NoItem}]

(* An invocation that goes on keeps its message.                           *)
LEMMA Moving ==
    ASSUME IInv, NEW k \in Consumer, ipc[k] # "idle", UNCHANGED imsg,
           NEW stage \in {"idle", "reading", "committing", "verifying", "failing"},
           GotoItem(k, stage)
    PROVE  PlacesTyped' /\ WorkInv'
  BY DEF IInv, ItemTypeOK, WorkInv, PlacesTyped, GotoItem

(* An invocation that ends has none.                                       *)
LEMMA Releasing ==
    ASSUME IInv, NEW k \in Consumer, ReleaseItem(k)
    PROVE  PlacesTyped' /\ WorkInv'
  BY DEF IInv, ItemTypeOK, WorkInv, PlacesTyped, ReleaseItem, GotoItem

(* Steps that leave rows and articles alone, and acknowledge what is       *)
(* settled.                                                                *)
LEMMA RowsKept ==
    ASSUME IInv, UNCHANGED <<itemRowVars, itemArticle>>, PlacesTyped', WorkInv',
           itemMessages' \in SUBSET Item, faults' \in 0..MaxFaults,
           itemAcked' \in SUBSET Item,
           \A c \in itemAcked' : c \in itemAcked \/ itemState[c] \in Terminal
    PROVE  IInv'
  BY DEF IInv, ItemTypeOK, PlacesTyped, CountInv, CommittedItemIsAdmitted, AckedItemIsSettled,
         itemRowVars

(* Faults stay within their bound.                                         *)
LEMMA FaultTyped == ASSUME IInv, Fault \/ UNCHANGED faults PROVE faults' \in 0..MaxFaults
  BY ConsumerAssumption DEF IInv, ItemTypeOK, Fault

(* Steps that write one row: its new state, count and lease.               *)
LEMMA RowWritten ==
    ASSUME IInv, NEW c \in Item, PlacesTyped', WorkInv', faults' \in 0..MaxFaults,
           itemMessages' \in SUBSET Item, itemState[c] \notin Terminal,
           NEW s \in ItemState, NEW n \in 0..MaxItemRetries,
           NEW o \in Consumer \cup {Nobody}, NEW l \in BOOLEAN,
           itemState' = [itemState EXCEPT ![c] = s],
           itemRetry' = [itemRetry EXCEPT ![c] = n],
           itemOwner' = [itemOwner EXCEPT ![c] = o],
           itemLive' = [itemLive EXCEPT ![c] = l],
           itemCommitter' \in [Item -> Consumer \cup {Nobody}],
           s # "DEAD_LETTER" => n < MaxItemRetries,
           itemArticle' \in SUBSET Item, itemArticle \subseteq itemArticle',
           s = "D1_COMMITTED" => c \in itemArticle',
           \/ itemAcked' = itemAcked
           \/ itemAcked' = itemAcked \cup {c} /\ s \in Terminal
    PROVE  IInv'
  <1> USE DEF IInv, ItemTypeOK
  <1>1. ItemTypeOK'
    BY DEF PlacesTyped
  <1>2. CountInv'
    BY DEF CountInv
  <1>3. CommittedItemIsAdmitted'
    BY DEF CommittedItemIsAdmitted
  <1>4. AckedItemIsSettled'
    BY DEF AckedItemIsSettled
  <1> QED BY <1>1, <1>2, <1>3, <1>4

-----------------------------------------------------------------------------
(* The steps.                                                              *)

(* A claim takes a row that is not settled.                                *)
LEMMA ClaimStep ==
    ASSUME IInv, NEW k \in Consumer, NEW c \in Item, ClaimItem(k, c)
    PROVE  IInv'
  <1>1. itemState[c] \notin Terminal
    BY DEF ClaimItem, ItemClaimable, Terminal
  <1>2. PlacesTyped' /\ WorkInv'
    BY DEF IInv, ItemTypeOK, WorkInv, PlacesTyped, ClaimItem, GotoItem
  <1>3. itemRetry[c] \in 0..MaxItemRetries /\ itemRetry[c] < MaxItemRetries
    BY <1>1 DEF IInv, ItemTypeOK, CountInv, Terminal
  <1>4. itemRetry' = [itemRetry EXCEPT ![c] = itemRetry[c]]
    BY DEF IInv, ItemTypeOK, ClaimItem
  <1>5. "PROCESSING" \in ItemState
    BY DEF ItemState
  <1>6. /\ itemMessages' \in SUBSET Item /\ itemArticle' \in SUBSET Item
        /\ itemCommitter' \in [Item -> Consumer \cup {Nobody}]
        /\ faults' \in 0..MaxFaults /\ itemArticle \subseteq itemArticle' /\ itemAcked' = itemAcked
    BY DEF IInv, ItemTypeOK, ClaimItem
  <1> QED BY <1>1, <1>2, <1>3, <1>4, <1>5, <1>6, RowWritten DEF ClaimItem

(* A message of a settled row is acknowledged.                             *)
LEMMA AckDuplicateStep ==
    ASSUME IInv, NEW k \in Consumer, NEW c \in Item, AckDuplicateItem(k, c)
    PROVE  IInv'
  <1>1. PlacesTyped' /\ WorkInv'
    BY DEF IInv, ItemTypeOK, WorkInv, PlacesTyped, AckDuplicateItem
  <1>2. itemMessages' \in SUBSET Item /\ faults' \in 0..MaxFaults
    BY DEF IInv, ItemTypeOK, AckDuplicateItem, AckItem
  <1>3. /\ itemAcked' \in SUBSET Item
        /\ \A d \in itemAcked' : d \in itemAcked \/ itemState[d] \in Terminal
    BY DEF AckDuplicateItem, AckItem, IInv, ItemTypeOK
  <1>4. UNCHANGED <<itemRowVars, itemArticle>>
    BY DEF AckDuplicateItem
  <1> QED BY <1>1, <1>2, <1>3, <1>4, RowsKept

(* A read, a failed statement, a crash.                                    *)
LEMMA PlaceStep ==
    ASSUME IInv, NEW k \in Consumer, ReadItem(k) \/ ItemD1Error(k) \/ ItemCrash(k)
    PROVE  IInv'
  <1>1. PlacesTyped' /\ WorkInv'
    BY Moving, Releasing DEF ReadItem, ItemD1Error, ItemCrash
  <1>2. faults' \in 0..MaxFaults
    BY FaultTyped DEF ReadItem, ItemD1Error, ItemCrash
  <1>3. UNCHANGED <<itemRowVars, itemArticle, itemMessages, itemAcked>>
    BY DEF ReadItem, ItemD1Error, ItemCrash
  <1>4. itemMessages' \in SUBSET Item /\ itemAcked' \in SUBSET Item
    BY <1>3 DEF IInv, ItemTypeOK
  <1> QED BY <1>1, <1>2, <1>3, <1>4, RowsKept

(* The batch writes article and state together.                            *)
LEMMA CommitStep ==
    ASSUME IInv, NEW k \in Consumer, CommitItem(k)
    PROVE  IInv'
  <1> DEFINE c == imsg[k]
  <1>1. c \in Item
    BY DEF IInv, WorkInv, CommitItem
  <1>2. PlacesTyped' /\ WorkInv'
    BY Moving DEF CommitItem
  <1>3. itemArticle' = itemArticle \cup {c} /\ itemArticle' \in SUBSET Item
    BY <1>1 DEF IInv, ItemTypeOK, CommitItem, AdmitItem
  <1>4. UNCHANGED <<itemRetry, itemMessages, itemAcked, faults>>
    BY DEF CommitItem
  <1>5. /\ itemMessages' \in SUBSET Item /\ faults' \in 0..MaxFaults
        /\ itemRetry' = [itemRetry EXCEPT ![c] = itemRetry[c]]
    BY <1>4 DEF IInv, ItemTypeOK
  <1>6. CASE HoldsItemLease(k)
    <2>1. itemState[c] \notin Terminal /\ "D1_COMMITTED" \in ItemState
      BY <1>6 DEF HoldsItemLease, Terminal, ItemState
    <2>2. itemRetry[c] \in 0..MaxItemRetries /\ itemRetry[c] < MaxItemRetries
      BY <1>1, <2>1 DEF IInv, ItemTypeOK, CountInv, Terminal
    <2>3. /\ itemState' = [itemState EXCEPT ![c] = "D1_COMMITTED"]
          /\ itemOwner' = [itemOwner EXCEPT ![c] = Nobody]
          /\ itemLive' = [itemLive EXCEPT ![c] = FALSE]
          /\ itemCommitter' \in [Item -> Consumer \cup {Nobody}]
      BY <1>6 DEF IInv, ItemTypeOK, CommitItem
    <2> HIDE DEF c
    <2> QED BY <1>1, <1>2, <1>3, <1>4, <1>5, <2>1, <2>2, <2>3, RowWritten
  <1>7. CASE ~HoldsItemLease(k)
    <2>1. UNCHANGED itemRowVars
      BY <1>4, <1>7 DEF CommitItem, itemRowVars
    <2> QED BY <1>2, <1>3, <1>4, <1>5, <2>1
            DEF IInv, ItemTypeOK, PlacesTyped, CountInv, CommittedItemIsAdmitted,
                AckedItemIsSettled, itemRowVars
  <1> QED BY <1>6, <1>7

(* What is read back as committed by its holder has its article.           *)
LEMMA VerifyStep ==
    ASSUME IInv, NEW k \in Consumer, VerifyItem(k)
    PROVE  IInv'
  <1> DEFINE proved == imsg[k] \in itemArticle /\ itemState[imsg[k]] = "D1_COMMITTED"
                       /\ itemCommitter[imsg[k]] = k
  <1>1. imsg[k] \in Item
    BY DEF IInv, WorkInv, VerifyItem
  <1>2. UNCHANGED <<itemRowVars, itemArticle, faults>>
    BY DEF VerifyItem
  <1>3. faults' \in 0..MaxFaults
    BY <1>2 DEF IInv, ItemTypeOK
  <1>4. CASE proved
    <2>1. PlacesTyped' /\ WorkInv'
      BY <1>4, Releasing DEF VerifyItem
    <2>2. itemAcked' = itemAcked \cup {imsg[k]} /\ itemMessages' = itemMessages \ {imsg[k]}
      BY <1>4 DEF VerifyItem, AckItem
    <2>3. /\ itemMessages' \in SUBSET Item /\ itemAcked' \in SUBSET Item
          /\ \A c \in itemAcked' : c \in itemAcked \/ itemState[c] \in Terminal
      BY <1>1, <1>4, <2>2 DEF Terminal, IInv, ItemTypeOK
    <2> QED BY <1>2, <1>3, <2>1, <2>3, RowsKept
  <1>5. CASE ~proved
    <2>1. PlacesTyped' /\ WorkInv'
      BY <1>5, Moving DEF VerifyItem
    <2>2. itemMessages' \in SUBSET Item /\ itemAcked' \in SUBSET Item /\ UNCHANGED itemAcked
      BY <1>5 DEF VerifyItem, IInv, ItemTypeOK
    <2> QED BY <1>2, <1>3, <2>1, <2>2, RowsKept
  <1> QED BY <1>4, <1>5

(* A failure counts, and the last one leaves a dead letter.                *)
LEMMA FailStep ==
    ASSUME IInv, NEW k \in Consumer, FailItem(k)
    PROVE  IInv'
  <1> DEFINE c == imsg[k]
             s == IF LastItemFailure(c) THEN "DEAD_LETTER" ELSE "RETRY"
  <1>1. c \in Item
    BY DEF IInv, WorkInv, FailItem
  <1>2. PlacesTyped' /\ WorkInv'
    BY Releasing DEF FailItem
  <1>3. UNCHANGED <<itemCommitter, itemArticle>>
    BY DEF FailItem
  <1>4. faults' \in 0..MaxFaults
    BY FaultTyped DEF FailItem, CountItemFailure
  <1>5. CASE CountItemFailure(k)
    <2>1. itemState[c] \notin Terminal
      BY <1>5 DEF CountItemFailure, HoldsItemLease, Terminal
    <2>2. itemRetry[c] \in 0..MaxItemRetries /\ itemRetry[c] < MaxItemRetries
      BY <1>1, <2>1 DEF IInv, ItemTypeOK, CountInv, Terminal
    <2>3. s \in ItemState /\ s # "D1_COMMITTED" /\ (LastItemFailure(c) => s \in Terminal)
      BY DEF ItemState, Terminal
    <2>4. itemRetry[c] + 1 \in 0..MaxItemRetries
      BY <2>2, ItemConsumerAssumption
    <2>5. s # "DEAD_LETTER" => itemRetry[c] + 1 < MaxItemRetries
      BY <2>2, ItemConsumerAssumption DEF LastItemFailure
    <2>6. /\ itemState' = [itemState EXCEPT ![c] = s]
          /\ itemRetry' = [itemRetry EXCEPT ![c] = itemRetry[c] + 1]
          /\ itemOwner' = [itemOwner EXCEPT ![c] = Nobody]
          /\ itemLive' = [itemLive EXCEPT ![c] = FALSE]
      BY <1>5 DEF CountItemFailure
    <2>7. /\ itemMessages' \in SUBSET Item
          /\ itemAcked' = itemAcked \/ (itemAcked' = itemAcked \cup {c} /\ LastItemFailure(c))
      BY <1>5 DEF CountItemFailure, AckItem, IInv, ItemTypeOK
    <2>8. /\ itemCommitter' \in [Item -> Consumer \cup {Nobody}]
          /\ itemArticle' \in SUBSET Item /\ itemArticle \subseteq itemArticle'
      BY <1>3 DEF IInv, ItemTypeOK
    <2> DEFINE n == itemRetry[c] + 1
    <2>9. n \in 0..MaxItemRetries /\ (s # "DEAD_LETTER" => n < MaxItemRetries)
      BY <2>4, <2>5
    <2>10. itemRetry' = [itemRetry EXCEPT ![c] = n]
      BY <2>6
    <2> HIDE DEF c, s, n
    <2> QED BY <1>1, <1>2, <1>4, <2>1, <2>3, <2>6, <2>7, <2>8, <2>9, <2>10, RowWritten
  <1>6. CASE ~HoldsItemLease(k)
    <2>1. UNCHANGED <<itemRowVars, itemArticle, itemMessages, itemAcked>>
      BY <1>3, <1>6 DEF FailItem, CountItemFailure, itemRowVars
    <2>2. itemMessages' \in SUBSET Item /\ itemAcked' \in SUBSET Item
      BY <2>1 DEF IInv, ItemTypeOK
    <2> QED BY <1>2, <1>4, <2>1, <2>2, RowsKept
  <1> QED BY <1>5, <1>6 DEF FailItem

(* A lapsed lease changes nothing but the lease.                           *)
LEMMA LeaseLapsesStep ==
    ASSUME IInv, NEW c \in Item, ItemLeaseLapses(c)
    PROVE  IInv'
  <1>1. faults' \in 0..MaxFaults
    BY FaultTyped DEF ItemLeaseLapses
  <1> QED BY <1>1 DEF ItemLeaseLapses, IInv, ItemTypeOK, WorkInv, CountInv, CommittedItemIsAdmitted,
                      AckedItemIsSettled

(* What the queue does to its copies touches no row.                       *)
LEMMA QueueStep ==
    ASSUME IInv, NEW c \in Item, DropItemMessage(c) \/ RedispatchItem(c)
    PROVE  IInv'
  <1>1. UNCHANGED <<itemRowVars, itemArticle, itemAcked, ipc, imsg>>
    BY DEF DropItemMessage, RedispatchItem
  <1>2. itemMessages' \in SUBSET Item
    BY DEF DropItemMessage, RedispatchItem, IInv, ItemTypeOK
  <1>3. faults' \in 0..MaxFaults
    BY FaultTyped DEF DropItemMessage, RedispatchItem
  <1>4. PlacesTyped' /\ WorkInv'
    BY <1>1 DEF IInv, ItemTypeOK, WorkInv, PlacesTyped
  <1>5. itemAcked' \in SUBSET Item
    BY <1>1 DEF IInv, ItemTypeOK
  <1> QED BY <1>1, <1>2, <1>3, <1>4, <1>5, RowsKept

(* The invariant is inductive.                                             *)
LEMMA NextIInv == IInv /\ [ItemNext]_itemVars => IInv'
  <1> SUFFICES ASSUME IInv, [ItemNext]_itemVars PROVE IInv'
    OBVIOUS
  <1>1. CASE UNCHANGED itemVars
    BY <1>1 DEF itemVars, itemOwnVars, itemRowVars, IInv, ItemTypeOK, WorkInv, CountInv,
                CommittedItemIsAdmitted, AckedItemIsSettled
  <1>2. ASSUME NEW k \in Consumer, NEW c \in Item, ClaimItem(k, c) \/ AckDuplicateItem(k, c)
        PROVE  IInv'
    BY <1>2, ClaimStep, AckDuplicateStep
  <1>3. ASSUME NEW k \in Consumer,
               \/ ReadItem(k) \/ CommitItem(k) \/ VerifyItem(k) \/ FailItem(k)
               \/ ItemD1Error(k) \/ ItemCrash(k)
        PROVE  IInv'
    BY <1>3, PlaceStep, CommitStep, VerifyStep, FailStep
  <1>4. ASSUME NEW c \in Item, ItemLeaseLapses(c) \/ DropItemMessage(c) \/ RedispatchItem(c)
        PROVE  IInv'
    BY <1>4, LeaseLapsesStep, QueueStep
  <1> QED BY <1>1, <1>2, <1>3, <1>4 DEF ItemNext

(* The inductive invariant of the consumer.                                *)
THEOREM Invariance == ItemSpec => []IInv
  BY InitIInv, NextIInv, PTL DEF ItemSpec

-----------------------------------------------------------------------------
(* The theorems.                                                           *)

(* Type correctness, with the retry counts within max_retries.             *)
THEOREM TypeCorrect == ItemSpec => []ItemTypeOK
  <1>1. IInv => ItemTypeOK
    BY DEF IInv
  <1> QED BY <1>1, Invariance, PTL

(* An acknowledged item was stored or given up: its row is settled, and a  *)
(* committed row has its article, whichever invocation inserted it.        *)
THEOREM AckedWasStored == ItemSpec => []AckedIsStored
  <1>1. IInv => AckedIsStored
    BY DEF IInv, ItemTypeOK, CommittedItemIsAdmitted, AckedItemIsSettled, AckedIsStored, Terminal
  <1> QED BY <1>1, Invariance, PTL

(* The fence: no step writes a settled row, and none withdraws an article. *)
THEOREM SettledStaysSettled == ItemSpec => ItemsStaySettled
  <1> DEFINE Final == /\ \A c \in Item : itemState[c] \in Terminal => itemState'[c] = itemState[c]
                      /\ itemArticle \subseteq itemArticle'
  <1>1. ASSUME IInv, [ItemNext]_itemVars PROVE [Final]_itemVars
    <2>1. CASE UNCHANGED itemVars
      BY <2>1
    <2>2. ASSUME NEW k \in Consumer, NEW c \in Item, ClaimItem(k, c) \/ AckDuplicateItem(k, c)
          PROVE  Final
      BY <1>1, <2>2 DEF IInv, ItemTypeOK, ClaimItem, AckDuplicateItem, ItemClaimable, Terminal,
                        itemRowVars
    <2>3. ASSUME NEW k \in Consumer, CommitItem(k) \/ FailItem(k) PROVE Final
      BY <1>1, <2>3 DEF IInv, ItemTypeOK, CommitItem, AdmitItem, FailItem, CountItemFailure,
                        HoldsItemLease, Terminal
    <2>4. ASSUME NEW k \in Consumer,
                 ReadItem(k) \/ VerifyItem(k) \/ ItemD1Error(k) \/ ItemCrash(k)
          PROVE  Final
      BY <2>4 DEF ReadItem, VerifyItem, ItemD1Error, ItemCrash, itemRowVars
    <2>5. ASSUME NEW c \in Item, ItemLeaseLapses(c) \/ DropItemMessage(c) \/ RedispatchItem(c)
          PROVE  Final
      BY <2>5 DEF ItemLeaseLapses, DropItemMessage, RedispatchItem, itemRowVars
    <2> QED BY <1>1, <2>1, <2>2, <2>3, <2>4, <2>5 DEF ItemNext
  <1> QED BY <1>1, Invariance, PTL DEF ItemSpec, ItemsStaySettled
=============================================================================
