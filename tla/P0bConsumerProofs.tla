------------------------- MODULE P0bConsumerProofs -------------------------
(***************************************************************************)
(* The safety properties of the bundle consumer for every number of        *)
(* invocations, bundles, candidates and faults and every slice size; and,  *)
(* with those of the producer, of the pipeline the two make.               *)
(***************************************************************************)
EXTENDS P0bPipeline, P0bProducerProofs, TLAPS

MessageTyped == \A k \in Consumer : cpc[k] # "idle" => cmsg[k] \in Uri

(***************************************************************************)
(* Initial states.                                                         *)
(***************************************************************************)

(* The invariant holds before the first bundle is journaled.               *)
LEMMA InitIInv == Init => IInv
  <1> SUFFICES ASSUME Init PROVE IInv
    OBVIOUS
  <1> USE StoreAssumption, ConsumerAssumption DEF Init, StoreInit, ConsumerInit
  <1>1. TypeOK
    BY DEF TypeOK, StoreTypeOK, BundleState, RowState, Stage
  <1>2. RowsBelong /\ RowStateMatches /\ OneRowPerDigest
    BY DEF RowsBelong, RowStateMatches, OneRowPerDigest
  <1>3. ArticleJournalParity /\ CommittedIsComplete /\ NoPartialAdmission
    BY DEF ArticleJournalParity, CommittedIsComplete, NoPartialAdmission
  <1>4. RetryBudget /\ AckedIsSettled
    BY DEF RetryBudget, AckedIsSettled
  <1>5. StagesOK
    BY DEF StagesOK, StageOK
  <1> QED BY <1>1, <1>2, <1>3, <1>4, <1>5 DEF IInv

(***************************************************************************)
(* Type correctness.                                                       *)
(***************************************************************************)

(* A failure is only counted below the budget, so the count stays in it.   *)
LEMMA CountFailureType ==
    ASSUME TypeOK, RetryBudget, NEW k \in Consumer, cmsg[k] \in Uri, CountFailure(k)
    PROVE  /\ bundleState' \in [Uri -> BundleState]
           /\ bundleRetry' \in [Uri -> 0..MaxRetries]
           /\ leaseOwner' \in [Uri -> Consumer \cup {Nobody}]
           /\ leaseLive' \in [Uri -> BOOLEAN]
           /\ messages' \in SUBSET Uri
           /\ acked' \in SUBSET Uri
           /\ faults' \in 0..MaxFaults
  <1> DEFINE u == cmsg[k]
  <1>1. bundleRetry[u] \in 0..MaxRetries /\ bundleRetry[u] # MaxRetries
    BY DEF TypeOK, StoreTypeOK, RetryBudget, CountFailure, HoldsLease
  <1>2. bundleRetry[u] + 1 \in 0..MaxRetries
    BY <1>1, ConsumerAssumption
  <1>3. bundleState' \in [Uri -> BundleState]
    BY DEF TypeOK, StoreTypeOK, CountFailure, BundleState
  <1>4. bundleRetry' \in [Uri -> 0..MaxRetries]
    BY <1>2 DEF TypeOK, StoreTypeOK, CountFailure
  <1>5. leaseOwner' \in [Uri -> Consumer \cup {Nobody}] /\ leaseLive' \in [Uri -> BOOLEAN]
    BY DEF TypeOK, CountFailure
  <1>6. messages' \in SUBSET Uri /\ acked' \in SUBSET Uri
    BY DEF TypeOK, StoreTypeOK, CountFailure, AckMessage
  <1>7. faults' \in 0..MaxFaults
    BY ConsumerAssumption DEF TypeOK, CountFailure, Fault
  <1> QED BY <1>3, <1>4, <1>5, <1>6, <1>7

(* Every step keeps the variables in their types: the journal batch and the*)
(* slices write only existing candidates, and faults stay in their bound.  *)
LEMMA TypeStep ==
    ASSUME TypeOK, RetryBudget, MessageTyped, [Next]_cvars
    PROVE  TypeOK'
  <1> USE StoreAssumption, ConsumerAssumption
      DEF TypeOK, StoreTypeOK, BundleState, RowState, Stage, MessageTyped,
          Goto, Release, Fault, Send, AckMessage, storeVars, leaseVars, consumerVars
  <1>1. ASSUME NEW k \in Consumer, NEW u \in Uri, Claim(k, u) PROVE TypeOK'
    BY <1>1 DEF Claim
  <1>2. ASSUME NEW k \in Consumer, NEW u \in Uri, AckDuplicate(k, u) PROVE TypeOK'
    BY <1>2 DEF AckDuplicate
  <1>3. ASSUME NEW k \in Consumer, ReadBundle(k) PROVE TypeOK'
    BY <1>3 DEF ReadBundle
  <1>4. ASSUME NEW k \in Consumer, CheckJournal(k) PROVE TypeOK'
    BY <1>4 DEF CheckJournal
  <1>5. ASSUME NEW k \in Consumer, NEW slice \in SUBSET todo[k], CommitSlice(k, slice)
        PROVE  TypeOK'
    <2>1. cmsg[k] \in Uri
      BY <1>5 DEF CommitSlice
    <2> QED BY <1>5, <2>1 DEF CommitSlice
  <1>6. ASSUME NEW k \in Consumer, Verify(k) PROVE TypeOK'
    BY <1>6 DEF Verify
  <1>7. ASSUME NEW k \in Consumer, Finish(k) PROVE TypeOK'
    BY <1>7 DEF Finish
  <1>8. ASSUME NEW k \in Consumer, Prove(k) PROVE TypeOK'
    BY <1>8 DEF Prove
  <1>9. ASSUME NEW k \in Consumer, Fail(k) PROVE TypeOK'
    <2>1. cmsg[k] \in Uri
      BY <1>9 DEF Fail
    <2>2. CASE CountFailure(k)
      <3>1. /\ cpc' \in [Consumer -> Stage] /\ cmsg' \in [Consumer -> Uri \cup {NoUri}]
            /\ todo' \in [Consumer -> SUBSET Candidate]
        BY <1>9 DEF Fail
      <3> QED BY <1>9, <2>1, <2>2, <3>1, CountFailureType DEF Fail
    <2>3. CASE ~CountFailure(k)
      BY <1>9, <2>3 DEF Fail
    <2> QED BY <2>2, <2>3
  <1>10. ASSUME NEW k \in Consumer, D1Error(k) \/ Crash(k) PROVE TypeOK'
    BY <1>10 DEF D1Error, Crash
  <1>11. ASSUME NEW u \in Uri, LeaseLapses(u) \/ DropMessage(u) PROVE TypeOK'
    <2>1. CASE LeaseLapses(u)
      <3>1. faults' \in 0..MaxFaults
        BY <2>1 DEF LeaseLapses
      <3>2. leaseLive' \in [Uri -> BOOLEAN]
        BY <2>1 DEF LeaseLapses
      <3> QED BY <2>1, <3>1, <3>2 DEF LeaseLapses
    <2>2. CASE DropMessage(u)
      BY <2>2 DEF DropMessage
    <2> QED BY <1>11, <2>1, <2>2
  <1>12. ASSUME NEW u \in Uri, DrainBacklog(u) \/ ProducerSends(u) PROVE TypeOK'
    BY <1>12 DEF DrainBacklog, ProducerSends
  <1>13. ASSUME NEW u \in Uri, ProducerJournals(u) PROVE TypeOK'
    BY <1>13 DEF ProducerJournals, JournalBatch
  <1>14. CASE UNCHANGED cvars
    BY <1>14 DEF cvars
  <1> QED BY <1>1, <1>2, <1>3, <1>4, <1>5, <1>6, <1>7, <1>8, <1>9, <1>10, <1>11,
             <1>12, <1>13, <1>14 DEF Next, ConsumerStep, ConsumerFault

(***************************************************************************)
(* What each step may do to the tables.                                    *)
(***************************************************************************)

(* Only a slice and a journal batch write item rows or articles.           *)
LEMMA RowWriters ==
    ASSUME [Next]_cvars
    PROVE  \/ UNCHANGED <<rowUri, rowState, article>>
           \/ \E k \in Consumer : \E slice \in SUBSET todo[k] : CommitSlice(k, slice)
           \/ \E u \in Uri : ProducerJournals(u)
  BY DEF Next, ConsumerStep, ConsumerFault, cvars, storeVars, consumerVars, Claim,
         AckDuplicate, ReadBundle, CheckJournal, Verify, Finish, Prove, Fail, D1Error,
         Crash, LeaseLapses, DropMessage, DrainBacklog, ProducerSends

(* A bundle row never disappears, a settled one never changes, and only the*)
(* finishing holder of the lease marks one committed.                      *)
LEMMA BundleWriters ==
    ASSUME TypeOK, MessageTyped, [Next]_cvars, NEW u \in Uri
    PROVE  /\ bundleState[u] # "NONE" => bundleState'[u] # "NONE"
           /\ bundleState[u] \in Terminal => bundleState'[u] = bundleState[u]
           /\ bundleState'[u] = "D1_COMMITTED" =>
                \/ bundleState[u] = "D1_COMMITTED"
                \/ \E k \in Consumer : cmsg[k] = u /\ Finish(k)
  <1> USE DEF TypeOK, StoreTypeOK, MessageTyped, Terminal
  <1>1. CASE UNCHANGED bundleState
    BY <1>1
  <1>2. ASSUME NEW k \in Consumer, NEW v \in Uri, Claim(k, v)
        PROVE  /\ bundleState[u] # "NONE" => bundleState'[u] # "NONE"
               /\ bundleState[u] \in Terminal => bundleState'[u] = bundleState[u]
               /\ bundleState'[u] = "D1_COMMITTED" => bundleState[u] = "D1_COMMITTED"
    BY <1>2 DEF Claim, Claimable
  <1>3. ASSUME NEW k \in Consumer, Finish(k), bundleState' # bundleState
        PROVE  /\ bundleState[u] # "NONE" => bundleState'[u] # "NONE"
               /\ bundleState[u] \in Terminal => bundleState'[u] = bundleState[u]
               /\ bundleState'[u] = "D1_COMMITTED" =>
                    bundleState[u] = "D1_COMMITTED" \/ cmsg[k] = u
    BY <1>3 DEF Finish, HoldsLease
  <1>4. ASSUME NEW k \in Consumer, Fail(k), bundleState' # bundleState
        PROVE  /\ bundleState[u] # "NONE" => bundleState'[u] # "NONE"
               /\ bundleState[u] \in Terminal => bundleState'[u] = bundleState[u]
               /\ bundleState'[u] = "D1_COMMITTED" => bundleState[u] = "D1_COMMITTED"
    <2>1. CountFailure(k)
      BY <1>4 DEF Fail
    <2> QED BY <2>1 DEF CountFailure, HoldsLease
  <1>5. ASSUME NEW v \in Uri, ProducerJournals(v)
        PROVE  /\ bundleState[u] # "NONE" => bundleState'[u] # "NONE"
               /\ bundleState[u] \in Terminal => bundleState'[u] = bundleState[u]
               /\ bundleState'[u] = "D1_COMMITTED" => bundleState[u] = "D1_COMMITTED"
    BY <1>5 DEF ProducerJournals, JournalBatch
  <1>6. \/ UNCHANGED bundleState
        \/ \E k \in Consumer : \E v \in Uri : Claim(k, v)
        \/ \E k \in Consumer : Finish(k) \/ Fail(k)
        \/ \E v \in Uri : ProducerJournals(v)
    BY DEF Next, ConsumerStep, ConsumerFault, cvars, storeVars, AckDuplicate, ReadBundle,
           CheckJournal, CommitSlice, Verify, Prove, D1Error, Crash, LeaseLapses,
           DropMessage, DrainBacklog, ProducerSends
  <1> QED BY <1>1, <1>2, <1>3, <1>4, <1>5, <1>6

(* Rows are never moved between bundles or taken back from D1_COMMITTED.   *)
LEMMA RowsGrow ==
    ASSUME TypeOK, [Next]_cvars, NEW c \in Candidate
    PROVE  /\ rowUri[c] # NoUri => rowUri'[c] = rowUri[c]
           /\ rowState[c] = "D1_COMMITTED" /\ rowUri[c] # NoUri => rowState'[c] = "D1_COMMITTED"
  <1>1. ASSUME NEW k \in Consumer, NEW slice \in SUBSET todo[k], CommitSlice(k, slice)
        PROVE  /\ rowUri'[c] = rowUri[c]
               /\ (rowState[c] = "D1_COMMITTED" => rowState'[c] = "D1_COMMITTED")
    BY <1>1 DEF CommitSlice
  <1>2. ASSUME NEW u \in Uri, ProducerJournals(u), rowUri[c] # NoUri
        PROVE  rowUri'[c] = rowUri[c] /\ rowState'[c] = rowState[c]
    <2>1. Journaled(c)
      BY <1>2 DEF Journaled
    <2> QED BY <1>2, <2>1 DEF ProducerJournals, JournalBatch
  <1> QED BY <1>1, <1>2, RowWriters

(* A bundle whose journal is its manifest keeps exactly that journal.      *)
LEMMA JournalSettles ==
    ASSUME TypeOK, [Next]_cvars, NEW u \in Uri, JournalOf(u) = Manifest[u]
    PROVE  JournalOf(u)' = Manifest[u]
  <1>1. ASSUME NEW v \in Uri, ProducerJournals(v), NEW c \in Candidate
        PROVE  rowUri'[c] = u <=> rowUri[c] = u
    <2>1. rowUri'[c] = IF c \in Manifest[v] /\ ~Journaled(c) THEN v ELSE rowUri[c]
      BY <1>1 DEF ProducerJournals, JournalBatch
    <2>2. CASE c \in Manifest[v] /\ ~Journaled(c)
      <3>1. rowUri[c] = NoUri
        BY <2>2 DEF Journaled
      <3>2. rowUri[c] # u /\ c \notin Manifest[u]
        BY <3>1, StoreAssumption DEF JournalOf
      <3> QED BY <2>1, <2>2, <3>2
    <2> QED BY <2>1, <2>2
  <1>2. \A c \in Candidate : rowUri'[c] = u <=> rowUri[c] = u
    BY <1>1, RowWriters DEF CommitSlice
  <1> QED BY <1>2 DEF JournalOf

(***************************************************************************)
(* The invariant is inductive.                                             *)
(***************************************************************************)

(* The parts of the invariant the lemmas above start from.                 *)
LEMMA InvTypes == IInv => TypeOK /\ RetryBudget /\ MessageTyped
  BY DEF IInv, StagesOK, StageOK, MessageTyped

(* The journal stays consistent with its bundles and its UNIQUE digests.   *)
LEMMA RowsStep ==
    ASSUME IInv, [Next]_cvars
    PROVE  RowsBelong' /\ RowStateMatches' /\ OneRowPerDigest'
  <1> USE StoreAssumption DEF IInv, TypeOK, StoreTypeOK
  <1>1. \A u \in Uri : bundleState[u] # "NONE" => bundleState'[u] # "NONE"
    BY BundleWriters, InvTypes
  <1>2. CASE UNCHANGED <<rowUri, rowState, article>>
    BY <1>1, <1>2 DEF RowsBelong, RowStateMatches, OneRowPerDigest
  <1>3. ASSUME NEW k \in Consumer, NEW slice \in SUBSET todo[k], CommitSlice(k, slice)
        PROVE  RowsBelong' /\ RowStateMatches' /\ OneRowPerDigest'
    <2>1. rowUri' = rowUri
      BY <1>3 DEF CommitSlice
    <2>2. \A c \in Candidate : rowState'[c] = "NONE" <=> rowState[c] = "NONE"
      BY <1>3 DEF CommitSlice
    <2> QED BY <1>1, <2>1, <2>2 DEF RowsBelong, RowStateMatches, OneRowPerDigest
  <1>4. ASSUME NEW u \in Uri, ProducerJournals(u)
        PROVE  RowsBelong' /\ RowStateMatches' /\ OneRowPerDigest'
    <2> DEFINE added == {c \in Manifest[u] : ~Journaled(c)}
    <2>1. \A c \in Candidate : rowUri'[c] = IF c \in added THEN u ELSE rowUri[c]
      BY <1>4 DEF ProducerJournals, JournalBatch
    <2>2. \A c \in Candidate : rowState'[c] = IF c \in added THEN "PENDING" ELSE rowState[c]
      BY <1>4 DEF ProducerJournals, JournalBatch
    <2>3. bundleState'[u] # "NONE"
      BY <1>4 DEF ProducerJournals, JournalBatch
    <2>4. RowsBelong'
      BY <1>1, <2>1, <2>3 DEF RowsBelong
    <2>5. RowStateMatches'
      BY <2>1, <2>2 DEF RowStateMatches
    <2>6. OneRowPerDigest'
      <3> SUFFICES ASSUME NEW c \in Candidate, NEW d \in Candidate,
                          rowUri'[c] # NoUri, rowUri'[d] # NoUri, Sha[c] = Sha[d]
                   PROVE  c = d
        BY DEF OneRowPerDigest
      <3>1. CASE c \in added /\ d \in added
        BY <3>1
      <3>2. CASE c \in added /\ d \notin added
        BY <2>1, <3>2 DEF Journaled
      <3>3. CASE c \notin added /\ d \in added
        BY <2>1, <3>3 DEF Journaled
      <3>4. CASE c \notin added /\ d \notin added
        BY <2>1, <3>4 DEF OneRowPerDigest
      <3> QED BY <3>1, <3>2, <3>3, <3>4
    <2> QED BY <2>4, <2>5, <2>6
  <1> QED BY <1>2, <1>3, <1>4, RowWriters

(* Articles follow committed rows one to one: a slice only runs over items *)
(* whose rows all name its bundle.                                         *)
LEMMA ParityStep ==
    ASSUME IInv, [Next]_cvars
    PROVE  ArticleJournalParity'
  <1> USE StoreAssumption DEF IInv, TypeOK, StoreTypeOK
  <1>1. CASE UNCHANGED <<rowUri, rowState, article>>
    BY <1>1 DEF ArticleJournalParity
  <1>2. ASSUME NEW k \in Consumer, NEW slice \in SUBSET todo[k], CommitSlice(k, slice)
        PROVE  ArticleJournalParity'
    <2> DEFINE u == cmsg[k]
    <2>1. u \in Uri /\ JournalOf(u) = Manifest[u]
      BY <1>2 DEF CommitSlice, StagesOK, StageOK
    <2>2. SUFFICES ASSUME NEW c \in Candidate
                   PROVE  article'[c] = IF rowState'[c] = "D1_COMMITTED" THEN rowUri'[c] ELSE NoUri
      BY DEF ArticleJournalParity
    <2>3. /\ article'[c] = IF c \in slice /\ ~Admitted(c) THEN u ELSE article[c]
          /\ rowState'[c] = IF c \in slice /\ rowUri[c] = u /\ rowState[c] = "PENDING"
                            THEN "D1_COMMITTED" ELSE rowState[c]
          /\ rowUri'[c] = rowUri[c]
      BY <1>2 DEF CommitSlice
    <2>4. CASE c \notin slice
      BY <2>3, <2>4 DEF ArticleJournalParity
    <2>5. CASE c \in slice /\ rowUri[c] # u
      <3>1. c \in Manifest[u]
        BY <1>2, <2>5 DEF CommitSlice, StagesOK, StageOK
      <3> QED BY <2>1, <2>5, <3>1 DEF JournalOf
    <2>6. CASE c \in slice /\ rowUri[c] = u
      <3>1. u # NoUri
        BY <2>1
      <3>2. rowState[c] # "NONE"
        BY <2>6, <3>1 DEF RowStateMatches
      <3>3. rowState[c] \in {"PENDING", "D1_COMMITTED"}
        BY <3>2 DEF RowState
      <3>4. Admitted(c) <=> article[c] # NoUri
        BY <2>6, <3>1 DEF Admitted, ArticleJournalParity, OneRowPerDigest
      <3>5. article[c] # NoUri <=> rowState[c] = "D1_COMMITTED"
        BY <2>6, <3>1 DEF ArticleJournalParity
      <3> QED BY <2>3, <2>6, <3>3, <3>4, <3>5 DEF ArticleJournalParity
    <2> QED BY <2>4, <2>5, <2>6
  <1>3. ASSUME NEW u \in Uri, ProducerJournals(u)
        PROVE  ArticleJournalParity'
    <2>1. SUFFICES ASSUME NEW c \in Candidate
                   PROVE  article'[c] = IF rowState'[c] = "D1_COMMITTED" THEN rowUri'[c] ELSE NoUri
      BY DEF ArticleJournalParity
    <2>2. CASE c \in Manifest[u] /\ ~Journaled(c)
      <3>1. rowUri[c] = NoUri
        BY <2>2 DEF Journaled
      <3>2. rowState'[c] = "PENDING" /\ article'[c] = article[c]
        BY <1>3, <2>2 DEF ProducerJournals, JournalBatch
      <3> QED BY <3>1, <3>2 DEF ArticleJournalParity
    <2>3. CASE ~(c \in Manifest[u] /\ ~Journaled(c))
      BY <1>3, <2>3 DEF ProducerJournals, JournalBatch, ArticleJournalParity
    <2> QED BY <2>2, <2>3
  <1> QED BY <1>1, <1>2, <1>3, RowWriters

(* A committed bundle is and stays complete; no article comes from a bundle*)
(* that is only partly journaled.                                          *)
LEMMA CommittedStep ==
    ASSUME IInv, [Next]_cvars
    PROVE  CommittedIsComplete' /\ NoPartialAdmission'
  <1> USE StoreAssumption DEF IInv, TypeOK, StoreTypeOK
  <1>1. ArticleJournalParity'
    BY ParityStep
  <1>2. ASSUME NEW u \in Uri, JournalOf(u) = Manifest[u], Complete(u)
        PROVE  JournalOf(u)' = Manifest[u] /\ Complete(u)'
    <2>1. \A c \in Manifest[u] : c \in Candidate /\ rowUri[c] # NoUri
      BY <1>2 DEF JournalOf
    <2> QED BY <1>2, <2>1, JournalSettles, RowsGrow DEF Complete
  <1>3. CommittedIsComplete'
    <2> SUFFICES ASSUME NEW u \in Uri, bundleState'[u] = "D1_COMMITTED"
                 PROVE  /\ JournalOf(u)' = Manifest[u]
                        /\ \A c \in Manifest[u] : rowState'[c] = "D1_COMMITTED" /\ article'[c] = u
      BY DEF CommittedIsComplete
    <2>1. JournalOf(u) = Manifest[u] /\ Complete(u)
      <3>1. CASE bundleState[u] = "D1_COMMITTED"
        BY <3>1 DEF CommittedIsComplete, Complete
      <3>2. ASSUME NEW k \in Consumer, cmsg[k] = u, Finish(k)
            PROVE  JournalOf(u) = Manifest[u] /\ Complete(u)
        BY <3>2 DEF Finish, StagesOK, StageOK
      <3> QED BY <3>1, <3>2, BundleWriters, InvTypes
    <2>2. JournalOf(u)' = Manifest[u] /\ Complete(u)'
      BY <1>2, <2>1
    <2> QED BY <1>1, <2>2 DEF ArticleJournalParity, Complete, JournalOf
  <1>4. NoPartialAdmission'
    <2> SUFFICES ASSUME NEW c \in Candidate, article'[c] # NoUri
                 PROVE  (JournalOf(article[c]) = Manifest[article[c]])'
      BY DEF NoPartialAdmission
    <2>1. CASE article'[c] = article[c]
      <3> DEFINE u == article[c]
      <3>1. u \in Uri /\ JournalOf(u) = Manifest[u]
        BY <2>1 DEF NoPartialAdmission
      <3>2. \A d \in Candidate : rowUri'[d] = u <=> d \in Manifest[u]
        BY <3>1, JournalSettles DEF JournalOf
      <3> QED BY <2>1, <3>1, <3>2 DEF JournalOf
    <2>2. ASSUME NEW k \in Consumer, NEW slice \in SUBSET todo[k], CommitSlice(k, slice),
                 article'[c] # article[c]
          PROVE  (JournalOf(article[c]) = Manifest[article[c]])'
      <3> DEFINE u == cmsg[k]
      <3>1. article'[c] = u /\ cpc[k] = "committing"
        BY <2>2 DEF CommitSlice
      <3>2. u \in Uri /\ JournalOf(u) = Manifest[u]
        BY <3>1 DEF StagesOK, StageOK
      <3>3. \A d \in Candidate : rowUri'[d] = u <=> d \in Manifest[u]
        BY <3>2, JournalSettles DEF JournalOf
      <3> QED BY <3>1, <3>2, <3>3 DEF JournalOf
    <2>3. ASSUME NEW u \in Uri, ProducerJournals(u) PROVE article' = article
      BY <2>3 DEF ProducerJournals, JournalBatch
    <2> QED BY <2>1, <2>2, <2>3, RowWriters
  <1> QED BY <1>3, <1>4

(* The dead letter and the exhausted retry count come and go together.     *)
LEMMA BudgetStep ==
    ASSUME IInv, [Next]_cvars
    PROVE  RetryBudget'
  <1> USE StoreAssumption DEF IInv, TypeOK, StoreTypeOK
  <1>1. ASSUME NEW k \in Consumer, Fail(k), CountFailure(k) PROVE RetryBudget'
    <2> DEFINE u == cmsg[k]
    <2>1. u \in Uri /\ bundleState[u] = "PROCESSING"
      BY <1>1 DEF CountFailure, HoldsLease, Fail, StagesOK, StageOK
    <2>2. bundleRetry[u] \in 0..MaxRetries /\ bundleRetry[u] # MaxRetries
      BY <2>1 DEF RetryBudget
    <2>3. LastFailure(u) <=> bundleRetry[u] + 1 = MaxRetries
      <3>1. \A n \in 0..MaxRetries : n # MaxRetries => (n + 1 >= MaxRetries <=> n + 1 = MaxRetries)
        BY ConsumerAssumption
      <3> QED BY <2>2, <3>1 DEF LastFailure
    <2>4. \A v \in Uri :
            /\ bundleState'[v] = IF v = u THEN IF LastFailure(u) THEN "DEAD_LETTER" ELSE "RETRY"
                                           ELSE bundleState[v]
            /\ bundleRetry'[v] = IF v = u THEN bundleRetry[u] + 1 ELSE bundleRetry[v]
      BY <1>1 DEF CountFailure
    <2> QED BY <2>3, <2>4 DEF RetryBudget
  <1>2. \/ \E k \in Consumer : Fail(k) /\ CountFailure(k)
        \/ /\ UNCHANGED bundleRetry
           /\ \A u \in Uri : bundleState'[u] = "DEAD_LETTER" <=> bundleState[u] = "DEAD_LETTER"
    <2>1. ASSUME NEW k \in Consumer, NEW u \in Uri, Claim(k, u)
          PROVE  /\ UNCHANGED bundleRetry
                 /\ \A v \in Uri : bundleState'[v] = "DEAD_LETTER"
                                     <=> bundleState[v] = "DEAD_LETTER"
      BY <2>1 DEF Claim, Claimable
    <2>2. ASSUME NEW k \in Consumer, Finish(k)
          PROVE  /\ UNCHANGED bundleRetry
                 /\ \A v \in Uri : bundleState'[v] = "DEAD_LETTER"
                                     <=> bundleState[v] = "DEAD_LETTER"
      BY <2>2 DEF Finish, HoldsLease
    <2>3. ASSUME NEW u \in Uri, ProducerJournals(u)
          PROVE  /\ UNCHANGED bundleRetry
                 /\ \A v \in Uri : bundleState'[v] = "DEAD_LETTER"
                                     <=> bundleState[v] = "DEAD_LETTER"
      BY <2>3 DEF ProducerJournals, JournalBatch
    <2>4. \/ UNCHANGED <<bundleRetry, bundleState>>
          \/ \E k \in Consumer : \E u \in Uri : Claim(k, u)
          \/ \E k \in Consumer : Finish(k) \/ (Fail(k) /\ CountFailure(k))
          \/ \E u \in Uri : ProducerJournals(u)
      BY DEF Next, ConsumerStep, ConsumerFault, cvars, storeVars, AckDuplicate, ReadBundle,
             CheckJournal, CommitSlice, Verify, Prove, Fail, D1Error, Crash, LeaseLapses,
             DropMessage, DrainBacklog, ProducerSends
    <2> QED BY <2>1, <2>2, <2>3, <2>4
  <1> QED BY <1>1, <1>2 DEF RetryBudget

(* Every call of message.ack() follows a settled bundle row.               *)
LEMMA AckStep ==
    ASSUME IInv, [Next]_cvars
    PROVE  AckedIsSettled'
  <1> USE DEF IInv, TypeOK, StoreTypeOK, Terminal
  <1> SUFFICES ASSUME NEW u \in acked' PROVE bundleState'[u] \in Terminal
    BY DEF AckedIsSettled
  <1>1. CASE u \in acked
    BY <1>1, BundleWriters, InvTypes DEF AckedIsSettled
  <1>2. ASSUME u \notin acked, NEW k \in Consumer, NEW v \in Uri, AckDuplicate(k, v)
        PROVE  bundleState'[u] \in Terminal
    BY <1>2 DEF AckDuplicate
  <1>3. ASSUME u \notin acked, NEW k \in Consumer, Prove(k)
        PROVE  bundleState'[u] \in Terminal
    BY <1>3 DEF Prove, AckMessage, StagesOK, StageOK
  <1>4. ASSUME u \notin acked, NEW k \in Consumer, Fail(k)
        PROVE  bundleState'[u] \in Terminal
    <2>1. CountFailure(k) /\ cmsg[k] \in Uri
      BY <1>4 DEF Fail, StagesOK, StageOK
    <2>2. u = cmsg[k] /\ LastFailure(u)
      BY <1>4, <2>1 DEF CountFailure, AckMessage
    <2> QED BY <2>1, <2>2 DEF CountFailure
  <1>5. \/ UNCHANGED acked
        \/ \E k \in Consumer : \E v \in Uri : AckDuplicate(k, v)
        \/ \E k \in Consumer : Prove(k) \/ Fail(k)
    BY DEF Next, ConsumerStep, ConsumerFault, cvars, consumerVars, Claim, ReadBundle,
           CheckJournal, CommitSlice, Verify, Finish, D1Error, Crash, LeaseLapses,
           DropMessage, DrainBacklog, ProducerSends, ProducerJournals
  <1> QED BY <1>1, <1>2, <1>3, <1>4, <1>5

(* What an invocation checked stays true while others crash, lapse, commit *)
(* the same items and journal other bundles.                               *)
LEMMA StageStep ==
    ASSUME IInv, [Next]_cvars
    PROVE  StagesOK'
  <1> USE StoreAssumption DEF IInv, TypeOK, StoreTypeOK, Stage
  <1> SUFFICES ASSUME NEW j \in Consumer PROVE StageOK(j)'
    BY DEF StagesOK
  <1>1. StageOK(j)
    BY DEF StagesOK
  <1>2. ASSUME cpc'[j] = cpc[j], cmsg'[j] = cmsg[j], todo'[j] \subseteq todo[j]
        PROVE  StageOK(j)'
    <2> DEFINE u == cmsg[j]
    <2>1. cpc'[j] # "idle" => cmsg'[j] \in Uri /\ todo'[j] \subseteq Manifest[cmsg'[j]]
      BY <1>1, <1>2 DEF StageOK
    <2>2. ASSUME u \in Uri, JournalOf(u) = Manifest[u]
          PROVE  (JournalOf(cmsg[j]) = Manifest[cmsg[j]])' /\ (Complete(u) => Complete(cmsg[j])')
      <3>1. \A d \in Candidate : rowUri'[d] = u <=> d \in Manifest[u]
        BY <2>2, JournalSettles DEF JournalOf
      <3>2. \A d \in Manifest[u] : d \in Candidate /\ rowUri[d] # NoUri
        BY <2>2 DEF JournalOf
      <3>3. Complete(u) => \A d \in Manifest[u] : rowState'[d] = "D1_COMMITTED"
        BY <3>2, RowsGrow DEF Complete
      <3> QED BY <1>2, <2>2, <3>1, <3>3 DEF JournalOf, Complete
    <2>3. u \in Uri /\ bundleState[u] = "D1_COMMITTED" => bundleState'[u] = "D1_COMMITTED"
      BY BundleWriters, InvTypes DEF Terminal
    <2> QED BY <1>1, <1>2, <2>1, <2>2, <2>3 DEF StageOK
  <1>3. ASSUME cpc'[j] \in {"idle", "failing"}, cmsg'[j] = cmsg[j], todo'[j] = todo[j],
               cpc[j] # "idle"
        PROVE  StageOK(j)'
    BY <1>1, <1>3 DEF StageOK
  <1>4. ASSUME cpc'[j] = "idle" PROVE StageOK(j)'
    BY <1>4 DEF StageOK
  <1>5. ASSUME NEW k \in Consumer, NEW u \in Uri, Claim(k, u) PROVE StageOK(j)'
    <2>1. CASE j = k
      BY <1>5, <2>1 DEF Claim, StageOK
    <2>2. CASE j # k
      BY <1>2, <1>5, <2>2 DEF Claim
    <2> QED BY <2>1, <2>2
  <1>6. ASSUME NEW k \in Consumer, ReadBundle(k) PROVE StageOK(j)'
    <2>1. CASE j = k
      BY <1>1, <1>6, <2>1 DEF ReadBundle, Goto, StageOK
    <2>2. CASE j # k
      BY <1>2, <1>6, <2>2 DEF ReadBundle, Goto
    <2> QED BY <2>1, <2>2
  <1>7. ASSUME NEW k \in Consumer, CheckJournal(k) PROVE StageOK(j)'
    <2>1. CASE j = k
      BY <1>1, <1>7, <2>1 DEF CheckJournal, ManifestJournaled, Goto, StageOK, storeVars, JournalOf
    <2>2. CASE j # k
      BY <1>2, <1>7, <2>2 DEF CheckJournal, Goto
    <2> QED BY <2>1, <2>2
  <1>8. ASSUME NEW k \in Consumer, NEW slice \in SUBSET todo[k], CommitSlice(k, slice)
        PROVE  StageOK(j)'
    <2>1. CASE j = k
      <3>1. cmsg'[j] = cmsg[j] /\ cpc'[j] \in {"committing", "verifying"}
            /\ todo'[j] \subseteq todo[j]
        BY <1>8, <2>1 DEF CommitSlice, Goto
      <3>2. JournalOf(cmsg[j]) = Manifest[cmsg[j]] /\ UNCHANGED rowUri
        BY <1>1, <1>8, <2>1 DEF CommitSlice, StageOK
      <3>3. (JournalOf(cmsg[j]) = Manifest[cmsg[j]])'
        BY <3>1, <3>2 DEF JournalOf
      <3> QED BY <1>1, <1>8, <2>1, <3>1, <3>3 DEF StageOK, CommitSlice
    <2>2. CASE j # k
      BY <1>2, <1>8, <2>2 DEF CommitSlice, Goto
    <2> QED BY <2>1, <2>2
  <1>9. ASSUME NEW k \in Consumer, Verify(k) PROVE StageOK(j)'
    <2>1. CASE j = k
      BY <1>1, <1>9, <2>1 DEF Verify, Goto, StageOK, storeVars, JournalOf, Complete
    <2>2. CASE j # k
      BY <1>2, <1>9, <2>2 DEF Verify, Goto
    <2> QED BY <2>1, <2>2
  <1>10. ASSUME NEW k \in Consumer, Finish(k) PROVE StageOK(j)'
    <2>1. CASE j = k
      BY <1>1, <1>10, <2>1 DEF Finish, Goto, StageOK, JournalOf
    <2>2. CASE j # k
      BY <1>2, <1>10, <2>2 DEF Finish, Goto
    <2> QED BY <2>1, <2>2
  <1>11. ASSUME NEW k \in Consumer, Prove(k) \/ Fail(k) \/ Crash(k) PROVE StageOK(j)'
    <2>1. Release(k)
      BY <1>11 DEF Prove, Fail, Crash
    <2>2. CASE j = k
      BY <1>4, <2>1, <2>2 DEF Release, Goto
    <2>3. CASE j # k
      BY <1>2, <2>1, <2>3 DEF Release, Goto
    <2> QED BY <2>2, <2>3
  <1>12. ASSUME NEW k \in Consumer, D1Error(k) PROVE StageOK(j)'
    <2>1. CASE j = k
      BY <1>3, <1>12, <2>1 DEF D1Error, Goto
    <2>2. CASE j # k
      BY <1>2, <1>12, <2>2 DEF D1Error, Goto
    <2> QED BY <2>1, <2>2
  <1>13. CASE UNCHANGED <<cpc, cmsg, todo>>
    BY <1>2, <1>13
  <1>14. \/ UNCHANGED <<cpc, cmsg, todo>>
         \/ \E k \in Consumer : \E u \in Uri : Claim(k, u)
         \/ \E k \in Consumer : \E slice \in SUBSET todo[k] : CommitSlice(k, slice)
         \/ \E k \in Consumer : \/ ReadBundle(k) \/ CheckJournal(k) \/ Verify(k) \/ Finish(k)
                                \/ (Prove(k) \/ Fail(k) \/ Crash(k)) \/ D1Error(k)
    BY DEF Next, ConsumerStep, ConsumerFault, cvars, consumerVars, AckDuplicate, LeaseLapses,
           DropMessage, DrainBacklog, ProducerSends, ProducerJournals
  <1> QED BY <1>5, <1>6, <1>7, <1>8, <1>9, <1>10, <1>11, <1>12, <1>13, <1>14

(* The three facts an invariance proof needs, for every property at once.  *)
LEMMA StepIInv == IInv /\ [Next]_cvars => IInv'
  <1> SUFFICES ASSUME IInv, [Next]_cvars PROVE IInv'
    OBVIOUS
  <1>1. TypeOK'
    BY TypeStep, InvTypes
  <1> QED BY <1>1, RowsStep, ParityStep, CommittedStep, BudgetStep, AckStep, StageStep DEF IInv

(* The inductive invariant holds in every reachable state.                 *)
THEOREM Invariance == Spec => []IInv
  BY InitIInv, StepIInv, PTL DEF Spec

(***************************************************************************)
(* The theorems.                                                           *)
(***************************************************************************)

(* Type correctness, with the retry counts within max_retries.             *)
THEOREM TypeCorrect == Spec => []TypeOK
  <1>1. IInv => TypeOK
    BY DEF IInv
  <1> QED BY <1>1, Invariance, PTL

(* A bundle row that says D1_COMMITTED stands for its whole manifest,      *)
(* journaled, committed and admitted, however invocations interleave.      *)
THEOREM BundleCommitIsComplete == Spec => []CommittedIsComplete
  <1>1. IInv => CommittedIsComplete
    BY DEF IInv
  <1> QED BY <1>1, Invariance, PTL

(* No message is acknowledged for a bundle D1 has not settled.             *)
THEOREM AckOnlySettled == Spec => []AckedIsSettled
  <1>1. IInv => AckedIsSettled
    BY DEF IInv
  <1> QED BY <1>1, Invariance, PTL

(* Articles stand for exactly the committed rows.                          *)
THEOREM AdmissionIsExact == Spec => []ArticleJournalParity
  <1>1. IInv => ArticleJournalParity
    BY DEF IInv
  <1> QED BY <1>1, Invariance, PTL

(* Nothing is admitted from a bundle that is only partly journaled.        *)
THEOREM NothingPartialAdmitted == Spec => []NoPartialAdmission
  <1>1. IInv => NoPartialAdmission
    BY DEF IInv
  <1> QED BY <1>1, Invariance, PTL

(* The dead letter is the last counted failure and nothing else.           *)
THEOREM DeadLetterIsExhaustion == Spec => []RetryBudget
  <1>1. IInv => RetryBudget
    BY DEF IInv
  <1> QED BY <1>1, Invariance, PTL

(* No late invocation changes a settled bundle or an admitted article.     *)
THEOREM SettledStaysSettled == Spec => SettledIsFinal
  <1> DEFINE Kept == /\ \A u \in Uri : bundleState[u] \in Terminal
                                        => bundleState'[u] = bundleState[u]
                     /\ \A c \in Candidate : article[c] # NoUri => article'[c] = article[c]
  <1>1. IInv /\ [Next]_cvars => [Kept]_cvars
    <2> SUFFICES ASSUME IInv, [Next]_cvars PROVE Kept
      OBVIOUS
    <2>1. \A u \in Uri : bundleState[u] \in Terminal => bundleState'[u] = bundleState[u]
      BY BundleWriters, InvTypes
    <2>2. ASSUME NEW c \in Candidate, article[c] # NoUri PROVE article'[c] = article[c]
      <3>1. rowState[c] = "D1_COMMITTED" /\ rowUri[c] = article[c]
        BY <2>2 DEF IInv, ArticleJournalParity
      <3>2. rowState'[c] = "D1_COMMITTED" /\ rowUri'[c] = rowUri[c]
        BY <2>2, <3>1, RowsGrow, InvTypes
      <3> QED BY <3>1, <3>2, ParityStep DEF ArticleJournalParity
    <2> QED BY <2>1, <2>2
  <1> QED BY <1>1, Invariance, PTL DEF Spec, SettledIsFinal

(***************************************************************************)
(* The consumer implements the abstract settlement.                        *)
(***************************************************************************)

Seen(u) == IF Open(u) THEN "PENDING" ELSE bundleState[u]

(* The journal is empty for both specifications at first.                  *)
LEMMA InitSettlement == Init => Settlement!SettlementInit
  BY DEF Init, StoreInit, Settlement!SettlementInit, Settlement!StoreInit, Open

\* Some journaled bundle moves as the abstract settlement lets it.
SettlementMoves == \E u \in Uri : bundleState[u] # "NONE" /\ Settlement!SettlementStep(u)

(* Every step of the consumer is a step of the abstract settlement or a    *)
(* stutter: a slice admits, Finish commits, the last failure abandons.     *)
LEMMA ConsumersSettle ==
    ASSUME IInv, [Next]_cvars
    PROVE  \/ SettlementMoves \/ UNCHANGED Settlement!storeVars
           \/ \E u \in Uri : ProducerJournals(u)
  <1> USE StoreAssumption DEF IInv, TypeOK, StoreTypeOK
  <1>1. ASSUME UNCHANGED <<rowUri, rowState, article>>,
               \A u \in Uri : Seen(u)' = Seen(u)
        PROVE  UNCHANGED Settlement!storeVars
    BY <1>1 DEF Settlement!storeVars, Seen, Open
  <1>2. ASSUME UNCHANGED storeVars PROVE UNCHANGED Settlement!storeVars
    BY <1>2 DEF storeVars, Settlement!storeVars, Open
  <1>3. ASSUME NEW k \in Consumer, NEW u \in Uri, Claim(k, u)
        PROVE  UNCHANGED Settlement!storeVars
    BY <1>1, <1>3 DEF Claim, Claimable, Seen, Open
  <1>4. ASSUME NEW k \in Consumer, NEW slice \in SUBSET todo[k], CommitSlice(k, slice)
        PROVE  SettlementMoves
    <2> DEFINE u == cmsg[k]
    <2>1. u \in Uri /\ slice \subseteq Manifest[u] /\ JournalOf(u) = Manifest[u]
      BY <1>4 DEF CommitSlice, StagesOK, StageOK
    <2>2. \A c \in slice : rowUri[c] = u /\ c \in Candidate
      BY <2>1 DEF JournalOf
    <2>3. \A c \in slice : rowState[c] \in {"PENDING", "D1_COMMITTED"}
      BY <2>1, <2>2 DEF RowStateMatches, RowState
    <2>4. \A c \in slice : Admitted(c) <=> article[c] # NoUri
      BY <2>1, <2>2 DEF Admitted, ArticleJournalParity, OneRowPerDigest
    <2>5. \A c \in slice : article[c] # NoUri => article[c] = u
      BY <2>2 DEF ArticleJournalParity
    <2>6. article' = [c \in Candidate |-> IF c \in slice THEN u ELSE article[c]]
      BY <1>4, <2>4, <2>5 DEF CommitSlice
    <2>7. rowState' = [c \in Candidate |-> IF c \in slice THEN "D1_COMMITTED" ELSE rowState[c]]
      BY <1>4, <2>2, <2>3 DEF CommitSlice
    <2>8. UNCHANGED <<bundleState, rowUri>>
      BY <1>4 DEF CommitSlice
    <2>9. Settlement!Admit(u, slice)
      BY <2>1, <2>6, <2>7, <2>8 DEF Settlement!Admit, Settlement!JournalOf, JournalOf, Open
    <2>10. bundleState[u] # "NONE"
      <3>1. PICK c \in Manifest[u] : c \in Candidate
        BY <2>1
      <3> QED BY <2>1, <3>1 DEF JournalOf, RowsBelong
    <2> QED BY <2>1, <2>9, <2>10 DEF SettlementMoves, Settlement!SettlementStep
  <1>5. ASSUME NEW k \in Consumer, Finish(k)
        PROVE  SettlementMoves \/ UNCHANGED Settlement!storeVars
    <2>1. CASE ~HoldsLease(k)
      BY <1>2, <1>5, <2>1 DEF Finish, storeVars
    <2>2. CASE HoldsLease(k)
      <3>1. PICK u \in Uri : u = cmsg[k]
        BY <1>5 DEF Finish, StagesOK, StageOK
      <3>2. JournalOf(u) = Manifest[u] /\ Complete(u)
        BY <1>5, <3>1 DEF Finish, StagesOK, StageOK
      <3>3. /\ bundleState[u] = "PROCESSING"
            /\ bundleState' = [bundleState EXCEPT ![u] = "D1_COMMITTED"]
            /\ UNCHANGED <<rowUri, rowState, article>>
        BY <1>5, <2>2, <3>1 DEF Finish, HoldsLease
      <3>4. Settlement!Commit(u)
        BY <3>2, <3>3 DEF Settlement!Commit, Settlement!JournalOf, JournalOf, Complete, Open
      <3>5. Settlement!SettlementStep(u)
        BY <3>4 DEF Settlement!SettlementStep
      <3> QED BY <3>3, <3>5 DEF SettlementMoves
    <2> QED BY <2>1, <2>2
  <1>6. ASSUME NEW k \in Consumer, Fail(k)
        PROVE  SettlementMoves \/ UNCHANGED Settlement!storeVars
    <2>1. CASE ~CountFailure(k)
      BY <1>2, <1>6, <2>1 DEF Fail, storeVars
    <2>2. CASE CountFailure(k)
      <3>1. PICK u \in Uri : u = cmsg[k]
        BY <1>6 DEF Fail, StagesOK, StageOK
      <3>2. /\ bundleState[u] = "PROCESSING"
            /\ bundleState' = [bundleState EXCEPT ![u] =
                                  IF LastFailure(u) THEN "DEAD_LETTER" ELSE "RETRY"]
            /\ UNCHANGED <<rowUri, rowState, article>>
        BY <1>6, <2>2, <3>1 DEF Fail, CountFailure, HoldsLease
      <3>3. CASE LastFailure(u)
        <4>1. Settlement!Abandon(u)
          BY <3>2, <3>3 DEF Settlement!Abandon, Open
        <4>2. Settlement!SettlementStep(u)
          BY <4>1 DEF Settlement!SettlementStep
        <4> QED BY <3>2, <4>2 DEF SettlementMoves
      <3>4. CASE ~LastFailure(u)
        BY <1>1, <3>2, <3>4 DEF Seen, Open
      <3> QED BY <3>3, <3>4
    <2> QED BY <2>1, <2>2
  <1>7. \/ UNCHANGED storeVars
        \/ \E k \in Consumer : \E u \in Uri : Claim(k, u)
        \/ \E k \in Consumer : \E slice \in SUBSET todo[k] : CommitSlice(k, slice)
        \/ \E k \in Consumer : Finish(k) \/ Fail(k)
        \/ \E u \in Uri : ProducerJournals(u)
    BY DEF Next, ConsumerStep, ConsumerFault, cvars, storeVars, AckDuplicate, ReadBundle,
           CheckJournal, Verify, Prove, D1Error, Crash, LeaseLapses,
           DropMessage, DrainBacklog, ProducerSends
  <1> QED BY <1>2, <1>3, <1>4, <1>5, <1>6, <1>7

(* A journal batch is one of the abstract settlement, too.                 *)
LEMMA StepSettlement ==
    IInv /\ [Next]_cvars => [Settlement!SettlementNext]_(Settlement!storeVars)
  <1> SUFFICES ASSUME IInv, [Next]_cvars
               PROVE  Settlement!SettlementNext \/ UNCHANGED Settlement!storeVars
    OBVIOUS
  <1>1. ASSUME NEW u \in Uri, ProducerJournals(u) PROVE Settlement!SettlementNext
    <2>1. JournalBatch(u)
      BY <1>1 DEF ProducerJournals
    <2>2. Settlement!JournalBatch(u)
      BY <2>1, StoreAssumption
         DEF JournalBatch, Settlement!JournalBatch, Journaled, Settlement!Journaled,
             Open, BundleState, IInv, TypeOK, StoreTypeOK
    <2> QED BY <2>2 DEF Settlement!SettlementNext, Settlement!Journal
  <1>2. SettlementMoves => Settlement!SettlementNext
    BY DEF SettlementMoves, Settlement!SettlementNext
  <1> QED BY <1>1, <1>2, ConsumersSettle

(* The consumer, with its leases, retries, crashes and duplicates, settles *)
(* bundles exactly as the abstract specification says.                     *)
THEOREM ConsumerImplementsSettlement == Spec => ImplementsSettlement
  <1>1. Init => Settlement!SettlementInit
    BY InitSettlement
  <1>2. IInv /\ [Next]_cvars => [Settlement!SettlementNext]_(Settlement!storeVars)
    BY StepSettlement
  <1> QED BY <1>1, <1>2, Invariance, PTL
          DEF Spec, ImplementsSettlement, Settlement!SettlementSpec

(***************************************************************************)
(* The pipeline: each side meets what the other assumes of it.             *)
(***************************************************************************)

(* A message a producer hands to the queue names a bundle D1 has a row of. *)
LEMMA SentIsJournaled ==
    ASSUME IInv, ProducerIInv, NEW w \in Worker, ScanSends(w) \/ RegisterSends(w)
    PROVE  /\ CallerNext /\ UNCHANGED storeVars
           /\ \E u \in Uri : bundleState[u] # "NONE" /\ Send(u)
  <1>1. run \in [Worker -> Run] /\ RunOK(run[w])
    BY DEF ProducerIInv, ProducerTypeOK
  <1>2. CASE ScanSends(w)
    <2> DEFINE c == run[w].offers[run[w].seen + 1]
    <2>1. CallerNext /\ UNCHANGED storeVars
      BY <1>2 DEF ScanSends, Scan, CallerNext, BatchStep
    <2>2. c \in Candidate
      <3>1. run[w].offers \in Seq(Candidate) /\ run[w].seen \in Nat
        BY <1>1 DEF Run
      <3>2. run[w].seen < Len(run[w].offers)
        BY <1>2 DEF ScanSends, Scan
      <3> QED BY <3>1, <3>2
    <2>3. rowState[c] = "PENDING" /\ Send(rowUri[c])
      BY <1>2 DEF ScanSends
    <2> HIDE DEF c
    <2>4. rowUri[c] \in Uri
      BY <2>2, <2>3 DEF IInv, TypeOK, StoreTypeOK, RowStateMatches
    <2>5. bundleState[rowUri[c]] # "NONE"
      BY <2>2, <2>4, StoreAssumption DEF IInv, RowsBelong
    <2> QED BY <2>1, <2>3, <2>4, <2>5
  <1>3. CASE RegisterSends(w)
    <2> DEFINE u == run[w].uri
    <2>1. CallerNext /\ UNCHANGED storeVars
      BY <1>3 DEF RegisterSends, Register, CallerNext, BatchStep
    <2>2. Seals(u, ToSet(run[w].chunk))
      BY <1>1, <1>3 DEF RegisterSends, Register, At, RunOK
    <2>3. Registered(w)
      <3>1. Throw(w, FALSE, FALSE) => run'[w].pc = "hold"
        BY <1>1 DEF Throw
      <3> QED BY <1>3, <3>1 DEF RegisterSends, Register
    <2>4. JournalOf(u) = Manifest[u]
      BY <2>2, <2>3 DEF Registered, Seals
    <2>5. PICK c \in Candidate : rowUri[c] = u
      BY <2>2, <2>4, StoreAssumption DEF Seals, JournalOf
    <2>6. bundleState[u] # "NONE"
      BY <2>2, <2>5, StoreAssumption DEF IInv, RowsBelong, Seals
    <2> QED BY <1>3, <2>1, <2>2, <2>6 DEF RegisterSends, Seals
  <1> QED BY <1>2, <1>3

(* To the consumers the producers are the environment they were proved in. *)
LEMMA CallersAreEnvironment ==
    ASSUME IInv, ProducerIInv, CallerMoves
    PROVE  /\ CallerNext /\ [Next]_cvars
           /\ \A u \in messages' : u \in messages \/ bundleState[u] # "NONE"
  <1>1. CASE CallerNext /\ UNCHANGED messages
    <2>1. CASE UNCHANGED storeVars
      BY <1>1, <2>1 DEF CallerMoves, deliveryVars, cvars
    <2>2. ASSUME NEW u \in Uri, JournalBatch(u) PROVE ProducerJournals(u)
      BY <1>1, <2>2 DEF CallerMoves, deliveryVars, ProducerJournals
    <2> QED BY <1>1, <2>1, <2>2, CallersJournal DEF Next
  <1>2. ASSUME NEW w \in Worker, ScanSends(w) \/ RegisterSends(w)
        PROVE  /\ CallerNext /\ Next
               /\ \A u \in messages' : u \in messages \/ bundleState[u] # "NONE"
    <2>1. CallerNext /\ UNCHANGED storeVars
      BY <1>2, SentIsJournaled
    <2>2. PICK u \in Uri : bundleState[u] # "NONE" /\ Send(u)
      BY <1>2, SentIsJournaled
    <2>3. ProducerSends(u)
      BY <2>1, <2>2 DEF CallerMoves, deliveryVars, ProducerSends, storeVars
    <2> QED BY <2>1, <2>2, <2>3 DEF Next, Send
  <1> QED BY <1>1, <1>2 DEF CallerMoves

(* A message that comes again is one the environment may send.             *)
LEMMA ConsumersStayConsumers == ASSUME IInv, ConsumerMoves PROVE [Next]_cvars
  <1>1. ASSUME NEW u \in Uri, Redeliver(u) PROVE ProducerSends(u)
    <2>1. bundleState[u] # "NONE"
      BY <1>1 DEF Redeliver, IInv, AckedIsSettled, Terminal
    <2> QED BY <1>1, <2>1 DEF Redeliver, ProducerSends, storeVars, deliveryVars
  <1> QED BY <1>1 DEF ConsumerMoves, Next

(* The consumers journal nothing and open no bundle.                       *)
LEMMA ConsumersJournalNothing ==
    ASSUME IInv, ConsumerMoves
    PROVE  /\ rowUri' = rowUri
           /\ \A u \in Uri : bundleState[u] = "NONE" <=> bundleState'[u] = "NONE"
  <1>1. [Next]_cvars
    BY ConsumersStayConsumers
  <1>2. \A u \in Uri : bundleState[u] # "NONE" => bundleState'[u] # "NONE"
    BY <1>1, BundleWriters, InvTypes
  <1>3. \/ UNCHANGED <<rowUri, bundleState>>
        \/ \E k \in Consumer : \E u \in Uri : Claim(k, u)
        \/ \E k \in Consumer : Finish(k) \/ Fail(k)
    BY DEF ConsumerMoves, ConsumerStep, ConsumerFault, storeVars, AckDuplicate, ReadBundle,
           CheckJournal, CommitSlice, Verify, Prove, D1Error, Crash, LeaseLapses,
           DropMessage, DrainBacklog, Redeliver
  <1>4. ASSUME NEW k \in Consumer, NEW u \in Uri, Claim(k, u), NEW v \in Uri,
               bundleState[v] = "NONE"
        PROVE  bundleState'[v] = "NONE" /\ rowUri' = rowUri
    BY <1>4 DEF Claim, Claimable
  <1>5. ASSUME NEW k \in Consumer, Finish(k) \/ Fail(k)
        PROVE  /\ rowUri' = rowUri
               /\ \A v \in Uri : bundleState[v] = "NONE" => bundleState'[v] = "NONE"
    BY <1>5 DEF Finish, Fail, CountFailure, HoldsLease, IInv, TypeOK, StoreTypeOK
  <1>6. \A k \in Consumer : \A u \in Uri : Claim(k, u) => rowUri' = rowUri
    BY DEF Claim
  <1> QED BY <1>2, <1>3, <1>4, <1>5, <1>6

(* So nothing a producer relies on is lost to them.                        *)
LEMMA ConsumersKeepCallers ==
    ASSUME ProducerIInv, StoreTypeOK', rowUri' = rowUri, UNCHANGED callerVars,
           \A u \in Uri : bundleState[u] # "NONE" => bundleState'[u] # "NONE"
    PROVE  ProducerIInv'
  <1> USE DEF callerVars, outVars, r2Vars
  <1>1. ProducerTypeOK'
    BY DEF ProducerIInv, ProducerTypeOK, IsInjective, ToSet
  <1>2. RowsSealed' /\ RowsStored'
    BY DEF ProducerIInv, RowsSealed, RowsStored, Seals
  <1>3. (\A w \in Worker : Knows(w))'
    BY DEF ProducerIInv, Knows, At, ToSet
  <1>4. StagedInR2' /\ PassedIsKept'
    BY DEF ProducerIInv, StagedInR2, PassedIsKept, InR2
  <1>5. ArchivedIsCovered'
    <2>1. \A c \in Candidate : Journaled(c) => Journaled(c)'
      BY DEF Journaled
    <2>2. \A b \in Batch : b \subseteq Candidate
      BY BatchIsCandidates
    <2>3. \A b \in Batch : outState[b] = "ARCHIVED" => outUri[b] \in Uri
      BY DEF ProducerIInv, ArchivedIsCovered, ProducerTypeOK
    <2> QED BY <2>1, <2>2, <2>3 DEF ProducerIInv, ArchivedIsCovered
  <1>6. R2VerifiedIsJournaled'
    BY DEF ProducerIInv, R2VerifiedIsJournaled
  <1>7. (\A w \in Worker : RunOK(run[w]))'
    <2>1. \A w \in Worker : RunOK(run[w]) /\ run'[w] = run[w]
      BY DEF ProducerIInv
    <2> QED BY <2>1 DEF RunOK
  <1> QED BY <1>1, <1>2, <1>3, <1>4, <1>5, <1>6, <1>7 DEF ProducerIInv

(* An object, its bundle row and its message come in this order.           *)
LEMMA OrderStep ==
    ASSUME PipelineIInv, [PipelineNext]_pipelineVars
    PROVE  ObjectsComeFirst'
  <1> USE DEF PipelineIInv
  <1>1. \A u \in messages : u \in Uri
    BY DEF IInv, TypeOK
  <1>2. \A k \in Consumer : cpc[k] # "idle" => cmsg[k] \in Uri
    BY InvTypes DEF MessageTyped
  <1>3. CASE CallerMoves
    <2>1. /\ CallerNext /\ [Next]_cvars
          /\ \A u \in messages' : u \in messages \/ bundleState[u] # "NONE"
      BY <1>3, CallersAreEnvironment
    <2>2. b2 \subseteq b2' /\ \A u \in Uri : bundleState[u] # "NONE" => bundleState'[u] # "NONE"
      BY <2>1, ForwardStep DEF ProducerNext, ProducerIInv, RunsOK, ProducerTypeOK, Forward
    <2>3. messages' \subseteq Uri
      BY <2>1, StepIInv DEF IInv, TypeOK
    <2>4. ASSUME NEW u \in Uri, bundleState'[u] # "NONE" PROVE u \in b2'
      <3>1. bundleState[u] # "NONE" \/ u \in b2
        BY <2>1, <2>4, CallersJournal DEF JournalBatch, storeVars, IInv, TypeOK, StoreTypeOK
      <3> QED BY <2>2, <3>1 DEF ObjectsComeFirst
    <2>5. UNCHANGED <<cpc, cmsg>>
      BY <1>3 DEF CallerMoves, deliveryVars, consumerVars
    <2> QED BY <1>1, <1>2, <2>1, <2>2, <2>3, <2>4, <2>5 DEF ObjectsComeFirst
  <1>4. CASE ConsumerMoves
    <2>1. \A u \in Uri : bundleState[u] = "NONE" <=> bundleState'[u] = "NONE"
      BY <1>4, ConsumersJournalNothing
    <2>2. b2' = b2
      BY <1>4 DEF ConsumerMoves, callerVars
    <2>3. \A u \in messages' : u \in messages \/ (u \in Uri /\ bundleState[u] # "NONE")
      <3>1. \/ messages' \subseteq messages
            \/ \E u \in Uri : DrainBacklog(u) \/ Redeliver(u)
        BY <1>4 DEF ConsumerMoves, ConsumerStep, ConsumerFault, Claim, AckDuplicate, ReadBundle,
                    CheckJournal, CommitSlice, Verify, Finish, Prove, Fail, CountFailure,
                    AckMessage, D1Error, Crash, LeaseLapses, DropMessage
      <3>2. ASSUME NEW u \in Uri, DrainBacklog(u) \/ Redeliver(u)
            PROVE  messages' = messages \cup {u} /\ bundleState[u] # "NONE"
        BY <3>2 DEF DrainBacklog, Redeliver, Send, Claimable, IInv, AckedIsSettled, Terminal
      <3> QED BY <3>1, <3>2
    <2>4. \A k \in Consumer : cpc'[k] # "idle" =>
             \/ cpc[k] # "idle" /\ cmsg'[k] = cmsg[k]
             \/ cmsg'[k] \in Uri /\ bundleState[cmsg'[k]] # "NONE"
      <3> SUFFICES ASSUME NEW j \in Consumer, cpc'[j] # "idle"
                   PROVE  \/ cpc[j] # "idle" /\ cmsg'[j] = cmsg[j]
                          \/ cmsg'[j] \in Uri /\ bundleState[cmsg'[j]] # "NONE"
        OBVIOUS
      <3> USE DEF IInv, TypeOK
      <3>1. ASSUME NEW k \in Consumer, NEW u \in Uri, Claim(k, u)
            PROVE  \/ cpc[j] # "idle" /\ cmsg'[j] = cmsg[j]
                   \/ cmsg'[j] \in Uri /\ bundleState[cmsg'[j]] # "NONE"
        BY <3>1 DEF Claim, Claimable
      <3>2. ASSUME NEW k \in Consumer, NEW stage, cpc[k] # "idle",
                   cpc' = [cpc EXCEPT ![k] = stage], cmsg' = cmsg
            PROVE  cpc[j] # "idle" /\ cmsg'[j] = cmsg[j]
        BY <3>2
      <3>3. ASSUME NEW k \in Consumer, Release(k) PROVE cpc[j] # "idle" /\ cmsg'[j] = cmsg[j]
        BY <3>3 DEF Release, Goto
      <3>4. \/ UNCHANGED <<cpc, cmsg>>
            \/ \E k \in Consumer : \E u \in Uri : Claim(k, u)
            \/ \E k \in Consumer : Release(k)
            \/ \E k \in Consumer : \E stage \in Stage :
                 cpc[k] # "idle" /\ cpc' = [cpc EXCEPT ![k] = stage] /\ cmsg' = cmsg
        BY <1>4 DEF ConsumerMoves, ConsumerStep, ConsumerFault, AckDuplicate, ReadBundle,
                    CheckJournal, CommitSlice, Verify, Finish, Prove, Fail, Goto, Stage,
                    D1Error, Crash, LeaseLapses, DropMessage, DrainBacklog, Redeliver,
                    deliveryVars, consumerVars
      <3> QED BY <3>1, <3>2, <3>3, <3>4
    <2> QED BY <1>1, <1>2, <2>1, <2>2, <2>3, <2>4 DEF ObjectsComeFirst
  <1>5. CASE UNCHANGED pipelineVars
    BY <1>5 DEF pipelineVars, storeVars, callerVars, deliveryVars, consumerVars, ObjectsComeFirst
  <1> QED BY <1>3, <1>4, <1>5 DEF PipelineNext

(* Neither side breaks the other's invariant.                              *)
LEMMA PipelineStep == PipelineIInv /\ [PipelineNext]_pipelineVars => PipelineIInv' /\ [Next]_cvars
  <1> SUFFICES ASSUME PipelineIInv, [PipelineNext]_pipelineVars
               PROVE  PipelineIInv' /\ [Next]_cvars
    OBVIOUS
  <1>1. IInv /\ ProducerIInv
    BY DEF PipelineIInv
  <1>2. CASE CallerMoves
    <2>1. CallerNext /\ [Next]_cvars
      BY <1>1, <1>2, CallersAreEnvironment
    <2>2. IInv' /\ ProducerIInv'
      BY <1>1, <2>1, StepIInv, StepProducerInv DEF ProducerNext
    <2> QED BY <2>1, <2>2, OrderStep DEF PipelineIInv
  <1>3. CASE ConsumerMoves
    <2>1. [Next]_cvars
      BY <1>1, <1>3, ConsumersStayConsumers
    <2>2. IInv'
      BY <1>1, <2>1, StepIInv
    <2>3. StoreTypeOK' /\ rowUri' = rowUri
          /\ \A u \in Uri : bundleState[u] # "NONE" => bundleState'[u] # "NONE"
      BY <1>1, <1>3, <2>2, ConsumersJournalNothing DEF IInv, TypeOK
    <2>4. ProducerIInv'
      BY <1>1, <1>3, <2>3, ConsumersKeepCallers DEF ConsumerMoves
    <2> QED BY <2>1, <2>2, <2>4, OrderStep DEF PipelineIInv
  <1>4. CASE UNCHANGED pipelineVars
    <2>1. UNCHANGED cvars /\ UNCHANGED pvars
      BY <1>4 DEF pipelineVars, callerVars, deliveryVars, cvars, pvars
    <2>2. IInv' /\ ProducerIInv'
      BY <1>1, <2>1, StepIInv, StepProducerInv
    <2> QED BY <2>1, <2>2, OrderStep DEF PipelineIInv
  <1> QED BY <1>2, <1>3, <1>4 DEF PipelineNext

(* The pipeline starts with nothing stored, journaled or sent.             *)
LEMMA PipelineStarts == PipelineInit => PipelineIInv
  <1> SUFFICES ASSUME PipelineInit PROVE PipelineIInv
    OBVIOUS
  <1>1. IInv /\ ProducerIInv
    BY InitIInv, InitProducerInv DEF PipelineInit
  <1>2. ObjectsComeFirst
    BY DEF PipelineInit, Init, StoreInit, ConsumerInit, ObjectsComeFirst
  <1> QED BY <1>1, <1>2 DEF PipelineIInv

(* Both invariants, and the order of object, row and message, hold in      *)
(* every state of the pipeline.                                            *)
THEOREM PipelineInvariance == PipelineSpec => []PipelineIInv
  <1>1. PipelineIInv /\ [PipelineNext]_pipelineVars => PipelineIInv'
    BY PipelineStep
  <1> QED BY <1>1, PipelineStarts, PTL DEF PipelineSpec

(* The producers as they are behave as the consumers were told they would: *)
(* all that was proved of the consumers holds in the pipeline.             *)
THEOREM PipelineImplementsConsumer == PipelineSpec => Spec
  <1>1. PipelineInit => Init
    BY DEF PipelineInit
  <1>2. PipelineIInv /\ [PipelineNext]_pipelineVars => [Next]_cvars
    BY PipelineStep
  <1> QED BY <1>1, <1>2, PipelineInvariance, PTL DEF PipelineSpec, Spec

(* No consumer looks for an object that is not in B2.                      *)
THEOREM ObjectsPrecedeRows == PipelineSpec => []ObjectsComeFirst
  <1>1. PipelineIInv => ObjectsComeFirst
    BY DEF PipelineIInv
  <1> QED BY <1>1, PipelineInvariance, PTL

(* Whatever is journaled ends as an article or in a dead letter before its *)
(* message is acknowledged.                                                *)
LEMMA JournaledSettles ==
    ASSUME PipelineIInv, NEW c \in Candidate, rowUri[c] # NoUri
    PROVE  Settles(c)
  <1>1. rowUri[c] \in Uri /\ rowUri[c] \in b2
    BY DEF PipelineIInv, IInv, TypeOK, StoreTypeOK, ProducerIInv, RowsStored
  <1>2. ASSUME rowUri[c] \in acked, bundleState[rowUri[c]] # "DEAD_LETTER"
        PROVE  article[c] = rowUri[c]
    <2>1. bundleState[rowUri[c]] = "D1_COMMITTED"
      BY <1>2 DEF PipelineIInv, IInv, AckedIsSettled, Terminal
    <2> QED BY <1>1, <2>1 DEF PipelineIInv, IInv, CommittedIsComplete, JournalOf
  <1> QED BY <1>1, <1>2 DEF Settles

(* What a source's cursor has passed is in R2, or on its way to an article *)
(* or a dead letter, which no acknowledgement cuts short.                  *)
THEOREM AdvancedReachesSettlement == PipelineSpec => []AdvancedSettles
  <1>1. PipelineIInv => AdvancedSettles
    BY JournaledSettles DEF PipelineIInv, ProducerIInv, ProducerTypeOK, PassedIsKept,
                            AdvancedSettles
  <1> QED BY <1>1, PipelineInvariance, PTL

(* So is every record of a batch that R2 marks as verified in B2.          *)
THEOREM VerifiedReachesSettlement == PipelineSpec => []VerifiedSettles
  <1>1. PipelineIInv => VerifiedSettles
    BY JournaledSettles, BatchIsCandidates
       DEF PipelineIInv, ProducerIInv, R2VerifiedIsJournaled, VerifiedSettles
  <1> QED BY <1>1, PipelineInvariance, PTL

(* An archived batch whose message was acknowledged is admitted whole, or  *)
(* is a dead letter.                                                       *)
THEOREM ArchiveReachesSettlement == PipelineSpec => []ArchivedSettles
  <1>1. ASSUME PipelineIInv, NEW b \in Batch, outState[b] = "ARCHIVED", outUri[b] \in acked,
               bundleState[outUri[b]] # "DEAD_LETTER"
        PROVE  \A c \in b : article[c] = outUri[b]
    <2>1. outUri[b] \in Uri /\ Manifest[outUri[b]] = b
      BY <1>1 DEF PipelineIInv, IInv, TypeOK, ProducerIInv, ArchivedIsCovered
    <2>2. bundleState[outUri[b]] = "D1_COMMITTED"
      BY <1>1 DEF PipelineIInv, IInv, AckedIsSettled, Terminal
    <2> QED BY <1>1, <2>1, <2>2 DEF PipelineIInv, IInv, CommittedIsComplete
  <1>2. PipelineIInv => ArchivedSettles
    BY <1>1 DEF ArchivedSettles
  <1> QED BY <1>2, PipelineInvariance, PTL

(* Every article is archived under the address it carries.                 *)
THEOREM ArticlesStayArchived == PipelineSpec => []ArticlesAreArchived
  <1>1. ASSUME PipelineIInv, NEW c \in Candidate, article[c] # NoUri
        PROVE  /\ rowUri[c] = article[c]
               /\ article[c] \in b2 /\ c \in Manifest[article[c]]
    <2>1. rowUri[c] = article[c]
      BY <1>1 DEF PipelineIInv, IInv, ArticleJournalParity
    <2> QED BY <1>1, <2>1 DEF PipelineIInv, IInv, RowsBelong, ProducerIInv, RowsStored
  <1>2. PipelineIInv => ArticlesAreArchived
    BY <1>1 DEF ArticlesAreArchived
  <1> QED BY <1>2, PipelineInvariance, PTL

(* With the real consumers, too, a cursor passes only durable candidates.  *)
THEOREM PipelineCursorsPassDurable == PipelineSpec => []AdvancedIsDurable
  <1>1. PipelineIInv => AdvancedIsDurable
    BY DEF PipelineIInv, ProducerIInv, PassedIsKept, InR2, RowsStored, AdvancedIsDurable,
           ProducerTypeOK
  <1> QED BY <1>1, PipelineInvariance, PTL

(***************************************************************************)
(* The pipeline implements the producers composed with the settlement.     *)
(***************************************************************************)

(* A journal batch of the pipeline is one of the composition.              *)
LEMMA ComposedJournal ==
    ASSUME StoreTypeOK, NEW u \in Uri, JournalBatch(u)
    PROVE  Composed!JournalBatch(u)
  BY StoreAssumption
     DEF JournalBatch, Composed!JournalBatch, Journaled, Composed!Journaled, Open, BundleState,
         StoreTypeOK

(* Tables that stay as they are look the same.                             *)
LEMMA ComposedStore == UNCHANGED storeVars => UNCHANGED Composed!storeVars
  BY DEF storeVars, Composed!storeVars, Open

(* The composition counts and picks as its parts do.                       *)
LEMMA SameCount == \A s : Composed!Cardinality(s) = Cardinality(s)
  BY DEF Cardinality, Composed!Cardinality

(* The least of a set of numbers, likewise.                                *)
LEMMA SameLeast == \A s : Composed!Min(s) = Min(s)
  BY DEF Min, Composed!Min

(* A stage of a batch reads and writes nothing the settlement hides.       *)
LEMMA ComposedBatchStep ==
    ASSUME ProducerIInv, NEW w \in Worker, BatchStep(w)
    PROVE  Composed!BatchStep(w)
  <1> USE ComposedStore DEF At, Composed!At, MoveTo, Composed!MoveTo, Failure, Composed!Failure,
          Throw, Composed!Throw, outVars, Composed!outVars, r2Vars, Composed!r2Vars,
          ToSet, Composed!ToSet
  <1>1. CASE ReadGuard(w) \/ EndScan(w) \/ NextChunk(w)
    BY <1>1 DEF ReadGuard, EndScan, NextChunk, Cut, Composed!BatchStep, Composed!ReadGuard,
                Composed!EndScan, Composed!NextChunk, Composed!Cut
  <1>2. CASE Scan(w)
    <2>1. Composed!Scan(w)
      BY <1>2 DEF Scan, Composed!Scan, RowHolds, Composed!RowHolds, Journaled, Composed!Journaled
    <2> QED BY <2>1 DEF Composed!BatchStep
  <1>3. CASE OutboxInsert(w)
    BY <1>3 DEF OutboxInsert, InsertRow, SealRow, Composed!BatchStep, Composed!OutboxInsert,
                Composed!InsertRow, Composed!SealRow
  <1>4. CASE OutboxOpen(w) \/ Spool(w)
    BY <1>4 DEF OutboxOpen, Spool, Composed!BatchStep, Composed!OutboxOpen, Composed!Spool
  <1>5. CASE CommitBatch(w)
    <2>1. PICK u \in Uri : u = run[w].uri
      BY <1>5, ChunkFacts DEF ChunkWrites, CommitBatch, Seals, ProducerIInv, RunsOK,
                              ProducerTypeOK
    <2>2. StoreTypeOK
      BY DEF ProducerIInv, ProducerTypeOK
    <2>3. JournalBatch(u) => Composed!JournalBatch(u)
      BY <2>2, ComposedJournal
    <2>4. OutboxArchive(w) => Composed!OutboxArchive(w)
      BY DEF OutboxArchive, Composed!OutboxArchive
    <2>5. Composed!CommitBatch(w)
      BY <1>5, <2>1, <2>3, <2>4
         DEF CommitBatch, Composed!CommitBatch, JournalBatch, Composed!JournalBatch
    <2> QED BY <2>5 DEF Composed!BatchStep
  <1>6. CASE Register(w)
    <2>1. Registered(w) <=> Composed!Registered(w)
      BY DEF Registered, Composed!Registered, JournalOf, Composed!JournalOf
    <2>2. Composed!Register(w)
      BY <1>6, <2>1 DEF Register, Composed!Register, NextOf, Composed!NextOf
    <2> QED BY <2>2 DEF Composed!BatchStep
  <1>7. CASE Fallback(w)
    <2>1. Stage2R2(w) => Composed!Stage2R2(w)
      BY DEF Stage2R2, Composed!Stage2R2
    <2>2. Composed!Fallback(w)
      BY <1>7, <2>1 DEF Fallback, Composed!Fallback
    <2> QED BY <2>2 DEF Composed!BatchStep
  <1>8. CASE Hold(w)
    BY <1>8 DEF Hold, NextOf, Composed!BatchStep, Composed!Hold, Composed!NextOf
  <1> QED BY <1>1, <1>2, <1>3, <1>4, <1>5, <1>6, <1>7, <1>8 DEF BatchStep

(* Nor does a caller or a clock.                                           *)
LEMMA ComposedCallers ==
    ASSUME ProducerIInv, CallerNext
    PROVE  Composed!CallerNext
  <1> USE ComposedStore DEF At, Composed!At, Failure, Composed!Failure, outVars, Composed!outVars,
          r2Vars, Composed!r2Vars, Idle, Composed!Idle, Start, Composed!Start,
          ToSet, Composed!ToSet
  <1>1. ASSUME NEW w \in Worker, BatchStep(w) PROVE Composed!BatchStep(w)
    BY <1>1, ComposedBatchStep
  <1>2. ASSUME NEW w \in Worker, FinishRun(w) PROVE Composed!FinishRun(w)
    <2>1. CASE FinishSource(w)
      <3>1. Composed!FinishSource(w)
        BY <2>1, SameLeast DEF FinishSource, Composed!FinishSource, Accepted, Composed!Accepted
      <3> QED BY <3>1 DEF Composed!FinishRun
    <2>2. CASE DrainFinish(w)
      BY <2>2 DEF DrainFinish, Composed!DrainFinish, Composed!FinishRun
    <2>3. CASE R2Finish(w)
      BY <2>3 DEF R2Finish, R2Proven, Composed!R2Finish, Composed!R2Proven, Composed!FinishRun
    <2> QED BY <1>2, <2>1, <2>2, <2>3 DEF FinishRun
  <1>3. ASSUME NEW w \in Worker, Evicted(w) PROVE Composed!Evicted(w)
    BY <1>3 DEF Evicted, Composed!Evicted
  <1>4. ASSUME NEW w \in Poller, NEW f \in Fetch, Poll(w, f) PROVE Composed!Poll(w, f)
    BY <1>4 DEF Poll, Composed!Poll
  <1>5. ASSUME NEW w \in Drainer, NEW b \in Batch, DrainClaim(w, b)
        PROVE  Composed!DrainClaim(w, b)
    <2>1. \A o : OutboxDue(o) <=> Composed!OutboxDue(o)
      BY DEF OutboxDue, Composed!OutboxDue
    <2>2. \A o, a : Older(o, a) <=> Composed!Older(o, a)
      BY DEF Older, Composed!Older
    <2>3. Selected = Composed!Selected
      BY <2>1, <2>2, SameCount DEF Selected, Composed!Selected
    <2> QED BY <1>5, <2>3 DEF DrainClaim, Composed!DrainClaim
  <1>6. ASSUME NEW w \in R2Drainer, NEW b \in Batch, R2Claim(w, b) PROVE Composed!R2Claim(w, b)
    BY <1>6 DEF R2Claim, Composed!R2Claim, R2Due, Composed!R2Due
  <1>7. ASSUME NEW b \in Batch, OutboxLeaseLapses(b) \/ R2LeaseLapses(b)
        PROVE  Composed!OutboxLeaseLapses(b) \/ Composed!R2LeaseLapses(b)
    BY <1>7 DEF OutboxLeaseLapses, R2LeaseLapses, Composed!OutboxLeaseLapses,
                Composed!R2LeaseLapses, Working, Composed!Working
  <1>8. HoldExpires => Composed!HoldExpires
    BY DEF HoldExpires, Composed!HoldExpires
  <1>9. Worker = Composed!Worker /\ Batch = Composed!Batch
    BY DEF Worker, Composed!Worker, Batch, Composed!Batch
  <1> QED BY <1>1, <1>2, <1>3, <1>4, <1>5, <1>6, <1>7, <1>8, <1>9
          DEF CallerNext, Composed!CallerNext

(* The consumers move as the settlement lets them.                         *)
LEMMA ComposedConsumers ==
    ASSUME IInv, ConsumerMoves
    PROVE  Composed!Consumers \/ UNCHANGED Composed!pvars
  <1> USE DEF callerVars, outVars, Composed!outVars, r2Vars, Composed!r2Vars
  <1>1. UNCHANGED callerVars
    BY DEF ConsumerMoves
  <1>2. ASSUME UNCHANGED Settlement!storeVars PROVE UNCHANGED Composed!pvars
    BY <1>1, <1>2 DEF Settlement!storeVars, Composed!storeVars, Composed!pvars
  <1>3. ASSUME NEW u \in Uri, bundleState[u] # "NONE", Settlement!SettlementStep(u)
        PROVE  Composed!Consumers
    <2>1. Composed!SettlementStep(u)
      BY <1>3 DEF Settlement!SettlementStep, Composed!SettlementStep, Settlement!Admit,
                  Composed!Admit, Settlement!Commit, Composed!Commit, Settlement!Abandon,
                  Composed!Abandon, Settlement!JournalOf, Composed!JournalOf
    <2> QED BY <1>1, <1>3, <2>1 DEF Composed!Consumers
  <1>4. ASSUME NEW u \in Uri, ProducerJournals(u) PROVE UNCHANGED Settlement!storeVars
    <2>1. JournalBatch(u) /\ rowUri' = rowUri
      BY <1>4, ConsumersJournalNothing DEF ProducerJournals
    <2>2. bundleState' = bundleState
      BY <2>1, ConsumersJournalNothing DEF JournalBatch, IInv, TypeOK, StoreTypeOK
    <2>3. \A c \in Candidate : ~(c \in Manifest[u] /\ ~Journaled(c))
      BY <2>1, StoreAssumption DEF JournalBatch, Journaled, IInv, TypeOK, StoreTypeOK
    <2>4. rowState' = rowState /\ article' = article
      BY <2>1, <2>3 DEF JournalBatch, IInv, TypeOK, StoreTypeOK
    <2> QED BY <2>1, <2>2, <2>4 DEF Settlement!storeVars, Open
  <1> QED BY <1>2, <1>3, <1>4, ConsumersSettle, ConsumersStayConsumers DEF SettlementMoves

(* What the producers were checked and proved with, the abstract           *)
(* settlement, may stand for the real consumers: every step of the pipeline*)
(* is one of that composition.                                             *)
THEOREM PipelineImplementsComposition == PipelineSpec => ImplementsComposition
  <1>1. PipelineInit => Composed!ProducerInit
    BY DEF PipelineInit, Init, ProducerInit, SettlementInit, StoreInit, Composed!ProducerInit,
           Composed!SettlementInit, Composed!StoreInit, Batch, Composed!Batch, Worker,
           Composed!Worker, Idle, Composed!Idle, Open
  <1>2. PipelineIInv /\ [PipelineNext]_pipelineVars
          => [Composed!ProducerNext]_(Composed!pvars)
    <2> SUFFICES ASSUME PipelineIInv, [PipelineNext]_pipelineVars
                 PROVE  Composed!ProducerNext \/ UNCHANGED Composed!pvars
      OBVIOUS
    <2>1. CASE CallerMoves
      BY <2>1, CallersAreEnvironment, ComposedCallers DEF PipelineIInv, Composed!ProducerNext
    <2>2. CASE ConsumerMoves
      BY <2>2, ComposedConsumers DEF PipelineIInv, Composed!ProducerNext
    <2>3. CASE UNCHANGED pipelineVars
      BY <2>3, ComposedStore
         DEF pipelineVars, callerVars, outVars, r2Vars, Composed!pvars, Composed!outVars,
             Composed!r2Vars
    <2> QED BY <2>1, <2>2, <2>3 DEF PipelineNext
  <1> QED BY <1>1, <1>2, PipelineInvariance, PTL
          DEF PipelineSpec, ImplementsComposition, Composed!ProducerSpec
=============================================================================
