--------------------------- MODULE P0bConsumerInv ---------------------------
(***************************************************************************)
(* The inductive invariant of the bundle consumer: the properties of       *)
(* P0bConsumer, and what relates the item rows, which no lease protects,   *)
(* to what an invocation has checked by each stage of the handler.         *)
(***************************************************************************)
EXTENDS P0bConsumer

\* A journaled candidate belongs to the bundle its row names, which has a row.
RowsBelong ==
    \A c \in Candidate : rowUri[c] # NoUri =>
        c \in Manifest[rowUri[c]] /\ bundleState[rowUri[c]] # "NONE"

RowStateMatches ==
    \A c \in Candidate : rowState[c] = "NONE" <=> rowUri[c] = NoUri

\* UNIQUE(candidate_sha256)
OneRowPerDigest ==
    \A c, d \in Candidate :
        rowUri[c] # NoUri /\ rowUri[d] # NoUri /\ Sha[c] = Sha[d] => c = d

Complete(u) == \A c \in Manifest[u] : rowState[c] = "D1_COMMITTED"

\* What an invocation knows at each stage; other invocations cannot undo it.
StageOK(k) ==
    /\ cpc[k] # "idle" => cmsg[k] \in Uri /\ todo[k] \subseteq Manifest[cmsg[k]]
    /\ cpc[k] \in {"committing", "verifying", "finishing", "proving"} =>
        JournalOf(cmsg[k]) = Manifest[cmsg[k]]
    /\ cpc[k] = "finishing" => Complete(cmsg[k])
    /\ cpc[k] = "proving" => bundleState[cmsg[k]] = "D1_COMMITTED"

StagesOK == \A k \in Consumer : StageOK(k)

(* The inductive strengthening of the safety properties: the unfenced item *)
(* batches stay harmless because a checked journal never changes again.    *)
IInv ==
    /\ TypeOK
    /\ RowsBelong
    /\ RowStateMatches
    /\ OneRowPerDigest
    /\ ArticleJournalParity
    /\ CommittedIsComplete
    /\ NoPartialAdmission
    /\ RetryBudget
    /\ AckedIsSettled
    /\ StagesOK
=============================================================================
