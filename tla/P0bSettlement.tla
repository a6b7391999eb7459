--------------------------- MODULE P0bSettlement ---------------------------
(***************************************************************************)
(* What the bundle consumers promise the rest of P0-B: a journaled bundle  *)
(* is open until it is settled, once; its items are admitted from a journal*)
(* that holds exactly its manifest; it is settled as committed only when   *)
(* all of them are.  Leases, retries and messages are left to P0bConsumer, *)
(* which implements this; the producers are composed with this.            *)
(***************************************************************************)
EXTENDS P0bStore

SettlementInit == StoreInit

Journal(u) == JournalBatch(u)

Admit(u, items) ==
    /\ JournalOf(u) = Manifest[u]
    /\ article' = [c \in Candidate |-> IF c \in items THEN u ELSE article[c]]
    /\ rowState' = [c \in Candidate |-> IF c \in items THEN "D1_COMMITTED" ELSE rowState[c]]
    /\ UNCHANGED <<bundleState, rowUri>>

Commit(u) ==
    /\ bundleState[u] = "PENDING"
    /\ JournalOf(u) = Manifest[u]
    /\ \A c \in Manifest[u] : rowState[c] = "D1_COMMITTED"
    /\ bundleState' = [bundleState EXCEPT ![u] = "D1_COMMITTED"]
    /\ UNCHANGED <<rowUri, rowState, article>>

Abandon(u) ==
    /\ bundleState[u] = "PENDING"
    /\ bundleState' = [bundleState EXCEPT ![u] = "DEAD_LETTER"]
    /\ UNCHANGED <<rowUri, rowState, article>>

SettlementStep(u) ==
    \/ \E items \in SUBSET Manifest[u] : Admit(u, items)
    \/ Commit(u) \/ Abandon(u)

SettlementNext == \E u \in Uri : Journal(u) \/ SettlementStep(u)

SettlementSpec == SettlementInit /\ [][SettlementNext]_storeVars
=============================================================================
