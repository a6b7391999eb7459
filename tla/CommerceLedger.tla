--------------------------- MODULE CommerceLedger ---------------------------
(***************************************************************************)
(* The Durable Object of one provider and environment: one delivery record *)
(* and one usage reservation per payment, the settlement references that   *)
(* were used, the daily counters of the payers and the product audit.  Each*)
(* request is one storage transaction, so each operator below is a step.   *)
(* A request that changes nothing is answered from the state it finds; the *)
(* answers are read by PaidQuery.  The fingerprint of a payment covers the *)
(* quote, and with it the request, the amount and the recipient: a claim   *)
(* for the same payment and other terms does not reach the ledger.         *)
(***************************************************************************)
EXTENDS Naturals, FiniteSets

CONSTANTS
    Payment,      \* payment fingerprints
    Invocation,   \* route invocations; one that claims has a fresh claim token
    Nobody,
    Reference,    \* settlement references
    NoReference,
    Payer,        \* the payer of each payment
    Price,        \* the amount of each payment
    MaxAmount,    \* maxDailyAmountAtomic
    MaxRequests   \* maxDailyRequests

ASSUME LedgerAssumption ==
    /\ Nobody \notin Invocation
    /\ NoReference \notin Reference
    /\ DOMAIN Payer = Payment /\ Price \in [Payment -> Nat \ {0}]
    /\ MaxAmount \in Nat /\ MaxRequests \in Nat

VARIABLES
    state,      \* of the record, "none" where there is none
    token,      \* claimToken: the invocation it was made for
    live,       \* leaseExpiresAt lies in the future
    stored,     \* responsePayload is not null
    reference,  \* settlementReference
    usedBy,     \* the settlement: keys
    usage,      \* the reservation's state
    counter,    \* the usage-day: counters
    audit       \* the audit record's status

recordVars == <<state, token, live, stored, reference, usedBy>>
usageVars  == <<usage, counter>>
ledgerVars == <<recordVars, usageVars, audit>>

State  == {"none", "processing", "prepared", "delivered", "manual_review", "failed"}
Usage  == {"none", "reserved", "finalized", "released", "manual_review"}
Audit  == {"none", "prepared", "delivered", "manual_review"}
PayerOf == {Payer[p] : p \in Payment}

LedgerTypeOK ==
    /\ state \in [Payment -> State] /\ token \in [Payment -> Invocation \cup {Nobody}]
    /\ live \in [Payment -> BOOLEAN] /\ stored \in [Payment -> BOOLEAN]
    /\ reference \in [Payment -> Reference \cup {NoReference}]
    /\ usedBy \in [Reference -> SUBSET Payment]
    /\ usage \in [Payment -> Usage]
    /\ counter \in [PayerOf -> [amount : Nat, requests : Nat]]
    /\ audit \in [Payment -> Audit]

LedgerInit ==
    /\ state = [p \in Payment |-> "none"] /\ token = [p \in Payment |-> Nobody]
    /\ live = [p \in Payment |-> FALSE] /\ stored = [p \in Payment |-> FALSE]
    /\ reference = [p \in Payment |-> NoReference]
    /\ usedBy = [r \in Reference |-> {}]
    /\ usage = [p \in Payment |-> "none"]
    /\ counter = [y \in PayerOf |-> [amount |-> 0, requests |-> 0]]
    /\ audit = [p \in Payment |-> "none"]

-----------------------------------------------------------------------------
(* claim and replay                                                        *)

\* Mutant: a payment under review can be retried.
ReclaimReviewed(p) ==
    state[p] \in {"failed", "manual_review"} \/ (state[p] = "processing" /\ ~live[p])

Reclaimable(p) == state[p] = "failed" \/ (state[p] = "processing" /\ ~live[p])

Grantable(p) == state[p] = "none" \/ Reclaimable(p)

\* A record that was prepared once is prepared again with its stored response.
Grant(i, p) ==
    /\ Grantable(p)
    /\ state' = [state EXCEPT ![p] = IF stored[p] THEN "prepared" ELSE "processing"]
    /\ token' = [token EXCEPT ![p] = i]
    /\ live' = [live EXCEPT ![p] = TRUE]
    /\ UNCHANGED <<stored, reference, usedBy, usageVars, audit>>

Overdue(p) == state[p] = "prepared" /\ ~live[p]

Expire(p) ==
    /\ Overdue(p)
    /\ state' = [state EXCEPT ![p] = "manual_review"]
    /\ token' = [token EXCEPT ![p] = Nobody]
    /\ UNCHANGED <<live, stored, reference, usedBy, usageVars, audit>>

\* Mutant: replays the response whose delivery is not recorded.
ReplayStored(p) == stored[p]

Replayable(p) == state[p] = "delivered" /\ stored[p]

-----------------------------------------------------------------------------
(* prepare, complete and release                                           *)

Holds(i, p) == token[p] = i /\ state[p] \in {"processing", "prepared"}

Prepare(i, p) ==
    /\ Holds(i, p)
    /\ state' = [state EXCEPT ![p] = "prepared"]
    /\ stored' = [stored EXCEPT ![p] = TRUE]
    /\ live' = [live EXCEPT ![p] = TRUE]
    /\ UNCHANGED <<token, reference, usedBy, usageVars, audit>>

\* Mutant: one settlement closes several payments.
CompletesAnyReference(i, p, r) == token[p] = i /\ state[p] = "prepared" /\ stored[p]

Completes(i, p, r) ==
    /\ token[p] = i /\ state[p] = "prepared" /\ stored[p]
    /\ usedBy[r] \subseteq {p}

Complete(i, p, r) ==
    /\ Completes(i, p, r)
    /\ state' = [state EXCEPT ![p] = "delivered"]
    /\ token' = [token EXCEPT ![p] = Nobody]
    /\ live' = [live EXCEPT ![p] = FALSE]
    /\ reference' = [reference EXCEPT ![p] = r]
    /\ usedBy' = [usedBy EXCEPT ![r] = {p}]
    /\ UNCHANGED <<stored, usageVars, audit>>

\* Mutant: the claim token is not compared.
ReleaseUnclaimed(i, p, manual) ==
    /\ state[p] \in {"processing", "prepared"}
    /\ state' = [state EXCEPT ![p] = IF manual THEN "manual_review" ELSE "failed"]
    /\ token' = [token EXCEPT ![p] = Nobody]
    /\ live' = [live EXCEPT ![p] = FALSE]
    /\ UNCHANGED <<stored, reference, usedBy, usageVars, audit>>

Release(i, p, manual) ==
    /\ Holds(i, p)
    /\ state' = [state EXCEPT ![p] = IF manual THEN "manual_review" ELSE "failed"]
    /\ token' = [token EXCEPT ![p] = Nobody]
    /\ live' = [live EXCEPT ![p] = FALSE]
    /\ UNCHANGED <<stored, reference, usedBy, usageVars, audit>>

-----------------------------------------------------------------------------
(* usage-reserve, usage-finalize and usage-release                         *)

Reserved(p) == usage[p] \in {"reserved", "finalized"}

WithinLimits(p) ==
    /\ counter[Payer[p]].amount + Price[p] <= MaxAmount
    /\ counter[Payer[p]].requests + 1 <= MaxRequests

\* Mutant: a reservation that exists is counted again.
ReserveAgain(p) ==
    /\ usage[p] # "manual_review" /\ WithinLimits(p)
    /\ usage' = [usage EXCEPT ![p] = "reserved"]
    /\ counter' = [counter EXCEPT ![Payer[p]].amount = @ + Price[p],
                                  ![Payer[p]].requests = @ + 1]
    /\ UNCHANGED <<recordVars, audit>>

Reserve(p) ==
    /\ usage[p] \in {"none", "released"} /\ WithinLimits(p)
    /\ usage' = [usage EXCEPT ![p] = "reserved"]
    /\ counter' = [counter EXCEPT ![Payer[p]].amount = @ + Price[p],
                                  ![Payer[p]].requests = @ + 1]
    /\ UNCHANGED <<recordVars, audit>>

Finalize(p) ==
    /\ Reserved(p)
    /\ usage' = [usage EXCEPT ![p] = "finalized"]
    /\ UNCHANGED <<recordVars, counter, audit>>

\* Mutant: a reservation is released twice and the underflow goes unnoticed.
ReleaseUsageAgain(p) ==
    /\ usage[p] \in {"reserved", "released"}
    /\ usage' = [usage EXCEPT ![p] = "released"]
    /\ counter' = [counter EXCEPT ![Payer[p]].amount = @ - Price[p],
                                  ![Payer[p]].requests = @ - 1]
    /\ UNCHANGED <<recordVars, audit>>

ReleaseUsage(p) ==
    /\ usage[p] = "reserved"
    /\ counter[Payer[p]].amount >= Price[p] /\ counter[Payer[p]].requests >= 1
    /\ usage' = [usage EXCEPT ![p] = "released"]
    /\ counter' = [counter EXCEPT ![Payer[p]].amount = @ - Price[p],
                                  ![Payer[p]].requests = @ - 1]
    /\ UNCHANGED <<recordVars, audit>>

ReviewUsage(p) ==
    /\ Reserved(p)
    /\ usage' = [usage EXCEPT ![p] = "manual_review"]
    /\ UNCHANGED <<recordVars, counter, audit>>

AuditUpsert(p, status) ==
    /\ audit' = [audit EXCEPT ![p] = status]
    /\ UNCHANGED <<recordVars, usageVars>>
=============================================================================
