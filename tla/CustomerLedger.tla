--------------------------- MODULE CustomerLedger ---------------------------
(***************************************************************************)
(* The D1 side of prepaid credits: API keys and usage receipts, what the   *)
(* queries over them and the grants compute, and what the triggers admit;  *)
(* and what an invocation that spends credits remembers between queries.   *)
(* The tables of one customer are modelled; every check is per customer.   *)
(***************************************************************************)
EXTENDS CustomerGrants, Integers, FiniteSets, FiniteSetsExt

CONSTANTS
    Request,     \* request ids; an id stands for one capability
    Key,
    Spender,     \* invocations of the paid-debit action
    Nothing,
    Credits,     \* the credits of an intent's SKU
    ExpiresAt,   \* when its grant expires, past MaxNow for packs
    Cost,        \* the credits a request's capability costs
    Covered,     \* the intents whose tier permits it
    MaxKeys,     \* active keys a customer may have (3)
    MaxNow       \* bound on the clock

ASSUME CreditsAssumption ==
    /\ IsFiniteSet(Intent) /\ IsFiniteSet(Request)
    /\ Nothing \notin Intent \cup Request \cup Key \cup [key : Key, grant : Intent]
    /\ Credits \in [Intent -> Nat \ {0}] /\ ExpiresAt \in [Intent -> Nat]
    /\ Cost \in [Request -> Nat \ {0}] /\ Covered \in [Request -> SUBSET Intent]
    /\ MaxKeys \in Nat /\ MaxNow \in Nat

VARIABLES
    key,         \* api_keys: "none", "active", "revoked"
    keyGrant,    \* the grant whose expires_at the key was given
    usage,       \* customer_usage_receipts, each with its debit: key and grant
    now,
    spend        \* where an invocation stands: key, request, chosen grant

keyVars == <<key, keyGrant>>

LedgerTypeOK ==
    /\ key \in [Key -> {"none", "active", "revoked"}]
    /\ keyGrant \in [Key -> Intent \cup {Nothing}]
    /\ \A k \in Key : key[k] = "none" <=> keyGrant[k] = Nothing
    /\ usage \in [Request -> [key : Key, grant : Intent] \cup {Nothing}]
    /\ now \in 0..MaxNow

NotSpending == [pc |-> "idle", key |-> Nothing, request |-> Nothing, grant |-> Nothing]

Invocation ==
    [pc : {"prior", "replaying", "choosing", "charging", "rechecking", "confirming"},
     key : Key, request : Request, grant : Intent \cup {Nothing}]

SpendingTypeOK ==
    /\ grant \in [Intent -> {"none", "active", "revoked"}]
    /\ LedgerTypeOK
    /\ spend \in [Spender -> {NotSpending} \cup Invocation]

LedgerInit ==
    /\ key = [k \in Key |-> "none"] /\ keyGrant = [k \in Key |-> Nothing]
    /\ usage = [r \in Request |-> Nothing]
    /\ now = 0

-----------------------------------------------------------------------------
(* What the statements compute.                                            *)

Unexpired(g) == ExpiresAt[g] > now

ChargedTo(g) == {r \in Request : usage[r] # Nothing /\ usage[r].grant = g}

Used(g) == SumFunctionOnSet(Cost, ChargedTo(g))

\* funding and reversal entries of the grant, less its usage receipts
Remaining(g) == (IF grant[g] = "active" THEN Credits[g] ELSE 0) - Used(g)

\* SUM(delta_credits) over the whole ledger of the customer
Balance == SumFunction([g \in Intent |-> Remaining(g)])

\* queryGrants
Listed == {g \in Intent : grant[g] = "active" /\ Unexpired(g)}

\* ORDER BY expires_at, grant_id; among those that expire together, one and the same.
Earliest(S) == CHOOSE g \in S : \A h \in S : ExpiresAt[g] <= ExpiresAt[h]

KeyValid(k) == key[k] = "active" /\ Unexpired(keyGrant[k])

\* chooseGrant: the first by expiry that covers the request and can pay it
Affordable(r) == {g \in Listed \cap Covered[r] : Remaining(g) >= Cost[r]}

-----------------------------------------------------------------------------
(* What the triggers admit.                                                *)

\* trg_customer_keys_funded_only, whose 60 second cooldown only delays.
KeyAdmitted(g) ==
    /\ \E h \in Listed : ExpiresAt[g] <= ExpiresAt[h]
    /\ Balance > 0
    /\ Cardinality({k \in Key : KeyValid(k)}) < MaxKeys

ValidForBalance(k, g, r) == KeyValid(k) /\ g \in Listed \cap Covered[r]

ValidForGrant(k, g, r) == KeyValid(k) /\ g \in Covered[r] /\ Remaining(g) >= Cost[r]

\* trg_customer_usage_validate
ReceiptValid(k, g, r) ==
    /\ KeyValid(k)
    /\ g \in Listed \cap Covered[r]
    /\ Remaining(g) >= Cost[r]

DebitStrict(r) == Listed # {} /\ Balance - Cost[r] > 0

\* trg_customer_debit_guard: the customer's whole ledger must cover the debit.
DebitGuard(r) == Listed # {} /\ Balance - Cost[r] >= 0

\* The INSERT, with its unique request id and both triggers: receipt and debit
\* come about together or not at all.
Accepted(k, g, r) == usage[r] = Nothing /\ ReceiptValid(k, g, r) /\ DebitGuard(r)

-----------------------------------------------------------------------------
(* Properties.                                                             *)

(* Concurrent requests that chose the same grant never use more of it than *)
(* it was funded with, also when the customer has credits elsewhere.       *)
WithinGrant == \A g \in Intent : Used(g) <= Credits[g]

(* A request is only charged, and only once, while its key is valid and its*)
(* grant is funded, unexpired and not refunded, however old the rows are   *)
(* that the invocation has read.                                           *)
ChargedIsCurrent ==
    [][\A r \in Request : usage'[r] # usage[r] =>
         /\ usage[r] = Nothing
         /\ KeyValid(usage'[r].key)
         /\ usage'[r].grant \in Listed]_usage

(* What the grant query offers to a valid key, the triggers accept: they   *)
(* count per grant and over the whole ledger, and only credits that were   *)
(* used before their refund make the two disagree.                         *)
OfferedIsAccepted ==
    \A k \in Key, r \in Request :
        /\ KeyValid(k) /\ usage[r] = Nothing /\ Affordable(r) # {}
        /\ \A g \in Intent : grant[g] = "revoked" => ChargedTo(g) = {}
        => Accepted(k, Earliest(Affordable(r)), r)
=============================================================================
