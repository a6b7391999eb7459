--------------------------- MODULE CustomerCredits ---------------------------
(***************************************************************************)
(* Prepaid credits end to end: the flow that funds and revokes a grant, and*)
(* the flow that spends it, on the same grants and PayPal's money.  The two*)
(* share no statement: a step is one of either.  The end of a paid month is*)
(* read by both, from the grant's expiry and from the proof's settlement,  *)
(* and each keeps its own clock for it, which allows more than one clock.  *)
(***************************************************************************)
EXTENDS CustomerFunding, CustomerLedger

VARIABLE lost    \* the faults of the spending invocations

spendingVars == <<key, keyGrant, usage, now, spend, lost>>

Spending == INSTANCE CustomerSpending
    WITH paid <- [i \in Intent |-> Money(order[i])], faults <- lost

CreditsInit == Init /\ Spending!Init

FundingNext == Next /\ UNCHANGED spendingVars

\* The grants stay: FundingStep is what the other flow does.
SpendingNext ==
    /\ UNCHANGED fvars
    /\ \/ Spending!Tick
       \/ \E k \in Key : Spending!MintKey(k) \/ Spending!RevokeKey(k)
       \/ \E s \in Spender : Spending!Consume(s)

CreditsNext == FundingNext \/ SpendingNext

CreditsSpec == CreditsInit /\ [][CreditsNext]_<<fvars, spendingVars>>

(* No request is charged to credits that no money paid for, whichever of   *)
(* the two flows' calls crash, repeat or overtake each other.              *)
SpentIsPaid ==
    \A r \in Request : usage[r] # Nothing => Money(order[usage[r].grant]) # "NO"
=============================================================================
