-------------------------- MODULE CustomerSpending --------------------------
(***************************************************************************)
(* How a customer spends prepaid credits with an API key: key creation and *)
(* revocation, and consumeCanonicalCustomerPaid, one action per awaited    *)
(* statement on CustomerLedger's tables, whose triggers have the last word.*)
(* The grants come and go as PrepaidGrants allows, between any statements. *)
(***************************************************************************)
EXTENDS PrepaidGrants, CustomerLedger

CONSTANT MaxFaults    \* bound on evicted invocations and lost answers

ASSUME SpendingAssumption == MaxFaults \in Nat

VARIABLE faults

svars == <<grantVars, key, keyGrant, usage, now, spend, faults>>

TypeOK == GrantsTypeOK /\ SpendingTypeOK /\ faults \in 0..MaxFaults

Init ==
    /\ GrantsInit /\ LedgerInit
    /\ spend = [s \in Spender |-> NotSpending] /\ faults = 0

Fault == faults < MaxFaults /\ faults' = faults + 1

At(s, stage) == spend[s].pc = stage
Goto(s, stage) == spend' = [spend EXCEPT ![s].pc = stage]
Stop(s) == spend' = [spend EXCEPT ![s] = NotSpending]

-----------------------------------------------------------------------------
(* Keys.                                                                   *)

\* mintCanonicalCustomerPaidKey; g was read before the INSERT and may have
\* been revoked or used up since.
MintKey(k) ==
    /\ key[k] = "none"
    /\ \E g \in Intent :
        /\ grant[g] # "none" /\ KeyAdmitted(g)
        /\ keyGrant' = [keyGrant EXCEPT ![k] = g]
    /\ key' = [key EXCEPT ![k] = "active"]
    /\ UNCHANGED <<grantVars, usage, now, spend, faults>>

DeleteKey(k) ==
    /\ key[k] = "active"
    /\ key' = [key EXCEPT ![k] = "none"]
    /\ UNCHANGED <<grantVars, keyGrant, usage, now, spend, faults>>

RevokeKey(k) ==
    /\ key[k] = "active"
    /\ key' = [key EXCEPT ![k] = "revoked"]
    /\ UNCHANGED <<grantVars, keyGrant, usage, now, spend, faults>>

-----------------------------------------------------------------------------
(* consumeCanonicalCustomerPaid.                                           *)

\* scopedKey
FindKey(s, k, r) ==
    /\ At(s, "idle") /\ KeyValid(k)
    /\ spend' = [spend EXCEPT ![s] = [pc |-> "prior", key |-> k, request |-> r, grant |-> Nothing]]
    /\ UNCHANGED <<grantVars, keyVars, usage, now, faults>>

ReadPrior(s) ==
    LET prior == usage[spend[s].request]
    IN /\ At(s, "prior")
       /\ \/ prior = Nothing /\ Goto(s, "choosing")
          \/ prior # Nothing /\ prior.key = spend[s].key /\ Goto(s, "replaying")
          \/ prior # Nothing /\ prior.key # spend[s].key /\ Stop(s)
       /\ UNCHANGED <<grantVars, keyVars, usage, now, faults>>

\* The answer of a replay depends on the grants; either way nothing is written.
ReadGrantsAgain(s) ==
    /\ At(s, "replaying") /\ Stop(s)
    /\ UNCHANGED <<grantVars, keyVars, usage, now, faults>>

ChooseGrant(s) ==
    LET able == Affordable(spend[s].request)
    IN /\ At(s, "choosing")
       /\ \/ /\ able # {}
             /\ spend' = [spend EXCEPT ![s].pc = "charging", ![s].grant = Earliest(able)]
          \/ able = {} /\ Stop(s)
       /\ UNCHANGED <<grantVars, keyVars, usage, now, faults>>

Charge(s) ==
    LET k == spend[s].key  g == spend[s].grant  r == spend[s].request
    IN /\ At(s, "charging")
       /\ \/ /\ Accepted(k, g, r)
             /\ usage' = [usage EXCEPT ![r] = [key |-> k, grant |-> g]]
             /\ \/ Goto(s, "confirming") /\ UNCHANGED faults
                \/ Goto(s, "rechecking") /\ Fault
          \/ /\ ~Accepted(k, g, r)
             /\ Goto(s, "rechecking") /\ UNCHANGED <<usage, faults>>
          \/ Goto(s, "rechecking") /\ Fault /\ UNCHANGED usage
       /\ UNCHANGED <<grantVars, keyVars, now>>

\* The catch block's readback and the readback of the debit only decide the
\* answer.
Readback(s) ==
    /\ At(s, "rechecking") \/ At(s, "confirming")
    /\ Stop(s)
    /\ UNCHANGED <<grantVars, keyVars, usage, now, faults>>

Crash(s) ==
    /\ ~At(s, "idle") /\ Stop(s) /\ Fault
    /\ UNCHANGED <<grantVars, keyVars, usage, now>>

-----------------------------------------------------------------------------

Tick ==
    /\ now < MaxNow /\ now' = now + 1
    /\ UNCHANGED <<grantVars, keyVars, usage, spend, faults>>

FundingStep == GrantsNext /\ UNCHANGED <<keyVars, usage, now, spend, faults>>

Consume(s) ==
    \/ \E k \in Key, r \in Request : FindKey(s, k, r)
    \/ ReadPrior(s) \/ ReadGrantsAgain(s) \/ ChooseGrant(s)
    \/ Charge(s) \/ Readback(s) \/ Crash(s)

Next ==
    \/ Tick \/ FundingStep
    \/ \E k \in Key : MintKey(k) \/ RevokeKey(k)
    \/ \E s \in Spender : Consume(s)

Spec == Init /\ [][Next]_svars
=============================================================================
