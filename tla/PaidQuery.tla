----------------------------- MODULE PaidQuery -----------------------------
(***************************************************************************)
(* The Coinbase x402 route of the adaptive query endpoint, as any number of*)
(* invocations run it against the Durable Object and the facilitator.  A   *)
(* call to the ledger is answered, or it times out and takes effect later, *)
(* or never.  The facilitator is external: it is taken to move the funds   *)
(* whenever it is asked to, so that it is the ledger which must not ask    *)
(* twice, and to know of an authorization that was used elsewhere.         *)
(***************************************************************************)
EXTENDS CommerceLedger, FiniteSetsExt

CONSTANT MaxFaults  \* bounds time-outs, crashes, lapsed leases, outside settlements

ASSUME FaultAssumption == MaxFaults \in Nat

VARIABLES
    inv,        \* the state of each invocation
    late,       \* requests whose caller timed out
    charges,    \* how often settle moved a payment's funds
    pending,    \* payments whose settle threw and whose funds may yet move
    elsewhere,  \* payments whose authorization was settled by another party
    faults

chargeVars == <<charges, pending, elsewhere>>
vars == <<ledgerVars, inv, late, chargeVars, faults>>

Stage == {"idle", "claim", "verify", "reserve", "recheck", "prepare", "audit", "settle",
          "complete", "finalize", "publish", "release", "usage", "review", "done"}

Op == {"claim", "reserve", "prepare", "complete", "finalize", "release", "usage",
       "auditPrepared", "auditReview", "auditDelivered"}

Idle(p) == [pc |-> "idle", pay |-> p,
            enforced |-> FALSE,   \* usageReservation.enforced
            manual |-> FALSE,     \* manualReview of the releases
            threw |-> FALSE,      \* settle threw
            ref |-> NoReference,  \* settlement.transaction
            paid |-> FALSE]       \* answered with the paid body

Run == [pc : Stage, pay : Payment, enforced : BOOLEAN, manual : BOOLEAN,
        threw : BOOLEAN, ref : Reference \cup {NoReference}, paid : BOOLEAN]

TypeOK ==
    /\ LedgerTypeOK
    /\ inv \in [Invocation -> Run]
    /\ late \in SUBSET [op : Op, from : Invocation]
    /\ charges \in [Payment -> Nat] /\ pending \in SUBSET Payment
    /\ elsewhere \in SUBSET Payment /\ faults \in 0..MaxFaults

\* A client may present its payments in any order, and each of them again.
Init ==
    /\ LedgerInit
    /\ \E pay \in [Invocation -> Payment] : inv = [i \in Invocation |-> Idle(pay[i])]
    /\ late = {} /\ charges = [p \in Payment |-> 0]
    /\ pending = {} /\ elsewhere = {} /\ faults = 0

Fault == faults < MaxFaults /\ faults' = faults + 1
At(i, stage) == inv[i].pc = stage
Become(i, run) == inv' = [inv EXCEPT ![i] = run]
Goto(i, stage) == Become(i, [inv[i] EXCEPT !.pc = stage])
Serve(i) == Become(i, [inv[i] EXCEPT !.pc = "done", !.paid = TRUE])
GiveUp(i, manual) == Become(i, [inv[i] EXCEPT !.pc = "release", !.manual = manual])

Answered == UNCHANGED <<late, chargeVars, faults>>
NoChange == UNCHANGED ledgerVars

\* The call timed out: its caller goes on, the request may still be handled.
TimesOut(i, op) ==
    /\ Fault /\ late' = late \cup {[op |-> op, from |-> i]}
    /\ NoChange /\ UNCHANGED chargeVars

-----------------------------------------------------------------------------
(* Up to the claim: an answer that was delivered is replayed, whatever has *)
(* become of its quote.                                                    *)

Present(i) ==
    LET p == inv[i].pay IN
    /\ At(i, "idle")
    /\ IF Replayable(p) THEN Serve(i) ELSE Goto(i, "claim")
    /\ NoChange /\ Answered

Claim(i) ==
    LET p == inv[i].pay IN
    /\ At(i, "claim")
    /\ \/ Grant(i, p) /\ Goto(i, "verify")
       \/ Expire(p) /\ Goto(i, "done")
       \/ Replayable(p) /\ Serve(i) /\ NoChange
       \/ /\ ~Grantable(p) /\ ~Overdue(p) /\ ~Replayable(p)
          /\ Goto(i, "done") /\ NoChange
    /\ Answered

ClaimTimesOut(i) == At(i, "claim") /\ Goto(i, "done") /\ TimesOut(i, "claim")

-----------------------------------------------------------------------------
(* From the claim to the settlement.                                       *)

Verify(i) ==
    /\ At(i, "verify")
    /\ Goto(i, "reserve") \/ GiveUp(i, FALSE)
    /\ NoChange /\ Answered

ReserveUsage(i) ==
    LET p == inv[i].pay
        reserved == Become(i, [inv[i] EXCEPT !.pc = "recheck", !.enforced = TRUE])
    IN  /\ At(i, "reserve")
        /\ \/ Reserve(p) /\ reserved
           \/ Reserved(p) /\ reserved /\ NoChange
           \/ /\ usage[p] = "manual_review"
                 \/ (usage[p] \in {"none", "released"} /\ ~WithinLimits(p))
              /\ GiveUp(i, FALSE) /\ NoChange
        /\ Answered

\* The reservation is not released: the invocation never learnt of it.
ReserveTimesOut(i) == At(i, "reserve") /\ GiveUp(i, FALSE) /\ TimesOut(i, "reserve")

Recheck(i) ==
    /\ At(i, "recheck")
    /\ Goto(i, "prepare") \/ GiveUp(i, FALSE)
    /\ NoChange /\ Answered

PrepareDelivery(i) ==
    /\ At(i, "prepare")
    /\ \/ Prepare(i, inv[i].pay) /\ Goto(i, "audit")
       \/ ~Holds(i, inv[i].pay) /\ GiveUp(i, FALSE) /\ NoChange
    /\ Answered

PrepareTimesOut(i) == At(i, "prepare") /\ GiveUp(i, FALSE) /\ TimesOut(i, "prepare")

\* The quote may have expired by now.
AuditPrepared(i) ==
    /\ At(i, "audit")
    /\ AuditUpsert(inv[i].pay, "prepared")
    /\ Goto(i, "settle") \/ GiveUp(i, FALSE)
    /\ Answered

AuditTimesOut(i) == At(i, "audit") /\ GiveUp(i, FALSE) /\ TimesOut(i, "auditPrepared")

-----------------------------------------------------------------------------
(* The settlement and what follows it.                                     *)

MovesFunds(p) == charges' = [charges EXCEPT ![p] = @ + 1] /\ UNCHANGED <<pending, elsewhere>>

WithTransaction(i) ==
    \E r \in Reference : Become(i, [inv[i] EXCEPT !.pc = "complete", !.ref = r])

Settle(i) ==
    LET p == inv[i].pay IN
    /\ At(i, "settle")
    /\ \/ p \notin elsewhere /\ MovesFunds(p) /\ (WithTransaction(i) \/ GiveUp(i, TRUE))
       \/ /\ p \in elsewhere /\ (WithTransaction(i) \/ GiveUp(i, TRUE))  \* duplicate_settlement
          /\ UNCHANGED chargeVars
       \/ GiveUp(i, FALSE) /\ UNCHANGED chargeVars
    /\ NoChange /\ UNCHANGED <<late, faults>>

\* Mutant: a settlement that threw is released for retry.
SettleThrowsRetryable(i) ==
    LET p == inv[i].pay IN
    /\ At(i, "settle") /\ GiveUp(i, FALSE)
    /\ \/ UNCHANGED chargeVars
       \/ p \notin elsewhere /\ MovesFunds(p)
       \/ p \notin elsewhere /\ pending' = pending \cup {p} /\ UNCHANGED <<charges, elsewhere>>
    /\ NoChange /\ UNCHANGED <<late, faults>>

SettleThrows(i) ==
    LET p == inv[i].pay IN
    /\ At(i, "settle")
    /\ Become(i, [inv[i] EXCEPT !.pc = "release", !.manual = TRUE, !.threw = TRUE])
    /\ \/ UNCHANGED chargeVars
       \/ p \notin elsewhere /\ MovesFunds(p)
       \/ p \notin elsewhere /\ pending' = pending \cup {p} /\ UNCHANGED <<charges, elsewhere>>
    /\ NoChange /\ UNCHANGED <<late, faults>>

\* Mutant: the answer of complete is not looked at.
CompleteUnchecked(i) ==
    LET p == inv[i].pay  r == inv[i].ref IN
    /\ At(i, "complete") /\ Goto(i, "finalize")
    /\ \/ Complete(i, p, r)
       \/ ~Completes(i, p, r) /\ NoChange
    /\ Answered

CompleteDelivery(i) ==
    LET p == inv[i].pay  r == inv[i].ref IN
    /\ At(i, "complete")
    /\ \/ Complete(i, p, r) /\ Goto(i, "finalize")
       \/ ~Completes(i, p, r) /\ GiveUp(i, TRUE) /\ NoChange
    /\ Answered

CompleteTimesOut(i) == At(i, "complete") /\ GiveUp(i, TRUE) /\ TimesOut(i, "complete")

FinalizeUsage(i) ==
    LET p == inv[i].pay IN
    /\ At(i, "finalize")
    /\ \/ Finalize(p) /\ Goto(i, "publish")
       \/ ~Reserved(p) /\ GiveUp(i, TRUE) /\ NoChange
    /\ Answered

FinalizeTimesOut(i) == At(i, "finalize") /\ GiveUp(i, TRUE) /\ TimesOut(i, "finalize")

AuditDelivered(i) ==
    /\ At(i, "publish") /\ Serve(i)
    /\ \/ AuditUpsert(inv[i].pay, "delivered") /\ Answered
       \/ TimesOut(i, "auditDelivered")

-----------------------------------------------------------------------------
(* Giving up: the claim is released first, the reservation after it.       *)

Released(i) == Goto(i, IF inv[i].enforced THEN "usage" ELSE "done")

ReleaseDelivery(i) ==
    LET p == inv[i].pay IN
    /\ At(i, "release") /\ Released(i)
    /\ \/ Release(i, p, inv[i].manual) /\ Answered
       \/ ~Holds(i, p) /\ NoChange /\ Answered
       \/ TimesOut(i, "release")

UnreserveEffect(i) ==
    LET p == inv[i].pay IN
    \/ inv[i].manual /\ ReviewUsage(p)
    \/ ~inv[i].manual /\ ReleaseUsage(p)

Unreserve(i) ==
    LET p == inv[i].pay IN
    /\ At(i, "usage") /\ Goto(i, IF inv[i].threw THEN "review" ELSE "done")
    /\ \/ UnreserveEffect(i) /\ Answered
       \/ /\ IF inv[i].manual THEN ~Reserved(p) ELSE usage[p] # "reserved"
          /\ NoChange /\ Answered
       \/ TimesOut(i, "usage")

AuditReview(i) ==
    /\ At(i, "review") /\ Goto(i, "done")
    /\ \/ AuditUpsert(inv[i].pay, "manual_review") /\ Answered
       \/ TimesOut(i, "auditReview")

-----------------------------------------------------------------------------
(* The environment.                                                        *)

\* What a request does whose caller no longer waits for it.
Effect(op, i) ==
    LET p == inv[i].pay IN
    \/ op = "claim" /\ (Grant(i, p) \/ Expire(p))
    \/ op = "reserve" /\ Reserve(p)
    \/ op = "prepare" /\ Prepare(i, p)
    \/ op = "complete" /\ Complete(i, p, inv[i].ref)
    \/ op = "finalize" /\ Finalize(p)
    \/ op = "release" /\ Release(i, p, inv[i].manual)
    \/ op = "usage" /\ UnreserveEffect(i)
    \/ op = "auditPrepared" /\ AuditUpsert(p, "prepared")
    \/ op = "auditReview" /\ AuditUpsert(p, "manual_review")
    \/ op = "auditDelivered" /\ AuditUpsert(p, "delivered")

Handle(m) ==
    /\ m \in late /\ late' = late \ {m}
    /\ Effect(m.op, m.from)
    /\ UNCHANGED <<inv, chargeVars, faults>>

Crash(i) ==
    /\ inv[i].pc \notin {"idle", "done"} /\ Goto(i, "done")
    /\ Fault /\ NoChange /\ UNCHANGED <<late, chargeVars>>

LeaseLapses(p) ==
    /\ live[p] /\ live' = [live EXCEPT ![p] = FALSE]
    /\ Fault
    /\ UNCHANGED <<state, token, stored, reference, usedBy, usageVars, audit,
                   inv, late, chargeVars>>

ChargeLands(p) ==
    /\ p \in pending /\ pending' = pending \ {p}
    /\ charges' = [charges EXCEPT ![p] = @ + 1]
    /\ UNCHANGED <<ledgerVars, inv, late, elsewhere, faults>>

SettledElsewhere(p) ==
    /\ charges[p] = 0 /\ p \notin pending \cup elsewhere
    /\ elsewhere' = elsewhere \cup {p}
    /\ Fault /\ UNCHANGED <<ledgerVars, inv, late, charges, pending>>

RouteStep(i) ==
    \/ Present(i) \/ Claim(i) \/ Verify(i) \/ ReserveUsage(i) \/ Recheck(i)
    \/ PrepareDelivery(i) \/ AuditPrepared(i) \/ Settle(i) \/ SettleThrows(i)
    \/ CompleteDelivery(i) \/ FinalizeUsage(i) \/ AuditDelivered(i)
    \/ ReleaseDelivery(i) \/ Unreserve(i) \/ AuditReview(i)

TimeOutStep(i) ==
    \/ ClaimTimesOut(i) \/ ReserveTimesOut(i) \/ PrepareTimesOut(i) \/ AuditTimesOut(i)
    \/ CompleteTimesOut(i) \/ FinalizeTimesOut(i)

Next ==
    \/ \E i \in Invocation : RouteStep(i) \/ TimeOutStep(i) \/ Crash(i)
    \/ \E m \in late : Handle(m)
    \/ \E p \in Payment : LeaseLapses(p) \/ ChargeLands(p) \/ SettledElsewhere(p)

Spec == Init /\ [][Next]_vars

-----------------------------------------------------------------------------
(* Properties                                                              *)

\* What counts as a charge is that the authorization's funds moved.
Charged(p) == charges[p] + (IF p \in elsewhere THEN 1 ELSE 0)

\* A payment is charged at most once, however often it is presented, retried
\* or raced, and also when a settlement that threw moves the funds later.
ChargedOnce ==
    \A p \in Payment :
        Charged(p) <= 1 /\ (p \in pending => Charged(p) = 0)

\* Once its funds moved or may move, a payment cannot be claimed again: its
\* record is delivered or under review, or prepared by the invocation that
\* settled it, which has not closed it yet.
ChargedIsLocked ==
    \A p \in Payment : charges[p] > 0 \/ p \in pending =>
        \/ state[p] \in {"delivered", "manual_review"}
        \/ /\ state[p] = "prepared" /\ token[p] \in Invocation /\ inv[token[p]].pay = p
           /\ inv[token[p]].ref # NoReference \/ inv[token[p]].manual

\* A payment whose answer is recorded, or was sent by any invocation, is
\* delivered and stays so; it was charged once and has a settlement reference
\* of its own, so no settlement pays for two answers.
PaidFor(p) == state[p] = "delivered" \/ \E i \in Invocation : inv[i].paid /\ inv[i].pay = p

DeliveredIsPaid ==
    /\ \A p \in Payment : PaidFor(p) =>
            /\ state[p] = "delivered" /\ Charged(p) = 1
            /\ stored[p] /\ reference[p] \in Reference
    /\ \A p, o \in Payment :
            state[p] = "delivered" /\ state[o] = "delivered" /\ reference[p] = reference[o] => p = o

Counts(y) ==
    {p \in Payment : Payer[p] = y /\ usage[p] \in {"reserved", "finalized", "manual_review"}}

\* The payer's counters are the sum and the number of the reservations that
\* count, whatever was reserved, released and reserved again, and they stay
\* within the limits.
CountersMatch ==
    \A y \in PayerOf :
        /\ counter[y].amount = SumFunctionOnSet(Price, Counts(y))
        /\ counter[y].requests = Cardinality(Counts(y))
        /\ counter[y].amount <= MaxAmount /\ counter[y].requests <= MaxRequests

\* A reservation becomes final, and the audit reports a delivery, only for a
\* payment whose record is delivered.
ProjectionsFollowLedger ==
    \A p \in Payment :
        usage[p] = "finalized" \/ audit[p] = "delivered" => state[p] = "delivered"

\* The route and its ledger keep the promise of PaidDelivery.
Delivery == INSTANCE PaidDelivery WITH
    charges <- [p \in Payment |-> Charged(p)],
    delivered <- {p \in Payment : state[p] = "delivered"},
    reviewed <- {p \in Payment : state[p] = "manual_review"}

ImplementsPaidDelivery == Delivery!DeliverySpec

ChargedTo(y) == {p \in Payment : Payer[p] = y /\ charges[p] > 0}

\* "Production settlement is additionally protected by ... daily spend
\* ceiling, daily request count": what a payer is charged on a day stays
\* within the limits.  The code does not keep this: a reservation belongs to
\* the payment and not to the claim, and an invocation that gives up releases
\* its claim first, so that it takes the reservation from the retry that has
\* already found it reserved.
DailyCeiling ==
    \A y \in PayerOf :
        /\ SumFunctionOnSet(Price, ChargedTo(y)) <= MaxAmount
        /\ Cardinality(ChargedTo(y)) <= MaxRequests
=============================================================================
