------------------------------ MODULE RiskGate ------------------------------
(***************************************************************************)
(* External Risk Gate requests of one client under one request_id: the     *)
(* idempotency slot and the audit log in Postgres, the signed webhook      *)
(* events, and the invocations of the reliability wrapper around the       *)
(* evaluation (handleIdempotentExternalRiskGateRequest), with webhooks on. *)
(*                                                                         *)
(* Time is the order of the timestamps the code compares: 5 minutes for the*)
(* claim, 24 hours for slot and audit.  A claim answered with CONFLICT or  *)
(* IN_PROGRESS, and every error answer, changes nothing: it is a claim left*)
(* out, or Crash in place of the statement or after it.                    *)
(***************************************************************************)
EXTENDS Naturals

CONSTANTS
    Payload,     \* canonical request hashes
    Invocation,  \* executions of the wrapper; its claim token is its own
    MaxAudits,   \* bound on delivered audits
    MaxFaults,   \* bound on crashes, lost answers, failed lookups, overrun claims
    Nobody, NoPayload

Audit == 1..MaxAudits
NoAudit == 0

ASSUME GateAssumption ==
    /\ MaxAudits \in Nat /\ MaxFaults \in Nat
    /\ Nobody \notin Invocation /\ NoPayload \notin Payload

VARIABLES
    slot,      \* the row of risk_gate_idempotency_keys
    lease,     \* slot.updated_at is less than five minutes ago
    fresh,     \* slot.expires_at is in the future
    audits,    \* how many delivered audits were written; the last is the newest
    payload,   \* the request each was evaluated from
    unheld,    \* those whose writer did not hold the slot, or not any more
    window,    \* those created between slot.created_at and slot.expires_at
    recent,    \* those created within the last 24 hours
    event,     \* audits whose signed event is in webhook_event_outbox
    inv,       \* where an invocation stands, its payload and audit
    served,    \* the 200 answers: payload of the request, audit of the answer,
               \* and whether the invocation had claimed the slot
    faults

gvars == <<slot, lease, fresh, audits, payload, unheld, window, recent, event, inv,
           served, faults>>
auditVars == <<audits, payload, unheld>>
clockVars == <<lease, fresh>>

NoSlot == [state |-> "none", payload |-> NoPayload, token |-> Nobody, audit |-> NoAudit]
Idle == [pc |-> "idle", payload |-> NoPayload, audit |-> NoAudit]

\* With the shape check of the table.
TypeOK ==
    /\ slot \in {NoSlot}
          \cup [state : {"processing"}, payload : Payload, token : Invocation,
                audit : {NoAudit}]
          \cup [state : {"completed"}, payload : Payload, token : {Nobody}, audit : Audit]
    /\ lease \in BOOLEAN /\ fresh \in BOOLEAN
    /\ audits \in 0..MaxAudits
    /\ payload \in [Audit -> Payload \cup {NoPayload}]
    /\ unheld \subseteq 1..audits /\ recent \subseteq 1..audits
    /\ window \subseteq 1..audits /\ event \subseteq 1..audits
    /\ inv \in [Invocation ->
          {Idle} \cup [pc : {"unclaimed", "evaluating", "releasing"}, payload : Payload,
                        audit : {NoAudit}]
                 \cup [pc : {"ensuring", "completing", "replaying"}, payload : Payload,
                       audit : 1..audits]]
    /\ served \subseteq [payload : Payload, audit : 1..audits, claimed : BOOLEAN]
    /\ faults \in 0..MaxFaults

Init ==
    /\ slot = NoSlot /\ lease = FALSE /\ fresh = FALSE
    /\ audits = 0 /\ payload = [a \in Audit |-> NoPayload] /\ unheld = {}
    /\ window = {} /\ recent = {} /\ event = {}
    /\ inv = [i \in Invocation |-> Idle]
    /\ served = {} /\ faults = 0

Fault == faults < MaxFaults /\ faults' = faults + 1

At(i, stage) == inv[i].pc = stage
Goto(i, stage, a) ==
    inv' = [inv EXCEPT ![i] = [pc |-> stage, payload |-> @.payload, audit |-> a]]
Stop(i) == inv' = [inv EXCEPT ![i] = Idle]

-----------------------------------------------------------------------------
(* claim_risk_gate_idempotency, by the disposition it answers with.        *)

Evaluates(i, p) ==
    /\ lease' = TRUE /\ fresh' = TRUE
    /\ inv' = [inv EXCEPT ![i] = [pc |-> "evaluating", payload |-> p, audit |-> NoAudit]]

\* CLAIMED: the INSERT, or the roll of an expired slot.
ClaimNew(i, p) ==
    /\ At(i, "idle") /\ ~fresh
    /\ slot' = [state |-> "processing", payload |-> p, token |-> i, audit |-> NoAudit]
    /\ window' = {}
    /\ Evaluates(i, p)
    /\ UNCHANGED <<auditVars, recent, event, served, faults>>

AnyPayload(p) == fresh

\* Any other payload is a CONFLICT.
SamePayload(p) == fresh /\ slot.payload = p

ReplaysCompleted(a) == a \in window /\ slot.state = "completed"

\* The audits the claim reconciles the slot with.
Replays(a) == a \in window

\* REPLAY.
ClaimReplay(i, p) ==
    /\ At(i, "idle") /\ SamePayload(p)
    /\ \E a \in Audit :
          /\ Replays(a)
          /\ slot' = [slot EXCEPT !.state = "completed", !.token = Nobody, !.audit = a]
          /\ inv' = [inv EXCEPT ![i] = [pc |-> "replaying", payload |-> p, audit |-> a]]
    /\ UNCHANGED <<clockVars, auditVars, window, recent, event, served, faults>>

\* CLAIMED: the claim of a holder that took more than five minutes.
ClaimOver(i, p) ==
    /\ At(i, "idle") /\ SamePayload(p)
    /\ \A a \in Audit : ~Replays(a)
    /\ slot.state = "processing" /\ ~lease
    /\ slot' = [slot EXCEPT !.token = i]
    /\ Evaluates(i, p)
    /\ UNCHANGED <<auditVars, window, recent, event, served, faults>>

-----------------------------------------------------------------------------
(* The wrapper's invocation after its claim, or without one.               *)

\* identifyClient answers null when its lookup or its upgrade of the key fails
\* once; the evaluation then runs without a claim, and authenticates again.
FindNoClient(i, p) ==
    /\ At(i, "idle") /\ Fault
    /\ inv' = [inv EXCEPT ![i] = [pc |-> "unclaimed", payload |-> p, audit |-> NoAudit]]
    /\ UNCHANGED <<slot, clockVars, auditVars, window, recent, event, served>>

Holds(i) ==
    slot.state = "processing" /\ slot.token = i /\ slot.payload = inv[i].payload

\* The delivered audit's INSERT; the trigger refuses a second one in 24 hours.
InsertAudit(i) ==
    /\ recent = {} /\ audits < MaxAudits
    /\ LET a == audits + 1
       IN /\ audits' = a
          /\ payload' = [payload EXCEPT ![a] = inv[i].payload]
          /\ unheld' = IF At(i, "evaluating") /\ Holds(i) THEN unheld ELSE unheld \cup {a}
          /\ recent' = {a}
          /\ window' = IF fresh THEN window \cup {a} ELSE window
    /\ UNCHANGED <<slot, clockVars, event>>

Evaluate(i) ==
    /\ At(i, "evaluating") /\ InsertAudit(i) /\ Goto(i, "ensuring", audits + 1)
    /\ UNCHANGED <<served, faults>>

\* The INSERT commits, its answer is an error: a 500 like any other.
LoseAudit(i) ==
    /\ At(i, "evaluating") /\ InsertAudit(i) /\ Goto(i, "releasing", NoAudit) /\ Fault
    /\ UNCHANGED served

\* The handler's 200 is returned as it is: no event, no slot to complete.
EvaluateUnclaimed(i) ==
    /\ At(i, "unclaimed") /\ InsertAudit(i) /\ Stop(i)
    /\ \/ /\ served' = served \cup
                 {[payload |-> inv[i].payload, audit |-> audits + 1, claimed |-> FALSE]}
          /\ UNCHANGED faults
       \/ UNCHANGED served /\ Fault

\* Not a 2xx: invalid, over quota, no data, or the audit refused.
EvaluationFails(i) ==
    /\ \/ At(i, "evaluating") /\ Goto(i, "releasing", NoAudit)
       \/ At(i, "unclaimed") /\ Stop(i)
    /\ UNCHANGED <<slot, clockVars, auditVars, window, recent, event, served, faults>>

\* release_risk_gate_idempotency deletes the row under its own token.
ReleaseClaim(i) ==
    /\ At(i, "releasing")
    /\ \/ /\ Holds(i)
          /\ slot' = NoSlot /\ lease' = FALSE /\ fresh' = FALSE /\ window' = {}
       \/ ~Holds(i) /\ UNCHANGED <<slot, clockVars, window>>
    /\ Stop(i)
    /\ UNCHANGED <<auditVars, recent, event, served, faults>>

\* ensureRiskGateWebhookEvent: found, inserted, or inserted by another retry.
EnsureEvent(i) ==
    /\ At(i, "ensuring") /\ Goto(i, "completing", inv[i].audit)
    /\ event' = event \cup {inv[i].audit}
    /\ UNCHANGED <<slot, clockVars, auditVars, window, recent, served, faults>>

Answer(i) ==
    served' = served \cup
        {[payload |-> inv[i].payload, audit |-> inv[i].audit, claimed |-> TRUE]}

CompleteKeepingToken(i) ==
    /\ At(i, "completing")
    /\ \/ /\ Holds(i) /\ inv[i].audit \in window
          /\ slot' = [slot EXCEPT !.state = "completed", !.audit = inv[i].audit]
          /\ Answer(i)
       \/ ~(Holds(i) /\ inv[i].audit \in window) /\ UNCHANGED <<slot, served>>
    /\ Stop(i)
    /\ UNCHANGED <<clockVars, auditVars, window, recent, event, faults>>

\* complete_risk_gate_idempotency; what it refuses is answered with 503.
CompleteClaim(i) ==
    /\ At(i, "completing")
    /\ \/ /\ Holds(i) /\ inv[i].audit \in window
          /\ slot' = [slot EXCEPT !.state = "completed", !.token = Nobody,
                                  !.audit = inv[i].audit]
          /\ Answer(i)
       \/ ~(Holds(i) /\ inv[i].audit \in window) /\ UNCHANGED <<slot, served>>
    /\ Stop(i)
    /\ UNCHANGED <<clockVars, auditVars, window, recent, event, faults>>

ReplayUnensured(i) ==
    /\ At(i, "replaying") /\ Stop(i) /\ Answer(i)
    /\ UNCHANGED <<slot, clockVars, auditVars, window, recent, event, faults>>

Replay(i) ==
    /\ At(i, "replaying") /\ Stop(i) /\ Answer(i)
    /\ event' = event \cup {inv[i].audit}
    /\ UNCHANGED <<slot, clockVars, auditVars, window, recent, faults>>

-----------------------------------------------------------------------------
(* Time and failure.                                                       *)

\* Under an invocation that is still at work, this is a fault.
LeaseLapses ==
    /\ slot.state = "processing" /\ lease /\ lease' = FALSE
    /\ IF At(slot.token, "idle") \/ At(slot.token, "unclaimed")
       THEN UNCHANGED faults ELSE Fault
    /\ UNCHANGED <<slot, fresh, auditVars, window, recent, event, inv, served>>

\* 24 hours after the last claim: after every older audit has aged.
SlotExpires ==
    /\ fresh /\ recent \subseteq window
    /\ slot.state = "processing" => ~lease
    /\ fresh' = FALSE
    /\ UNCHANGED <<slot, lease, auditVars, window, recent, event, inv, served, faults>>

\* 24 hours after the INSERT: the slot it was written under has expired before.
AuditAges ==
    /\ recent # {} /\ ~(fresh /\ recent \subseteq window)
    /\ recent' = {}
    /\ UNCHANGED <<slot, clockVars, auditVars, window, event, inv, served, faults>>

Crash(i) ==
    /\ ~At(i, "idle") /\ Stop(i) /\ Fault
    /\ UNCHANGED <<slot, clockVars, auditVars, window, recent, event, served>>

-----------------------------------------------------------------------------

Claim(i, p) == ClaimNew(i, p) \/ ClaimReplay(i, p) \/ ClaimOver(i, p)

Proceed(i) ==
    \/ Evaluate(i) \/ LoseAudit(i) \/ EvaluateUnclaimed(i) \/ EvaluationFails(i)
    \/ ReleaseClaim(i)
    \/ EnsureEvent(i) \/ CompleteClaim(i) \/ Replay(i)

Next ==
    \/ \E i \in Invocation :
        \/ Proceed(i) \/ Crash(i)
        \/ \E p \in Payload : Claim(i, p) \/ FindNoClient(i, p)
    \/ LeaseLapses \/ SlotExpires \/ AuditAges

Spec == Init /\ [][Next]_gvars

(* Fairness: an invocation goes on or crashes, five minutes pass, and the  *)
(* client repeats each of its requests until the service lets it through.  *)
Fairness ==
    /\ \A i \in Invocation : WF_gvars(Proceed(i))
    /\ WF_gvars(LeaseLapses)
    /\ \A p \in Payload : SF_gvars(\E i \in Invocation : Claim(i, p))

FairSpec == Spec /\ Fairness

-----------------------------------------------------------------------------
(* Properties.                                                             *)

(* The 200 of an invocation that held a claim, or replayed a slot, has its *)
(* signed event, also when the audit was left by one that died or gave up. *)
(* And every 200 was evaluated from the payload it answers, unless the     *)
(* audit's writer did not hold the slot.  The comments promise both without*)
(* these limits: see the README for what an unclaimed evaluation breaks.   *)
AnswerIsBacked ==
    \A s \in served : /\ s.claimed => s.audit \in event
                     /\ (payload[s.audit] = s.payload \/ s.audit \in unheld)

(* A delivered audit that the slot's holder stored is the answer of the    *)
(* exact retries until the slot expires, although its writer may have died *)
(* before the event or the completion was stored; it is never released to  *)
(* be evaluated again.  The exception is a writer that never learnt that   *)
(* its INSERT had been committed, and lives to release its claim.          *)
Recoverable(a) ==
    /\ a \in window \ unheld /\ fresh
    /\ ~(slot.state = "processing" /\ At(slot.token, "releasing"))

DeliveredIsServed ==
    \A a \in Audit :
        Recoverable(a) ~> \/ slot.state # "none" /\ ~fresh
                          \/ \E s \in served : s.audit = a
=============================================================================
