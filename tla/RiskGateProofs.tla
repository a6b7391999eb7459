--------------------------- MODULE RiskGateProofs ---------------------------
(***************************************************************************)
(* What a Risk Gate client is answered with, for any number of payloads,   *)
(* concurrent retries, audits and faults.                                  *)
(***************************************************************************)
EXTENDS RiskGate, TLAPS

(* An audit answers a payload, or its writer did not hold the slot.        *)
Answers(a, p) == payload[a] = p \/ a \in unheld

(* What the claim reconciles the slot with answers the slot's payload.     *)
WindowIsOwn == \A a \in window : Answers(a, slot.payload)

(* An invocation carries an audit that answers its payload, and completes  *)
(* only after the event was stored.                                        *)
CarriedIsOwn ==
    \A i \in Invocation :
        /\ inv[i].pc \in {"ensuring", "completing", "replaying"}
               => Answers(inv[i].audit, inv[i].payload)
        /\ At(i, "completing") => inv[i].audit \in event

IInv == TypeOK /\ WindowIsOwn /\ CarriedIsOwn /\ AnswerIsBacked

(***************************************************************************)
(* Types.                                                                  *)
(***************************************************************************)

Processing == [state : {"processing"}, payload : Payload, token : Invocation, audit : {NoAudit}]
Completed == [state : {"completed"}, payload : Payload, token : {Nobody}, audit : Audit]
SlotType == {NoSlot} \cup Processing \cup Completed

Working == [pc : {"unclaimed", "evaluating", "releasing"}, payload : Payload, audit : {NoAudit}]
Carrying(n) == [pc : {"ensuring", "completing", "replaying"}, payload : Payload, audit : 1..n]
Place(n) == {Idle} \cup Working \cup Carrying(n)

(* Everything but the slot and the places of the invocations.              *)
ClockTyped == lease \in BOOLEAN /\ fresh \in BOOLEAN

RowsTyped ==
    /\ audits \in 0..MaxAudits
    /\ payload \in [Audit -> Payload \cup {NoPayload}]
    /\ unheld \subseteq 1..audits /\ recent \subseteq 1..audits
    /\ window \subseteq 1..audits /\ event \subseteq 1..audits
    /\ served \subseteq [payload : Payload, audit : 1..audits, claimed : BOOLEAN]
    /\ faults \in 0..MaxFaults

StateTyped == ClockTyped /\ RowsTyped

(* The types of rows and clock, of the slot, and of invocations.           *)
LEMMA TypeParts ==
    TypeOK <=> StateTyped /\ slot \in SlotType /\ inv \in [Invocation -> Place(audits)]
  BY DEF TypeOK, StateTyped, ClockTyped, RowsTyped, SlotType, Processing, Completed, Place,
         Working, Carrying

(* The same after a step.                                                  *)
LEMMA TypePartsNext ==
    TypeOK' <=> StateTyped' /\ slot' \in SlotType /\ inv' \in [Invocation -> Place(audits')]
  BY DEF TypeOK, StateTyped, ClockTyped, RowsTyped, SlotType, Processing, Completed, Place,
         Working, Carrying

(* Where an invocation may stand, and what it then carries.                *)
LEMMA Places ==
    ASSUME TypeOK, NEW i \in Invocation
    PROVE  /\ inv[i].pc \in {"unclaimed", "evaluating", "releasing"} => inv[i] \in Working
           /\ inv[i].pc \in {"ensuring", "completing", "replaying"}
                 => inv[i] \in Carrying(audits)
  <1>1. inv[i] \in Place(audits)
    BY TypeParts
  <1> QED BY <1>1 DEF Place, Working, Carrying, Idle

(* Steps that change the place of one invocation.                          *)
LEMMA Placing ==
    ASSUME TypeOK, NEW i \in Invocation, NEW place \in Place(audits'),
           audits' \in Nat, audits <= audits', inv' = [inv EXCEPT ![i] = place]
    PROVE  /\ inv' \in [Invocation -> Place(audits')]
           /\ inv'[i] = place
           /\ \A j \in Invocation \ {i} : inv'[j] = inv[j]
  <1>1. inv \in [Invocation -> Place(audits)] /\ audits \in Nat
    BY TypeParts DEF StateTyped, RowsTyped
  <1>2. 1..audits \subseteq 1..audits'
    BY <1>1
  <1>3. Place(audits) \subseteq Place(audits')
    BY <1>2 DEF Place, Carrying
  <1> QED BY <1>1, <1>3

(* An invocation that ends is idle, and the others are where they were.    *)
LEMMA Stopping ==
    ASSUME TypeOK, NEW i \in Invocation, Stop(i), UNCHANGED audits
    PROVE  /\ inv' \in [Invocation -> Place(audits')]
           /\ inv'[i] = Idle
           /\ \A j \in Invocation \ {i} : inv'[j] = inv[j]
  <1>1. Idle \in Place(audits')
    BY DEF Place
  <1>2. audits' \in Nat /\ audits <= audits'
    BY TypeParts DEF StateTyped, RowsTyped
  <1> QED BY <1>1, <1>2, Placing DEF Stop

(* An invocation that goes on, with an audit in hand or without.           *)
LEMMA Going ==
    ASSUME TypeOK, NEW i \in Invocation, NEW stage, NEW a, Goto(i, stage, a),
           inv[i] \in Working \cup Carrying(audits), audits' \in Nat, audits <= audits',
           \/ stage = "releasing" /\ a = NoAudit
           \/ stage \in {"ensuring", "completing"} /\ a \in 1..audits'
    PROVE  /\ inv' \in [Invocation -> Place(audits')]
           /\ inv'[i] = [pc |-> stage, payload |-> inv[i].payload, audit |-> a]
           /\ \A j \in Invocation \ {i} : inv'[j] = inv[j]
  <1> DEFINE place == [pc |-> stage, payload |-> inv[i].payload, audit |-> a]
  <1>1. inv[i].payload \in Payload
    BY DEF Working, Carrying
  <1>2. place \in Place(audits')
    BY <1>1 DEF Place, Working, Carrying
  <1>3. inv' = [inv EXCEPT ![i] = place]
    BY DEF Goto
  <1> HIDE DEF place
  <1>4. /\ inv' \in [Invocation -> Place(audits')]
        /\ inv'[i] = place
        /\ \A j \in Invocation \ {i} : inv'[j] = inv[j]
    BY <1>2, <1>3, Placing
  <1> QED BY <1>4 DEF place

(***************************************************************************)
(* The steps, one lemma per group that disturbs the same things.           *)
(***************************************************************************)

(* The invariant holds before the first request.                           *)
LEMMA InitIInv == Init => IInv
  <1> SUFFICES ASSUME Init PROVE IInv
    OBVIOUS
  <1>1. TypeOK
    <2>1. StateTyped
      <3>1. ClockTyped
        BY DEF Init, ClockTyped
      <3>2. RowsTyped
        BY GateAssumption DEF Init, RowsTyped
      <3> QED BY <3>1, <3>2 DEF StateTyped
    <2>2. slot \in SlotType /\ inv \in [Invocation -> Place(audits)]
      BY DEF Init, SlotType, Place
    <2> QED BY <2>1, <2>2, TypeParts
  <1> QED BY <1>1 DEF Init, IInv, WindowIsOwn, CarriedIsOwn, AnswerIsBacked, At, Idle

(* A claim starts a slot, takes it over, or carries an audit of its window.*)
LEMMA ClaimStep ==
    ASSUME IInv, NEW i \in Invocation, NEW p \in Payload, Claim(i, p)
    PROVE  IInv'
  <1> USE DEF IInv, auditVars, clockVars
  <1>1. StateTyped /\ slot \in SlotType
    BY TypeParts
  <1>2. UNCHANGED <<audits, payload, unheld, event, served>>
    BY DEF Claim, ClaimNew, ClaimReplay, ClaimOver
  <1>3. audits' \in Nat /\ audits <= audits'
    BY <1>1, <1>2 DEF StateTyped, RowsTyped
  <1>4. AnswerIsBacked'
    BY <1>2 DEF AnswerIsBacked
  <1>5. CASE ClaimReplay(i, p)
    <2>1. PICK a \in Audit :
             /\ a \in window /\ slot.payload = p
             /\ slot' = [slot EXCEPT !.state = "completed", !.token = Nobody, !.audit = a]
             /\ inv' = [inv EXCEPT ![i] = [pc |-> "replaying", payload |-> p, audit |-> a]]
      BY <1>5 DEF ClaimReplay, Replays, SamePayload
    <2>2. slot' \in Completed /\ slot'.payload = p
      <3>1. slot \in Processing \cup Completed
        BY <1>1, <2>1, GateAssumption DEF SlotType, NoSlot
      <3>2. CASE slot \in Processing
        BY <2>1, <3>2 DEF Processing, Completed
      <3>3. CASE slot \in Completed
        BY <2>1, <3>3 DEF Completed
      <3> QED BY <3>1, <3>2, <3>3
    <2>3. StateTyped' /\ window' = window
      BY <1>1, <1>5 DEF ClaimReplay, StateTyped, ClockTyped, RowsTyped
    <2>4. [pc |-> "replaying", payload |-> p, audit |-> a] \in Place(audits')
      BY <1>1, <1>2, <2>1 DEF StateTyped, RowsTyped, Place, Carrying
    <2>5. /\ inv' \in [Invocation -> Place(audits')]
          /\ inv'[i] = [pc |-> "replaying", payload |-> p, audit |-> a]
          /\ \A j \in Invocation \ {i} : inv'[j] = inv[j]
      BY <1>3, <2>1, <2>4, Placing
    <2>6. TypeOK'
      BY <2>2, <2>3, <2>5, TypePartsNext DEF SlotType
    <2>7. WindowIsOwn'
      BY <1>2, <2>1, <2>2, <2>3 DEF WindowIsOwn, Answers
    <2>8. CarriedIsOwn'
      BY <1>2, <2>1, <2>5 DEF CarriedIsOwn, WindowIsOwn, Answers, At
    <2> QED BY <1>4, <2>6, <2>7, <2>8
  <1>6. CASE ClaimNew(i, p) \/ ClaimOver(i, p)
    <2>1. /\ slot' \in Processing
          /\ window' = {} \/ (window' = window /\ slot'.payload = slot.payload)
      <3>1. CASE ClaimNew(i, p)
        <4>1. slot' = [state |-> "processing", payload |-> p, token |-> i, audit |-> NoAudit]
              /\ window' = {}
          BY <3>1 DEF ClaimNew
        <4> QED BY <4>1 DEF Processing
      <3>2. CASE ClaimOver(i, p)
        <4>1. slot \in Processing
          BY <1>1, <3>2 DEF ClaimOver, SlotType, NoSlot, Processing, Completed
        <4> QED BY <3>2, <4>1 DEF ClaimOver, Processing
      <3> QED BY <1>6, <3>1, <3>2
    <2>2. /\ inv' = [inv EXCEPT ![i] = [pc |-> "evaluating", payload |-> p, audit |-> NoAudit]]
          /\ [pc |-> "evaluating", payload |-> p, audit |-> NoAudit] \in Place(audits')
      BY <1>6 DEF ClaimNew, ClaimOver, Evaluates, Place, Working
    <2>3. /\ inv' \in [Invocation -> Place(audits')]
          /\ inv'[i] = [pc |-> "evaluating", payload |-> p, audit |-> NoAudit]
          /\ \A j \in Invocation \ {i} : inv'[j] = inv[j]
      BY <1>3, <2>2, Placing
    <2>4. StateTyped'
      <3>1. ClockTyped'
        BY <1>6 DEF ClaimNew, ClaimOver, Evaluates, ClockTyped
      <3>2. UNCHANGED <<recent, faults>>
        BY <1>6 DEF ClaimNew, ClaimOver
      <3>3. RowsTyped'
        BY <1>1, <1>2, <2>1, <3>2 DEF StateTyped, RowsTyped
      <3> QED BY <3>1, <3>3 DEF StateTyped
    <2>5. TypeOK'
      BY <2>1, <2>3, <2>4, TypePartsNext DEF SlotType
    <2>6. WindowIsOwn' /\ CarriedIsOwn'
      BY <1>2, <2>1, <2>3 DEF WindowIsOwn, CarriedIsOwn, Answers, At
    <2> QED BY <1>4, <2>5, <2>6
  <1> QED BY <1>5, <1>6 DEF Claim

(* To go on without a claim touches no row.                                *)
LEMMA NoClientStep ==
    ASSUME IInv, NEW i \in Invocation, NEW p \in Payload, FindNoClient(i, p)
    PROVE  IInv'
  <1> DEFINE place == [pc |-> "unclaimed", payload |-> p, audit |-> NoAudit]
  <1> USE DEF IInv, auditVars, clockVars
  <1>1. StateTyped /\ slot \in SlotType
    BY TypeParts
  <1>2. UNCHANGED <<slot, lease, fresh, audits, payload, unheld, window, recent, event, served>>
    BY DEF FindNoClient
  <1>3. StateTyped'
    <2>1. faults' \in 0..MaxFaults
      BY <1>1, GateAssumption DEF FindNoClient, Fault, StateTyped, RowsTyped
    <2> QED BY <1>1, <1>2, <2>1 DEF StateTyped, ClockTyped, RowsTyped
  <1>4. /\ inv' \in [Invocation -> Place(audits')]
        /\ inv'[i] = place
        /\ \A j \in Invocation \ {i} : inv'[j] = inv[j]
    <2>1. place \in Place(audits') /\ inv' = [inv EXCEPT ![i] = place]
      BY DEF FindNoClient, Place, Working
    <2>2. audits' \in Nat /\ audits <= audits'
      BY <1>1, <1>2 DEF StateTyped, RowsTyped
    <2> HIDE DEF place
    <2> QED BY <2>1, <2>2, Placing
  <1>5. TypeOK'
    BY <1>1, <1>2, <1>3, <1>4, TypePartsNext
  <1>6. WindowIsOwn' /\ CarriedIsOwn' /\ AnswerIsBacked'
    BY <1>2, <1>4 DEF WindowIsOwn, CarriedIsOwn, AnswerIsBacked, Answers, At
  <1> QED BY <1>5, <1>6

(* The answers stay typed when one is added, with its audit among the rows.*)
LEMMA Answering ==
    ASSUME TypeOK, NEW p \in Payload, NEW a \in 1..audits', NEW c \in BOOLEAN,
           1..audits \subseteq 1..audits',
           \/ served' = served
           \/ served' = served \cup {[payload |-> p, audit |-> a, claimed |-> c]}
    PROVE  served' \subseteq [payload : Payload, audit : 1..audits', claimed : BOOLEAN]
  <1> DEFINE answer == [payload |-> p, audit |-> a, claimed |-> c]
             Answered == [payload : Payload, audit : 1..audits', claimed : BOOLEAN]
  <1>1. [payload : Payload, audit : 1..audits, claimed : BOOLEAN] \subseteq Answered
    OBVIOUS
  <1>2. served \subseteq Answered
    BY <1>1, TypeParts DEF StateTyped, RowsTyped
  <1>3. answer \in Answered
    OBVIOUS
  <1> HIDE DEF answer, Answered
  <1>4. served' = served \/ served' = served \cup {answer}
    BY DEF answer
  <1>5. served' \subseteq Answered
    BY <1>2, <1>3, <1>4
  <1> QED BY <1>5 DEF Answered

(* The new audit answers the slot, or its writer did not hold it.          *)
LEMMA AuditStep ==
    ASSUME IInv, NEW i \in Invocation,
           Evaluate(i) \/ LoseAudit(i) \/ EvaluateUnclaimed(i)
    PROVE  IInv'
  <1>0. PICK n : n = audits + 1
    OBVIOUS
  <1> USE DEF IInv, clockVars
  <1>1. StateTyped /\ slot \in SlotType
    BY TypeParts
  <1>2. inv[i] \in Working /\ InsertAudit(i)
    BY Places DEF Evaluate, LoseAudit, EvaluateUnclaimed, At
  <1>3. /\ audits < MaxAudits /\ audits \in Nat /\ n \in Audit /\ audits' = n
        /\ 1..audits \subseteq 1..n /\ n \in 1..n
    BY <1>0, <1>1, <1>2, GateAssumption DEF InsertAudit, StateTyped, RowsTyped, Audit
  <1>4. /\ UNCHANGED <<slot, lease, fresh, event>>
        /\ payload' = [payload EXCEPT ![n] = inv[i].payload]
        /\ unheld \subseteq unheld' /\ unheld' \subseteq unheld \cup {n}
        /\ n \in unheld' \/ Holds(i)
        /\ recent' = {n}
        /\ window' \subseteq window \cup {n}
    BY <1>0, <1>2 DEF InsertAudit
  <1>5. inv[i].payload \in Payload
    BY <1>2 DEF Working
  <1>6. payload'[n] = inv[i].payload /\ \A a \in 1..audits : payload'[a] = payload[a]
    BY <1>0, <1>1, <1>3, <1>4 DEF StateTyped, RowsTyped, Audit
  <1>7. faults' \in 0..MaxFaults
    BY <1>1, GateAssumption
       DEF Evaluate, LoseAudit, EvaluateUnclaimed, Fault, StateTyped, RowsTyped
  <1>8. \/ served' = served
        \/ served' = served \cup
               {[payload |-> inv[i].payload, audit |-> n, claimed |-> FALSE]}
    BY <1>0 DEF Evaluate, LoseAudit, EvaluateUnclaimed
  <1>9. StateTyped'
    <2>1. payload' \in [Audit -> Payload \cup {NoPayload}]
      BY <1>1, <1>4, <1>5 DEF StateTyped, RowsTyped
    <2>2. audits' \in 0..MaxAudits
      BY <1>3, GateAssumption DEF Audit
    <2>3. served' \subseteq [payload : Payload, audit : 1..audits', claimed : BOOLEAN]
      BY <1>3, <1>5, <1>8, Answering
    <2>4. ClockTyped'
      BY <1>1, <1>4 DEF StateTyped, ClockTyped
    <2>5. RowsTyped'
      BY <1>1, <1>3, <1>4, <1>7, <2>1, <2>2, <2>3 DEF StateTyped, RowsTyped
    <2> QED BY <2>4, <2>5 DEF StateTyped
  <1>10. /\ inv' \in [Invocation -> Place(audits')]
         /\ \A j \in Invocation \ {i} : inv'[j] = inv[j]
         /\ \/ inv'[i] = [pc |-> "ensuring", payload |-> inv[i].payload, audit |-> n]
            \/ inv'[i] = [pc |-> "releasing", payload |-> inv[i].payload, audit |-> NoAudit]
            \/ inv'[i] = Idle
    <2>1. audits' \in Nat /\ audits <= audits'
      BY <1>3
    <2>2. CASE Evaluate(i)
      <3>1. Goto(i, "ensuring", n)
        BY <1>0, <2>2 DEF Evaluate
      <3> QED BY <1>2, <1>3, <2>1, <3>1, Going
    <2>3. CASE LoseAudit(i)
      <3>1. Goto(i, "releasing", NoAudit)
        BY <2>3 DEF LoseAudit
      <3> QED BY <1>2, <2>1, <3>1, Going
    <2>4. CASE EvaluateUnclaimed(i)
      <3>1. inv' = [inv EXCEPT ![i] = Idle] /\ Idle \in Place(audits')
        BY <2>4 DEF EvaluateUnclaimed, Stop, Place
      <3> QED BY <2>1, <3>1, Placing
    <2> QED BY <2>2, <2>3, <2>4
  <1>11. TypeOK'
    BY <1>1, <1>4, <1>9, <1>10, TypePartsNext
  <1>12. \A a \in 1..audits, p \in Payload \cup {NoPayload} : Answers(a, p) => Answers(a, p)'
    BY <1>4, <1>6 DEF Answers
  <1>13. Answers(n, slot.payload)'
    BY <1>4, <1>6 DEF Answers, Holds
  <1>14. WindowIsOwn'
    <2>1. slot.payload \in Payload \cup {NoPayload}
      BY <1>1 DEF SlotType, NoSlot, Processing, Completed
    <2> QED BY <1>1, <1>4, <1>12, <1>13, <2>1 DEF WindowIsOwn, StateTyped, RowsTyped, Answers
  <1>15. CarriedIsOwn'
    <2>1. \A j \in Invocation \ {i} : inv[j].pc \in {"ensuring", "completing", "replaying"}
              => inv[j].audit \in 1..audits /\ inv[j].payload \in Payload
      BY Places DEF Carrying
    <2>2. \/ inv'[i].pc \in {"idle", "releasing"}
          \/ inv'[i].pc = "ensuring" /\ inv'[i].audit = n /\ inv'[i].payload = inv[i].payload
      <3>1. CASE inv'[i] = [pc |-> "ensuring", payload |-> inv[i].payload, audit |-> n]
        BY <3>1
      <3>2. CASE inv'[i] = [pc |-> "releasing", payload |-> inv[i].payload, audit |-> NoAudit]
        BY <3>2
      <3>3. CASE inv'[i] = Idle
        BY <3>3 DEF Idle
      <3> QED BY <1>10, <3>1, <3>2, <3>3
    <2>3. ASSUME NEW j \in Invocation,
                 inv'[j].pc \in {"ensuring", "completing", "replaying"}
          PROVE  Answers(inv[j].audit, inv[j].payload)'
      <3>1. CASE j = i
        <4>1. inv'[j].audit = n /\ inv'[j].payload = inv[i].payload
          BY <2>2, <2>3, <3>1
        <4> QED BY <1>6, <4>1 DEF Answers
      <3>2. CASE j # i
        <4>1. inv'[j] = inv[j]
          BY <1>10, <3>2
        <4>2. Answers(inv[j].audit, inv[j].payload)
          BY <2>3, <4>1 DEF CarriedIsOwn
        <4>3. inv[j].audit \in 1..audits /\ inv[j].payload \in Payload
          BY <2>1, <2>3, <3>2, <4>1
        <4> QED BY <1>12, <4>1, <4>2, <4>3 DEF Answers
      <3> QED BY <3>1, <3>2
    <2>4. \A j \in Invocation : At(j, "completing")' => inv'[j].audit \in event'
      BY <1>4, <1>10, <2>2 DEF CarriedIsOwn, At
    <2> QED BY <2>3, <2>4 DEF CarriedIsOwn
  <1>16. AnswerIsBacked'
    <2>1. \A s \in served : s.audit \in 1..audits /\ s.payload \in Payload
      BY <1>1 DEF StateTyped, RowsTyped
    <2> QED BY <1>4, <1>6, <1>8, <2>1 DEF AnswerIsBacked
  <1> QED BY <1>11, <1>14, <1>15, <1>16

(* Giving up, releasing and crashing only take away.                       *)
LEMMA EndStep ==
    ASSUME IInv, NEW i \in Invocation, EvaluationFails(i) \/ ReleaseClaim(i) \/ Crash(i)
    PROVE  IInv'
  <1> USE DEF IInv, auditVars, clockVars
  <1>1. StateTyped /\ slot \in SlotType
    BY TypeParts
  <1>2. UNCHANGED <<audits, payload, unheld, recent, event, served>>
    BY DEF EvaluationFails, ReleaseClaim, Crash
  <1>3. (window' = {} /\ slot' = NoSlot) \/ (window' = window /\ slot' = slot)
    BY DEF EvaluationFails, ReleaseClaim, Crash
  <1>4. StateTyped'
    <2>1. ClockTyped'
      BY <1>1 DEF EvaluationFails, ReleaseClaim, Crash, StateTyped, ClockTyped
    <2>2. faults' \in 0..MaxFaults
      BY <1>1, GateAssumption
         DEF EvaluationFails, ReleaseClaim, Crash, Fault, StateTyped, RowsTyped
    <2>3. RowsTyped'
      BY <1>1, <1>2, <1>3, <2>2 DEF StateTyped, RowsTyped
    <2> QED BY <2>1, <2>3 DEF StateTyped
  <1>5. /\ inv' \in [Invocation -> Place(audits')]
        /\ inv'[i].pc \in {"idle", "releasing"}
        /\ \A j \in Invocation \ {i} : inv'[j] = inv[j]
    <2>1. CASE Stop(i)
      BY <1>2, <2>1, Stopping DEF Idle
    <2>2. CASE At(i, "evaluating") /\ Goto(i, "releasing", NoAudit)
      <3>1. inv[i] \in Working /\ Goto(i, "releasing", NoAudit)
        BY <2>2, Places DEF At
      <3>2. audits' \in Nat /\ audits <= audits'
        BY <1>1, <1>2 DEF StateTyped, RowsTyped
      <3>3. /\ inv' \in [Invocation -> Place(audits')]
            /\ inv'[i] = [pc |-> "releasing", payload |-> inv[i].payload, audit |-> NoAudit]
            /\ \A j \in Invocation \ {i} : inv'[j] = inv[j]
        BY <3>1, <3>2, Going
      <3> QED BY <3>3
    <2> QED BY <2>1, <2>2 DEF EvaluationFails, ReleaseClaim, Crash
  <1>6. TypeOK'
    BY <1>1, <1>3, <1>4, <1>5, TypePartsNext DEF SlotType
  <1>7. WindowIsOwn' /\ CarriedIsOwn' /\ AnswerIsBacked'
    BY <1>2, <1>3, <1>5 DEF WindowIsOwn, CarriedIsOwn, AnswerIsBacked, Answers, At
  <1> QED BY <1>6, <1>7

(* The answer is what was carried, and its event is stored before.         *)
LEMMA AnswerStep ==
    ASSUME IInv, NEW i \in Invocation, EnsureEvent(i) \/ CompleteClaim(i) \/ Replay(i)
    PROVE  IInv'
  <1> DEFINE a == inv[i].audit
  <1> USE DEF IInv, auditVars, clockVars
  <1>1. StateTyped /\ slot \in SlotType
    BY TypeParts
  <1>2. inv[i] \in Carrying(audits) /\ Answers(a, inv[i].payload)
    BY Places DEF EnsureEvent, CompleteClaim, Replay, At, CarriedIsOwn
  <1>3. a \in 1..audits /\ inv[i].payload \in Payload
    BY <1>2 DEF Carrying
  <1>4. UNCHANGED <<lease, fresh, audits, payload, unheld, window, recent, faults>>
    BY DEF EnsureEvent, CompleteClaim, Replay
  <1>5. audits' \in Nat /\ audits <= audits'
    BY <1>1, <1>4 DEF StateTyped, RowsTyped
  <1>6. event \subseteq event' /\ event' \subseteq event \cup {a}
    BY DEF EnsureEvent, CompleteClaim, Replay
  <1>7. \/ served' = served
        \/ /\ a \in event'
           /\ served' = served \cup
                 {[payload |-> inv[i].payload, audit |-> a, claimed |-> TRUE]}
    BY DEF EnsureEvent, CompleteClaim, Replay, Answer, CarriedIsOwn
  <1>8. slot' \in SlotType /\ slot'.payload = slot.payload
    <2>1. CASE slot' = slot
      BY <1>1, <2>1
    <2>2. CASE CompleteClaim(i) /\ Holds(i)
               /\ slot' = [slot EXCEPT !.state = "completed", !.token = Nobody, !.audit = a]
      <3>1. slot \in Processing
        BY <1>1, <2>2 DEF Holds, SlotType, NoSlot, Processing, Completed
      <3>2. a \in Audit
        BY <1>1, <1>3, GateAssumption DEF StateTyped, RowsTyped, Audit
      <3> QED BY <2>2, <3>1, <3>2 DEF SlotType, Processing, Completed
    <2> QED BY <2>1, <2>2 DEF EnsureEvent, CompleteClaim, Replay
  <1>9. /\ inv' \in [Invocation -> Place(audits')]
        /\ \/ inv'[i] = Idle
           \/ inv'[i] = [pc |-> "completing", payload |-> inv[i].payload, audit |-> a]
              /\ a \in event'
        /\ \A j \in Invocation \ {i} : inv'[j] = inv[j]
    <2>1. CASE Stop(i)
      BY <1>4, <2>1, Stopping
    <2>2. CASE EnsureEvent(i)
      <3>1. Goto(i, "completing", a) /\ a \in event' /\ a \in 1..audits'
        BY <1>3, <1>4, <2>2 DEF EnsureEvent
      <3> QED BY <1>2, <1>5, <3>1, Going
    <2> QED BY <2>1, <2>2 DEF CompleteClaim, Replay
  <1>10. StateTyped'
    <2>1. served' \subseteq [payload : Payload, audit : 1..audits', claimed : BOOLEAN]
      BY <1>3, <1>4, <1>7, Answering
    <2>2. ClockTyped'
      BY <1>1, <1>4 DEF StateTyped, ClockTyped
    <2>3. RowsTyped'
      BY <1>1, <1>3, <1>4, <1>6, <2>1 DEF StateTyped, RowsTyped
    <2> QED BY <2>2, <2>3 DEF StateTyped
  <1>11. TypeOK'
    BY <1>8, <1>9, <1>10, TypePartsNext
  <1>12. WindowIsOwn'
    BY <1>4, <1>8 DEF WindowIsOwn, Answers
  <1>13. CarriedIsOwn'
    BY <1>2, <1>4, <1>6, <1>9 DEF CarriedIsOwn, Answers, At, Idle
  <1>14. AnswerIsBacked'
    BY <1>2, <1>4, <1>6, <1>7 DEF AnswerIsBacked, Answers
  <1> QED BY <1>11, <1>12, <1>13, <1>14

(* Time only takes away.                                                   *)
LEMMA TimeStep ==
    ASSUME IInv, LeaseLapses \/ SlotExpires \/ AuditAges
    PROVE  IInv'
  <1> USE DEF IInv, auditVars, clockVars
  <1>1. StateTyped /\ slot \in SlotType /\ inv \in [Invocation -> Place(audits)]
    BY TypeParts
  <1>2. UNCHANGED <<slot, audits, payload, unheld, window, event, inv, served>>
    BY DEF LeaseLapses, SlotExpires, AuditAges
  <1>3. StateTyped'
    <2>1. ClockTyped'
      BY <1>1 DEF LeaseLapses, SlotExpires, AuditAges, StateTyped, ClockTyped
    <2>2. faults' \in 0..MaxFaults
      BY <1>1, GateAssumption
         DEF LeaseLapses, SlotExpires, AuditAges, Fault, StateTyped, RowsTyped
    <2>3. recent' \subseteq recent
      BY DEF LeaseLapses, SlotExpires, AuditAges
    <2>4. RowsTyped'
      BY <1>1, <1>2, <2>2, <2>3 DEF StateTyped, RowsTyped
    <2> QED BY <2>1, <2>4 DEF StateTyped
  <1>4. TypeOK'
    BY <1>1, <1>2, <1>3, TypePartsNext
  <1>5. WindowIsOwn' /\ CarriedIsOwn' /\ AnswerIsBacked'
    BY <1>2 DEF WindowIsOwn, CarriedIsOwn, AnswerIsBacked, Answers, At
  <1> QED BY <1>4, <1>5

(* The invariant is inductive.                                             *)
LEMMA NextIInv == IInv /\ [Next]_gvars => IInv'
  <1> SUFFICES ASSUME IInv, [Next]_gvars PROVE IInv'
    OBVIOUS
  <1>1. CASE UNCHANGED gvars
    BY <1>1 DEF gvars, IInv, TypeOK, WindowIsOwn, CarriedIsOwn, AnswerIsBacked, Answers, At
  <1>2. CASE Next
    BY <1>2, ClaimStep, NoClientStep, AuditStep, EndStep, AnswerStep, TimeStep
       DEF Next, Proceed
  <1> QED BY <1>1, <1>2

(* It holds in every behaviour.                                            *)
THEOREM Invariance == Spec => []IInv
  BY InitIInv, NextIInv, PTL DEF Spec

(***************************************************************************)
(* The theorems.                                                           *)
(***************************************************************************)

\* Rows keep the shape the table's check demands, whoever completes, releases
\* or takes over the slot.
THEOREM TypeCorrect == Spec => []TypeOK
  BY Invariance, PTL DEF IInv

\* A 200 of an invocation that held a claim has its signed event in the outbox,
\* and every 200 was evaluated from the payload it answers, unless the audit's
\* writer did not hold the slot: it had outlived its claim, or found no client.
THEOREM BackedAnswers == Spec => []AnswerIsBacked
  BY Invariance, PTL DEF IInv
=============================================================================
