-------------------------- MODULE PaidQueryProofs --------------------------
(***************************************************************************)
(* That the paid route charges a payment once, keeps what it charged locked*)
(* and implements PaidDelivery, for every number of payments, invocations, *)
(* references and faults.                                                  *)
(*                                                                         *)
(* The steps that move no funds are summarised by five relations (Moves,   *)
(* Posts, Firm, Projects and the unchanged charges), which are what the    *)
(* invariant depends on; each action is shown to satisfy them.  The four   *)
(* steps that move funds are treated one by one.                           *)
(***************************************************************************)
EXTENDS PaidQueryInv, SumLemmas, TLAPS

PastSettle(i) == inv[i].ref # NoReference \/ inv[i].manual

RunOK(run) ==
    /\ run.pc \in Unsettled => run.ref = NoReference /\ ~run.manual
    /\ run.pc = "complete" => run.ref \in Reference
    /\ run.pc \in Quitting /\ run.ref # NoReference => run.manual

Gone == {"usage", "review", "done"}

\* The run of i alone moves, and keeps its payment and what it settled.
Moves(i) ==
    /\ inv' \in [Invocation -> Run]
    /\ \A j \in Invocation \ {i} : inv'[j] = inv[j]
    /\ inv'[i].pay = inv[i].pay /\ inv'[i].ref = inv[i].ref
    /\ inv[i].manual => inv'[i].manual
    /\ RunOK(inv'[i])
    /\ inv[i].pc \in Gone => inv'[i].pc \in Gone
    /\ Armed(i)' => Armed(i) \/ (inv[i].pc = "prepare" /\ Prepare(i, inv[i].pay))
    /\ inv'[i].pc \in {"finalize", "publish"} \/ inv'[i].paid => state'[inv[i].pay] = "delivered"

LateOK(m) ==
    /\ m.op = "release" =>
        /\ inv[m.from].pc \in Gone
        /\ inv[m.from].ref # NoReference => inv[m.from].manual
    /\ m.op = "complete" => inv[m.from].ref \in Reference
    /\ m.op \in {"finalize", "auditDelivered"} => state[inv[m.from].pay] = "delivered"

\* Requests become late that are what their caller would have them be.
Posts(i) ==
    /\ late' \in SUBSET [op : Op, from : Invocation]
    /\ \A m \in late' \ late : m.from = i /\ LateOK(m)'
    /\ faults' \in 0..MaxFaults

\* A request on behalf of i keeps what is closed, keeps the claims of others
\* or sends them to review, and delivers only what i has a reference for.
Firm(i) ==
    \A q \in Payment :
        /\ state[q] \in {"delivered", "manual_review"} => state'[q] = state[q]
        /\ state[q] = "prepared" =>
            \/ state'[q] = "manual_review"
            \/ state'[q] = "prepared" /\ token'[q] = token[q]
            \/ state'[q] = "delivered" /\ token[q] = i /\ inv[i].ref \in Reference
            \/ state'[q] = "failed" /\ token[q] = i /\ ~PastSettle(i) /\ ~Armed(i)
        /\ state'[q] = "delivered" =>
            /\ state[q] = "delivered" \/ (q = inv[i].pay /\ inv[i].ref \in Reference)
            /\ stored'[q] /\ reference'[q] \in Reference /\ usedBy'[reference'[q]] = {q}

\* Only a delivered payment is newly reported as one.
Projects ==
    \A q \in Payment :
        /\ usage'[q] = "finalized" => usage[q] = "finalized" \/ state[q] = "delivered"
        /\ audit'[q] = "delivered" => audit[q] = "delivered" \/ state[q] = "delivered"

Sound(i) == Firm(i) /\ Projects /\ LedgerTypeOK'

(***************************************************************************)
(* The invariant is preserved by every step of that kind.                  *)
(***************************************************************************)

(* Steps that move no funds keep the invariant if they move on, post and   *)
(* write as described above.                                               *)
LEMMA QuietStep ==
    ASSUME IInv, NEW i \in Invocation, Moves(i), Posts(i), Sound(i),
           UNCHANGED chargeVars
    PROVE  IInv'
  <1> USE DEF Sound
  <1>1. TypeOK'
    BY DEF IInv, TypeOK, Moves, Posts, chargeVars
  <1>2. RunInv'
    BY DEF IInv, RunInv, Moves, RunOK
  <1>3. \A q \in Payment : Charged(q)' = Charged(q)
    BY DEF Charged, chargeVars
  <1>4. LateInv'
    <2> SUFFICES ASSUME NEW m \in late' PROVE LateOK(m)'
      BY DEF LateInv, LateOK, Gone
    <2>1. CASE m \notin late
      BY <2>1 DEF Posts
    <2>2. CASE m \in late
      <3>1. LateOK(m) /\ m.from \in Invocation /\ inv[m.from].pay \in Payment
        BY <2>2 DEF IInv, TypeOK, Run, LateInv, LateOK, Gone
      <3>2. /\ inv'[m.from].pay = inv[m.from].pay /\ inv'[m.from].ref = inv[m.from].ref
            /\ inv[m.from].manual => inv'[m.from].manual
            /\ inv[m.from].pc \in Gone => inv'[m.from].pc \in Gone
        BY <3>1 DEF Moves
      <3> QED BY <3>1, <3>2 DEF LateOK, Firm
    <2> QED BY <2>1, <2>2
  <1>5. ArmedInv'
    <2> SUFFICES ASSUME NEW j \in Invocation, Armed(j)'
                 PROVE  LET p == inv'[j].pay IN
                        /\ charges[p] = 0 /\ p \notin pending
                        /\ state'[p] = "manual_review" \/ (state'[p] = "prepared" /\ token'[p] = j)
                        /\ \A k \in Invocation : Armed(k)' /\ inv'[k].pay = p => k = j
      BY DEF ArmedInv, chargeVars
    <2> DEFINE p == inv[j].pay
    <2>1. \A k \in Invocation : inv'[k].pay = inv[k].pay /\ inv[k].pay \in Payment
      BY DEF IInv, TypeOK, Run, Moves
    <2>2. \A k \in Invocation : k # i => (Armed(k)' <=> Armed(k))
      BY DEF Moves, Armed
    <2>3. \A k \in Invocation : Armed(k) =>
            /\ charges[inv[k].pay] = 0 /\ inv[k].pay \notin pending
            /\ state'[inv[k].pay] = "manual_review"
               \/ (state'[inv[k].pay] = "prepared" /\ token'[inv[k].pay] = k)
            /\ ~PastSettle(k)
      <3> SUFFICES ASSUME NEW k \in Invocation, Armed(k)
                   PROVE  /\ charges[inv[k].pay] = 0 /\ inv[k].pay \notin pending
                          /\ state'[inv[k].pay] = "manual_review"
                             \/ (state'[inv[k].pay] = "prepared" /\ token'[inv[k].pay] = k)
                          /\ ~PastSettle(k)
        OBVIOUS
      <3>1. ~PastSettle(k) /\ inv[k].ref = NoReference /\ inv[k].ref \notin Reference
        BY LedgerAssumption DEF IInv, RunInv, Unsettled, Armed, PastSettle
      <3>2. /\ charges[inv[k].pay] = 0 /\ inv[k].pay \notin pending
            /\ state[inv[k].pay] = "manual_review"
               \/ (state[inv[k].pay] = "prepared" /\ token[inv[k].pay] = k)
        BY DEF IInv, ArmedInv
      <3> QED BY <2>1, <3>1, <3>2 DEF Firm
    <2>4. CASE Armed(i)' /\ ~Armed(i)
      <3> DEFINE o == inv[i].pay
      <3>1. inv[i].pc = "prepare" /\ Prepare(i, o)
        BY <2>4 DEF Moves
      <3>2. o \in Payment /\ ~PastSettle(i)
        BY <2>1, <3>1 DEF IInv, RunInv, Unsettled, PastSettle
      <3>3. token[o] = i /\ state[o] \in {"processing", "prepared"}
        BY <3>1 DEF Prepare, Holds
      <3>4. state'[o] = "prepared" /\ token'[o] = i
        BY <3>1, <3>2, <3>3 DEF Prepare, IInv, TypeOK, LedgerTypeOK
      <3>5. charges[o] = 0 /\ o \notin pending
        BY <3>2, <3>3 DEF IInv, TypeOK, ChargedIsLocked, PastSettle
      <3>6. \A k \in Invocation : Armed(k) => inv[k].pay # o
        BY <2>4, <3>3 DEF IInv, ArmedInv
      <3> QED BY <2>1, <2>2, <2>3, <3>4, <3>5, <3>6 DEF IInv, ArmedInv
    <2>5. CASE Armed(i)' => Armed(i)
      <3>1. \A k \in Invocation : Armed(k)' => Armed(k)
        BY <2>2, <2>5
      <3> QED BY <2>1, <2>3, <3>1 DEF IInv, ArmedInv
    <2> QED BY <2>4, <2>5
  <1>6. ReferenceInv'
    BY <1>3 DEF IInv, TypeOK, Run, ReferenceInv, Moves
  <1>7. ChargedOnce'
    BY <1>3 DEF IInv, ChargedOnce, chargeVars
  <1>8. ChargedIsLocked'
    <2> SUFFICES ASSUME NEW p \in Payment, charges[p] > 0 \/ p \in pending
                 PROVE  \/ state'[p] \in {"delivered", "manual_review"}
                        \/ /\ state'[p] = "prepared" /\ token'[p] \in Invocation
                           /\ inv'[token'[p]].pay = p
                           /\ inv'[token'[p]].ref # NoReference \/ inv'[token'[p]].manual
      BY DEF ChargedIsLocked, chargeVars
    <2>1. \/ state[p] \in {"delivered", "manual_review"}
          \/ /\ state[p] = "prepared" /\ token[p] \in Invocation
             /\ inv[token[p]].pay = p /\ PastSettle(token[p])
      BY DEF IInv, ChargedIsLocked, PastSettle
    <2>2. \A k \in Invocation : inv'[k].pay = inv[k].pay /\ (PastSettle(k) => PastSettle(k)')
      BY DEF Moves, PastSettle
    <2>3. CASE state[p] = "prepared"
      <3> DEFINE k == token[p]
      <3>1. k \in Invocation /\ inv[k].pay = p /\ PastSettle(k)
        BY <2>1, <2>3
      <3>2. \/ state'[p] \in {"manual_review", "delivered"}
            \/ state'[p] = "prepared" /\ token'[p] = k
        BY <2>3, <3>1 DEF Firm
      <3> QED BY <2>2, <3>1, <3>2 DEF PastSettle
    <2> QED BY <2>1, <2>3 DEF Firm
  <1>9. DeliveredInv'
    <2>1. ASSUME NEW p \in Payment, state'[p] = "delivered"
          PROVE  /\ Charged(p)' = 1 /\ stored'[p]
                 /\ reference'[p] \in Reference /\ usedBy'[reference'[p]] = {p}
      BY <1>3, <2>1, LedgerAssumption DEF IInv, DeliveredInv, ReferenceInv, Firm
    <2>2. ASSUME NEW j \in Invocation, inv'[j].pc \in {"finalize", "publish"} \/ inv'[j].paid
          PROVE  state'[inv'[j].pay] = "delivered"
      <3>1. CASE j = i
        BY <2>2, <3>1 DEF Moves
      <3>2. CASE j # i
        <4>1. inv'[j] = inv[j] /\ inv[j].pay \in Payment
          BY <3>2 DEF Moves, IInv, TypeOK, Run
        <4> QED BY <2>2, <4>1 DEF IInv, DeliveredInv, Firm
      <3> QED BY <3>1, <3>2
    <2> QED BY <2>1, <2>2 DEF DeliveredInv
  <1>10. ProjectionsFollowLedger'
    BY DEF IInv, ProjectionsFollowLedger, Projects, Firm
  <1> QED BY <1>1, <1>2, <1>4, <1>5, <1>6, <1>7, <1>8, <1>9, <1>10 DEF IInv

(***************************************************************************)
(* Every request of an invocation is sound.                                *)
(***************************************************************************)

\* What is not a record keeps the records.
LEMMA SameRecords ==
    ASSUME IInv, NEW i \in Invocation, UNCHANGED recordVars
    PROVE  Firm(i)
  BY DEF IInv, DeliveredInv, Firm, recordVars

(* What changes no record is sound.                                        *)
LEMMA NothingIsSound ==
    ASSUME IInv, NEW i \in Invocation, NoChange
    PROVE  Sound(i)
  <1>1. Firm(i)
    BY SameRecords DEF NoChange, ledgerVars
  <1> QED BY <1>1 DEF IInv, TypeOK, LedgerTypeOK, Sound, Projects,
                      NoChange, ledgerVars, recordVars, usageVars

(* So is a request about the record by an invocation that may make it.     *)
LEMMA RecordRequestIsSound ==
    ASSUME IInv, NEW i \in Invocation,
           \/ Grant(i, inv[i].pay) \/ Expire(inv[i].pay) \/ Prepare(i, inv[i].pay)
           \/ Complete(i, inv[i].pay, inv[i].ref) /\ inv[i].ref \in Reference
           \/ Release(i, inv[i].pay, inv[i].manual) /\ ~Armed(i) /\ (PastSettle(i) => inv[i].manual)
    PROVE  Sound(i)
  <1> DEFINE p == inv[i].pay
  <1>1. p \in Payment /\ inv[i].manual \in BOOLEAN
    BY DEF IInv, TypeOK, Run
  <1>2. Projects
    BY DEF Projects, Grant, Expire, Prepare, Complete, Release, usageVars
  <1>3. CASE Grant(i, p)
    <2>1. LedgerTypeOK'
      BY <1>1, <1>3 DEF IInv, TypeOK, LedgerTypeOK, State, Grant, usageVars
    <2>2. Firm(i)
      BY <1>1, <1>3 DEF IInv, TypeOK, LedgerTypeOK, DeliveredInv, Firm,
                        Grant, Grantable, Reclaimable
    <2> QED BY <1>2, <2>1, <2>2 DEF Sound
  <1>4. CASE Expire(p)
    <2>1. LedgerTypeOK'
      BY <1>1, <1>4 DEF IInv, TypeOK, LedgerTypeOK, State, Expire, usageVars
    <2>2. Firm(i)
      BY <1>1, <1>4 DEF IInv, TypeOK, LedgerTypeOK, DeliveredInv, Firm, Expire, Overdue
    <2> QED BY <1>2, <2>1, <2>2 DEF Sound
  <1>5. CASE Prepare(i, p)
    <2>1. LedgerTypeOK'
      BY <1>1, <1>5 DEF IInv, TypeOK, LedgerTypeOK, State, Prepare, usageVars
    <2>2. Firm(i)
      BY <1>1, <1>5 DEF IInv, TypeOK, LedgerTypeOK, DeliveredInv, Firm, Prepare, Holds
    <2> QED BY <1>2, <2>1, <2>2 DEF Sound
  <1>6. CASE Complete(i, p, inv[i].ref) /\ inv[i].ref \in Reference
    <2>1. LedgerTypeOK'
      BY <1>1, <1>6 DEF IInv, TypeOK, LedgerTypeOK, State, Complete, usageVars
    <2>2. Firm(i)
      BY <1>1, <1>6 DEF IInv, TypeOK, LedgerTypeOK, DeliveredInv, Firm, Complete, Completes
    <2> QED BY <1>2, <2>1, <2>2 DEF Sound
  <1>7. CASE Release(i, p, inv[i].manual) /\ ~Armed(i) /\ (PastSettle(i) => inv[i].manual)
    <2>1. LedgerTypeOK'
      BY <1>1, <1>7 DEF IInv, TypeOK, LedgerTypeOK, State, Release, usageVars
    <2>2. Firm(i)
      BY <1>1, <1>7 DEF IInv, TypeOK, LedgerTypeOK, DeliveredInv, Firm, Release, Holds
    <2> QED BY <1>2, <2>1, <2>2 DEF Sound
  <1> QED BY <1>3, <1>4, <1>5, <1>6, <1>7

(* And a request about usage or the audit.                                 *)
LEMMA OtherRequestIsSound ==
    ASSUME IInv, NEW i \in Invocation,
           \/ Reserve(inv[i].pay) \/ UnreserveEffect(i)
           \/ Finalize(inv[i].pay) /\ state[inv[i].pay] = "delivered"
           \/ \E s \in Audit : /\ AuditUpsert(inv[i].pay, s)
                               /\ s = "delivered" => state[inv[i].pay] = "delivered"
    PROVE  Sound(i)
  <1> DEFINE p == inv[i].pay  y == Payer[p]
  <1>1. p \in Payment /\ y \in PayerOf /\ Price[p] \in Nat
    BY LedgerAssumption DEF IInv, TypeOK, Run, PayerOf
  <1>2. UNCHANGED recordVars
    BY DEF Reserve, UnreserveEffect, ReviewUsage, ReleaseUsage, Finalize, AuditUpsert
  <1>3. Firm(i)
    BY <1>2, SameRecords
  <1>4. Projects
    BY <1>1 DEF IInv, TypeOK, LedgerTypeOK, Projects, usageVars, Reserve, UnreserveEffect,
                ReviewUsage, ReleaseUsage, Finalize, AuditUpsert
  <1>5. counter' \in [PayerOf -> [amount : Nat, requests : Nat]]
    <2>1. CASE counter' = counter
      BY <2>1 DEF IInv, TypeOK, LedgerTypeOK
    <2> DEFINE c == counter[y]
    <2>2. c \in [amount : Nat, requests : Nat] /\ c.amount \in Nat /\ c.requests \in Nat
      BY <1>1 DEF IInv, TypeOK, LedgerTypeOK
    <2>3. CASE Reserve(p)
      BY <1>1, <2>2, <2>3 DEF IInv, TypeOK, LedgerTypeOK, Reserve
    <2>4. CASE ReleaseUsage(p)
      <3>1. c.amount - Price[p] \in Nat /\ c.requests - 1 \in Nat
        BY <1>1, <2>2, <2>4 DEF ReleaseUsage
      <3> QED BY <1>1, <2>2, <2>4, <3>1 DEF IInv, TypeOK, LedgerTypeOK, ReleaseUsage
    <2> QED BY <2>1, <2>3, <2>4 DEF UnreserveEffect, ReviewUsage, Finalize, AuditUpsert, usageVars
  <1>6. usage' \in [Payment -> Usage] /\ audit' \in [Payment -> Audit]
    BY <1>1 DEF IInv, TypeOK, LedgerTypeOK, Usage, usageVars, Reserve, UnreserveEffect,
                ReviewUsage, ReleaseUsage, Finalize, AuditUpsert
  <1>7. LedgerTypeOK'
    BY <1>2, <1>5, <1>6 DEF IInv, TypeOK, LedgerTypeOK, recordVars
  <1> QED BY <1>3, <1>4, <1>7 DEF Sound

(***************************************************************************)
(* How a run moves on, serves or gives up.                                 *)
(***************************************************************************)

(* An invocation that moves on with a sound place.                         *)
LEMMA BecomeMoves ==
    ASSUME IInv, NEW i \in Invocation, NEW run \in Run, Become(i, run), Firm(i),
           run.pay = inv[i].pay, run.ref = inv[i].ref, inv[i].manual => run.manual,
           RunOK(run), inv[i].pc \in Gone => run.pc \in Gone,
           run.pc \in {"audit", "settle"} =>
               Armed(i) \/ (inv[i].pc = "prepare" /\ Prepare(i, inv[i].pay)),
           run.pc \in {"finalize", "publish"} \/ (run.paid /\ ~inv[i].paid) =>
               state'[inv[i].pay] = "delivered"
    PROVE  Moves(i) /\ inv'[i] = run
  <1>1. inv' \in [Invocation -> Run] /\ inv'[i] = run
            /\ \A j \in Invocation \ {i} : inv'[j] = inv[j]
    BY DEF IInv, TypeOK, Become
  <1>2. inv[i].paid => state'[inv[i].pay] = "delivered"
    BY DEF IInv, TypeOK, Run, DeliveredInv, Firm
  <1> QED BY <1>1, <1>2 DEF Moves, Armed

(* An invocation that only changes its stage.                              *)
LEMMA GotoMoves ==
    ASSUME IInv, NEW i \in Invocation, NEW s \in Stage \ {"complete"}, Goto(i, s), Firm(i),
           s \in Unsettled => inv[i].pc \in Unsettled,
           s \in Quitting => inv[i].pc \in Quitting,
           inv[i].pc \in Gone => s \in Gone,
           s \in {"audit", "settle"} =>
               Armed(i) \/ (inv[i].pc = "prepare" /\ Prepare(i, inv[i].pay)),
           s \in {"finalize", "publish"} => state'[inv[i].pay] = "delivered"
    PROVE  Moves(i) /\ inv'[i] = [inv[i] EXCEPT !.pc = s]
  <1> DEFINE run == [inv[i] EXCEPT !.pc = s]
  <1>1. /\ run \in Run /\ run.pc = s /\ run.pay = inv[i].pay /\ run.ref = inv[i].ref
        /\ run.manual = inv[i].manual /\ run.paid = inv[i].paid
    BY DEF IInv, TypeOK, Run
  <1>2. RunOK(run)
    BY <1>1 DEF IInv, RunInv, RunOK
  <1>3. Become(i, run)
    BY DEF Goto
  <1> HIDE DEF run
  <1>4. /\ inv[i].manual => run.manual
        /\ inv[i].pc \in Gone => run.pc \in Gone
        /\ run.pc \in {"audit", "settle"} =>
               Armed(i) \/ (inv[i].pc = "prepare" /\ Prepare(i, inv[i].pay))
        /\ run.pc \in {"finalize", "publish"} \/ (run.paid /\ ~inv[i].paid) =>
               state'[inv[i].pay] = "delivered"
    BY <1>1
  <1>5. Moves(i) /\ inv'[i] = run
    BY <1>1, <1>2, <1>3, <1>4, BecomeMoves
  <1> QED BY <1>5 DEF run

(* An invocation that serves the stored answer.                            *)
LEMMA ServeMoves ==
    ASSUME IInv, NEW i \in Invocation, Serve(i), Firm(i), state'[inv[i].pay] = "delivered"
    PROVE  Moves(i) /\ inv'[i] = [inv[i] EXCEPT !.pc = "done", !.paid = TRUE]
  <1> DEFINE run == [inv[i] EXCEPT !.pc = "done", !.paid = TRUE]
  <1>1. /\ run \in Run /\ run.pc = "done" /\ run.pay = inv[i].pay /\ run.ref = inv[i].ref
        /\ run.manual = inv[i].manual
    BY DEF IInv, TypeOK, Run, Stage
  <1>2. RunOK(run)
    BY <1>1 DEF RunOK, Unsettled, Quitting
  <1>3. run.pc \in Gone /\ run.pc \notin {"audit", "settle"}
    BY <1>1 DEF Gone
  <1>4. Become(i, run)
    BY DEF Serve
  <1> HIDE DEF run
  <1>5. Moves(i) /\ inv'[i] = run
    BY <1>1, <1>2, <1>3, <1>4, BecomeMoves
  <1> QED BY <1>5 DEF run

(* An invocation that gives up before it has settled, or for review.       *)
LEMMA GiveUpMoves ==
    ASSUME IInv, NEW i \in Invocation, NEW b \in BOOLEAN, GiveUp(i, b), Firm(i),
           inv[i].pc \notin Gone, inv[i].pc \in Unsettled \/ b
    PROVE  Moves(i) /\ inv'[i] = [inv[i] EXCEPT !.pc = "release", !.manual = b]
  <1> DEFINE run == [inv[i] EXCEPT !.pc = "release", !.manual = b]
  <1>1. /\ run \in Run /\ run.pc = "release" /\ run.pay = inv[i].pay /\ run.ref = inv[i].ref
        /\ run.manual = b /\ run.paid = inv[i].paid
    BY DEF IInv, TypeOK, Run, Stage
  <1>2. RunOK(run) /\ (inv[i].manual => run.manual)
    BY <1>1 DEF RunOK, Unsettled, Quitting, IInv, RunInv
  <1>3. Become(i, run)
    BY DEF GiveUp
  <1>4. run.pc \notin Gone /\ run.pc \notin {"audit", "settle", "finalize", "publish"}
    BY <1>1 DEF Gone
  <1> HIDE DEF run
  <1>5. Moves(i) /\ inv'[i] = run
    BY <1>1, <1>2, <1>3, <1>4, BecomeMoves
  <1> QED BY <1>5 DEF run

(* A request answered in time leaves nothing under way.                    *)
LEMMA AnsweredPosts ==
    ASSUME IInv, NEW i \in Invocation, UNCHANGED <<late, faults>>
    PROVE  Posts(i)
  BY DEF IInv, TypeOK, Posts

(* A request that timed out may be applied later, and is of those that     *)
(* may.                                                                    *)
LEMMA TimesOutPosts ==
    ASSUME IInv, NEW i \in Invocation, NEW op \in Op, TimesOut(i, op),
           LateOK([op |-> op, from |-> i])'
    PROVE  Posts(i) /\ Sound(i) /\ UNCHANGED chargeVars
  <1>1. faults' \in 0..MaxFaults
    BY FaultAssumption DEF IInv, TypeOK, TimesOut, Fault
  <1>2. late' \in SUBSET [op : Op, from : Invocation]
    BY DEF IInv, TypeOK, TimesOut
  <1>3. Sound(i) /\ UNCHANGED chargeVars
    BY NothingIsSound DEF TimesOut
  <1> QED BY <1>1, <1>2, <1>3 DEF Posts, TimesOut

(***************************************************************************)
(* The steps of the route that are answered and move no funds.             *)
(***************************************************************************)

(* Before the settlement no funds move.                                    *)
LEMMA UnsettledStep ==
    ASSUME IInv, NEW i \in Invocation,
           \/ Present(i) \/ Claim(i) \/ Verify(i) \/ ReserveUsage(i) \/ Recheck(i)
           \/ PrepareDelivery(i) \/ AuditPrepared(i)
    PROVE  IInv'
  <1> DEFINE p == inv[i].pay
  <1>1. Posts(i) /\ UNCHANGED chargeVars
    BY AnsweredPosts DEF Answered, Present, Claim, Verify, ReserveUsage, Recheck,
                         PrepareDelivery, AuditPrepared
  <1>2. inv[i].pc \in Unsettled /\ inv[i].pc \notin Gone /\ p \in Payment
    BY DEF IInv, TypeOK, Run, Unsettled, Gone, At, Present, Claim, Verify, ReserveUsage,
           Recheck, PrepareDelivery, AuditPrepared
  <1>3. CASE Present(i)
    <2>1. Sound(i)
      BY <1>3, NothingIsSound DEF Present
    <2>2. ASSUME Replayable(p), Serve(i) PROVE Moves(i)
      BY <2>1, <2>2, <1>2, <1>3, ServeMoves DEF Sound, Firm, Replayable
    <2>3. ASSUME Goto(i, "claim") PROVE Moves(i)
      BY <2>1, <2>3, <1>2, GotoMoves DEF Sound, Stage, Unsettled, Quitting
    <2>4. Moves(i)
      BY <1>3, <2>2, <2>3 DEF Present
    <2> QED BY <1>1, <2>1, <2>4, QuietStep
  <1>4. CASE Claim(i)
    <2>1. CASE Grant(i, p) /\ Goto(i, "verify")
      <3>1. Sound(i)
        BY <2>1, RecordRequestIsSound
      <3>2. Moves(i)
        BY <2>1, <3>1, <1>2, GotoMoves DEF Sound, Stage, Unsettled, Quitting
      <3> QED BY <1>1, <3>1, <3>2, QuietStep
    <2>2. CASE (Expire(p) \/ NoChange) /\ Goto(i, "done")
      <3>1. Sound(i)
        BY <2>2, RecordRequestIsSound, NothingIsSound
      <3>2. Moves(i)
        BY <2>2, <3>1, <1>2, GotoMoves DEF Sound, Stage, Unsettled, Quitting, Gone
      <3> QED BY <1>1, <3>1, <3>2, QuietStep
    <2>3. CASE Replayable(p) /\ Serve(i) /\ NoChange
      <3>1. Sound(i)
        BY <2>3, NothingIsSound
      <3>2. Moves(i)
        BY <2>3, <3>1, <1>2, ServeMoves DEF Sound, Firm, Replayable
      <3> QED BY <1>1, <3>1, <3>2, QuietStep
    <2> QED BY <1>4, <2>1, <2>2, <2>3 DEF Claim
  <1>5. CASE Verify(i) \/ Recheck(i)
    <2>1. Sound(i)
      BY <1>5, NothingIsSound DEF Verify, Recheck
    <2>2. PICK s \in {"reserve", "prepare"} : Goto(i, s) \/ GiveUp(i, FALSE)
      BY <1>5 DEF Verify, Recheck
    <2>3. Moves(i)
      BY <2>1, <2>2, <1>2, GotoMoves, GiveUpMoves DEF Sound, Stage, Unsettled, Quitting
    <2> QED BY <1>1, <2>1, <2>3, QuietStep
  <1>6. CASE ReserveUsage(i)
    <2> DEFINE run == [inv[i] EXCEPT !.pc = "recheck", !.enforced = TRUE]
    <2>1. Sound(i)
      BY <1>6, NothingIsSound, OtherRequestIsSound DEF ReserveUsage
    <2>2. ASSUME Become(i, run) PROVE Moves(i)
      <3>1. /\ run \in Run /\ run.pc = "recheck" /\ run.pay = p /\ run.ref = inv[i].ref
            /\ run.manual = inv[i].manual /\ run.paid = inv[i].paid
        BY DEF IInv, TypeOK, Run, Stage
      <3>2. RunOK(run)
        BY <1>2, <3>1 DEF IInv, RunInv, RunOK, Quitting
      <3> QED BY <1>2, <2>1, <2>2, <3>1, <3>2, BecomeMoves DEF Sound
    <2>3. ASSUME GiveUp(i, FALSE) PROVE Moves(i)
      BY <2>1, <2>3, <1>2, GiveUpMoves DEF Sound
    <2>4. Moves(i)
      BY <1>6, <2>2, <2>3 DEF ReserveUsage
    <2> QED BY <1>1, <2>1, <2>4, QuietStep
  <1>7. CASE PrepareDelivery(i)
    <2>1. CASE Prepare(i, p) /\ Goto(i, "audit")
      <3>1. Sound(i)
        BY <2>1, RecordRequestIsSound
      <3>2. Moves(i)
        BY <1>7, <2>1, <3>1, <1>2, GotoMoves
           DEF Sound, Stage, Unsettled, Quitting, PrepareDelivery, At
      <3> QED BY <1>1, <3>1, <3>2, QuietStep
    <2>2. CASE NoChange /\ GiveUp(i, FALSE)
      <3>1. Sound(i)
        BY <2>2, NothingIsSound
      <3>2. Moves(i)
        BY <2>2, <3>1, <1>2, GiveUpMoves DEF Sound
      <3> QED BY <1>1, <3>1, <3>2, QuietStep
    <2> QED BY <1>7, <2>1, <2>2 DEF PrepareDelivery
  <1>8. CASE AuditPrepared(i)
    <2>1. Sound(i)
      BY <1>8, OtherRequestIsSound DEF AuditPrepared, Audit
    <2>2. ASSUME Goto(i, "settle") PROVE Moves(i)
      BY <1>8, <2>1, <2>2, <1>2, GotoMoves
         DEF Sound, Stage, Unsettled, Quitting, AuditPrepared, At, Armed
    <2>3. ASSUME GiveUp(i, FALSE) PROVE Moves(i)
      BY <2>1, <2>3, <1>2, GiveUpMoves DEF Sound
    <2>4. Moves(i)
      BY <1>8, <2>2, <2>3 DEF AuditPrepared
    <2> QED BY <1>1, <2>1, <2>4, QuietStep
  <1> QED BY <1>3, <1>4, <1>5, <1>6, <1>7, <1>8

(* Nor after it, when the record is completed and counted.                 *)
LEMMA SettledStep ==
    ASSUME IInv, NEW i \in Invocation, CompleteDelivery(i) \/ FinalizeUsage(i)
    PROVE  IInv'
  <1> DEFINE p == inv[i].pay
  <1>1. Posts(i) /\ UNCHANGED chargeVars
    BY AnsweredPosts DEF Answered, CompleteDelivery, FinalizeUsage
  <1>2. inv[i].pc \in {"complete", "finalize"} /\ inv[i].pc \notin Gone /\ p \in Payment
    BY DEF IInv, TypeOK, Run, Gone, At, CompleteDelivery, FinalizeUsage
  <1>3. CASE Complete(i, p, inv[i].ref) /\ At(i, "complete") /\ Goto(i, "finalize")
    <2>1. inv[i].ref \in Reference
      BY <1>3 DEF IInv, RunInv, At
    <2>2. Sound(i)
      BY <1>3, <2>1, RecordRequestIsSound
    <2>3. state'[p] = "delivered"
      BY <1>2, <1>3 DEF Complete, IInv, TypeOK, LedgerTypeOK
    <2>4. Moves(i)
      BY <1>2, <1>3, <2>2, <2>3, GotoMoves DEF Sound, Stage, Unsettled, Quitting
    <2> QED BY <1>1, <2>2, <2>4, QuietStep
  <1>4. CASE Finalize(p) /\ At(i, "finalize") /\ Goto(i, "publish")
    <2>1. state[p] = "delivered"
      BY <1>4 DEF IInv, DeliveredInv, At
    <2>2. Sound(i)
      BY <1>4, <2>1, OtherRequestIsSound
    <2>3. state'[p] = "delivered"
      BY <1>2, <2>1, <2>2 DEF Sound, Firm
    <2>4. Moves(i)
      BY <1>2, <1>4, <2>2, <2>3, GotoMoves DEF Sound, Stage, Unsettled, Quitting
    <2> QED BY <1>1, <2>2, <2>4, QuietStep
  <1>5. CASE NoChange /\ GiveUp(i, TRUE)
    <2>1. Sound(i)
      BY <1>5, NothingIsSound
    <2>2. Moves(i)
      BY <1>2, <1>5, <2>1, GiveUpMoves DEF Sound
    <2> QED BY <1>1, <2>1, <2>2, QuietStep
  <1> QED BY <1>3, <1>4, <1>5 DEF CompleteDelivery, FinalizeUsage

(***************************************************************************)
(* The steps whose request may time out, and the crash.                    *)
(***************************************************************************)

(* Timeouts and crashes move none either.                                  *)
LEMMA TimeOutStepInv ==
    ASSUME IInv, NEW i \in Invocation, TimeOutStep(i) \/ Crash(i)
    PROVE  IInv'
  <1>1. CASE Crash(i)
    <2>1. Sound(i) /\ UNCHANGED chargeVars
      BY <1>1, NothingIsSound DEF Crash
    <2>2. Posts(i)
      BY <1>1, FaultAssumption DEF IInv, TypeOK, Posts, Crash, Fault
    <2>3. Moves(i)
      BY <1>1, <2>1, GotoMoves DEF Crash, Sound, Stage, Unsettled, Quitting, Gone
    <2> QED BY <2>1, <2>2, <2>3, QuietStep
  <1>2. CASE ClaimTimesOut(i)
    <2>1. Sound(i) /\ inv[i].pc = "claim"
      BY <1>2, NothingIsSound DEF ClaimTimesOut, TimesOut, At
    <2>2. Moves(i)
      BY <1>2, <2>1, GotoMoves DEF ClaimTimesOut, Sound, Stage, Unsettled, Quitting, Gone
    <2>3. Posts(i) /\ UNCHANGED chargeVars
      BY <1>2, TimesOutPosts DEF ClaimTimesOut, LateOK, Op
    <2> QED BY <2>1, <2>2, <2>3, QuietStep
  <1>3. ASSUME NEW op \in {"reserve", "prepare", "auditPrepared", "complete", "finalize"},
               NEW b \in BOOLEAN, TimesOut(i, op), GiveUp(i, b),
               \/ /\ op \notin {"complete", "finalize"}
                  /\ inv[i].pc \in {"reserve", "prepare", "audit"}
               \/ op \in {"complete", "finalize"} /\ inv[i].pc = op /\ b
        PROVE  IInv'
    <2>1. Sound(i)
      BY <1>3, NothingIsSound DEF TimesOut
    <2>2. inv[i].pc \notin Gone /\ (inv[i].pc \in Unsettled \/ b)
      BY <1>3 DEF Gone, Unsettled
    <2>3. Moves(i)
      BY <1>3, <2>1, <2>2, GiveUpMoves DEF Sound
    <2>4. op = "complete" => inv'[i].ref \in Reference
      BY <1>3, <2>3 DEF IInv, RunInv, Moves
    <2>5. op = "finalize" => state'[inv'[i].pay] = "delivered"
      BY <1>3, <2>3 DEF IInv, DeliveredInv, Moves, TimesOut, NoChange, ledgerVars, recordVars
    <2>6. Posts(i) /\ UNCHANGED chargeVars
      BY <1>3, <2>4, <2>5, TimesOutPosts DEF LateOK, Op
    <2> QED BY <2>1, <2>3, <2>6, QuietStep
  <1> QED BY <1>1, <1>2, <1>3 DEF TimeOutStep, ReserveTimesOut, PrepareTimesOut,
             AuditTimesOut, CompleteTimesOut, FinalizeTimesOut, At

(* Nor do the audit, the release and the review.                           *)
LEMMA ClosingStep ==
    ASSUME IInv, NEW i \in Invocation,
           AuditDelivered(i) \/ ReleaseDelivery(i) \/ Unreserve(i) \/ AuditReview(i)
    PROVE  IInv'
  <1> DEFINE p == inv[i].pay
  <1>1. CASE AuditDelivered(i)
    <2>1. state[p] = "delivered" /\ p \in Payment
      BY <1>1 DEF AuditDelivered, At, IInv, TypeOK, Run, DeliveredInv
    <2>2. Sound(i)
      BY <1>1, <2>1, OtherRequestIsSound, NothingIsSound DEF AuditDelivered, Audit, TimesOut
    <2>3. state'[p] = "delivered"
      BY <2>1, <2>2 DEF Sound, Firm
    <2>4. Moves(i)
      BY <1>1, <2>2, <2>3, ServeMoves DEF AuditDelivered, Sound
    <2>5. Posts(i) /\ UNCHANGED chargeVars
      <3>1. CASE Answered
        BY <3>1, AnsweredPosts DEF Answered
      <3>2. CASE TimesOut(i, "auditDelivered")
        <4>1. inv'[i].pay = p
          BY <2>4 DEF Moves
        <4> QED BY <2>3, <3>2, <4>1, TimesOutPosts DEF LateOK, Op
      <3> QED BY <1>1, <3>1, <3>2 DEF AuditDelivered
    <2> QED BY <2>2, <2>4, <2>5, QuietStep
  <1>2. CASE ReleaseDelivery(i)
    <2>1. inv[i].pc = "release" /\ (PastSettle(i) => inv[i].manual)
      BY <1>2 DEF ReleaseDelivery, At, IInv, RunInv, Quitting, PastSettle
    <2>2. Sound(i)
      BY <1>2, <2>1, RecordRequestIsSound, NothingIsSound DEF ReleaseDelivery, TimesOut, Armed
    <2>3. PICK s \in {"usage", "done"} : Goto(i, s)
      BY <1>2 DEF ReleaseDelivery, Released
    <2>4. Moves(i) /\ inv'[i].pc = s
      <3>1. Moves(i) /\ inv'[i] = [inv[i] EXCEPT !.pc = s]
        BY <2>1, <2>2, <2>3, GotoMoves DEF Sound, Stage, Unsettled, Quitting, Gone
      <3> QED BY <3>1 DEF IInv, TypeOK, Run
    <2>5. Posts(i) /\ UNCHANGED chargeVars
      <3>1. CASE Answered
        BY <3>1, AnsweredPosts DEF Answered
      <3>2. CASE TimesOut(i, "release")
        <4>1. inv'[i].ref # NoReference => inv'[i].manual
          BY <2>1, <2>4 DEF Moves, PastSettle
        <4> QED BY <2>4, <3>2, <4>1, TimesOutPosts DEF LateOK, Op, Gone
      <3> QED BY <1>2, <3>1, <3>2 DEF ReleaseDelivery
    <2> QED BY <2>2, <2>4, <2>5, QuietStep
  <1>3. CASE Unreserve(i) \/ AuditReview(i)
    <2>1. inv[i].pc \in {"usage", "review"}
      BY <1>3 DEF Unreserve, AuditReview, At
    <2>2. Sound(i)
      BY <1>3, OtherRequestIsSound, NothingIsSound DEF Unreserve, AuditReview, TimesOut, Audit
    <2>3. PICK s \in {"review", "done"} : Goto(i, s)
      BY <1>3 DEF Unreserve, AuditReview
    <2>4. Moves(i)
      BY <2>1, <2>2, <2>3, GotoMoves DEF Sound, Stage, Unsettled, Quitting, Gone
    <2>5. Posts(i) /\ UNCHANGED chargeVars
      BY <1>3, AnsweredPosts, TimesOutPosts DEF Unreserve, AuditReview, Answered, LateOK, Op
    <2> QED BY <2>2, <2>4, <2>5, QuietStep
  <1> QED BY <1>1, <1>2, <1>3

(* A late request finds its token or does nothing.                         *)
LEMMA HandleStep ==
    ASSUME IInv, NEW m \in late, Handle(m)
    PROVE  IInv'
  <1> DEFINE i == m.from
  <1>1. i \in Invocation /\ m.op \in Op /\ Effect(m.op, i) /\ inv' = inv /\ late' = late \ {m}
    BY DEF IInv, TypeOK, Handle
  <1>2. LateOK(m)
    BY DEF IInv, LateInv, LateOK, Gone
  <1>3. Sound(i)
    <2>1. CASE m.op \in {"claim", "prepare"}
      BY <1>1, <2>1, RecordRequestIsSound DEF Effect
    <2>2. CASE m.op = "complete"
      BY <1>1, <1>2, <2>2, RecordRequestIsSound DEF Effect, LateOK
    <2>3. CASE m.op = "release"
      BY <1>1, <1>2, <2>3, RecordRequestIsSound DEF Effect, LateOK, Gone, Armed, PastSettle
    <2>4. CASE m.op = "finalize"
      BY <1>1, <1>2, <2>4, OtherRequestIsSound DEF Effect, LateOK
    <2>5. CASE m.op \in {"reserve", "usage"}
      BY <1>1, <2>5, OtherRequestIsSound DEF Effect
    <2>6. CASE m.op \in {"auditPrepared", "auditReview", "auditDelivered"}
      BY <1>1, <1>2, <2>6, OtherRequestIsSound DEF Effect, Audit, LateOK
    <2> QED BY <1>1, <2>1, <2>2, <2>3, <2>4, <2>5, <2>6 DEF Op
  <1>4. Moves(i)
    <2>1. inv' \in [Invocation -> Run] /\ inv[i].pay \in Payment
      BY <1>1 DEF IInv, TypeOK, Run
    <2>2. RunOK(inv[i])
      BY <1>1 DEF IInv, RunInv, RunOK
    <2> QED BY <1>1, <1>3, <2>1, <2>2 DEF Moves, Armed, IInv, DeliveredInv, Sound, Firm
  <1>5. Posts(i)
    BY <1>1 DEF IInv, TypeOK, Posts, Handle
  <1> QED BY <1>1, <1>3, <1>4, <1>5, QuietStep DEF Handle

(***************************************************************************)
(* The steps of the environment, and the two that move funds.              *)
(***************************************************************************)

(* Lapsing leases, landing charges and payments used elsewhere.            *)
LEMMA EnvironmentStep ==
    ASSUME IInv, NEW p \in Payment, LeaseLapses(p) \/ ChargeLands(p) \/ SettledElsewhere(p)
    PROVE  IInv'
  <1> USE DEF LeaseLapses, ChargeLands, SettledElsewhere, chargeVars, ledgerVars, recordVars,
              usageVars
  <1>1. TypeOK'
    <2>1. faults' \in 0..MaxFaults
      BY FaultAssumption DEF IInv, TypeOK, Fault
    <2>2. LedgerTypeOK'
      BY DEF IInv, TypeOK, LedgerTypeOK
    <2> QED BY <2>1, <2>2 DEF IInv, TypeOK
  <1>2. RunInv' /\ ProjectionsFollowLedger'
    BY DEF IInv, RunInv, ProjectionsFollowLedger
  <1>3. LateInv'
    BY DEF IInv, LateInv
  <1>4. \A q \in Payment : Charged(q) = 1 => Charged(q)' = 1
    BY DEF IInv, TypeOK, ChargedOnce, Charged
  <1>5. ArmedInv'
    <2>1. \A q \in Payment : charges[q] = 0 /\ q \notin pending =>
                              charges'[q] = 0 /\ q \notin pending'
      BY DEF IInv, TypeOK
    <2>2. \A i \in Invocation : inv[i].pay \in Payment
      BY DEF IInv, TypeOK, Run
    <2>3. \A i \in Invocation : Armed(i)' <=> Armed(i)
      BY DEF Armed
    <2> QED BY <2>1, <2>2, <2>3 DEF IInv, ArmedInv
  <1>6. ReferenceInv' /\ DeliveredInv'
    <2>1. \A i \in Invocation : inv[i].pay \in Payment
      BY DEF IInv, TypeOK, Run
    <2>2. ReferenceInv'
      BY <1>4, <2>1 DEF IInv, ReferenceInv
    <2>3. DeliveredInv'
      BY <1>4, <2>1 DEF IInv, DeliveredInv
    <2> QED BY <2>2, <2>3
  <1>7. ChargedOnce'
    BY DEF IInv, TypeOK, ChargedOnce, Charged
  <1>8. ChargedIsLocked'
    BY DEF IInv, TypeOK, ChargedIsLocked
  <1> QED BY <1>1, <1>2, <1>3, <1>5, <1>6, <1>7, <1>8 DEF IInv

\* What a settlement does to the funds of its payment: nothing, or it moves
\* them, or they may move later.
Pays(p) ==
    \/ UNCHANGED chargeVars
    \/ p \notin elsewhere /\ MovesFunds(p)
    \/ p \notin elsewhere /\ pending' = pending \cup {p} /\ UNCHANGED <<charges, elsewhere>>

\* A settlement that may have moved funds leaves its invocation with a
\* transaction or with the duty to send the record to review.
LEMMA PaymentStep ==
    ASSUME IInv, NEW i \in Invocation, NEW run \in Run, At(i, "settle"), Become(i, run),
           Pays(inv[i].pay), NoChange, UNCHANGED <<late, faults>>,
           run.pay = inv[i].pay, run.pc \in {"complete", "release"}, ~run.paid,
           run.ref = NoReference => run.pc = "release",
           run.ref # NoReference => run.pc = "complete" /\ Charged(run.pay)' = 1,
           UNCHANGED chargeVars \/ run.ref # NoReference \/ run.manual
    PROVE  IInv'
  <1> DEFINE p == inv[i].pay
  <1> USE DEF NoChange, ledgerVars, recordVars, usageVars
  <1>1. /\ inv' \in [Invocation -> Run] /\ inv'[i] = run
        /\ \A j \in Invocation \ {i} : inv'[j] = inv[j]
    BY DEF IInv, TypeOK, Become
  <1>2. /\ p \in Payment /\ inv[i].pc = "settle"
        /\ inv[i].ref = NoReference /\ ~inv[i].manual
        /\ run.ref \in Reference \cup {NoReference}
    BY DEF IInv, TypeOK, Run, At, RunInv, Unsettled
  <1>3. /\ charges[p] = 0 /\ p \notin pending
        /\ state[p] = "manual_review" \/ (state[p] = "prepared" /\ token[p] = i)
        /\ \A j \in Invocation : Armed(j) /\ inv[j].pay = p => j = i
    BY <1>2 DEF IInv, ArmedInv, Armed
  <1>4. \A q \in Payment : Charged(q) = 1 => Charged(q)' = 1
    BY <1>2, <1>3 DEF IInv, TypeOK, Pays, MovesFunds, chargeVars, Charged
  <1>5. TypeOK'
    BY <1>1, <1>2 DEF IInv, TypeOK, LedgerTypeOK, Pays, MovesFunds, chargeVars
  <1>6. RunInv'
    BY <1>1, <1>2 DEF IInv, RunInv, Unsettled, Quitting
  <1>7. LateInv'
    BY <1>1, <1>2 DEF IInv, TypeOK, LateInv
  <1>8. ArmedInv'
    <2>1. \A j \in Invocation : Armed(j)' => Armed(j) /\ j # i /\ inv'[j] = inv[j]
      BY <1>1 DEF Armed
    <2>2. \A j \in Invocation : Armed(j)' => inv[j].pay # p /\ inv[j].pay \in Payment
      BY <1>3, <2>1 DEF IInv, TypeOK, Run
    <2> QED BY <2>1, <2>2 DEF IInv, TypeOK, ArmedInv, Pays, MovesFunds, chargeVars
  <1>9. ReferenceInv'
    BY <1>1, <1>4 DEF IInv, TypeOK, Run, ReferenceInv
  <1>10. ChargedOnce'
    BY <1>2, <1>3 DEF IInv, TypeOK, ChargedOnce, Charged, Pays, MovesFunds, chargeVars
  <1>11. ChargedIsLocked'
    <2> SUFFICES ASSUME NEW q \in Payment, charges'[q] > 0 \/ q \in pending'
                 PROVE  \/ state[q] \in {"delivered", "manual_review"}
                        \/ /\ state[q] = "prepared" /\ token[q] \in Invocation
                           /\ inv'[token[q]].pay = q
                           /\ inv'[token[q]].ref # NoReference \/ inv'[token[q]].manual
      BY DEF ChargedIsLocked
    <2>1. CASE q = p
      BY <1>1, <1>3, <2>1 DEF Pays, MovesFunds, chargeVars
    <2>2. CASE q # p
      <3>1. charges[q] > 0 \/ q \in pending
        BY <2>2 DEF IInv, TypeOK, Pays, MovesFunds, chargeVars
      <3> QED BY <1>1, <2>2, <3>1 DEF IInv, ChargedIsLocked
    <2> QED BY <2>1, <2>2
  <1>12. DeliveredInv'
    BY <1>1, <1>4 DEF IInv, TypeOK, Run, DeliveredInv
  <1>13. ProjectionsFollowLedger'
    BY DEF IInv, ProjectionsFollowLedger
  <1> QED BY <1>5, <1>6, <1>7, <1>8, <1>9, <1>10, <1>11, <1>12, <1>13 DEF IInv

(* The one step that moves funds is taken by the payment's only armed      *)
(* invocation.                                                             *)
LEMMA SettleStep ==
    ASSUME IInv, NEW i \in Invocation, Settle(i) \/ SettleThrows(i)
    PROVE  IInv'
  <1> DEFINE p == inv[i].pay
             given(r) == [inv[i] EXCEPT !.pc = "complete", !.ref = r]
             quits(b) == [inv[i] EXCEPT !.pc = "release", !.manual = b]
             threw == [inv[i] EXCEPT !.pc = "release", !.manual = TRUE, !.threw = TRUE]
  <1>1. At(i, "settle") /\ NoChange /\ UNCHANGED <<late, faults>> /\ Pays(p)
    BY DEF Settle, SettleThrows, Pays
  <1>2. /\ p \in Payment /\ inv[i] \in Run /\ inv[i].pc = "settle"
        /\ inv[i].ref = NoReference /\ ~inv[i].manual
    BY <1>1 DEF IInv, TypeOK, Run, At, RunInv, Unsettled
  <1>3. charges[p] = 0 /\ state[p] # "delivered"
    BY <1>2 DEF IInv, ArmedInv, Armed
  <1>4. ~inv[i].paid
    BY <1>2, <1>3 DEF IInv, DeliveredInv
  <1>5. \A run : Become(i, run) => inv'[i] = run
    BY DEF IInv, TypeOK, Become
  <1>6. threw.pc = "release" /\ \A b \in BOOLEAN : quits(b).pc = "release"
    BY <1>2 DEF Run
  <1>7. CASE WithTransaction(i)
    <2>1. PICK r \in Reference : Become(i, given(r))
      BY <1>7 DEF WithTransaction
    <2>2. /\ given(r) \in Run /\ given(r).pc = "complete" /\ given(r).ref = r /\ r # NoReference
          /\ given(r).pay = p /\ ~given(r).paid
      BY <1>2, <1>4, LedgerAssumption DEF Run, Stage
    <2>3. PICK run \in Run : run = given(r)
      BY <2>2
    <2>4. inv'[i].pc = "complete"
      BY <2>1, <2>2 DEF IInv, TypeOK, Become
    <2>5. ~GiveUp(i, TRUE) /\ ~GiveUp(i, FALSE)
      <3>1. \A b \in BOOLEAN : ~Become(i, quits(b))
        BY <2>4, <1>5, <1>6
      <3> QED BY <3>1 DEF GiveUp
    <2>6. ~SettleThrows(i)
      <3>1. ~Become(i, threw)
        BY <2>4, <1>5, <1>6
      <3> QED BY <3>1 DEF SettleThrows
    <2>7. Charged(run.pay)' = 1
      <3>1. CASE p \notin elsewhere /\ MovesFunds(p)
        BY <1>2, <1>3, <2>2, <2>3, <3>1 DEF IInv, TypeOK, Charged, MovesFunds
      <3>2. CASE p \in elsewhere /\ UNCHANGED chargeVars
        BY <1>2, <1>3, <2>2, <2>3, <3>2 DEF Charged, chargeVars
      <3> QED BY <2>5, <2>6, <3>1, <3>2 DEF Settle
    <2>8. /\ run.pc = "complete" /\ run.ref = r /\ run.ref # NoReference
          /\ run.pay = p /\ ~run.paid /\ Become(i, run)
      BY <2>1, <2>2, <2>3
    <2> HIDE DEF given
    <2> QED BY <1>1, <2>7, <2>8, PaymentStep
  <1>8. CASE GiveUp(i, TRUE) \/ SettleThrows(i)
    <2>1. /\ quits(TRUE) \in Run /\ quits(TRUE).pc = "release" /\ quits(TRUE).ref = NoReference
          /\ quits(TRUE).manual /\ quits(TRUE).pay = p /\ ~quits(TRUE).paid
      BY <1>2, <1>4 DEF Run, Stage
    <2>2. /\ threw \in Run /\ threw.pc = "release" /\ threw.ref = NoReference
          /\ threw.manual /\ threw.pay = p /\ ~threw.paid
      BY <1>2, <1>4 DEF Run, Stage
    <2>3. Become(i, quits(TRUE)) \/ Become(i, threw)
      BY <1>8 DEF GiveUp, SettleThrows
    <2> HIDE DEF quits, threw
    <2>4. CASE Become(i, quits(TRUE))
      BY <1>1, <2>1, <2>4, PaymentStep
    <2>5. CASE Become(i, threw)
      BY <1>1, <2>2, <2>5, PaymentStep
    <2> QED BY <2>3, <2>4, <2>5
  <1>9. CASE GiveUp(i, FALSE) /\ UNCHANGED chargeVars
    <2>1. Become(i, quits(FALSE))
      BY <1>9 DEF GiveUp
    <2>2. /\ quits(FALSE) \in Run /\ quits(FALSE).pc = "release"
          /\ quits(FALSE).ref = NoReference /\ quits(FALSE).pay = p /\ ~quits(FALSE).paid
      BY <1>2, <1>4 DEF Run, Stage
    <2> HIDE DEF quits
    <2> QED BY <1>1, <1>9, <2>1, <2>2, PaymentStep
  <1> QED BY <1>7, <1>8, <1>9 DEF Settle

(***************************************************************************)
(* The invariant and the properties it implies.                            *)
(***************************************************************************)

\* Before the first request nothing is claimed, charged or late.
LEMMA InitIInv == Init => IInv
  <1> SUFFICES ASSUME Init PROVE IInv
    OBVIOUS
  <1> USE LedgerAssumption, FaultAssumption DEF Init, LedgerInit
  <1>1. PICK pay \in [Invocation -> Payment] : inv = [i \in Invocation |-> Idle(pay[i])]
    OBVIOUS
  <1>2. \A i \in Invocation : /\ inv[i] \in Run /\ inv[i].pc = "idle" /\ ~inv[i].paid
                              /\ inv[i].ref = NoReference /\ ~inv[i].manual
    BY <1>1 DEF Idle, Run, Stage
  <1>3. LedgerTypeOK
    BY DEF LedgerTypeOK, State, Usage, Audit
  <1>4. TypeOK
    BY <1>1, <1>2, <1>3 DEF TypeOK
  <1>5. RunInv /\ LateInv /\ ArmedInv /\ ReferenceInv
    BY <1>2 DEF RunInv, LateInv, ArmedInv, ReferenceInv, Armed, Quitting
  <1>6. ChargedOnce /\ ChargedIsLocked /\ DeliveredInv /\ ProjectionsFollowLedger
    BY <1>2 DEF ChargedOnce, ChargedIsLocked, DeliveredInv, ProjectionsFollowLedger, Charged
  <1> QED BY <1>4, <1>5, <1>6 DEF IInv

\* Every step of a route, a late request and the environment keeps it.
LEMMA NextIInv == IInv /\ [Next]_vars => IInv'
  <1> SUFFICES ASSUME IInv, [Next]_vars PROVE IInv'
    OBVIOUS
  <1>1. CASE UNCHANGED vars
    BY <1>1 DEF vars, ledgerVars, recordVars, usageVars, chargeVars, IInv, TypeOK, LedgerTypeOK,
                RunInv, LateInv, ArmedInv, Armed, ReferenceInv, ChargedOnce, ChargedIsLocked,
                DeliveredInv, ProjectionsFollowLedger, Charged
  <1>2. ASSUME NEW i \in Invocation, RouteStep(i) PROVE IInv'
    BY <1>2, UnsettledStep, SettledStep, ClosingStep, SettleStep DEF RouteStep
  <1>3. ASSUME NEW i \in Invocation, TimeOutStep(i) \/ Crash(i) PROVE IInv'
    BY <1>3, TimeOutStepInv
  <1>4. ASSUME NEW m \in late, Handle(m) PROVE IInv'
    BY <1>4, HandleStep
  <1>5. ASSUME NEW p \in Payment, LeaseLapses(p) \/ ChargeLands(p) \/ SettledElsewhere(p)
        PROVE  IInv'
    BY <1>5, EnvironmentStep
  <1> QED BY <1>1, <1>2, <1>3, <1>4, <1>5 DEF Next

\* The inductive invariant of the route and its ledger.
THEOREM Invariance == Spec => []IInv
  BY InitIInv, NextIInv, PTL DEF Spec

\* Every variable of the route and its ledger keeps its type.
THEOREM TypeCorrect == Spec => []TypeOK
  <1>1. IInv => TypeOK
    BY DEF IInv
  <1> QED BY <1>1, Invariance, PTL

\* A payment is charged at most once, for any number of invocations, faults
\* and late requests.
THEOREM PaidOnce == Spec => []ChargedOnce
  <1>1. IInv => ChargedOnce
    BY DEF IInv
  <1> QED BY <1>1, Invariance, PTL

\* A payment whose funds moved or may move cannot be claimed again.
THEOREM PaidIsLocked == Spec => []ChargedIsLocked
  <1>1. IInv => ChargedIsLocked
    BY DEF IInv
  <1> QED BY <1>1, Invariance, PTL

\* Every answered payment is delivered, was charged, and owns its settlement
\* reference.
THEOREM DeliveredWasPaid == Spec => []DeliveredIsPaid
  <1>1. IInv => DeliveredIsPaid
    <2> SUFFICES ASSUME IInv PROVE DeliveredIsPaid
      OBVIOUS
    <2>1. ASSUME NEW i \in Invocation, inv[i].paid
          PROVE  inv[i].pay \in Payment /\ state[inv[i].pay] = "delivered"
      BY <2>1 DEF IInv, TypeOK, Run, DeliveredInv
    <2>2. \A p \in Payment : PaidFor(p) => state[p] = "delivered"
      BY <2>1 DEF PaidFor
    <2> QED BY <2>2 DEF IInv, DeliveredInv, DeliveredIsPaid
  <1> QED BY <1>1, Invariance, PTL

\* The reservation and the audit report no delivery the ledger lacks.
THEOREM ReportedWasDelivered == Spec => []ProjectionsFollowLedger
  <1>1. IInv => ProjectionsFollowLedger
    BY DEF IInv
  <1> QED BY <1>1, Invariance, PTL

(***************************************************************************)
(* The route implements PaidDelivery.                                      *)
(***************************************************************************)

Delivered == {p \in Payment : state[p] = "delivered"}
Reviewed  == {p \in Payment : state[p] = "manual_review"}
Charges   == [p \in Payment |-> Charged(p)]

\* A step that moves no funds closes at most the payment it is about.
LEMMA RecordRefines ==
    ASSUME IInv, IInv', UNCHANGED chargeVars, NEW p \in Payment,
           \A q \in Payment \ {p} : state'[q] = state[q],
           state[p] \in {"delivered", "manual_review"} => state'[p] = state[p]
    PROVE  [Delivery!DeliveryNext]_Delivery!deliveryVars
  <1>1. Charges' = Charges
    BY DEF Charges, Charged, chargeVars
  <1>2. CASE state'[p] = state[p] \/ state'[p] \notin {"delivered", "manual_review"}
    <2>1. Delivered' = Delivered /\ Reviewed' = Reviewed
      BY <1>2 DEF Delivered, Reviewed
    <2> QED BY <1>1, <2>1 DEF Delivery!deliveryVars, Delivered, Reviewed, Charges
  <1>3. CASE state'[p] # state[p] /\ state'[p] = "delivered"
    <2>1. Delivered' = Delivered \cup {p} /\ Reviewed' = Reviewed
      BY <1>3 DEF Delivered, Reviewed
    <2>2. p \notin Delivered \cup Reviewed /\ Charges[p] = 1
      BY <1>1, <1>3 DEF Delivered, Reviewed, Charges, IInv, DeliveredInv
    <2>3. Delivery!Deliver(p)
      BY <1>1, <2>1, <2>2 DEF Delivery!Deliver, Delivery!Open, Delivered, Reviewed, Charges
    <2> QED BY <2>3 DEF Delivery!DeliveryNext
  <1>4. CASE state'[p] # state[p] /\ state'[p] = "manual_review"
    <2>1. Reviewed' = Reviewed \cup {p} /\ Delivered' = Delivered
      BY <1>4 DEF Delivered, Reviewed
    <2>2. p \notin Delivered \cup Reviewed
      BY <1>4 DEF Delivered, Reviewed
    <2>3. Delivery!Review(p)
      BY <1>1, <2>1, <2>2 DEF Delivery!Review, Delivery!Open, Delivered, Reviewed, Charges
    <2> QED BY <2>3 DEF Delivery!DeliveryNext
  <1> QED BY <1>2, <1>3, <1>4

\* A step that changes no record moves the funds of at most one payment,
\* which is not delivered.
LEMMA ChargeRefines ==
    ASSUME IInv, UNCHANGED state, NEW p \in Payment,
           \A q \in Payment \ {p} : Charged(q)' = Charged(q),
           Charged(p)' = Charged(p)
             \/ (Charged(p) = 0 /\ Charged(p)' = 1 /\ state[p] # "delivered")
    PROVE  [Delivery!DeliveryNext]_Delivery!deliveryVars
  <1>1. Delivered' = Delivered /\ Reviewed' = Reviewed
    BY DEF Delivered, Reviewed
  <1>2. CASE Charged(p)' = Charged(p)
    <2>1. Charges' = Charges
      BY <1>2 DEF Charges
    <2> QED BY <1>1, <2>1 DEF Delivery!deliveryVars, Delivered, Reviewed, Charges
  <1>3. CASE Charged(p) = 0 /\ Charged(p)' = 1 /\ state[p] # "delivered"
    <2>1. Charges[p] = 0 /\ p \notin Delivered /\ Charges' = [Charges EXCEPT ![p] = 1]
      BY <1>3 DEF Charges, Delivered
    <2>2. Delivery!Charge(p)
      BY <1>1, <2>1 DEF Delivery!Charge, Delivered, Reviewed, Charges
    <2> QED BY <2>2 DEF Delivery!DeliveryNext
  <1> QED BY <1>2, <1>3

Closes(p) ==
    /\ \A q \in Payment \ {p} : state'[q] = state[q]
    /\ state[p] \in {"delivered", "manual_review"} => state'[p] = state[p]

\* No request changes another payment's record or reopens a closed one.
LEMMA RequestCloses ==
    ASSUME IInv, NEW i \in Invocation, NEW p \in Payment, NEW r, NEW b,
           \/ Grant(i, p) \/ Expire(p) \/ Prepare(i, p) \/ Complete(i, p, r) \/ Release(i, p, b)
           \/ UNCHANGED state
    PROVE  Closes(p)
  BY DEF IInv, TypeOK, LedgerTypeOK, Closes, Grant, Grantable, Reclaimable, Expire, Overdue,
         Prepare, Complete, Completes, Release, Holds

(* A step of the route touches no other payment's record and reopens none. *)
LEMMA RouteCloses ==
    ASSUME IInv, NEW i \in Invocation, RouteStep(i) \/ TimeOutStep(i) \/ Crash(i),
           ~Settle(i), ~SettleThrows(i)
    PROVE  Closes(inv[i].pay) /\ UNCHANGED chargeVars
  <1> DEFINE p == inv[i].pay
  <1> USE DEF NoChange, ledgerVars, recordVars, usageVars
  <1>1. p \in Payment
    BY DEF IInv, TypeOK, Run
  <1>2. CASE Present(i) \/ Verify(i) \/ Recheck(i) \/ ReserveUsage(i) \/ AuditPrepared(i)
    BY <1>1, <1>2, RequestCloses DEF Present, Verify, Recheck, ReserveUsage, Reserve,
                                     AuditPrepared, AuditUpsert, Answered
  <1>3. CASE Claim(i) \/ PrepareDelivery(i)
    BY <1>1, <1>3, RequestCloses DEF Claim, PrepareDelivery, Answered
  <1>4. CASE CompleteDelivery(i) \/ FinalizeUsage(i) \/ AuditDelivered(i)
    BY <1>1, <1>4, RequestCloses DEF CompleteDelivery, FinalizeUsage, Finalize, AuditDelivered,
                                     AuditUpsert, Answered, TimesOut
  <1>5. CASE ReleaseDelivery(i) \/ Unreserve(i) \/ AuditReview(i)
    BY <1>1, <1>5, RequestCloses DEF ReleaseDelivery, Unreserve, UnreserveEffect, ReviewUsage,
                                     ReleaseUsage, AuditReview, AuditUpsert, Answered, TimesOut
  <1>6. CASE TimeOutStep(i) \/ Crash(i)
    BY <1>1, <1>6, RequestCloses DEF TimeOutStep, ClaimTimesOut, ReserveTimesOut, PrepareTimesOut,
                AuditTimesOut, CompleteTimesOut, FinalizeTimesOut, TimesOut, Crash
  <1> QED BY <1>2, <1>3, <1>4, <1>5, <1>6 DEF RouteStep

(* Nor does a late request.                                                *)
LEMMA HandleCloses ==
    ASSUME IInv, NEW m \in late, Handle(m)
    PROVE  Closes(inv[m.from].pay) /\ UNCHANGED chargeVars
  <1>1. m.from \in Invocation /\ inv[m.from].pay \in Payment
    BY DEF IInv, TypeOK, Run
  <1>2. UNCHANGED chargeVars
    BY DEF Handle
  <1>3. \/ \E r, b : LET i == m.from  p == inv[i].pay IN
              Grant(i, p) \/ Expire(p) \/ Prepare(i, p) \/ Complete(i, p, r) \/ Release(i, p, b)
        \/ UNCHANGED state
    BY DEF Handle, Effect, UnreserveEffect, Reserve, Finalize, ReviewUsage, ReleaseUsage,
           AuditUpsert, recordVars
  <1> QED BY <1>1, <1>2, <1>3, RequestCloses

\* The settlement moves funds that nothing has moved.
LEMMA SettleRefines ==
    ASSUME IInv, IInv', NEW i \in Invocation, Settle(i) \/ SettleThrows(i)
    PROVE  [Delivery!DeliveryNext]_Delivery!deliveryVars
  <1> DEFINE p == inv[i].pay
  <1>1. p \in Payment /\ inv[i].pc = "settle"
    BY DEF IInv, TypeOK, Run, Settle, SettleThrows, At
  <1>2. charges[p] = 0 /\ state[p] # "delivered"
    BY <1>1 DEF IInv, ArmedInv, Armed
  <1>3. Pays(p) /\ UNCHANGED state
    BY DEF Settle, SettleThrows, Pays, NoChange, ledgerVars, recordVars
  <1>4. PICK o \in Payment : o = p
    BY <1>1
  <1>5. \A q \in Payment \ {o} : Charged(q)' = Charged(q)
    BY <1>3, <1>4 DEF IInv, TypeOK, Pays, MovesFunds, chargeVars, Charged
  <1>6. Charged(o)' = Charged(o) \/ (Charged(o) = 0 /\ Charged(o)' = 1)
    BY <1>2, <1>3, <1>4 DEF IInv, TypeOK, Pays, MovesFunds, chargeVars, Charged
  <1> QED BY <1>2, <1>3, <1>4, <1>5, <1>6, ChargeRefines

(* A charge that lands late is a charge of PaidDelivery.                   *)
LEMMA EnvironmentRefines ==
    ASSUME IInv, IInv', NEW p \in Payment, LeaseLapses(p) \/ ChargeLands(p) \/ SettledElsewhere(p)
    PROVE  [Delivery!DeliveryNext]_Delivery!deliveryVars
  <1> USE DEF LeaseLapses, ChargeLands, SettledElsewhere, chargeVars, ledgerVars, recordVars
  <1>1. UNCHANGED state
    OBVIOUS
  <1>2. \A q \in Payment \ {p} : Charged(q)' = Charged(q)
    BY DEF IInv, TypeOK, Charged
  <1>3. Charged(p)' = Charged(p) \/ (Charged(p) = 0 /\ Charged(p)' = 1)
    BY DEF IInv, TypeOK, ChargedOnce, Charged
  <1>4. Charged(p) = 0 => state[p] # "delivered"
    BY DEF IInv, DeliveredInv
  <1> QED BY <1>1, <1>2, <1>3, <1>4, ChargeRefines

\* The route and its ledger, whatever is lost, late or repeated, implement
\* the promise of PaidDelivery: one charge, and one closing of the payment.
THEOREM Implementation == Spec => ImplementsPaidDelivery
  <1>1. Init => Delivery!DeliveryInit
    BY DEF Init, LedgerInit, Delivery!DeliveryInit, Charged
  <1>2. ASSUME IInv, IInv', [Next]_vars PROVE [Delivery!DeliveryNext]_Delivery!deliveryVars
    <2>1. CASE UNCHANGED vars
      BY <2>1 DEF vars, ledgerVars, recordVars, chargeVars, Delivery!deliveryVars, Charged
    <2>2. ASSUME NEW i \in Invocation, Settle(i) \/ SettleThrows(i)
          PROVE  [Delivery!DeliveryNext]_Delivery!deliveryVars
      BY <1>2, <2>2, SettleRefines
    <2>3. ASSUME NEW p \in Payment, Closes(p), UNCHANGED chargeVars
          PROVE  [Delivery!DeliveryNext]_Delivery!deliveryVars
      BY <1>2, <2>3, RecordRefines DEF Closes
    <2>4. ASSUME NEW i \in Invocation, RouteStep(i) \/ TimeOutStep(i) \/ Crash(i)
          PROVE  [Delivery!DeliveryNext]_Delivery!deliveryVars
      <3>1. PICK p \in Payment : p = inv[i].pay
        BY <1>2 DEF IInv, TypeOK, Run
      <3>2. CASE ~Settle(i) /\ ~SettleThrows(i)
        <4>1. Closes(inv[i].pay) /\ UNCHANGED chargeVars
          BY <1>2, <2>4, <3>2, RouteCloses
        <4>2. Closes(p)
          BY <3>1, <4>1 DEF Closes
        <4> QED BY <4>1, <4>2, <2>3
      <3> QED BY <2>2, <3>2
    <2>5. ASSUME NEW m \in late, Handle(m)
          PROVE  [Delivery!DeliveryNext]_Delivery!deliveryVars
      <3>1. PICK p \in Payment : p = inv[m.from].pay
        BY <1>2 DEF IInv, TypeOK, Run
      <3>2. Closes(inv[m.from].pay) /\ UNCHANGED chargeVars
        BY <1>2, <2>5, HandleCloses
      <3>3. Closes(p)
        BY <3>1, <3>2 DEF Closes
      <3> QED BY <3>2, <3>3, <2>3
    <2>6. ASSUME NEW p \in Payment, LeaseLapses(p) \/ ChargeLands(p) \/ SettledElsewhere(p)
          PROVE  [Delivery!DeliveryNext]_Delivery!deliveryVars
      BY <1>2, <2>6, EnvironmentRefines
    <2> QED BY <1>2, <2>1, <2>4, <2>5, <2>6 DEF Next
  <1> QED BY <1>1, <1>2, Invariance, PTL DEF Spec, ImplementsPaidDelivery, Delivery!DeliverySpec
(***************************************************************************)
(* The counters.  Few requests touch them, and each changes the set of the *)
(* reservations that count by the payment it is for.                       *)
(***************************************************************************)

Tallies(p) == Reserve(p) \/ ReleaseUsage(p) \/ ReviewUsage(p) \/ Finalize(p)

(* Whoever writes usage writes reservation and counters together.          *)
LEMMA UsageWriters ==
    ASSUME TypeOK, [Next]_vars
    PROVE  UNCHANGED usageVars \/ \E p \in Payment : Tallies(p)
  <1> USE DEF NoChange, ledgerVars, usageVars
  <1>1. \A i \in Invocation : inv[i].pay \in Payment
    BY DEF TypeOK, Run
  <1>2. ASSUME NEW i \in Invocation, RouteStep(i)
        PROVE  UNCHANGED usageVars \/ Tallies(inv[i].pay)
    BY <1>2 DEF RouteStep, Present, Claim, Grant, Expire, Verify, ReserveUsage, Recheck,
                PrepareDelivery, Prepare, AuditPrepared, AuditUpsert, Settle, SettleThrows,
                CompleteDelivery, Complete, FinalizeUsage, AuditDelivered, ReleaseDelivery,
                Release, Unreserve, UnreserveEffect, AuditReview, TimesOut, Tallies
  <1>3. ASSUME NEW i \in Invocation, TimeOutStep(i) \/ Crash(i)
        PROVE  UNCHANGED usageVars
    BY <1>3 DEF TimeOutStep, ClaimTimesOut, ReserveTimesOut, PrepareTimesOut, AuditTimesOut,
                CompleteTimesOut, FinalizeTimesOut, TimesOut, Crash
  <1>4. ASSUME NEW m \in late, Handle(m)
        PROVE  UNCHANGED usageVars \/ Tallies(inv[m.from].pay)
    BY <1>4 DEF Handle, Effect, Grant, Expire, Prepare, Complete, Release, UnreserveEffect,
                AuditUpsert, Tallies
  <1>5. \A m \in late : m.from \in Invocation
    BY DEF TypeOK
  <1>6. ASSUME NEW p \in Payment, LeaseLapses(p) \/ ChargeLands(p) \/ SettledElsewhere(p)
        PROVE  UNCHANGED usageVars
    BY <1>6 DEF LeaseLapses, ChargeLands, SettledElsewhere
  <1> QED BY <1>1, <1>2, <1>3, <1>4, <1>5, <1>6 DEF Next, vars

CountersInv == CountersMatch /\ \A y \in PayerOf : IsFiniteSet(Counts(y))

(* Then the counters still count the reservations.                         *)
LEMMA TallyKeepsCounters ==
    ASSUME TypeOK, CountersInv, NEW p \in Payment, Tallies(p)
    PROVE  CountersInv'
  <1> DEFINE y == Payer[p]
             was == Counts(y)
             sum(S) == SumFunctionOnSet(Price, S)
  <1>1. y \in PayerOf /\ \A q \in Payment : Price[q] \in Nat /\ Price[q] \in Int
    BY LedgerAssumption DEF PayerOf
  <1>2. /\ counter[y].amount \in Nat /\ counter[y].requests \in Nat
        /\ counter \in [PayerOf -> [amount : Nat, requests : Nat]]
        /\ usage \in [Payment -> Usage]
    BY <1>1 DEF TypeOK, LedgerTypeOK
  <1>3. /\ IsFiniteSet(was) /\ was \subseteq Payment
        /\ counter[y].amount = sum(was) /\ counter[y].requests = Cardinality(was)
        /\ counter[y].amount <= MaxAmount /\ counter[y].requests <= MaxRequests
    BY <1>1 DEF CountersInv, CountersMatch, Counts
  <1>4. MaxAmount \in Nat /\ MaxRequests \in Nat
    BY LedgerAssumption
  <1>5. ASSUME NEW z \in PayerOf, z # y
        PROVE  Counts(z)' = Counts(z) /\ counter'[z] = counter[z]
    BY <1>2, <1>5 DEF Counts, Tallies, Reserve, ReleaseUsage, ReviewUsage, Finalize
  <1>6. /\ IsFiniteSet(Counts(y)')
        /\ counter'[y].amount = sum(Counts(y)') /\ counter'[y].requests = Cardinality(Counts(y)')
        /\ counter'[y].amount <= MaxAmount /\ counter'[y].requests <= MaxRequests
    <2>1. CASE Reserve(p)
      <3>1. p \notin was /\ Counts(y)' = was \cup {p}
        BY <1>2, <2>1 DEF Reserve, Counts
      <3>2. /\ counter'[y].amount = counter[y].amount + Price[p]
            /\ counter'[y].requests = counter[y].requests + 1
            /\ counter[y].amount + Price[p] <= MaxAmount /\ counter[y].requests + 1 <= MaxRequests
        BY <1>1, <1>2, <2>1 DEF Reserve, WithinLimits
      <3>3. sum(was \cup {p}) = sum(was) + Price[p]
        BY <1>1, <1>3, <3>1, SumOfAdded
      <3>4. IsFiniteSet(was \cup {p}) /\ Cardinality(was \cup {p}) = Cardinality(was) + 1
        BY <1>3, <3>1, FS_AddElement
      <3> QED BY <1>3, <3>1, <3>2, <3>3, <3>4
    <2>2. CASE ReleaseUsage(p)
      <3>1. p \in was /\ Counts(y)' = was \ {p}
        BY <1>2, <2>2 DEF ReleaseUsage, Counts
      <3>2. /\ counter'[y].amount = counter[y].amount - Price[p]
            /\ counter'[y].requests = counter[y].requests - 1
        BY <1>1, <1>2, <2>2 DEF ReleaseUsage
      <3>3. sum(was) = Price[p] + sum(was \ {p})
        BY <1>1, <1>3, <3>1, SumTakesOut
      <3>4. IsFiniteSet(was \ {p}) /\ Cardinality(was \ {p}) = Cardinality(was) - 1
        BY <1>3, <3>1, FS_RemoveElement
      <3>5. sum(was \ {p}) \in Int
        BY <1>1, <1>3, <3>4, SumTakesOut
      <3> QED BY <1>1, <1>2, <1>3, <1>4, <3>1, <3>2, <3>3, <3>4, <3>5
    <2>3. CASE ReviewUsage(p) \/ Finalize(p)
      <3>1. Counts(y)' = was /\ counter' = counter
        BY <1>2, <2>3 DEF ReviewUsage, Finalize, Reserved, Counts
      <3> QED BY <1>3, <3>1
    <2> QED BY <2>1, <2>2, <2>3 DEF Tallies
  <1>7. ASSUME NEW z \in PayerOf
        PROVE  /\ IsFiniteSet(Counts(z)')
               /\ counter'[z].amount = sum(Counts(z)')
               /\ counter'[z].requests = Cardinality(Counts(z)')
               /\ counter'[z].amount <= MaxAmount /\ counter'[z].requests <= MaxRequests
    <2>1. CASE z = y
      BY <1>6, <2>1
    <2>2. CASE z # y
      BY <1>5, <2>2 DEF CountersInv, CountersMatch
    <2> QED BY <2>1, <2>2
  <1> QED BY <1>7 DEF CountersInv, CountersMatch

\* A payer's counters of the day are the sum and the number of the reservations
\* that count, and never exceed the limits, whatever requests come late.
THEOREM CountersAreTrue == Spec => []CountersMatch
  <1>1. Init => CountersInv
    <2> SUFFICES ASSUME Init PROVE CountersInv
      OBVIOUS
    <2>1. \A y \in PayerOf : Counts(y) = {} /\ counter[y] = [amount |-> 0, requests |-> 0]
      BY DEF Init, LedgerInit, Counts
    <2>2. SumFunctionOnSet(Price, {}) = 0
      BY SumOfNone
    <2> QED BY <2>1, <2>2, FS_EmptySet, LedgerAssumption DEF CountersInv, CountersMatch
  <1>2. TypeOK /\ CountersInv /\ [Next]_vars => CountersInv'
    <2> SUFFICES ASSUME TypeOK, CountersInv, [Next]_vars PROVE CountersInv'
      OBVIOUS
    <2>1. CASE UNCHANGED usageVars
      BY <2>1 DEF CountersInv, CountersMatch, Counts, usageVars
    <2> QED BY <2>1, UsageWriters, TallyKeepsCounters
  <1>3. CountersInv => CountersMatch
    BY DEF CountersInv
  <1> QED BY <1>1, <1>2, <1>3, TypeCorrect, PTL DEF Spec
=============================================================================
