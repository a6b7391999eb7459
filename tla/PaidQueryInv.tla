---------------------------- MODULE PaidQueryInv ----------------------------
(***************************************************************************)
(* The inductive invariant of PaidQuery, checked by TLC with the properties*)
(* and used by PaidQueryProofs.  What makes ChargedOnce inductive is that  *)
(* an invocation about to settle is the only one of its payment, and that  *)
(* its record stays claimed by it or goes to review, although nothing      *)
(* checks the claim again between prepare and settle.                      *)
(***************************************************************************)
EXTENDS PaidQuery

Unsettled == {"idle", "claim", "verify", "reserve", "recheck", "prepare", "audit", "settle"}
Quitting  == {"release", "usage", "review"}

\* The outcome of settle is known to those invocations only that had one, and
\* one that has a transaction only gives up for review.
RunInv ==
    \A i \in Invocation :
        /\ inv[i].pc \in Unsettled => inv[i].ref = NoReference /\ ~inv[i].manual
        /\ inv[i].pc = "complete" => inv[i].ref \in Reference
        /\ inv[i].pc \in Quitting /\ inv[i].ref # NoReference => inv[i].manual

\* A late request does what its caller would have done when it timed out.
LateInv ==
    \A m \in late :
        /\ m.op = "release" =>
            /\ inv[m.from].pc \in {"usage", "review", "done"}
            /\ inv[m.from].ref # NoReference => inv[m.from].manual
        /\ m.op = "complete" => inv[m.from].ref \in Reference
        /\ m.op \in {"finalize", "auditDelivered"} => state[inv[m.from].pay] = "delivered"

Armed(i) == inv[i].pc \in {"audit", "settle"}

\* An invocation that has prepared and not settled is the only such one.
ArmedInv ==
    \A i \in Invocation : Armed(i) =>
        LET p == inv[i].pay IN
        /\ charges[p] = 0 /\ p \notin pending
        /\ state[p] = "manual_review" \/ (state[p] = "prepared" /\ token[p] = i)
        /\ \A j \in Invocation : Armed(j) /\ inv[j].pay = p => j = i

\* A settlement reference is evidence of a charge.
ReferenceInv ==
    \A i \in Invocation : inv[i].ref # NoReference => Charged(inv[i].pay) = 1

\* A delivered record owns its reference, and a delivery is only reported
\* by invocations that found it recorded.
DeliveredInv ==
    /\ \A p \in Payment : state[p] = "delivered" =>
            /\ Charged(p) = 1 /\ stored[p]
            /\ reference[p] \in Reference /\ usedBy[reference[p]] = {p}
    /\ \A i \in Invocation :
            inv[i].pc \in {"finalize", "publish"} \/ inv[i].paid => state[inv[i].pay] = "delivered"

IInv ==
    /\ TypeOK
    /\ RunInv
    /\ LateInv
    /\ ArmedInv
    /\ ReferenceInv
    /\ ChargedOnce
    /\ ChargedIsLocked
    /\ DeliveredInv
    /\ ProjectionsFollowLedger
=============================================================================
