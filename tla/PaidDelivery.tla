---------------------------- MODULE PaidDelivery ----------------------------
(***************************************************************************)
(* What the paid routes promise a payer: a payment is charged at most once,*)
(* and it is closed once, either by the delivery of the answer it paid for *)
(* or by a review that keeps it from ever being charged again by retry.    *)
(* Claims, leases and lost calls are left to PaidQuery, which implements   *)
(* this.                                                                   *)
(***************************************************************************)
EXTENDS Naturals

CONSTANT Payment

VARIABLES
    charges,    \* how often the payment's authorization moved its funds
    delivered,  \* the payments whose answer can be replayed
    reviewed    \* the payments held for reconciliation

deliveryVars == <<charges, delivered, reviewed>>

Open(p) == p \notin delivered \cup reviewed

DeliveryInit ==
    /\ charges = [p \in Payment |-> 0]
    /\ delivered = {} /\ reviewed = {}

\* A charge may land while the payment is already under review.
Charge(p) ==
    /\ charges[p] = 0 /\ p \notin delivered
    /\ charges' = [charges EXCEPT ![p] = 1]
    /\ UNCHANGED <<delivered, reviewed>>

Deliver(p) ==
    /\ Open(p) /\ charges[p] = 1
    /\ delivered' = delivered \cup {p}
    /\ UNCHANGED <<charges, reviewed>>

Review(p) ==
    /\ Open(p)
    /\ reviewed' = reviewed \cup {p}
    /\ UNCHANGED <<charges, delivered>>

DeliveryNext == \E p \in Payment : Charge(p) \/ Deliver(p) \/ Review(p)

DeliverySpec == DeliveryInit /\ [][DeliveryNext]_deliveryVars
=============================================================================
