---------------------------- MODULE MCPaidQuery ----------------------------
(* Three payments of one payer at the same price, of which a day's limits   *)
(* allow two (by amount) or, in the ceiling instance, one (by number).      *)
EXTENDS PaidQueryInv, TLC

CONSTANTS p1, p2, p3, agent

MCPayment == {p1, p2, p3}
MCPayer   == [p \in MCPayment |-> agent]
MCPrice   == [p \in MCPayment |-> 2]

Symmetric ==
    Permutations(Invocation) \cup Permutations(Reference) \cup Permutations(MCPayment)
=============================================================================
