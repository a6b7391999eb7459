------------------------- MODULE MCCustomerSpending -------------------------
(* A plan that expires during the behaviour and a pack that does not; two   *)
(* requests, one of which the plan's tier does not cover.                  *)
EXTENDS CustomerSpending, TLC

CONSTANTS plan, pack, country, corridor

MCIntent  == {plan, pack}
MCRequest == {country, corridor}
MCCredits == [g \in MCIntent |-> 2]
MCExpiry  == [g \in MCIntent |-> IF g = plan THEN 1 ELSE 2]
MCCost    == [r \in MCRequest |-> IF r = country THEN 1 ELSE 2]
MCCovered == [r \in MCRequest |-> IF r = corridor THEN {pack} ELSE MCIntent]
MCSymmetry == Permutations(Spender)
=============================================================================
