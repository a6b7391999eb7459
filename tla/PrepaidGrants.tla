---------------------------- MODULE PrepaidGrants ----------------------------
(***************************************************************************)
(* What a prepaid purchase promises, whatever calls, retries and crashes   *)
(* bring it about: the customer pays for a checkout once, its credits are  *)
(* granted at most once and only for money that arrived, and they are taken*)
(* back only because the money went back.  A grant that was taken back     *)
(* never returns.                                                          *)
(*                                                                         *)
(* CustomerFunding implements this.  CustomerSpending takes its grants from*)
(* here.                                                                   *)
(***************************************************************************)
EXTENDS CustomerGrants

VARIABLE paid      \* the money of the checkout: "NO", "YES", "REFUNDED"

grantVars == <<paid, grant>>

GrantsTypeOK ==
    /\ paid \in [Intent -> {"NO", "YES", "REFUNDED"}]
    /\ grant \in [Intent -> {"none", "active", "revoked"}]

GrantsInit ==
    /\ paid = [i \in Intent |-> "NO"]
    /\ grant = [i \in Intent |-> "none"]

Pay(i) ==
    /\ paid[i] = "NO"
    /\ paid' = [paid EXCEPT ![i] = "YES"]
    /\ UNCHANGED grant

Refund(i) ==
    /\ paid[i] = "YES"
    /\ paid' = [paid EXCEPT ![i] = "REFUNDED"]
    /\ UNCHANGED grant

\* The receipt may be funded after the money went back: the proof was older.
Grant(i) ==
    /\ paid[i] # "NO" /\ grant[i] = "none"
    /\ grant' = [grant EXCEPT ![i] = "active"]
    /\ UNCHANGED paid

Revoke(i) ==
    /\ paid[i] = "REFUNDED" /\ grant[i] = "active"
    /\ grant' = [grant EXCEPT ![i] = "revoked"]
    /\ UNCHANGED paid

GrantsNext == \E i \in Intent : Pay(i) \/ Refund(i) \/ Grant(i) \/ Revoke(i)

GrantsSpec == GrantsInit /\ [][GrantsNext]_grantVars
=============================================================================
