---------------------------- MODULE CustomerGrants ----------------------------
(***************************************************************************)
(* What the flows of prepaid credits share.                                *)
(***************************************************************************)
CONSTANT Intent    \* customer_paypal_checkout_intents; an intent has at most
                   \* one order, capture, receipt, grant and funding entry

VARIABLE grant     \* its entitlement grant: "none", "active", "revoked"; it is
                   \* inserted with receipt and funding entry
=============================================================================
