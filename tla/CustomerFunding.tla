--------------------------- MODULE CustomerFunding ---------------------------
(***************************************************************************)
(* How a customer's prepaid credits come about and are taken back: checkout*)
(* intents in D1, the capture flow of the SSR (captureCustomerPayPalOrder),*)
(* the funding batch of the control-plane Worker, and PayPal's refund      *)
(* webhook.  One action is one call or one awaited statement of an         *)
(* invocation; a call that fails before it does anything, or whose answer  *)
(* is lost after it did, is that call left out or followed by Crash.       *)
(*                                                                         *)
(* PayPal is external, and weak: it may decline a capture, hold it back for*)
(* review after a 2xx answer, or perform one whose caller has timed out.   *)
(***************************************************************************)
EXTENDS CustomerGrants, Naturals, FiniteSets

CONSTANTS
    Plan,        \* intents of SKUs whose grant lasts 30 days; packs never expire
    Capturer,    \* invocations of the capture route
    NoIntent,
    MaxFaults    \* bound on evicted invocations and timed-out captures

ASSUME FundingAssumption ==
    /\ Plan \subseteq Intent /\ NoIntent \notin Intent /\ MaxFaults \in Nat

VARIABLES
    intent,      \* state of the checkout intent; "none" before its INSERT
    live,        \* intents whose expires_at (three hours) is in the future
    order,       \* the PayPal order and its capture
    asked,       \* how many capture POSTs were sent for the order
    late,        \* timed-out capture POSTs that PayPal may still perform
    stale,       \* captures settled more than five minutes after expires_at
    over,        \* plans whose 30 days since the settlement are over
    webhook,     \* refunds whose webhook has not been answered with 200
    capt,        \* where an invocation stands, and the state it has read
    faults

fvars == <<intent, live, grant, order, asked, late, stale, over, webhook, capt, faults>>
orderVars == <<order, asked, late, stale>>
clockVars == <<live, over>>

Idle == [pc |-> "idle", intent |-> NoIntent, seen |-> "none"]

Payable == {"bound", "capture_requested", "funded"}

TypeOK ==
    /\ intent \in [Intent -> {"none", "created"} \cup Payable]
    /\ live \subseteq Intent /\ over \subseteq Plan /\ stale \subseteq Intent
    /\ grant \in [Intent -> {"none", "active", "revoked"}]
    /\ order \in [Intent -> {"NONE", "CREATED", "APPROVED", "PENDING",
                             "DECLINED", "COMPLETED", "REFUNDED"}]
    /\ asked \in [Intent -> Nat] /\ late \subseteq Intent /\ webhook \subseteq Intent
    /\ capt \in [Capturer -> [pc : {"idle"}, intent : {NoIntent}, seen : {"none"}]
                        \cup [pc : {"reading", "claiming", "capturing", "verifying", "funding"},
                              intent : Intent, seen : Payable]]
    /\ faults \in 0..MaxFaults

Init ==
    /\ intent = [i \in Intent |-> "none"] /\ live = {} /\ over = {} /\ stale = {}
    /\ grant = [i \in Intent |-> "none"]
    /\ order = [i \in Intent |-> "NONE"] /\ asked = [i \in Intent |-> 0]
    /\ late = {} /\ webhook = {}
    /\ capt = [c \in Capturer |-> Idle]
    /\ faults = 0

Fault == faults < MaxFaults /\ faults' = faults + 1

At(c, stage) == capt[c].pc = stage
Goto(c, stage) == capt' = [capt EXCEPT ![c].pc = stage]
Stop(c) == capt' = [capt EXCEPT ![c] = Idle]

-----------------------------------------------------------------------------
(* The checkout: intent, order, binding, approval.                         *)

PrepareIntent(i) ==
    /\ intent[i] = "none"
    /\ intent' = [intent EXCEPT ![i] = "created"]
    /\ live' = live \cup {i}
    /\ UNCHANGED <<grant, orderVars, over, webhook, capt, faults>>

CreateOrder(i) ==
    /\ intent[i] = "created" /\ order[i] = "NONE"
    /\ order' = [order EXCEPT ![i] = "CREATED"]
    /\ UNCHANGED <<intent, grant, asked, late, stale, clockVars, webhook, capt, faults>>

BindOrder(i) ==
    /\ intent[i] = "created" /\ i \in live /\ order[i] = "CREATED"
    /\ intent' = [intent EXCEPT ![i] = "bound"]
    /\ UNCHANGED <<grant, orderVars, clockVars, webhook, capt, faults>>

\* The buyer, who gets the approval link once the order is bound.
Approve(i) ==
    /\ intent[i] = "bound" /\ order[i] = "CREATED"
    /\ order' = [order EXCEPT ![i] = "APPROVED"]
    /\ UNCHANGED <<intent, grant, asked, late, stale, clockVars, webhook, capt, faults>>

-----------------------------------------------------------------------------
(* captureCustomerPayPalOrder.                                             *)

ReadAnyIntent(c, i) ==
    /\ At(c, "idle") /\ intent[i] # "none"
    /\ capt' = [capt EXCEPT ![c] = [pc |-> "reading", intent |-> i, seen |-> intent[i]]]
    /\ UNCHANGED <<intent, grant, orderVars, clockVars, webhook, faults>>

ReadIntent(c, i) ==
    /\ At(c, "idle") /\ intent[i] \in Payable
    /\ capt' = [capt EXCEPT ![c] = [pc |-> "reading", intent |-> i, seen |-> intent[i]]]
    /\ UNCHANGED <<intent, grant, orderVars, clockVars, webhook, faults>>

RejectRequested(c) == capt[c].seen = "bound" /\ order[capt[c].intent] = "COMPLETED"

Settled(c) == order[capt[c].intent] = "COMPLETED"

\* The GET that comes first: a completed capture is proof, an approved order
\* may be captured by who has seen it bound, anything else is an error.

GetOrder(c) ==
    LET i == capt[c].intent
        capturable == order[i] = "APPROVED" /\ capt[c].seen = "bound"
    IN /\ At(c, "reading")
       /\ \/ Settled(c) /\ Goto(c, "funding")
          \/ capturable /\ Goto(c, "claiming")
          \/ ~Settled(c) /\ ~capturable /\ Stop(c)
       /\ UNCHANGED <<intent, grant, orderVars, clockVars, webhook, faults>>

ClaimableAgain(i) == intent[i] \in {"bound", "capture_requested"} /\ i \in live

\* WHERE state='bound' AND expires_at>?
Claimable(i) == intent[i] = "bound" /\ i \in live

ClaimCapture(c) ==
    LET i == capt[c].intent
    IN /\ At(c, "claiming")
       /\ \/ /\ Claimable(i)
             /\ intent' = [intent EXCEPT ![i] = "capture_requested"]
             /\ Goto(c, "capturing")
          \/ /\ ~Claimable(i)
             /\ Stop(c) /\ UNCHANGED intent
       /\ UNCHANGED <<grant, orderVars, clockVars, webhook, faults>>

\* PayPal performs a capture it was asked for, finally or held for review.
Performed(i) ==
    /\ order[i] = "APPROVED"
    /\ \E outcome \in {"COMPLETED", "PENDING"} : order' = [order EXCEPT ![i] = outcome]

\* captureApprovedPayPalOrderOnce: the POST, answered, refused or timed out.
\* PayPal performs an answered one within the five minutes of grace.
Capture(c) ==
    LET i == capt[c].intent
    IN /\ At(c, "capturing")
       /\ asked' = [asked EXCEPT ![i] = @ + 1]
       /\ \/ Performed(i) /\ Goto(c, "verifying") /\ UNCHANGED <<late, faults>>
          \/ Stop(c) /\ UNCHANGED <<order, late, faults>>
          \/ Stop(c) /\ late' = late \cup {i} /\ Fault /\ UNCHANGED order
       /\ UNCHANGED <<intent, grant, stale, clockVars, webhook>>

AnswerIsProof(c) == TRUE

\* readVerifiedPayPalCapturedOrder: a 2xx answer to the POST is no proof.
Verified(c) == order[capt[c].intent] = "COMPLETED"

VerifyCapture(c) ==
    /\ At(c, "verifying")
    /\ \/ Verified(c) /\ Goto(c, "funding")
       \/ ~Verified(c) /\ Stop(c)
    /\ UNCHANGED <<intent, grant, orderVars, clockVars, webhook, faults>>

-----------------------------------------------------------------------------
(* The Worker: fundCanonicalCustomerFromVerifiedPayPal and                 *)
(* revokeCustomerPayPalGrantFromVerifiedWebhook.                           *)

\* The checks before the batch, and the batch's own: a receipt, a grant and a
\* funding entry exist once per capture.
Fundable(i) ==
    /\ grant[i] = "none" /\ intent[i] \in {"bound", "capture_requested"}
    /\ i \notin stale /\ i \notin over

Fund(c) ==
    LET i == capt[c].intent
    IN /\ At(c, "funding")
       /\ \/ /\ Fundable(i)
             /\ grant' = [grant EXCEPT ![i] = "active"]
             /\ intent' = [intent EXCEPT ![i] = "funded"]
          \/ ~Fundable(i) /\ UNCHANGED <<grant, intent>>
       /\ Stop(c)
       /\ UNCHANGED <<orderVars, clockVars, webhook, faults>>

IgnoreUnfunded(i) ==
    /\ i \in webhook
    /\ grant' = [grant EXCEPT ![i] = IF @ = "none" THEN "none" ELSE "revoked"]
    /\ webhook' = webhook \ {i}
    /\ UNCHANGED <<intent, orderVars, clockVars, capt, faults>>

\* A capture without receipt is answered with 404 and delivered again.  The
\* reversal entry and the revocation are one batch; repeating it changes nothing.
DeliverWebhook(i) ==
    /\ i \in webhook /\ grant[i] # "none"
    /\ grant' = [grant EXCEPT ![i] = "revoked"]
    /\ \/ webhook' = webhook \ {i} /\ UNCHANGED faults
       \/ UNCHANGED webhook /\ Fault
    /\ UNCHANGED <<intent, orderVars, clockVars, capt>>

-----------------------------------------------------------------------------
(* PayPal and time.                                                        *)

\* A capture completed after the intent's expiry may miss the window in which
\* its settlement is accepted.
SettlesAt(i) == IF i \in live THEN UNCHANGED stale ELSE stale' \in {stale, stale \cup {i}}

LateCapture(i) ==
    /\ i \in late /\ late' = late \ {i}
    /\ Performed(i) /\ SettlesAt(i)
    /\ UNCHANGED <<intent, grant, asked, clockVars, webhook, capt, faults>>

ReviewEnds(i) ==
    /\ order[i] = "PENDING"
    /\ \/ order' = [order EXCEPT ![i] = "COMPLETED"] /\ SettlesAt(i)
       \/ order' = [order EXCEPT ![i] = "DECLINED"] /\ UNCHANGED stale
    /\ UNCHANGED <<intent, grant, asked, late, clockVars, webhook, capt, faults>>

RefundCapture(i) ==
    /\ order[i] = "COMPLETED"
    /\ order' = [order EXCEPT ![i] = "REFUNDED"]
    /\ webhook' = webhook \cup {i}
    /\ UNCHANGED <<intent, grant, asked, late, stale, clockVars, capt, faults>>

IntentExpires(i) ==
    /\ i \in live /\ live' = live \ {i}
    /\ UNCHANGED <<intent, grant, orderVars, over, webhook, capt, faults>>

PlanEnds(i) ==
    /\ i \in Plan \ (over \cup live) /\ order[i] \in {"COMPLETED", "REFUNDED"}
    /\ over' = over \cup {i}
    /\ UNCHANGED <<intent, live, grant, orderVars, webhook, capt, faults>>

Crash(c) ==
    /\ ~At(c, "idle") /\ Stop(c) /\ Fault
    /\ UNCHANGED <<intent, grant, orderVars, clockVars, webhook>>

-----------------------------------------------------------------------------

CaptureStep(c) ==
    GetOrder(c) \/ ClaimCapture(c) \/ Capture(c) \/ VerifyCapture(c) \/ Fund(c)

Checkout(i) == PrepareIntent(i) \/ CreateOrder(i) \/ BindOrder(i) \/ Approve(i)

Environment(i) ==
    \/ LateCapture(i) \/ ReviewEnds(i) \/ RefundCapture(i)
    \/ IntentExpires(i) \/ PlanEnds(i)

Next ==
    \/ \E i \in Intent : Checkout(i) \/ Environment(i) \/ DeliverWebhook(i)
    \/ \E c \in Capturer : CaptureStep(c) \/ Crash(c) \/ \E i \in Intent : ReadIntent(c, i)

Spec == Init /\ [][Next]_fvars

(* Fairness: an invocation goes on or crashes; PayPal delivers a webhook   *)
(* again until it is answered with 200; and the buyer of an approved       *)
(* checkout, or somebody for him, keeps calling the capture route, which is*)
(* the only entry to reconciliation the code has.                          *)
Fairness ==
    /\ \A c \in Capturer : WF_fvars(CaptureStep(c))
    /\ \A i \in Intent : /\ WF_fvars(DeliverWebhook(i))
                        /\ SF_fvars(\E c \in Capturer : ReadIntent(c, i))

FairSpec == Spec /\ Fairness

-----------------------------------------------------------------------------
(* Properties.                                                             *)

(* PayPal is asked to capture an order at most once, although several tabs *)
(* may call the route at once and the answer of the one POST may be lost.  *)
CapturedOnce == \A i \in Intent : asked[i] <= 1

(* Seen by what was paid and granted, the flow implements PrepaidGrants:   *)
(* credits are granted once and only for money that arrived, although a    *)
(* POST answered with 2xx may still be held for review or declined; no step*)
(* revokes without a refund, and none restores a grant.                    *)
Money(o) == IF o = "COMPLETED" THEN "YES" ELSE IF o = "REFUNDED" THEN "REFUNDED" ELSE "NO"

Prepaid == INSTANCE PrepaidGrants WITH paid <- [i \in Intent |-> Money(order[i])]

ImplementsPrepaidGrants == Prepaid!GrantsSpec

(* A refund takes the credits back for good, also when its webhook came    *)
(* before the funding and was refused, or the proof was older than it.     *)
RefundRevokes ==
    \A i \in Intent : order[i] = "REFUNDED" ~> [](grant[i] # "active")

(* "A crash after capture is reconciled via this same idempotent entry     *)
(* point": money that arrived in time becomes credits, unless it goes back *)
(* or the plan it paid for is over.                                        *)
CapturedIsFunded ==
    \A i \in Intent :
        order[i] = "COMPLETED" /\ i \notin stale
            ~> grant[i] # "none" \/ order[i] = "REFUNDED" \/ i \in over
=============================================================================
