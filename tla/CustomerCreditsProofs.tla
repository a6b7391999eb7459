----------------------- MODULE CustomerCreditsProofs -----------------------
(***************************************************************************)
(* Prepaid credits, for every number of checkouts, keys, requests,         *)
(* invocations and faults: a checkout is captured once, the capture flow   *)
(* implements PrepaidGrants, the spending flow never overdraws a grant, and*)
(* the two together let nobody use credits that no money paid for.         *)
(***************************************************************************)
EXTENDS CustomerCredits, SumLemmas, TLAPS

Stages == {"reading", "claiming", "capturing", "verifying", "funding"}
Idles == [pc : {"idle"}, intent : {NoIntent}, seen : {"none"}]
Running == [pc : Stages, intent : Intent, seen : Payable]

(* What is not yet claimed has not been captured.                          *)
UnclaimedIsUnasked ==
    \A i \in Intent : intent[i] \in {"none", "created", "bound"} => asked[i] = 0

(* An invocation about to send the POST has won the claim, and nobody has  *)
(* sent one.                                                               *)
CapturerHasClaimed ==
    \A c \in Capturer : At(c, "capturing") =>
        /\ intent[capt[c].intent] \in {"capture_requested", "funded"}
        /\ asked[capt[c].intent] = 0

OneCapturer ==
    \A c, d \in Capturer :
        At(c, "capturing") /\ At(d, "capturing") /\ capt[c].intent = capt[d].intent
            => c = d

(* Proof of a completed capture stays proof that the money arrived.        *)
ProofIsPayment ==
    \A c \in Capturer :
        At(c, "funding") => order[capt[c].intent] \in {"COMPLETED", "REFUNDED"}

WebhookIsRefund == \A i \in webhook : order[i] = "REFUNDED"

ClaimInv == UnclaimedIsUnasked /\ CapturerHasClaimed /\ OneCapturer

IInv == TypeOK /\ CapturedOnce /\ ClaimInv /\ ProofIsPayment /\ WebhookIsRefund

(***************************************************************************)
(* Invocations.                                                            *)
(***************************************************************************)

(* An invocation that is not idle works on a checkout.                     *)
LEMMA Invocations ==
    ASSUME TypeOK, NEW c \in Capturer
    PROVE  /\ capt \in [Capturer -> Idles \cup Running]
           /\ ~At(c, "idle") => capt[c] \in Running /\ capt[c].intent \in Intent
  BY DEF TypeOK, Idles, Running, Stages, At

(* A step of one invocation leaves the others where they are.              *)
LEMMA Going ==
    ASSUME TypeOK, NEW c \in Capturer, ~At(c, "idle"), NEW stage \in Stages, Goto(c, stage)
    PROVE  /\ capt' \in [Capturer -> Idles \cup Running]
           /\ capt'[c].pc = stage /\ capt'[c].intent = capt[c].intent
           /\ \A d \in Capturer \ {c} : capt'[d] = capt[d]
  <1>1. capt \in [Capturer -> Idles \cup Running] /\ capt[c] \in Running
    BY Invocations
  <1>2. [capt[c] EXCEPT !.pc = stage] \in Running
    BY <1>1 DEF Running
  <1> QED BY <1>1, <1>2 DEF Goto, Running

(* An invocation that ends is idle, and the others are where they were.    *)
LEMMA Stopping ==
    ASSUME TypeOK, NEW c \in Capturer, Stop(c)
    PROVE  /\ capt' \in [Capturer -> Idles \cup Running]
           /\ capt'[c].pc = "idle"
           /\ \A d \in Capturer \ {c} : capt'[d] = capt[d]
  <1>1. capt \in [Capturer -> Idles \cup Running]
    BY Invocations
  <1>2. Idle \in Idles
    BY DEF Idle, Idles
  <1> QED BY <1>1, <1>2 DEF Stop, Idle

(***************************************************************************)
(* Type correctness.                                                       *)
(***************************************************************************)

(* The invariant holds before the first checkout.                          *)
LEMMA InitIInv == Init => IInv
  <1> SUFFICES ASSUME Init PROVE IInv
    OBVIOUS
  <1>1. TypeOK
    BY FundingAssumption DEF Init, TypeOK, Idle, Payable
  <1>2. CapturedOnce /\ ClaimInv /\ ProofIsPayment /\ WebhookIsRefund
    BY DEF Init, CapturedOnce, ClaimInv, UnclaimedIsUnasked, CapturerHasClaimed, OneCapturer,
           ProofIsPayment, WebhookIsRefund, At, Idle
  <1> QED BY <1>1, <1>2 DEF IInv

(* Everything but the places of the invocations.                           *)
StateTyped ==
    /\ intent \in [Intent -> {"none", "created"} \cup Payable]
    /\ live \subseteq Intent /\ over \subseteq Plan /\ stale \subseteq Intent
    /\ grant \in [Intent -> {"none", "active", "revoked"}]
    /\ order \in [Intent -> {"NONE", "CREATED", "APPROVED", "PENDING",
                             "DECLINED", "COMPLETED", "REFUNDED"}]
    /\ asked \in [Intent -> Nat] /\ late \subseteq Intent /\ webhook \subseteq Intent
    /\ faults \in 0..MaxFaults

(* The types of rows and orders, and those of invocations.                 *)
LEMMA TypeParts == TypeOK <=> StateTyped /\ capt \in [Capturer -> Idles \cup Running]
  BY DEF TypeOK, StateTyped, Idles, Running, Stages

(* The same after a step.                                                  *)
LEMMA TypePartsNext == TypeOK' <=> StateTyped' /\ capt' \in [Capturer -> Idles \cup Running]
  BY DEF TypeOK, StateTyped, Idles, Running, Stages

(* Every call leaves the rows, the order and the clocks in their types.    *)
LEMMA TypeStep == ASSUME TypeOK, [Next]_fvars PROVE TypeOK'
  <1> USE FundingAssumption
      DEF StateTyped, Payable, Fault, orderVars, clockVars
  <1>1. StateTyped /\ capt \in [Capturer -> Idles \cup Running]
    BY TypeParts
  <1>2. ASSUME NEW i \in Intent, Checkout(i) PROVE TypeOK'
    <2>1. StateTyped' /\ capt' = capt
      BY <1>1, <1>2 DEF Checkout, PrepareIntent, CreateOrder, BindOrder, Approve
    <2> QED BY <1>1, <2>1, TypePartsNext
  <1>3. ASSUME NEW i \in Intent, Environment(i) PROVE TypeOK'
    <2>1. CASE LateCapture(i) \/ ReviewEnds(i)
      <3>1. StateTyped' /\ capt' = capt
        BY <1>1, <2>1 DEF LateCapture, ReviewEnds, Performed, SettlesAt
      <3> QED BY <1>1, <3>1, TypePartsNext
    <2>2. CASE RefundCapture(i) \/ IntentExpires(i) \/ PlanEnds(i)
      <3>1. StateTyped' /\ capt' = capt
        BY <1>1, <2>2 DEF RefundCapture, IntentExpires, PlanEnds
      <3> QED BY <1>1, <3>1, TypePartsNext
    <2> QED BY <1>3, <2>1, <2>2 DEF Environment
  <1>4. ASSUME NEW i \in Intent, DeliverWebhook(i) PROVE TypeOK'
    <2>1. StateTyped' /\ capt' = capt
      BY <1>1, <1>4 DEF DeliverWebhook
    <2> QED BY <1>1, <2>1, TypePartsNext
  <1>5. ASSUME NEW c \in Capturer, NEW i \in Intent, ReadIntent(c, i) PROVE TypeOK'
    <2>1. [pc |-> "reading", intent |-> i, seen |-> intent[i]] \in Running
      BY <1>5 DEF ReadIntent, Running, Stages
    <2>2. capt' \in [Capturer -> Idles \cup Running]
      BY <1>1, <1>5, <2>1 DEF ReadIntent
    <2>3. StateTyped'
      BY <1>1, <1>5 DEF ReadIntent
    <2> QED BY <2>2, <2>3, TypePartsNext
  <1>6. ASSUME NEW c \in Capturer, CaptureStep(c) \/ Crash(c) PROVE TypeOK'
    <2>1. ~At(c, "idle") /\ capt[c].intent \in Intent
      <3>1. ~At(c, "idle")
        BY <1>6 DEF CaptureStep, GetOrder, ClaimCapture, Capture, VerifyCapture, Fund, Crash, At
      <3> QED BY <3>1, Invocations
    <2>2. (\E stage \in Stages : Goto(c, stage)) \/ Stop(c)
      BY <1>6 DEF CaptureStep, GetOrder, ClaimCapture, Capture, VerifyCapture, Fund, Crash,
                  Stages
    <2>3. capt' \in [Capturer -> Idles \cup Running]
      BY <2>1, <2>2, Going, Stopping
    <2>4. StateTyped'
      <3>1. CASE GetOrder(c) \/ VerifyCapture(c) \/ Crash(c)
        BY <1>1, <3>1 DEF GetOrder, VerifyCapture, Crash
      <3>2. CASE ClaimCapture(c) \/ Fund(c)
        BY <1>1, <2>1, <3>2 DEF ClaimCapture, Fund
      <3>3. CASE Capture(c)
        BY <1>1, <2>1, <3>3 DEF Capture, Performed
      <3> QED BY <1>6, <3>1, <3>2, <3>3 DEF CaptureStep
    <2> QED BY <2>3, <2>4, TypePartsNext
  <1>7. CASE UNCHANGED fvars
    BY <1>7 DEF fvars, TypeOK
  <1> QED BY <1>2, <1>3, <1>4, <1>5, <1>6, <1>7 DEF Next

(***************************************************************************)
(* The invariant.                                                          *)
(***************************************************************************)

(* Before the approval, and in the hands of PayPal, nothing is claimed.    *)
LEMMA CheckoutStep ==
    ASSUME IInv, NEW i \in Intent, Checkout(i)
    PROVE  CapturedOnce' /\ ClaimInv' /\ ProofIsPayment' /\ WebhookIsRefund'
  <1> USE DEF IInv, TypeOK, At, orderVars, clockVars
  <1>1. capt' = capt /\ asked' = asked /\ webhook' = webhook
    BY DEF Checkout, PrepareIntent, CreateOrder, BindOrder, Approve
  <1>2. CapturedOnce'
    BY <1>1 DEF CapturedOnce
  <1>3. \A j \in Intent : \/ intent'[j] = intent[j]
                         \/ /\ intent[j] \in {"none", "created"}
                            /\ intent'[j] \in {"created", "bound"}
    BY DEF Checkout, PrepareIntent, CreateOrder, BindOrder, Approve
  <1>4. ClaimInv'
    <2>1. UnclaimedIsUnasked'
      BY <1>1, <1>3 DEF ClaimInv, UnclaimedIsUnasked
    <2>2. CapturerHasClaimed'
      <3>1. \A c \in Capturer : At(c, "capturing") => capt[c].intent \in Intent
        BY Invocations
      <3> QED BY <1>1, <1>3, <3>1 DEF ClaimInv, CapturerHasClaimed
    <2>3. OneCapturer'
      BY <1>1 DEF ClaimInv, OneCapturer
    <2> QED BY <2>1, <2>2, <2>3 DEF ClaimInv
  <1>5. \A j \in Intent : order[j] \in {"COMPLETED", "REFUNDED"} => order'[j] = order[j]
    BY DEF Checkout, PrepareIntent, CreateOrder, BindOrder, Approve
  <1>6. ProofIsPayment'
    <2>1. \A c \in Capturer : At(c, "funding") => capt[c].intent \in Intent
      BY Invocations
    <2> QED BY <1>1, <1>5, <2>1 DEF ProofIsPayment
  <1>7. WebhookIsRefund'
    BY <1>1, <1>5 DEF WebhookIsRefund
  <1> QED BY <1>2, <1>4, <1>6, <1>7

(* PayPal moves no order away from money that arrived but by a refund, and *)
(* no delivery of a webhook touches claims and captures.                   *)
LEMMA PayPalStep ==
    ASSUME IInv, NEW i \in Intent, Environment(i) \/ DeliverWebhook(i)
    PROVE  CapturedOnce' /\ ClaimInv' /\ ProofIsPayment' /\ WebhookIsRefund'
  <1> USE DEF IInv, TypeOK, At, orderVars, clockVars, Environment, DeliverWebhook
  <1>1. capt' = capt /\ asked' = asked /\ intent' = intent
    BY DEF LateCapture, ReviewEnds, RefundCapture, IntentExpires, PlanEnds
  <1>2. CapturedOnce' /\ ClaimInv'
    BY <1>1 DEF CapturedOnce, ClaimInv, UnclaimedIsUnasked, CapturerHasClaimed, OneCapturer
  <1>3. \A j \in Intent : order[j] \in {"COMPLETED", "REFUNDED"} =>
                            order'[j] = order[j] \/ order'[j] = "REFUNDED"
    BY DEF LateCapture, ReviewEnds, RefundCapture, IntentExpires, PlanEnds, Performed
  <1>4. ProofIsPayment'
    <2>1. \A c \in Capturer : At(c, "funding") => capt[c].intent \in Intent
      BY Invocations
    <2> QED BY <1>1, <1>3, <2>1 DEF ProofIsPayment
  <1>5. webhook' \subseteq webhook \/ RefundCapture(i)
    BY DEF LateCapture, ReviewEnds, IntentExpires, PlanEnds
  <1>6. WebhookIsRefund'
    BY <1>3, <1>5 DEF WebhookIsRefund, RefundCapture
  <1> QED BY <1>2, <1>4, <1>6

(* An invocation that only reads or ends takes over nothing.               *)
LEMMA ReadingStep ==
    ASSUME IInv, NEW c \in Capturer,
           \/ GetOrder(c) \/ VerifyCapture(c) \/ Crash(c)
           \/ \E i \in Intent : ReadIntent(c, i)
    PROVE  CapturedOnce' /\ ClaimInv' /\ ProofIsPayment' /\ WebhookIsRefund'
  <1> USE DEF IInv, orderVars, clockVars
  <1>1. UNCHANGED <<intent, order, asked, webhook>>
    BY DEF GetOrder, VerifyCapture, Crash, ReadIntent
  <1>2. /\ \A d \in Capturer \ {c} : capt'[d] = capt[d]
        /\ capt'[c].pc # "capturing"
        /\ capt'[c].pc = "funding" => order[capt'[c].intent] = "COMPLETED"
    <2>1. CASE GetOrder(c) \/ VerifyCapture(c) \/ Crash(c)
      <3>1. ~At(c, "idle")
        BY <2>1 DEF GetOrder, VerifyCapture, Crash, At
      <3>2. \/ Goto(c, "claiming") \/ Stop(c)
            \/ Goto(c, "funding") /\ order[capt[c].intent] = "COMPLETED"
        BY <2>1 DEF GetOrder, VerifyCapture, Crash, Settled, Verified
      <3> QED BY <3>1, <3>2, Going, Stopping DEF Stages
    <2>2. CASE \E i \in Intent : ReadIntent(c, i)
      <3>1. PICK i \in Intent : ReadIntent(c, i)
        BY <2>2
      <3> QED BY <3>1, Invocations DEF ReadIntent
    <2> QED BY <2>1, <2>2
  <1>3. CapturedOnce' /\ WebhookIsRefund'
    BY <1>1 DEF CapturedOnce, WebhookIsRefund
  <1>4. ClaimInv'
    BY <1>1, <1>2 DEF ClaimInv, UnclaimedIsUnasked, CapturerHasClaimed, OneCapturer, At
  <1>5. ProofIsPayment'
    BY <1>1, <1>2 DEF ProofIsPayment, At
  <1> QED BY <1>3, <1>4, <1>5

(* The conditional UPDATE lets one invocation through, before any POST.    *)
LEMMA ClaimStep ==
    ASSUME IInv, NEW c \in Capturer, ClaimCapture(c)
    PROVE  CapturedOnce' /\ ClaimInv' /\ ProofIsPayment' /\ WebhookIsRefund'
  <1> DEFINE i == capt[c].intent
  <1> USE DEF IInv, orderVars, clockVars
  <1>1. ~At(c, "idle") /\ i \in Intent
    BY Invocations DEF ClaimCapture, At
  <1>2. UNCHANGED <<order, asked, webhook>>
    BY DEF ClaimCapture
  <1>3. CapturedOnce' /\ WebhookIsRefund'
    BY <1>2 DEF CapturedOnce, WebhookIsRefund
  <1>4. CASE Claimable(i) /\ intent' = [intent EXCEPT ![i] = "capture_requested"]
             /\ Goto(c, "capturing")
    <2>1. /\ capt'[c].pc = "capturing" /\ capt'[c].intent = i
          /\ \A d \in Capturer \ {c} : capt'[d] = capt[d]
      BY <1>1, <1>4, Going DEF Stages
    <2>2. intent[i] = "bound" /\ asked[i] = 0
      BY <1>1, <1>4 DEF Claimable, ClaimInv, UnclaimedIsUnasked
    <2>3. \A d \in Capturer : At(d, "capturing") => capt[d].intent # i
      BY <2>2 DEF ClaimInv, CapturerHasClaimed
    <2>4. UnclaimedIsUnasked'
      BY <1>1, <1>2, <1>4 DEF ClaimInv, UnclaimedIsUnasked, TypeOK
    <2>5. CapturerHasClaimed'
      <3>1. intent'[i] = "capture_requested"
            /\ \A j \in Intent \ {i} : intent'[j] = intent[j]
        BY <1>1, <1>4 DEF TypeOK
      <3>2. \A d \in Capturer : At(d, "capturing") => capt[d].intent \in Intent
        BY Invocations DEF At
      <3> QED BY <1>2, <2>1, <2>2, <2>3, <3>1, <3>2 DEF ClaimInv, CapturerHasClaimed, At
    <2>6. OneCapturer'
      BY <2>1, <2>3 DEF ClaimInv, OneCapturer, At
    <2>7. ProofIsPayment'
      BY <1>2, <2>1 DEF ProofIsPayment, At
    <2> QED BY <1>3, <2>4, <2>5, <2>6, <2>7 DEF ClaimInv
  <1>5. CASE Stop(c) /\ UNCHANGED intent
    <2>1. capt'[c].pc = "idle" /\ \A d \in Capturer \ {c} : capt'[d] = capt[d]
      BY <1>5, Stopping
    <2>2. ClaimInv'
      BY <1>2, <1>5, <2>1
         DEF ClaimInv, UnclaimedIsUnasked, CapturerHasClaimed, OneCapturer, At
    <2>3. ProofIsPayment'
      BY <1>2, <2>1 DEF ProofIsPayment, At
    <2> QED BY <1>3, <2>2, <2>3
  <1> QED BY <1>4, <1>5 DEF ClaimCapture

(* The POST is sent once: its sender was alone with the claim.             *)
LEMMA PostStep ==
    ASSUME IInv, NEW c \in Capturer, Capture(c)
    PROVE  CapturedOnce' /\ ClaimInv' /\ ProofIsPayment' /\ WebhookIsRefund'
  <1> DEFINE i == capt[c].intent
  <1> USE DEF IInv, orderVars, clockVars
  <1>1. ~At(c, "idle") /\ i \in Intent /\ At(c, "capturing")
    BY Invocations DEF Capture, At
  <1>2. asked' = [asked EXCEPT ![i] = asked[i] + 1] /\ UNCHANGED <<intent, webhook>>
    BY DEF Capture
  <1>3. asked[i] = 0 /\ intent[i] \in {"capture_requested", "funded"}
    BY <1>1 DEF ClaimInv, CapturerHasClaimed
  <1>4. asked'[i] = 1 /\ \A j \in Intent \ {i} : asked'[j] = asked[j]
    BY <1>1, <1>2, <1>3 DEF TypeOK
  <1>5. /\ capt'[c].pc # "capturing" /\ capt'[c].pc # "funding"
        /\ \A d \in Capturer \ {c} : capt'[d] = capt[d]
    <2>1. Goto(c, "verifying") \/ Stop(c)
      BY DEF Capture
    <2> QED BY <1>1, <2>1, Going, Stopping DEF Stages
  <1>6. \A j \in Intent : order[j] \in {"COMPLETED", "REFUNDED"} => order'[j] = order[j]
    BY <1>1 DEF Capture, Performed, TypeOK
  <1>7. CapturedOnce'
    BY <1>4 DEF CapturedOnce
  <1>8. ClaimInv'
    <2>1. UnclaimedIsUnasked'
      BY <1>2, <1>3, <1>4 DEF ClaimInv, UnclaimedIsUnasked
    <2>2. \A d \in Capturer \ {c} :
              At(d, "capturing") => capt[d].intent \in Intent \ {i}
      BY <1>1, Invocations DEF ClaimInv, OneCapturer, At
    <2>3. CapturerHasClaimed'
      BY <1>2, <1>4, <1>5, <2>2 DEF ClaimInv, CapturerHasClaimed, At
    <2>4. OneCapturer'
      BY <1>5 DEF ClaimInv, OneCapturer, At
    <2> QED BY <2>1, <2>3, <2>4 DEF ClaimInv
  <1>9. ProofIsPayment'
    <2>1. \A d \in Capturer : At(d, "funding") => capt[d].intent \in Intent
      BY Invocations DEF At
    <2> QED BY <1>5, <1>6, <2>1 DEF ProofIsPayment, At
  <1>10. WebhookIsRefund'
    BY <1>2, <1>6 DEF WebhookIsRefund, TypeOK
  <1> QED BY <1>7, <1>8, <1>9, <1>10

(* Funding ends the checkout, also for an invocation still about to ask.   *)
LEMMA FundStep ==
    ASSUME IInv, NEW c \in Capturer, Fund(c)
    PROVE  CapturedOnce' /\ ClaimInv' /\ ProofIsPayment' /\ WebhookIsRefund'
  <1> USE DEF IInv, orderVars, clockVars
  <1>1. UNCHANGED <<order, asked, webhook>> /\ Stop(c)
    BY DEF Fund
  <1>2. capt'[c].pc = "idle" /\ \A d \in Capturer \ {c} : capt'[d] = capt[d]
    BY <1>1, Stopping
  <1>3. \A j \in Intent : intent'[j] = intent[j] \/ intent'[j] = "funded"
    BY DEF Fund, TypeOK
  <1>4. CapturedOnce' /\ WebhookIsRefund'
    BY <1>1 DEF CapturedOnce, WebhookIsRefund
  <1>5. ClaimInv'
    <2>1. \A d \in Capturer : At(d, "capturing") => capt[d].intent \in Intent
      BY Invocations DEF At
    <2>2. CapturerHasClaimed'
      BY <1>1, <1>2, <1>3, <2>1 DEF ClaimInv, CapturerHasClaimed, At
    <2>3. UnclaimedIsUnasked' /\ OneCapturer'
      BY <1>1, <1>2, <1>3 DEF ClaimInv, UnclaimedIsUnasked, OneCapturer, At
    <2> QED BY <2>2, <2>3 DEF ClaimInv
  <1>6. ProofIsPayment'
    BY <1>1, <1>2 DEF ProofIsPayment, At
  <1> QED BY <1>4, <1>5, <1>6

(* The invariant is inductive.                                             *)
LEMMA NextIInv == IInv /\ [Next]_fvars => IInv'
  <1> SUFFICES ASSUME IInv, [Next]_fvars PROVE IInv'
    OBVIOUS
  <1>1. TypeOK'
    BY TypeStep DEF IInv
  <1>2. CapturedOnce' /\ ClaimInv' /\ ProofIsPayment' /\ WebhookIsRefund'
    <2>1. CASE UNCHANGED fvars
      BY <2>1 DEF fvars, IInv, CapturedOnce, ClaimInv, UnclaimedIsUnasked, CapturerHasClaimed,
                  OneCapturer, ProofIsPayment, WebhookIsRefund, At
    <2>2. CASE Next
      BY <2>2, CheckoutStep, PayPalStep, ReadingStep, ClaimStep, PostStep, FundStep
         DEF Next, CaptureStep
    <2> QED BY <2>1, <2>2
  <1> QED BY <1>1, <1>2 DEF IInv

(* What is claimed, captured and proved stays so in every behaviour.       *)
THEOREM Invariance == Spec => []IInv
  BY InitIInv, NextIInv, PTL DEF Spec

(***************************************************************************)
(* The theorems.                                                           *)
(***************************************************************************)

\* Rows, orders, clocks and invocations keep their types, for any number of
\* checkouts and concurrent calls of the capture route.
THEOREM TypeCorrect == Spec => []TypeOK
  BY Invariance, PTL DEF IInv

\* PayPal receives one capture request per order, however many tabs call the
\* route and whichever of them crash or time out.
THEOREM OneCapture == Spec => []CapturedOnce
  BY Invariance, PTL DEF IInv

(* What a step does to the money and the grant of one checkout.            *)
Buys(i) ==
    \/ Money(order'[i]) = Money(order[i]) /\ grant'[i] = grant[i]
    \/ /\ grant'[i] = grant[i] /\ Money(order[i]) = "NO" /\ Money(order'[i]) = "YES"
    \/ /\ grant'[i] = grant[i] /\ Money(order[i]) = "YES" /\ Money(order'[i]) = "REFUNDED"
    \/ /\ Money(order'[i]) = Money(order[i]) /\ Money(order[i]) # "NO"
       /\ grant[i] = "none" /\ grant'[i] = "active"
    \/ /\ Money(order'[i]) = Money(order[i]) /\ Money(order[i]) = "REFUNDED"
       /\ grant[i] = "active" /\ grant'[i] = "revoked"

(* A step that buys for one checkout is a step of PrepaidGrants.           *)
LEMMA BuyingRefines ==
    ASSUME IInv, TypeOK', NEW i \in Intent, Buys(i),
           \A j \in Intent \ {i} : order'[j] = order[j] /\ grant'[j] = grant[j]
    PROVE  [Prepaid!GrantsNext]_Prepaid!grantVars
  <1> DEFINE paid == [j \in Intent |-> Money(order[j])]
             paidNext == [j \in Intent |-> Money(order'[j])]
  <1>1. paidNext = [paid EXCEPT ![i] = Money(order'[i])]
    OBVIOUS
  <1>2. grant' = [grant EXCEPT ![i] = grant'[i]]
    BY DEF IInv, TypeOK
  <1>3. (Money(order'[i]) = Money(order[i]) => paidNext = paid)
        /\ (grant'[i] = grant[i] => grant' = grant)
    BY <1>1, <1>2 DEF IInv, TypeOK
  <1>4. paid[i] = Money(order[i])
    OBVIOUS
  <1> HIDE DEF paid, paidNext
  <1>5. \/ paidNext = paid /\ grant' = grant
        \/ paid[i] = "NO" /\ paidNext = [paid EXCEPT ![i] = "YES"] /\ grant' = grant
        \/ paid[i] = "YES" /\ paidNext = [paid EXCEPT ![i] = "REFUNDED"] /\ grant' = grant
        \/ /\ paid[i] # "NO" /\ grant[i] = "none" /\ paidNext = paid
           /\ grant' = [grant EXCEPT ![i] = "active"]
        \/ /\ paid[i] = "REFUNDED" /\ grant[i] = "active" /\ paidNext = paid
           /\ grant' = [grant EXCEPT ![i] = "revoked"]
    BY <1>1, <1>2, <1>3, <1>4 DEF Buys
  <1> QED BY <1>5 DEF paid, paidNext, Prepaid!GrantsNext, Prepaid!grantVars, Prepaid!Pay,
                      Prepaid!Refund, Prepaid!Grant, Prepaid!Revoke

(* A step of the flow is a step of PrepaidGrants or leaves money and grant.   *)
LEMMA FundingRefines ==
    ASSUME IInv, IInv', [Next]_fvars
    PROVE  [Prepaid!GrantsNext]_Prepaid!grantVars
  <1> USE DEF orderVars, clockVars, Money
  <1>1. TypeOK /\ TypeOK'
    BY DEF IInv
  <1>2. CASE UNCHANGED <<order, grant>>
    BY <1>2 DEF Prepaid!grantVars
  <1>3. ASSUME NEW i \in Intent, Buys(i),
               \A j \in Intent \ {i} : order'[j] = order[j] /\ grant'[j] = grant[j]
        PROVE  [Prepaid!GrantsNext]_Prepaid!grantVars
    BY <1>1, <1>3, BuyingRefines
  <1>4. ASSUME NEW i \in Intent, Checkout(i) PROVE [Prepaid!GrantsNext]_Prepaid!grantVars
    <2>1. Buys(i) /\ \A j \in Intent \ {i} : order'[j] = order[j] /\ grant'[j] = grant[j]
      BY <1>1, <1>4 DEF TypeOK, Checkout, PrepareIntent, CreateOrder, BindOrder, Approve, Buys
    <2> QED BY <1>3, <2>1
  <1>5. ASSUME NEW i \in Intent, Environment(i) PROVE [Prepaid!GrantsNext]_Prepaid!grantVars
    <2>1. Buys(i) /\ \A j \in Intent \ {i} : order'[j] = order[j] /\ grant'[j] = grant[j]
      BY <1>1, <1>5 DEF TypeOK, Environment, LateCapture, ReviewEnds, RefundCapture,
                        IntentExpires, PlanEnds, Performed, Buys
    <2> QED BY <1>3, <2>1
  <1>6. ASSUME NEW i \in Intent, DeliverWebhook(i)
        PROVE  [Prepaid!GrantsNext]_Prepaid!grantVars
    <2>1. order[i] = "REFUNDED" /\ order' = order
      BY <1>6 DEF IInv, WebhookIsRefund, DeliverWebhook
    <2>2. Buys(i) /\ \A j \in Intent \ {i} : order'[j] = order[j] /\ grant'[j] = grant[j]
      BY <1>1, <1>6, <2>1 DEF TypeOK, DeliverWebhook, Buys
    <2> QED BY <1>3, <2>2
  <1>7. ASSUME NEW c \in Capturer, Capture(c) \/ Fund(c)
        PROVE  [Prepaid!GrantsNext]_Prepaid!grantVars
    <2>1. capt[c].intent \in Intent
      BY <1>1, <1>7, Invocations DEF Capture, Fund, At
    <2>2. PICK i \in Intent : i = capt[c].intent
      BY <2>1
    <2>3. CASE Capture(c)
      <3>1. Buys(i) /\ \A j \in Intent \ {i} : order'[j] = order[j] /\ grant'[j] = grant[j]
        BY <1>1, <2>2, <2>3 DEF TypeOK, Capture, Performed, Buys
      <3> QED BY <1>3, <3>1
    <2>4. CASE Fund(c)
      <3>1. order[i] \in {"COMPLETED", "REFUNDED"} /\ order' = order
        BY <2>2, <2>4 DEF IInv, ProofIsPayment, Fund
      <3>2. Buys(i) /\ \A j \in Intent \ {i} : order'[j] = order[j] /\ grant'[j] = grant[j]
        BY <1>1, <2>2, <2>4, <3>1 DEF TypeOK, Fund, Fundable, Buys
      <3> QED BY <1>3, <3>2
    <2> QED BY <1>7, <2>3, <2>4
  <1>8. ASSUME NEW c \in Capturer,
               \/ GetOrder(c) \/ ClaimCapture(c) \/ VerifyCapture(c) \/ Crash(c)
               \/ \E i \in Intent : ReadIntent(c, i)
        PROVE  [Prepaid!GrantsNext]_Prepaid!grantVars
    BY <1>2, <1>8 DEF GetOrder, ClaimCapture, VerifyCapture, Crash, ReadIntent
  <1>9. CASE UNCHANGED fvars
    BY <1>2, <1>9 DEF fvars
  <1> QED BY <1>4, <1>5, <1>6, <1>7, <1>8, <1>9 DEF Next, CaptureStep

\* However the flow crashes, repeats and overtakes itself, it implements
\* PrepaidGrants: credits once, for money that arrived, and back only with it.
THEOREM FundingImplementsGrants == Spec => ImplementsPrepaidGrants
  <1>1. Init => Prepaid!GrantsInit
    BY DEF Init, Prepaid!GrantsInit, Money
  <1> QED BY <1>1, FundingRefines, Invariance, PTL
     DEF Spec, ImplementsPrepaidGrants, Prepaid!GrantsSpec

-----------------------------------------------------------------------------
(* An instance has its own copy of the library and of the tables.          *)

(* Its sum over a set is the library's.                                    *)
LEMMA SameSum ==
    ASSUME NEW f, NEW V
    PROVE  Spending!SumFunctionOnSet(f, V) = SumFunctionOnSet(f, V)
BY DEF Spending!SumFunctionOnSet, Spending!FoldFunctionOnSet, Spending!MapThenFoldSet,
       SumFunctionOnSet, FoldFunctionOnSet, MapThenFoldSet

(* The sum of a function is the sum over its domain.                       *)
LEMMA SameSumOfAll == ASSUME NEW f PROVE Spending!SumFunction(f) = SumFunctionOnSet(f, DOMAIN f)
BY SameSum DEF Spending!SumFunction

-----------------------------------------------------------------------------
(***************************************************************************)
(* Spending: the module's specification, with the money of the checkout as *)
(* PayPal sees it.                                                         *)
(***************************************************************************)

\* Only what was granted was ever charged.
ChargedWasGranted == \A g \in Intent : grant[g] = "none" => Spending!ChargedTo(g) = {}

SpendInv == Spending!TypeOK /\ Spending!WithinGrant /\ ChargedWasGranted

(* It asks the same of the tables, and its triggers admit the same.        *)
LEMMA SameLedger ==
    /\ \A g : Spending!Used(g) = Used(g) /\ Spending!ChargedTo(g) = ChargedTo(g)
    /\ Spending!Listed = Listed /\ \A k : Spending!KeyValid(k) <=> KeyValid(k)
    /\ \A r : Spending!Affordable(r) = Affordable(r)
    /\ \A G : Spending!Earliest(G) = Earliest(G)
    /\ \A k, g, r : Spending!Accepted(k, g, r) <=> Accepted(k, g, r)
<1>1. \A g : Spending!ChargedTo(g) = ChargedTo(g)
  BY DEF Spending!ChargedTo, ChargedTo
<1>2. \A g : Spending!Used(g) = Used(g)
  BY <1>1, SameSum DEF Spending!Used, Used
<1>3. \A g : Spending!Remaining(g) = Remaining(g)
  BY <1>2 DEF Spending!Remaining, Remaining
<1>4. Spending!Balance = Balance
  <2>1. [g \in Intent |-> Spending!Remaining(g)] = [g \in Intent |-> Remaining(g)]
    BY <1>3
  <2> QED BY <2>1, SameSumOfAll DEF Spending!Balance, Balance, SumFunction
<1>5. /\ Spending!Listed = Listed /\ \A k : Spending!KeyValid(k) <=> KeyValid(k)
      /\ \A G : Spending!Earliest(G) = Earliest(G)
  BY DEF Spending!Listed, Listed, Spending!KeyValid, KeyValid, Spending!Unexpired, Unexpired,
         Spending!Earliest, Earliest
<1>6. \A r : Spending!Affordable(r) = Affordable(r)
  BY <1>3, <1>5 DEF Spending!Affordable, Affordable
<1>7. \A k, g, r : Spending!Accepted(k, g, r) <=> Accepted(k, g, r)
  BY <1>3, <1>4, <1>5 DEF Spending!Accepted, Accepted, Spending!ReceiptValid, ReceiptValid,
                          Spending!DebitGuard, DebitGuard
<1> QED BY <1>1, <1>2, <1>5, <1>6, <1>7

(* What a grant was charged is a sum of costs.                             *)
LEMMA UsedIsNat ==
    ASSUME NEW g \in Intent
    PROVE  /\ Spending!Used(g) \in Nat /\ IsFiniteSet(Spending!ChargedTo(g))
           /\ Spending!Remaining(g) \in Int
<1>1. IsFiniteSet(Spending!ChargedTo(g)) /\ Spending!ChargedTo(g) \subseteq Request
  BY CreditsAssumption, FS_Subset DEF Spending!ChargedTo
<1>2. \A r \in Spending!ChargedTo(g) : Cost[r] \in Nat
  BY <1>1, CreditsAssumption
<1>3. Spending!Used(g) \in Nat
  BY <1>1, <1>2, SumOfNaturals, SameSum DEF Spending!Used
<1>4. Credits[g] \in Nat
  BY CreditsAssumption
<1> QED BY <1>1, <1>3, <1>4 DEF Spending!Remaining

(* The ledger's balance is at least what remains of one grant, when none is*)
(* overdrawn.                                                              *)
LEMMA BalanceCovers ==
    ASSUME NEW g \in Intent, \A h \in Intent : Spending!Remaining(h) \in Nat
    PROVE  Spending!Balance \in Nat /\ Spending!Remaining(g) <= Spending!Balance
<1> DEFINE f == [h \in Intent |-> Spending!Remaining(h)]
<1>1. \A h \in Intent : f[h] \in Nat
  OBVIOUS
<1>2. Spending!Balance = SumFunctionOnSet(f, Intent) /\ f[g] = Spending!Remaining(g)
  BY SameSumOfAll DEF Spending!Balance
<1> HIDE DEF f
<1> QED BY <1>1, <1>2, CreditsAssumption, SumOfNaturals

(* Some grant of several expires first.                                    *)
LEMMA EarliestIsOne ==
    ASSUME NEW G \in SUBSET Intent, G # {}
    PROVE  Spending!Earliest(G) \in G
<1> DEFINE T == {ExpiresAt[g] : g \in G}
<1>1. T \subseteq Nat /\ T # {}
  BY CreditsAssumption
<1>2. PICK n \in T : \A k \in T : n <= k
  BY <1>1, LeastNatural
<1>3. \E g \in G : \A h \in G : ExpiresAt[g] <= ExpiresAt[h]
  BY <1>2
<1> QED BY <1>3 DEF Spending!Earliest

-----------------------------------------------------------------------------
(* Type correctness.                                                       *)

(* Nothing is granted or charged at first.                                 *)
LEMMA SpendInit == ASSUME Spending!Init PROVE SpendInv
<1> USE DEF Spending!Init, Spending!LedgerInit
<1>1. Spending!GrantsTypeOK
  BY DEF Spending!GrantsInit, Spending!GrantsTypeOK
<1>2. Spending!TypeOK
  BY <1>1, CreditsAssumption, FundingAssumption DEF Spending!TypeOK, Spending!GrantsTypeOK,
                                                    Spending!SpendingTypeOK, Spending!LedgerTypeOK
<1>3. \A g \in Intent : Spending!ChargedTo(g) = {}
  BY DEF Spending!ChargedTo
<1>4. Spending!WithinGrant
  <2> SUFFICES ASSUME NEW g \in Intent PROVE Spending!Used(g) <= Credits[g]
    BY DEF Spending!WithinGrant
  <2>1. Spending!Used(g) = 0
    BY <1>3, SumOfNone, SameSum DEF Spending!Used
  <2>2. Credits[g] \in Nat
    BY CreditsAssumption
  <2> QED BY <2>1, <2>2
<1> QED BY <1>2, <1>3, <1>4 DEF SpendInv, ChargedWasGranted

(* An invocation goes on, or ends.                                         *)
LEMMA Spends ==
    ASSUME Spending!TypeOK, NEW s \in Spender, spend[s].pc # "idle"
    PROVE  /\ spend[s] \in Spending!Invocation
           /\ Spending!Stop(s) =>
                spend' \in [Spender -> {Spending!NotSpending} \cup Spending!Invocation]
           /\ \A stage \in {"prior", "replaying", "choosing", "charging", "rechecking",
                            "confirming"} :
                Spending!Goto(s, stage) =>
                    spend' \in [Spender -> {Spending!NotSpending} \cup Spending!Invocation]
<1>1. spend[s] \in Spending!Invocation
  BY DEF Spending!TypeOK, Spending!SpendingTypeOK, Spending!LedgerTypeOK, Spending!NotSpending
<1>2. spend \in [Spender -> {Spending!NotSpending} \cup Spending!Invocation]
  BY DEF Spending!TypeOK, Spending!SpendingTypeOK, Spending!LedgerTypeOK
<1>3. ASSUME Spending!Stop(s)
      PROVE  spend' \in [Spender -> {Spending!NotSpending} \cup Spending!Invocation]
  BY <1>2, <1>3 DEF Spending!Stop
<1>4. ASSUME NEW stage \in {"prior", "replaying", "choosing", "charging", "rechecking",
                           "confirming"},
             Spending!Goto(s, stage)
      PROVE  spend' \in [Spender -> {Spending!NotSpending} \cup Spending!Invocation]
  <2>1. [spend[s] EXCEPT !.pc = stage] \in Spending!Invocation
    BY <1>1 DEF Spending!Invocation
  <2>2. spend' = [spend EXCEPT ![s] = [spend[s] EXCEPT !.pc = stage]]
    BY <1>4 DEF Spending!Goto
  <2> QED BY <1>2, <2>1, <2>2
<1> QED BY <1>1, <1>3, <1>4

(* What changes neither grants nor receipts leaves the sums alone.         *)
LEMMA SameCharges ==
    ASSUME SpendInv, UNCHANGED <<grant, usage>>
    PROVE  Spending!WithinGrant' /\ ChargedWasGranted'
<1>1. \A g \in Intent : Spending!ChargedTo(g)' = Spending!ChargedTo(g)
  BY DEF Spending!ChargedTo
<1>2. \A g \in Intent : Spending!Used(g)' = Spending!Used(g)
  BY <1>1 DEF Spending!Used
<1> QED BY <1>1, <1>2 DEF SpendInv, Spending!WithinGrant, ChargedWasGranted

(* A step that writes neither grants nor receipts.                         *)
LEMMA PlainSteps ==
    ASSUME SpendInv, UNCHANGED <<Spending!grantVars, usage>>,
           \/ Spending!Tick
           \/ \E k \in Key : Spending!MintKey(k) \/ Spending!RevokeKey(k)
           \/ \E s \in Spender :
                \/ \E k \in Key, r \in Request : Spending!FindKey(s, k, r)
                \/ Spending!ReadPrior(s) \/ Spending!ReadGrantsAgain(s) \/ Spending!ChooseGrant(s)
                \/ Spending!Readback(s) \/ Spending!Crash(s)
           \/ UNCHANGED Spending!svars
    PROVE  SpendInv'
<1> USE DEF Spending!keyVars, Spending!grantVars
<1>1. Spending!GrantsTypeOK'
  BY DEF SpendInv, Spending!TypeOK, Spending!SpendingTypeOK, Spending!LedgerTypeOK,
         Spending!GrantsTypeOK
<1>2. usage' \in [Request -> [key : Key, grant : Intent] \cup {Nothing}]
  BY DEF SpendInv, Spending!TypeOK, Spending!SpendingTypeOK, Spending!LedgerTypeOK
<1>3. ASSUME UNCHANGED keyVars, now' \in 0..MaxNow, lost' \in 0..MaxFaults,
             spend' \in [Spender -> {Spending!NotSpending} \cup Spending!Invocation]
      PROVE  SpendInv'
  <2>1. Spending!TypeOK'
    BY <1>1, <1>2, <1>3 DEF SpendInv, Spending!TypeOK, Spending!SpendingTypeOK,
                            Spending!LedgerTypeOK, keyVars
  <2> QED BY <2>1, SameCharges DEF SpendInv
<1>4. CASE Spending!Tick
  <2>1. now' \in 0..MaxNow
    BY <1>4, CreditsAssumption DEF Spending!Tick, SpendInv, Spending!TypeOK,
                                   Spending!SpendingTypeOK, Spending!LedgerTypeOK
  <2> QED BY <1>3, <1>4, <2>1 DEF Spending!Tick, SpendInv, Spending!TypeOK,
                                  Spending!SpendingTypeOK, Spending!LedgerTypeOK, keyVars
<1>5. ASSUME NEW k \in Key, Spending!MintKey(k) \/ Spending!RevokeKey(k) PROVE SpendInv'
  <2>1. /\ key \in [Key -> {"none", "active", "revoked"}]
        /\ keyGrant \in [Key -> Intent \cup {Nothing}]
        /\ \A l \in Key : key[l] = "none" <=> keyGrant[l] = Nothing
    BY DEF SpendInv, Spending!TypeOK, Spending!SpendingTypeOK, Spending!LedgerTypeOK
  <2>2. /\ key' \in [Key -> {"none", "active", "revoked"}]
        /\ keyGrant' \in [Key -> Intent \cup {Nothing}]
        /\ \A l \in Key : key'[l] = "none" <=> keyGrant'[l] = Nothing
    <3>1. CASE Spending!MintKey(k)
      <4>1. PICK g \in Intent : keyGrant' = [keyGrant EXCEPT ![k] = g]
        BY <3>1 DEF Spending!MintKey
      <4>2. key' = [key EXCEPT ![k] = "active"] /\ g # Nothing
        BY <3>1, CreditsAssumption DEF Spending!MintKey
      <4> QED BY <2>1, <4>1, <4>2
    <3>2. CASE Spending!RevokeKey(k)
      BY <2>1, <3>2 DEF Spending!RevokeKey
    <3> QED BY <1>5, <3>1, <3>2
  <2>3. UNCHANGED <<now, spend, lost>>
    BY <1>5 DEF Spending!MintKey, Spending!RevokeKey
  <2>4. Spending!TypeOK'
    BY <1>1, <1>2, <2>2, <2>3 DEF SpendInv, Spending!TypeOK, Spending!SpendingTypeOK,
                                  Spending!LedgerTypeOK
  <2> QED BY <2>4, SameCharges DEF SpendInv
<1>6. ASSUME Spending!Fault PROVE lost' \in 0..MaxFaults
  BY <1>6, FundingAssumption DEF Spending!Fault, SpendInv, Spending!TypeOK,
                                 Spending!SpendingTypeOK, Spending!LedgerTypeOK
<1>7. ASSUME NEW s \in Spender, NEW k \in Key, NEW r \in Request, Spending!FindKey(s, k, r)
      PROVE  SpendInv'
  <2> DEFINE e == [pc |-> "prior", key |-> k, request |-> r, grant |-> Nothing]
  <2>1. e \in Spending!Invocation
    BY DEF Spending!Invocation
  <2>2. spend' = [spend EXCEPT ![s] = e] /\ UNCHANGED <<keyVars, now, lost>>
    BY <1>7 DEF Spending!FindKey, keyVars
  <2>3. /\ spend \in [Spender -> {Spending!NotSpending} \cup Spending!Invocation]
        /\ now \in 0..MaxNow /\ lost \in 0..MaxFaults
    BY DEF SpendInv, Spending!TypeOK, Spending!SpendingTypeOK, Spending!LedgerTypeOK
  <2> HIDE DEF e
  <2>4. spend' \in [Spender -> {Spending!NotSpending} \cup Spending!Invocation]
    BY <2>1, <2>2, <2>3
  <2> QED BY <1>3, <2>2, <2>3, <2>4
<1>8. ASSUME NEW s \in Spender,
             \/ Spending!ReadPrior(s) \/ Spending!ReadGrantsAgain(s) \/ Spending!ChooseGrant(s)
             \/ Spending!Readback(s) \/ Spending!Crash(s)
      PROVE  SpendInv'
  <2>1. spend[s].pc # "idle"
    BY <1>8 DEF Spending!ReadPrior, Spending!ReadGrantsAgain, Spending!ChooseGrant,
                Spending!Readback, Spending!Crash, Spending!At
  <2>2. /\ UNCHANGED <<keyVars, now>> /\ lost' \in 0..MaxFaults /\ now \in 0..MaxNow
    BY <1>6, <1>8
       DEF Spending!ReadPrior, Spending!ReadGrantsAgain, Spending!ChooseGrant,
           Spending!Readback, Spending!Crash, keyVars, SpendInv, Spending!TypeOK,
           Spending!SpendingTypeOK, Spending!LedgerTypeOK
  <2>3. spend' \in [Spender -> {Spending!NotSpending} \cup Spending!Invocation]
    <3>1. CASE Spending!Stop(s) \/ Spending!Goto(s, "choosing") \/ Spending!Goto(s, "replaying")
      BY <2>1, <3>1, Spends DEF SpendInv
    <3>2. CASE Spending!ChooseGrant(s) /\ Spending!Affordable(spend[s].request) # {}
      <4> DEFINE able == Spending!Affordable(spend[s].request)
                 g == Spending!Earliest(able)
      <4>1. able \subseteq Intent
        BY DEF Spending!Affordable, Spending!Listed
      <4>2. g \in Intent
        BY <3>2, <4>1, EarliestIsOne
      <4>3. spend' = [spend EXCEPT ![s] = [spend[s] EXCEPT !.pc = "charging", !.grant = g]]
        BY <3>2 DEF Spending!ChooseGrant
      <4> HIDE DEF able, g
      <4>4. spend[s] \in Spending!Invocation
        BY <2>1, Spends DEF SpendInv
      <4>5. [spend[s] EXCEPT !.pc = "charging", !.grant = g] \in Spending!Invocation
        BY <4>2, <4>4 DEF Spending!Invocation
      <4>6. spend \in [Spender -> {Spending!NotSpending} \cup Spending!Invocation]
        BY DEF SpendInv, Spending!TypeOK, Spending!SpendingTypeOK, Spending!LedgerTypeOK
      <4> QED BY <4>3, <4>5, <4>6
    <3> QED BY <1>8, <3>1, <3>2
        DEF Spending!ReadPrior, Spending!ReadGrantsAgain, Spending!ChooseGrant,
            Spending!Readback, Spending!Crash
  <2> QED BY <1>3, <2>2, <2>3
<1>9. CASE UNCHANGED Spending!svars
  BY <1>3, <1>9 DEF Spending!svars, keyVars, SpendInv, Spending!TypeOK, Spending!SpendingTypeOK,
                    Spending!LedgerTypeOK
<1> QED BY <1>4, <1>5, <1>7, <1>8, <1>9

(* A charge is within what is left of the grant, whose other charges stay. *)
LEMMA ChargeStep ==
    ASSUME SpendInv, NEW s \in Spender, Spending!Charge(s)
    PROVE  SpendInv'
<1> USE DEF Spending!keyVars
<1>1. /\ spend[s].pc = "charging"
      /\ UNCHANGED <<Spending!grantVars, keyVars, now>>
      /\ lost' = lost \/ Spending!Fault
      /\ Spending!Goto(s, "confirming") \/ Spending!Goto(s, "rechecking")
      /\ \/ /\ Spending!Accepted(spend[s].key, spend[s].grant, spend[s].request)
            /\ usage' = [usage EXCEPT ![spend[s].request] =
                            [key |-> spend[s].key, grant |-> spend[s].grant]]
         \/ usage' = usage
  BY DEF Spending!Charge, Spending!At, keyVars
<1>2. /\ spend[s] \in Spending!Invocation
      /\ spend' \in [Spender -> {Spending!NotSpending} \cup Spending!Invocation]
  BY <1>1, Spends DEF SpendInv
<1>3. spend[s].key \in Key /\ spend[s].request \in Request
  BY <1>2 DEF Spending!Invocation
<1>4. lost' \in 0..MaxFaults
  BY <1>1, FundingAssumption DEF Spending!Fault, SpendInv, Spending!TypeOK,
                                 Spending!SpendingTypeOK, Spending!LedgerTypeOK
<1>5. Spending!GrantsTypeOK' /\ grant' = grant
  BY <1>1 DEF SpendInv, Spending!TypeOK, Spending!SpendingTypeOK, Spending!LedgerTypeOK,
              Spending!GrantsTypeOK,
              Spending!grantVars
<1>6. CASE usage' = usage
  <2>1. Spending!TypeOK'
    BY <1>1, <1>2, <1>4, <1>5, <1>6
       DEF SpendInv, Spending!TypeOK, Spending!SpendingTypeOK, Spending!LedgerTypeOK, keyVars
  <2> QED BY <1>5, <1>6, <2>1, SameCharges DEF SpendInv
<1>7. ASSUME NEW k \in Key, NEW g, NEW r \in Request,
             Spending!Accepted(k, g, r), usage' = [usage EXCEPT ![r] = [key |-> k, grant |-> g]]
      PROVE  SpendInv'
  <2>1. /\ usage[r] = Nothing /\ g \in Intent /\ grant[g] = "active"
        /\ Spending!Remaining(g) >= Cost[r]
    BY <1>7 DEF Spending!Accepted, Spending!ReceiptValid, Spending!Listed
  <2> DEFINE e == [key |-> k, grant |-> g]
  <2>2. e \in [key : Key, grant : Intent] /\ e.grant = g /\ usage' = [usage EXCEPT ![r] = e]
    BY <1>7, <2>1
  <2>3. usage \in [Request -> [key : Key, grant : Intent] \cup {Nothing}]
    BY DEF SpendInv, Spending!TypeOK, Spending!SpendingTypeOK, Spending!LedgerTypeOK
  <2> HIDE DEF e
  <2>4. /\ usage' \in [Request -> [key : Key, grant : Intent] \cup {Nothing}]
        /\ usage'[r] = e /\ \A q \in Request \ {r} : usage'[q] = usage[q]
    BY <2>2, <2>3
  <2>5. e # Nothing
    BY <2>2, CreditsAssumption
  <2>6. Spending!TypeOK'
    BY <1>1, <1>2, <1>4, <1>5, <2>4
       DEF SpendInv, Spending!TypeOK, Spending!SpendingTypeOK, Spending!LedgerTypeOK, keyVars
  <2>7. /\ Spending!ChargedTo(g)' = Spending!ChargedTo(g) \cup {r} /\ r \notin Spending!ChargedTo(g)
        /\ \A h \in Intent \ {g} : Spending!ChargedTo(h)' = Spending!ChargedTo(h)
    <3>1. r \notin Spending!ChargedTo(g)
      BY <2>1 DEF Spending!ChargedTo
    <3>2. \A h, q : q \in Spending!ChargedTo(h)
                       <=> q \in Request /\ usage[q] # Nothing /\ usage[q].grant = h
      BY DEF Spending!ChargedTo
    <3>3. \A h, q : q \in Spending!ChargedTo(h)'
                       <=> q \in Request /\ usage'[q] # Nothing /\ usage'[q].grant = h
      BY DEF Spending!ChargedTo
    <3>4. \A q : q \in Spending!ChargedTo(g)' <=> q \in Spending!ChargedTo(g) \/ q = r
      <4>1. \A q : q \in Spending!ChargedTo(g)'
                      <=> q \in Request /\ usage'[q] # Nothing /\ usage'[q].grant = g
        BY <3>3
      <4>2. \A q : q \in Spending!ChargedTo(g)
                      <=> q \in Request /\ usage[q] # Nothing /\ usage[q].grant = g
        BY <3>2
      <4>3. usage'[r] = e /\ e.grant = g /\ r \in Request /\ e # Nothing
        BY <2>2, <2>4, <2>5
      <4> QED BY <2>4, <4>1, <4>2, <4>3
    <3>5. ASSUME NEW h \in Intent \ {g}, NEW q
          PROVE  q \in Spending!ChargedTo(h)' <=> q \in Spending!ChargedTo(h)
      <4>1. CASE q = r
        BY <2>1, <2>2, <2>4, <3>2, <3>3, <4>1
      <4>2. CASE q # r
        BY <2>4, <3>2, <3>3, <4>2
      <4> QED BY <4>1, <4>2
    <3>6. Spending!ChargedTo(g)' = Spending!ChargedTo(g) \cup {r}
      BY <3>4
    <3>7. \A h \in Intent \ {g} : Spending!ChargedTo(h)' = Spending!ChargedTo(h)
      BY <3>5
    <3> QED BY <3>1, <3>6, <3>7
  <2>8. /\ Spending!Used(g)' = Spending!Used(g) + Cost[r]
        /\ \A h \in Intent \ {g} : Spending!Used(h)' = Spending!Used(h)
    <3>1. SumFunctionOnSet(Cost, Spending!ChargedTo(g) \cup {r})
            = SumFunctionOnSet(Cost, Spending!ChargedTo(g)) + Cost[r]
      <4>1. IsFiniteSet(Spending!ChargedTo(g)) /\ Spending!ChargedTo(g) \cup {r} \subseteq Request
        BY <2>1, UsedIsNat DEF Spending!ChargedTo
      <4>2. \A q \in Spending!ChargedTo(g) \cup {r} : Cost[q] \in Int
        BY <4>1, CreditsAssumption
      <4> QED BY <2>7, <4>1, <4>2, SumOfAdded
    <3>2. \A h : Spending!Used(h) = SumFunctionOnSet(Cost, Spending!ChargedTo(h))
                   /\ Spending!Used(h)' = SumFunctionOnSet(Cost, Spending!ChargedTo(h)')
      BY SameSum DEF Spending!Used
    <3> QED BY <2>7, <3>1, <3>2
  <2>9. Spending!WithinGrant'
    <3>1. Spending!Used(g)' <= Credits[g]
      <4> DEFINE a == Spending!Used(g)
                 b == Cost[r]
                 c == Credits[g]
      <4>1. a \in Nat /\ b \in Nat /\ c \in Nat /\ c - a >= b
        BY <2>1, UsedIsNat, CreditsAssumption DEF Spending!Remaining
      <4>2. Spending!Used(g)' = a + b
        BY <2>8
      <4> HIDE DEF a, b
      <4>3. a + b <= c
        BY <4>1
      <4> QED BY <4>2, <4>3
    <3>2. \A h \in Intent \ {g} : Spending!Used(h)' <= Credits[h]
      BY <2>8 DEF SpendInv, Spending!WithinGrant
    <3>3. \A h \in Intent : Spending!Used(h)' <= Credits[h]
      BY <2>1, <3>1, <3>2
    <3> QED BY <3>3 DEF Spending!WithinGrant
  <2>10. ChargedWasGranted'
    BY <1>5, <2>1, <2>7 DEF SpendInv, ChargedWasGranted
  <2> QED BY <2>6, <2>9, <2>10 DEF SpendInv
<1>8. CASE usage' # usage
  <2>1. \E k \in Key, r \in Request : \E g :
          Spending!Accepted(k, g, r) /\ usage' = [usage EXCEPT ![r] = [key |-> k, grant |-> g]]
    BY <1>1, <1>3, <1>8
  <2> QED BY <1>7, <2>1
<1> QED BY <1>6, <1>8

(* The grants move on as PrepaidGrants allows, and none is ungranted.      *)
LEMMA GrantingStep ==
    ASSUME SpendInv, Spending!FundingStep
    PROVE  SpendInv'
<1> USE DEF Spending!keyVars
<1>1. UNCHANGED <<keyVars, usage, now, spend, lost>>
  BY DEF Spending!FundingStep, keyVars
<1>2. grant \in [Intent -> {"none", "active", "revoked"}]
  BY DEF SpendInv, Spending!TypeOK, Spending!SpendingTypeOK, Spending!LedgerTypeOK,
         Spending!GrantsTypeOK
<1>3. /\ grant' \in [Intent -> {"none", "active", "revoked"}]
      /\ \A g \in Intent : grant'[g] = "none" => grant[g] = "none"
  <2>1. PICK i \in Intent :
          Spending!Pay(i) \/ Spending!Refund(i) \/ Spending!Grant(i) \/ Spending!Revoke(i)
    BY DEF Spending!FundingStep, Spending!GrantsNext
  <2>2. \/ grant' = grant \/ grant' = [grant EXCEPT ![i] = "active"]
        \/ grant' = [grant EXCEPT ![i] = "revoked"]
    BY <2>1 DEF Spending!Pay, Spending!Refund, Spending!Grant, Spending!Revoke
  <2> QED BY <1>2, <2>2
<1>4. Spending!GrantsTypeOK'
  BY <1>3 DEF Spending!GrantsTypeOK, Money
<1>5. Spending!TypeOK'
  BY <1>1, <1>4 DEF SpendInv, Spending!GrantsTypeOK, Spending!TypeOK, Spending!SpendingTypeOK,
                    Spending!LedgerTypeOK, keyVars
<1>6. \A g \in Intent : Spending!ChargedTo(g)' = Spending!ChargedTo(g)
  BY <1>1 DEF Spending!ChargedTo
<1>7. \A g \in Intent : Spending!Used(g)' = Spending!Used(g)
  BY <1>6 DEF Spending!Used
<1> QED BY <1>3, <1>5, <1>6, <1>7 DEF SpendInv, Spending!WithinGrant, ChargedWasGranted

(* The invariant is inductive.                                             *)
LEMMA SpendNext ==
    ASSUME SpendInv, [Spending!Next]_Spending!svars
    PROVE  SpendInv'
<1> USE DEF Spending!grantVars
<1>1. CASE Spending!FundingStep
  BY <1>1, GrantingStep
<1>2. ASSUME NEW s \in Spender, Spending!Charge(s) PROVE SpendInv'
  BY <1>2, ChargeStep
<1>3. CASE Spending!Tick
  <2>1. UNCHANGED <<Spending!grantVars, usage>>
    BY <1>3 DEF Spending!Tick
  <2> QED BY <1>3, <2>1, PlainSteps
<1>4. ASSUME NEW k \in Key, Spending!MintKey(k) \/ Spending!RevokeKey(k) PROVE SpendInv'
  <2>1. UNCHANGED <<Spending!grantVars, usage>>
    BY <1>4 DEF Spending!MintKey, Spending!RevokeKey
  <2> QED BY <1>4, <2>1, PlainSteps
<1>5. ASSUME NEW s \in Spender,
             \/ \E k \in Key, r \in Request : Spending!FindKey(s, k, r)
             \/ Spending!ReadPrior(s) \/ Spending!ReadGrantsAgain(s) \/ Spending!ChooseGrant(s)
             \/ Spending!Readback(s) \/ Spending!Crash(s)
      PROVE  SpendInv'
  <2>1. UNCHANGED <<Spending!grantVars, usage>>
    BY <1>5 DEF Spending!FindKey, Spending!ReadPrior, Spending!ReadGrantsAgain,
                Spending!ChooseGrant, Spending!Readback, Spending!Crash
  <2> QED BY <1>5, <2>1, PlainSteps
<1>6. CASE UNCHANGED Spending!svars
  <2>1. UNCHANGED <<Spending!grantVars, usage>>
    BY <1>6 DEF Spending!svars
  <2> QED BY <1>6, <2>1, PlainSteps
<1>7. CASE Spending!Next
  BY <1>1, <1>2, <1>3, <1>4, <1>5, <1>7 DEF Spending!Next, Spending!Consume
<1> QED BY <1>6, <1>7

(* Types, grants within their credits, and charges only of what was        *)
(* granted.                                                                *)
LEMMA SpendInvariance == Spending!Spec => []SpendInv
<1>1. Spending!Init => SpendInv
  BY SpendInit
<1>2. SpendInv /\ [Spending!Next]_Spending!svars => SpendInv'
  BY SpendNext
<1> QED BY <1>1, <1>2, PTL DEF Spending!Spec

(* No grant is overdrawn unless it was refunded after it was used.         *)
LEMMA NothingOverdrawn ==
    ASSUME SpendInv, NEW g \in Intent,
           grant[g] = "revoked" => Spending!ChargedTo(g) = {}
    PROVE  Spending!Remaining(g) \in Nat
<1>1. Spending!Used(g) \in Nat /\ Credits[g] \in Nat
  BY UsedIsNat, CreditsAssumption
<1>2. grant[g] \in {"none", "active", "revoked"}
  BY DEF SpendInv, Spending!TypeOK, Spending!SpendingTypeOK, Spending!LedgerTypeOK,
         Spending!GrantsTypeOK
<1>3. CASE grant[g] = "active"
  <2>1. Spending!Used(g) <= Credits[g]
    BY DEF SpendInv, Spending!WithinGrant
  <2> QED BY <1>1, <1>3, <2>1 DEF Spending!Remaining
<1>4. CASE grant[g] # "active"
  <2>1. Spending!ChargedTo(g) = {}
    BY <1>2, <1>4 DEF SpendInv, ChargedWasGranted
  <2>2. Spending!Used(g) = 0
    BY <2>1, SumOfNone, SameSum DEF Spending!Used
  <2> QED BY <1>4, <2>2 DEF Spending!Remaining
<1> QED BY <1>3, <1>4

(* If no grant is overdrawn, the whole ledger covers what one grant does,  *)
(* so that the trigger on the balance has no more to say than the one on   *)
(* the grant.                                                              *)
LEMMA OffersAreAccepted ==
    ASSUME SpendInv
    PROVE  Spending!OfferedIsAccepted
<1> SUFFICES ASSUME NEW k \in Key, NEW r \in Request,
                    Spending!KeyValid(k), usage[r] = Nothing, Spending!Affordable(r) # {},
                    \A g \in Intent : grant[g] = "revoked" => Spending!ChargedTo(g) = {}
             PROVE  Spending!Accepted(k, Spending!Earliest(Spending!Affordable(r)), r)
  BY DEF Spending!OfferedIsAccepted
<1> DEFINE g == Spending!Earliest(Spending!Affordable(r))
<1>1. Spending!Affordable(r) \subseteq Intent
  BY DEF Spending!Affordable, Spending!Listed
<1>2. g \in Spending!Affordable(r)
  BY <1>1, EarliestIsOne
<1> HIDE DEF g
<1>3. g \in Intent /\ g \in Spending!Listed \cap Covered[r] /\ Spending!Remaining(g) >= Cost[r]
  BY <1>1, <1>2 DEF Spending!Affordable
<1>4. Spending!ReceiptValid(k, g, r)
  BY <1>3 DEF Spending!ReceiptValid
<1>5. \A h \in Intent : Spending!Remaining(h) \in Nat
  BY NothingOverdrawn
<1>6. Spending!Balance \in Nat /\ Spending!Remaining(g) <= Spending!Balance
  BY <1>3, <1>5, BalanceCovers
<1>7. Cost[r] \in Nat /\ Spending!Remaining(g) \in Nat
  BY <1>3, <1>5, CreditsAssumption
<1>8. Spending!Balance - Cost[r] >= 0
  BY <1>3, <1>6, <1>7
<1>9. Spending!DebitGuard(r)
  BY <1>3, <1>8 DEF Spending!DebitGuard
<1> QED BY <1>4, <1>9 DEF Spending!Accepted, g

(* Only the INSERT of a receipt changes usage, and its triggers look at    *)
(* the rows of that moment.                                                *)
LEMMA ChargesAreCurrent ==
    ASSUME Spending!TypeOK, [Spending!Next]_Spending!svars,
           NEW q \in Request, usage'[q] # usage[q]
    PROVE  /\ usage[q] = Nothing
           /\ Spending!KeyValid(usage'[q].key)
           /\ usage'[q].grant \in Spending!Listed
<1>1. \E s \in Spender : Spending!Charge(s)
  BY DEF Spending!svars, Spending!Next, Spending!Tick, Spending!FundingStep, Spending!MintKey,
         Spending!RevokeKey, Spending!Consume, Spending!FindKey, Spending!ReadPrior,
         Spending!ReadGrantsAgain, Spending!ChooseGrant, Spending!Readback, Spending!Crash
<1>2. PICK s \in Spender : Spending!Charge(s)
  BY <1>1
<1>3. /\ Spending!Accepted(spend[s].key, spend[s].grant, spend[s].request)
      /\ usage' = [usage EXCEPT ![spend[s].request] =
                      [key |-> spend[s].key, grant |-> spend[s].grant]]
  BY <1>2 DEF Spending!Charge
<1>4. usage \in [Request -> [key : Key, grant : Intent] \cup {Nothing}]
  BY DEF Spending!TypeOK, Spending!SpendingTypeOK, Spending!LedgerTypeOK
<1>5. q = spend[s].request /\ usage'[q] = [key |-> spend[s].key, grant |-> spend[s].grant]
  BY <1>3, <1>4
<1> QED BY <1>3, <1>5 DEF Spending!Accepted, Spending!ReceiptValid

-----------------------------------------------------------------------------
(***************************************************************************)
(* The theorems about spending.                                            *)
(***************************************************************************)

\* Grants, keys, receipts, clock and invocations keep their types, and a key
\* has an expiry exactly when it was ever created.
THEOREM SpendingTypeCorrect == Spending!Spec => []SpendingTypeOK
<1>1. SpendInv => SpendingTypeOK
  BY DEF SpendInv, Spending!TypeOK, Spending!SpendingTypeOK, SpendingTypeOK,
         Spending!LedgerTypeOK, LedgerTypeOK, Spending!NotSpending, NotSpending,
         Spending!Invocation, Invocation
<1> QED BY <1>1, SpendInvariance, PTL

\* Whatever rows its invocations have read, and whichever of them crash, a
\* grant is never charged more credits than its checkout bought.
THEOREM NeverOverdrawn == Spending!Spec => []WithinGrant
<1>1. SpendInv => WithinGrant
  BY SameLedger DEF SpendInv, Spending!WithinGrant, WithinGrant
<1> QED BY <1>1, SpendInvariance, PTL

\* The grant query and the triggers agree on what a customer can afford, as
\* long as no credits were used before their refund.
THEOREM OffersHold == Spending!Spec => []OfferedIsAccepted
<1>1. SpendInv => OfferedIsAccepted
  BY OffersAreAccepted, SameLedger DEF Spending!OfferedIsAccepted, OfferedIsAccepted
<1> QED BY <1>1, SpendInvariance, PTL

\* A request is charged once, while its key and its grant are good.
THEOREM ChargedOnGoodTerms == Spending!Spec => ChargedIsCurrent
<1>1. SpendInv /\ [Spending!Next]_Spending!svars =>
        [\A r \in Request : usage'[r] # usage[r] =>
            /\ usage[r] = Nothing
            /\ KeyValid(usage'[r].key)
            /\ usage'[r].grant \in Listed]_usage
  BY ChargesAreCurrent, SameLedger DEF SpendInv
<1> QED BY <1>1, SpendInvariance, PTL DEF Spending!Spec, ChargedIsCurrent

-----------------------------------------------------------------------------
(***************************************************************************)
(* Both flows.                                                             *)
(***************************************************************************)

(* For the funding flow, spending is a stutter.                            *)
LEMMA CreditsFund == CreditsSpec => Spec
<1>1. CreditsInit => Init
  BY DEF CreditsInit
<1>2. [CreditsNext]_<<fvars, spendingVars>> => [Next]_fvars
  BY DEF CreditsNext, FundingNext, SpendingNext
<1> QED BY <1>1, <1>2, PTL DEF CreditsSpec, Spec

(* For the spending flow, the funding flow is what PrepaidGrants allows.   *)
LEMMA CreditsSpend == CreditsSpec => Spending!Spec
<1>1. CreditsInit => Spending!Init
  BY DEF CreditsInit
<1>2. ASSUME IInv, IInv', [CreditsNext]_<<fvars, spendingVars>>
      PROVE  [Spending!Next]_Spending!svars
  <2>1. CASE FundingNext \/ UNCHANGED <<fvars, spendingVars>>
    <3>1. [Prepaid!GrantsNext]_Prepaid!grantVars
      BY <1>2, <2>1, FundingRefines DEF FundingNext
    <3>2. [Spending!GrantsNext]_Spending!grantVars
      BY <3>1 DEF Prepaid!GrantsNext, Prepaid!grantVars, Prepaid!Pay, Prepaid!Refund,
                  Prepaid!Grant, Prepaid!Revoke, Spending!GrantsNext, Spending!grantVars,
                  Spending!Pay, Spending!Refund, Spending!Grant, Spending!Revoke
    <3>3. UNCHANGED <<key, keyGrant, usage, now, spend, lost>>
      BY <2>1 DEF FundingNext, spendingVars
    <3> QED BY <3>2, <3>3
        DEF Spending!Next, Spending!FundingStep, Spending!svars, Spending!keyVars
  <2>2. CASE SpendingNext
    BY <2>2 DEF SpendingNext, Spending!Next
  <2> QED BY <1>2, <2>1, <2>2 DEF CreditsNext
<1> QED BY <1>1, <1>2, CreditsFund, Invariance, PTL DEF CreditsSpec, Spending!Spec

(* What was granted was paid for.                                          *)
GrantedIsPaid == \A i \in Intent : grant[i] # "none" => Money(order[i]) # "NO"

(* A grant is made after its money has arrived, which never becomes        *)
(* unpaid.                                                                 *)
LEMMA GrantsArePaid == CreditsSpec => []GrantedIsPaid
<1>1. Init => GrantedIsPaid
  BY DEF Init, GrantedIsPaid
<1>2. ASSUME IInv, IInv', GrantedIsPaid, [Next]_fvars PROVE GrantedIsPaid'
  <2> DEFINE paid == [i \in Intent |-> Money(order[i])]
             paidNext == [i \in Intent |-> Money(order'[i])]
  <2>1. [Prepaid!GrantsNext]_Prepaid!grantVars
    BY <1>2, FundingRefines
  <2>2. /\ \A i \in Intent : paid[i] = Money(order[i]) /\ paidNext[i] = Money(order'[i])
        /\ grant \in [Intent -> {"none", "active", "revoked"}] /\ DOMAIN paid = Intent
    BY <1>2 DEF IInv, TypeOK
  <2>3. \/ paidNext = paid /\ grant' = grant
        \/ \E i \in Intent : paidNext = [paid EXCEPT ![i] = "YES"] /\ grant' = grant
        \/ \E i \in Intent : paidNext = [paid EXCEPT ![i] = "REFUNDED"] /\ grant' = grant
        \/ \E i \in Intent : /\ paid[i] # "NO" /\ paidNext = paid
                             /\ grant' = [grant EXCEPT ![i] = "active"]
        \/ \E i \in Intent : /\ paid[i] # "NO" /\ paidNext = paid
                             /\ grant' = [grant EXCEPT ![i] = "revoked"]
    BY <2>1 DEF Prepaid!GrantsNext, Prepaid!grantVars, Prepaid!Pay, Prepaid!Refund,
                Prepaid!Grant, Prepaid!Revoke
  <2> HIDE DEF paid, paidNext
  <2>4. \A i \in Intent : grant[i] # "none" => paid[i] # "NO"
    BY <1>2, <2>2 DEF GrantedIsPaid
  <2>5. \A i \in Intent : grant'[i] # "none" => paidNext[i] # "NO"
    BY <2>2, <2>3, <2>4
  <2> QED BY <2>2, <2>5 DEF GrantedIsPaid
<1>3. Spec => []GrantedIsPaid
  BY <1>1, <1>2, Invariance, PTL DEF Spec
<1> QED BY <1>3, CreditsFund, PTL

\* A grant of the composed system is charged no more than its checkout bought.
THEOREM CreditsNeverOverdrawn ==
    CreditsSpec => []WithinGrant
BY NeverOverdrawn, CreditsSpend, PTL

\* Nobody uses credits that no money arrived for, although the two flows share
\* no transaction and each reads rows the other may since have changed.
THEOREM CreditsSpentArePaid ==
    CreditsSpec => []SpentIsPaid
<1>1. ASSUME SpendInv, GrantedIsPaid PROVE SpentIsPaid
  <2> SUFFICES ASSUME NEW r \in Request, usage[r] # Nothing
               PROVE  Money(order[usage[r].grant]) # "NO"
    BY DEF SpentIsPaid
  <2>1. usage[r].grant \in Intent
    BY <1>1 DEF SpendInv, Spending!TypeOK, Spending!SpendingTypeOK, Spending!LedgerTypeOK
  <2>2. r \in Spending!ChargedTo(usage[r].grant)
    BY DEF Spending!ChargedTo
  <2>3. grant[usage[r].grant] # "none"
    BY <1>1, <2>1, <2>2 DEF SpendInv, ChargedWasGranted
  <2> QED BY <1>1, <2>1, <2>3 DEF GrantedIsPaid
<1> QED BY <1>1, SpendInvariance, CreditsSpend, GrantsArePaid, PTL
=============================================================================
