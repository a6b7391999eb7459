------------------------------ MODULE P0bQueue ------------------------------
(***************************************************************************)
(* The queue worker (handleQueueBatch): messages of kind P0B_BUNDLE_V1 go  *)
(* to the bundle consumer, all others to the single-item consumer, which   *)
(* the same invocations run.  The two write disjoint rows, so what one kind*)
(* of message does is what it does alone: a behaviour has one kind.        *)
(***************************************************************************)
EXTENDS P0bConsumerInv, P0bItemConsumer

VARIABLE kind   \* which kind of message the queue carries

ownVars   == <<storeVars, bundleRetry, messages, consumerVars>>
queueVars == <<cvars, itemOwnVars, kind>>

QueueInit == Init /\ ItemInit /\ kind \in {"P0B_BUNDLE_V1", "item"}

\* bundleMessages: handleBundleQueueBatch.
BundleStep == kind = "P0B_BUNDLE_V1" /\ Next /\ UNCHANGED itemOwnVars

\* legacyMessages: the loop of handleQueueBatch itself.
LegacyStep == kind = "item" /\ ItemNext /\ UNCHANGED ownVars

QueueNext == (BundleStep \/ LegacyStep) /\ UNCHANGED kind

\* The bundle consumer's fairness; nothing is claimed of items but safety.
QueueSpec == QueueInit /\ [][QueueNext]_queueVars /\ Fairness
=============================================================================
