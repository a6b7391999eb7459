---------------------------- MODULE P0bPipeline ----------------------------
(***************************************************************************)
(* P0-B from the poll to the article: the producers, drains and R2 replays *)
(* of P0bProducer and the bundle consumers of P0bConsumer on the tables    *)
(* they share, with the queue between them.  Each side is the other's      *)
(* environment: a step is a step of one of them, the consumers are the real*)
(* ones instead of P0bSettlement (Consumed and Consumers are not used), and*)
(* the journal batches and messages are those a producer issues instead of *)
(* ProducerJournals and ProducerSends.                                     *)
(***************************************************************************)
EXTENDS P0bConsumerInv, P0bProducerInv

callerVars   == <<b2, outVars, r2Vars, held, run, advanced, failures>>
deliveryVars == <<bundleRetry, consumerVars, faults>>
pipelineVars == <<storeVars, callerVars, messages, deliveryVars>>

PipelineInit == Init /\ ProducerInit

-----------------------------------------------------------------------------

\* The scan finds a row that is not committed: the message of the row's bundle
\* is sent once more.
ScanSends(w) ==
    LET c == run[w].offers[run[w].seen + 1] IN
    /\ Scan(w)
    /\ c \in run'[w].durable \ run[w].durable
    /\ rowState[c] = "PENDING"
    /\ Send(rowUri[c])

\* The readbacks have passed.
RegisterSends(w) ==
    /\ Register(w)
    /\ run'[w].pc = "chunk"
    /\ Send(run[w].uri)

\* A send that fails is caught: the step is then one that sends nothing.
CallerMoves ==
    /\ \/ CallerNext /\ UNCHANGED messages
       \/ \E w \in Worker : ScanSends(w) \/ RegisterSends(w)
    /\ UNCHANGED deliveryVars

\* The queue is at-least-once: an acknowledged message may come again.
Redeliver(u) ==
    /\ u \in acked /\ Send(u)
    /\ UNCHANGED <<storeVars, deliveryVars>>

ConsumerMoves ==
    /\ \/ \E k \in Consumer : ConsumerStep(k)
       \/ ConsumerFault
       \/ \E u \in Uri : DrainBacklog(u) \/ Redeliver(u)
    /\ UNCHANGED callerVars

PipelineNext == CallerMoves \/ ConsumerMoves

PipelineSpec == PipelineInit /\ [][PipelineNext]_pipelineVars

-----------------------------------------------------------------------------
(* Properties.                                                             *)

(* B2 before D1 before the queue: a bundle row, a message and an invocation*)
(* at work all stand for an object B2 holds, so no consumer ever looks for *)
(* one that is not there, whatever died between the three writes.          *)
ObjectsComeFirst ==
    /\ \A u \in Uri : bundleState[u] # "NONE" => u \in b2
    /\ \A u \in messages : bundleState[u] # "NONE"
    /\ \A k \in Consumer : cpc[k] # "idle" => bundleState[cmsg[k]] # "NONE"

\* c's row names a stored object and, once the bundle's message is
\* acknowledged, c is an article of it or waits in a dead letter.
Settles(c) ==
    /\ rowUri[c] \in b2
    /\ rowUri[c] \in acked =>
         article[c] = rowUri[c] \/ bundleState[rowUri[c]] = "DEAD_LETTER"

(* "No cursor advances on failed durability", followed to the end: what a  *)
(* cursor has passed is in R2, or it is journaled and no acknowledgement   *)
(* leaves it anywhere but in an article or a dead letter.                  *)
AdvancedSettles == \A c \in advanced : InR2(c) \/ Settles(c)

(* The same for what a replay has proven: an R2 batch that is B2_VERIFIED. *)
VerifiedSettles ==
    \A b \in Batch : r2State[b] = "B2_VERIFIED" => \A c \in b : Settles(c)

(* An archived outbox row whose bundle's message was acknowledged is       *)
(* admitted whole, or its bundle is a dead letter: its sealed payload could*)
(* be dropped.                                                             *)
ArchivedSettles ==
    \A b \in Batch : outState[b] = "ARCHIVED" /\ outUri[b] \in acked =>
        \/ \A c \in b : article[c] = outUri[b]
        \/ bundleState[outUri[b]] = "DEAD_LETTER"

(* An article's b2_archive_uri is the address of an object that B2 holds   *)
(* and that contains the article's record, and a journal row says so too.  *)
ArticlesAreArchived ==
    \A c \in Candidate : article[c] # NoUri =>
        /\ article[c] \in b2 /\ c \in Manifest[article[c]]
        /\ rowUri[c] = article[c]

(* The producers were composed with P0bSettlement.  With open states taken *)
(* for PENDING the pipeline implements that composition.                   *)
Composed == INSTANCE P0bProducer WITH
    bundleState <- [u \in Uri |-> IF Open(u) THEN "PENDING" ELSE bundleState[u]],
    Consumed <- Uri

ImplementsComposition == Composed!ProducerSpec

\* What each side needs of the other to keep its own invariant.
PipelineIInv == IInv /\ ProducerIInv /\ ObjectsComeFirst
=============================================================================
