# TLA+ models of GeoMacro

GeoMacro collects public records from many sources, keeps them as encrypted
objects with a journal in a database, derives risk products from them, and sells
the products to agents that pay per request. It runs as TypeScript and JavaScript
on Cloudflare Workers (D1, Queues, R2, Durable Objects), with Backblaze B2,
Supabase and an EVM chain behind it. Paths below start at the repository root.

The modules here model the five parts whose correctness depends most on
interleavings, leases, retries and crashes, and on which data or money is lost
when it fails:

- **P0-B**, the ingestion spool: producers, an outbox, two fallbacks, a queue and
  its consumers, all around one D1 journal and one bucket;
- **the paid query route**: a claim/prepare/settle/complete protocol between
  route invocations, a Durable Object ledger and a payment facilitator;
- **customer credits**: prepaid plans and packs, funded through PayPal, taken back
  by its refund webhooks and spent with API keys, around D1 tables whose triggers
  have the last word;
- **the Risk Gate's idempotency**: slots, audits and signed events in Postgres,
  and the wrapper that keeps them together;
- **Agent Arena V2**, the contract: markets with fixed odds, whose stakes, reserve,
  bonds and fees are numbers over one balance.

Three disagreements between the code and what its comments and documents say were
found on the way; each has a run of its own ([Findings](#5-findings)).

## 1. Inventory

`PROJECT.json` lists every component with its sources and status. What matters
for modelling:

| component | state it keeps | operations | what is hard | what makes it correct |
|---|---|---|---|---|
| **P0-B producer** `src/workers/ingest-producer.ts`, `p0b-transactional-outbox.ts` | B2 objects; D1 `ingestion_spool_bundles`, `ingestion_spool_queue`, `p0b_archive_outbox`, `p0b_storage_circuit` | `processFetchedBatch`: guard, scan, then per chunk outbox row, B2 PUT and readback, one `db.batch`, readbacks, queue send | B2 and D1 cannot share a transaction; overlapping polls bundle the same records; lost answers | a journal row never precedes its object; a cursor passes only what is durable; sealed payloads survive |
| **P0-B drains** `backlog-drain-cron.ts` | leases on outbox and R2 rows | `drainBacklog`, `drainP0bArchiveOutbox`, `drainR2Fallback`, every tenth minute of the cron | a drain dies holding a lease; a replay races with a poll | everything open is found again |
| **P0-B bundle consumer** `ingest-bundle-consumer.ts` | bundle state, retry count and lease; row states; `normalized_articles` | claim, read B2, check journal, commit in slices of 20, verify, finish, prove, acknowledge; count a failure | 120 s lease that nobody renews; item batches not fenced by it; at-least-once queue with a dead-letter queue | settled once, completely, and acknowledged only then |
| **P0-B single-item consumer** `ingest-consumer.ts` | one row's state, retry count, lease | the same for rows without a bundle | an unfenced INSERT next to a fenced UPDATE | as above, per row |
| **P0-B storage clients** `src/storage/*.ts`, `b2-account-quota.mjs` | B2 and R2 objects, daily tickets | spool, restore, stage | partial failure of object plus index | R2 is never taken for B2 |
| **P0-A poller** `p0a-source-registry.mjs` | source leases, cursors | poll, finish a source | cursor moved past what was not kept | see producer |
| **Commerce ledger** `workers/commerce-ledger/src/index.mjs` | per payment: delivery record, claim token, lease, frozen response; settlement references; usage reservations and daily counters; audit | claim, replay, prepare, complete, release, usage reserve/finalize/release/review, audit upsert | leases lapse under a holder; late requests | token-checked transitions; prepared is not reclaimable |
| **Paid query route** `src/lib/mainnet-intelligence-endpoint.server.ts` and the three client files | none but its locals | the POST handler | any call may time out and be applied later; the settlement may throw after moving funds; crashes anywhere | one charge per payment, one delivery per charge |
| x402 D1 ledger, other paid routes | a second ledger of the same shape; other facilitators | same protocol | same | planned |
| **Customer funding** `customer-paypal-funding.mjs`, `customer-paypal-refund.mjs`, `src/lib/paypal-*.server.ts` | checkout intents, receipts, grants, funding and reversal entries; PayPal's order and capture | create (intent, order, bind), capture (read, GET, claim, POST, GET, fund), refund webhook | the POST is not idempotent and its answer may be lost; 2xx is not settlement; the webhook may precede the funding | one capture; credits once and only for money that arrived; a refund revokes for good |
| **Customer spending** `customer-paid-ledger.mjs`, migrations 0090-0096 | API keys, usage receipts, debits | mint and revoke a key, consume | grant chosen by one statement and charged by another; two triggers count two balances | no grant overdrawn, no charge on what is no longer valid |
| **Risk Gate idempotency** `risk-gate-idempotency.server.ts`, migrations 033, 045 | slot with claim token, lease and expiry; delivered audits | claim, evaluate, complete, release, replay | three writes that no transaction joins; claims taken over after five minutes; clocks of 5 minutes and 24 hours | an answer is audited, signed and of its own request; what was audited is served, not evaluated again |
| **Signed webhook outbox** `webhook-event-outbox.server.ts`, migration 044 | immutable events, one per audit | ensure | repeated by every retry | see above; no delivery worker exists at this commit |
| B2 quota, P1 fan-out, security budget | D1 counters | tickets, budgets | counters at their limit, day change | planned |
| **Agent Arena V2** `contracts/AgentArenaV2.sol` | per market: status, verdict, winner, stakes, pools, bond, votes, requirement; reserve and its shares, dispute pool, pending fees; the balance | liquidity in and out, create, stake, declare, dispute, vote, finalize, claim, retry, set rates | long legal call sequences; rates read later than the stakes they apply to; rounding; transfers that fail | always covered by the balance; worst cases reserved, so that settlements do not revert; providers are not diluted |
| Multisig treasury, key registry, Arena V1 (Solidity) | proposals, keys | one transaction each | long legal call sequences | planned (V1: superseded) |
| scoring, news products, edge caches, collectors, web site, operations | projections, caches, pure computation, I/O | – | – | not modelled, see section 9 |

**Interactions.** A source poll (P0-A) calls the producer with the records of its
window and moves the source's cursor if all were accepted. The producer writes
B2, then D1, then sends a bundle message. The queue hands messages to the bundle
consumer, which passes messages without a bundle to the single-item consumer.
The cron re-sends messages of unsettled bundles and replays outbox and R2 rows by
calling the producer again, so that the drains, the polls and the consumers meet
in the same D1 rows. The paid route calls the facilitator (verify, settle) and,
between, the Durable Object, whose requests are storage transactions. The customer
routes of the web site call PayPal and the control-plane Worker in turn; the Worker
alone writes the tables that the ledger reads when a key is used. The Risk Gate
wrapper calls Postgres functions around the evaluation.

The list of hazards, each at the line where it bites and with the properties that
would notice it, is `hazards` in `PROJECT.json`.

## 2. Modules

```
P0bStore ── P0bSettlement ── P0bProducer ── P0bProducerInv ── P0bProducerProofs
    │              ▲ refines      ▲    └── MCP0bProducer │             │
    │              │              └─── refines ──── P0bPipeline ── P0bConsumerProofs
    └───────── P0bConsumer ── P0bConsumerInv ────────────┘
                   └── P0bItemConsumer ──┴── P0bQueue ── MCP0bConsumer
                              └── P0bItemConsumerProofs

CommerceLedger ── PaidQuery ── PaidQueryInv ── MCPaidQuery
                      │ refines      └── PaidQueryProofs
                      ▼
                PaidDelivery

               ┌── PrepaidGrants ──┐
CustomerGrants ┼── CustomerLedger ─┴── CustomerSpending ── MCCustomerSpending
               │        └──────────────┐     │ instance
               └── CustomerFunding ── CustomerCredits ── CustomerCreditsProofs
                        │ refines
                        ▼
                   PrepaidGrants

RiskGate ── RiskGateProofs

AgentArena ── MCAgentArena
     └── AgentArenaProofs
```

`SumLemmas`, about sums over finite sets, is used by the proofs of the producer, the
paid route, the credits and the Arena.

| module | what it is |
|---|---|
| `P0bStore` | the D1 tables all P0-B workers share, and the producer's `db.batch` against them |
| `P0bSettlement` | abstract: what consumers do to a journaled bundle (admit, commit, abandon) |
| `P0bConsumer` | `handleBundleQueueBatch` and `drainBacklog`, one action per awaited statement |
| `P0bConsumerInv`, `P0bConsumerProofs` | inductive invariant, theorems |
| `P0bPipeline` | producers, drains and replays with the real consumers, over the same tables and one queue; its theorems are in `P0bConsumerProofs` |
| `P0bItemConsumer` | the loop of `handleQueueBatch` over rows without a bundle |
| `P0bQueue` | the dispatch of `handleQueueBatch`: the same invocations with either kind of message |
| `P0bItemConsumerProofs` | inductive invariant, theorems |
| `P0bProducer` | `processFetchedBatch` and its three callers: polls, outbox drain, R2 drain, composed with `P0bSettlement` in place of the consumers |
| `P0bProducerInv`, `P0bProducerProofs` | inductive invariant, theorems |
| `PaidDelivery` | abstract: charge, deliver, review |
| `CommerceLedger` | the Durable Object, one operator per request |
| `PaidQuery` | the route's invocations, the facilitator, and the network, composed with the ledger |
| `PaidQueryInv`, `PaidQueryProofs` | inductive invariant, theorems |
| `CustomerGrants` | the grants, which all flows of prepaid credits share |
| `PrepaidGrants` | abstract: pay, grant, refund, revoke |
| `CustomerFunding` | checkout, `captureCustomerPayPalOrder`, the funding batch, the refund webhook, and PayPal |
| `CustomerLedger` | keys and usage receipts in D1 and the invocations that spend: what the queries compute and the triggers admit, and the properties of every flow that uses them |
| `CustomerSpending` | keys and `consumeCanonicalCustomerPaid`, over `CustomerLedger` and the grants of `PrepaidGrants` |
| `CustomerCredits` | funding and spending composed: the grants one flow makes are those the other uses |
| `CustomerCreditsProofs` | inductive invariants, theorems about each flow and both |
| `RiskGate` | the claim, completion and release functions, the audit trigger, and `handleIdempotentExternalRiskGateRequest` |
| `RiskGateProofs` | inductive invariant, theorems |
| `AgentArena` | every function of `AgentArenaV2` that moves funds or decides a market |
| `AgentArenaProofs` | inductive invariants, theorems |
| `SumLemmas` | lemmas: what the library's sum over a finite set is, and how it changes |

`MC*` modules only give the constants values. Modules also hold, next to some
definitions, a *mutant*: the definition with a plausible bug, used by no
specification. `PROJECT.json` pairs each property with a mutant that breaks it.

**Composition.** The producers are composed with `P0bSettlement` and not with
`P0bConsumer`, whose interleavings would multiply theirs; that `P0bConsumer`
implements `P0bSettlement` under `[open states -> PENDING]` is checked
(`ImplementsSettlement`) and proved (`ConsumerImplementsSettlement`). Conversely
`P0bConsumer` takes from the producers only what `JournalBatch` can do, at any
time and in any order, and that producers and drains touch the shared tables only as
`P0bSettlement` allows is proved too (`ProducerKeepsSettlement`). `P0bPipeline` closes
the circle: there a step is one of a producer, drain or replay of `P0bProducer`, with the
message it sends, or one of a consumer of `P0bConsumer`; nothing abstract is left, and
that it implements both `P0bConsumer` and the composition of the producers with
`P0bSettlement` is proved.

In the same way `CustomerFunding` implements `PrepaidGrants`, checked (`ImplementsPrepaidGrants`) and
proved (`FundingImplementsGrants`), and `CustomerSpending` is composed with
`PrepaidGrants`: its grants appear and disappear between any two statements.
`CustomerCredits` then replaces the abstraction by the flow that implements it; the
theorems about it are proved from those about its parts, and it has no run of its own.

## 3. How state and actions correspond to the code

### P0-B

| model | code |
|---|---|
| `Candidate`, `Sha` | a record as one source offers it; its `candidate_sha256`, which two sources may share |
| `Uri`, `Manifest` | a B2 URI, which fixes the bundle's digest and manifest |
| `bundleState`, `rowState`, `rowUri`, `article` | the columns of the same meaning in the three tables |
| `leaseOwner`, `leaseLive` | `locked_until`: whose value is stored, and whether it is in the future. Fences compare the stored value, claims compare it with the clock, so both are needed |
| `messages` | a set: at least one copy is in the queue. Duplicates are messages that stay after a crash or are sent again |
| `cpc`, `run[w].pc` | where an invocation stands between two awaits |
| `b2` | URIs whose object the bucket holds |
| `outSealed`, `r2Sealed` | the ordered payload of a row. Replays keep the order, because URI and item clocks come from the row's `first_seen_at` |
| `held` | `p0b_storage_circuit.hold_until` in the future |

One action is one awaited statement. Statements are merged only where no other
step can tell: a failing read is the failure of the action that uses it (a failed
read of the outbox row is the fault of `Spool`; a failed read of the circuit is
`Evicted`, since nothing has happened yet); a consumer's claim whose answer is lost is
`Claim` followed by `Crash`. `D1Error` may follow the statement's own action as well as
replace it, which is what "the answer was lost" means. Every row that a drain
takes is an invocation of its own, so that a drain's second row may find the
circuit tripped.

Abstractions worth knowing: the byte limit of a chunk is folded into `ChunkLimit`;
a poll window never contains two records of the same source and digest; a row
put back by the outbox drain is due again after 60 s, hence by the next tick ten
minutes later, while the R2 drain backs off up to an hour, which lets younger rows
through its LIMIT, so that only the outbox selection has one. The exception that
keeps a cursor back when the fetch itself was answered from a fallback is left
out (it only removes steps). The state `HELD_FOR_REVIEW` of rows is not reachable
for bundled rows: a dead-lettered bundle leaves its rows PENDING. Encryption,
hashing and JSON shapes are what make `Manifest` a function of the URI.

### Paid query

| model | code |
|---|---|
| `Payment` | a payment fingerprint. It covers the payload with its quote, so that the same fingerprint with other terms (`CONFLICT`) does not reach the ledger |
| `Invocation` | an execution of the POST handler; its claim token is fresh, so `token` stores the invocation |
| `state`, `token`, `live`, `stored`, `reference` | the delivery record |
| `usedBy` | the `settlement:` keys |
| `usage`, `counter` | the reservation and the payer's counters of the day |
| `inv[i]` | the handler's place and the locals it decides on later (`usageReservation.enforced`, `manualReview`, `settlement.transaction`, whether settle threw) |
| `late` | requests whose caller timed out. `Handle` applies one at any later time; it may also never be applied |
| `charges`, `pending`, `elsewhere` | what the facilitator did: moved funds, may yet move them after an exception, or found the authorization used by somebody else's payload |

The facilitator is external and is deliberately weak: it moves funds whenever it
is asked to and never deduplicates, so that "charged once" rests on the ledger
alone. It is trusted in one respect, that an explicit refusal means no funds
moved. `SettledElsewhere` stands for a sibling payload of the same authorization
and makes `duplicate_settlement` answers possible.

The model spans one UTC day, the Durable Object mode and the production
environment. The frozen response of a payment is the same for all its invocations,
so `stored` is a Boolean. A failed replay call stops an invocation before it has
done anything. Prequotes, telemetry and the Supabase mode come before or beside
the protocol and are left out.

### Customer credits

| model | code |
|---|---|
| `Intent` | a checkout intent; order, capture, receipt, grant and funding entry are unique per intent, so it names all of them |
| `intent`, `grant` | the `state` and `status` columns. A receipt, its grant and its funding entry are one batch, a reversal and its revocation another, so `grant` stands for all |
| `live`, `over`, `stale` | the three comparisons with a clock: `expires_at` of the intent, the 30 days of a plan, and the settlement window of the funding check |
| `order`, `asked`, `late` | PayPal's order, how many capture POSTs were sent for it, and those it may still perform after their caller timed out |
| `webhook` | refunds that were not yet answered with 200 |
| `capt[c]` | an invocation of the capture route, with the state its first read returned |
| `key`, `keyGrant`, `usage` | `api_keys` with the grant whose expiry the key was given; `customer_usage_receipts`, each with its debit |
| `spend[s]` | an invocation of `consumeCanonicalCustomerPaid`, with the grant it has chosen |

PayPal is external and weak: it may decline, hold a capture back for review after
it answered 2xx, perform one late, and give the money back. It is trusted to say
COMPLETED only when money arrived. That the webhook route refuses a delivery whose
transmission time is too old (`paypal-api.server.ts:128-132`) is folded into redelivery, on
the assumption that a repeated delivery has a current one. The modelled triggers are
those of the last migration that defines them. A plan's `Credits` and `ExpiresAt` are constants of its
intent. The clock of `CustomerSpending` ticks between any two statements. Login
sessions, signatures and attestations are not modelled; every check of the code is
per customer, so one customer's tables are.

### Risk Gate

| model | code |
|---|---|
| `slot` | the row of one client and `request_id`, with state, payload hash, claim token and audit |
| `lease`, `fresh` | `updated_at` less than five minutes ago; `expires_at` in the future |
| `audits`, `payload` | the delivered audits of that `request_id` in their order, and what each was evaluated from |
| `window`, `recent` | the audits the claim reconciles the slot with, and those the duplicate trigger sees |
| `unheld` | audits whose writer did not hold the slot, or not any more; a ghost, for the exception in the properties |
| `event`, `served` | audits with a signed event; the 200 answers sent, and whether their invocation had claimed the slot |
| `FindNoClient`, `EvaluateUnclaimed` | `identifyClient` answers null because its lookup or upgrade failed (lines 146, 156, 162); lines 429-432 then run the handler, which authenticates again, without a claim |

A claim that answers CONFLICT or IN_PROGRESS changes nothing and is left out, as
is every error answer. So is an evaluation without a claim whose own authentication
fails: it writes no delivered audit. The evaluation with its quota and data is
one outcome: a delivered audit, or not. The completed branch at
`045_idempotency_audit_reconciliation.sql:202-211` is never reached in the model: a
completed slot always has an audit in its window, which the branch before it
returns. `WEBHOOK_OUTBOX_ENABLED=true` is assumed.

### Agent Arena

| model | code |
|---|---|
| `status`, `verdict`, `winner`, `bond`, `votes` | `marketStatus`, `tentativeWinner`, `marketWinner`, the dispute bond, the jury's ballots and counts |
| `stakes`, `pool`, `claimed` | the stakes of an agent on a side, `hawkTotal` and `doveTotal`, `hasClaimed` |
| `fixedOdds` | the markets created while `fixedOddsEnabled`; the others are paid parimutuel |
| `requirement`, `totalReserved`, `liquidityReserve`, `liquidityShares`, `totalShares` | the state of the reserve, under the contract's names |
| `Forward`, `Kept`, `pendingTreasury` | `_pushToTreasury`, whose transfer may fail and is then kept for `retryTreasuryTransfer`, together with the payout of the same transaction |
| `lapsed` | the dispute or the voting window of a market is over; it may be at any time |
| `balance` | what the contract holds |

A transaction is one action, with every internal call; a revert is no step, so a
`require` is a conjunct. The model starts after `initializeFixedOddsV2`.
`marketEconomicsSettled` is set by the step that sets FINALIZED, and only for
fixed-odds markets, so it is left out. The setters of the winner fees are folded into
`Claim`, which picks any rate they may have set, because no other function reads
them. A pause only withholds steps. The jury is fixed, anyone with a stake on the
losing side may dispute, and payouts to users are not refused.

## 4. Properties and runs

| run | module, cfg | shows | states |
|---|---|---|---|
| `queue_worker` | `MCP0bConsumer`, `P0bConsumer.cfg` | TypeOK, CommittedIsComplete, AckedIsSettled, ArticleJournalParity, NoPartialAdmission, SettledIsFinal, ImplementsSettlement, BundlesSettle; ItemTypeOK, AckedIsStored, ItemsStaySettled | 229 083 |
| `producer_race` | `MCP0bProducer`, `P0bProducer.cfg` | ProducerTypeOK, AdvancedIsDurable, ArchivedIsCovered, SealedUntilArchived | 1 372 083 |
| `producer_r2` | `P0bProducerR2.cfg` | AdvancedIsDurable with R2 in play, R2VerifiedIsJournaled, R2Replayed | 220 986 |
| `cursor_past_inadmissible` | `P0bAdmissible.cfg` | *violated:* AdvancedIsAdmissible | – |
| `outbox_replay_stuck` | `P0bOutboxLive.cfg` | *violated:* OutboxReplayed | – |
| `paid_query` | `MCPaidQuery`, `PaidQuery.cfg` | TypeOK, ChargedOnce, DeliveredIsPaid, CountersMatch, ProjectionsFollowLedger, ImplementsPaidDelivery | 828 052 |
| `paid_daily_ceiling` | `PaidQueryCeiling.cfg` | *violated:* DailyCeiling | – |
| `customer_funding` | `CustomerFunding`, `CustomerFunding.cfg` | TypeOK, CapturedOnce, ImplementsPrepaidGrants, RefundRevokes, CapturedIsFunded | 39 109 |
| `customer_spending` | `MCCustomerSpending`, `CustomerSpending.cfg` | SpendingTypeOK, WithinGrant, OfferedIsAccepted, ChargedIsCurrent | 917 698 |
| `risk_gate` | `RiskGate`, `RiskGate.cfg` | TypeOK, AnswerIsBacked, DeliveredIsServed | 550 316 |
| `agent_arena` | `MCAgentArena`, `AgentArena.cfg` | TypeOK, Backed, ReservedUnlessBalanced, NeverDiluted | 4 795 144 |
| `arena_rate_zero` | `AgentArenaRateZero.cfg` | *violated:* WorstCaseReserved | – |

Each property is stated in words above its definition.

### Bounds, and why they are enough

- **`MaxFaults`** (`MaxFailures` in the producer) bounds crashes, lost answers, failed
  calls, dropped messages, leases that lapse under a working holder, time-outs and settlements elsewhere.
  Each hazard listed needs one or two of them; three allow a late invocation to
  meet a successor that itself failed. A lease that lapses when nobody works
  under it is free in P0-B; in `PaidQuery` it counts as a fault.
- **Bundle consumer:** two invocations, three offers of two records, two bundles
  that share a record, three failures before the dead letter, slices of one item.
  The shared record is what makes one bundle's journal incomplete; slices of one
  make a two-item bundle need two transactions. The daily ceiling of 3 is never
  reached, because a held drain does stop re-sending until the next day and
  `BundlesSettle` would not hold; for safety a held drain only takes steps away.
- **Queue worker:** a behaviour of the run carries one kind of message (`kind`, chosen at the
  start), because the two write disjoint rows. Two items let a late invocation meet its
  successor on one while the other keeps the queue busy; `MaxItemRetries` is 2, so that
  items run out of failures within three faults.
- **Producer:** one poll and one drain of overlapping windows of two sources that
  share a record, chunks of two. Every batch, order and URI over these candidates
  is included. The consumers run for two overlapping bundles (`Consumed`). The
  admissibility instance uses one source whose window grows.
- **R2:** one poll, one R2 drain, three faults, and two sources that offer one
  record, so that two staged batches compete for its row and the loser meets the
  exception in `R2Replayed`. The R2 object and its index row are one step: the code
  writes the object first and reads it back, and nothing finds an object without its row, so a
  failure between the two is a batch that was not staged, with an orphan in the bucket that no
  property sees.
- **Outbox liveness:** the drain's `limit` parameter is 1, the least the code
  accepts; with its default of 2 the same counterexample takes two stuck rows.
- **Paid query:** three invocations over three payments of one payer at one
  price: every assignment is an initial state, among them three invocations of one
  payment, two that race while a third competes for the limits, and one of each.
  Two references let payments be settled under one or under two. The limits allow
  two payments by amount, or one by number in the ceiling instance, so that
  reservations are refused. Invocations, references and payments are
  symmetric (payer and price are the same); there is no liveness in that run.
- **Customer funding:** one checkout, since no statement reads two of them, of a
  monthly plan, which has every clock a pack has and one more. Three invocations:
  one that captures, one that raced with its claim, and one that reconciles; three
  faults, which time out the capture and stop two invocations.
- **Customer spending:** a plan of two credits that expires with the one tick of the
  clock, and a pack of two that does not; a request of one credit for either and one of two
  that only the pack covers, so that the per-grant sum refuses what the customer's
  sum would allow and expiry decides the order of choice. One active key at a time and
  two in all, two invocations, which are symmetric, one fault.
- **Risk Gate:** two payloads, two invocations and two audits under one id let an
  evaluation be overtaken, released and followed by another payload's, whose slot
  then expires; three faults let a holder overrun, its audit's answer be lost and its
  successor crash, or a lookup fail so that an evaluation runs beside a claim. A third
  audit would repeat the second.
- **Arena:** two markets, two stakers, one provider, two jurors who must agree. Stakes
  of 100 under a total of 300 (`MaxPool`) make balanced and one-sided markets, let one
  market's requirement compete with the other's and leave room for a stake after a
  settlement; the bonds meet their floor and their cap; burning 95 of 100 shares leaves a
  remainder that rounding acts on, and two movements of liquidity (`MaxMoves`) fill the
  reserve and take from it; `MaxKept` lets a fee be kept. The loss rates are 0, the least the
  code accepts, and its initial 500: in this instance the reserve is in fact less than what is
  reserved, by the 5 that `ReservedUnlessBalanced` allows. `arena_rate_zero` has the same
  constants.

`CHECK_DEADLOCK FALSE` stands in `paid_query`, where all invocations are done in the
end, in `customer_funding`, where a checkout that expires before its order is bound
leads nowhere, in `customer_spending`, where all keys may have expired or been
revoked, and in `agent_arena`, where every market may be settled and claimed and the
bounds used up. In the other runs something can always happen.

### Fairness

- An invocation that runs goes on to its next statement or is evicted, which is a
  fault (weak fairness of its steps): a Worker's awaits have timeouts.
- The ten-minute tick in `workers/control-plane/src/index.mjs:1362-1377` keeps
  calling the drains while P0-B admission is switched on: weak fairness of
  `DrainBacklog`, and strong fairness of claiming a row that is selected again and
  again, since a lease may make it unavailable in between.
- The queue delivers a message that it keeps being given (strong fairness of
  `Claim` or `AckDuplicate` per bundle). It may drop any finite number of copies.
- Time passes: leases lapse and holds expire.
- The buyer of an approved checkout, or somebody for him, keeps calling the capture
  route (strong fairness of `ReadIntent`): the code has no other entry to
  reconciliation, which is why `CapturedIsFunded` needs it.
- PayPal delivers a webhook again until it is answered with 200.
- A Risk Gate client repeats each of its requests (strong fairness of `Claim` per
  payload), as the `Retry-After` of the error answers asks it to.
- Polls, producers, senders, refunds and faults owe nothing.

There is no positive liveness property of the outbox: `outbox_replay_stuck` shows
that the code has none. The paid route has none to state either: a client may
never come back, and a payment under review is closed by a person.

## 5. Findings

1. **`cursor_past_inadmissible`** – after a failed row readback a chunk is
   reported as not durable, but the next poll finds its rows and reports them
   durable; the cursor passes records whose bundle no consumer will ever admit.
   `AdvancedIsDurable` is what does hold.
2. **`outbox_replay_stuck`** – a replay whose records another run journaled opens
   no outbox row and so never archives its own; it is put back and, oldest first
   under the LIMIT, keeps younger sealed payloads from being replayed. A batch in
   R2 whose record another source journaled is put back for ever in the same way
   (the exception in `R2Replayed`), but it backs off and starves nobody.
3. **`paid_daily_ceiling`** – a failing invocation releases its claim before its
   reservation, and the reservation belongs to the payment: a retry in between
   relies on a reservation that is then taken away, and settles uncounted. No fault is
   needed. `CountersMatch` is what does hold: the counters always agree
   with the reservations.
4. **`arena_rate_zero`** – `setLossTreasuryBps` accepts 0 and requires that nothing is
   reserved, not that no market is open. At rate 0 a market with equal sides reserves
   nothing; the owner may raise the rate to 500 over it, another market may reserve the whole
   reserve, and the first one's settlement takes the treasury's share out of that, so that
   the second one's reverts until somebody adds liquidity. The comment of
   `contracts/AgentArenaV2.sol:143` has the "worst-case reserve locked across OPEN
   fixed-odds markets". At a positive rate a stake so small that its share rounds to 0
   (`stake` only asks for more than 0) does the same by a unit.
   `ReservedUnlessBalanced` is what does hold, at every rate, and `Backed` with it.

Observations without a run of their own:

- **Single-item consumer.** `ingest-consumer.ts:70-71` says that neither the article nor
  the committed state "can succeed separately, even if another consumer raced". The
  batch is atomic, but a fenced UPDATE that matches no row is no error: an invocation
  whose lease was taken over still inserts the article, and the row may end as a dead
  letter. What holds is the other direction, a conjunct of `IInv`, and `AckedIsStored`:
  a message is acknowledged only when its article or its dead letter is there.
- **Outbox parity.** `docs/ops/P0B_D1_OUTBOX_HISTORICAL_RECOVERY.md:10` asks for zero
  mismatches between archived outbox rows and journal rows. Of two runs that bundle
  overlapping batches the second archives its row with fewer rows under its URI
  than items, for ever. `ArchivedIsCovered` is what does hold: every digest has a
  row, if under another URI.
- **Paid query.** A reservation whose answer timed out is not released
  (`mainnet-intelligence-endpoint.server.ts:909-912`), so it uses up the payer's
  day. A record that was prepared once is reclaimed as prepared, so that an
  uncharged payment can end under review.
- **Funding.** A capture that completes more than five minutes after the intent's
  expiry is never funded (`customer-paypal-funding.mjs:202-207`), nor is a monthly
  plan reconciled after its 30 days; the exceptions in `CapturedIsFunded` say so. A
  capture that PayPal declines, or never performs, leaves its intent
  `capture_requested` for ever. A partial refund revokes the whole grant.
- **Spending.** Credits used before their refund leave a negative remainder in the
  customer's sum (migration 0091:38 and :59), which then blocks debits and keys of another,
  funded grant; that is the exception in `OfferedIsAccepted`. The catch path of
  consume (`customer-paid-ledger.mjs:186-191`) answers a replay without the grant check
  that the comment at :164 describes.
- **Risk Gate.** When the INSERT of a delivered audit commits but its answer is
  lost, the holder releases its claim; exact retries then evaluate again and are refused
  by the duplicate trigger for 24 hours, although the comments at
  `risk-gate-idempotency.server.ts:388-393` and :594-595 have the retry answered from the
  audit. When the lookup or the upgrade of `identifyClient` fails once
  (`risk-gate-idempotency.server.ts:146`, :156, :162) the evaluation runs without a claim
  (:429-432) and may store a delivered audit and answer 200 with neither slot nor event, although
  the comment at :388-390 has "a successful Risk Gate response [...] not returned until one
  immutable signed structured webhook event is durable". Its audit, or that of an
  evaluation that outlived its claim, is reconciled with a slot of another payload
  that was claimed meanwhile, although migration 045:158-161 speaks of an audit "created by this
  exact idempotency claim". `unheld` marks these audits. `AnswerIsBacked` and `DeliveredIsServed`
  therefore promise an event to claimed and replayed answers only, and the right payload and the
  service of retries only where the writer held the slot. And
  since the slot's clock starts before the audit's, a request of the same id is refused
  for as long as the first evaluation took, after the slot has expired.
- **Arena.** The replaced juror of a running dispute keeps the vote given.
  `retryTreasuryTransfer` and the setters are not paused, although the comment at :302-303
  speaks of every function that moves funds or changes state.

## 6. What is proved

All proof modules are checked by TLAPS for every value of the constants that
satisfies the named assumptions (`StoreAssumption`, `ConsumerAssumption`,
`ItemConsumerAssumption`, `ProducerAssumption`; `LedgerAssumption`, `FaultAssumption`;
`FundingAssumption`, `CreditsAssumption`; `GateAssumption`; `ArenaAssumption`): any number
of candidates, bundles, invocations, payments, references, checkouts, payloads, markets and
users, any limits and any number of faults. The assumptions say that sentinels are not
values, that limits are naturals, that what is summed over is finite, that a manifest is
not empty and holds a digest once, and that amounts and rates are in the ranges the code
accepts. One theorem, `SettlementsAreFunded`, has a hypothesis besides, `RateWaits`, which the
code does not guarantee (section 5); `ReservedAtEveryRate` needs none.

Every invariant and every action property of the passing runs is stated by a theorem.

**`P0bConsumerProofs`.** `IInv` adds to the properties what relates rows that no
lease protects to what an invocation has seen: a row belongs to the bundle it
names (`RowsBelong`), a digest has one row (`OneRowPerDigest`), and `StagesOK`,
which says what holds at each stage of the handler *whatever other invocations do
meanwhile*. The argument is that a journal which equalled its manifest once never
changes again: rows are inserted only for unjournaled digests and never deleted,
and the manifest's digests are all journaled. Hence the check made before the
item batches still holds after them, an unfenced batch of a late invocation writes
only what the current one would write, and the fence is needed only for the
bundle row. Lemmas separate who writes rows (`RowWriters`) from who writes bundles
(`BundleWriters`), so that each property looks at the few actions that can disturb
it. Theorems: `TypeCorrect`, `BundleCommitIsComplete`, `AckOnlySettled`,
`AdmissionIsExact`, `NothingPartialAdmitted`, `DeadLetterIsExhaustion` (of
`RetryBudget`), `SettledStaysSettled` (an action property), `ConsumerImplementsSettlement` (the refinement).

**`PaidQueryProofs`.** What makes `ChargedOnce` inductive is `ArmedInv`: an
invocation that has prepared and not settled is the only one of its payment,
nothing was charged yet, and the record is still prepared under its token or has
gone to review. It survives lapsed leases because `prepared` is not reclaimable,
late requests because their token is checked, and late releases because `LateInv`
says that only an invocation which gave up has one under way. `ReferenceInv` makes a
reference evidence of a charge, and `DeliveredInv` keeps each delivered record's
reference its own. The many steps that move no funds are summarised by
relations (`Moves`, `Posts`, `Firm`, `Projects`): `QuietStep` proves the invariant
from the relations once, and each action is shown to satisfy them. `SettleStep`,
`PaymentStep` and `EnvironmentStep` treat the steps that do move funds. Theorems:
`TypeCorrect`, `PaidOnce`, `PaidIsLocked`, `DeliveredWasPaid`,
`ReportedWasDelivered`, `Implementation` (refinement of `PaidDelivery`), and
`CountersAreTrue`: whoever writes a reservation writes its payer's counters in the same
transaction (`UsageWriters`), and adding a payment to the reservations that count, or taking
one away, changes sum and number by its price and by one (`TallyKeepsCounters`), also when the
request comes late or again.

**`P0bProducerProofs`.** The runs hold no lock on what they write, so `ProducerIInv`
(`P0bProducerInv`) has two layers. `RunOK` is about a run's own locals: what is left to
bundle was scanned and has distinct digests, and the chunk under way is a bundle, under the
URI B2 will hold. `Knows` is what it knows of the tables, stage by stage: its outbox row is
there, its object is in B2, what it calls durable is journaled. That survives the other
runs because the tables only move `Forward` (`ForwardStep`): no journaled row loses or
changes its bundle, no object leaves B2, no archived row is reopened and no staged row goes
away. `AdvancedIsDurable` follows with `RowsStored` (a journal row names an object that B2
holds) and `StagedInR2`; `ArchivedIsCovered` from `RowsSealed`, since the row a replay
archives was sealed with the bundle it commits. Theorems: `ProducerTypeCorrect`,
`CursorsPassDurable`, `ArchiveIsCovered`, `VerifiedIsJournaled`, `SealedStaysSealed` (an
action property), `ProducerKeepsSettlement`. They cover R2 switched on or off, which the runs
check apart.

**The pipeline** (`P0bPipeline`, proved at the end of `P0bConsumerProofs`). Either side was
proved against a description of the other: the consumers against `ProducerJournals` and
`ProducerSends`, the producers against `P0bSettlement`. The real ones replace the
descriptions by one induction over both invariants at once (`PipelineIInv`):

- A step of a poll, a drain or a replay journals one batch as `JournalBatch` says, or
  writes no shared table (`CallersJournal`, `CallerTables`), and a message it sends names a
  bundle that has a row (`SentIsJournaled`: the scan sends what a row names, and a
  registered run what it has just read back). To the consumers it is therefore a step of
  their environment (`CallersAreEnvironment`).
- A consumer's step changes no bundle that a row names and takes no row away
  (`ConsumersJournalNothing`), which is all that `ProducerIInv` needs (`ConsumersKeepCallers`).
- `ObjectsComeFirst`, the order B2, D1, queue, is a third conjunct: a claim needs a message, a
  message a bundle row, and the batch that writes the row an object.

Theorems: `PipelineInvariance`; `PipelineImplementsConsumer`, from which every theorem about
the consumers carries over, and `PipelineCursorsPassDurable`. What only the whole can say
follows from both invariants together: `AdvancedReachesSettlement` joins "a cursor passes what
is journaled or in R2" with "an acknowledgement means a settled bundle, and a committed bundle
has its whole journal in the articles" to: what a cursor has passed is in R2, or its row names
a stored object whose acknowledgement leaves it an article or a dead letter.
`VerifiedReachesSettlement` and `ArchiveReachesSettlement` say the same of R2 batches and of
outbox rows, `ArticlesStayArchived` that an article's address is that of a stored object with
its record. The first finding is no contradiction: a record behind an inadmissible bundle ends
as a dead letter, which is the second of the two outcomes.

`PipelineImplementsComposition` is the refinement in the other direction: with open
states taken for PENDING, each step of the pipeline is one of the composition that the
producer runs check, so that the abstract settlement hides no behaviour of the consumers that the
producers could notice. Consumers settle or stutter (`ConsumersSettle`). A producer
that journals or scans must do the same on the abstract tables, which it does because it
asks of a state only whether it is terminal (`ComposedJournal`, `ComposedStore`,
`ComposedBatchStep`). The library's operators that the instance brings in are symbols of
their own; `SameCount` and `SameLeast` identify them with those of the module.

**`P0bItemConsumerProofs`.** `CountInv` (a row that is not a dead letter has failures
left) makes the types inductive; that a committed row has its article follows from the
two statements being one batch and from articles never being taken back, and with it
`AckedIsStored`, since an acknowledgement reads a settled row. Each step is
reduced to what it writes: nothing of the rows (`RowsKept`), or one row that is not
settled (`RowWritten`), from which the invariant and `SettledStaysSettled` follow.
Theorems: `TypeCorrect`, `AckedWasStored`, `SettledStaysSettled`.

**`CustomerCreditsProofs`.** *Funding.* `OneCapture` needs three facts about the claim: what
is unclaimed was never asked for (`UnclaimedIsUnasked`), an invocation about to send
the POST has won the claim and nobody has sent one (`CapturerHasClaimed`), and there is
one such invocation per order (`OneCapturer`). They survive crashes because a claim
is never given back. The refinement (`FundingRefines`) needs two more: proof of a completed
capture stays proof that the money arrived, even if it goes back meanwhile
(`ProofIsPayment`), and a webhook means a refund (`WebhookIsRefund`). Theorems:
`TypeCorrect`, `OneCapture`, `FundingImplementsGrants`.

*Spending.* `SpendInv` joins types, `WithinGrant` and that only what was granted is charged
(`ChargedWasGranted`). A charge is within what remains of its grant because the trigger
looks at that moment's rows, whatever the invocation has read (`ChargeStep`); that the
receipts already there add up as before is a fact about sums. `OfferedIsAccepted` is a
consequence of `WithinGrant`: when no grant is overdrawn, none has a negative remainder, so
that the customer's balance is at least what remains of one grant (`BalanceCovers`), and
the trigger on the whole ledger refuses nothing that the one on the grant admits. Theorems:
`SpendingTypeCorrect`, `NeverOverdrawn`, `OffersHold`, `ChargedOnGoodTerms` (an action
property).

*Both.* Spending is a stutter of the funding flow (`CreditsFund`); by `FundingRefines` the
funding flow is a step of `PrepaidGrants` for spending (`CreditsSpend`). So
`CreditsNeverOverdrawn` carries over, and `CreditsSpentArePaid` joins `ChargedWasGranted` of
the one with `GrantedIsPaid` of the other.

**`RiskGateProofs`.** `AnswerIsBacked` follows from what a claim is reconciled with:
the audits in the slot's window answer the slot's payload or are in `unheld`
(`WindowIsOwn`), since the window is emptied whenever the slot changes its payload and
an audit that enters it is its holder's or marked; and what an invocation carries
answers its own payload and, at completion, has its event (`CarriedIsOwn`). Theorems:
`TypeCorrect`, `BackedAnswers`.

**`AgentArenaProofs`.** `IInv` is `TypeOK`, `Lifecycle` (nothing is claimed before the end, a
dispute has a verdict, a market that does not exist has no stakes), `Booked` (the reserved
total is the sum of the requirements) and `Backed`. Each call is shown to keep the books
(`BooksKept`): `Slack`, the balance less every obligation, never shrinks, and grows
only once a market without fixed odds is finalized. The heart is the settlement, where
stakes, the provider's gain or loss, the treasury's fee and the winners' claims change at once,
and the claim, whose rounded shares may add up to less than their pool but never to more
(`SumScaled`). `NeverDiluted` compares exchange rates by cross-multiplication, since
both the reserve and the shares move.

What is reserved is a second induction, over `Reserved`: an open market has its worse
result reserved at the rate of the moment (`Exact`) or is balanced and has nothing (`Excused`),
and the reserve covers all requirements but for `Missing`, the highest treasury's share of the
balanced markets that were settled. Every step is of one of three kinds (`StepKinds`): it
leaves other requirements alone and the reserve sufficient (`Quiet`), it settles a market, or it
changes the rate. The rate changes only while nothing is reserved, and a market that needs
nothing is balanced (`UnreservedIsBalanced`), so that after the change each open market is
excused. The settlement of an exact market takes what was reserved for it; that of an excused
one takes the treasury's share, which moves to `Missing` (`SettlementKeepsReserved`). With
`RateWaits`, that the rate changes only while no open market is balanced and staked on, nobody is
ever excused, nothing is missing, and the contract's comment is true. Theorems: `TypeCorrect`,
`AlwaysBacked`, `ProvidersAreNeverDiluted` (an action property), `ReservedAtEveryRate`,
`SettlementsAreFunded`.

**`SumLemmas`.** The sums are folds of the community modules, defined by a recursive
function that is only described (`CHOOSE`). The lemmas show that there is such a function on
every finite set and only one (`SumsExist`, `SumsAgree`), that any element may be taken out
first (`SumTakesOut`), and from that how a sum changes when one value does, that it
respects bounds element by element, and that zeros do not matter. An induction principle
with the claim as its parameter cannot be used here; each induction looks at a
smallest subset that violates its claim (`SmallestSubset`) instead.

Each invariant was checked with TLC on the instance of its module's run before it was
proved. `PipelineIInv`, the properties of `P0bPipeline`, `ImplementsComposition` and
`SettledIsFinal` were checked on one poll, one outbox drain and one consumer, two sources that
offer one record, bundles of one and a fault on either side: 1.6 million states. That check
is not among the runs: the cases worth a run need a second consumer and bundles that overlap,
and there the product of the two modules is too large to finish. The parts have
runs on such instances, and the proof joins them.

## 7. What is only model-checked

- Liveness (`BundlesSettle`, `R2Replayed`, `RefundRevokes`, `CapturedIsFunded`,
  `DeliveredIsServed`): temporal reasoning under fairness is out of the prover's
  reach. `BundlesSettle` and `R2Replayed` are checked of the parts; that the pipeline as a
  whole settles what it journals is not stated, since the fairness of each part would have to be
  carried through the refinements.

Nothing else: the runs check the remaining properties on their instances, and the theorems
state them for all. The four violated properties are refuted, by the traces of their runs.

## 8. Plan

Written and checked, in this order: `P0bStore`, `P0bConsumer` (with invariant,
abstraction and proofs), `P0bItemConsumer` (with proofs), `P0bProducer`,
`PaidDelivery`, `CommerceLedger`, `PaidQuery` (with invariant and proofs),
`PrepaidGrants`, `CustomerFunding`, `CustomerSpending`, `RiskGate` (with
proofs), `AgentArena`; then `SumLemmas`, the proofs about the producer, the counters of the
paid route, spending and the Arena, and `CustomerCredits`; then `P0bPipeline` with its proofs.

Next, in order of what depends on it:

1. The relation between the paid route's reservations and its charges: what a counted
   payment with an outcome says of its funds.
2. `X402Ledger`: the D1 delivery ledger (`workers/x402-ledger/src/index.mjs`) as a
   second implementation of `PaidDelivery`, with conditional UPDATEs in place of
   transactions.
3. `CircleBatch`: the Circle route, where one settlement pays for several payments.
4. `B2Quota`: tickets at their daily limit, several workers, day change; then
   `P1Fanout` with its monthly budget.
5. `MultisigTreasury`: no execution below the threshold, also after a change
   of owners; `RiskKeyRegistry`: rotation; the approvals of upgrades and of
   unpausing in `AgentArenaV2`.

Bounds will stay at two or three actors and two data items; runs that ask related
questions of one module are merged as modules are added.

## 9. Not modelled, and why

- **Scoring and evidence engines, risk decisions:** sequential floating-point
  computation without shared state; tests suit them better.
- **News products, edge workers, SDKs, web site:** read-mostly projections and
  caches that are rebuilt.
- **Collectors and ingestors:** I/O around upstream sessions; their results enter
  through the producer.
- **Operations:** deployment and verification scripts.
- Within the modelled components: source leases, due times and admin routes of
  P0-A, the account quota of B2, the prequote vaults and the change of day in the
  ledger, quotes and prequotes, the Supabase mode and the other handlers of the
  endpoint file; one-time passwords, login sessions and the account view of
  customers; the Risk Gate with its webhook outbox switched off; the approvals,
  rotations and pauses of the Arena, receivers that refuse a payout, its first version
  and its proxy.
