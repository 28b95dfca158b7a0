# Verification of the NovoApex backend

NovoApex sells over WhatsApp. A customer writes to a business; a language model
answers, and when it understands a confirmed basket the backend creates an order,
takes the stock, asks Paystack for a payment link, reminds the customer, and reacts
to the payment, to its absence, or to an operator of the mobile application. The
code is Go (`internal/`, two binaries under `cmd/`), the state is PostgreSQL, the
work between requests travels through asynq queues on Redis.

This directory holds TLA+ models of that code, the TLC configurations that check
them on small instances, and TLAPS proofs of what holds on every instance.
File and line references are to `src/`.

## 1. Inventory

| Component | State | Operations | Talks to | What is hard |
|---|---|---|---|---|
| Checkout (`workers/checkout.go`, `domain/state.go`) | conversation state, orders, product stock, `domain_events` | checkout transaction, state machine | orchestrator (queue), dispatcher | one order per conversation, redelivered tasks, the last item in stock |
| Payment events (`handlers/webhooks_payments.go`, `workers/payment_events.go`) | orders, payments, conversations, follow-ups | webhook, reconcile by reference or by phone and amount, settle, cancel, record, confirm | Paystack, checkout, follow-ups, outbound | seven statements without a transaction, retried from the top; late events |
| Expiry and restock (`workers/checkout_expiry.go`, `workers/restock.go`) | orders, stock, `stock_restored_at` | cron scan, cancel, restock consumer | dispatcher, payment events | stale scan results; at-least-once events |
| Operators (`handlers/orders_write.go`, `handlers/conversations_write.go`) | orders, conversations, outbound rows | PATCH of the status, takeover, release, reply | everything above | write over whatever state they find |
| Dispatcher (`events/`) | `domain_events`, advisory lock | insert, drain, publish, dead-letter | every consumer | fan-out outside the transaction, dying drains, replicas |
| Follow-ups (`workers/followup*.go`) | `scheduled_follow_ups`, late-payment counter | schedule, scan and claim, run, cancel | dispatcher, payment events, expiry, outbound | claim against cancel, half-done schedules, refused enqueues |
| Outbound (`outbound/`, `workers/outbound.go`, `workers/crons.go`) | `outbound_messages`, conversation lock, task ids | flush, record, retry, sweep, inline reply | WhatsApp, all producers | order of messages, duplicates, rows nobody publishes |
| Order consumers (`workers/payment_init.go`, `workers/profile_stats.go`) | `payment_url`, invoices, markers, counters | initiate payment, invoice, count | Paystack, dispatcher, outbound | concurrent and repeated deliveries |
| Task queue (`queue/`) | tasks, retry counts, archive | enqueue, run, retry, archive | all workers | task ids that stay in use |
| Inbound (`handlers/webhooks_whatsapp.go`, `workers/webhook.go`, `idempotency/`) and orchestrator (`workers/orchestrator*.go`) | claimed message ids, webhook jobs, inbound rows, debounce task, escalation flag | claim, store, debounce, turn with guard and re-check, takeover, release | WhatsApp, model, checkout, vendor | redeliveries, claim and queue that fail apart, messages during a turn, overlapping turns, failed turns |
| Payouts (`handlers/payouts_write.go`) | payouts, balance, cached recipient, advisory lock | reserve, create recipient, transfer, record, release | Paystack, payments | transfer outside the lock, lost answers, releases that fail |
| Authentication (`auth/`, `handlers/auth.go`) | one-time codes, tokens | issue, verify, refresh | SMTP, Google | attempt counter, single use |
| Catalogue, images, embeddings, push, retention, new arrivals | products, images, devices, cool-down stamps | edit, upload, embed, notify, re-engage | Cloudinary, OpenAI, Expo | stale tasks |
| Read models, HTTP layer, integrations, configuration, observability, API docs, test harness | none of their own | queries, formatting, I/O | | not modelled (section 9) |

The components meet in four places: shared rows (orders, conversations, outbound
messages), the transactional outbox `domain_events`, the queues, and advisory locks.
The properties that make them correct are, in short: one order per conversation;
stock neither lost nor invented; a recorded payment is never taken away from its
order and ends in a paid one; a cancelled order gives its stock back; every event
reaches every subscriber or is dead-lettered; a reminder is claimed once or cancelled once;
messages leave in order; no message of a customer is dropped silently between the
webhook and a turn; a safety keyword reaches a human; payouts never exceed what a
business was paid; and whatever waits (orders, conversations, events, reminders,
messages) does not wait for ever.

The hazards, each with its line and the properties aimed at it, are in
`PROJECT.json`.

## 2. Modules

| Module | Models | Instance |
|---|---|---|
| `OrderLifecycle` | checkout, conversation state machine, payment events, expiry, restock, operators | `MCOrderLifecycle` |
| `StockLedger` | abstract: what the order code promises about stock | through `OrderLifecycle!StockIsLedger` |
| `OrderLifecycleProofs` | theorems about `OrderLifecycle` | |
| `EventDispatch` | the outbox dispatcher | `MCEventDispatch` |
| `EventDispatchProofs` | theorems about `EventDispatch` | |
| `FollowUps` | schedule, scanner, reminders, cancellation, expiry of unpaid orders | `MCFollowUps` |
| `FollowUpsProofs` | theorems about `FollowUps` | |
| `Outbound` | delivery of one conversation's messages, outbox sweep, inline reply | `MCOutbound` |
| `OutboundProofs` | theorems about `Outbound` | |
| `OrderConsumers` | payment initiation and profile statistics | `MCOrderConsumers` |
| `OrderConsumersProofs` | theorems about `OrderConsumers` | |
| `Inbound` | ingest of WhatsApp messages, debounce, the phases of a turn, takeover and release | `MCInbound` |
| `InboundProofs` | theorems about `Inbound` | |
| `Payouts` | payout requests: reservation, transfer, release | `MCPayouts` |
| `PayoutsProofs` | theorems about `Payouts` | |

Conventions. A database transaction is one action, unless it reads rows and writes
them after other transactions may have committed; then the read and each write are
actions and uncommitted writes are kept apart (`claimed`, `stale`, `outcome`). A
handler that runs statements outside a transaction is one action per statement, with
a failure action that can follow each of them. Queues deliver at least once and in
any order. A message, an order or a payload is a model value. Variables marked
*history* in their declaration exist for the properties and guard no action.
Operators called *Mutant* are deliberate bugs that nothing uses in the models; each
property is known to fail when one of them replaces the definition it stands before.

### OrderLifecycle

An element of `Order` is the confirmed WhatsApp message an order comes from: its id is
the order's idempotency key and, later, the reference of its Paystack transaction.
`status`, `stock`, `restored`, `conv`, `escalated` and `outbox` are the columns and
tables of those names; `payStatus` and `payFor` are the `payments` rows by
`external_reference`; `payPc` is the next statement of the payment-events task of a
reference. `TurnStart`, `TurnReply` and `TurnAbandon` are an orchestrator turn, which
acts on the state it read when it started. `HandleCheckout` is the checkout
transaction. `PayMatch`, `PaySettle`, `PayConversation`, `PayInsert` and `PayNotify`
are the statements of `HandlePaymentEvent`; `PayCrash` ends an attempt before any of
them, and `TaskFails` retries or archives the task of an attempt that ended so. `CancelOrder` is the transaction shared by failed payments and expiry.

Abstractions. Strategy B reads at most five orders per customer and the expiry scan
at most 100; the instances are smaller. An empty reference is not modelled. A webhook
that fails to enqueue is a webhook that does not happen. When an expiry falls due is
the business of `FollowUps`; here it may be any time after the order is open. A payer
one of whose customers has no open order makes strategy B scan a NULL total into a
decimal (`payment_events.go:159-195`): `NullTotal` ends that attempt in an error. The
order intents of the CRM materialiser influence no order. `taken` records that a
conversation's order slot was overridden (release, reopening by PATCH, a payment that
closes a conversation invoicing another order).

### EventDispatch

`row`, `attempts` and `at` are columns of `domain_events`; `outcome` is what a drain
has decided and not committed; `sent[e][s]` counts tasks handed to subscriber `s`.
`occurred_at` is the start of the producer's transaction, so `Insert` picks any
instant that no row has: rows appear out of order. Equal instants are told apart, as the
query's result is in some order anyway.

### FollowUps

Time is the order of deadlines: `FallsDue` and `GraceEnds` let a deadline pass, in the
order in which `scheduled_at` puts them. The scanner reads its rows, claims each
(`Claim`) and commits; a payment may cancel a row between the read and the claim.
An order has one payment event; the events of a reference are `OrderLifecycle`'s
subject. A second delivery of `order.created` needs a failure, as
`EventDispatch!DuplicatesNeedFailure` shows. The 50-row limit of a scan, the missing
conversation and the nil publisher are left out.

### Outbound

One conversation; messages are numbered by `seq`. Runner `m` is the queue task of
message `m`, runner `-m` the inline delivery of reply `m`. A runner waits for the
conversation's advisory lock, reads its backlog, and sends and records one message
after the other. A failed inline delivery ends in the state "delete": its handler has
given the lock up and has yet to delete the row (`DropReply`), and another runner may
send the row in between. Writes that the code only logs when they fail (`sent`,
`failed`, the delete) may be lost, within one budget (`MaxLost`). The sweep works
without that lock. It takes the oldest 100 rows of all conversations; `Window` is how
many of these slots are left for this conversation, and a sweep takes the first of its
rows, up to any age and at most that many (`Stranded`). An archived task keeps its id,
so `Enqueue` drops later publications of it. Messages without a conversation take no lock
and are left out, and so is the nil sender.

### OrderConsumers

Each delivery of `order.created` to a consumer is a task with its own program counter.
`link` is what the provider answered to a call, numbered by call; `url` is
`orders.payment_url`. The statistics transaction holds its marker row (`claim`) from the
insert to the commit and reads the counters without a lock. A customer without a phone,
or a business without a WhatsApp number, gets no invoice (`reachable`); a customer without
a profile is recorded and not counted (`profile`), until a message of his creates one.

### Payouts

A request names its amount in thousandths. The payout row (`NUMERIC(14,2)`) and the
transfer (`ToMinorUnits`) are in hundredths, and both round half up; the comparison with
the balance allows an excess of one thousandth (`wo_moneyEpsilon`). `ReadBalance` and
`Reserve` are one transaction under the business's advisory lock, in two actions because
payments and releases of other requests may commit between them. The rest of a request
runs without a lock: two requests may each create a recipient, and each pays to the one
it knows. `doubtful` remembers requests that count as failed although Paystack made the
transfer, `broken` those that ended without a release. Decoding of the request is left
out. No handler settles a payout later: a transfer that Paystack reports as pending, and
any other answer (`otp`, `failed`, `reversed`; "other" in the model, without a transfer),
leaves its row `PENDING`, and it goes on counting against the balance.

### Inbound

The messages of one sender to one business, numbered by their WhatsApp timestamp.
`claims` is `webhook_events`, `rows` is `inbound_messages`, `linked` those with a
`conversation_id`. A delivery goes through `Receive`, `Claim`, `QueueJob` and
`CommitClaim`; the claim is uncommitted in between, and whoever inserts the same key
waits for it (`ClaimOpen`). `AbandonClaim` is any error, or the death of the request:
it takes the claim back, but not a job that is in Redis already. A webhook job is
`Store`, one transaction, and `PublishTurn`, whose request is dropped while the fixed
task id is in use. A turn is `Mark` (count the rows), `Resolve` (read the flag of the
conversation), `Link` (link the rows), `ReadLatest` (read the newest), then `Pause`, `Escalate` or
`Examine`, `Read`, `Attend`, and at the end `Recheck`, which schedules a turn under a
fresh id when the count has grown. `Fixed` is the turn under the fixed id, `Fresh` are
slots for the others, so that turns of one conversation overlap. The task id is free
only after `EndTurn`.

Failures, all drawn from one budget: an error or a death in the webhook's transaction
(`AbandonClaim`), in a job (`FailJob`, retried or archived), a job handed back by a
worker that shuts down (`AbortJob`; asynq counts no retry then, so the code takes the
next attempt for a duplicate), the first count (`MarkFails`), any call of a turn
(`FailTurn`: the task is discarded, its id free, the re-check skipped), the second
count or the request for another turn (`RecheckFails`), a worker that dies or panics
(`DieTurn`: the task is archived and its id stays in use).

`attended`, `handed`, `overtaken` and `lost` are history. `attended` are messages the
model answered or a turn left to a human; `handed` are keyword messages of a
conversation that a human has; `overtaken` are keyword messages that no guard looks at,
because a newer message of the same burst hides them or because the vendor released the
conversation while a turn was pausing for him; `lost` are the messages a failure, or a
request made after the re-check, leaves without a turn.

Abstractions. The history of a conversation is long enough for its messages: the code
takes the last ten of 24 hours, drops what is older than the last update of the latest
paid order (`orchestrator.go:527-540`) and what precedes a pause of more than two hours
(`orchestrator.go:596-608`). So `attended` says that a turn ran over a message; a message
that waited across such a boundary does not reach the model in that turn. The number is one of a known business, whose
conversation the vendor only touches once it has messages. What an answer may trigger
is `OrderLifecycle`'s subject, its delivery `Outbound`'s. Media either fail to be
processed, which escalates, or have a text.

## 3. Runs

Times are for two TLC workers. `CHECK_DEADLOCK FALSE` is in every configuration: the
bounds end every behaviour, and a shop without customers may stop.

| Run | Instance | Shows |
|---|---|---|
| `order_payments` | 2 orders of one conversation, outcomes success and failed, 2 failed attempts per task with 1 retry | `OneOrderSlot`, `RecordedMeansPaid`, `PaidOrdersBacked`, `PaidNeverCancelled` |
| `order_operators` | 2 orders of 2 products, one of them in stock for one order only, PATCH to CONFIRMED and SHIPPED, takeover and release, 2 payments without a usable reference, one of no order's amount | `TypeOK`, `InvoicingHasOrder`, and `StockIsLedger`: the refinement of `StockLedger` |
| `order_liveness` | 2 orders, one of them charged, 2 failed attempts with 1 retry, fair crons and consumers | `CancelledStockReturns`, `InvoicingLeaves`, `SuccessSettles` |
| `dispatch` | 3 events, 2 subscribers, 2 replicas, batches of 2, 2 attempts, 1 drain that dies | `TypeOK`, `PublishedReachedAll`, `DuplicatesNeedFailure`, `EveryEventSettles` |
| `followup_safety` | 1 order, 2 deliveries, 1 failed attempt, 1 refused enqueue | `TypeOK`, `RemindersExplained`, `CancelledUnsent`, `ExpiredAfterFinal`, `AllThreeScheduled` |
| `followup_liveness` | 1 order, 1 PATCH, 1 failed attempt | `UnpaidExpires`, `NoRowForgotten` |
| `outbound` | 2 messages, one a vendor reply, 1 retry; 1 crash, 2 rejections, 1 timeout, 1 lost write, 1 cancelled request, 1 slot of the sweep's batch | `TypeOK`, `DuplicatesExplained`, `FailedUndelivered`, `InOrder`, `SettlesUnlessArchived` |
| `consumers` | 2 orders of one customer, with or without a phone and a profile, one delivered twice, 1 failed attempt | `TypeOK`, `OneInvoice`, `StatsNeverOver`, `LinkDelivered` |
| `payouts` | 2 requests of one business for 21 and 15 thousandths, 1 of another for 1, revenue up to 2 hundredths, 2 faults | `TypeOK`, `NeverOverdrawn`, `MoneyOutCovered`, `ReservationsExplained`, `PaidWithinBusiness` |
| `inbound` | 2 messages: a keyword that is delivered twice, and media; 1 retry, 2 failures, 2 takeovers or releases, 2 turns at a time; 241,500 states | `TypeOK`, `ClaimNeverOrphaned`, `WaitingIsCovered`, `ClaimedIsAttended`, `KeywordReachesHuman` |
| `order_phone_twice` | 2 orders of one amount, a payment matched by phone, 1 failed attempt | violates `PaidOrdersBacked` |
| `inbound_window` | 2 messages, no failure | violates `EveryMessageSeen` |

Why the bounds are enough to be interesting. Two orders of one conversation are what
the slot, the stale scan and the ambiguous payment need; a third appears where the
counterexample needs it. One retry and two failures reach every kind of task end:
success, retry, archive. Three events in batches of two leave one behind the batch.
Two messages suffice for order, for one task flushing another's message and for the
sweep's verdict on an older one. The payout amounts lie at the edges of the epsilon
(21 against a balance of 20), of the rounding (15) and below the smallest coin (1).
Two messages and two turns are what a dropped request, a hidden keyword and overlapping
turns need; the same properties of `Inbound` also hold with three messages, the second a
keyword, three turns at a time and one failure (584,155 states, two minutes).
Two products, one of them scarce, are what a checkout needs to take one and not the other;
one slot of a batch and two messages are what an archived row needs to starve a younger one.
Symmetry over orders is used in the safety runs of
`OrderLifecycle`, whose instances treat all orders alike, and in no liveness run.

## 4. Fairness

- `OrderLifecycle`: the crons (`ExpiryScan`, `ExpiryCancel`), the restock consumer and
  started payment tasks are weakly fair: crons run every few minutes and asynq
  retries. Nothing is assumed of customers, the model, operators or the provider. The
  payment task of the liveness run may fail before any statement, and is archived once
  its retries are spent. The properties name that case, for two reasons: an order that
  was not settled expires, but one that was is PAID, which no expiry touches, and its
  conversation stays INVOICING for ever. The run presumes that the third reminder
  fires, which `FollowUps` is about.
- `EventDispatch`: the poll starts a drain while something is pending, and a drain goes
  on. Publications may fail each time; that is what dead-lettering is for.
- `FollowUps`: time passes, the scanner and the expiry cron run, tasks are run. One
  condition per cron or queue rather than per row, since a scan works off its rows in
  order.
- `Outbound`: runners and a started sweep go on (weak). Strong fairness says two
  things: among the infinitely many sweeps there are some at which every pending row is
  past its two minutes and the older rows of other conversations leave `Window` slots
  of the batch, and the queue does not refuse for ever what it is offered again and
  again. Nothing is assumed about which rows of this conversation a sweep reaches: the
  oldest come first, also those of archived tasks, which no sweep can help (`Crowded`).
- `OrderConsumers`: first deliveries and started tasks (weak); a statistics task that
  waits for another's row lock gets it in the end (strong), as PostgreSQL queues lock
  waiters.
- `Inbound`: a request that has begun to claim a message ends, the workers take up jobs
  and turns that are queued, and go on with them (weak): asynq polls its queues, and every
  call has a deadline. Nothing is assumed of WhatsApp, which may never deliver again, or
  of the vendor. One condition per job and per turn, so that no worker starves: the
  bounded instance has fewer tasks than the ten a worker runs at a time.
- `Payouts` has no liveness property, and no fairness.

## 5. What is proved

Every invariant that a run checks is a theorem, with one restriction (`PaidOrdersBacked`,
below); so are the action property `PaidNeverCancelled` and the refinement `StockIsLedger`.
The seven `...Proofs` modules hold for all values of the constants that satisfy the named
assumptions of the modules (`ConvOfAssumption`, `ItemsAssumption`, ..., `DispatchAssumption`,
`FollowUpAssumption`, `OutboundAssumption`, `ConsumerAssumption`, `PayoutAssumption`,
`InboundAssumption`): the shapes of the functions, bounds that are natural numbers, and
finite sets of orders, references and requests where something is counted. TLC evaluates
the same assumptions on every instance. The inductive invariants were checked by TLC before
they were proved.

For `OrderLifecycle`:

- `TypeCorrect`: `TypeOK`, above all that stock never goes below zero. Inductive with
  `TaskHasOrder`: the statements that write an order run with an order at hand.
- `PaidOrderSafe`, `RecordedPaymentsPaid`: what a step may do to an
  order's status is stated once (`StatusStep`), action by action. `RecordedMeansPaid`
  needs `TaskInv`: a task past the settlement of a success works for an order that is
  PAID or that an operator moved, and this survives every other actor's step because
  only open orders are ever cancelled.
- `PaidConversations`, `OrderSlot`, `InvoicingConversations`: the same for the
  conversation (`ConvStep`). The slot is inductive together with the exception `taken`.
- `StockRefinement`: `Spec => StockIsLedger`. Every step is a `Take`, a `GiveBack` or a
  stutter of `StockLedger`; it needs `ExistsInv` (an order with an event, or one a task
  settles, exists) and the lemma `RestoredInvariant`: what was restored had its event.
- `PaidByOwnReference`: `PaidOrdersBacked`, under the hypothesis `NoPhoneMatches` that
  events name their order and pay its total, or come from no customer's phone.
  `order_payments` satisfies it; where phones are matched the property is false
  (`order_phone_twice`). Inductive with `OwnPayment`: a PAID order has the row of its own reference, or its task has yet
  to write one and does not carry a failure. A crash after the settlement is harmless
  there because the retry comes back to the same order.

For `EventDispatch`, `Inv` conjoins `TypeOK`, `RankInv` (no two rows share an instant, so
the loop is at one event), `DrainInv` (what a drain handles is PENDING, outcomes belong
to events that left its batch), `AttemptsBounded`, `PublishedReachedAll` and `FanOutInv`
(subscribers before `next` have the task; a published outcome means all have it).
`TypeCorrect`, `FanOutComplete`, `DeadLettering` and `SettledForever` follow.
`DuplicatesExplained` needs `CountInv`, an exact account of each task by attempts,
crashes and the drain in progress, and `IdleInv`: between drains nothing is left over.

For `FollowUps`, for any orders, deliveries, PATCH requests, faults and refusals, `IInv`
conjoins `TypeOK` with:

- `FreshInv` (what a delivery has yet to insert is absent) and `ScanInv` (a claimed row stays
  due until its scan ends, because the cancellation waits for it; rows that are read but
  not claimed may be cancelled). `CancelledStayUnsent` rests on these.
- `SentInv` and `LateInv`: a row's messages, sent and still to come, are bounded by its claim
  and the attempts that failed, and without failures the late-payment counter by the invoice
  reminders that were claimed: `RepeatsAreFailures`.
- `ExpiryInv`: what was claimed was handed to the queue or refused, and an order that is
  expiring has a final reminder whose grace ended: `ExpiryAfterFinal`.
- `ScheduleInv`: a delivery that is done with an undisturbed order leaves all three
  reminders, or another delivery that is about to insert the third, also when two of them race
  past the existence check: `ScheduleComplete`.

The proof of `TypeOK` corrected the model: its former bound on `late`, two more for each
failure, held in the instance of the run and fails with two failures, since a delivery that
is repeated doubles the rows and a scan that dies repeats them all. The counter now is a
natural number, and `RemindersExplained` states the bound that holds, two without failures.

For `Outbound`, for any number of messages, retries and faults of each kind, `IInv` conjoins
`TypeOK`, `LockInv` (only the holder of the conversation's lock sends and records),
`PresentInv` (rows appear in the order of `seq`), `SendsInv` (how often a message was sent,
by whether it may be sent again and whether its result is still to be recorded), `FailedInv`
and `OrderInv` (whatever precedes a message of the backlog is in the backlog or was sent).
`NoUnexplainedDuplicate`, `FailedNeverArrived` and `DeliveredInOrder` follow.

For `OrderConsumers`, `InvoiceOnce` is inductive with `InvoiceInv`: only the delivery whose
link the conditional update stored goes on to the invoice, and after a failure none does.
`NeverCountedTwice` is inductive with `StatsInv`: a transaction past its marker counts an
order that is not recorded, and a counter it read is no more than what was recorded then.

For `Payouts`, in two layers. `Inv` adds to `TypeOK` and the two properties of
`ReservationsAccounted` and `TransfersStayHome`: `AtHand` (past the recipient step a request
has a recipient; past the transfer it was made, or the answer was no transfer; a
success is a transfer, whatever fails after it) and `RecipientsNamed` (every
recipient cached with a business or known to a request was named by a request of that
business), which is what survives the interleaving of requests that read, create and cache
recipients unlocked. `MoneyInv` is about sums:

- `LockHeld` (a request about to reserve holds the lock), `Backed` (past its reservation a
  request holds it; money has left only where the reservation is held or the request is
  doubtful) and `BalanceStands` (the balance read under the lock still fits beside what is
  committed: payments and releases that commit meanwhile only add to it).
- `NobodyOverdraws`: a reservation that passes the check is, in hundredths, no more than the
  balance (`CoveredCents`: 10b + 1 thousandths round to b hundredths).
- `MoneyOutIsCovered`: the transfers made are among the committed and the doubtful requests.

A sum over a set is a fold, about which this prover can show nothing. `Total` is therefore
the number of hundredths counted as distinct coins (`Coins`), which is the same number, and
the library's facts about cardinalities give what sums need: they grow with the set, and
one more request adds its amount (`TotalMonotone`, `TotalUnion`, `TotalAdd`).

For `Inbound`, for any number of messages, redeliveries, overlapping turns and failures:

- `TypeCorrect`: `TypeOK`.
- `ClaimsBacked`: `ClaimNeverOrphaned`. Inductive with two facts: a transaction that has
  queued its job still has it or has the row, and a job that is to ask for a turn has its
  row (`ClaimInv`).
- `DebounceCovers`: `WaitingIsCovered`. Its invariant says what a turn knows at each step
  (`Knows`): unless it will notice at the re-check that the count has grown, it has linked,
  read, then attended every row there is. A row stored at any moment makes the count
  grow, which is why every turn at work covers every waiting message; a turn that ends
  without noticing has attended them all (`Covered`).

`PaidHasPaidOrder`, `AttemptsBounded` and `SettledStays` are proved and have no run of
their own.

Only model-checked: the ten liveness properties (fairness and ENABLED are beyond the
prover), and `PaidOrdersBacked` in instances where a phone is matched, where it need not hold.

## 6. Disagreements seen while modelling

Two have a run that shows them:

- **One phone-matched payment can pay two orders** (`order_phone_twice`). The
  idempotency row is written after the settlement; a retry in between matches the
  customer's next order of the same amount.
- **The debounce has a window** (`inbound_window`). `reenqueueIfNewerInbound` is to "close
  the debounce drop-window", but it runs while the task still holds the fixed id. A message
  stored and asked for after the second count and before the task ends is dropped, and
  waits for the customer's next message.

Others are stated as definitions at the end of their modules. Each can be seen by adding
the definition to the configuration named here:

| Definition | Configuration | What the code does |
|---|---|---|
| `OneOpenOrder` | `order_operators` | release puts an INVOICING conversation back to LEAD with its order open |
| `OneOpenOrder` | `order_payments` with 3 orders | without any operator: a success for an expired order closes the conversation that is invoicing the customer's next order, and a third order can follow; `docs/adr/0001` says a duplicate order is impossible |
| `RestockedIsCancelled` | `order_payments` | an order paid after its cancellation is still restocked |
| `InvoicingAlwaysLeaves` | `order_liveness` | a task that is archived after its settlement leaves the order PAID and the conversation INVOICING for ever; after a phone match one retry is enough, as it no longer finds the order |
| `SuccessAlwaysPays` | `order_liveness` | a success that follows a failed charge of the same reference is taken for a duplicate: the order stays cancelled |
| `CancelledEventAlways` | `order_operators` with CANCELLED patches | a PATCH to CANCELLED emits no event, so the stock stays taken |
| `NoDoubleSchedule` | `followup_safety` | two deliveries pass the existence check together |
| `OneDeliveryConfirmation` | `followup_safety` with two PATCH requests to DELIVERED | both read the order before either writes it |
| `PendingSettles` | `outbound` with one message, 2 retries and 3 crashes | an archived task strands its message: the row stays `pending`, the task id stays in use, each sweep's publication is dropped |
| `StrandedSettles` | `outbound` | pending rows of archived tasks are the oldest of every sweep; when they fill its batch, a younger row whose publication was lost is never published |
| `StaleNeverSent` | `outbound` | the sweep marks a message failed_stale that was delivered after its read |
| `LostResultNotResent` | `outbound` | a delivered message whose result was not recorded is sent again |
| `DeletedUndelivered` | `outbound` | a reply flushed by another task is deleted when its own request is cancelled |
| `InvoiceWritten` | `consumers` | an attempt that dies between `payment_url` and the invoice row is retried, finds the link and skips: a link without an invoice |
| `ModelSeesNoKeyword` | `inbound` | the guard looks at the newest message only, so a keyword sent before another message of the burst goes to the model; `domain/safety.go` says a keyword message bypasses it entirely |
| `StatsExact` | `consumers` | two orders of one customer read the same counters; one increment is lost |
| `OneInitiation` | `consumers` | a redelivery calls the provider again before `payment_url` is written |
| `NoReservationStuck` | `payouts` | an answer of Paystack other than success (`otp`, `failed`, `reversed`) keeps the payout PENDING although there is no transfer; `apidocs/spec.go:324` says a failed transfer releases the funds |
| `PaidAsAsked` | `payouts` | a request that names another account than the first is paid to the cached recipient |

`AllThreeScheduled`, `UnpaidExpires`, `ExpiredAfterFinal` and `LinkDelivered` name the
failure under which they do not hold: an attempt that dies between the two inserts of a
schedule leaves the order without its final reminder, and so without an expiry; a
refused enqueue counts as a reminder that fired.

Smaller ones, met in `OrderLifecycle`:

- A payment without a usable reference, by a payer one of whose customers has no open
  order, fails on the NULL total until it is archived, without a payments row
  (`payment_events.go:159-195`); the code below it expects to record it unmatched.
- A task that dies between the payments row and the confirmation is retried, finds the row,
  and takes itself for a duplicate: the customer is not told that the payment arrived.

Smaller ones, met in `Inbound`:

- `ORCHESTRATOR_DEBOUNCE.md:74` says a failed job is archived and keeps the debounce key;
  the code discards it (`queue.Discard`). A panic, which skips that line, is archived.
- The comment of `ProcessOnce` says a failed publish releases "the claim so a redelivery
  can process the event"; the webhook answers 200 all the same, so WhatsApp has no reason
  to deliver again.
- `webhook.go:148-150` speaks of ONE run per burst. A message stored between a turn's count
  and its link is answered by that turn and still causes another one.
- "An already-escalated conversation pauses automation entirely"
  (`orchestrator.go:469`), but media come first: media that cannot be processed are
  answered with a notice. And the flag is read when the turn begins: a takeover during the
  call to the model does not stop the answer, and a release during a pause leaves the
  message to nobody.

## 7. How to run

    tlc -workers 2 -config order_payments.cfg MCOrderLifecycle
    tlapm OrderLifecycleProofs.tla

`PROJECT.json` lists the runs, the source lines behind every definition, and the mutants.

## 8. Plan

Done: the money and stock path (`OrderLifecycle`, `Payouts`), what carries it
(`EventDispatch`), what surrounds it (`FollowUps`, `Outbound`, `OrderConsumers`), and the
customer's way in (`Inbound`). Next, in this order:

1. Proofs: the counterparts of section 6 that hold under a restriction (`OneOpenOrder`
   without release and reopening; `StatsExact` for one order at a time), and the safety part
   of the liveness properties.
2. `Catalogue`: embedding tasks have no task id (`publishers.go:35`) and write their vector
   without a version check, so that two edits of a product can leave the vector of the
   older text.
3. The retention cron, whose enqueues are not undone with its transaction.
4. Compositions: `FollowUps` with `Outbound` through the enqueue interface.

Where a new component needs a run, the disagreement runs of section 3 are the ones to
fold into the table of section 6.

## 9. Not modelled

Queries and their formatting, the HTTP envelope, configuration, tracing, the API
description and generated database code keep no state that another component acts on.
The clients of external services appear as what a call may answer: success, refusal, or
an error after the effect. Signatures, JSON decoding and prompts are left out. Integer
width matters in one place, the truncation of a basket quantity to int32
(`checkout.go:189`), which needs a quantity beyond 2^31 in one basket.

Authentication (one-time codes, tokens, sessions) is outside the subject of this project,
conversations, orders and money. Push notifications are best-effort and keep no state.
The retention and new-arrivals crons run under an advisory lock and write messages and a
cool-down stamp in one transaction. Retention enqueues before that transaction commits,
as the follow-up scanner does: a scan that fails late sends its re-engagements again at
the next one; new arrivals publishes after the commit, and the sweep of `Outbound` picks
up what it did not publish. The throttle counts requests in Redis and touches nothing else. The catalogue is the
candidate of section 8: products are read by checkout, whose stock is in
`OrderLifecycle`, and by the prompt, which is text.
