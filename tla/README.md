# TLA+ models of the stock-triggered buy-order system

These modules model the service of this repository (`src/`, a NestJS
application over MongoDB, Redis/BullMQ, SNS and SQS) and its analytics
microservice (`microservice/analytics`).  Code paths in this file are relative
to the repository root.

Contents: 1 the system, 2 the models, 3 what the runs show, 4 what is proved,
5 disagreements between code and documentation, 6 what is not modelled,
7 plan, 8 how to run.

## 1. The system

| component | state it keeps | operations that change it | calls |
|---|---|---|---|
| Orders (`src/modules/orders`) | `buyorders`: status, target, quantity, idempotency key; `tradeexecutions` | create, cancel, mark triggered, execute | Stocks, Users, Wallet, Portfolio, Queue, publisher |
| Queue (`src/modules/queue`) | four BullMQ queues in Redis with one worker each: prices (1 job at a time), evaluation (1), execution (5), provider sync (1) | three enqueue calls, four processors, cron of the sync | Stocks, Price events, Orders, Provider |
| Users (`src/modules/users`) | `users`: wallet balance, role, status, avatar | increment wallet, reserve funds, role, avatar | S3 |
| Wallet (`src/modules/wallet`) | `walletledgers`, only ever appended to | deposit, debit for an order | Users, publisher |
| Portfolio (`src/modules/portfolio`) | `portfoliopositions`, one per user and symbol | apply an execution | |
| Stocks (`src/modules/stocks`) | `stocks`: current and least price; `stocksubscriptions`: stocks and SNS subscription of a user | seed, upsert a price, subscribe, unsubscribe | SNS, publisher |
| Price events (`src/modules/price-events`) | `priceevents`, only ever appended to | webhook, record | Queue |
| Stock provider (`src/modules/stock-provider`) | none | fetch prices from Polygon | HTTP |
| Analytics publisher (`src/common/analytics`) | none | publish; failures are swallowed | SNS |
| Analytics consumer (`microservice/analytics`) | `processedanalyticsevents` | poll, handle a message | SQS, snapshots |
| Analytics snapshots (`microservice/analytics`) | one document per user, or for all users, and period | apply an event, read | |
| Auth (`src/modules/auth`) | none of its own | register, verify, log in, invite and accept an admin | Cognito, Users |
| Guards (`src/common/guards`) | none | check the token, the user behind it and its role | Users |
| logging, configuration, bootstrap | none that another part reads | | |

How they interact.  A price comes in over the webhook or from the provider
sync and becomes a job of the price queue.  The price worker records a price
event, updates the stock, announces a decrease over SNS and adds an evaluation
job for the symbol.  The evaluation worker reads the price, finds the PENDING
orders at or above it, marks each TRIGGERED and adds its execution job.  An
execution job claims the order (TRIGGERED to EXECUTING), reads the price again,
gives the order back if the price has risen, debits the wallet, and writes the
ledger row, the trade execution, the portfolio position and the final status,
one MongoDB call after the other, with no transaction.  Creating an order whose
target is already met adds an evaluation job at once.  Most writes are followed
by the publication of an analytics event.

What is hard.

- Everything runs in one Node process: code between two awaits is atomic, and
  every `await` on MongoDB, Redis, SNS or SQS lets any other handler run.
- There are no transactions; consistency rests on the filters of single
  `findOneAndUpdate` calls, on two unique indexes (idempotency key; user and
  symbol of a position), and on the order of the calls.
- Job ids suppress duplicates: `execute-<orderId>` for as long as a job of that
  id is in Redis, `eval-<symbol>-<millisecond>` within one millisecond.
- Jobs have no `attempts` option, so that one exception fails a job for good,
  and failed jobs are retained.  After the process has died, BullMQ runs the
  active jobs again, once each (`maxStalledCount`), but not before their locks
  have run out: meanwhile the next process takes the jobs that wait.
- SNS and SQS deliver at least once and in any order.
- A user lives in the Cognito pool and in MongoDB, and Auth writes one after the
  other.
- With `QUEUE_DRIVER=inline` nothing is queued: the request itself runs the
  processors, and whatever they throw is thrown at its client.

The properties that make each component correct, and the line at which each
hazard bites, are listed in `PROJECT.json` under `hazards`.

## 2. The models

| module | models | extends or uses |
|---|---|---|
| `OrderPipeline` | orders, wallet, portfolio, stocks and the three BullMQ workers, one action per awaited call | extends `JobQueue`; `OrderContract` through `INSTANCE` |
| `JobQueue` | a BullMQ queue with one job at a time, and its stalled jobs | |
| `OrderContract` | what the service owes the owner of an order: phases and bills | |
| `InlinePipeline` | the same pipeline under the inline driver | extends `OrderPipeline` |
| `WalletLedger` | every call of `deposit` and `debitForOrder`, and the ledger rows | |
| `PriceFeed` | one price update in full: price event, stock, decrease notification | extends `JobQueue` |
| `ProviderSync` | the Polygon client and the sync job, beside the price worker | extends `PriceFeed` |
| `Subscriptions` | subscribe and unsubscribe: document, SNS subscription, filter policy | |
| `AnalyticsDelivery` | publisher, SNS/SQS, consumer, snapshots as counters | |
| `AnalyticsPeriods` | the calendar periods of an instant, as operators | |
| `Snapshots` | the snapshot documents and their metrics, and what a reader is shown | extends `AnalyticsPeriods` |
| `Accounts` | registration, login, invitations; Cognito beside MongoDB; the guards | |

`<X>Proofs` holds the theorems about `<X>`: `OrderPipelineProofs` (with those
about `InlinePipeline`), `WalletLedgerProofs`, `ProviderSyncProofs` (with those
about `PriceFeed`), `SubscriptionsProofs`, `AnalyticsDeliveryProofs`,
`SnapshotsProofs` (with those about `AnalyticsPeriods`), `AccountsProofs`.
`Sums` has the facts about sums over finite sets that they cite.
`MC<X>` is the small instance of `<X>` that its `.cfg` files check:
`MCOrderPipeline`, `MCInlinePipeline`, `MCWalletLedger`,
`MCProviderSync`, `MCSubscriptions`, `MCAnalyticsDelivery`, `MCSnapshots`,
`MCAccounts`.

In every module an operator that nothing uses is a broken variant of one next
to it (a dropped guard, a swapped order); `PROJECT.json` names the property
that refutes it.

### JobQueue

A queue is the sequence of its jobs, the active one at its head; each carries how
often it has stalled.  The code sets neither `lockDuration`, nor
`stalledInterval`, nor `maxStalledCount`.  When the process dies, the active job
stays in the queue with one stall more (`Restall`), or has failed for good if it
had `MaxStalls` of them.  BullMQ puts it back ahead of the waiting jobs, but only
after its lock has run out and a check has found it, and nothing says when:
`Startable` is therefore the first job that has never stalled, or any stalled job
before it, and `Start` makes the chosen one the head.  So a stalled job may run
before or after any number of jobs that were added behind it.

### OrderPipeline

State.  `price`, `balance`, `status`, `ledger`, `trade` and `position` are the
MongoDB collections, reduced to what the code branches on.  `req` and `seen`
are a create request: its next call, and the price it has read.
`priceQueue`/`feedStep`, `evalQueue`/`evalStep`/`evalSeen`/`todo`/`marked` and
`execJob`/`stalls`/`step`/`quote`/`held` are the three queues and the local
variables of their handlers.  `taken` is a history variable: the amounts
`reserveFunds` took for each order.

Actions.  The comment above each group names the function; the steps of a
handler follow its awaits.  `executeTriggeredOrder` is `Claim`, `CheckExisting`,
`ReadQuote`, then `Release`, or `Reserve`, `WriteLedger`, `Book`,
`ReadPosition`, `SavePosition`, `Complete`, with `Reject` for the catch around
`debitForOrder`; `FinishExecution` is the removal of the completed job, which is
when the same order can be enqueued again.  The price worker is reduced to its
effect on orders; `PriceFeed` has the rest of it.  A crash loses every request
and every local variable; MongoDB and Redis keep what they have.

Abstractions.
- Amounts and prices are natural numbers instead of floating point; 0 is a
  possible price.  The average price of a position is left out.
- The user is active and stays so (nothing in the code sets another status).
- A failing call (`RequestError`, `PriceError`, `EvaluationError`, `DebitError`,
  `ExecutionError`) fails before it has an effect.
- Execution jobs start in any order, up to `ExecConcurrency` at once; BullMQ's
  FIFO order is one of these.
- Two evaluation jobs of one symbol share an id if they are added in the same
  millisecond.  There is no clock in the model: `AddEvaluation` lets any add
  collide with a job of the same symbol that is still queued or active.
- Analytics events and log lines are left out; the publisher cannot fail its
  caller.

### OrderContract

An order is open until it is withdrawn, rejected or bought; it is charged at
most once, within its target, while it is being worked on; it goes back to the
open orders only uncharged; it counts as bought only when it has been charged;
and as long as no call has failed (`failed`) it is rejected only uncharged.
`KeepsContract` in `OrderPipeline` maps the statuses to these phases (CANCELLED
and FAILED are both void), the bill to `taken`, and `failed` to a spent error.
A step of the pipeline, or of `InlinePipeline`, is a step of the contract or
changes none of the three.

### InlinePipeline

`enqueuePriceUpdate`, `enqueueOrderEvaluation` and `enqueueOrderExecution` call
the processors directly.  A `Handler` is a create request (`Order`) or a call of
the webhook (`Hook`); `at` is its place in the queue service, `told` the price it
was told and then the one it has read, `left` the eligible orders it has still
to mark, `runs` the order it is executing.  The steps of `createBuyOrder` and
`executeTriggeredOrder` are those of `OrderPipeline`, whose queues stay empty.
What differs: a handler marks its next order only when the execution of the one
before has returned; any exception ends the request (`EvaluationThrows`,
`ExecutionThrows`), so that the orders still in `left` stay PENDING; and after a
crash nothing is run again.  Nothing but the filter of `markTriggered` keeps two
handlers from executing one order: `Executes` has no guard of its own.  An order
that an execution has released can be marked and executed by another handler
while the first execution has only to return; it is then the other handler's, and
the first returns without it.

### WalletLedger

Each `Call` is one run of `deposit` (read the user, increment, insert the row)
or `debitForOrder` (reserve, insert the row); any number overlap, and each may
be cut off for good before or after its update (`failed`, `lost`).  `moved` is a
history variable, the balance before and after the update of a call.

### PriceFeed

`processPriceUpdate` with every awaited call: read the stock (a failing read
counts as an unknown stock, as `.catch(() => null)` has it), record the event,
upsert, notify, enqueue.  `Restart` is `onModuleInit` after a crash: it fills in
a missing `leastPrice`, and the stalled job of `JobQueue` will run again from its
start, perhaps after jobs that were behind it.  `applied` is a history variable,
every change of a `currentPrice`; so are `day` of a job, the market day whose
price the sync has put into it (0 for the webhook), and `newest`, the latest such
day of each stock.  The topic of the notifications is configured.  The comparison of `upsertPrice` follows
MongoDB: a missing field is not equal to `null` and is lower than every number,
so that the pipeline leaves a missing `leastPrice` missing: a stock that a price
update inserts has none, which the schema requires, until the next start.

### ProviderSync

`syncQueue` is the queue of the sync jobs (`JobQueue`) and `sync` the handler of the active
one: it reads the tracked stocks and computes the dates of the look-back once
(`BeginSync`), asks for one day after the other until one has an update
(`Fetch`), and enqueues the updates one by one (`EnqueueUpdate`).  `Midnight`
and `Publish` are the world outside: days pass, and Polygon has a day at once,
late, or after a newer one.  `Webhook` is a price from elsewhere and
`PriceWorker` the worker of `PriceFeed`.  A request that fails ends the job for
good; after a crash (`RestartSync`) each of the two queues has its stalled job,
and the two come back independently of each other.  `complete` is a history variable, the days published when the job began.  A bar
is a closing price; days are numbers, and their text form is left out.

### Subscriptions

Each `Call` is one request of one user, `subscribeUserToStock` or
`unsubscribeUserFromStock`, one action per awaited call.  `known` and `ids` are
its local variables: whether the document had an ARN before the update, and the
list of stocks the update returned.  `subscribed` and `filter` are what SNS
knows of the address, `reported` is the list of the latest analytics event.
SNS is external: it takes a second subscription of an address as the first if
the filter is the same and refuses it otherwise; a filter can be set before the
address is confirmed.  `Fail` is any exception, or the death of the process.
`versions` and `alone` are history variables: the values the list of the
document has had, and whether the latest request started when none was running,
met no other one and did not fail.

### AnalyticsDelivery

`Publish` creates any number of copies of an event, none among them (the
publisher swallows failures; SNS and SQS may duplicate).  `Poll` receives a
batch of visible messages in any order, and a received message may become
visible again at any time until it is deleted.  `Lookup`, `Apply`, `Record` and
`Delete` are `handleMessage`, `Apply` once per snapshot document in the order of
`applyEvent`.  `Abandon` is the catch of `poll`, or a restart: the batch is
dropped.  A snapshot counts how often it has counted each event id; that is what
a repeated application changes in every additive metric.

### AnalyticsPeriods and Snapshots

`AnalyticsPeriods` translates `getPeriodStart`, `getPeriodEnd` and
`getBucketForDate` with the UTC calendar of JavaScript as integer arithmetic; an
instant is a number of ticks, of which a day has `TicksPerDay`.  `SamePeriod` is
the reference: two instants share a period if no midnight between them is a
boundary of its kind.  The calendar of the model ends with `LastYear`, for which
the code has the year 9999.  `Snapshots` is `applyEvent`: `UpdateSnapshot` computes the
metrics of one document after the other, at most five of the user and five for
everybody, `Record` and `Abandon` are as in `AnalyticsDelivery`, and `Receive`
stands for the way of a message there, in any order.  `Shown` is what
`getUserAnalytics` and `getAdminAnalytics` return.  `averageExecutionPrice` and
`subscriptionCount` are functions of other metrics and are left out.

### Accounts

`pool` and `groups` are Cognito, `users` the collection; a `Call` is a request
of `register` or `acceptAdminInvite`, one action per call on either store, and
the endpoints that make one call (`verifyEmail`, `login`, `refreshToken`,
`inviteAdmin`) are one action.  A token holds the groups of the moment it was
issued, and none expires in the model.  `inviteAdmin` has `JwtAuthGuard` and
`RolesGuard` as its guard.  `Appoint` is external: the first admin can only be
made in the console.  `Fail` is any exception between two calls.  The branch of
`acceptAdminInvite` that updates a role is in the model but cannot be reached:
only an address without an account can be invited, and it has no document.  An
account that a failure leaves without its document stays so, because Cognito
refuses to register the address again.  `inviter` and `broken` are history
variables: who invited an account, and the addresses of which a request has
thrown.  The document of an invited admin has no `cognitoSub`, as in the code.

## 3. What the runs show

| run | instance | distinct states |
|---|---|---|
| `faults` | 2 orders of one user on one stock, a wallet that can pay either, prices 1 to 3; 1 price update, 1 crash, 1 failing call | 2,139,210 |
| `progress` | 2 orders that both reach their target, 1 price update, 1 failing call, fair workers | 175,526 |
| `restart` | 2 requests with one idempotency key, 1 price update, 1 deposit, 1 crash, 1 id collision, fair workers | 235,066 |
| `inline` | 2 orders under the inline driver, a wallet that can pay one, after a deposit either; 1 price over the webhook, 1 crash, 1 failing call, fair handlers | 341,849 |
| `wallet_moves` | 2 deposits and 3 debits that the wallet cannot all pay | 35,904 |
| `provider_sync` | 2 sync jobs over 4 days with a holiday, look-back 2; a seeded and a new stock, 1 price over the webhook, 1 failing call, 1 restart | 3,349,772 |
| `subscriptions_overlap` | 3 subscribe and 2 unsubscribe requests for 2 stocks | 791,117 |
| `analytics_delivery` | 3 events, two with one id, 4 copies, batches of up to 2, 2 faults, fair consumer | 120,597 |
| `snapshots` | 7 events around a new year, a week's end and a leap February, two with one id, 1 fault | 207,192 |
| `accounts` | 3 people, 2 overlapping requests, 1 fault | 69,276 |

The runs that TLC refutes (`stranded`, `lost_shares`) are the subject of section 5.

`faults`: no wallet is overdrawn although the balance is tested long before it
is debited (`TypeOK`); a trade stands for one debit with its ledger row
(`BooksAgree`); every step, failing calls and crashes included, keeps the
contract (`KeepsContract`): no order is charged twice or above its target, and
one that waits, or was cancelled in the race with its own execution, has cost
nothing; final statuses are final (`TerminalIsFinal`); an EXECUTING order
changes only by the job that claimed it (`ClaimIsExclusive`); the portfolio
never shows shares nobody bought (`PositionWithinTrades`).  The consequences
`ChargedAtMostOnce`, `IdleOrdersAreFree` and, as long as no call has failed,
`RejectedIsUncharged` are stated in `OrderPipeline` and proved (section 4).

`progress` and `restart`: an evaluation that is due, because a price update or a
job waits for it, triggers every order whose price is right (`EvaluationTriggers`),
through one crash too.  What can still make it miss an order is named in the
property: a call that fails before it has got there (an exception in the loop of
`processOrderEvaluation` leaves the rest of the orders PENDING), a job id that
collides, or a second death of the process under the same job.  A claimed order
is completed, rejected or given back in the end, or it stays EXECUTING with a
failed job to show for it: after a call that failed, or, without any, when two
executions of a new position overlap and the unique index refuses the second
document (`ClaimSettles`).  A crash leaves a claimed order EXECUTING, because the
job that runs again ends at the claim.  A waiting execution job is run
(`TriggeredJobRuns`), and one idempotency key makes one order, whatever the
interleaving of two requests (`OneOrderPerKey`).

`inline`: several handlers may find an order eligible, and still it is executed
by one of them at a time (`OneHandlerPerOrder`); the contract holds here too
(`KeepsContract`); and an order that was triggered is served unless a call fails
or the process dies (`TriggeredIsServed`), which the queues do not promise
(`stranded`, section 5).

`wallet_moves`: the row of a debit tells the balances right before and after its
own update (`RowsTellTheMove`).  At every moment, also while calls are under way
and after some were cut off, the balance is what the rows explain and the updates
whose row is missing (`LedgerExplainsBalance`): no overlap loses an update, a
refused debit leaves no trace, and a cut costs the row of its own call only.
`RowsTellTheMove` says nothing of
`balanceBefore` in the row of a deposit: `deposit` reads it before the increment
and another call may come in between, so that the row does not add up.

`provider_sync`: when a job takes the prices of a day, no newer day that had
been published when it began had a price of a tracked stock
(`NoDayPassedOver`).  A price of the sync takes its stock back to an older day
only if its own price job has stalled (`MarketDaysInOrder`): neither the next sync
job does, nor one that runs again, nor a day that is published late; a price job
that a restart has cut off does, because newer prices may be applied before its
lock has run out.  The range request for a single stock and the day-by-day loop
of the sync agree on the price while nothing is published and the day is still in
the range (`EndpointsAgree`).  Of the price worker, with both sources of updates:
`leastPrice` of a seeded stock is the lowest price it ever had
(`LeastIsLowest`), no price changes without a price event of its own
(`AppliedIsRecorded`), no decrease is announced that did not take place
(`AlertsAreTrue`), and until something fails the events are exactly the changes
and exactly the decreases are announced (`FeedIsExact`).  A limit belongs to it:
updates carry no time, so that the closing price of an earlier day may overwrite
a newer price of the webhook.

`subscriptions_overlap`: SNS and analytics are only told lists that the document
has had (`FilterWasDocument`), and a request that runs alone and succeeds leaves
both with the list of the document, whatever races and failures came before
(`LoneRequestHeals`).  Two limits belong to it.  Requests that overlap may leave
an older filter behind, until the next one.  And if the ARN could not be saved
after SNS has subscribed the address, a later subscription with another list is
refused by SNS, and unsubscribing does not touch the filter: nothing repairs
this, and `LoneRequestHeals` requires a saved ARN.

`analytics_delivery`: an id is recorded as processed only when every snapshot
has counted it (`ProcessedIsCounted`), a message is deleted only when its id is
recorded (`DeletedIsProcessed`), duplicates and expired visibility timeouts alone
are never counted, and each failure or restart of the consumer makes a snapshot
count an id at most once more (`OneCountPerFault`), and every message that
reaches the queue is deleted in the end (`Drained`).  What a repetition does to
each metric is the subject of the next run.

`snapshots`: until something fails, whoever reads a period sees each processed
event of exactly that calendar period once, and of two events with one id
(an order that was triggered twice) one (`ReadIsExact`).  Lowest prices and the
stocks of all subscribers are exact in every document at every moment, whatever
fails and comes again (`RepetitionIsHarmless`).  As `applyEvent` writes the
documents of the user first, what everybody is said to have traded, invested,
deposited and spent never exceeds what the users are (`EverybodyWithinUsers`),
even when an event counts twice.

`accounts`: a document is never ahead of the pool: a user has an account and its
group, a stored admin is in the admin group (`RecordsAreBacked`).  Nobody is left
half registered (`NobodyIsHalfRegistered`), except an account of which a request
has thrown between the two stores: a failure is never paid for by somebody else,
and no overlap of requests has this effect.

### Bounds

Two orders are enough for every conflict the code can have: over one wallet,
one position, one idempotency key or one evaluation; no queue has a limit that
three orders would reach and two would not.  The targets (2 and 1), the
quantities (1 and 2) and the prices put each order on either side of its target, make the same balance enough for
one order and not for the other, and make the second price cheaper than the
first.  In `faults` the price starts between the two (`MidPrice`), so that the
update can raise or lower it.  One price update is enough to release a claimed order, two (`stranded`)
to trigger it again.  One crash is enough to leave any state between two awaits
and to run every active job twice; one failing call can hit any await.  For the
wallet, two deposits and three debits include every overlap of two calls with a
third in between.  Under the inline driver one call of the webhook beside the
two create requests makes three handlers that evaluate the same stock.  For the
price worker and the sync, two jobs bring up to four closing prices beside that
of the webhook, so that a price falls, rises and falls again around a restart;
a look-back of two days over four, with days on which both stocks, one or none
are traded, contains a day that is passed over for want of a bar, one that is
published late and one that leaves the window at midnight.  For the
subscriptions, each stock can be dropped, one can be added again, and a lone
request can follow any race of the others.  For the consumer, two faults can fall
between any two calls, and four copies contain a duplicate delivery, a reused id and an
event without a user (whose only snapshot is the admin's).  The seven events of
`snapshots` lie on the last and first ticks of days, weeks, months and years.
For the accounts, three people are an appointed admin, an invited one and a user;
two requests can be for one address, and one failing call tells the account it
hits from the others.  The liveness runs share the faults out: `progress` has two
orders and a failing call, `restart` a crash, a collision and two requests with
one key.  What holds beyond
these bounds is the subject of section 4.

### Fairness

`FairSpec` of `OrderPipeline` has weak fairness for the price worker, the
evaluation worker, the rest of each create request and the execution of each
order: Node resumes every handler whose call has returned, and BullMQ hands a
waiting job to an idle worker.  One fairness condition for all execution jobs
would not do; each waiting job is taken in the end because the queue is FIFO
and at most five run at once.  Nothing makes a client, a price, a crash or a
failure happen.

`InlineSpec` has weak fairness for each handler: Node resumes it when the call it
waits for has returned.

`FairSpec` of `AnalyticsDelivery` has weak fairness for the handling of a batch
(the loop runs as long as the process) and for the end of a visibility timeout.
Strong fairness for `Poll(m)`, a receive whose batch contains `m`, is what SQS
promises: a message that is visible again and again is handed out in the end,
even if other messages are preferred for a while.

## 4. What is proved

Checked by TLAPS for every value of the constants: any number of orders, users,
stocks, prices, overlapping calls, messages, crashes and failures.

| theorem | of | argument |
|---|---|---|
| `TypeCorrect`, `SyncTypeCorrect` | each component | induction over the steps; contains "no wallet is overdrawn" and "a busy worker has a job" |
| `ChargedAtMostOnceHolds`, `BooksAgreeHolds`, `IdleOrdersAreFreeHolds` | `OrderPipeline` | from `Inv` |
| `PositionWithinTradesHolds` | `OrderPipeline` | from `PositionInv` |
| `KeepsContractHolds` | `OrderPipeline` | the refinement, from `Inv` |
| `RejectedIsUnchargedHolds` | `OrderPipeline` | from `Inv`, as long as no call has failed (`spent["error"] = 0`) |
| `TerminalIsFinalHolds`, `ClaimIsExclusiveHolds` | `OrderPipeline` | action properties, from `Inv` |
| `OneOrderPerKeyHolds` | `OrderPipeline` | the insert is the only step that makes an order |
| `OneHandlerPerOrderHolds` | `InlinePipeline` | from `HandlerTypes` and `Executions` |
| `InlineBooksHold` | `InlinePipeline` | the four invariants above, from the same inductive invariants |
| `InlineKeepsContract` | `InlinePipeline` | the same refinement for the inline driver |
| `LedgerExplainsBalanceHolds` | `WalletLedger` | a call changes one summand of the balance and of the rows |
| `RowsTellTheMoveHolds` | `WalletLedger` | the returned document is the state after the call's own update |
| `LeastIsLowestHolds`, `AlertsAreTrueHolds` | `PriceFeed` | from `LeastInvariant` and `AlertInvariant` |
| `AppliedIsRecordedHolds`, `FeedIsExactHolds` | `PriceFeed` | from `RecordInvariant` and `FeedInvariant` |
| `SyncLeastIsLowest`, `SyncAlertsAreTrue`, `SyncAppliedIsRecorded`, `SyncFeedIsExact` | `ProviderSync` | the same, beside the sync |
| `NoDayPassedOverHolds` | `ProviderSync` | from `SyncInv` |
| `MarketDaysInOrderHolds` | `ProviderSync` | from `DaysRise` and `DaysKnown` |
| `EndpointsAgreeHolds` | `ProviderSync` | what the loop has passed over has no bar (`SyncInv`), so that its day is the latest of the range |
| `FilterWasDocumentHolds`, `LoneRequestHealsHolds` | `Subscriptions` | from `ListInvariant` and `LoneInvariant` |
| `ProcessedIsCountedHolds`, `DeletedIsProcessedHolds`, `OneCountPerFaultHolds` | `AnalyticsDelivery` | from its `Inv` |
| `RepetitionIsHarmlessHolds` | `Snapshots` | one step of `applyEventToMetrics` per event type |
| `EverybodyWithinUsersHolds` | `Snapshots` | from `Behind`: everybody's documents come after the user's |
| `ReadIsExactHolds` | `Snapshots`, `AnalyticsPeriods` | from `CountInv`, and a period starts at its last boundary |
| `RecordsAreBackedHolds`, `NobodyIsHalfRegisteredHolds` | `Accounts` | from its `IInv` |

`OrderPipeline`.  None of the three order invariants is inductive: whether a
charge may follow depends on where the handler of the order is.  `OrderInv`
ties the step of the handler to the order: past the claim the order is
EXECUTING; until `Reserve` nothing has been taken; from `ledger` on exactly the
cost at the quote has been taken and the quote is within the target; from
`book` on the row is written; from `read` on the trade is.  Two lemmas keep the
proof short.  The invariant of an order depends only on the order's own
variables, so that a step for another order, of a request, of the price worker
or of the environment preserves it at once; and a step of its own handler is
treated action by action (`OwnStep`).  A crash sends the handler to `idle`
and keeps the documents, for which `OrderInv` asks nothing of the step.  The
refinement follows from the same invariant: `ContractStep` maps each action to
one of the contract or to a stutter.

Two overlapping executions may lose shares of a position (see 5), so that
`PositionWithinTrades` is an inequality, and it is not inductive: a handler that
has read the position and not yet saved it (`save`) holds a number that nobody
else updates.  `PositionInv` bounds a position, and the number in such a hand, by
the shares of the trades that no handler has still to add (`Added`); the trade of
the handler itself joins these with its save, and so it is never added twice.
That holds because an executed trade sends the next run of its job past the
position (`CheckExisting`).

`InlinePipeline`.  The steps it borrows keep `Inv` of `OrderPipeline` by the
lemmas above.  Its own steps either leave every order and its handler alone
(`QuietInv`) or end an execution (`EndingInv`), for which `OrderInv` asks nothing
of the step; marking an order and starting its execution at once is the one case
that is new.  `HandlerTypes` and `Executions` say which handler executes what: an order that a
handler executes and has not finished with is not PENDING, so that `markTriggered`
lets no second handler have it (`OneHandlerPerOrderHolds`).
What a borrowed step does to the positions is known from `OrderPipeline`, and the
own steps of the driver leave no handler at `read` or `save` that was not there
(`InlineShares`).

`WalletLedger`.  `Accounted` says that the balance is the initial one and the
amounts of the deposits that have moved it, less those of the debits that have; a
call moves it once (`Mover`) and writes the row of its own move, so that the
calls that have moved are at any moment those with a row and those that still
lack theirs (`Moved`).

`PriceFeed`.  `LeastIsLowest` speaks about history, and the next change will
carry the current price as its old one; so the invariant also bounds the current
price and says that seeded stocks always have both.  `AlertsAreTrue` needs that
the price in the worker's hand is still the price of the stock, which holds
because no one else writes it.  For `AppliedIsRecorded`, `RecordInvariant` adds
the event in hand: between `recordPriceEvent` and `upsertPrice` there is one
event more than changes.  `FeedInvariant` gives the feed at each step of the
worker: as long as nothing failed, the events are the changes and the one in hand
at `upsert`, and the alerts are the decreases but the one in hand at `announce`.

`ProviderSync`.  To the price worker a step of the sync is a step of `PriceFeed`,
a new job at the end of the queue, or nothing (`PricePart`), so that the
invariants above hold beside the sync, too.  `SyncInv` says that the handler asks
for consecutive days from yesterday downwards and has found nothing on the days
it has asked for; as nothing that was published when the job began is later than
yesterday, the day it takes is the newest of these.  For the order of the days,
`DaysKnown` ties the entries of the queue and of `applied` to the handler: all of
their days had been published when the job began (`complete`), hence, by
`NoDayPassedOver`, none is later than the day the job takes.  `DaysRise` is the
order itself: a job that has not stalled is of no earlier day than a job before it
in the queue (`QueueInOrder`) or than `newest` of its stock (`NewestBelowQueue`).
Of the jobs that a start passes by, all have stalled, so that it keeps this order;
a restart takes the active job out of it, and an upsert brings `newest` up to a
job that was before the others.  For `EndpointsAgreeHolds`, `SyncInv` says more:
the day taken has a bar of each stock in `todo`, and no newer day that had been
published has one; so it is the latest such day of the range.

`Subscriptions`.  Each request passes on the list its own update returned, so
every list in a request's hand is one the document has had (`ListInvariant`).
For the lone request, `Agrees` says at each of its steps what already agrees
with the document: the ARN it has read, then its list, then the filter.
Without a document nothing has been told to anybody, so that a 404 of a lone
request leaves nothing behind.

`AnalyticsDelivery`.  `InHand` says what the consumer's step implies for the
message in hand (which of its documents have counted it), and `Exact` that an id
has been counted at most once for each fault, and once more if it is recorded or
in hand; the documents that have still to be updated lack this last one, and what
a fault drops is paid for by the fault.

`Snapshots`.  Lowest prices and unions of lists do not change when an event is
applied again, whereas counts do: `RepetitionIsHarmless` needs no more than its
types, but it needs the definition of each metric.

`EverybodyWithinUsers` is not inductive, as the two documents of an event are
saved one after the other: `Behind` leaves room for what the event in hand has
brought to its user's document and not yet to everybody's (`Between`).  An
abandoned event keeps this lead for good, and applied again it adds to both.  It
matters that the user's documents come first, and that the publishers of trades
and wallet moves name a user (`PublisherAssumption`).

`ReadIsExact` has two halves.  The calendar: `YearOf` and `MonthOf` show that the
year and month of every day up to the last year exist; `PeriodStart`, that the
start of a period is a boundary of its kind and that none lies between it and the
day; so two instants have one bucket exactly if no boundary lies between their
days (`SameBucket`), leap years and the turn of a century included.  The
counting: until something fails, a document counts each event that has come to it
once, an event that is recorded has come to all of its documents, and of one id
one event has come anywhere (`ExactInv`).  The inductive part is that an event
never comes to a document twice: its documents are distinct (`DocsDiffer`), and
an id that is recorded is not received again.

`Accounts`.  Whether a document is backed depends on how far the request that
writes it has come: `IInv` says for each step what of the pool and the groups is
already there (`CallInv`), how documents, accounts and groups go together
(`PoolInv`), and that one request at most accepts an invitation
(`OneAcceptance`).  For `NobodyIsHalfRegisteredHolds` a request that leaves its
last step has written the document, or has thrown and its address is `broken`.

Sums over finite sets are the folds of the community modules, whose value for
every set is a fact about recursion.  `Sums` proves what is needed of them (adding
an element, changing one summand, a subset) from a smallest counterexample, the
well-foundedness of the natural numbers being a theorem of the library.

The assumptions are those of the `ASSUME`s in the modules: prices are natural
numbers, quantities positive, requests well formed, the documents of an analytics
event distinct (in `AnalyticsDelivery`; in `Snapshots` that is proved), the users
of the analytics finitely many, and no instant after the last year.

Model-checked only: liveness (`EvaluationTriggers`, `TriggeredJobRuns`,
`ClaimSettles`, `TriggeredIsServed`, `Drained`), which is out of the prover's
reach.  Every invariant and action property of a passing run is proved.

## 5. Disagreements between code and documentation

Each is a run that TLC refutes, with the quoted text in `PROJECT.json`.

- `stranded` (`NoStrandedTrigger`): an order that was released to PENDING can be
  triggered again before its first job has been removed.  The add with the same
  job id does nothing, and the order stays TRIGGERED with the price at its
  target; no later evaluation looks at it.
- `lost_shares` (`PositionCoversTrades`): two overlapping executions for one
  user and stock read the same position; one purchase is lost from it, or its
  job fails on the unique index after the debit.

More such disagreements can be read off the models, where no run is spent on them.

- The catch around `debitForOrder` treats every exception as an empty wallet
  (`DebitError`).  If the insert of the ledger row fails, the order is FAILED for
  lack of funds and the money is gone (`src/modules/orders/orders.service.ts:331`);
  `RejectedIsUnchargedHolds` is therefore about runs in which no call has failed.
- The document that `acceptAdminInvite` writes has no `cognitoSub`
  (`src/modules/auth/auth.service.ts:241`), by which `JwtAuthGuard` looks for
  the user of a token, so that a person who has accepted an invitation in both
  stores, as the comments there intend, gets past no guard.
- `createBuyOrder` decides whether to evaluate with a price read two awaits
  before the insert.  A price that falls in between is evaluated before the order
  exists, and the order stays PENDING with the price at its target until the next
  update.

Two more limits contradict no document.  A failure between the first snapshot and
the processed-event record makes the redelivered event count again in the additive
metrics (`OneCountPerFault` allows it).  And a price job that stalls may take its
stock back to an older day.

## 6. What is not modelled

- Logging and request context, configuration, bootstrap, e-mail (SES) and file
  upload (S3, and with it the avatar of a user): no state that another part
  reads, or pure input and output.
- The mock provider: a random walk without state.
- Several instances of the service on one Redis, or of the analytics process on
  one queue: the models have the workers of one process, one job at a time for
  prices, evaluations and syncs, and one message at a time for the consumer.
- The average price of a position and of the executions: floating point.
- Malformed analytics messages: an exception of `parseMessage` is one of those
  of `Abandon`, but a message that fails every time is not in the model.
- The confirmation of an SNS address by e-mail, and the `email` field of a
  subscription; passwords, codes and the expiry of tokens.

Twelve hazards in `PROJECT.json` have no property.  Three are the disagreements
at the end of section 5.  For the others nothing in the code or its documents
promises anything that could be checked: a swallowed failure of the
publisher loses the event; an order that is triggered twice publishes one event
id twice; the last observed price of the analytics is that of the event handled
last; two first subscribe requests both call SNS; an ARN that was not saved is
not repaired; a closing price may overwrite a newer price of the webhook; the
first price of a new symbol leaves it without `leastPrice`; `balanceBefore` in the
row of a deposit may be stale; and the tokens of an accepted invitation name the
groups of before.  The behaviour itself is in the models, with the exception named
in each note.

## 7. Plan

Done, in this order: `OrderPipeline` with `JobQueue`, its contract and proofs,
`AnalyticsDelivery`, `WalletLedger`, `PriceFeed`, `Subscriptions`, `Snapshots`,
`Accounts`, `ProviderSync`, `InlinePipeline`.

What could follow: `Subscriptions` composed with the notifications of
`PriceFeed`, so that whoever is subscribed gets the decrease; what an order that
is EXECUTING after a crash still owes; an abstract specification that the snapshots
and the wallet implement.

## 8. How to run

    tlc -workers 2 -config OrderPipeline_faults.cfg MCOrderPipeline.tla
    tlapm OrderPipelineProofs.tla

`PROJECT.json` lists every run with its module and configuration, the broken
variants with the property that refutes each, and the source lines of every
definition.
