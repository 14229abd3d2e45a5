------------------------------ MODULE PriceFeed ------------------------------
(***************************************************************************)
(* What one price update does to the stock, its price events and the       *)
(* notifications: the price worker of concurrency 1 (JobQueue) with every  *)
(* awaited call, failing calls, and restarts that run onModuleInit.        *)
(*                                                                         *)
(* Sources: modules/queue/queue.service.ts (processPriceUpdate),           *)
(* modules/stocks/stocks.service.ts, modules/price-events under src/src.   *)
(*                                                                         *)
(* Operators that nothing uses are broken variants of the ones below them. *)
(***************************************************************************)
EXTENDS JobQueue, FiniteSets

CONSTANTS
  Symbol, Seeded,   \* the symbols that occur, and those onModuleInit inserts
  Price, SeedPrice,
  Absent,           \* no document, or a field that is not there
  MaxUpdates, MaxErrors, MaxRestarts   \* bounds on what the environment does

ASSUME PriceAssumption == Price \subseteq Nat /\ Absent \notin Price
ASSUME SeedAssumption == Seeded \subseteq Symbol /\ SeedPrice \in [Seeded -> Price]
ASSUME BoundAssumption ==
  MaxStalls \in Nat /\ MaxUpdates \in Nat /\ MaxErrors \in Nat /\ MaxRestarts \in Nat

VARIABLES
  current, least,   \* stocks: currentPrice and leastPrice
  events,           \* the price-event collection
  alerts,           \* the decrease notifications that SNS has accepted
  applied,          \* history: every change of a currentPrice
  newest,           \* history: the latest market day whose price a stock has had
  queue, step, old, \* the price queue and the worker's handler
  updates, errors, restarts

stocks == <<current, least, newest>>
worker == <<step, old>>
spent == <<updates, errors, restarts>>
vars == <<stocks, events, alerts, applied, queue, worker, spent>>

Step == {"idle", "read", "record", "upsert", "announce", "finish"}
Change == [symbol : Symbol, old : Price \cup {Absent}, new : Price]
\* day is history: the market day of a price of the sync, 0 for the webhook's.
Job == [symbol : Symbol, price : Price, day : Nat, stalls : Nat]

\* The three default stocks have been inserted with leastPrice.
Init ==
  /\ current = [s \in Symbol |-> IF s \in Seeded THEN SeedPrice[s] ELSE Absent]
  /\ least = current
  /\ newest = [s \in Symbol |-> 0]
  /\ events = <<>> /\ alerts = <<>> /\ applied = <<>>
  /\ queue = <<>> /\ step = "idle" /\ old = Absent
  /\ updates = 0 /\ errors = 0 /\ restarts = 0

symbol == Head(queue).symbol
new == Head(queue).price
day == Head(queue).day
change == [symbol |-> symbol, old |-> old, new |-> new]

-----------------------------------------------------------------------------

\* enqueuePriceUpdate, by the webhook or by the provider sync.
EnqueueLifo(j) ==
  IF step = "idle" THEN <<j>> \o queue ELSE <<Head(queue), j>> \o Tail(queue)
Enqueue(j) == Append(queue, j)

Announce(s, p) ==
  /\ updates < MaxUpdates
  /\ updates' = updates + 1
  /\ queue' = Enqueue([symbol |-> s, price |-> p, day |-> 0, stalls |-> 0])
  /\ UNCHANGED <<stocks, events, alerts, applied, worker, errors, restarts>>

Take ==
  /\ step = "idle"
  /\ \E i \in Startable(queue) : queue' = Start(queue, i)
  /\ step' = "read"
  /\ UNCHANGED <<stocks, events, alerts, applied, old, spent>>

Error == errors < MaxErrors /\ errors' = errors + 1 /\ UNCHANGED <<updates, restarts>>

KnownLeast(s) == least[s]
Known(s) == current[s]

\* getStockBySymbol(...).catch(() => null): a failing read is an unknown stock.
ReadStock ==
  /\ step = "read"
  /\ \/ old' = Known(symbol) /\ UNCHANGED spent
     \/ old' = Absent /\ Error
  /\ step' = "record"
  /\ UNCHANGED <<stocks, events, alerts, applied, queue>>

OmitEvent(c) == events
WithEvent(c) == Append(events, c)

RecordEvent ==
  /\ step = "record"
  /\ events' = WithEvent(change)
  /\ step' = "upsert"
  /\ UNCHANGED <<stocks, alerts, applied, queue, old, spent>>

\* The $cond of upsertPrice.  A missing field equals no null and is below
\* every number, so that a stock without leastPrice does not get one.
LastPrice(l, p) == p
NewLeast(l, p) == IF l # Absent /\ p < l THEN p ELSE l

UpsertPrice ==
  /\ step = "upsert"
  /\ current' = [current EXCEPT ![symbol] = new]
  /\ least' = [least EXCEPT ![symbol] = NewLeast(@, new)]
  /\ applied' = Append(applied, [change EXCEPT !.old = current[symbol]])
  /\ newest' = [newest EXCEPT ![symbol] = IF @ < day THEN day ELSE @]
  /\ step' = "announce"
  /\ UNCHANGED <<events, alerts, queue, old, spent>>

NoRise(c) == c.old # Absent /\ c.new <= c.old
Decrease(c) == c.old # Absent /\ c.new < c.old

\* publishPriceDecreaseNotification swallows the failure of either publish.
AnnounceDecrease ==
  /\ step = "announce"
  /\ \/ alerts' = (IF Decrease(change) THEN Append(alerts, change) ELSE alerts)
        /\ UNCHANGED spent
     \/ Decrease(change) /\ Error /\ UNCHANGED alerts
  /\ step' = "finish"
  /\ UNCHANGED <<stocks, events, applied, queue, old>>

EndJob == queue' = Tail(queue) /\ step' = "idle" /\ old' = Absent

\* enqueueOrderEvaluation, which OrderPipeline has, and the end of the job.
Finish ==
  /\ step = "finish"
  /\ EndJob
  /\ UNCHANGED <<stocks, events, alerts, applied, spent>>

\* An awaited call that is not caught throws; the job is not tried again.
JobError ==
  /\ step \in {"record", "upsert", "finish"}
  /\ Error
  /\ EndJob
  /\ UNCHANGED <<stocks, events, alerts, applied>>

\* The process dies and starts again: onModuleInit gives every stock without
\* leastPrice its current price, and the active job has stalled (JobQueue).
Restart ==
  /\ restarts < MaxRestarts
  /\ restarts' = restarts + 1
  /\ least' = [s \in Symbol |-> IF least[s] = Absent THEN current[s] ELSE least[s]]
  /\ queue' = IF step = "idle" THEN queue ELSE Restall(queue)
  /\ step' = "idle" /\ old' = Absent
  /\ UNCHANGED <<current, newest, events, alerts, applied, updates, errors>>

Rest == queue = <<>> /\ UNCHANGED vars

Next ==
  \/ \E s \in Symbol, p \in Price : Announce(s, p)
  \/ Take \/ ReadStock \/ RecordEvent \/ UpsertPrice \/ AnnounceDecrease \/ Finish
  \/ JobError \/ Restart \/ Rest

Spec == Init /\ [][Next]_vars

-----------------------------------------------------------------------------

\* Every variable has its type; a busy worker has a job.
TypeOK ==
  /\ current \in [Symbol -> Price \cup {Absent}]
  /\ least \in [Symbol -> Price \cup {Absent}]
  /\ newest \in [Symbol -> Nat]
  /\ events \in Seq(Change)
  /\ alerts \in Seq(Change)
  /\ applied \in Seq(Change)
  /\ queue \in Seq(Job)
  /\ step \in Step
  /\ step # "idle" => queue # <<>>
  /\ old \in Price \cup {Absent}
  /\ updates \in Nat /\ errors \in Nat /\ restarts \in Nat

\* leastPrice of a seeded stock is the lowest price it ever had, through jobs
\* that fail or run twice and through restarts (upsertPrice, onModuleInit).
LeastIsLowest ==
  \A s \in Seeded :
    /\ \A i \in DOMAIN applied :
         applied[i].symbol = s => least[s] <= applied[i].new /\ least[s] <= applied[i].old
    /\ \/ least[s] = SeedPrice[s]
       \/ \E i \in DOMAIN applied : applied[i].symbol = s /\ least[s] = applied[i].new

\* The changes of q that give stock s the price p.
Moves(q, s, p) == {i \in DOMAIN q : q[i].symbol = s /\ q[i].new = p}

\* No price changes without a price event of its own, whatever fails or runs
\* twice (recordPriceEvent comes first).
AppliedIsRecorded ==
  \A s \in Symbol, p \in Price :
    Cardinality(Moves(applied, s, p)) <= Cardinality(Moves(events, s, p))

\* A decrease notification tells of a decrease that took place.
AlertsAreTrue ==
  \A i \in DOMAIN alerts : \E j \in DOMAIN applied : applied[j] = alerts[i]

\* The decreases among the first n changes.
Falls(n) == {i \in 1 .. n : applied[i].old # Absent /\ applied[i].old > applied[i].new}

\* Without a failure and a restart, the price events are exactly the changes
\* of the prices, old and new, and exactly the decreases were announced, in
\* the order in which they took place.
FeedIsExact ==
  errors = 0 /\ restarts = 0 /\ step = "idle" =>
    /\ events = applied
    /\ Len(alerts) = Cardinality(Falls(Len(applied)))
    /\ \A i \in Falls(Len(applied)) : alerts[Cardinality(Falls(i))] = applied[i]
=============================================================================
