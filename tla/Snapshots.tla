------------------------------- MODULE Snapshots -------------------------------
(***************************************************************************)
(* The snapshot documents of the analytics microservice, one per user and  *)
(* calendar period and one per period for all users: how applyEvent brings *)
(* an event into them, one document after the other, and what a reader is  *)
(* shown.  AnalyticsDelivery has the way of a message to this point; here  *)
(* the queue hands any event that is not recorded as processed to the      *)
(* consumer, in any order, and again after a failure.                      *)
(*                                                                         *)
(* Sources: microservice/analytics/analytics.service.ts and                *)
(* types/analytics-metrics.type.ts.                                        *)
(*                                                                         *)
(* Operators that nothing uses are broken variants of the ones below them. *)
(***************************************************************************)
EXTENDS AnalyticsPeriods, Sequences, FiniteSets, Functions

CONSTANTS
  Event,       \* what reaches the consumer
  Id, idOf,    \* its eventId; an order triggered twice sends one id twice
  data,        \* its type, user, time and payload
  User, Stock,
  Everybody,   \* the owner of the documents for all users
  NoUser,      \* the user of an event that concerns none
  NoPrice,     \* a stock without an entry in stockPrices
  NoEvent,
  Reading,     \* the instants at which somebody may read
  MaxFaults    \* bound on failing calls and restarts

EventType == {"order.created", "order.triggered", "order.cancelled", "order.executed",
              "order.failed", "wallet.deposited", "wallet.debited",
              "stock.price.updated", "stock.price.decreased", "stock.subscription.changed"}
OrderStatus == {"pending", "triggered", "cancelled", "completed", "failed"}

AnalyticsEvent ==
  [type : EventType, user : User \cup {NoUser}, occurredAt : Nat,
   status : OrderStatus, quantity : Nat, amount : Nat,
   stock : Stock, price : Nat, stocks : SUBSET Stock]

ASSUME DataAssumption ==
  /\ Everybody \notin User /\ NoUser \notin User \cup {Everybody}
  /\ NoPrice \notin Nat /\ NoEvent \notin Event
  /\ data \in [Event -> AnalyticsEvent] /\ idOf \in [Event -> Id]
  /\ Reading \subseteq Nat /\ MaxFaults \in Nat
  /\ IsFiniteSet(User)

\* The publishers of trades and of wallet moves always name their user.
ASSUME PublisherAssumption ==
  \A e \in Event :
    data[e].type \in {"order.executed", "wallet.deposited", "wallet.debited"}
      => data[e].user # NoUser

\* Nothing happens after LastYear (the code ends a lifetime with the year 9999).
ASSUME InstantAssumption ==
  \A t \in Reading \cup {data[e].occurredAt : e \in Event} :
    t \div TicksPerDay < UTC(LastYear + 1, 0, 1)

VARIABLES
  metrics,     \* the documents that exist, and the metrics of each
  inHand, at,  \* the event that applyEvent works on, and its next document
  processed,   \* the ids in the processed-event collection
  faults,
  reached      \* history: the documents that each event has come to

vars == <<metrics, inHand, at, processed, faults, reached>>

Init ==
  /\ metrics = <<>>
  /\ inHand = NoEvent /\ at = 1
  /\ processed = {}
  /\ faults = 0
  /\ reached = {}

-----------------------------------------------------------------------------
(* applyEventToMetrics.  averageExecutionPrice and subscriptionCount are    *)
(* computed from totalInvested, totalQuantityBought and subscribedStockIds, *)
(* and are left out.                                                        *)

Metrics ==
  [orderCounts : [OrderStatus -> Nat],
   executedTradeCount : Nat, totalQuantityBought : Nat, totalInvested : Nat,
   walletDeposits : Nat, walletSpend : Nat,
   priceUpdateCount : Nat, priceDecreaseCount : Nat,
   lowest : [Stock -> Nat \cup {NoPrice}], latest : [Stock -> Nat \cup {NoPrice}],
   subscribedStockIds : SUBSET Stock]

createDefaultAnalyticsMetrics ==
  [orderCounts |-> [s \in OrderStatus |-> 0],
   executedTradeCount |-> 0, totalQuantityBought |-> 0, totalInvested |-> 0,
   walletDeposits |-> 0, walletSpend |-> 0,
   priceUpdateCount |-> 0, priceDecreaseCount |-> 0,
   lowest |-> [s \in Stock |-> NoPrice], latest |-> [s \in Stock |-> NoPrice],
   subscribedStockIds |-> {}]

isOrderEvent(e) ==
  data[e].type \in {"order.created", "order.triggered", "order.cancelled",
                    "order.executed", "order.failed"}

LatestAsLowest(old, new) == new
Lower(old, new) == IF old = NoPrice \/ new < old THEN new ELSE old

applyStockPriceMetric(metric, e) ==
  LET s == data[e].stock
  IN  [metric EXCEPT !.lowest[s] = Lower(@, data[e].price), !.latest[s] = data[e].price]

Subscribed(metric, e, owner) ==
  IF owner = Everybody THEN metric.subscribedStockIds \cup data[e].stocks ELSE data[e].stocks

Counted(metric, e) ==
  IF isOrderEvent(e) THEN [metric EXCEPT !.orderCounts[data[e].status] = @ + 1] ELSE metric

applyEventToMetrics(current, e, owner) ==
  LET metric == Counted(current, e)
      type == data[e].type
  IN  CASE type = "order.executed" ->
             [metric EXCEPT !.executedTradeCount = @ + 1,
                            !.totalQuantityBought = @ + data[e].quantity,
                            !.totalInvested = @ + data[e].amount]
        [] type = "wallet.deposited" -> [metric EXCEPT !.walletDeposits = @ + data[e].amount]
        [] type = "wallet.debited"   -> [metric EXCEPT !.walletSpend = @ + data[e].amount]
        [] type = "stock.price.updated" ->
             applyStockPriceMetric([metric EXCEPT !.priceUpdateCount = @ + 1], e)
        [] type = "stock.price.decreased" ->
             applyStockPriceMetric([metric EXCEPT !.priceDecreaseCount = @ + 1], e)
        [] type = "stock.subscription.changed" ->
             [metric EXCEPT !.subscribedStockIds = Subscribed(metric, e, owner)]
        [] OTHER -> metric

-----------------------------------------------------------------------------
(* handleMessage and applyEvent.                                           *)

Document(owner, t, period) == [owner |-> owner, bucket |-> getBucketForDate(t, period)]

PeriodsOf(owner, e) ==
  [i \in 1 .. 5 |-> Document(owner, data[e].occurredAt, ANALYTICS_PERIODS[i])]

UserPeriods(e) ==
  IF data[e].user = NoUser THEN <<>> ELSE PeriodsOf(data[e].user, e)

EverybodyFirst(e) == PeriodsOf(Everybody, e) \o UserPeriods(e)
DocsOf(e) == UserPeriods(e) \o PeriodsOf(Everybody, e)

docsOf == [e \in Event |-> DocsOf(e)]
Doc == UNION {Range(docsOf[e]) : e \in Event}

\* A message comes from the queue; the event is not known yet.
Receive(e) ==
  /\ inHand = NoEvent
  /\ idOf[e] \notin processed
  /\ inHand' = e /\ at' = 1
  /\ UNCHANGED <<metrics, processed, faults, reached>>

StoredMetrics(d) ==
  IF d \in DOMAIN metrics THEN metrics[d] ELSE createDefaultAnalyticsMetrics

\* updateUserSnapshot and updateAdminSnapshot: insert the document if there is
\* none, and save it with the new metrics.
UpdateSnapshot ==
  /\ inHand # NoEvent /\ at <= Len(docsOf[inHand])
  /\ LET d == docsOf[inHand][at]
     IN  /\ metrics' = [x \in DOMAIN metrics \cup {d} |->
                          IF x = d THEN applyEventToMetrics(StoredMetrics(d), inHand, d.owner)
                          ELSE metrics[x]]
         /\ reached' = reached \cup {<<inHand, d>>}
  /\ at' = at + 1
  /\ UNCHANGED <<inHand, processed, faults>>

Record ==
  /\ inHand # NoEvent /\ at > Len(docsOf[inHand])
  /\ processed' = processed \cup {idOf[inHand]}
  /\ inHand' = NoEvent /\ at' = 1
  /\ UNCHANGED <<metrics, faults, reached>>

\* A call throws, or the process dies: the documents saved so far stay.
Abandon ==
  /\ inHand # NoEvent
  /\ faults < MaxFaults
  /\ faults' = faults + 1
  /\ inHand' = NoEvent /\ at' = 1
  /\ UNCHANGED <<metrics, processed, reached>>

\* Every event is recorded.
Rest == inHand = NoEvent /\ processed = {idOf[e] : e \in Event} /\ UNCHANGED vars

Next == (\E e \in Event : Receive(e)) \/ UpdateSnapshot \/ Record \/ Abandon \/ Rest

Spec == Init /\ [][Next]_vars

\* getUserAnalytics and getAdminAnalytics, asked for a period at instant now.
Shown(owner, period, now) == StoredMetrics(Document(owner, now, period))

-----------------------------------------------------------------------------
(* What the snapshots guarantee.                                           *)

\* The types, for the proofs: every document is one of an event.
TypeOK ==
  /\ \A d \in DOMAIN metrics : d \in Doc /\ metrics[d] \in Metrics
  /\ inHand \in Event \cup {NoEvent}
  /\ at \in 1 .. (IF inHand = NoEvent THEN 1 ELSE Len(docsOf[inHand]) + 1)
  /\ processed \subseteq Id
  /\ faults \in 0 .. MaxFaults
  /\ reached \subseteq Event \X DOMAIN metrics

Of(E, type) == {e \in E : data[e].type = type}
Total(E, type, field) == SumFunctionOnSet([e \in Event |-> data[e][field]], Of(E, type))
PriceEvents(E, s) ==
  {e \in Of(E, "stock.price.updated") \cup Of(E, "stock.price.decreased") : data[e].stock = s}
ListsOf(E) == {data[e].stocks : e \in Of(E, "stock.subscription.changed")}

\* The metrics that each event of E has entered once.
Reports(metric, E) ==
  /\ \A s \in OrderStatus :
       metric.orderCounts[s] = Cardinality({e \in E : isOrderEvent(e) /\ data[e].status = s})
  /\ metric.executedTradeCount = Cardinality(Of(E, "order.executed"))
  /\ metric.totalQuantityBought = Total(E, "order.executed", "quantity")
  /\ metric.totalInvested = Total(E, "order.executed", "amount")
  /\ metric.walletDeposits = Total(E, "wallet.deposited", "amount")
  /\ metric.walletSpend = Total(E, "wallet.debited", "amount")
  /\ metric.priceUpdateCount = Cardinality(Of(E, "stock.price.updated"))
  /\ metric.priceDecreaseCount = Cardinality(Of(E, "stock.price.decreased"))

Prices(E, s) == {data[e].price : e \in PriceEvents(E, s)}

\* What a stock price or a subscription event leaves the same however often it
\* is applied.
Remembers(metric, E, owner) ==
  /\ \A s \in Stock :
       LET prices == Prices(E, s)
       IN  IF prices = {} THEN metric.lowest[s] = NoPrice /\ metric.latest[s] = NoPrice
           ELSE /\ metric.lowest[s] \in prices /\ metric.latest[s] \in prices
                /\ \A p \in prices : metric.lowest[s] <= p
  /\ IF owner = Everybody THEN metric.subscribedStockIds = UNION ListsOf(E)
     ELSE metric.subscribedStockIds \in ListsOf(E) \cup {{}}

\* The kinds of period in which instant t and event e are together.
together ==
  [t \in Reading |-> [e \in Event |-> {p \in Period : SamePeriod(t, data[e].occurredAt, p)}]]

\* Whoever reads a period sees each processed event of exactly that calendar
\* period (UTC, weeks from Monday) once, until something fails; of two events
\* with one id, one counts.
ReadIsExact ==
  inHand = NoEvent /\ faults = 0 =>
    \E chosen \in [processed -> Event] :
      /\ \A i \in processed : idOf[chosen[i]] = i
      /\ \A owner \in User \cup {Everybody}, p \in Period, t \in Reading :
           Reports(Shown(owner, p, t),
                   {e \in Range(chosen) :
                     p \in together[t][e] /\ owner \in {data[e].user, Everybody}})

ReachedBy(d) == {e \in Event : <<e, d>> \in reached}

\* Lowest prices and the stocks of all subscribers are exact in every document
\* at every moment, whatever fails between two documents and comes again.
RepetitionIsHarmless ==
  \A d \in DOMAIN metrics : Remembers(metrics[d], ReachedBy(d), d.owner)

SumOverUsers(bucket, field) ==
  SumFunctionOnSet([u \in User |-> StoredMetrics([owner |-> u, bucket |-> bucket])[field]], User)

\* What everybody is said to have invested, deposited and spent in a period is
\* never more than what the users are, even when an event is counted twice.
EverybodyWithinUsers ==
  \A d \in DOMAIN metrics :
    d.owner = Everybody =>
      \A field \in {"executedTradeCount", "totalInvested", "walletDeposits", "walletSpend"} :
        metrics[d][field] <= SumOverUsers(d.bucket, field)
=============================================================================
