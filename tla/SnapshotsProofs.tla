--------------------------- MODULE SnapshotsProofs ---------------------------
(***************************************************************************)
(* Proofs about Snapshots, for any users, stocks and events, any length of *)
(* a day and any number of failures: types, what repetition leaves alone,  *)
(* everybody's sums against the users', the calendar periods, and what a   *)
(* reader is shown until something fails.                                  *)
(***************************************************************************)
EXTENDS Snapshots, SequenceTheorems, Sums, TLAPS

IsPriceEvent(e) == data[e].type \in {"stock.price.updated", "stock.price.decreased"}
IsSubscription(e) == data[e].type = "stock.subscription.changed"

-----------------------------------------------------------------------------
(* The metrics after an event.                                             *)

LEMMA CountedType ==
  ASSUME NEW m \in Metrics, NEW e \in Event
  PROVE  /\ Counted(m, e) \in Metrics
         /\ Counted(m, e).lowest = m.lowest /\ Counted(m, e).latest = m.latest
         /\ Counted(m, e).subscribedStockIds = m.subscribedStockIds
  BY DataAssumption DEF Counted, Metrics, AnalyticsEvent

LEMMA PriceMetricType ==
  ASSUME NEW m \in Metrics, NEW e \in Event
  PROVE  LET r == applyStockPriceMetric(m, e)
             s == data[e].stock
         IN  /\ r \in Metrics
             /\ r.lowest = [m.lowest EXCEPT ![s] = Lower(m.lowest[s], data[e].price)]
             /\ r.latest = [m.latest EXCEPT ![s] = data[e].price]
             /\ r.subscribedStockIds = m.subscribedStockIds
<1>1. data[e].stock \in Stock /\ data[e].price \in Nat
  BY DataAssumption DEF AnalyticsEvent
<1>2. Lower(m.lowest[data[e].stock], data[e].price) \in Nat \cup {NoPrice}
  BY <1>1 DEF Lower, Metrics
<1> QED
  BY <1>1, <1>2 DEF applyStockPriceMetric, Metrics

\* What an event does to the metrics that repetition leaves alone.
LEMMA MetricsAfter ==
  ASSUME NEW m \in Metrics, NEW e \in Event, NEW owner
  PROVE  LET r == applyEventToMetrics(m, e, owner)
             s == data[e].stock
         IN  /\ r \in Metrics
             /\ r.lowest = IF IsPriceEvent(e)
                           THEN [m.lowest EXCEPT ![s] = Lower(m.lowest[s], data[e].price)]
                           ELSE m.lowest
             /\ r.latest = IF IsPriceEvent(e)
                           THEN [m.latest EXCEPT ![s] = data[e].price] ELSE m.latest
             /\ r.subscribedStockIds =
                  IF IsSubscription(e) THEN Subscribed(m, e, owner) ELSE m.subscribedStockIds
<1> DEFINE c == Counted(m, e)
<1>1. /\ c \in Metrics /\ c.lowest = m.lowest /\ c.latest = m.latest
      /\ c.subscribedStockIds = m.subscribedStockIds
  BY CountedType
<1>2. /\ data[e].amount \in Nat /\ data[e].quantity \in Nat
      /\ data[e].stocks \in SUBSET Stock
  BY DataAssumption DEF AnalyticsEvent
<1>3. applyEventToMetrics(m, e, owner) =
        CASE data[e].type = "order.executed" ->
               [c EXCEPT !.executedTradeCount = @ + 1,
                         !.totalQuantityBought = @ + data[e].quantity,
                         !.totalInvested = @ + data[e].amount]
          [] data[e].type = "wallet.deposited" ->
               [c EXCEPT !.walletDeposits = @ + data[e].amount]
          [] data[e].type = "wallet.debited"   -> [c EXCEPT !.walletSpend = @ + data[e].amount]
          [] data[e].type = "stock.price.updated" ->
               applyStockPriceMetric([c EXCEPT !.priceUpdateCount = @ + 1], e)
          [] data[e].type = "stock.price.decreased" ->
               applyStockPriceMetric([c EXCEPT !.priceDecreaseCount = @ + 1], e)
          [] data[e].type = "stock.subscription.changed" ->
               [c EXCEPT !.subscribedStockIds = Subscribed(c, e, owner)]
          [] OTHER -> c
  BY DEF applyEventToMetrics
<1> HIDE DEF c
<1>4. CASE data[e].type = "stock.price.updated"
  <2> DEFINE n == [c EXCEPT !.priceUpdateCount = @ + 1]
  <2>1. /\ n \in Metrics /\ n.lowest = c.lowest /\ n.latest = c.latest
        /\ n.subscribedStockIds = c.subscribedStockIds
    BY <1>1 DEF Metrics
  <2>2. applyEventToMetrics(m, e, owner) = applyStockPriceMetric(n, e)
    BY <1>3, <1>4
  <2> HIDE DEF n
  <2> QED
    BY <1>1, <1>4, <2>1, <2>2, PriceMetricType DEF IsPriceEvent, IsSubscription
<1>5. CASE data[e].type = "stock.price.decreased"
  <2> DEFINE n == [c EXCEPT !.priceDecreaseCount = @ + 1]
  <2>1. /\ n \in Metrics /\ n.lowest = c.lowest /\ n.latest = c.latest
        /\ n.subscribedStockIds = c.subscribedStockIds
    BY <1>1 DEF Metrics
  <2>2. applyEventToMetrics(m, e, owner) = applyStockPriceMetric(n, e)
    BY <1>3, <1>5
  <2> HIDE DEF n
  <2> QED
    BY <1>1, <1>5, <2>1, <2>2, PriceMetricType DEF IsPriceEvent, IsSubscription
<1>6. CASE IsSubscription(e)
  <2>1. Subscribed(c, e, owner) = Subscribed(m, e, owner)
    BY <1>1 DEF Subscribed
  <2>2. Subscribed(c, e, owner) \in SUBSET Stock
    BY <1>1, <1>2 DEF Subscribed, Metrics
  <2>3. applyEventToMetrics(m, e, owner) = [c EXCEPT !.subscribedStockIds = Subscribed(c, e, owner)]
    BY <1>3, <1>6 DEF IsSubscription
  <2> QED
    BY <1>1, <1>6, <2>1, <2>2, <2>3 DEF IsPriceEvent, IsSubscription, Metrics
<1>7. CASE ~ IsPriceEvent(e) /\ ~ IsSubscription(e)
  <2> DEFINE r == applyEventToMetrics(m, e, owner)
  <2>1. \/ r = c
        \/ r = [c EXCEPT !.executedTradeCount = @ + 1,
                         !.totalQuantityBought = @ + data[e].quantity,
                         !.totalInvested = @ + data[e].amount]
        \/ r = [c EXCEPT !.walletDeposits = @ + data[e].amount]
        \/ r = [c EXCEPT !.walletSpend = @ + data[e].amount]
    BY <1>3, <1>7 DEF IsPriceEvent, IsSubscription
  <2> HIDE DEF r
  <2> DEFINE Kept ==
        /\ r \in Metrics /\ r.lowest = c.lowest /\ r.latest = c.latest
        /\ r.subscribedStockIds = c.subscribedStockIds
  <2>2. ASSUME r = [c EXCEPT !.executedTradeCount = @ + 1,
                             !.totalQuantityBought = @ + data[e].quantity,
                             !.totalInvested = @ + data[e].amount]
        PROVE  Kept
    <3>1. /\ c.executedTradeCount + 1 \in Nat
          /\ c.totalQuantityBought + data[e].quantity \in Nat
          /\ c.totalInvested + data[e].amount \in Nat
      BY <1>1, <1>2 DEF Metrics
    <3> QED
      BY <1>1, <2>2, <3>1 DEF Metrics
  <2>3. ASSUME r = [c EXCEPT !.walletDeposits = @ + data[e].amount] PROVE Kept
    <3>1. c.walletDeposits + data[e].amount \in Nat
      BY <1>1, <1>2 DEF Metrics
    <3> QED
      BY <1>1, <2>3, <3>1 DEF Metrics
  <2>4. ASSUME r = [c EXCEPT !.walletSpend = @ + data[e].amount] PROVE Kept
    <3>1. c.walletSpend + data[e].amount \in Nat
      BY <1>1, <1>2 DEF Metrics
    <3> QED
      BY <1>1, <2>4, <3>1 DEF Metrics
  <2>5. Kept
    BY <1>1, <2>1, <2>2, <2>3, <2>4
  <2> QED
    BY <1>1, <1>7, <2>5 DEF r
<1> QED
  BY <1>4, <1>5, <1>6, <1>7 DEF IsPriceEvent

LEMMA DefaultType == createDefaultAnalyticsMetrics \in Metrics
  BY DEF createDefaultAnalyticsMetrics, Metrics

-----------------------------------------------------------------------------
(* The documents of an event.                                              *)

LEMMA DocsAreSequence ==
  ASSUME NEW e \in Event
  PROVE  /\ docsOf[e] = DocsOf(e)
         /\ Len(docsOf[e]) \in Nat /\ DOMAIN docsOf[e] = 1 .. Len(docsOf[e])
         /\ \A i \in 1 .. Len(docsOf[e]) : docsOf[e][i] \in Doc
<1> DEFINE S == {Document(o, data[e].occurredAt, ANALYTICS_PERIODS[i]) :
                   o \in {data[e].user, Everybody}, i \in 1 .. 5}
<1>1. \A o \in {data[e].user, Everybody} : PeriodsOf(o, e) \in [1 .. 5 -> S]
  BY DEF PeriodsOf
<1>2. PeriodsOf(data[e].user, e) \in Seq(S) /\ PeriodsOf(Everybody, e) \in Seq(S)
  <2> HIDE DEF S
  <2>1. \A f \in [1 .. 5 -> S] : f \in Seq(S)
    BY SeqDef
  <2> QED
    BY <1>1, <2>1
<1>3. UserPeriods(e) \in Seq(S)
  BY <1>2 DEF UserPeriods
<1>4. DocsOf(e) \in Seq(S) /\ docsOf[e] = DocsOf(e)
  BY <1>2, <1>3, ConcatProperties DEF DocsOf, docsOf
<1> HIDE DEF S
<1>5. DOMAIN docsOf[e] = 1 .. Len(docsOf[e]) /\ Len(docsOf[e]) \in Nat
  BY <1>4
<1> QED
  BY <1>4, <1>5 DEF Doc, Range

-----------------------------------------------------------------------------
(* Type correctness.                                                       *)

LEMMA UpdateType ==
  ASSUME TypeOK, UpdateSnapshot
  PROVE  TypeOK'
<1> DEFINE d == docsOf[inHand][at]
<1>1. inHand \in Event /\ at \in 1 .. Len(docsOf[inHand]) /\ Len(docsOf[inHand]) \in Nat
  <2>1. inHand \in Event
    BY DEF TypeOK, UpdateSnapshot
  <2> QED
    BY <2>1, DocsAreSequence DEF TypeOK, UpdateSnapshot
<1>2. d \in Doc
  BY <1>1, DocsAreSequence
<1>3. StoredMetrics(d) \in Metrics
  BY <1>2, DefaultType DEF StoredMetrics, TypeOK
<1>4. applyEventToMetrics(StoredMetrics(d), inHand, d.owner) \in Metrics
  BY <1>1, <1>3, MetricsAfter
<1>5. /\ DOMAIN metrics' = DOMAIN metrics \cup {d}
      /\ \A x \in DOMAIN metrics' : x \in Doc /\ metrics'[x] \in Metrics
  BY <1>2, <1>4 DEF UpdateSnapshot, TypeOK
<1>6. reached' \subseteq Event \X DOMAIN metrics'
  BY <1>1, <1>5 DEF UpdateSnapshot, TypeOK
<1>7. at' \in 1 .. Len(docsOf[inHand]) + 1
  BY <1>1 DEF UpdateSnapshot
<1> QED
  BY <1>1, <1>5, <1>6, <1>7, DataAssumption DEF UpdateSnapshot, TypeOK

\* The documents have the metrics of the service, and the loop of applyEvent
\* stays within the documents of its event.
LEMMA TypeCorrect == Spec => []TypeOK
<1>1. Init => TypeOK
  BY DataAssumption DEF Init, TypeOK
<1>2. TypeOK /\ [Next]_vars => TypeOK'
  <2> SUFFICES ASSUME TypeOK, [Next]_vars PROVE TypeOK'
    OBVIOUS
  <2>1. ASSUME NEW e \in Event, Receive(e) PROVE TypeOK'
    BY <2>1, DocsAreSequence, DataAssumption DEF Receive, TypeOK
  <2>2. CASE UpdateSnapshot
    BY <2>2, UpdateType
  <2>3. CASE Record
    BY <2>3, DataAssumption DEF Record, TypeOK
  <2>4. CASE Abandon
    BY <2>4, DataAssumption DEF Abandon, TypeOK
  <2>5. CASE UNCHANGED vars \/ Rest
    BY <2>5 DEF vars, Rest, TypeOK
  <2> QED
    BY <2>1, <2>2, <2>3, <2>4, <2>5 DEF Next
<1> QED
  BY <1>1, <1>2, PTL DEF Spec

-----------------------------------------------------------------------------
(* Lowest prices and subscriptions through repetition.                     *)

\* Applying an event to a document is the same as having it once more in the
\* set of events that the document remembers.
LEMMA RemembersOneMore ==
  ASSUME NEW m \in Metrics, NEW E \in SUBSET Event, NEW e \in Event, NEW owner,
         Remembers(m, E, owner)
  PROVE  Remembers(applyEventToMetrics(m, e, owner), E \cup {e}, owner)
<1> DEFINE r == applyEventToMetrics(m, e, owner)
           F == E \cup {e}
<1>1. /\ r \in Metrics
      /\ r.lowest = IF IsPriceEvent(e)
                    THEN [m.lowest EXCEPT ![data[e].stock] =
                            Lower(m.lowest[data[e].stock], data[e].price)]
                    ELSE m.lowest
      /\ r.latest = IF IsPriceEvent(e)
                    THEN [m.latest EXCEPT ![data[e].stock] = data[e].price] ELSE m.latest
      /\ r.subscribedStockIds =
           IF IsSubscription(e) THEN Subscribed(m, e, owner) ELSE m.subscribedStockIds
  BY MetricsAfter
<1>2. data[e].stock \in Stock /\ data[e].price \in Nat /\ NoPrice \notin Nat
  BY DataAssumption DEF AnalyticsEvent
<1>3. \A s \in Stock :
        Prices(F, s) = IF IsPriceEvent(e) /\ data[e].stock = s
                       THEN Prices(E, s) \cup {data[e].price} ELSE Prices(E, s)
  BY DEF Prices, PriceEvents, Of, IsPriceEvent
<1>4. \A s \in Stock : Prices(E, s) \subseteq Nat
  BY DataAssumption DEF Prices, PriceEvents, Of, AnalyticsEvent
<1>5. ListsOf(F) = IF IsSubscription(e) THEN ListsOf(E) \cup {data[e].stocks} ELSE ListsOf(E)
  BY DEF ListsOf, Of, IsSubscription
<1>6. m.lowest \in [Stock -> Nat \cup {NoPrice}] /\ m.latest \in [Stock -> Nat \cup {NoPrice}]
  BY DEF Metrics
<1> HIDE DEF r, F
<1>7. ASSUME NEW s \in Stock
      PROVE  IF Prices(F, s) = {} THEN r.lowest[s] = NoPrice /\ r.latest[s] = NoPrice
             ELSE /\ r.lowest[s] \in Prices(F, s) /\ r.latest[s] \in Prices(F, s)
                  /\ \A p \in Prices(F, s) : r.lowest[s] <= p
  <2>1. IF Prices(E, s) = {} THEN m.lowest[s] = NoPrice /\ m.latest[s] = NoPrice
        ELSE /\ m.lowest[s] \in Prices(E, s) /\ m.latest[s] \in Prices(E, s)
             /\ \A p \in Prices(E, s) : m.lowest[s] <= p
    BY DEF Remembers
  <2>2. CASE IsPriceEvent(e) /\ data[e].stock = s
    <3>1. /\ r.lowest[s] = Lower(m.lowest[s], data[e].price) /\ r.latest[s] = data[e].price
          /\ Prices(F, s) = Prices(E, s) \cup {data[e].price}
      BY <1>1, <1>3, <1>6, <2>2
    <3> QED
      BY <1>2, <1>4, <2>1, <3>1 DEF Lower
  <2>3. CASE ~ (IsPriceEvent(e) /\ data[e].stock = s)
    <3>1. /\ r.lowest[s] = m.lowest[s] /\ r.latest[s] = m.latest[s]
          /\ Prices(F, s) = Prices(E, s)
      BY <1>1, <1>3, <1>6, <2>3
    <3> QED
      BY <2>1, <3>1
  <2> QED
    BY <2>2, <2>3
<1>8. IF owner = Everybody THEN r.subscribedStockIds = UNION ListsOf(F)
      ELSE r.subscribedStockIds \in ListsOf(F) \cup {{}}
  <2>1. IF owner = Everybody THEN m.subscribedStockIds = UNION ListsOf(E)
        ELSE m.subscribedStockIds \in ListsOf(E) \cup {{}}
    BY DEF Remembers
  <2>2. UNION (ListsOf(E) \cup {data[e].stocks}) = (UNION ListsOf(E)) \cup data[e].stocks
    OBVIOUS
  <2> QED
    BY <1>1, <1>5, <2>1, <2>2 DEF Subscribed
<1> QED
  BY <1>7, <1>8 DEF Remembers, r, F

LEMMA NothingToRemember ==
  ASSUME NEW owner
  PROVE  Remembers(createDefaultAnalyticsMetrics, {}, owner)
  BY DEF Remembers, createDefaultAnalyticsMetrics, Prices, PriceEvents, Of, ListsOf

LEMMA UpdateRemembers ==
  ASSUME TypeOK, RepetitionIsHarmless, UpdateSnapshot
  PROVE  RepetitionIsHarmless'
<1>0. PICK d : d = docsOf[inHand][at]
  OBVIOUS
<1>1. inHand \in Event
  BY DEF TypeOK, UpdateSnapshot
<1>2. reached' = reached \cup {<<inHand, d>>} /\ reached \subseteq Event \X DOMAIN metrics
  BY <1>0 DEF UpdateSnapshot, TypeOK
<1>3. DOMAIN metrics' = DOMAIN metrics \cup {d}
  BY <1>0 DEF UpdateSnapshot
<1> SUFFICES ASSUME NEW x \in DOMAIN metrics'
             PROVE  Remembers(metrics'[x], ReachedBy(x)', x.owner)
  BY DEF RepetitionIsHarmless
<1>4. CASE x # d
  <2>1. x \in DOMAIN metrics /\ metrics'[x] = metrics[x]
    BY <1>0, <1>3, <1>4 DEF UpdateSnapshot
  <2>2. ReachedBy(x)' = ReachedBy(x)
    BY <1>2, <1>4 DEF ReachedBy
  <2> QED
    BY <2>1, <2>2 DEF RepetitionIsHarmless
<1>5. CASE x = d
  <2>1. metrics'[d] = applyEventToMetrics(StoredMetrics(d), inHand, d.owner)
    BY <1>0 DEF UpdateSnapshot
  <2>2. ReachedBy(d)' = ReachedBy(d) \cup {inHand} /\ ReachedBy(d) \in SUBSET Event
    BY <1>1, <1>2 DEF ReachedBy
  <2>3. StoredMetrics(d) \in Metrics
    BY DefaultType DEF StoredMetrics, TypeOK
  <2>4. Remembers(StoredMetrics(d), ReachedBy(d), d.owner)
    <3>1. CASE d \in DOMAIN metrics
      BY <3>1 DEF StoredMetrics, RepetitionIsHarmless
    <3>2. CASE d \notin DOMAIN metrics
      <4>1. ReachedBy(d) = {}
        BY <1>2, <3>2 DEF ReachedBy
      <4> QED
        BY <3>2, <4>1, NothingToRemember DEF StoredMetrics
    <3> QED
      BY <3>1, <3>2
  <2>5. Remembers(metrics'[d], ReachedBy(d)', d.owner)
    BY <1>1, <2>1, <2>2, <2>3, <2>4, RemembersOneMore
  <2> QED
    BY <1>5, <2>5
<1> QED
  BY <1>4, <1>5

\* Lowest prices and the union of the subscriptions are exact in every document
\* and at every moment, however often an event is applied again.
THEOREM RepetitionIsHarmlessHolds == Spec => []RepetitionIsHarmless
<1>1. Init => RepetitionIsHarmless
  BY DEF Init, RepetitionIsHarmless
<1>2. TypeOK /\ RepetitionIsHarmless /\ [Next]_vars => RepetitionIsHarmless'
  <2> SUFFICES ASSUME TypeOK, RepetitionIsHarmless, [Next]_vars
               PROVE  RepetitionIsHarmless'
    OBVIOUS
  <2>1. CASE UNCHANGED <<metrics, reached>>
    BY <2>1 DEF RepetitionIsHarmless, ReachedBy
  <2>2. CASE UpdateSnapshot
    BY <2>2, UpdateRemembers
  <2> QED
    BY <2>1, <2>2 DEF Next, Receive, Record, Abandon, Rest, vars
<1> QED
  BY <1>1, <1>2, TypeCorrect, PTL DEF Spec

-----------------------------------------------------------------------------
(* Everybody's sums and the users'.  The documents of the user of an event *)
(* are updated before everybody's, so that everybody's are behind by what  *)
(* the event in hand has still to bring to them.                           *)

SumField == {"executedTradeCount", "totalInvested", "walletDeposits", "walletSpend"}

\* What one application of e adds to a sum.
Gain(e, field) ==
  CASE field = "executedTradeCount" -> IF data[e].type = "order.executed" THEN 1 ELSE 0
    [] field = "totalInvested" -> IF data[e].type = "order.executed" THEN data[e].amount ELSE 0
    [] field = "walletDeposits" -> IF data[e].type = "wallet.deposited" THEN data[e].amount ELSE 0
    [] field = "walletSpend" -> IF data[e].type = "wallet.debited" THEN data[e].amount ELSE 0

Key(owner, bucket) == [owner |-> owner, bucket |-> bucket]
BucketOf(e, i) == getBucketForDate(data[e].occurredAt, ANALYTICS_PERIODS[i])

LEMMA OneKey == \A o, b, q, c : Key(o, b) = Key(q, c) <=> o = q /\ b = c
  BY DEF Key

\* The event in hand has come to the document of its user for this bucket, and
\* not yet to everybody's.
Between(bucket) ==
  /\ inHand # NoEvent /\ data[inHand].user # NoUser
  /\ \E i \in 1 .. 5 : BucketOf(inHand, i) = bucket /\ i < at /\ at <= i + 5

Debt(bucket, field) == IF Between(bucket) THEN Gain(inHand, field) ELSE 0

Behind ==
  \A bucket : \A field \in SumField :
    StoredMetrics(Key(Everybody, bucket))[field] + Debt(bucket, field)
      <= SumOverUsers(bucket, field)

LEMMA GainType ==
  ASSUME NEW e \in Event, NEW field \in SumField
  PROVE  Gain(e, field) \in Nat /\ (data[e].user = NoUser => Gain(e, field) = 0)
<1>1. data[e].amount \in Nat
  BY DataAssumption DEF AnalyticsEvent
<1> QED
  BY <1>1, PublisherAssumption DEF Gain, SumField

\* Whoever the document belongs to, the event adds the same to its sums.
LEMMA GainAfter ==
  ASSUME NEW m \in Metrics, NEW e \in Event, NEW owner, NEW field \in SumField
  PROVE  applyEventToMetrics(m, e, owner)[field] = m[field] + Gain(e, field)
<1> DEFINE c == Counted(m, e)
<1>1. /\ c \in Metrics
      /\ c.executedTradeCount = m.executedTradeCount /\ c.totalInvested = m.totalInvested
      /\ c.walletDeposits = m.walletDeposits /\ c.walletSpend = m.walletSpend
  BY CountedType DEF Counted, Metrics
<1>2. /\ m.executedTradeCount \in Nat /\ m.totalInvested \in Nat /\ m.walletDeposits \in Nat
      /\ m.walletSpend \in Nat /\ data[e].amount \in Nat
  BY DataAssumption DEF AnalyticsEvent, Metrics
<1> DEFINE type == data[e].type
           r == applyEventToMetrics(m, e, owner)
<1>3. r = CASE type = "order.executed" ->
                 [c EXCEPT !.executedTradeCount = @ + 1,
                           !.totalQuantityBought = @ + data[e].quantity,
                           !.totalInvested = @ + data[e].amount]
            [] type = "wallet.deposited" -> [c EXCEPT !.walletDeposits = @ + data[e].amount]
            [] type = "wallet.debited"   -> [c EXCEPT !.walletSpend = @ + data[e].amount]
            [] type = "stock.price.updated" ->
                 applyStockPriceMetric([c EXCEPT !.priceUpdateCount = @ + 1], e)
            [] type = "stock.price.decreased" ->
                 applyStockPriceMetric([c EXCEPT !.priceDecreaseCount = @ + 1], e)
            [] type = "stock.subscription.changed" ->
                 [c EXCEPT !.subscribedStockIds = Subscribed(c, e, owner)]
            [] OTHER -> c
  BY DEF applyEventToMetrics
<1> DEFINE Adds4(a, b, d, w) ==
        /\ r.executedTradeCount = c.executedTradeCount + a
        /\ r.totalInvested = c.totalInvested + b
        /\ r.walletDeposits = c.walletDeposits + d
        /\ r.walletSpend = c.walletSpend + w
<1> HIDE DEF c, r
<1>4. CASE type = "order.executed"
  <2>1. Adds4(1, data[e].amount, 0, 0)
    <3>1. r = [c EXCEPT !.executedTradeCount = @ + 1,
                        !.totalQuantityBought = @ + data[e].quantity,
                        !.totalInvested = @ + data[e].amount]
      BY <1>3, <1>4
    <3>2. /\ r.executedTradeCount = c.executedTradeCount + 1
          /\ r.totalInvested = c.totalInvested + data[e].amount
          /\ r.walletDeposits = c.walletDeposits /\ r.walletSpend = c.walletSpend
      BY <1>1, <3>1 DEF Metrics
    <3> QED
      BY <1>1, <1>2, <3>2
  <2>2. CASE field = "executedTradeCount"
    BY <1>1, <1>4, <2>1, <2>2 DEF Gain, r
  <2>3. CASE field = "totalInvested"
    BY <1>1, <1>4, <2>1, <2>3 DEF Gain, r
  <2>4. CASE field \in {"walletDeposits", "walletSpend"}
    BY <1>1, <1>2, <1>4, <2>1, <2>4 DEF Gain, r
  <2> QED
    BY <2>2, <2>3, <2>4 DEF SumField
<1>5. CASE type = "wallet.deposited"
  <2>1. Adds4(0, 0, data[e].amount, 0)
    BY <1>1, <1>2, <1>3, <1>5 DEF Metrics
  <2> QED
    BY <1>1, <1>2, <1>5, <2>1 DEF Gain, SumField, r
<1>6. CASE type = "wallet.debited"
  <2>1. Adds4(0, 0, 0, data[e].amount)
    BY <1>1, <1>2, <1>3, <1>6 DEF Metrics
  <2> QED
    BY <1>1, <1>2, <1>6, <2>1 DEF Gain, SumField, r
<1>7. CASE type \notin {"order.executed", "wallet.deposited", "wallet.debited"}
  <2>1. Adds4(0, 0, 0, 0)
    BY <1>1, <1>2, <1>3, <1>7 DEF Metrics, applyStockPriceMetric
  <2> QED
    BY <1>1, <1>2, <1>7, <2>1 DEF Gain, SumField, r
<1> QED
  BY <1>4, <1>5, <1>6, <1>7

-----------------------------------------------------------------------------
(* The documents in the order in which an event comes to them.             *)

LEMMA BucketsDiffer ==
  ASSUME NEW e, NEW i \in 1 .. 5, NEW j \in 1 .. 5, BucketOf(e, i) = BucketOf(e, j)
  PROVE  i = j
<1>1. \A t, p : getBucketForDate(t, p).period = p
  BY DEF getBucketForDate
<1>2. ANALYTICS_PERIODS[i] = ANALYTICS_PERIODS[j]
  BY <1>1 DEF BucketOf
<1> QED
  BY <1>2 DEF ANALYTICS_PERIODS

LEMMA DocsInOrder ==
  ASSUME NEW e \in Event
  PROVE  /\ data[e].user # NoUser =>
              /\ Len(docsOf[e]) = 10
              /\ \A i \in 1 .. 5 :
                   /\ docsOf[e][i] = Key(data[e].user, BucketOf(e, i))
                   /\ docsOf[e][i + 5] = Key(Everybody, BucketOf(e, i))
         /\ data[e].user = NoUser =>
              /\ Len(docsOf[e]) = 5
              /\ \A i \in 1 .. 5 : docsOf[e][i] = Key(Everybody, BucketOf(e, i))
<1> DEFINE S == {Key(o, BucketOf(e, i)) : o \in {data[e].user, Everybody}, i \in 1 .. 5}
           all == PeriodsOf(Everybody, e)
           own == PeriodsOf(data[e].user, e)
<1>1. /\ \A i \in 1 .. 5 : all[i] = Key(Everybody, BucketOf(e, i))
      /\ \A i \in 1 .. 5 : own[i] = Key(data[e].user, BucketOf(e, i))
      /\ all \in [1 .. 5 -> S] /\ own \in [1 .. 5 -> S]
  BY DEF PeriodsOf, Document, Key, BucketOf
<1>2. docsOf[e] = (IF data[e].user = NoUser THEN <<>> ELSE own) \o all
  BY DEF docsOf, DocsOf, UserPeriods
<1> HIDE DEF S, all, own
<1>3. all \in Seq(S) /\ own \in Seq(S) /\ Len(all) = 5 /\ Len(own) = 5
  <2>1. \A f \in [1 .. 5 -> S] : f \in Seq(S)
    BY SeqDef
  <2>2. all \in Seq(S) /\ own \in Seq(S) /\ DOMAIN all = 1 .. 5 /\ DOMAIN own = 1 .. 5
    BY <1>1, <2>1
  <2> QED
    BY <2>2, LenProperties
<1>4. CASE data[e].user = NoUser
  <2>1. docsOf[e] = all
    BY <1>2, <1>3, <1>4
  <2> QED
    BY <1>1, <1>3, <1>4, <2>1
<1>5. CASE data[e].user # NoUser
  <2>1. docsOf[e] = own \o all
    BY <1>2, <1>5
  <2>2. /\ Len(docsOf[e]) = 10
        /\ \A i \in 1 .. 10 : docsOf[e][i] = IF i <= 5 THEN own[i] ELSE all[i - 5]
    <3>1. /\ Len(own \o all) = Len(own) + Len(all)
          /\ \A i \in 1 .. Len(own) + Len(all) :
               (own \o all)[i] = IF i <= Len(own) THEN own[i] ELSE all[i - Len(own)]
      BY <1>3, ConcatProperties
    <3> QED
      BY <1>3, <2>1, <3>1
  <2>3. ASSUME NEW i \in 1 .. 5 PROVE docsOf[e][i] = own[i] /\ docsOf[e][i + 5] = all[i]
    <3>1. i \in 1 .. 10 /\ i <= 5
      OBVIOUS
    <3>2. docsOf[e][i] = own[i]
      BY <2>2, <3>1
    <3>3. PICK k \in 1 .. 10 : k = i + 5 /\ ~ k <= 5 /\ k - 5 = i
      OBVIOUS
    <3>4. docsOf[e][k] = all[k - 5]
      BY <2>2, <3>3
    <3> QED
      BY <3>2, <3>3, <3>4
  <2> QED
    BY <1>1, <1>5, <2>2, <2>3
<1> QED
  BY <1>4, <1>5

LEMMA StoredType ==
  ASSUME TypeOK
  PROVE  \A x : StoredMetrics(x) \in Metrics /\ \A f \in SumField : StoredMetrics(x)[f] \in Nat
<1>1. \A x : StoredMetrics(x) \in Metrics
  BY DefaultType DEF StoredMetrics, TypeOK
<1>2. \A m \in Metrics : \A f \in SumField : m[f] \in Nat
  BY DEF Metrics, SumField
<1> QED
  BY <1>1, <1>2

\* An update adds what the event is worth to the one document it saves.
LEMMA UpdateAdds ==
  ASSUME TypeOK, UpdateSnapshot
  PROVE  /\ inHand \in Event
         /\ \A x : \A f \in SumField :
              StoredMetrics(x)'[f] = StoredMetrics(x)[f]
                + IF x = docsOf[inHand][at] THEN Gain(inHand, f) ELSE 0
<1> DEFINE d == docsOf[inHand][at]
           m == applyEventToMetrics(StoredMetrics(d), inHand, d.owner)
<1>1. inHand \in Event
  BY DEF TypeOK, UpdateSnapshot
<1>2. /\ metrics' = [x \in DOMAIN metrics \cup {d} |-> IF x = d THEN m ELSE metrics[x]]
  BY DEF UpdateSnapshot
<1>3. \A f \in SumField : m[f] = StoredMetrics(d)[f] + Gain(inHand, f)
  BY <1>1, StoredType, GainAfter
<1> HIDE DEF d, m
<1>4. \A x : StoredMetrics(x)' = IF x = d THEN m ELSE StoredMetrics(x)
  BY <1>2 DEF StoredMetrics
<1>5. \A x : \A f \in SumField : StoredMetrics(x)[f] \in Nat
  BY StoredType
<1>6. \A x : \A f \in SumField :
        StoredMetrics(x)'[f] = StoredMetrics(x)[f] + IF x = d THEN Gain(inHand, f) ELSE 0
  BY <1>3, <1>4, <1>5
<1> QED
  BY <1>1, <1>6 DEF d

LEMMA UsersSumType ==
  ASSUME TypeOK
  PROVE  \A b : \A f \in SumField : SumOverUsers(b, f) \in Nat
<1> SUFFICES ASSUME NEW b, NEW f \in SumField PROVE SumOverUsers(b, f) \in Nat
  OBVIOUS
<1> DEFINE g == [u \in User |-> StoredMetrics([owner |-> u, bucket |-> b])[f]]
<1>1. IsFiniteSet(User) /\ \A u \in User : g[u] \in Nat
  BY StoredType, DataAssumption
<1>2. SumOverUsers(b, f) = SumFunctionOnSet(g, User)
  BY DEF SumOverUsers
<1> HIDE DEF g
<1> QED
  BY <1>1, <1>2, SumType

LEMMA UsersSum ==
  ASSUME TypeOK, UpdateSnapshot, NEW b, NEW f \in SumField
  PROVE  /\ SumOverUsers(b, f) \in Nat
         /\ SumOverUsers(b, f)' = SumOverUsers(b, f)
              + IF \E u \in User : docsOf[inHand][at] = Key(u, b) THEN Gain(inHand, f) ELSE 0
<1> DEFINE g == [u \in User |-> StoredMetrics(Key(u, b))[f]]
           h == [u \in User |-> StoredMetrics(Key(u, b))'[f]]
           d == docsOf[inHand][at]
<1>1. SumOverUsers(b, f) = SumFunctionOnSet(g, User) /\ SumOverUsers(b, f)' = SumFunctionOnSet(h, User)
  BY DEF SumOverUsers, Key
<1>2. /\ \A u \in User : g[u] \in Nat /\ h[u] = g[u] + IF Key(u, b) = d THEN Gain(inHand, f) ELSE 0
      /\ IsFiniteSet(User) /\ Gain(inHand, f) \in Nat
  BY UpdateAdds, StoredType, GainType, DataAssumption
<1> HIDE DEF g, h, d
<1>3. SumFunctionOnSet(g, User) \in Nat
  BY <1>2, SumType
<1>4. ASSUME NEW u \in User, Key(u, b) = d
      PROVE  SumFunctionOnSet(h, User) = SumFunctionOnSet(g, User) + Gain(inHand, f)
  <2>1. \A v \in User : v # u => Key(v, b) # d
    BY <1>4 DEF Key
  <2>2. \A v \in User : g[v] \in Nat /\ h[v] \in Nat
    BY <1>2
  <2>3. \A v \in User : v # u => h[v] = g[v]
    BY <1>2, <2>1
  <2>4. SumFunctionOnSet(h, User) = SumFunctionOnSet(g, User) + h[u] - g[u]
    BY <1>2, <2>2, <2>3, SumOneChange
  <2>5. h[u] = g[u] + Gain(inHand, f) /\ g[u] \in Nat /\ h[u] \in Nat
    BY <1>2, <1>4
  <2> QED
    BY <1>2, <1>3, <2>4, <2>5
<1>5. ASSUME ~ \E u \in User : d = Key(u, b)
      PROVE  SumFunctionOnSet(h, User) = SumFunctionOnSet(g, User)
  <2>1. \A u \in User : g[u] \in Nat /\ h[u] = g[u]
    BY <1>2, <1>5
  <2> QED
    BY <1>2, <2>1, SumSame
<1>6. SumFunctionOnSet(h, User) = SumFunctionOnSet(g, User)
        + IF \E u \in User : d = Key(u, b) THEN Gain(inHand, f) ELSE 0
  <2>1. CASE \E u \in User : d = Key(u, b)
    BY <1>4, <2>1
  <2>2. CASE ~ \E u \in User : d = Key(u, b)
    BY <1>3, <1>5, <2>2
  <2> QED
    BY <2>1, <2>2
<1> QED
  BY <1>1, <1>3, <1>6 DEF d

LEMMA UpdateStaysBehind ==
  ASSUME TypeOK, Behind, UpdateSnapshot
  PROVE  Behind'
<1> SUFFICES ASSUME NEW b, NEW f \in SumField
             PROVE  StoredMetrics(Key(Everybody, b))'[f] + Debt(b, f)' <= SumOverUsers(b, f)'
  BY DEF Behind, Key
<1> DEFINE e == inHand
           d == docsOf[inHand][at]
           all == StoredMetrics(Key(Everybody, b))[f]
           sum == SumOverUsers(b, f)
<1>1. /\ e \in Event /\ inHand' = inHand /\ at' = at + 1 /\ inHand # NoEvent
      /\ at \in 1 .. Len(docsOf[e]) /\ Len(docsOf[e]) \in Nat
  <2>1. inHand \in Event
    BY DEF TypeOK, UpdateSnapshot
  <2> QED
    BY <2>1, DocsAreSequence DEF TypeOK, UpdateSnapshot
<1>2. /\ all \in Nat /\ sum \in Nat /\ Gain(e, f) \in Nat
      /\ StoredMetrics(Key(Everybody, b))'[f] = all + IF d = Key(Everybody, b) THEN Gain(e, f) ELSE 0
      /\ SumOverUsers(b, f)' = sum
           + IF \E u \in User : d = Key(u, b) THEN Gain(e, f) ELSE 0
  BY UpdateAdds, StoredType, UsersSum, GainType
<1>3. all + Debt(b, f) <= sum
  BY DEF Behind
<1>4. CASE data[e].user = NoUser
  <2>1. Gain(e, f) = 0 /\ Debt(b, f) = 0 /\ Debt(b, f)' = 0
    BY <1>1, <1>4, GainType DEF Debt, Between
  <2> QED
    BY <1>2, <1>3, <2>1
<1>5. CASE data[e].user # NoUser
  <2>1. /\ data[e].user \in User /\ Everybody \notin User
        /\ Len(docsOf[e]) = 10
        /\ \A i \in 1 .. 5 : /\ docsOf[e][i] = Key(data[e].user, BucketOf(e, i))
                             /\ docsOf[e][i + 5] = Key(Everybody, BucketOf(e, i))
    BY <1>1, <1>5, DocsInOrder, DataAssumption DEF AnalyticsEvent
  <2>2. /\ Between(b) <=> \E i \in 1 .. 5 : BucketOf(e, i) = b /\ i < at /\ at <= i + 5
        /\ Between(b)' <=> \E i \in 1 .. 5 : BucketOf(e, i) = b /\ i < at + 1 /\ at + 1 <= i + 5
    BY <1>1, <1>5 DEF Between, BucketOf
  <2>3. /\ Debt(b, f) = IF Between(b) THEN Gain(e, f) ELSE 0
        /\ Debt(b, f)' = IF Between(b)' THEN Gain(e, f) ELSE 0
    BY <1>1 DEF Debt, Gain
  <2>4. PICK k \in 1 .. 5 : at = k \/ at = k + 5
    <3>1. at \in 1 .. 5 \/ at \in 6 .. 10
      BY <1>1, <2>1
    <3>2. at \in 6 .. 10 => at - 5 \in 1 .. 5 /\ at = (at - 5) + 5
      OBVIOUS
    <3> QED
      BY <3>1, <3>2
  <2>5. \A i \in 1 .. 5 : BucketOf(e, i) = BucketOf(e, k) => i = k
    BY BucketsDiffer
  <2>6. CASE at = k
    <3>1. d = Key(data[e].user, BucketOf(e, k))
      BY <2>1, <2>6
    <3>2. d # Key(Everybody, b)
          /\ ((\E u \in User : d = Key(u, b)) <=> b = BucketOf(e, k))
      BY <2>1, <3>1, OneKey
    <3>3. CASE b = BucketOf(e, k)
      <4>1. ~ Between(b)
        BY <2>2, <2>5, <2>6, <3>3
      <4> QED
        BY <1>2, <1>3, <2>3, <3>2, <3>3, <4>1
    <3>4. CASE b # BucketOf(e, k)
      <4>1. Between(b)' <=> Between(b)
        BY <2>2, <2>6, <3>4
      <4> QED
        BY <1>2, <1>3, <2>3, <3>2, <3>4, <4>1
    <3> QED
      BY <3>3, <3>4
  <2>7. CASE at = k + 5
    <3>1. d = Key(Everybody, BucketOf(e, k))
      BY <2>1, <2>7
    <3>2. (d = Key(Everybody, b) <=> b = BucketOf(e, k)) /\ ~ \E u \in User : d = Key(u, b)
      BY <2>1, <3>1, OneKey
    <3>3. CASE b = BucketOf(e, k)
      <4>1. Between(b) /\ ~ Between(b)'
        BY <2>2, <2>5, <2>7, <3>3
      <4> QED
        BY <1>2, <1>3, <2>3, <3>2, <3>3, <4>1
    <3>4. CASE b # BucketOf(e, k)
      <4>1. Between(b)' <=> Between(b)
        BY <2>2, <2>7, <3>4
      <4> QED
        BY <1>2, <1>3, <2>3, <3>2, <3>4, <4>1
    <3> QED
      BY <3>3, <3>4
  <2> QED
    BY <2>4, <2>6, <2>7
<1> QED
  BY <1>4, <1>5

\* A step that saves no document leaves no event between two of them.
LEMMA BehindKept ==
  ASSUME TypeOK, Behind, UNCHANGED metrics, inHand' = NoEvent \/ at' = 1 \/ UNCHANGED <<inHand, at>>
  PROVE  Behind'
<1> SUFFICES ASSUME NEW b, NEW f \in SumField
             PROVE  StoredMetrics(Key(Everybody, b))'[f] + Debt(b, f)' <= SumOverUsers(b, f)'
  BY DEF Behind, Key
<1>1. StoredMetrics(Key(Everybody, b))' = StoredMetrics(Key(Everybody, b))
      /\ SumOverUsers(b, f)' = SumOverUsers(b, f)
  BY DEF StoredMetrics, SumOverUsers, Key
<1>2. StoredMetrics(Key(Everybody, b))[f] + Debt(b, f) <= SumOverUsers(b, f)
  BY DEF Behind
<1>3. SumOverUsers(b, f) \in Nat /\ StoredMetrics(Key(Everybody, b))[f] \in Nat
  BY UsersSumType, StoredType
<1>4. Debt(b, f) \in Nat
  BY GainType, DataAssumption DEF Debt, Between, TypeOK
<1>5. Debt(b, f)' = 0 \/ Debt(b, f)' = Debt(b, f)
  <2>1. CASE inHand' = NoEvent
    BY <2>1 DEF Debt, Between
  <2>2. CASE at' = 1
    <3>1. ~ \E i \in 1 .. 5 : i < 1
      OBVIOUS
    <3> QED
      BY <2>2, <3>1 DEF Debt, Between
  <2>3. CASE UNCHANGED <<inHand, at>>
    BY <2>3 DEF Debt, Between, Gain
  <2> QED
    BY <2>1, <2>2, <2>3
<1> QED
  BY <1>1, <1>2, <1>3, <1>4, <1>5

LEMMA BehindInit == Init => Behind
<1> SUFFICES ASSUME Init, NEW b, NEW f \in SumField
             PROVE  StoredMetrics(Key(Everybody, b))[f] + Debt(b, f) <= SumOverUsers(b, f)
  BY DEF Behind
<1> DEFINE g == [u \in User |-> StoredMetrics([owner |-> u, bucket |-> b])[f]]
<1>1. \A x : StoredMetrics(x)[f] = 0
  BY DEF Init, StoredMetrics, createDefaultAnalyticsMetrics, SumField
<1>2. Debt(b, f) = 0
  BY DEF Init, Debt, Between
<1>3. IsFiniteSet(User) /\ (\A u \in User : g[u] \in Nat) /\ SumOverUsers(b, f) = SumFunctionOnSet(g, User)
  BY <1>1, DataAssumption DEF SumOverUsers
<1> HIDE DEF g
<1>4. SumOverUsers(b, f) \in Nat
  BY <1>3, SumType
<1> QED
  BY <1>1, <1>2, <1>4

\* What everybody is said to have invested, deposited and spent is never more
\* than what the users are, wherever an event is cut off and applied again.
THEOREM EverybodyWithinUsersHolds == Spec => []EverybodyWithinUsers
<1>1. TypeOK /\ Behind /\ [Next]_vars => Behind'
  <2> SUFFICES ASSUME TypeOK, Behind, [Next]_vars PROVE Behind'
    OBVIOUS
  <2>1. CASE UpdateSnapshot
    BY <2>1, UpdateStaysBehind
  <2>2. CASE ~ UpdateSnapshot
    <3>1. /\ UNCHANGED metrics
          /\ inHand' = NoEvent \/ at' = 1 \/ UNCHANGED <<inHand, at>>
      BY <2>2 DEF Next, Receive, Record, Abandon, Rest, vars
    <3> QED
      BY <3>1, BehindKept
  <2> QED
    BY <2>1, <2>2
<1>2. TypeOK /\ Behind => EverybodyWithinUsers
  <2> SUFFICES ASSUME TypeOK, Behind, NEW d \in DOMAIN metrics, d.owner = Everybody,
                      NEW f \in SumField
               PROVE  metrics[d][f] <= SumOverUsers(d.bucket, f)
    BY DEF EverybodyWithinUsers, SumField
  <2>1. d = Key(Everybody, d.bucket)
    <3>1. PICK e \in Event : d \in Range(docsOf[e])
      BY DEF TypeOK, Doc
    <3>2. PICK i \in 1 .. Len(docsOf[e]) : d = docsOf[e][i]
      BY <3>1, DocsAreSequence DEF Range
    <3>3. \E o, b : d = Key(o, b)
      <4>1. CASE data[e].user = NoUser
        BY <3>2, <4>1, DocsInOrder
      <4>2. CASE data[e].user # NoUser /\ i <= 5
        BY <3>2, <4>2, DocsInOrder
      <4>3. CASE data[e].user # NoUser /\ i > 5
        <5>1. Len(docsOf[e]) = 10
          BY <4>3, DocsInOrder
        <5>2. PICK j \in 1 .. 5 : i = j + 5
          <6>1. i - 5 \in 1 .. 5 /\ i = (i - 5) + 5
            BY <4>3, <5>1
          <6> QED
            BY <6>1
        <5>3. docsOf[e][j + 5] = Key(Everybody, BucketOf(e, j))
          BY <4>3, DocsInOrder
        <5> QED
          BY <3>2, <5>2, <5>3
      <4> QED
        BY <3>2, <4>1, <4>2, <4>3, DocsAreSequence
    <3> QED
      BY <3>3 DEF Key
  <2>2. metrics[d] = StoredMetrics(Key(Everybody, d.bucket))
    BY <2>1 DEF StoredMetrics
  <2>3. StoredMetrics(Key(Everybody, d.bucket))[f] + Debt(d.bucket, f) <= SumOverUsers(d.bucket, f)
    BY DEF Behind
  <2>4. StoredMetrics(d)[f] \in Nat /\ Debt(d.bucket, f) \in Nat
    BY StoredType, GainType, DataAssumption DEF Debt, Between, TypeOK
  <2>5. SumOverUsers(d.bucket, f) \in Nat
    BY UsersSumType
  <2> QED
    BY <2>1, <2>2, <2>3, <2>4, <2>5
<1> QED
  BY <1>1, <1>2, BehindInit, TypeCorrect, PTL DEF Spec
-----------------------------------------------------------------------------
(* The calendar: a period starts at its last boundary.                     *)

LEMMA Cancel ==
  ASSUME NEW x \in Int, NEW y \in Int, NEW k \in Nat \ {0}, x * k = y * k
  PROVE  x = y
<1>1. (x - y) * k = 0
  BY SMT
<1> QED
  BY <1>1, SMT

LEMMA DayIsNat ==
  ASSUME NEW t \in Nat, NEW k \in Nat \ {0}
  PROVE  t \div k \in Nat
  BY SMT

LEMMA YearLength ==
  ASSUME NEW y \in Nat
  PROVE  /\ YearBegins(y) \in Int
         /\ YearBegins(y + 1) = YearBegins(y) + IF LeapYear(y) THEN 366 ELSE 365
  BY DEF YearBegins, LeapYear

LEMMA YearsRise ==
  ASSUME NEW y \in Nat, NEW z \in Nat, y < z
  PROVE  YearBegins(y + 1) <= YearBegins(z)
  BY DEF YearBegins

LEMMA ElapsedDays ==
  /\ Elapsed[0] = 0 /\ Elapsed[1] = 31 /\ Elapsed[2] = 59 /\ Elapsed[3] = 90
  /\ Elapsed[4] = 120 /\ Elapsed[5] = 151 /\ Elapsed[6] = 181 /\ Elapsed[7] = 212
  /\ Elapsed[8] = 243 /\ Elapsed[9] = 273 /\ Elapsed[10] = 304 /\ Elapsed[11] = 334
  BY DEF Elapsed

\* The months follow each other, and the year ends with the last.
LEMMA MonthsInOrder ==
  ASSUME NEW y \in Nat, NEW m \in 0 .. 11
  PROVE  /\ UTC(y, m, 1) = MonthBegins(y, m) /\ MonthBegins(y, m) \in Int
         /\ MonthBegins(y, 0) = YearBegins(y) /\ UTC(y, 12, 1) = YearBegins(y + 1)
         /\ MonthBegins(y, m) < UTC(y, m + 1, 1) /\ UTC(y, m + 1, 1) \in Int
         /\ \A n \in 0 .. 11 : m < n => UTC(y, m + 1, 1) <= MonthBegins(y, n)
         /\ YearBegins(y) <= MonthBegins(y, m) /\ MonthBegins(y, m) < YearBegins(y + 1)
<1> DEFINE leap(n) == IF n > 1 /\ LeapYear(y) THEN 1 ELSE 0
<1>1. /\ YearBegins(y) \in Int /\ YearBegins(y + 1) \in Int
      /\ YearBegins(y + 1) = YearBegins(y) + IF LeapYear(y) THEN 366 ELSE 365
  BY YearLength
<1>2. \A n \in 0 .. 11 : MonthBegins(y, n) = YearBegins(y) + Elapsed[n] + leap(n)
  BY DEF MonthBegins
<1>3. \A n \in 0 .. 11 : Elapsed[n] \in 0 .. 334
  <2> SUFFICES ASSUME NEW n \in 0 .. 11 PROVE Elapsed[n] \in 0 .. 334
    OBVIOUS
  <2>1. \/ n = 0 \/ n = 1 \/ n = 2 \/ n = 3 \/ n = 4 \/ n = 5
        \/ n = 6 \/ n = 7 \/ n = 8 \/ n = 9 \/ n = 10 \/ n = 11
    OBVIOUS
  <2> QED
    BY <2>1, ElapsedDays
<1>4. \A n, k \in 0 .. 11 : n < k => Elapsed[n] + 28 <= Elapsed[k]
  <2> SUFFICES ASSUME NEW n \in 0 .. 11, NEW k \in 0 .. 11, n < k
               PROVE  Elapsed[n] + 28 <= Elapsed[k]
    OBVIOUS
  <2>1. \/ n = 0 \/ n = 1 \/ n = 2 \/ n = 3 \/ n = 4 \/ n = 5
        \/ n = 6 \/ n = 7 \/ n = 8 \/ n = 9 \/ n = 10 \/ n = 11
    OBVIOUS
  <2>2. \/ k = 0 \/ k = 1 \/ k = 2 \/ k = 3 \/ k = 4 \/ k = 5
        \/ k = 6 \/ k = 7 \/ k = 8 \/ k = 9 \/ k = 10 \/ k = 11
    OBVIOUS
  <2> QED
    BY <2>1, <2>2, ElapsedDays
<1>5. /\ MonthBegins(y, 0) = YearBegins(y)
      /\ UTC(y, 12, 1) = YearBegins(y + 1)
  <2>1. 12 \div 12 = 1 /\ 12 % 12 = 0
    OBVIOUS
  <2>2. MonthBegins(y + 1, 0) = YearBegins(y + 1)
    BY <1>1, ElapsedDays DEF MonthBegins
  <2>3. MonthBegins(y, 0) = YearBegins(y)
    BY <1>1, <1>2, ElapsedDays
  <2> QED
    BY <1>1, <2>1, <2>2, <2>3 DEF UTC
<1> HIDE DEF leap
<1>6. \A n \in 0 .. 11 : leap(n) \in 0 .. 1
  BY DEF leap
<1>7. \A n \in 0 .. 11 : MonthBegins(y, n) \in Int /\ YearBegins(y) <= MonthBegins(y, n)
                         /\ MonthBegins(y, n) < YearBegins(y + 1)
  <2> SUFFICES ASSUME NEW n \in 0 .. 11
               PROVE  /\ MonthBegins(y, n) \in Int /\ YearBegins(y) <= MonthBegins(y, n)
                      /\ MonthBegins(y, n) < YearBegins(y + 1)
    OBVIOUS
  <2>1. /\ MonthBegins(y, n) = YearBegins(y) + Elapsed[n] + leap(n)
        /\ Elapsed[n] \in 0 .. 334 /\ leap(n) \in 0 .. 1
    BY <1>2, <1>3, <1>6
  <2>2. YearBegins(y + 1) >= YearBegins(y) + 365
    BY <1>1
  <2> QED
    BY <1>1, <2>1, <2>2
<1>8. \A n, k \in 0 .. 11 : n < k => MonthBegins(y, n) < MonthBegins(y, k)
  <2> SUFFICES ASSUME NEW n \in 0 .. 11, NEW k \in 0 .. 11, n < k
               PROVE  MonthBegins(y, n) < MonthBegins(y, k)
    OBVIOUS
  <2>1. /\ MonthBegins(y, n) = YearBegins(y) + Elapsed[n] + leap(n)
        /\ MonthBegins(y, k) = YearBegins(y) + Elapsed[k] + leap(k)
        /\ Elapsed[n] \in 0 .. 334 /\ Elapsed[k] \in 0 .. 334 /\ Elapsed[n] + 28 <= Elapsed[k]
        /\ leap(n) \in 0 .. 1 /\ leap(k) \in 0 .. 1
    BY <1>2, <1>3, <1>4, <1>6
  <2>2. PICK a \in 0 .. 334, b \in 0 .. 334, i \in 0 .. 1, j \in 0 .. 1 :
          Elapsed[n] = a /\ Elapsed[k] = b /\ leap(n) = i /\ leap(k) = j
    BY <2>1
  <2>3. a + i < b + j
    BY <2>1, <2>2
  <2>4. YearBegins(y) + a + i < YearBegins(y) + b + j
    BY <1>1, <2>3
  <2> QED
    BY <2>1, <2>2, <2>4
<1>9. \A n \in 0 .. 11 : UTC(y, n, 1) = MonthBegins(y, n)
  <2> SUFFICES ASSUME NEW n \in 0 .. 11 PROVE UTC(y, n, 1) = MonthBegins(y, n)
    OBVIOUS
  <2>1. n \div 12 = 0 /\ n % 12 = n /\ y + 0 = y
    OBVIOUS
  <2>2. UTC(y, n, 1) = MonthBegins(y, n) + 1 - 1 /\ MonthBegins(y, n) \in Int
    BY <1>7, <2>1 DEF UTC
  <2> QED
    BY <2>2
<1>10. CASE m = 11
  BY <1>1, <1>5, <1>7, <1>9, <1>10
<1>11. CASE m < 11
  <2>1. m + 1 \in 0 .. 11 /\ m < m + 1
    BY <1>11
  <2>2. UTC(y, m + 1, 1) = MonthBegins(y, m + 1)
    BY <1>9, <2>1
  <2>3. ASSUME NEW n \in 0 .. 11, m < n PROVE MonthBegins(y, m + 1) <= MonthBegins(y, n)
    <3>1. n = m + 1 \/ m + 1 < n
      BY <2>3
    <3>2. MonthBegins(y, n) \in Int /\ MonthBegins(y, m + 1) \in Int
      BY <1>7, <2>1
    <3>3. m + 1 < n => MonthBegins(y, m + 1) < MonthBegins(y, n)
      BY <1>8, <2>1
    <3>4. n = m + 1 => MonthBegins(y, m + 1) = MonthBegins(y, n)
      OBVIOUS
    <3> QED
      BY <3>1, <3>2, <3>3, <3>4
  <2> QED
    BY <1>5, <1>7, <1>8, <1>9, <2>1, <2>2, <2>3
<1> QED
  BY <1>10, <1>11

\* The days before the end of the last year.
Date == {d \in Nat : d < UTC(LastYear + 1, 0, 1)}

LEMMA YearOf ==
  ASSUME NEW d \in Date
  PROVE  LET y == getUTCFullYear(d)
         IN  y \in 1970 .. LastYear /\ YearBegins(y) <= d /\ d < YearBegins(y + 1)
<1> DEFINE In(y) == YearBegins(y) <= d /\ d < YearBegins(y + 1)
           P == {n \in Nat : d < YearBegins(1970 + n) => \E y \in 1970 .. 1970 + n - 1 : In(y)}
<1>1. d \in Nat /\ LastYear \in Nat /\ d < YearBegins(LastYear + 1)
  <2>1. UTC(LastYear + 1, 0, 1) = YearBegins(LastYear + 1)
    BY CalendarAssumption, MonthsInOrder
  <2> QED
    BY <2>1, CalendarAssumption DEF Date
<1>2. YearBegins(1970) = 0
  BY DEF YearBegins
<1>3. LastYear >= 1970
  <2> SUFFICES ASSUME LastYear < 1970 PROVE FALSE
    BY <1>1
  <2>1. LastYear + 1 <= 1970 /\ LastYear + 1 \in Nat
    BY <1>1
  <2>2. LastYear + 1 < 1970 => YearBegins(LastYear + 1) < YearBegins(1970)
    BY <2>1, YearsRise, YearLength
  <2>3. YearBegins(LastYear + 1) <= 0
    BY <1>2, <2>1, <2>2, YearLength
  <2> QED
    BY <1>1, <2>1, <2>3, YearLength
<1>4. 0 \in P
  BY <1>1, <1>2
<1>5. ASSUME NEW n \in Nat, n \in P PROVE n + 1 \in P
  <2> SUFFICES ASSUME d < YearBegins(1970 + (n + 1))
               PROVE  \E y \in 1970 .. 1970 + (n + 1) - 1 : In(y)
    BY <1>5
  <2>1. YearBegins(1970 + n) \in Int /\ 1970 + (n + 1) = (1970 + n) + 1
    BY YearLength
  <2>2. CASE d < YearBegins(1970 + n)
    <3>1. PICK y \in 1970 .. 1970 + n - 1 : In(y)
      BY <1>5, <2>2
    <3>2. y \in 1970 .. 1970 + (n + 1) - 1
      OBVIOUS
    <3> QED
      BY <3>1, <3>2
  <2>3. CASE YearBegins(1970 + n) <= d
    <3>1. In(1970 + n) /\ 1970 + n \in 1970 .. 1970 + (n + 1) - 1
      BY <2>1, <2>3
    <3> QED
      BY <3>1
  <2> QED
    BY <1>1, <2>1, <2>2, <2>3
<1> HIDE DEF P
<1>6. \A n \in Nat : n \in P
  BY <1>4, <1>5, NatSetInduction
<1>7. PICK n \in Nat : LastYear + 1 = 1970 + n /\ 1970 + n - 1 = LastYear
  <2>1. LastYear - 1969 \in Nat /\ LastYear + 1 = 1970 + (LastYear - 1969)
    BY <1>1, <1>3
  <2> QED
    BY <2>1, <1>1
<1>8. \E y \in 1970 .. LastYear : In(y)
  BY <1>1, <1>6, <1>7 DEF P
<1> QED
  BY <1>8 DEF getUTCFullYear

LEMMA MonthOf ==
  ASSUME NEW d \in Date
  PROVE  LET y == getUTCFullYear(d)
             m == getUTCMonth(d)
         IN  m \in 0 .. 11 /\ MonthBegins(y, m) <= d /\ d < UTC(y, m + 1, 1)
<1> DEFINE y == getUTCFullYear(d)
           In(m) == UTC(y, m, 1) <= d /\ d < UTC(y, m + 1, 1)
<1>1. y \in Nat /\ YearBegins(y) <= d /\ d < YearBegins(y + 1) /\ d \in Nat
  BY YearOf DEF Date
<1> HIDE DEF y
<1>2. UTC(y, 0, 1) <= d /\ d < UTC(y, 12, 1)
  BY <1>1, MonthsInOrder
<1>3. \A m \in 0 .. 12 : UTC(y, m, 1) \in Int
  <2> SUFFICES ASSUME NEW m \in 0 .. 12 PROVE UTC(y, m, 1) \in Int
    OBVIOUS
  <2>1. CASE m = 12
    <3>1. 0 \in 0 .. 11 /\ y + 1 \in Nat
      BY <1>1
    <3>2. UTC(y, 12, 1) = YearBegins(y + 1)
      BY <1>1, <3>1, MonthsInOrder
    <3>3. YearBegins(y + 1) \in Int
      BY <3>1, YearLength
    <3> QED
      BY <2>1, <3>2, <3>3
  <2>2. CASE m \in 0 .. 11
    BY <1>1, <2>2, MonthsInOrder
  <2> QED
    BY <2>1, <2>2
<1>4. \E m \in 0 .. 11 : In(m)
  <2> SUFFICES ASSUME \A m \in 0 .. 11 : UTC(y, m, 1) <= d => UTC(y, m + 1, 1) <= d
               PROVE  FALSE
    <3>1. \A m \in 0 .. 11 : UTC(y, m + 1, 1) \in Int /\ UTC(y, m, 1) \in Int
      BY <1>1, MonthsInOrder
    <3> QED
      BY <1>1, <3>1
  <2>1. UTC(y, 1, 1) <= d
    BY <1>2
  <2>2. UTC(y, 2, 1) <= d
    BY <2>1
  <2>3. UTC(y, 3, 1) <= d
    BY <2>2
  <2>4. UTC(y, 4, 1) <= d
    BY <2>3
  <2>5. UTC(y, 5, 1) <= d
    BY <2>4
  <2>6. UTC(y, 6, 1) <= d
    BY <2>5
  <2>7. UTC(y, 7, 1) <= d
    BY <2>6
  <2>8. UTC(y, 8, 1) <= d
    BY <2>7
  <2>9. UTC(y, 9, 1) <= d
    BY <2>8
  <2>10. UTC(y, 10, 1) <= d
    BY <2>9
  <2>11. UTC(y, 11, 1) <= d
    BY <2>10
  <2>12. UTC(y, 12, 1) <= d
    BY <2>11
  <2> QED
    BY <1>1, <1>2, <1>3, <2>12
<1>5. getUTCMonth(d) = CHOOSE m \in 0 .. 11 : In(m)
  BY DEF getUTCMonth, y
<1>6. getUTCMonth(d) \in 0 .. 11 /\ In(getUTCMonth(d))
  BY <1>4, <1>5
<1> QED
  BY <1>1, <1>6, MonthsInOrder DEF y

\* A period starts at a boundary of its kind, and has none after it.
LEMMA PeriodStart ==
  ASSUME NEW d \in Date, NEW p \in Period \ {"lifetime"}
  PROVE  LET s == getPeriodStart(d, p)
         IN  /\ s \in Int /\ s <= d /\ Boundary(s, p)
             /\ \A x \in s + 1 .. d : ~ Boundary(x, p)
<1>1. d \in Nat
  BY DEF Date
<1>2. CASE p = "daily"
  BY <1>1, <1>2 DEF getPeriodStart, Boundary
<1>3. CASE p = "weekly"
  BY <1>1, <1>3 DEF getPeriodStart, Boundary, DaysSinceMonday, getUTCDay
<1>4. CASE p = "monthly"
  <2> DEFINE y == getUTCFullYear(d)
             m == getUTCMonth(d)
             s == MonthBegins(y, m)
  <2>1. /\ y \in 1970 .. LastYear /\ YearBegins(y) <= d /\ d < YearBegins(y + 1)
        /\ m \in 0 .. 11 /\ s <= d /\ d < UTC(y, m + 1, 1)
    BY YearOf, MonthOf
  <2>2. getPeriodStart(d, p) = UTC(y, m, 1)
    BY <1>4 DEF getPeriodStart
  <2> HIDE DEF y, m
  <2>3. getPeriodStart(d, p) = s /\ s \in Int /\ UTC(y, m + 1, 1) \in Int
    BY <2>1, <2>2, MonthsInOrder
  <2>4. ASSUME NEW z \in 1970 .. LastYear, NEW n \in 0 .. 11
        PROVE  MonthBegins(z, n) <= s \/ d < MonthBegins(z, n)
    <3>1. /\ MonthBegins(z, n) \in Int /\ YearBegins(z) <= MonthBegins(z, n)
          /\ MonthBegins(z, n) < YearBegins(z + 1)
          /\ YearBegins(y) <= s /\ YearBegins(y + 1) \in Int /\ YearBegins(y) \in Int
          /\ YearBegins(z) \in Int /\ YearBegins(z + 1) \in Int
      BY <2>1, MonthsInOrder, YearLength
    <3>2. CASE z < y
      BY <1>1, <2>1, <2>3, <3>1, <3>2, YearsRise
    <3>3. CASE z > y
      BY <1>1, <2>1, <2>3, <3>1, <3>3, YearsRise
    <3>4. CASE z = y
      <4>1. CASE m < n
        <5>1. UTC(y, m + 1, 1) <= MonthBegins(y, n)
          BY <2>1, <4>1, MonthsInOrder
        <5> QED
          BY <1>1, <2>1, <2>3, <3>1, <3>4, <5>1
      <4>2. CASE n = m
        BY <2>3, <3>4, <4>2
      <4>3. CASE n < m
        <5>1. MonthBegins(y, n) < UTC(y, n + 1, 1) /\ UTC(y, n + 1, 1) <= s
              /\ UTC(y, n + 1, 1) \in Int
          BY <2>1, <4>3, MonthsInOrder
        <5> QED
          BY <2>3, <3>1, <3>4, <5>1
      <4> QED
        BY <2>1, <4>1, <4>2, <4>3
    <3> QED
      BY <2>1, <3>2, <3>3, <3>4
  <2>5. \A x : Boundary(x, p) <=> \E z \in 1970 .. LastYear, n \in 0 .. 11 : x = MonthBegins(z, n)
    BY <1>4 DEF Boundary
  <2>6. \A x \in s + 1 .. d : ~ Boundary(x, p)
    BY <1>1, <2>3, <2>4, <2>5
  <2> QED
    BY <2>1, <2>3, <2>5, <2>6
<1>5. CASE p = "yearly"
  <2> DEFINE y == getUTCFullYear(d)
             s == YearBegins(y)
  <2>1. y \in 1970 .. LastYear /\ s <= d /\ d < YearBegins(y + 1)
    BY YearOf
  <2>2. getPeriodStart(d, p) = UTC(y, 0, 1)
    BY <1>5 DEF getPeriodStart
  <2> HIDE DEF y
  <2>3. getPeriodStart(d, p) = s /\ s \in Int /\ YearBegins(y + 1) \in Int
    BY <2>1, <2>2, MonthsInOrder, YearLength
  <2>4. ASSUME NEW z \in 1970 .. LastYear
        PROVE  YearBegins(z) <= s \/ d < YearBegins(z)
    <3>1. YearBegins(z) \in Int /\ YearBegins(z) < YearBegins(z + 1)
      BY YearLength
    <3>2. CASE z < y
      BY <2>1, <2>3, <3>1, <3>2, YearsRise, YearLength
    <3>3. CASE z > y
      BY <1>1, <2>1, <2>3, <3>1, <3>3, YearsRise
    <3> QED
      BY <2>1, <2>3, <3>2, <3>3
  <2>5. \A x : Boundary(x, p) <=> \E z \in 1970 .. LastYear : x = YearBegins(z)
    BY <1>5 DEF Boundary
  <2>6. \A x \in s + 1 .. d : ~ Boundary(x, p)
    BY <1>1, <2>3, <2>4, <2>5, YearLength
  <2> QED
    BY <2>1, <2>3, <2>5, <2>6
<1> QED
  BY <1>2, <1>3, <1>4, <1>5 DEF Period

\* Two days start one period exactly when no boundary lies between them.
LEMMA SameStart ==
  ASSUME NEW a \in Date, NEW b \in Date, NEW p \in Period \ {"lifetime"}
  PROVE  getPeriodStart(a, p) = getPeriodStart(b, p)
           <=> \A day \in (a + 1 .. b) \cup (b + 1 .. a) : ~ Boundary(day, p)
<1>0. a \in Nat /\ b \in Nat
  BY DEF Date
<1>1. ASSUME NEW c \in Date, NEW d \in Date, c <= d
      PROVE  getPeriodStart(c, p) = getPeriodStart(d, p)
               <=> \A day \in c + 1 .. d : ~ Boundary(day, p)
  <2> DEFINE s == getPeriodStart(c, p)
             t == getPeriodStart(d, p)
  <2>1. /\ s \in Int /\ s <= c /\ Boundary(s, p) /\ \A x \in s + 1 .. c : ~ Boundary(x, p)
        /\ t \in Int /\ t <= d /\ Boundary(t, p) /\ \A x \in t + 1 .. d : ~ Boundary(x, p)
        /\ c \in Nat /\ d \in Nat
    BY PeriodStart DEF Date
  <2> HIDE DEF s, t
  <2>2. ASSUME s = t PROVE \A x \in c + 1 .. d : ~ Boundary(x, p)
    BY <2>1, <2>2
  <2>3. ASSUME \A x \in c + 1 .. d : ~ Boundary(x, p) PROVE s = t
    <3>1. t <= c
      BY <2>1, <2>3
    <3>2. t <= s
      BY <2>1, <3>1
    <3>3. s <= t
      BY <1>1, <2>1
    <3> QED
      BY <2>1, <3>2, <3>3
  <2> QED
    BY <2>2, <2>3 DEF s, t
<1>2. CASE a <= b
  <2>1. b + 1 .. a = {}
    BY <1>0, <1>2
  <2> QED
    BY <1>1, <1>2, <2>1
<1>3. CASE b <= a
  <2>1. a + 1 .. b = {}
    BY <1>0, <1>3
  <2> QED
    BY <1>1, <1>3, <2>1
<1> QED
  BY <1>0, <1>2, <1>3

\* The document that a reader and an event come to is the same exactly when
\* they are in one calendar period (getBucketForDate).
LEMMA SameBucket ==
  ASSUME NEW t \in Nat, NEW u \in Nat, NEW p \in Period,
         t \div TicksPerDay \in Date, u \div TicksPerDay \in Date
  PROVE  getBucketForDate(t, p) = getBucketForDate(u, p) <=> SamePeriod(t, u, p)
<1> DEFINE a == t \div TicksPerDay
           b == u \div TicksPerDay
<1>1. SamePeriod(t, u, p) <=> \A day \in (a + 1 .. b) \cup (b + 1 .. a) : ~ Boundary(day, p)
  BY DEF SamePeriod
<1>2. CASE p = "lifetime"
  BY <1>1, <1>2 DEF getBucketForDate, Boundary
<1>3. CASE p # "lifetime"
  <2> DEFINE s == getPeriodStart(a, p)
             r == getPeriodStart(b, p)
  <2>1. s \in Int /\ r \in Int
    BY <1>3, PeriodStart
  <2>2. /\ getBucketForDate(t, p) = [period |-> p, from |-> s * TicksPerDay,
                                     to |-> getPeriodEnd(s, p) * TicksPerDay - 1]
        /\ getBucketForDate(u, p) = [period |-> p, from |-> r * TicksPerDay,
                                     to |-> getPeriodEnd(r, p) * TicksPerDay - 1]
    BY <1>3 DEF getBucketForDate
  <2>3. s = r <=> SamePeriod(t, u, p)
    BY <1>1, <1>3, SameStart
  <2> HIDE DEF s, r
  <2>4. getBucketForDate(t, p) = getBucketForDate(u, p) => s * TicksPerDay = r * TicksPerDay
    BY <2>2
  <2>5. s * TicksPerDay = r * TicksPerDay => s = r
    BY <2>1, Cancel, CalendarAssumption
  <2> QED
    BY <2>2, <2>3, <2>4, <2>5
<1> QED
  BY <1>2, <1>3

-----------------------------------------------------------------------------
(* What a reader is shown.  Until something fails, a document counts each  *)
(* of the events that have come to it once.                                *)

\* What an event does to the counters that are not among the sums.
LEMMA CountsAfter ==
  ASSUME NEW m \in Metrics, NEW e \in Event, NEW owner
  PROVE  LET r == applyEventToMetrics(m, e, owner)
             type == data[e].type
         IN  /\ r.orderCounts = Counted(m, e).orderCounts
             /\ r.totalQuantityBought = m.totalQuantityBought
                  + IF type = "order.executed" THEN data[e].quantity ELSE 0
             /\ r.priceUpdateCount = m.priceUpdateCount
                  + IF type = "stock.price.updated" THEN 1 ELSE 0
             /\ r.priceDecreaseCount = m.priceDecreaseCount
                  + IF type = "stock.price.decreased" THEN 1 ELSE 0
<1> DEFINE c == Counted(m, e)
           r == applyEventToMetrics(m, e, owner)
           type == data[e].type
           Adds3(q, u, d) ==
             /\ r.orderCounts = c.orderCounts
             /\ r.totalQuantityBought = m.totalQuantityBought + q
             /\ r.priceUpdateCount = m.priceUpdateCount + u
             /\ r.priceDecreaseCount = m.priceDecreaseCount + d
<1>1. /\ c \in Metrics
      /\ c.totalQuantityBought = m.totalQuantityBought
      /\ c.priceUpdateCount = m.priceUpdateCount
      /\ c.priceDecreaseCount = m.priceDecreaseCount
  BY CountedType DEF Counted, Metrics
<1>2. /\ m.totalQuantityBought \in Nat /\ m.priceUpdateCount \in Nat
      /\ m.priceDecreaseCount \in Nat /\ data[e].quantity \in Nat
  BY DataAssumption DEF AnalyticsEvent, Metrics
<1>3. r = CASE type = "order.executed" ->
                 [c EXCEPT !.executedTradeCount = @ + 1,
                           !.totalQuantityBought = @ + data[e].quantity,
                           !.totalInvested = @ + data[e].amount]
            [] type = "wallet.deposited" -> [c EXCEPT !.walletDeposits = @ + data[e].amount]
            [] type = "wallet.debited"   -> [c EXCEPT !.walletSpend = @ + data[e].amount]
            [] type = "stock.price.updated" ->
                 applyStockPriceMetric([c EXCEPT !.priceUpdateCount = @ + 1], e)
            [] type = "stock.price.decreased" ->
                 applyStockPriceMetric([c EXCEPT !.priceDecreaseCount = @ + 1], e)
            [] type = "stock.subscription.changed" ->
                 [c EXCEPT !.subscribedStockIds = Subscribed(c, e, owner)]
            [] OTHER -> c
  BY DEF applyEventToMetrics
<1> HIDE DEF c, r, type
<1>4. CASE type = "order.executed"
  <2>1. Adds3(data[e].quantity, 0, 0)
    <3>1. r = [c EXCEPT !.executedTradeCount = @ + 1,
                        !.totalQuantityBought = @ + data[e].quantity,
                        !.totalInvested = @ + data[e].amount]
      BY <1>3, <1>4
    <3>2. /\ r.orderCounts = c.orderCounts
          /\ r.totalQuantityBought = c.totalQuantityBought + data[e].quantity
          /\ r.priceUpdateCount = c.priceUpdateCount
          /\ r.priceDecreaseCount = c.priceDecreaseCount
      BY <1>1, <3>1 DEF Metrics
    <3> QED
      BY <1>1, <1>2, <3>2
  <2> QED
    BY <1>1, <1>2, <1>4, <2>1 DEF c, r, type
<1>5. CASE type = "stock.price.updated"
  <2>1. r = applyStockPriceMetric([c EXCEPT !.priceUpdateCount = @ + 1], e)
    BY <1>3, <1>5
  <2>2. Adds3(0, 1, 0)
    BY <1>1, <1>2, <2>1 DEF Metrics, applyStockPriceMetric
  <2> QED
    BY <1>1, <1>2, <1>5, <2>2 DEF c, r, type
<1>6. CASE type = "stock.price.decreased"
  <2>1. r = applyStockPriceMetric([c EXCEPT !.priceDecreaseCount = @ + 1], e)
    BY <1>3, <1>6
  <2>2. Adds3(0, 0, 1)
    BY <1>1, <1>2, <2>1 DEF Metrics, applyStockPriceMetric
  <2> QED
    BY <1>1, <1>2, <1>6, <2>2 DEF c, r, type
<1>7. CASE type \notin {"order.executed", "stock.price.updated", "stock.price.decreased"}
  <2>1. Adds3(0, 0, 0)
    BY <1>1, <1>2, <1>3, <1>7 DEF Metrics
  <2> QED
    BY <1>1, <1>2, <1>7, <2>1 DEF c, r, type
<1> QED
  BY <1>4, <1>5, <1>6, <1>7

OrdersOf(E, s) == {x \in E : isOrderEvent(x) /\ data[x].status = s}

LEMMA OneMore ==
  ASSUME NEW E \in SUBSET Event, IsFiniteSet(E), NEW e \in Event, e \notin E
  PROVE  /\ \A type :
              /\ IsFiniteSet(Of(E, type)) /\ Cardinality(Of(E, type)) \in Nat
              /\ Cardinality(Of(E \cup {e}, type)) = Cardinality(Of(E, type))
                   + IF data[e].type = type THEN 1 ELSE 0
         /\ \A s :
              /\ Cardinality(OrdersOf(E, s)) \in Nat
              /\ Cardinality(OrdersOf(E \cup {e}, s)) = Cardinality(OrdersOf(E, s))
                   + IF isOrderEvent(e) /\ data[e].status = s THEN 1 ELSE 0
<1>1. \A T \in SUBSET E : /\ IsFiniteSet(T) /\ Cardinality(T) \in Nat
                          /\ Cardinality(T \cup {e}) = Cardinality(T) + 1
  <2> SUFFICES ASSUME NEW T \in SUBSET E
               PROVE  /\ IsFiniteSet(T) /\ Cardinality(T) \in Nat
                      /\ Cardinality(T \cup {e}) = Cardinality(T) + 1
    OBVIOUS
  <2>1. IsFiniteSet(T) /\ Cardinality(T) \in Nat /\ e \notin T
    BY SubsetsFinite
  <2> QED
    BY <2>1, FS_AddElement
<1>2. ASSUME NEW type
      PROVE  /\ Of(E, type) \in SUBSET E
             /\ Of(E \cup {e}, type) = IF data[e].type = type THEN Of(E, type) \cup {e}
                                       ELSE Of(E, type)
  BY DEF Of
<1>3. ASSUME NEW s
      PROVE  /\ OrdersOf(E, s) \in SUBSET E
             /\ OrdersOf(E \cup {e}, s) =
                  IF isOrderEvent(e) /\ data[e].status = s THEN OrdersOf(E, s) \cup {e}
                  ELSE OrdersOf(E, s)
  BY DEF OrdersOf
<1>4. ASSUME NEW type
      PROVE  /\ IsFiniteSet(Of(E, type)) /\ Cardinality(Of(E, type)) \in Nat
             /\ Cardinality(Of(E \cup {e}, type)) = Cardinality(Of(E, type))
                  + IF data[e].type = type THEN 1 ELSE 0
  <2>1. CASE data[e].type = type
    <3>1. Of(E \cup {e}, type) = Of(E, type) \cup {e}
      BY <1>2, <2>1
    <3>2. /\ IsFiniteSet(Of(E, type)) /\ Cardinality(Of(E, type)) \in Nat
          /\ Cardinality(Of(E, type) \cup {e}) = Cardinality(Of(E, type)) + 1
      BY <1>1, <1>2
    <3> QED
      BY <2>1, <3>1, <3>2
  <2>2. CASE data[e].type # type
    <3>1. Of(E \cup {e}, type) = Of(E, type)
      BY <1>2, <2>2
    <3>2. IsFiniteSet(Of(E, type)) /\ Cardinality(Of(E, type)) \in Nat
      BY <1>1, <1>2
    <3> QED
      BY <2>2, <3>1, <3>2
  <2> QED
    BY <2>1, <2>2
<1>5. ASSUME NEW s
      PROVE  /\ Cardinality(OrdersOf(E, s)) \in Nat
             /\ Cardinality(OrdersOf(E \cup {e}, s)) = Cardinality(OrdersOf(E, s))
                  + IF isOrderEvent(e) /\ data[e].status = s THEN 1 ELSE 0
  <2>1. CASE isOrderEvent(e) /\ data[e].status = s
    <3>1. OrdersOf(E \cup {e}, s) = OrdersOf(E, s) \cup {e}
      BY <1>3, <2>1
    <3>2. /\ Cardinality(OrdersOf(E, s)) \in Nat
          /\ Cardinality(OrdersOf(E, s) \cup {e}) = Cardinality(OrdersOf(E, s)) + 1
      BY <1>1, <1>3
    <3> QED
      BY <2>1, <3>1, <3>2
  <2>2. CASE ~ (isOrderEvent(e) /\ data[e].status = s)
    <3>1. OrdersOf(E \cup {e}, s) = OrdersOf(E, s)
      BY <1>3, <2>2
    <3>2. Cardinality(OrdersOf(E, s)) \in Nat
      BY <1>1, <1>3
    <3> QED
      BY <2>2, <3>1, <3>2
  <2> QED
    BY <2>1, <2>2
<1> QED
  BY <1>4, <1>5

LEMMA TotalOneMore ==
  ASSUME NEW E \in SUBSET Event, IsFiniteSet(E), NEW e \in Event, e \notin E,
         NEW type, NEW field \in {"quantity", "amount"}
  PROVE  /\ Total(E, type, field) \in Nat
         /\ Total(E \cup {e}, type, field) = Total(E, type, field)
              + IF data[e].type = type THEN data[e][field] ELSE 0
<1> DEFINE f == [x \in Event |-> data[x][field]]
           S == Of(E, type)
<1>1. (\A x \in Event : f[x] \in Nat) /\ f[e] = data[e][field]
  BY DataAssumption DEF AnalyticsEvent
<1>2. IsFiniteSet(S)
  BY OneMore
<1>3. /\ S \in SUBSET E
      /\ Of(E \cup {e}, type) = IF data[e].type = type THEN S \cup {e} ELSE S
  BY DEF Of
<1>4. /\ Total(E, type, field) = SumFunctionOnSet(f, S)
      /\ Total(E \cup {e}, type, field) = SumFunctionOnSet(f, Of(E \cup {e}, type))
  BY DEF Total
<1> HIDE DEF f, S
<1>5. SumFunctionOnSet(f, S) \in Nat
  BY <1>1, <1>2, <1>3, SumType
<1>6. SumFunctionOnSet(f, S \cup {e}) = SumFunctionOnSet(f, S) + f[e]
  <2>1. e \notin S /\ \A x \in S \cup {e} : f[x] \in Nat
    BY <1>1, <1>3
  <2> QED
    BY <1>2, <2>1, SumAdd
<1>7. CASE data[e].type = type
  BY <1>1, <1>3, <1>4, <1>5, <1>6, <1>7
<1>8. CASE data[e].type # type
  BY <1>3, <1>4, <1>5, <1>8
<1> QED
  BY <1>7, <1>8

\* Applying an event that is not counted yet counts it.
LEMMA ReportsOneMore ==
  ASSUME NEW m \in Metrics, NEW E \in SUBSET Event, IsFiniteSet(E), NEW e \in Event, e \notin E,
         NEW owner, Reports(m, E)
  PROVE  Reports(applyEventToMetrics(m, e, owner), E \cup {e})
<1> DEFINE r == applyEventToMetrics(m, e, owner)
           F == E \cup {e}
           type == data[e].type
<1>1. /\ r.orderCounts = Counted(m, e).orderCounts
      /\ r.totalQuantityBought = m.totalQuantityBought
           + IF type = "order.executed" THEN data[e].quantity ELSE 0
      /\ r.priceUpdateCount = m.priceUpdateCount + IF type = "stock.price.updated" THEN 1 ELSE 0
      /\ r.priceDecreaseCount = m.priceDecreaseCount
           + IF type = "stock.price.decreased" THEN 1 ELSE 0
  BY CountsAfter
<1>2. /\ r.executedTradeCount = m.executedTradeCount + IF type = "order.executed" THEN 1 ELSE 0
      /\ r.totalInvested = m.totalInvested + IF type = "order.executed" THEN data[e].amount ELSE 0
      /\ r.walletDeposits = m.walletDeposits
           + IF type = "wallet.deposited" THEN data[e].amount ELSE 0
      /\ r.walletSpend = m.walletSpend + IF type = "wallet.debited" THEN data[e].amount ELSE 0
  <2>1. \A f \in SumField : r[f] = m[f] + Gain(e, f)
    BY GainAfter
  <2> HIDE DEF r, type
  <2>2. /\ r.executedTradeCount = m.executedTradeCount + Gain(e, "executedTradeCount")
        /\ r.totalInvested = m.totalInvested + Gain(e, "totalInvested")
        /\ r.walletDeposits = m.walletDeposits + Gain(e, "walletDeposits")
        /\ r.walletSpend = m.walletSpend + Gain(e, "walletSpend")
    BY <2>1 DEF SumField
  <2> QED
    BY <2>2 DEF Gain, type
<1> HIDE DEF r
<1>3. ASSUME NEW s \in OrderStatus
      PROVE  r.orderCounts[s] = Cardinality(OrdersOf(F, s))
  <2>1. m.orderCounts \in [OrderStatus -> Nat]
    BY DEF Metrics
  <2>2. r.orderCounts[s] = m.orderCounts[s]
          + IF isOrderEvent(e) /\ data[e].status = s THEN 1 ELSE 0
    <3>1. CASE isOrderEvent(e)
      <4>1. r.orderCounts = [m.orderCounts EXCEPT ![data[e].status] = @ + 1]
        BY <1>1, <3>1 DEF Counted, Metrics
      <4> QED
        BY <2>1, <3>1, <4>1
    <3>2. CASE ~ isOrderEvent(e)
      BY <1>1, <2>1, <3>2 DEF Counted
    <3> QED
      BY <3>1, <3>2
  <2>3. m.orderCounts[s] = Cardinality(OrdersOf(E, s))
    BY DEF Reports, OrdersOf
  <2>4. Cardinality(OrdersOf(F, s)) = Cardinality(OrdersOf(E, s))
          + IF isOrderEvent(e) /\ data[e].status = s THEN 1 ELSE 0
    BY OneMore
  <2> QED
    BY <2>2, <2>3, <2>4
<1>4. /\ r.executedTradeCount = Cardinality(Of(F, "order.executed"))
      /\ r.priceUpdateCount = Cardinality(Of(F, "stock.price.updated"))
      /\ r.priceDecreaseCount = Cardinality(Of(F, "stock.price.decreased"))
  <2>1. \A t : Cardinality(Of(F, t)) = Cardinality(Of(E, t)) + IF type = t THEN 1 ELSE 0
    BY OneMore
  <2>2. /\ m.executedTradeCount = Cardinality(Of(E, "order.executed"))
        /\ m.priceUpdateCount = Cardinality(Of(E, "stock.price.updated"))
        /\ m.priceDecreaseCount = Cardinality(Of(E, "stock.price.decreased"))
    BY DEF Reports
  <2> HIDE DEF F, type
  <2> QED
    BY <1>1, <1>2, <2>1, <2>2
<1>5. /\ r.totalQuantityBought = Total(F, "order.executed", "quantity")
      /\ r.totalInvested = Total(F, "order.executed", "amount")
      /\ r.walletDeposits = Total(F, "wallet.deposited", "amount")
      /\ r.walletSpend = Total(F, "wallet.debited", "amount")
  <2>1. \A t : \A f \in {"quantity", "amount"} :
          Total(F, t, f) = Total(E, t, f) + IF type = t THEN data[e][f] ELSE 0
    BY TotalOneMore
  <2>2. /\ m.totalQuantityBought = Total(E, "order.executed", "quantity")
        /\ m.totalInvested = Total(E, "order.executed", "amount")
        /\ m.walletDeposits = Total(E, "wallet.deposited", "amount")
        /\ m.walletSpend = Total(E, "wallet.debited", "amount")
    BY DEF Reports
  <2> HIDE DEF F, type
  <2>3. \A t : /\ Total(F, t, "quantity") = Total(E, t, "quantity")
                    + IF type = t THEN data[e].quantity ELSE 0
               /\ Total(F, t, "amount") = Total(E, t, "amount")
                    + IF type = t THEN data[e].amount ELSE 0
    BY <2>1
  <2> QED
    BY <1>1, <1>2, <2>2, <2>3
<1> QED
  BY <1>3, <1>4, <1>5 DEF Reports, OrdersOf, r

LEMMA NothingToReport == Reports(createDefaultAnalyticsMetrics, {})
<1> DEFINE m == createDefaultAnalyticsMetrics
<1>1. /\ \A s \in OrderStatus : m.orderCounts[s] = 0
      /\ m.executedTradeCount = 0 /\ m.totalQuantityBought = 0 /\ m.totalInvested = 0
      /\ m.walletDeposits = 0 /\ m.walletSpend = 0
      /\ m.priceUpdateCount = 0 /\ m.priceDecreaseCount = 0
  BY DEF createDefaultAnalyticsMetrics
<1>2. \A type, field : Of({}, type) = {} /\ Total({}, type, field) = 0
  BY SumEmpty DEF Of, Total
<1>3. Cardinality({}) = 0
  BY FS_EmptySet
<1> HIDE DEF m
<1>4. \A s \in OrderStatus : {e \in {} : isOrderEvent(e) /\ data[e].status = s} = {}
  OBVIOUS
<1>5. Reports(m, {})
  BY <1>1, <1>2, <1>3, <1>4 DEF Reports
<1> QED
  BY <1>5 DEF m

\* An event comes to each of its documents once.
LEMMA DocsDiffer ==
  ASSUME NEW e \in Event, NEW i \in 1 .. Len(docsOf[e]), NEW j \in 1 .. Len(docsOf[e]),
         docsOf[e][i] = docsOf[e][j]
  PROVE  i = j
<1>1. CASE data[e].user = NoUser
  <2>1. /\ i \in 1 .. 5 /\ j \in 1 .. 5
        /\ Key(Everybody, BucketOf(e, i)) = Key(Everybody, BucketOf(e, j))
    BY <1>1, DocsInOrder
  <2> QED
    BY <2>1, OneKey, BucketsDiffer
<1>2. CASE data[e].user # NoUser
  <2>1. /\ Len(docsOf[e]) = 10 /\ data[e].user # Everybody
        /\ \A k \in 1 .. 5 : /\ docsOf[e][k] = Key(data[e].user, BucketOf(e, k))
                             /\ docsOf[e][k + 5] = Key(Everybody, BucketOf(e, k))
    BY <1>2, DocsInOrder, DataAssumption DEF AnalyticsEvent
  <2>2. \A n \in 1 .. 10 : \E k \in 1 .. 5 : n = k \/ n = k + 5
    <3> SUFFICES ASSUME NEW n \in 1 .. 10 PROVE \E k \in 1 .. 5 : n = k \/ n = k + 5
      OBVIOUS
    <3>1. CASE n \in 1 .. 5
      BY <3>1
    <3>2. CASE n \notin 1 .. 5
      <4>1. n - 5 \in 1 .. 5 /\ n = (n - 5) + 5
        BY <3>2
      <4> QED
        BY <4>1
    <3> QED
      BY <3>1, <3>2
  <2>3. PICK k \in 1 .. 5 : i = k \/ i = k + 5
    BY <2>1, <2>2
  <2>4. PICK n \in 1 .. 5 : j = n \/ j = n + 5
    BY <2>1, <2>2
  <2>5. (i = k <=> j = n) /\ BucketOf(e, k) = BucketOf(e, n)
    <3>1. CASE i = k /\ j = n
      BY <2>1, <3>1, OneKey
    <3>2. CASE i = k + 5 /\ j = n + 5
      BY <2>1, <3>2, OneKey
    <3>3. CASE i = k /\ j = n + 5
      BY <2>1, <3>3, OneKey
    <3>4. CASE i = k + 5 /\ j = n
      BY <2>1, <3>4, OneKey
    <3> QED
      BY <2>3, <2>4, <3>1, <3>2, <3>3, <3>4
  <2>6. k = n
    BY <2>5, BucketsDiffer
  <2> QED
    BY <2>3, <2>4, <2>5, <2>6
<1> QED
  BY <1>1, <1>2

Whole(e) == \A x \in Range(docsOf[e]) : <<e, x>> \in reached
Visited(x) == \E j \in 1 .. at - 1 : docsOf[inHand][j] = x

\* Until something fails: a document counts what has come to it; an event has
\* come to all of its documents when it is recorded, and before that, if it is
\* in hand, to those before the next; and of one id one event has come anywhere.
ExactInv ==
  /\ \A x : Reports(StoredMetrics(x), ReachedBy(x))
  /\ \A i \in processed : \E e \in Event : idOf[e] = i /\ Whole(e)
  /\ \A e \in Event : \A x : <<e, x>> \in reached =>
       /\ x \in Range(docsOf[e])
       /\ idOf[e] \in processed \/ (e = inHand /\ Visited(x))
  /\ \A e, f \in Event : \A x, y :
       <<e, x>> \in reached /\ <<f, y>> \in reached /\ idOf[e] = idOf[f] => e = f
  /\ inHand # NoEvent => \A j \in 1 .. at - 1 : <<inHand, docsOf[inHand][j]>> \in reached

CountInv ==
  /\ \A x : IsFiniteSet(ReachedBy(x))
  /\ inHand # NoEvent => idOf[inHand] \notin processed
  /\ faults = 0 => ExactInv


LEMMA HandInv ==
  ASSUME TypeOK, inHand # NoEvent
  PROVE  inHand \in Event /\ at \in 1 .. Len(docsOf[inHand]) + 1 /\ Len(docsOf[inHand]) \in Nat
  BY DocsAreSequence DEF TypeOK

LEMMA RangeOfDocs ==
  ASSUME NEW e \in Event, NEW n, n = Len(docsOf[e])
  PROVE  \A x : x \in Range(docsOf[e]) <=> \E i \in 1 .. n : docsOf[e][i] = x
<1>1. DOMAIN docsOf[e] = 1 .. n
  BY DocsAreSequence
<1> QED
  BY <1>1 DEF Range

LEMMA UpdateCounts ==
  ASSUME TypeOK, CountInv, UpdateSnapshot
  PROVE  CountInv'
<1> DEFINE d == docsOf[inHand][at]
<1>1. /\ inHand \in Event /\ inHand' = inHand /\ processed' = processed /\ faults' = faults
      /\ at \in 1 .. Len(docsOf[inHand]) /\ at' = at + 1 /\ Len(docsOf[inHand]) \in Nat
      /\ reached' = reached \cup {<<inHand, d>>}
      /\ idOf[inHand] \notin processed
  BY HandInv DEF UpdateSnapshot, CountInv
<1>2. metrics' = [x \in DOMAIN metrics \cup {d} |->
                    IF x = d THEN applyEventToMetrics(StoredMetrics(d), inHand, d.owner)
                    ELSE metrics[x]]
  BY DEF UpdateSnapshot
<1> HIDE DEF d
<1>3. \A x : ReachedBy(x)' = IF x = d THEN ReachedBy(x) \cup {inHand} ELSE ReachedBy(x)
  BY <1>1 DEF ReachedBy
<1>4. \A x : IsFiniteSet(ReachedBy(x)')
  <2> SUFFICES ASSUME NEW x PROVE IsFiniteSet(ReachedBy(x)')
    OBVIOUS
  <2>1. IsFiniteSet(ReachedBy(x))
    BY DEF CountInv
  <2>2. IsFiniteSet(ReachedBy(x) \cup {inHand})
    BY <2>1, FS_AddElement
  <2> QED
    BY <1>3, <2>1, <2>2
<1>5. ASSUME faults = 0 PROVE ExactInv'
  <2>1. ExactInv
    BY <1>5 DEF CountInv
  <2>2. d \in Range(docsOf[inHand])
    BY <1>1, RangeOfDocs DEF d
  <2>3. <<inHand, d>> \notin reached
    <3> SUFFICES ASSUME <<inHand, d>> \in reached PROVE FALSE
      OBVIOUS
    <3>1. Visited(d)
      BY <1>1, <2>1 DEF ExactInv
    <3>2. PICK j \in 1 .. at - 1 : docsOf[inHand][j] = d
      BY <3>1 DEF Visited
    <3>3. j \in 1 .. Len(docsOf[inHand]) /\ j # at
      BY <1>1
    <3> QED
      BY <1>1, <3>2, <3>3, DocsDiffer DEF d
  <2>4. ASSUME NEW x PROVE Reports(StoredMetrics(x)', ReachedBy(x)')
    <3>1. Reports(StoredMetrics(x), ReachedBy(x))
      BY <2>1 DEF ExactInv
    <3>2. CASE x = d
      <4>1. StoredMetrics(x)' = applyEventToMetrics(StoredMetrics(x), inHand, d.owner)
        BY <1>2, <3>2 DEF StoredMetrics
      <4>2. /\ StoredMetrics(x) \in Metrics /\ IsFiniteSet(ReachedBy(x))
            /\ ReachedBy(x) \in SUBSET Event /\ inHand \notin ReachedBy(x)
        BY <2>3, <3>2, StoredType DEF CountInv, ReachedBy
      <4>3. ReachedBy(x)' = ReachedBy(x) \cup {inHand}
        BY <1>3, <3>2
      <4> QED
        BY <1>1, <3>1, <4>1, <4>2, <4>3, ReportsOneMore
    <3>3. CASE x # d
      <4>1. StoredMetrics(x)' = StoredMetrics(x) /\ ReachedBy(x)' = ReachedBy(x)
        BY <1>2, <1>3, <3>3 DEF StoredMetrics
      <4> QED
        BY <3>1, <4>1
    <3> QED
      BY <3>2, <3>3
  <2>5. \A i \in processed' : \E e \in Event : idOf[e] = i /\ Whole(e)'
    BY <1>1, <2>1 DEF ExactInv, Whole
  <2>6. ASSUME NEW e \in Event, NEW x, <<e, x>> \in reached'
        PROVE  /\ x \in Range(docsOf[e])
               /\ idOf[e] \in processed' \/ (e = inHand' /\ Visited(x)')
    <3>1. CASE <<e, x>> \in reached
      <4>1. /\ x \in Range(docsOf[e])
            /\ idOf[e] \in processed \/ (e = inHand /\ Visited(x))
        BY <2>1, <3>1 DEF ExactInv
      <4>2. \A j \in 1 .. at - 1 : j \in 1 .. at' - 1
        BY <1>1
      <4>3. Visited(x) => Visited(x)'
        BY <1>1, <4>2 DEF Visited
      <4> QED
        BY <1>1, <4>1, <4>3
    <3>2. CASE e = inHand /\ x = d
      <4>1. at \in 1 .. at' - 1
        BY <1>1
      <4>2. Visited(x)'
        BY <1>1, <3>2, <4>1 DEF Visited, d
      <4> QED
        BY <1>1, <2>2, <3>2, <4>2
    <3> QED
      BY <1>1, <2>6, <3>1, <3>2
  <2>7. ASSUME NEW e \in Event, NEW f \in Event, NEW x, NEW y,
               <<e, x>> \in reached', <<f, y>> \in reached', idOf[e] = idOf[f]
        PROVE  e = f
    <3>1. CASE e = inHand \/ f = inHand
      <4>1. \A g \in Event : \A z : <<g, z>> \in reached /\ idOf[g] = idOf[inHand] => g = inHand
        BY <1>1, <2>1 DEF ExactInv
      <4> QED
        BY <1>1, <2>7, <3>1, <4>1
    <3>2. CASE e # inHand /\ f # inHand
      <4>1. <<e, x>> \in reached /\ <<f, y>> \in reached
        BY <1>1, <2>7, <3>2
      <4> QED
        BY <2>1, <2>7, <4>1 DEF ExactInv
    <3> QED
      BY <3>1, <3>2
  <2>8. \A j \in 1 .. at' - 1 : <<inHand', docsOf[inHand'][j]>> \in reached'
    <3> SUFFICES ASSUME NEW j \in 1 .. at' - 1
                 PROVE  <<inHand, docsOf[inHand][j]>> \in reached'
      BY <1>1
    <3>1. j = at \/ j \in 1 .. at - 1
      BY <1>1
    <3>2. inHand # NoEvent
      BY DEF UpdateSnapshot
    <3>3. j \in 1 .. at - 1 => <<inHand, docsOf[inHand][j]>> \in reached
      BY <2>1, <3>2 DEF ExactInv
    <3> QED
      BY <1>1, <3>1, <3>3 DEF d
  <2> QED
    BY <2>4, <2>5, <2>6, <2>7, <2>8 DEF ExactInv
<1> QED
  BY <1>1, <1>4, <1>5 DEF CountInv

\* A step that takes an event, records it or gives it up.
LEMMA OtherStepsCount ==
  ASSUME TypeOK, CountInv, (\E e \in Event : Receive(e)) \/ Record \/ Abandon
  PROVE  CountInv'
<1>1. /\ metrics' = metrics /\ reached' = reached
      /\ \A x : StoredMetrics(x)' = StoredMetrics(x) /\ ReachedBy(x)' = ReachedBy(x)
      /\ \A e : Whole(e)' <=> Whole(e)
  BY DEF Receive, Record, Abandon, StoredMetrics, ReachedBy, Whole
<1>2. \A x : IsFiniteSet(ReachedBy(x)')
  BY <1>1 DEF CountInv
<1>3. ASSUME NEW e \in Event, Receive(e) PROVE CountInv'
  <2>1. /\ inHand = NoEvent /\ inHand' = e /\ at' = 1 /\ processed' = processed
        /\ faults' = faults /\ idOf[e] \notin processed
    BY <1>3 DEF Receive
  <2>2. ASSUME ExactInv PROVE ExactInv'
    <3>1. 1 .. at' - 1 = {}
      BY <2>1
    <3>2. \A g \in Event : \A x : <<g, x>> \in reached => x \in Range(docsOf[g]) /\ idOf[g] \in processed
      BY <2>1, <2>2, DataAssumption DEF ExactInv
    <3> QED
      BY <1>1, <2>1, <2>2, <3>1, <3>2 DEF ExactInv
  <2> QED
    BY <1>2, <2>1, <2>2 DEF CountInv
<1>4. CASE Record
  <2>1. /\ inHand \in Event /\ at > Len(docsOf[inHand]) /\ inHand' = NoEvent
        /\ processed' = processed \cup {idOf[inHand]} /\ faults' = faults
        /\ at \in 1 .. Len(docsOf[inHand]) + 1 /\ Len(docsOf[inHand]) \in Nat
        /\ inHand # NoEvent
    BY <1>4, HandInv DEF Record
  <2>2. ASSUME ExactInv PROVE ExactInv'
    <3>1. \A j \in 1 .. Len(docsOf[inHand]) : j \in 1 .. at - 1
      BY <2>1
    <3>2. Whole(inHand)
      <4> SUFFICES ASSUME NEW x \in Range(docsOf[inHand]) PROVE <<inHand, x>> \in reached
        BY DEF Whole
      <4>1. PICK j \in 1 .. Len(docsOf[inHand]) : docsOf[inHand][j] = x
        BY <2>1, RangeOfDocs
      <4> QED
        BY <2>1, <2>2, <3>1, <4>1 DEF ExactInv
    <3>3. \A i \in processed' : \E e \in Event : idOf[e] = i /\ Whole(e)'
      BY <1>1, <2>1, <2>2, <3>2 DEF ExactInv
    <3>4. \A e \in Event : \A x : <<e, x>> \in reached' =>
            x \in Range(docsOf[e]) /\ idOf[e] \in processed'
      BY <1>1, <2>1, <2>2 DEF ExactInv
    <3> QED
      BY <1>1, <2>1, <2>2, <3>3, <3>4 DEF ExactInv
  <2> QED
    BY <1>2, <2>1, <2>2 DEF CountInv
<1>5. CASE Abandon
  <2>1. inHand' = NoEvent /\ faults' # 0
    BY <1>5 DEF Abandon, TypeOK
  <2> QED
    BY <1>2, <2>1 DEF CountInv
<1> QED
  BY <1>3, <1>4, <1>5

LEMMA CountInit == Init => CountInv
<1> SUFFICES ASSUME Init PROVE CountInv
  OBVIOUS
<1>1. \A x : StoredMetrics(x) = createDefaultAnalyticsMetrics /\ ReachedBy(x) = {}
  BY DEF Init, StoredMetrics, ReachedBy
<1>2. \A x : IsFiniteSet(ReachedBy(x)) /\ Reports(StoredMetrics(x), ReachedBy(x))
  BY <1>1, NothingToReport, FS_EmptySet
<1> QED
  BY <1>2 DEF Init, CountInv, ExactInv

\* The documents that a reader asks for at instant t are those of the events of
\* the same calendar period that concern the owner.
LEMMA DocOfEvent ==
  ASSUME NEW e \in Event, NEW owner \in User \cup {Everybody}, NEW p \in Period, NEW t \in Reading
  PROVE  Document(owner, t, p) \in Range(docsOf[e])
           <=> p \in together[t][e] /\ owner \in {data[e].user, Everybody}
<1> DEFINE u == data[e].occurredAt
           b == getBucketForDate(t, p)
<1>1. /\ t \in Nat /\ u \in Nat /\ Everybody \notin User /\ NoUser \notin User \cup {Everybody}
      /\ t \div TicksPerDay \in Date /\ u \div TicksPerDay \in Date
  <2>1. t \in Nat /\ u \in Nat /\ Everybody \notin User /\ NoUser \notin User \cup {Everybody}
    BY DataAssumption DEF AnalyticsEvent
  <2> HIDE DEF u
  <2>2. t \div TicksPerDay \in Nat /\ u \div TicksPerDay \in Nat
    BY <2>1, DayIsNat, CalendarAssumption
  <2>3. t \div TicksPerDay < UTC(LastYear + 1, 0, 1) /\ u \div TicksPerDay < UTC(LastYear + 1, 0, 1)
    BY InstantAssumption DEF u
  <2> QED
    BY <2>1, <2>2, <2>3 DEF Date
<1>2. p \in together[t][e] <=> b = getBucketForDate(u, p)
  <2>1. p \in together[t][e] <=> SamePeriod(t, u, p)
    BY DEF together
  <2> QED
    BY <1>1, <2>1, SameBucket
<1>3. Document(owner, t, p) = Key(owner, b)
  BY DEF Document, Key
<1>4. \A s, q : getBucketForDate(s, q).period = q
  BY DEF getBucketForDate
<1> HIDE DEF u, b
<1>5. \A i \in 1 .. 5 : b = BucketOf(e, i) <=> p \in together[t][e] /\ p = ANALYTICS_PERIODS[i]
  BY <1>2, <1>4 DEF BucketOf, u, b
<1>6. \E i \in 1 .. 5 : p = ANALYTICS_PERIODS[i]
  BY DEF Period, ANALYTICS_PERIODS
<1>7. (\E i \in 1 .. 5 : b = BucketOf(e, i)) <=> p \in together[t][e]
  BY <1>5, <1>6
<1>8. CASE data[e].user = NoUser
  <2>1. Len(docsOf[e]) = 5 /\ \A i \in 1 .. 5 : docsOf[e][i] = Key(Everybody, BucketOf(e, i))
    BY <1>8, DocsInOrder
  <2>2. Key(owner, b) \in Range(docsOf[e])
          <=> \E i \in 1 .. 5 : Key(Everybody, BucketOf(e, i)) = Key(owner, b)
    <3>1. 5 = Len(docsOf[e])
      BY <2>1
    <3>2. \A x : x \in Range(docsOf[e]) <=> \E i \in 1 .. 5 : docsOf[e][i] = x
      BY ONLY <3>1, RangeOfDocs, e \in Event
    <3> QED
      BY <2>1, <3>2
  <2>3. (\E i \in 1 .. 5 : Key(Everybody, BucketOf(e, i)) = Key(owner, b))
          <=> owner = Everybody /\ \E i \in 1 .. 5 : b = BucketOf(e, i)
    BY OneKey
  <2> QED
    BY <1>1, <1>3, <1>7, <1>8, <2>2, <2>3
<1>9. CASE data[e].user # NoUser
  <2>1. /\ Len(docsOf[e]) = 10
        /\ \A i \in 1 .. 5 : /\ docsOf[e][i] = Key(data[e].user, BucketOf(e, i))
                             /\ docsOf[e][i + 5] = Key(Everybody, BucketOf(e, i))
    BY <1>9, DocsInOrder
  <2>2. ASSUME NEW x PROVE x \in Range(docsOf[e]) <=>
          \E i \in 1 .. 5 : x = Key(data[e].user, BucketOf(e, i)) \/ x = Key(Everybody, BucketOf(e, i))
    <3>1. x \in Range(docsOf[e]) <=> \E n \in 1 .. 10 : docsOf[e][n] = x
      <4>1. 10 = Len(docsOf[e])
        BY <2>1
      <4>2. \A z : z \in Range(docsOf[e]) <=> \E n \in 1 .. 10 : docsOf[e][n] = z
        BY ONLY <4>1, RangeOfDocs, e \in Event
      <4> QED
        BY ONLY <4>2
    <3>2. ASSUME NEW n \in 1 .. 10, docsOf[e][n] = x
          PROVE  \E i \in 1 .. 5 : x = Key(data[e].user, BucketOf(e, i)) \/ x = Key(Everybody, BucketOf(e, i))
      <4>1. CASE n \in 1 .. 5
        BY <2>1, <3>2, <4>1
      <4>2. CASE n \notin 1 .. 5
        <5>1. PICK i \in 1 .. 5 : n = i + 5
          <6>1. n - 5 \in 1 .. 5 /\ n = (n - 5) + 5
            BY <4>2
          <6> QED
            BY <6>1
        <5> QED
          BY <2>1, <3>2, <5>1
      <4> QED
        BY <4>1, <4>2
    <3>3. ASSUME NEW i \in 1 .. 5,
                 x = Key(data[e].user, BucketOf(e, i)) \/ x = Key(Everybody, BucketOf(e, i))
          PROVE  \E n \in 1 .. 10 : docsOf[e][n] = x
      <4>1. i \in 1 .. 10 /\ i + 5 \in 1 .. 10
        OBVIOUS
      <4> QED
        BY <2>1, <3>3, <4>1
    <3> QED
      BY <3>1, <3>2, <3>3
  <2>3. Key(owner, b) \in Range(docsOf[e])
          <=> owner \in {data[e].user, Everybody} /\ \E i \in 1 .. 5 : b = BucketOf(e, i)
    BY <2>2, OneKey
  <2> QED
    BY <1>3, <1>7, <2>3
<1> QED
  BY <1>8, <1>9

\* Whoever reads a period sees each processed event of exactly that calendar
\* period once, until something fails (applyEvent, getBucketForDate,
\* getUserAnalytics and getAdminAnalytics).
THEOREM ReadIsExactHolds == Spec => []ReadIsExact
<1>1. TypeOK /\ CountInv /\ [Next]_vars => CountInv'
  <2> SUFFICES ASSUME TypeOK, CountInv, [Next]_vars PROVE CountInv'
    OBVIOUS
  <2>1. CASE UpdateSnapshot
    BY <2>1, UpdateCounts
  <2>2. CASE (\E e \in Event : Receive(e)) \/ Record \/ Abandon
    BY <2>2, OtherStepsCount
  <2>3. CASE UNCHANGED vars \/ Rest
    <3>1. UNCHANGED <<metrics, inHand, at, processed, faults, reached>>
      BY <2>3 DEF vars, Rest
    <3>2. /\ \A x : StoredMetrics(x)' = StoredMetrics(x) /\ ReachedBy(x)' = ReachedBy(x)
          /\ \A e : Whole(e)' <=> Whole(e)
          /\ \A x : Visited(x)' <=> Visited(x)
      BY <3>1 DEF StoredMetrics, ReachedBy, Whole, Visited
    <3>3. ExactInv => ExactInv'
      BY <3>1, <3>2 DEF ExactInv
    <3> QED
      BY <3>1, <3>2, <3>3 DEF CountInv
  <2> QED
    BY <2>1, <2>2, <2>3 DEF Next
<1>2. TypeOK /\ CountInv => ReadIsExact
  <2> SUFFICES ASSUME TypeOK, CountInv, inHand = NoEvent, faults = 0
               PROVE  \E chosen \in [processed -> Event] :
                        /\ \A i \in processed : idOf[chosen[i]] = i
                        /\ \A owner \in User \cup {Everybody}, p \in Period, t \in Reading :
                             Reports(Shown(owner, p, t),
                               {e \in Range(chosen) :
                                  p \in together[t][e] /\ owner \in {data[e].user, Everybody}})
    BY DEF ReadIsExact
  <2> DEFINE chosen == [i \in processed |-> CHOOSE e \in Event : idOf[e] = i /\ Whole(e)]
  <2>1. ExactInv
    BY DEF CountInv
  <2>2. \A i \in processed : chosen[i] \in Event /\ idOf[chosen[i]] = i /\ Whole(chosen[i])
    BY <2>1 DEF ExactInv
  <2>3. chosen \in [processed -> Event]
    BY <2>2
  <2>4. Range(chosen) = {chosen[i] : i \in processed}
    BY DEF Range
  <2> HIDE DEF chosen
  <2>5. ASSUME NEW owner \in User \cup {Everybody}, NEW p \in Period, NEW t \in Reading
        PROVE  {e \in Range(chosen) : p \in together[t][e] /\ owner \in {data[e].user, Everybody}}
                 = ReachedBy(Document(owner, t, p))
    <3> DEFINE x == Document(owner, t, p)
    <3>1. ASSUME NEW e \in Range(chosen), p \in together[t][e], owner \in {data[e].user, Everybody}
          PROVE  e \in ReachedBy(x)
      <4>1. e \in Event /\ Whole(e)
        BY <2>2, <2>4
      <4>2. x \in Range(docsOf[e])
        BY <3>1, <4>1, DocOfEvent
      <4> QED
        BY <4>1, <4>2 DEF ReachedBy, Whole
    <3>2. ASSUME NEW e \in ReachedBy(x)
          PROVE  e \in Range(chosen) /\ p \in together[t][e] /\ owner \in {data[e].user, Everybody}
      <4>1. e \in Event /\ <<e, x>> \in reached
        BY DEF ReachedBy
      <4>2. x \in Range(docsOf[e]) /\ idOf[e] \in processed
        BY <2>1, <4>1, DataAssumption DEF ExactInv
      <4>3. p \in together[t][e] /\ owner \in {data[e].user, Everybody}
        BY <4>1, <4>2, DocOfEvent
      <4> DEFINE f == chosen[idOf[e]]
      <4>4. f \in Event /\ idOf[f] = idOf[e] /\ Whole(f) /\ f \in Range(chosen)
        BY <2>2, <2>4, <4>2
      <4> HIDE DEF f
      <4>5. docsOf[f][1] \in Range(docsOf[f])
        <5>1. 1 \in 1 .. Len(docsOf[f])
          BY <4>4, DocsInOrder
        <5> QED
          BY <4>4, <5>1, RangeOfDocs
      <4>6. <<f, docsOf[f][1]>> \in reached
        BY <4>4, <4>5 DEF Whole
      <4>7. f = e
        BY <2>1, <4>1, <4>4, <4>6 DEF ExactInv
      <4> QED
        BY <4>3, <4>4, <4>7
    <3> HIDE DEF x
    <3>3. ReachedBy(x) \subseteq Range(chosen)
      BY <3>2
    <3> QED
      BY <3>1, <3>2, <3>3 DEF x
  <2>6. \A owner \in User \cup {Everybody}, p \in Period, t \in Reading :
          Reports(Shown(owner, p, t), ReachedBy(Document(owner, t, p)))
    BY <2>1 DEF ExactInv, Shown
  <2>7. \A owner \in User \cup {Everybody}, p \in Period, t \in Reading :
          Reports(Shown(owner, p, t),
            {e \in Range(chosen) : p \in together[t][e] /\ owner \in {data[e].user, Everybody}})
    BY <2>5, <2>6
  <2>8. \A i \in processed : idOf[chosen[i]] = i
    BY <2>2
  <2> QED
    BY <2>3, <2>7, <2>8
<1> QED
  BY <1>1, <1>2, CountInit, TypeCorrect, PTL DEF Spec
=============================================================================
