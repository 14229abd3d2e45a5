-------------------------- MODULE ProviderSyncProofs --------------------------
(***************************************************************************)
(* Proofs about PriceFeed, alone and beside the sync of ProviderSync, for  *)
(* any symbols, prices, days and bars, and any number of sync jobs,        *)
(* failing calls and restarts: types, leastPrice, the price events and the *)
(* decrease alerts; then that no published market day is passed over, that *)
(* the two endpoints of the provider agree, and that the market days of a  *)
(* stock's prices rise but for jobs that have stalled.                     *)
(***************************************************************************)
EXTENDS ProviderSync, FiniteSetTheorems, SequenceTheorems, TLAPS

\* A busy worker has a job with a symbol and a price (processPriceUpdate).
LEMMA BusyJob ==
  ASSUME TypeOK, step # "idle"
  PROVE  /\ queue # <<>> /\ Head(queue) \in Job /\ Tail(queue) \in Seq(Job)
         /\ symbol \in Symbol /\ new \in Price /\ day \in Nat
         /\ change \in Change
<1>1. queue # <<>> /\ queue \in Seq(Job) /\ old \in Price \cup {Absent}
  BY DEF TypeOK
<1>2. Head(queue) \in Job /\ Tail(queue) \in Seq(Job)
  BY <1>1
<1>3. symbol \in Symbol /\ new \in Price /\ day \in Nat
  BY <1>2 DEF symbol, new, day, Job
<1> QED BY <1>1, <1>2, <1>3 DEF change, Change

\* An update waits in the queue as a job that has not stalled (enqueuePriceUpdate).
LEMMA NewJob ==
  ASSUME NEW s \in Symbol, NEW p \in Price, NEW n \in Nat
  PROVE  [symbol |-> s, price |-> p, day |-> n, stalls |-> 0] \in Job
BY DEF Job

\* The next job becomes the first of the queue (a worker of BullMQ).
LEMMA StartType ==
  ASSUME NEW S, NEW q \in Seq(S), NEW i \in Startable(q)
  PROVE  q[i] \in S /\ Start(q, i) \in Seq(S) /\ Start(q, i) # <<>>
<1>1. i \in 1 .. Len(q) /\ Len(q) \in Nat
  BY LenProperties DEF Startable
<1>2. q[i] \in S /\ <<q[i]>> \in Seq(S) /\ Len(<<q[i]>>) = 1
  BY <1>1, ElementOfSeq
<1>3. SubSeq(q, 1, i - 1) \in Seq(S)
  BY <1>1
<1>4. SubSeq(q, i + 1, Len(q)) \in Seq(S)
  BY <1>1
<1>5. <<q[i]>> \o SubSeq(q, 1, i - 1) \in Seq(S) /\ Len(<<q[i]>> \o SubSeq(q, 1, i - 1)) >= 1
  BY <1>2, <1>3, ConcatProperties, LenProperties
<1>6. Start(q, i) \in Seq(S) /\ Len(Start(q, i)) >= 1
  BY <1>4, <1>5, ConcatProperties, LenProperties DEF Start
<1> QED
  BY <1>2, <1>6, EmptySeq

\* Taking up a stalled job, or giving it up, leaves jobs only (BullMQ).
LEMMA RestallType ==
  ASSUME TypeOK, step # "idle"
  PROVE  Restall(queue) \in Seq(Job)
<1> DEFINE j == [Head(queue) EXCEPT !.stalls = @ + 1]
<1>1. queue # <<>> /\ queue \in Seq(Job) /\ Head(queue) \in Job /\ Tail(queue) \in Seq(Job)
  BY BusyJob DEF TypeOK
<1>2. j \in Job
  BY <1>1 DEF Job
<1>3. Head(queue) = queue[1] /\ 1 \in DOMAIN queue
  BY <1>1
<1>4. [queue EXCEPT ![1].stalls = @ + 1] = [queue EXCEPT ![1] = j]
  BY <1>1, <1>3 DEF Job
<1>5. [queue EXCEPT ![1] = j] \in Seq(Job)
  <2> HIDE DEF j
  <2> QED BY <1>1, <1>2, <1>3
<1> QED BY <1>1, <1>4, <1>5 DEF Restall

\* The price worker takes no job that is not there (registerWorkers).
LEMMA TypeInit == Init => TypeOK
BY PriceAssumption, SeedAssumption DEF Init, TypeOK, Step

\* Every step keeps the types (processPriceUpdate and onModuleInit).
LEMMA TypeStep == TypeOK /\ [Next]_vars => TypeOK'
<1> SUFFICES ASSUME TypeOK, [Next]_vars PROVE TypeOK'
  OBVIOUS
<1> USE PriceAssumption, SeedAssumption, BoundAssumption DEF TypeOK, Step
<1> USE DEF stocks, worker, spent
<1>1. ASSUME NEW s \in Symbol, NEW p \in Price, Announce(s, p) PROVE TypeOK'
  <2>1. queue' \in Seq(Job) /\ queue' # <<>>
    <3> DEFINE j == [symbol |-> s, price |-> p, day |-> 0, stalls |-> 0]
    <3>1. queue' = Append(queue, j) /\ j \in Job /\ queue \in Seq(Job)
      BY <1>1, NewJob DEF Announce, Enqueue
    <3> HIDE DEF j
    <3> QED BY <3>1, AppendProperties
  <2> QED BY <1>1, <2>1 DEF Announce
<1>2. CASE Take
  <2>1. PICK i \in Startable(queue) : queue' = Start(queue, i)
    BY <1>2 DEF Take
  <2>2. queue' \in Seq(Job) /\ queue' # <<>>
    BY <2>1, StartType
  <2> QED BY <1>2, <2>2 DEF Take
<1>3. CASE ReadStock
  <2>1. old' \in Price \cup {Absent}
    BY <1>3, BusyJob DEF ReadStock, Known
  <2> QED BY <1>3, <2>1 DEF ReadStock, Error
<1>4. CASE RecordEvent
  <2>1. events' \in Seq(Change)
    BY <1>4, BusyJob DEF RecordEvent, WithEvent
  <2> QED BY <1>4, <2>1 DEF RecordEvent
<1>5. CASE UpsertPrice
  <2>1. [change EXCEPT !.old = current[symbol]] \in Change
    BY <1>5, BusyJob DEF UpsertPrice, Change
  <2>2. applied' \in Seq(Change)
    BY <1>5, <2>1 DEF UpsertPrice
  <2>3. current' \in [Symbol -> Price \cup {Absent}]
    BY <1>5, BusyJob DEF UpsertPrice
  <2>4. least' \in [Symbol -> Price \cup {Absent}]
    BY <1>5, BusyJob DEF UpsertPrice, NewLeast
  <2>5. newest' \in [Symbol -> Nat]
    BY <1>5, BusyJob DEF UpsertPrice
  <2> QED BY <1>5, <2>2, <2>3, <2>4, <2>5 DEF UpsertPrice
<1>6. CASE AnnounceDecrease
  <2>1. alerts' \in Seq(Change)
    <3>1. change \in Change /\ Append(alerts, change) \in Seq(Change)
      BY <1>6, BusyJob DEF AnnounceDecrease
    <3>2. alerts' = Append(alerts, change) \/ alerts' = alerts
      BY <1>6 DEF AnnounceDecrease
    <3> QED BY <3>1, <3>2
  <2> QED BY <1>6, <2>1 DEF AnnounceDecrease, Error
<1>7. CASE Finish
  BY <1>7, BusyJob DEF Finish, EndJob
<1>8. CASE JobError
  BY <1>8, BusyJob DEF JobError, EndJob, Error
<1>9. CASE Restart
  <2>2. queue' \in Seq(Job)
    BY <1>9, RestallType DEF Restart
  <2>3. least' \in [Symbol -> Price \cup {Absent}]
    BY <1>9 DEF Restart
  <2> QED BY <1>9, <2>2, <2>3 DEF Restart
<1>10. CASE UNCHANGED vars
  BY <1>10 DEF vars
<1> QED
  BY <1>1, <1>2, <1>3, <1>4, <1>5, <1>6, <1>7, <1>8, <1>9, <1>10 DEF Next, Rest

\* Every variable keeps its type and the busy worker has a job
\* (registerWorkers and processPriceUpdate).
THEOREM TypeCorrect == Spec => []TypeOK
BY TypeInit, TypeStep, PTL DEF Spec

-----------------------------------------------------------------------------
(* leastPrice.  applied names every price a stock has had after the first; *)
(* the old price of the next change is the current one, so that the        *)
(* invariant must also bound the current price.                            *)

\* A seeded stock has both prices, the lower one in leastPrice.
SeededHasPrices ==
  \A s \in Seeded :
    current[s] \in Price /\ least[s] \in Price /\ least[s] <= current[s]

\* So every change of it has an old price.
ChangesHavePrices ==
  \A i \in DOMAIN applied : applied[i].symbol \in Seeded => applied[i].old \in Nat

LeastInvariant == SeededHasPrices /\ ChangesHavePrices /\ LeastIsLowest

\* The stocks that onModuleInit inserts have leastPrice = currentPrice.
LEMMA LeastInit == Init => LeastInvariant
<1> SUFFICES ASSUME Init PROVE LeastInvariant
  OBVIOUS
<1>1. \A s \in Seeded : current[s] = SeedPrice[s] /\ least[s] = SeedPrice[s] /\ SeedPrice[s] \in Nat
  BY PriceAssumption, SeedAssumption DEF Init
<1>2. DOMAIN applied = {}
  BY DEF Init
<1>3. SeededHasPrices
  BY <1>1, SeedAssumption DEF SeededHasPrices
<1>4. LeastIsLowest
  BY <1>1, <1>2 DEF LeastIsLowest
<1> QED BY <1>2, <1>3, <1>4 DEF LeastInvariant, ChangesHavePrices

\* Only upsertPrice and onModuleInit write the two prices.
LEMMA LeastStep == TypeOK /\ LeastInvariant /\ [Next]_vars => LeastInvariant'
<1> SUFFICES ASSUME TypeOK, LeastInvariant, [Next]_vars PROVE LeastInvariant'
  OBVIOUS
<1> USE PriceAssumption, SeedAssumption
<1>1. CASE UpsertPrice
  <2>1. symbol \in Symbol /\ new \in Price
    BY <1>1, BusyJob DEF UpsertPrice
  <2>2. \A s \in Symbol :
          /\ current'[s] = IF s = symbol THEN new ELSE current[s]
          /\ least'[s] = IF s = symbol THEN NewLeast(least[s], new) ELSE least[s]
    BY <1>1, <2>1 DEF UpsertPrice, TypeOK
  <2>3. \A s \in Seeded :
          /\ current'[s] \in Price /\ least'[s] \in Price
          /\ least'[s] <= current'[s] /\ least'[s] <= least[s]
          /\ least'[s] = least[s] \/ (s = symbol /\ least'[s] = new)
          /\ least'[s] <= current[s]
    <3> TAKE s \in Seeded
    <3>1. current[s] \in Nat /\ least[s] \in Nat /\ least[s] \in Price /\ least[s] <= current[s]
          /\ current[s] \in Price /\ new \in Nat
      BY <2>1 DEF LeastInvariant, SeededHasPrices
    <3>2. least[s] # Absent /\ s \in Symbol
      BY <3>1
    <3>3. CASE s = symbol
      BY <2>1, <2>2, <3>1, <3>2, <3>3 DEF NewLeast
    <3>4. CASE s # symbol
      BY <2>2, <3>1, <3>2, <3>4
    <3> QED BY <3>3, <3>4
  <2> DEFINE c == [symbol |-> symbol, old |-> current[symbol], new |-> new]
  <2>4. applied' = Append(applied, c) /\ applied \in Seq(Change)
    <3>1. [change EXCEPT !.old = current[symbol]] = c
      BY DEF change
    <3>2. applied' = Append(applied, [change EXCEPT !.old = current[symbol]])
      BY <1>1 DEF UpsertPrice
    <3> QED BY <3>1, <3>2 DEF TypeOK
  <2>5. /\ DOMAIN applied' = 1 .. Len(applied) + 1
        /\ DOMAIN applied = 1 .. Len(applied) /\ Len(applied) \in Nat
        /\ \A i \in DOMAIN applied : applied'[i] = applied[i] /\ applied[i] \in Change
        /\ applied'[Len(applied) + 1] = c
    <3> HIDE DEF c
    <3> QED BY <2>4
  <2>6. ASSUME NEW s \in Seeded, NEW i \in DOMAIN applied', applied'[i].symbol = s
        PROVE least'[s] <= applied'[i].new /\ least'[s] <= applied'[i].old
    <3>1. CASE i \in DOMAIN applied
      <4>1. least[s] <= applied[i].new /\ least[s] <= applied[i].old
        BY <3>1, <2>5, <2>6 DEF LeastInvariant, LeastIsLowest
      <4>2. applied'[i] = applied[i] /\ least'[s] <= least[s]
        BY <3>1, <2>5, <2>3
      <4>3. applied[i].new \in Nat /\ least'[s] \in Nat /\ least[s] \in Nat
        BY <3>1, <2>5, <2>3 DEF Change, LeastInvariant, SeededHasPrices
      <4>4. applied[i].old \in Nat
        BY <3>1, <2>5, <2>6 DEF LeastInvariant, ChangesHavePrices
      <4> QED BY <4>1, <4>2, <4>3, <4>4
    <3>2. CASE i = Len(applied) + 1
      <4>1. s = symbol /\ applied'[i].new = new /\ applied'[i].old = current[symbol]
        BY <3>2, <2>5, <2>6
      <4>2. current'[s] = new
        BY <4>1, <2>1, <2>2
      <4> QED BY <4>1, <4>2, <2>3
    <3> QED BY <3>1, <3>2, <2>5
  <2>7. SeededHasPrices'
    BY <2>3 DEF SeededHasPrices
  <2>8. ASSUME NEW s \in Seeded
        PROVE  \/ least'[s] = SeedPrice[s]
               \/ \E i \in DOMAIN applied' : applied'[i].symbol = s /\ least'[s] = applied'[i].new
    <3>1. CASE least'[s] = least[s]
      BY <3>1, <2>5 DEF LeastInvariant, LeastIsLowest
    <3>2. CASE s = symbol /\ least'[s] = new
      <4>1. Len(applied) + 1 \in DOMAIN applied'
        BY <2>5
      <4> QED BY <3>2, <4>1, <2>5
    <3> QED BY <3>1, <3>2, <2>3
  <2>9. LeastIsLowest'
    BY <2>6, <2>8 DEF LeastIsLowest
  <2>10. ChangesHavePrices'
    <3>1. ASSUME NEW i \in DOMAIN applied', applied'[i].symbol \in Seeded PROVE applied'[i].old \in Nat
      <4>1. CASE i \in DOMAIN applied
        BY <3>1, <4>1, <2>5 DEF LeastInvariant, ChangesHavePrices
      <4>2. CASE i = Len(applied) + 1
        <5>1. applied'[i].symbol = symbol /\ applied'[i].old = current[symbol]
          BY <4>2, <2>5
        <5> QED BY <3>1, <5>1 DEF LeastInvariant, SeededHasPrices
      <4> QED BY <4>1, <4>2, <2>5
    <3> QED BY <3>1 DEF ChangesHavePrices
  <2> QED BY <2>7, <2>9, <2>10 DEF LeastInvariant
<1>2. CASE Restart
  <2>1. current' = current /\ applied' = applied /\ \A s \in Seeded : least'[s] = least[s]
    BY <1>2 DEF Restart, LeastInvariant, SeededHasPrices, TypeOK
  <2> QED BY <2>1 DEF LeastInvariant, SeededHasPrices, ChangesHavePrices, LeastIsLowest
<1>3. ASSUME UNCHANGED <<current, least, applied>> PROVE LeastInvariant'
  BY <1>3 DEF LeastInvariant, SeededHasPrices, ChangesHavePrices, LeastIsLowest
<1> QED
  BY <1>1, <1>2, <1>3
  DEF Next, vars, stocks, Announce, Take, ReadStock, RecordEvent, AnnounceDecrease, Finish, JobError, Rest

\* leastPrice of a seeded stock is the lowest price it ever had, whatever fails
\* or runs twice (upsertPrice and onModuleInit).
THEOREM LeastIsLowestHolds == Spec => []LeastIsLowest
<1>1. TypeOK /\ LeastInvariant /\ [Next]_vars => TypeOK' /\ LeastInvariant'
  BY TypeStep, LeastStep
<1>2. LeastInvariant => LeastIsLowest
  BY DEF LeastInvariant
<1> QED BY <1>1, <1>2, TypeInit, LeastInit, PTL DEF Spec

-----------------------------------------------------------------------------
(* The alerts.  Only this worker writes a stock, so that the price it has  *)
(* read is still the price it replaces.                                    *)

\* The old price in hand is that of the stock, and after the upsert the
\* change in hand has taken place.
HandlerKnows ==
  /\ step \in {"record", "upsert"} /\ old # Absent => old = current[symbol]
  /\ step = "announce" /\ old # Absent => \E j \in DOMAIN applied : applied[j] = change

AlertInvariant == HandlerKnows /\ AlertsAreTrue

\* Nothing has been announced at the start (onModuleInit).
LEMMA AlertInit == Init => AlertInvariant
BY DEF Init, AlertInvariant, HandlerKnows, AlertsAreTrue

\* What has been applied stays applied when a change follows it (upsertPrice).
LEMMA AppliedStays ==
  ASSUME NEW c, NEW q \in Seq(Change), NEW d \in Change,
         \E j \in DOMAIN q : q[j] = c
  PROVE  \E j \in DOMAIN Append(q, d) : Append(q, d)[j] = c
<1>1. PICK j \in DOMAIN q : q[j] = c
  OBVIOUS
<1>2. j \in DOMAIN Append(q, d) /\ Append(q, d)[j] = q[j]
  BY <1>1
<1> QED BY <1>1, <1>2

\* A notification is sent by the worker that has applied its change
\* (processPriceUpdate, publishPriceDecreaseNotification).
LEMMA AlertStep == TypeOK /\ AlertInvariant /\ [Next]_vars => AlertInvariant'
<1> SUFFICES ASSUME TypeOK, AlertInvariant, [Next]_vars PROVE AlertInvariant'
  OBVIOUS
<1>1. ASSUME NEW s \in Symbol, NEW p \in Price, Announce(s, p) PROVE AlertInvariant'
  <2>1. UNCHANGED <<current, alerts, applied, step, old>>
    BY <1>1 DEF Announce, stocks, worker
  <2>2. step # "idle" => symbol' = symbol /\ new' = new
    <3> SUFFICES ASSUME step # "idle" PROVE Head(queue') = Head(queue)
      BY DEF symbol, new
    <3> DEFINE j == [symbol |-> s, price |-> p, day |-> 0, stalls |-> 0]
    <3>1. queue' = Append(queue, j) /\ j \in Job /\ queue \in Seq(Job) /\ queue # <<>>
      BY <1>1, NewJob, BusyJob DEF Announce, Enqueue, TypeOK
    <3> HIDE DEF j
    <3> QED BY <3>1
  <2> QED BY <2>1, <2>2 DEF AlertInvariant, HandlerKnows, AlertsAreTrue, change
<1>2. CASE ReadStock
  <2>1. UNCHANGED <<current, alerts, applied, queue>> /\ step' = "record"
    BY <1>2 DEF ReadStock, stocks
  <2>2. old' = current[symbol] \/ old' = Absent
    BY <1>2 DEF ReadStock, Known
  <2>3. symbol' = symbol
    BY <2>1 DEF symbol
  <2> QED BY <2>1, <2>2, <2>3 DEF AlertInvariant, HandlerKnows, AlertsAreTrue
<1>3. CASE RecordEvent
  <2>1. UNCHANGED <<current, alerts, applied, queue, old>> /\ step = "record" /\ step' = "upsert"
    BY <1>3 DEF RecordEvent, stocks
  <2>2. symbol' = symbol
    BY <2>1 DEF symbol
  <2> QED BY <2>1, <2>2 DEF AlertInvariant, HandlerKnows, AlertsAreTrue
<1>4. CASE UpsertPrice
  <2> DEFINE d == [change EXCEPT !.old = current[symbol]]
  <2>1. /\ applied' = Append(applied, d) /\ applied \in Seq(Change) /\ d \in Change
        /\ UNCHANGED <<alerts, queue, old>> /\ step = "upsert" /\ step' = "announce"
    BY <1>4, BusyJob DEF UpsertPrice, TypeOK, Change
  <2>2. old # Absent => d = change
    BY <2>1 DEF AlertInvariant, HandlerKnows, change
  <2>3. change' = change
    BY <2>1 DEF change, symbol, new
  <2>4. \E j \in DOMAIN applied' : applied'[j] = d
    <3> HIDE DEF d
    <3>1. Len(applied) + 1 \in DOMAIN applied' /\ applied'[Len(applied) + 1] = d
      BY <2>1
    <3> QED BY <3>1
  <2>5. AlertsAreTrue'
    <3> HIDE DEF d
    <3> QED BY <2>1, AppliedStays DEF AlertInvariant, AlertsAreTrue
  <2>6. HandlerKnows'
    BY <2>1, <2>2, <2>3, <2>4 DEF HandlerKnows
  <2> QED BY <2>5, <2>6 DEF AlertInvariant
<1>5. CASE AnnounceDecrease
  <2>1. UNCHANGED applied /\ step = "announce" /\ step' = "finish"
    BY <1>5 DEF AnnounceDecrease
  <2>2. CASE alerts' = alerts
    BY <2>1, <2>2 DEF AlertInvariant, HandlerKnows, AlertsAreTrue
  <2>3. CASE alerts' = Append(alerts, change) /\ Decrease(change)
    <3>1. old # Absent
      BY <2>3 DEF Decrease, change
    <3>2. PICK j \in DOMAIN applied : applied[j] = change
      BY <2>1, <3>1 DEF AlertInvariant, HandlerKnows
    <3>3. /\ DOMAIN alerts' = 1 .. Len(alerts) + 1
          /\ \A i \in DOMAIN alerts' :
               alerts'[i] = IF i = Len(alerts) + 1 THEN change ELSE alerts[i]
          /\ DOMAIN alerts = 1 .. Len(alerts) /\ Len(alerts) \in Nat
      <4>1. change \in Change /\ alerts \in Seq(Change)
        BY <2>1, BusyJob DEF TypeOK
      <4> QED BY <2>3, <4>1
    <3>4. AlertsAreTrue'
      BY <2>1, <3>2, <3>3 DEF AlertInvariant, AlertsAreTrue
    <3> QED BY <2>1, <3>4 DEF AlertInvariant, HandlerKnows
  <2> QED BY <1>5, <2>2, <2>3 DEF AnnounceDecrease
<1>6. ASSUME UNCHANGED <<alerts, applied>>, step' \in {"idle", "read"} PROVE AlertInvariant'
  BY <1>6 DEF AlertInvariant, HandlerKnows, AlertsAreTrue
<1>7. CASE UNCHANGED vars
  <2>1. UNCHANGED <<current, alerts, applied, queue, step, old>>
    BY <1>7 DEF vars, stocks, worker
  <2>2. symbol' = symbol /\ new' = new
    BY <2>1 DEF symbol, new
  <2> QED BY <2>1, <2>2 DEF AlertInvariant, HandlerKnows, AlertsAreTrue, change
<1>8. Take \/ Finish \/ JobError \/ Restart => UNCHANGED <<alerts, applied>> /\ step' \in {"idle", "read"}
  BY DEF Take, Finish, JobError, Restart, EndJob
<1> QED
  BY <1>1, <1>2, <1>3, <1>4, <1>5, <1>6, <1>7, <1>8 DEF Next, Rest

\* A decrease notification tells of a decrease that took place, through jobs
\* that fail or run twice (publishPriceDecreaseNotification).
THEOREM AlertsAreTrueHolds == Spec => []AlertsAreTrue
<1>1. TypeOK /\ AlertInvariant /\ [Next]_vars => TypeOK' /\ AlertInvariant'
  BY TypeStep, AlertStep
<1>2. AlertInvariant => AlertsAreTrue
  BY DEF AlertInvariant
<1> QED BY <1>1, <1>2, TypeInit, AlertInit, PTL DEF Spec

-----------------------------------------------------------------------------
(* The price events.  The worker records a change before it applies it, so *)
(* that the events are ahead of the changes by the one in hand, and it     *)
(* announces a decrease before it takes the next job.                      *)

LEMMA MovesFinite ==
  ASSUME NEW q \in Seq(Change), NEW s, NEW p
  PROVE  IsFiniteSet(Moves(q, s, p)) /\ Cardinality(Moves(q, s, p)) \in Nat
<1>1. Moves(q, s, p) \subseteq 1 .. Len(q)
  BY DEF Moves
<1>2. Len(q) \in Int /\ 1 \in Int
  OBVIOUS
<1>3. IsFiniteSet(1 .. Len(q))
  BY <1>2, FS_Interval
<1>4. IsFiniteSet(Moves(q, s, p))
  BY <1>1, <1>3, FS_Subset
<1> QED BY <1>4, FS_CardinalityType

\* One more change is one more of its price (recordPriceEvent, upsertPrice).
LEMMA MovesAppend ==
  ASSUME NEW q \in Seq(Change), NEW c \in Change, NEW s, NEW p
  PROVE  Cardinality(Moves(Append(q, c), s, p))
           = Cardinality(Moves(q, s, p)) + IF c.symbol = s /\ c.new = p THEN 1 ELSE 0
<1> DEFINE n == Len(q) + 1
<1>1. /\ n \in Nat /\ DOMAIN q = 1 .. n - 1 /\ DOMAIN Append(q, c) = 1 .. n
      /\ Append(q, c)[n] = c /\ \A i \in 1 .. n - 1 : Append(q, c)[i] = q[i]
  OBVIOUS
<1> HIDE DEF n
<1>2. n \notin Moves(q, s, p)
  BY <1>1 DEF Moves
<1>3. CASE c.symbol = s /\ c.new = p
  <2>1. Moves(Append(q, c), s, p) = Moves(q, s, p) \cup {n}
    BY <1>1, <1>3 DEF Moves
  <2>2. IsFiniteSet(Moves(q, s, p)) /\ Cardinality(Moves(q, s, p)) \in Nat
    BY MovesFinite
  <2>3. Cardinality(Moves(q, s, p) \cup {n}) = Cardinality(Moves(q, s, p)) + 1
    BY <1>2, <2>2, FS_AddElement
  <2> QED BY <1>3, <2>1, <2>3
<1>4. CASE ~ (c.symbol = s /\ c.new = p)
  <2>1. Moves(Append(q, c), s, p) = Moves(q, s, p)
    BY <1>1, <1>4 DEF Moves
  <2> QED BY <1>4, <2>1, MovesFinite
<1> QED BY <1>3, <1>4

\* The event in hand has been recorded and not yet applied.
Owed(s, p) == IF step = "upsert" /\ symbol = s /\ new = p THEN 1 ELSE 0

RecordInvariant ==
  \A s \in Symbol, p \in Price :
    Cardinality(Moves(applied, s, p)) + Owed(s, p) <= Cardinality(Moves(events, s, p))

LEMMA RecordInit == Init => RecordInvariant
<1> SUFFICES ASSUME Init PROVE RecordInvariant
  OBVIOUS
<1>1. applied = events /\ applied = <<>> /\ applied \in Seq(Change) /\ step = "idle"
  BY DEF Init
<1>2. \A s, p : Cardinality(Moves(applied, s, p)) \in Nat /\ Owed(s, p) = 0
  BY <1>1, MovesFinite DEF Owed
<1> QED BY <1>1, <1>2 DEF RecordInvariant

\* A step that neither records nor applies anything, and owes no more.
LEMMA RecordKept ==
  ASSUME TypeOK, RecordInvariant, UNCHANGED <<events, applied>>,
         step' = "upsert" => step = "upsert" /\ symbol' = symbol /\ new' = new
  PROVE  RecordInvariant'
<1> SUFFICES ASSUME NEW s \in Symbol, NEW p \in Price
             PROVE  Cardinality(Moves(applied', s, p)) + Owed(s, p)'
                      <= Cardinality(Moves(events', s, p))
  BY DEF RecordInvariant
<1>1. applied' = applied /\ events' = events
  OBVIOUS
<1>2. Cardinality(Moves(applied, s, p)) \in Nat /\ Cardinality(Moves(events, s, p)) \in Nat
  BY MovesFinite DEF TypeOK
<1>3. Owed(s, p)' \in {0, 1} /\ Owed(s, p) \in {0, 1} /\ Owed(s, p)' <= Owed(s, p)
  BY DEF Owed
<1>4. Cardinality(Moves(applied, s, p)) + Owed(s, p) <= Cardinality(Moves(events, s, p))
  BY DEF RecordInvariant
<1> QED BY <1>1, <1>2, <1>3, <1>4

\* An added job is not the one in hand (enqueuePriceUpdate).
LEMMA AnnounceJob ==
  ASSUME TypeOK, NEW s \in Symbol, NEW p \in Price, Announce(s, p), step # "idle"
  PROVE  symbol' = symbol /\ new' = new
<1> DEFINE j == [symbol |-> s, price |-> p, day |-> 0, stalls |-> 0]
<1>1. queue' = Append(queue, j) /\ j \in Job /\ queue \in Seq(Job) /\ queue # <<>>
  BY NewJob, BusyJob DEF Announce, Enqueue, TypeOK
<1> HIDE DEF j
<1>2. Head(queue') = Head(queue)
  BY <1>1
<1> QED BY <1>2 DEF symbol, new

\* An event is recorded, then its change is applied, whatever fails or runs
\* twice in between (processPriceUpdate).
LEMMA RecordStep == TypeOK /\ RecordInvariant /\ [Next]_vars => RecordInvariant'
<1> SUFFICES ASSUME TypeOK, RecordInvariant, [Next]_vars PROVE RecordInvariant'
  OBVIOUS
<1>1. CASE RecordEvent
  <2>1. /\ events' = Append(events, change) /\ applied' = applied /\ queue' = queue
        /\ step = "record" /\ step' = "upsert"
        /\ events \in Seq(Change) /\ applied \in Seq(Change) /\ change \in Change
    BY <1>1, BusyJob DEF RecordEvent, WithEvent, TypeOK
  <2> SUFFICES ASSUME NEW s \in Symbol, NEW p \in Price
               PROVE  Cardinality(Moves(applied', s, p)) + Owed(s, p)'
                        <= Cardinality(Moves(events', s, p))
    BY DEF RecordInvariant
  <2>2. Owed(s, p) = 0 /\ Owed(s, p)' = IF change.symbol = s /\ change.new = p THEN 1 ELSE 0
    BY <2>1 DEF Owed, change, symbol, new
  <2>3. Cardinality(Moves(events', s, p))
          = Cardinality(Moves(events, s, p)) + IF change.symbol = s /\ change.new = p THEN 1 ELSE 0
    BY <2>1, MovesAppend
  <2>4. Cardinality(Moves(applied, s, p)) \in Nat /\ Cardinality(Moves(events, s, p)) \in Nat
    BY <2>1, MovesFinite
  <2>5. Cardinality(Moves(applied, s, p)) <= Cardinality(Moves(events, s, p))
    BY <2>2, <2>4 DEF RecordInvariant
  <2> QED BY <2>1, <2>2, <2>3, <2>4, <2>5
<1>2. CASE UpsertPrice
  <2> DEFINE d == [change EXCEPT !.old = current[symbol]]
  <2>1. /\ applied' = Append(applied, d) /\ events' = events
        /\ step = "upsert" /\ step' = "announce"
        /\ events \in Seq(Change) /\ applied \in Seq(Change) /\ d \in Change
        /\ d.symbol = symbol /\ d.new = new
    BY <1>2, BusyJob DEF UpsertPrice, TypeOK, Change, change
  <2> SUFFICES ASSUME NEW s \in Symbol, NEW p \in Price
               PROVE  Cardinality(Moves(applied', s, p)) + Owed(s, p)'
                        <= Cardinality(Moves(events', s, p))
    BY DEF RecordInvariant
  <2> HIDE DEF d
  <2>2. Owed(s, p)' = 0 /\ Owed(s, p) = IF d.symbol = s /\ d.new = p THEN 1 ELSE 0
    BY <2>1 DEF Owed
  <2>3. Cardinality(Moves(applied', s, p))
          = Cardinality(Moves(applied, s, p)) + IF d.symbol = s /\ d.new = p THEN 1 ELSE 0
    BY <2>1, MovesAppend
  <2>4. Cardinality(Moves(applied, s, p)) \in Nat /\ Cardinality(Moves(events, s, p)) \in Nat
    BY <2>1, MovesFinite
  <2>5. Cardinality(Moves(applied, s, p)) + Owed(s, p) <= Cardinality(Moves(events, s, p))
    BY DEF RecordInvariant
  <2> QED BY <2>1, <2>2, <2>3, <2>4, <2>5
<1>3. ASSUME NEW s \in Symbol, NEW p \in Price, Announce(s, p) PROVE RecordInvariant'
  <2>1. UNCHANGED <<events, applied, step>>
    BY <1>3 DEF Announce, worker
  <2> QED BY <1>3, <2>1, AnnounceJob, RecordKept
<1>4. CASE Take \/ ReadStock \/ AnnounceDecrease \/ Finish \/ JobError \/ Restart
  <2>1. UNCHANGED <<events, applied>> /\ step' # "upsert"
    BY <1>4 DEF Take, ReadStock, AnnounceDecrease, Finish, JobError, Restart, EndJob
  <2> QED BY <2>1, RecordKept
<1>5. CASE UNCHANGED vars
  <2>1. UNCHANGED <<events, applied, step, queue>>
    BY <1>5 DEF vars, worker
  <2>2. symbol' = symbol /\ new' = new
    BY <2>1 DEF symbol, new
  <2> QED BY <2>1, <2>2, RecordKept
<1> QED BY <1>1, <1>2, <1>3, <1>4, <1>5 DEF Next, Rest

LEMMA Recorded == TypeOK /\ RecordInvariant => AppliedIsRecorded
<1> SUFFICES ASSUME TypeOK, RecordInvariant, NEW s \in Symbol, NEW p \in Price
             PROVE  Cardinality(Moves(applied, s, p)) <= Cardinality(Moves(events, s, p))
  BY DEF AppliedIsRecorded
<1>1. Cardinality(Moves(applied, s, p)) \in Nat /\ Cardinality(Moves(events, s, p)) \in Nat
  BY MovesFinite DEF TypeOK
<1>2. Cardinality(Moves(applied, s, p)) + Owed(s, p) <= Cardinality(Moves(events, s, p))
      /\ Owed(s, p) \in {0, 1}
  BY DEF RecordInvariant, Owed
<1> QED BY <1>1, <1>2

\* No price changes without a price event of its own, through jobs that fail
\* or run twice and through restarts (recordPriceEvent, upsertPrice).
THEOREM AppliedIsRecordedHolds == Spec => []AppliedIsRecorded
<1>1. TypeOK /\ RecordInvariant /\ [Next]_vars => TypeOK' /\ RecordInvariant'
  BY TypeStep, RecordStep
<1> QED BY <1>1, Recorded, TypeInit, RecordInit, PTL DEF Spec

-----------------------------------------------------------------------------
(* The feed as long as nothing fails and the process does not restart.     *)

\* The k-th alert tells of the k-th decrease among the first n changes.
Announced(n) ==
  /\ Len(alerts) = Cardinality(Falls(n))
  /\ \A i \in Falls(n) : alerts[Cardinality(Falls(i))] = applied[i]

FeedInvariant ==
  errors = 0 /\ restarts = 0 =>
    /\ step \in {"record", "upsert"} => old = current[symbol]
    /\ events = IF step = "upsert" THEN Append(applied, change) ELSE applied
    /\ IF step = "announce"
       THEN /\ applied # <<>> /\ applied[Len(applied)] = change
            /\ Announced(Len(applied) - 1)
       ELSE Announced(Len(applied))

LEMMA FallsFinite ==
  ASSUME NEW n \in Nat
  PROVE  IsFiniteSet(Falls(n)) /\ Cardinality(Falls(n)) \in Nat
<1>1. Falls(n) \subseteq 1 .. n
  BY DEF Falls
<1>2. n \in Int /\ 1 \in Int
  OBVIOUS
<1>3. IsFiniteSet(1 .. n)
  BY <1>2, FS_Interval
<1>4. IsFiniteSet(Falls(n))
  BY <1>1, <1>3, FS_Subset
<1> QED BY <1>4, FS_CardinalityType

\* A decrease is announced in its place: the ones before it are fewer than the
\* ones up to it (publishPriceDecreaseNotification).
LEMMA FallsNext ==
  ASSUME NEW n \in Nat
  PROVE  /\ \A i \in Falls(n) : Cardinality(Falls(i)) \in 1 .. Cardinality(Falls(n))
         /\ n + 1 \in Falls(n + 1) =>
              /\ Falls(n + 1) = Falls(n) \cup {n + 1}
              /\ Cardinality(Falls(n + 1)) = Cardinality(Falls(n)) + 1
         /\ n + 1 \notin Falls(n + 1) => Falls(n + 1) = Falls(n)
<1>1. IsFiniteSet(Falls(n)) /\ Cardinality(Falls(n)) \in Nat
  BY FallsFinite
<1>2. ASSUME NEW i \in Falls(n) PROVE Cardinality(Falls(i)) \in 1 .. Cardinality(Falls(n))
  <2>1. i \in Nat /\ i \in Falls(i) /\ Falls(i) \subseteq Falls(n)
    BY DEF Falls
  <2>2. IsFiniteSet(Falls(i)) /\ Cardinality(Falls(i)) \in Nat
    BY <2>1, FallsFinite
  <2>3. Cardinality(Falls(i)) # 0
    BY <2>1, <2>2, FS_EmptySet
  <2>4. Cardinality(Falls(i)) <= Cardinality(Falls(n))
    BY <1>1, <2>1, FS_Subset
  <2> QED BY <1>1, <2>2, <2>3, <2>4
<1>3. ASSUME n + 1 \in Falls(n + 1)
      PROVE  /\ Falls(n + 1) = Falls(n) \cup {n + 1}
             /\ Cardinality(Falls(n + 1)) = Cardinality(Falls(n)) + 1
  <2>1. Falls(n + 1) = Falls(n) \cup {n + 1} /\ n + 1 \notin Falls(n)
    BY <1>3 DEF Falls
  <2> QED BY <1>1, <2>1, FS_AddElement
<1>4. n + 1 \notin Falls(n + 1) => Falls(n + 1) = Falls(n)
  BY DEF Falls
<1> QED BY <1>2, <1>3, <1>4

\* The worker announces the decrease it has just applied, and nothing else.
LEMMA AnnouncedNext ==
  ASSUME TypeOK, NEW n \in Nat, n + 1 = Len(applied), Announced(n), applied' = applied,
         alerts' = IF n + 1 \in Falls(n + 1) THEN Append(alerts, applied[n + 1]) ELSE alerts
  PROVE  Announced(n + 1)'
<1>1. \A k : Falls(k)' = Falls(k)
  BY DEF Falls
<1>2. alerts \in Seq(Change) /\ Len(alerts) = Cardinality(Falls(n)) /\ Len(alerts) \in Nat
      /\ applied[n + 1] \in Change
  BY DEF TypeOK, Announced
<1>3. CASE n + 1 \in Falls(n + 1)
  <2>1. alerts' = Append(alerts, applied[n + 1])
    BY <1>3
  <2> DEFINE c == applied[n + 1]
  <2>2. /\ Len(alerts') = Len(alerts) + 1 /\ alerts'[Len(alerts) + 1] = c
        /\ \A k \in 1 .. Len(alerts) : alerts'[k] = alerts[k]
    <3>1. alerts' = Append(alerts, c) /\ c \in Change
      BY <1>2, <2>1
    <3> HIDE DEF c
    <3> QED BY <1>2, <3>1
  <2>3. /\ Falls(n + 1) = Falls(n) \cup {n + 1}
        /\ Cardinality(Falls(n + 1)) = Len(alerts) + 1
        /\ \A i \in Falls(n) : Cardinality(Falls(i)) \in 1 .. Len(alerts)
    BY <1>2, <1>3, FallsNext
  <2>4. \A i \in Falls(n) : alerts[Cardinality(Falls(i))] = applied[i]
    BY DEF Announced
  <2>5. \A i \in Falls(n + 1) : alerts'[Cardinality(Falls(i))] = applied[i]
    BY <2>2, <2>3, <2>4
  <2> QED BY <1>1, <2>2, <2>3, <2>5 DEF Announced
<1>4. CASE n + 1 \notin Falls(n + 1)
  <2>1. Falls(n + 1) = Falls(n) /\ alerts' = alerts
    BY <1>4, FallsNext
  <2> QED BY <1>1, <2>1 DEF Announced
<1> QED BY <1>3, <1>4

\* A change that is applied leaves the earlier ones where they are.
LEMMA AnnouncedStays ==
  ASSUME NEW n \in Nat, NEW d, applied \in Seq(Change), d \in Change, n <= Len(applied),
         Announced(n), alerts' = alerts, applied' = Append(applied, d)
  PROVE  Announced(n)'
<1>1. \A i \in 1 .. n : applied'[i] = applied[i]
  OBVIOUS
<1>2. \A k \in 0 .. n : Falls(k)' = Falls(k)
  BY <1>1 DEF Falls
<1>3. Falls(n)' = Falls(n) /\ \A i \in Falls(n) : i \in 1 .. n
  BY <1>2 DEF Falls
<1> QED BY <1>1, <1>2, <1>3 DEF Announced

LEMMA FeedInit == Init => FeedInvariant
<1> SUFFICES ASSUME Init PROVE Announced(0) /\ Len(applied) = 0 /\ events = applied /\ step = "idle"
  BY DEF FeedInvariant
<1>1. Len(applied) = 0 /\ Len(alerts) = 0 /\ events = applied /\ step = "idle"
  BY DEF Init
<1>2. Falls(0) = {}
  BY DEF Falls
<1> QED BY <1>1, <1>2, FS_EmptySet DEF Announced

\* A step that moves nothing of the feed.
LEMMA FeedKept ==
  ASSUME TypeOK, FeedInvariant, UNCHANGED <<current, events, alerts, applied>>,
         errors' = 0 /\ restarts' = 0 => errors = 0 /\ restarts = 0,
         step # "idle" => symbol' = symbol /\ new' = new,
         step' = step /\ old' = old
  PROVE  FeedInvariant'
<1> SUFFICES ASSUME errors = 0, restarts = 0, errors' = 0, restarts' = 0 PROVE FeedInvariant'
  BY DEF FeedInvariant
<1>1. \A k : Announced(k)' = Announced(k)
  BY DEF Announced, Falls
<1>2. step # "idle" => change' = change
  BY DEF change
<1> QED BY <1>1, <1>2 DEF FeedInvariant

\* The events, the changes and the alerts go together as long as no call fails
\* and the process runs on (processPriceUpdate).
LEMMA FeedStep == TypeOK /\ FeedInvariant /\ [Next]_vars => FeedInvariant'
<1> SUFFICES ASSUME TypeOK, FeedInvariant, [Next]_vars PROVE FeedInvariant'
  OBVIOUS
<1>1. ASSUME NEW s \in Symbol, NEW p \in Price, Announce(s, p) PROVE FeedInvariant'
  <2>1. UNCHANGED <<current, events, alerts, applied, step, old, errors, restarts>>
    BY <1>1 DEF Announce, stocks, worker
  <2> QED BY <1>1, <2>1, AnnounceJob, FeedKept
<1>2. CASE UNCHANGED vars
  <2>1. UNCHANGED <<current, events, alerts, applied, step, old, errors, restarts, queue>>
    BY <1>2 DEF vars, stocks, worker, spent
  <2>2. symbol' = symbol /\ new' = new
    BY <2>1 DEF symbol, new
  <2> QED BY <2>1, <2>2, FeedKept
<1>3. CASE Restart \/ JobError
  <2>1. restarts' # 0 \/ errors' # 0
    BY <1>3 DEF Restart, JobError, Error, TypeOK
  <2> QED BY <2>1 DEF FeedInvariant
<1> SUFFICES ASSUME errors' = 0, restarts' = 0,
                    Take \/ ReadStock \/ RecordEvent \/ UpsertPrice \/ AnnounceDecrease \/ Finish
             PROVE  FeedInvariant'
  BY <1>1, <1>2, <1>3 DEF Next, Rest, FeedInvariant
<1>4. errors = 0 /\ restarts = 0 /\ ~ Error
  BY DEF Take, ReadStock, RecordEvent, UpsertPrice, AnnounceDecrease, Finish, Error, spent, TypeOK
<1>5. UNCHANGED <<alerts, applied>> => \A k : Announced(k)' = Announced(k)
  BY DEF Announced, Falls
<1>6. CASE Take \/ Finish
  <2>1. UNCHANGED <<events, alerts, applied>> /\ step \in {"idle", "finish"} /\ step' \in {"idle", "read"}
    BY <1>6 DEF Take, Finish, EndJob
  <2> QED BY <1>4, <1>5, <2>1 DEF FeedInvariant
<1>7. CASE ReadStock
  <2>1. /\ UNCHANGED <<current, events, alerts, applied, queue>> /\ step = "read"
        /\ step' = "record" /\ old' = current[symbol]
    BY <1>4, <1>7 DEF ReadStock, stocks, Known
  <2> QED BY <1>4, <1>5, <2>1 DEF FeedInvariant, symbol
<1>8. CASE RecordEvent
  <2>1. /\ UNCHANGED <<current, alerts, applied, queue, old>> /\ step = "record"
        /\ step' = "upsert" /\ events' = Append(events, change)
    BY <1>8 DEF RecordEvent, stocks, WithEvent
  <2>2. symbol' = symbol /\ change' = change
    BY <2>1 DEF symbol, new, change
  <2> QED BY <1>4, <1>5, <2>1, <2>2 DEF FeedInvariant
<1>9. CASE UpsertPrice
  <2> DEFINE d == [change EXCEPT !.old = current[symbol]]
  <2>1. /\ applied' = Append(applied, d) /\ UNCHANGED <<events, alerts, queue, old>>
        /\ step = "upsert" /\ step' = "announce" /\ change' = change
    BY <1>9 DEF UpsertPrice, change, symbol, new
  <2>2. old = current[symbol] /\ events = Append(applied, change) /\ Announced(Len(applied))
    BY <1>4, <2>1 DEF FeedInvariant
  <2>3. d = change /\ change \in Change /\ applied \in Seq(Change) /\ Len(applied) \in Nat
    BY <2>1, <2>2, BusyJob DEF change, TypeOK
  <2> HIDE DEF d
  <2>4. events' = applied' /\ applied' # <<>> /\ Len(applied') = Len(applied) + 1
        /\ applied'[Len(applied')] = change
    BY <2>1, <2>2, <2>3
  <2> DEFINE n == Len(applied)
  <2>5. n \in Nat /\ n <= Len(applied) /\ Announced(n) /\ Len(applied') - 1 = n
    BY <2>2, <2>3, <2>4
  <2> HIDE DEF n
  <2>6. ASSUME NEW k, k = n PROVE Announced(k)'
    BY <2>1, <2>3, <2>5, <2>6, AnnouncedStays
  <2> QED BY <2>1, <2>4, <2>5, <2>6 DEF FeedInvariant
<1>10. CASE AnnounceDecrease
  <2>1. /\ UNCHANGED <<events, applied, queue, old>> /\ step = "announce" /\ step' = "finish"
        /\ alerts' = IF Decrease(change) THEN Append(alerts, change) ELSE alerts
    BY <1>4, <1>10 DEF AnnounceDecrease
  <2> DEFINE n == Len(applied) - 1
  <2>2. /\ applied # <<>> /\ applied[Len(applied)] = change /\ Announced(n) /\ events = applied
        /\ applied \in Seq(Change)
    BY <1>4, <2>1 DEF FeedInvariant, TypeOK
  <2>3. n \in Nat /\ n + 1 = Len(applied) /\ applied[n + 1] = change
    BY <2>2
  <2> HIDE DEF n
  <2>4. n + 1 \in Falls(n + 1) <=> Decrease(change)
    <3>1. change.old \in Price \cup {Absent} /\ change.new \in Price
      BY <2>1, BusyJob DEF Change
    <3> QED BY <2>3, <3>1, PriceAssumption DEF Falls, Decrease
  <2>5. alerts' = IF n + 1 \in Falls(n + 1) THEN Append(alerts, applied[n + 1]) ELSE alerts
    BY <2>1, <2>3, <2>4
  <2>6. ASSUME NEW k \in Nat, k = n PROVE Announced(k + 1)'
    <3>1. k + 1 = Len(applied) /\ Announced(k) /\ applied' = applied
      BY <2>1, <2>2, <2>3, <2>6
    <3>2. alerts' = IF k + 1 \in Falls(k + 1) THEN Append(alerts, applied[k + 1]) ELSE alerts
      BY <2>5, <2>6
    <3> QED BY <3>1, <3>2, AnnouncedNext
  <2>7. applied' = applied /\ n' = n
    BY <2>1 DEF n
  <2>8. Announced(Len(applied))'
    BY <2>3, <2>6, <2>7
  <2>9. events' = applied' /\ step' = "finish"
    BY <2>1, <2>2
  <2> QED BY <2>8, <2>9 DEF FeedInvariant
<1> QED BY <1>6, <1>7, <1>8, <1>9, <1>10

LEMMA FeedExact == FeedInvariant => FeedIsExact
BY DEF FeedInvariant, FeedIsExact, Announced

\* Without a failure and a restart every change has its event, old price and
\* new, and exactly the decreases have their alerts (processPriceUpdate).
THEOREM FeedIsExactHolds == Spec => []FeedIsExact
<1>1. TypeOK /\ FeedInvariant /\ [Next]_vars => TypeOK' /\ FeedInvariant'
  BY TypeStep, FeedStep
<1> QED BY <1>1, FeedExact, TypeInit, FeedInit, PTL DEF Spec

-----------------------------------------------------------------------------
(* The price worker beside the sync.  To the stocks a step of the sync is  *)
(* a step of PriceFeed, a new job in the price queue, or nothing.          *)

\* What the sync does to the price worker besides the steps of PriceFeed.
Beside ==
  /\ UNCHANGED <<stocks, events, alerts, applied, worker>>
  /\ \/ \E s \in Symbol, p \in Price, n \in Nat :
          queue' = Append(queue, [symbol |-> s, price |-> p, day |-> n, stalls |-> 0])
     \/ UNCHANGED queue
  /\ updates' \in Nat /\ errors' \in Nat /\ restarts' \in Nat
  /\ errors' = 0 /\ restarts' = 0 => errors = 0 /\ restarts = 0

\* An added job is not the one in hand (enqueuePriceUpdate).
LEMMA BesideJob ==
  ASSUME TypeOK, Beside
  PROVE  /\ queue' \in Seq(Job)
         /\ step # "idle" => queue' # <<>> /\ symbol' = symbol /\ new' = new
<1>1. CASE UNCHANGED queue
  BY <1>1 DEF TypeOK, symbol, new
<1>2. ASSUME NEW s \in Symbol, NEW p \in Price, NEW n \in Nat,
             queue' = Append(queue, [symbol |-> s, price |-> p, day |-> n, stalls |-> 0])
      PROVE  /\ queue' \in Seq(Job)
             /\ step # "idle" => queue' # <<>> /\ symbol' = symbol /\ new' = new
  <2> DEFINE j == [symbol |-> s, price |-> p, day |-> n, stalls |-> 0]
  <2>1. queue' = Append(queue, j) /\ j \in Job /\ queue \in Seq(Job)
    BY <1>2, NewJob DEF TypeOK
  <2>2. queue # <<>> => queue' # <<>> /\ Head(queue') = Head(queue)
    <3> HIDE DEF j
    <3> QED BY <2>1
  <2>3. queue' \in Seq(Job)
    <3> HIDE DEF j
    <3> QED BY <2>1
  <2> QED BY <2>2, <2>3 DEF TypeOK, symbol, new
<1> QED BY <1>1, <1>2 DEF Beside

PriceInv ==
  TypeOK /\ LeastInvariant /\ AlertInvariant /\ RecordInvariant /\ FeedInvariant

\* The sync touches no stock, so that only the price worker's own steps count
\* (processPriceSync and processPriceUpdate).
LEMMA PriceStep ==
  ASSUME PriceInv, [Next]_vars \/ Beside
  PROVE  PriceInv'
<1>1. CASE [Next]_vars
  BY <1>1, TypeStep, LeastStep, AlertStep, RecordStep, FeedStep DEF PriceInv
<1>2. CASE Beside
  <2>1. /\ UNCHANGED <<current, least, newest, events, alerts, applied, step, old>>
        /\ updates' \in Nat /\ errors' \in Nat /\ restarts' \in Nat
    BY <1>2 DEF Beside, stocks, worker
  <2>2. queue' \in Seq(Job) /\ (step # "idle" => queue' # <<>> /\ symbol' = symbol /\ new' = new)
    BY <1>2, BesideJob DEF PriceInv
  <2>3. TypeOK'
    BY <2>1, <2>2 DEF PriceInv, TypeOK
  <2>4. LeastInvariant'
    BY <2>1 DEF PriceInv, LeastInvariant, SeededHasPrices, ChangesHavePrices, LeastIsLowest
  <2>5. AlertInvariant'
    BY <2>1, <2>2 DEF PriceInv, AlertInvariant, HandlerKnows, AlertsAreTrue, change
  <2>6. RecordInvariant'
    BY <2>1, <2>2, RecordKept DEF PriceInv
  <2>7. errors' = 0 /\ restarts' = 0 => errors = 0 /\ restarts = 0
    BY <1>2 DEF Beside
  <2>8. FeedInvariant'
    BY <2>1, <2>2, <2>7, FeedKept DEF PriceInv
  <2> QED BY <2>3, <2>4, <2>5, <2>6, <2>8 DEF PriceInv
<1> QED BY <1>1, <1>2

-----------------------------------------------------------------------------
(* The sync.                                                               *)

\* The handler of a job asks for consecutive days, the newest first, and has
\* found nothing on those it has asked for; what it takes is in the response.
SyncInv ==
  /\ today \in Day
  /\ published \subseteq Day /\ \A d \in published : d < today
  /\ complete \subseteq published
  /\ sync.at = "fetch" =>
       /\ sync.dates \in Seq(Int) /\ sync.dates # <<>>
       /\ \A i \in 1 .. Len(sync.dates) : sync.dates[i] = sync.dates[1] - (i - 1)
       /\ \A d \in complete, s \in sync.tracked : d > sync.dates[1] => bars[d][s] = Absent
  /\ sync.at = "enqueue" =>
       /\ sync.day \in published /\ sync.todo # {}
       /\ \A s \in sync.todo : bars[sync.day][s] # Absent
  /\ NoDayPassedOver

HandlerTypes ==
  /\ syncQueue \in Seq(SyncJob) /\ syncs \in 0 .. MaxSyncs
  /\ sync \in [at : {"idle", "fetch", "enqueue"}, tracked : SUBSET Symbol,
               dates : Seq(Int), day : Nat, todo : SUBSET Symbol]
  /\ sync.todo \subseteq sync.tracked
  /\ sync.at = "idle" => sync = AtRest
  /\ sync.at # "idle" => syncQueue # <<>>
  /\ sync.day # 0 => sync.at = "enqueue"

\* What a handler that is about to enqueue has in hand is one price of a stock.
LEMMA EnqueueIsBeside ==
  ASSUME PriceInv, SyncInv, HandlerTypes, EnqueueUpdate
  PROVE  Beside
<1>1. PICK s \in sync.todo :
        queue' = Append(queue, [symbol |-> s, price |-> bars[sync.day][s], day |-> sync.day,
                                stalls |-> 0])
  BY DEF EnqueueUpdate, Enqueue
<1>2. s \in Symbol /\ sync.day \in Day /\ sync.day \in Nat /\ bars[sync.day][s] # Absent
  BY <1>1 DEF EnqueueUpdate, SyncInv, HandlerTypes
<1>3. bars[sync.day][s] \in Price
  BY <1>2, MarketAssumption
<1>4. UNCHANGED <<stocks, events, alerts, applied, worker, updates, errors, restarts>>
  BY DEF EnqueueUpdate, spent
<1> QED BY <1>1, <1>2, <1>3, <1>4 DEF Beside, PriceInv, TypeOK

syncVars == <<vars, market, syncing>>

\* To the price worker every step is one of its own, a new job, or nothing.
LEMMA PricePart ==
  ASSUME PriceInv, SyncInv, HandlerTypes, [SyncNext]_syncVars
  PROVE  [Next]_vars \/ Beside
<1>1. CASE Schedule \/ BeginSync \/ Fetch \/ Midnight \/ SyncRest \/ UNCHANGED syncVars
  BY <1>1 DEF Schedule, BeginSync, Fetch, Midnight, SyncRest, syncVars
<1>2. CASE EnqueueUpdate
  BY <1>2, EnqueueIsBeside
<1>3. CASE SyncError
  BY <1>3 DEF SyncError, Error, Beside, PriceInv, TypeOK, worker, stocks
<1>4. CASE RestartSync
  BY <1>4 DEF RestartSync, Next
<1>5. ASSUME NEW d \in Day, Publish(d) PROVE [Next]_vars
  BY <1>5 DEF Publish
<1>6. ASSUME NEW s \in Symbol, NEW p \in quotes, Webhook(s, p) PROVE [Next]_vars
  BY <1>6, MarketAssumption DEF Webhook, Next
<1>7. CASE PriceWorker
  BY <1>7 DEF PriceWorker, Next
<1> QED BY <1>1, <1>2, <1>3, <1>4, <1>5, <1>6, <1>7 DEF SyncNext

\* A handler that ends is at rest, and its job is gone (the end of a job).
LEMMA EndTypes ==
  ASSUME SyncInv, HandlerTypes, NEW q \in Seq(SyncJob), q # <<>>, EndSync(q),
         UNCHANGED <<market, syncs>>
  PROVE  SyncInv' /\ HandlerTypes'
<1>1. /\ sync' = AtRest /\ complete' = {} /\ syncQueue' = Tail(q)
      /\ today' = today /\ published' = published /\ syncs' = syncs
  BY DEF EndSync, market
<1>2. syncQueue' \in Seq(SyncJob)
  BY <1>1, HeadTailProperties
<1>3. SyncInv'
  BY <1>1 DEF SyncInv, AtRest, NoDayPassedOver
<1>4. HandlerTypes'
  BY <1>1, <1>2 DEF HandlerTypes, AtRest
<1> QED BY <1>3, <1>4

\* The look-back starts at yesterday, before which everything has been
\* published that has been (getLookbackDates).
LEMMA LookbackDates ==
  ASSUME NEW now \in Nat
  PROVE  LET dates == getLookbackDates(now)
         IN  /\ dates \in Seq(Int) /\ dates # <<>> /\ Len(dates) = lookbackDays
             /\ \A i \in 1 .. Len(dates) : dates[i] = dates[1] - (i - 1)
             /\ dates[1] = now - 1
<1> DEFINE dates == getLookbackDates(now)
<1>1. lookbackDays \in Nat \ {0}
  BY MarketAssumption
<1>2. dates = [offset \in 1 .. lookbackDays |-> now - offset]
  BY DEF getLookbackDates
<1>3. dates \in [1 .. lookbackDays -> Int]
  BY <1>1, <1>2
<1>4. dates \in Seq(Int) /\ Len(dates) = lookbackDays
  <2> HIDE DEF dates
  <2> QED BY <1>1, <1>3
<1>5. \A i \in 1 .. lookbackDays : dates[i] = now - i
  BY <1>1, <1>2
<1> HIDE DEF dates
<1>6. dates[1] = now - 1 /\ dates # <<>>
  BY <1>1, <1>4, <1>5
<1>7. \A i \in 1 .. Len(dates) : dates[i] = dates[1] - (i - 1)
  BY <1>1, <1>4, <1>5, <1>6
<1> QED BY <1>4, <1>6, <1>7 DEF dates

\* What may happen beside the handler leaves it as it is (days and requests).
LEMMA OutsideStep ==
  ASSUME SyncInv, HandlerTypes, UNCHANGED syncing,
         today' \in Day /\ today' >= today,
         published \subseteq published' /\ published' \subseteq Day,
         \A d \in published' : d < today'
  PROVE  SyncInv' /\ HandlerTypes'
<1>1. syncQueue' = syncQueue /\ sync' = sync /\ syncs' = syncs /\ complete' = complete
  BY DEF syncing
<1>2. SyncInv'
  BY <1>1 DEF SyncInv, NoDayPassedOver
<1>3. HandlerTypes'
  BY <1>1 DEF HandlerTypes
<1> QED BY <1>2, <1>3

\* What is left of the days when the first has been asked for.
LEMMA RestOfDates ==
  ASSUME NEW q \in Seq(Int), Len(q) > 1
  PROVE  /\ Tail(q) \in Seq(Int) /\ Len(Tail(q)) = Len(q) - 1 /\ Tail(q) # <<>>
         /\ \A i \in 1 .. Len(Tail(q)) : Tail(q)[i] = q[i + 1]
<1>1. q # <<>> /\ Tail(q) \in Seq(Int) /\ Len(q) \in Nat
  OBVIOUS
<1>2. Len(Tail(q)) = Len(q) - 1
  BY <1>1
<1>3. \A i \in 1 .. Len(Tail(q)) : Tail(q)[i] = q[i + 1]
  BY <1>1, <1>2
<1>4. Tail(q) # <<>>
  <2> SUFFICES ASSUME Tail(q) = <<>> PROVE FALSE
    OBVIOUS
  <2>1. Len(<<>>) = 0
    OBVIOUS
  <2>2. Len(Tail(q)) = 0
    BY <2>1
  <2> QED BY <2>2, <1>1, <1>2
<1> QED BY <1>1, <1>2, <1>3, <1>4

\* The next request is for the day before, after one without an update
\* (syncTrackedSymbols).
LEMMA FetchStep ==
  ASSUME SyncInv, HandlerTypes, Fetch
  PROVE  SyncInv' /\ HandlerTypes'
<1> DEFINE dates == sync.dates
           d == Head(dates)
           found == Updates(d, sync.tracked)
<1>1. /\ dates \in Seq(Int) /\ dates # <<>> /\ d = dates[1] /\ d \in Int
      /\ \A i \in 1 .. Len(dates) : dates[i] = dates[1] - (i - 1)
      /\ \A e \in complete, s \in sync.tracked : e > dates[1] => bars[e][s] = Absent
  BY DEF Fetch, SyncInv
<1>2. today' = today /\ published' = published /\ syncs' = syncs
  BY DEF Fetch, market
<1>3. /\ found \subseteq sync.tracked /\ (d \notin published => found = {})
      /\ \A s \in sync.tracked : s \in Symbol
      /\ \A s \in Symbol : s \in found <=> d \in published /\ bars[d][s] # Absent /\ s \in sync.tracked
  BY DEF Updates, Response, HandlerTypes
<1>4. CASE found # {}
  <2>1. sync' = [sync EXCEPT !.at = "enqueue", !.day = d, !.todo = found]
        /\ syncQueue' = syncQueue /\ complete' = complete
    BY <1>4 DEF Fetch
  <2> HIDE DEF d, found, dates
  <2>2. d \in published /\ d \in Nat
    <3>1. d \in published
      BY <1>3, <1>4
    <3>2. d \in Day
      BY <3>1 DEF SyncInv
    <3> QED BY <3>1, <3>2, MarketAssumption DEF Day
  <2>3. sync'.at = "enqueue" /\ sync'.day = d /\ sync'.todo = found /\ sync'.tracked = sync.tracked
    BY <2>1 DEF HandlerTypes
  <2>4. SyncInv'
    <3>1. NoDayPassedOver'
      BY <2>1, <2>3, <1>1 DEF NoDayPassedOver
    <3> QED BY <3>1, <2>1, <2>2, <2>3, <1>2, <1>3, <1>4 DEF SyncInv, HandlerTypes
  <2>5. HandlerTypes'
    BY <2>1, <2>2, <2>3, <1>2, <1>3 DEF HandlerTypes, Fetch
  <2> QED BY <2>4, <2>5
<1>5. CASE found = {} /\ Len(dates) > 1
  <2>1. sync' = [sync EXCEPT !.dates = Tail(dates)] /\ syncQueue' = syncQueue /\ complete' = complete
    BY <1>5 DEF Fetch
  <2> HIDE DEF d, found, dates
  <2>2. /\ Tail(dates) \in Seq(Int) /\ Len(Tail(dates)) = Len(dates) - 1 /\ Tail(dates) # <<>>
        /\ \A i \in 1 .. Len(Tail(dates)) : Tail(dates)[i] = dates[i + 1]
    BY <1>1, <1>5, RestOfDates
  <2>3. Tail(dates)[1] = d - 1
    BY <2>2, <1>1, <1>5
  <2>4. \A i \in 1 .. Len(Tail(dates)) : Tail(dates)[i] = Tail(dates)[1] - (i - 1)
    BY <2>2, <2>3, <1>1
  <2>5. \A e \in complete, s \in sync.tracked : e > Tail(dates)[1] => bars[e][s] = Absent
    <3> TAKE e \in complete, s \in sync.tracked
    <3>1. e \in published /\ e \in Nat
      <4>1. e \in published /\ e \in Day
        BY DEF SyncInv
      <4> QED BY <4>1, MarketAssumption DEF Day
    <3>2. e > Tail(dates)[1] => e > dates[1] \/ e = d
      <4> DEFINE first == Tail(dates)[1]
      <4>1. first = d - 1 /\ d \in Int /\ dates[1] = d
        BY <2>3, <1>1
      <4> HIDE DEF first
      <4>2. e > first => e > d \/ e = d
        BY <3>1, <4>1
      <4> QED BY <4>1, <4>2 DEF first
    <3>3. e = d => bars[e][s] = Absent
      BY <3>1, <1>3, <1>5
    <3> QED BY <3>2, <3>3, <1>1
  <2>6. sync'.at = "fetch" /\ sync'.dates = Tail(dates) /\ sync'.tracked = sync.tracked
        /\ sync'.day = sync.day /\ sync'.todo = sync.todo
    BY <2>1 DEF HandlerTypes, Fetch
  <2>7. SyncInv'
    BY <2>1, <2>2, <2>4, <2>5, <2>6, <1>2 DEF SyncInv, NoDayPassedOver
  <2>8. HandlerTypes'
    BY <2>1, <2>2, <2>6, <1>2 DEF HandlerTypes, Fetch
  <2> QED BY <2>7, <2>8
<1>6. CASE found = {} /\ ~(Len(dates) > 1)
  <2>1. EndSync(syncQueue) /\ syncQueue # <<>> /\ syncQueue \in Seq(SyncJob)
    BY <1>6 DEF Fetch, HandlerTypes
  <2> QED BY <2>1, EndTypes DEF Fetch
<1> QED BY <1>4, <1>5, <1>6

\* A stalled sync job is run again or given up (BullMQ).
LEMMA RestallSyncType ==
  ASSUME NEW q \in Seq(SyncJob), q # <<>>
  PROVE  Restall(q) \in Seq(SyncJob)
<1> DEFINE j == [Head(q) EXCEPT !.stalls = @ + 1]
<1>1. Head(q) \in SyncJob /\ Tail(q) \in Seq(SyncJob) /\ Head(q) = q[1] /\ 1 \in DOMAIN q
  BY HeadTailProperties
<1>2. j \in SyncJob /\ [q EXCEPT ![1].stalls = @ + 1] = [q EXCEPT ![1] = j]
  BY <1>1 DEF SyncJob
<1>3. [q EXCEPT ![1] = j] \in Seq(SyncJob)
  <2> HIDE DEF j
  <2> QED BY <1>1, <1>2, ExceptSeq
<1> QED BY <1>1, <1>2, <1>3 DEF Restall

\* Every step of the days, of Polygon, of the handler and of the restart keeps
\* what the handler relies on (processPriceSync, onModuleInit).
LEMMA SyncStep ==
  ASSUME PriceInv, SyncInv, HandlerTypes, [SyncNext]_syncVars
  PROVE  SyncInv' /\ HandlerTypes'
<1>1. CASE Schedule
  <2>0. [stalls |-> 0] \in SyncJob
    BY DEF SyncJob
  <2>1. syncs' \in 0 .. MaxSyncs /\ syncQueue' \in Seq(SyncJob) /\ syncQueue' # <<>>
    <3>1. syncs' \in 0 .. MaxSyncs
      BY <1>1, MarketAssumption DEF Schedule, HandlerTypes
    <3> QED BY <1>1, <2>0, <3>1, AppendProperties DEF Schedule, HandlerTypes
  <2>2. sync' = sync /\ complete' = complete /\ today' = today /\ published' = published
    BY <1>1 DEF Schedule, market
  <2> QED BY <2>1, <2>2 DEF SyncInv, HandlerTypes, NoDayPassedOver
<1>2. CASE BeginSync
  <2>0. PICK k \in Startable(syncQueue) :
          IF getTrackedSymbols = {} THEN EndSync(Start(syncQueue, k))
          ELSE /\ sync' = [AtRest EXCEPT !.at = "fetch", !.tracked = getTrackedSymbols,
                                         !.dates = getLookbackDates(today)]
               /\ complete' = published /\ syncQueue' = Start(syncQueue, k)
    BY <1>2 DEF BeginSync
  <2> DEFINE q == Start(syncQueue, k)
  <2>3. q \in Seq(SyncJob) /\ q # <<>>
    BY StartType DEF HandlerTypes
  <2> HIDE DEF q
  <2>1. CASE getTrackedSymbols = {}
    <3>1. EndSync(q) /\ UNCHANGED <<market, syncs>>
      BY <1>2, <2>0, <2>1 DEF BeginSync, q
    <3> QED BY <2>3, <3>1, EndTypes
  <2>2. CASE getTrackedSymbols # {}
    <3> DEFINE dates == getLookbackDates(today)
    <3>1. /\ sync' = [AtRest EXCEPT !.at = "fetch", !.tracked = getTrackedSymbols, !.dates = dates]
          /\ complete' = published /\ syncQueue' = q
          /\ today' = today /\ published' = published /\ syncs' = syncs
      BY <1>2, <2>0, <2>2 DEF BeginSync, market, q
    <3>2. today \in Nat
      BY MarketAssumption DEF SyncInv, Day
    <3>3. /\ dates \in Seq(Int) /\ dates # <<>> /\ dates[1] = today - 1
          /\ \A i \in 1 .. Len(dates) : dates[i] = dates[1] - (i - 1)
      BY <3>2, LookbackDates
    <3> HIDE DEF dates
    <3>4. \A d \in published : ~(d > dates[1])
      BY <3>2, <3>3, MarketAssumption DEF SyncInv, Day
    <3>5. SyncInv'
      BY <3>1, <3>3, <3>4 DEF SyncInv, AtRest, NoDayPassedOver
    <3>6. HandlerTypes'
      BY <2>3, <3>1, <3>3 DEF HandlerTypes, AtRest, getTrackedSymbols
    <3> QED BY <3>5, <3>6
  <2> QED BY <2>1, <2>2
<1>3. CASE Fetch
  BY <1>3, FetchStep
<1>4. CASE EnqueueUpdate
  <2>1. PICK s \in sync.todo :
          IF sync.todo = {s} THEN EndSync(syncQueue)
          ELSE sync' = [sync EXCEPT !.todo = @ \ {s}] /\ UNCHANGED <<syncQueue, complete>>
    BY <1>4 DEF EnqueueUpdate
  <2>2. CASE sync.todo = {s}
    BY <1>4, <2>1, <2>2, EndTypes DEF EnqueueUpdate, HandlerTypes
  <2>3. CASE sync.todo # {s}
    <3>1. /\ sync' = [sync EXCEPT !.todo = @ \ {s}] /\ syncQueue' = syncQueue
          /\ complete' = complete /\ today' = today /\ published' = published /\ syncs' = syncs
      BY <1>4, <2>1, <2>3 DEF EnqueueUpdate, market
    <3>2. /\ sync'.at = "enqueue" /\ sync'.day = sync.day /\ sync'.todo = sync.todo \ {s}
          /\ sync'.tracked = sync.tracked
      BY <1>4, <3>1 DEF EnqueueUpdate, HandlerTypes
    <3>3. SyncInv'
      BY <1>4, <2>3, <3>1, <3>2 DEF SyncInv, EnqueueUpdate, NoDayPassedOver
    <3>4. HandlerTypes'
      BY <1>4, <3>1, <3>2 DEF HandlerTypes, EnqueueUpdate
    <3> QED BY <3>3, <3>4
  <2> QED BY <2>2, <2>3
<1>5. CASE SyncError
  BY <1>5, EndTypes DEF SyncError, HandlerTypes
<1>6. CASE RestartSync
  <2>1. /\ sync' = AtRest /\ complete' = {} /\ today' = today /\ published' = published
        /\ syncs' = syncs
    BY <1>6 DEF RestartSync, market
  <2>2. syncQueue' \in Seq(SyncJob)
    <3>1. CASE sync.at = "idle"
      BY <1>6, <3>1 DEF RestartSync, HandlerTypes
    <3>2. CASE sync.at # "idle"
      BY <1>6, <3>2, RestallSyncType DEF RestartSync, HandlerTypes
    <3> QED BY <3>1, <3>2
  <2> QED BY <2>1, <2>2 DEF SyncInv, HandlerTypes, AtRest, NoDayPassedOver
<1>7. CASE Midnight
  <2>1. today' = today + 1 /\ today < LastDay /\ today \in Day /\ published' = published
    BY <1>7 DEF Midnight, SyncInv
  <2>2. today' \in Day /\ today' >= today /\ \A d \in published : d < today'
    BY <2>1, MarketAssumption DEF SyncInv, Day
  <2> QED BY <1>7, <2>1, <2>2, OutsideStep DEF Midnight, SyncInv
<1>8. ASSUME NEW d \in Day, Publish(d) PROVE SyncInv' /\ HandlerTypes'
  <2>1. today' = today /\ today \in Day /\ published' = published \cup {d} /\ d < today
        /\ UNCHANGED syncing
    BY <1>8 DEF Publish, SyncInv
  <2>2. today' >= today
    BY <2>1, MarketAssumption DEF Day
  <2> QED BY <1>8, <2>1, <2>2, OutsideStep DEF SyncInv
<1>9. ASSUME UNCHANGED market, UNCHANGED syncing PROVE SyncInv' /\ HandlerTypes'
  BY <1>9 DEF SyncInv, HandlerTypes, market, syncing, NoDayPassedOver
<1>10. CASE PriceWorker \/ SyncRest \/ UNCHANGED syncVars
       \/ \E s \in Symbol, p \in quotes : Webhook(s, p)
  BY <1>9, <1>10 DEF PriceWorker, SyncRest, syncVars, Webhook
<1> QED BY <1>1, <1>2, <1>3, <1>4, <1>5, <1>6, <1>7, <1>8, <1>10 DEF SyncNext

\* The service starts with the seeded stocks and no job (onModuleInit).
LEMMA SyncStart == SyncInit => PriceInv /\ SyncInv /\ HandlerTypes
<1> SUFFICES ASSUME SyncInit PROVE PriceInv /\ SyncInv /\ HandlerTypes
  OBVIOUS
<1>1. PriceInv
  BY TypeInit, LeastInit, AlertInit, RecordInit, FeedInit DEF PriceInv, SyncInit
<1>2. published \subseteq Day /\ \A d \in published : d < today
  BY MarketAssumption DEF SyncInit, Day
<1>3. SyncInv
  BY <1>2, MarketAssumption DEF SyncInit, SyncInv, AtRest, NoDayPassedOver
<1>4. HandlerTypes
  BY BoundAssumption, MarketAssumption DEF SyncInit, HandlerTypes, AtRest
<1> QED BY <1>1, <1>3, <1>4

\* What the worker and the handler rely on holds in every reachable state.
LEMMA SyncInvariance == SyncSpec => [](PriceInv /\ SyncInv /\ HandlerTypes)
<1>1. PriceInv /\ SyncInv /\ HandlerTypes /\ [SyncNext]_<<vars, market, syncing>>
        => (PriceInv /\ SyncInv /\ HandlerTypes)'
  BY PricePart, PriceStep, SyncStep DEF syncVars
<1> QED BY <1>1, SyncStart, PTL DEF SyncSpec

\* Every variable has its type, and a busy handler has something to do
\* (processPriceSync).
THEOREM SyncTypeCorrect == SyncSpec => []SyncTypeOK
<1>1. PriceInv /\ SyncInv /\ HandlerTypes => SyncTypeOK
  <2> SUFFICES ASSUME PriceInv, SyncInv, HandlerTypes PROVE SyncTypeOK
    OBVIOUS
  <2>1. sync = AtRest => sync.at = "idle"
    BY DEF AtRest
  <2> QED BY <2>1 DEF SyncTypeOK, PriceInv, SyncInv, HandlerTypes
<1> QED BY <1>1, SyncInvariance, PTL

\* leastPrice is the lowest price of a seeded stock with the sync as a second
\* source of updates, too (upsertPrice, processPriceSync).
THEOREM SyncLeastIsLowest == SyncSpec => []LeastIsLowest
<1>1. PriceInv => LeastIsLowest
  BY DEF PriceInv, LeastInvariant
<1> QED BY <1>1, SyncInvariance, PTL

\* No false decrease is announced with the sync as a second source of updates
\* (publishPriceDecreaseNotification, processPriceSync).
THEOREM SyncAlertsAreTrue == SyncSpec => []AlertsAreTrue
<1>1. PriceInv => AlertsAreTrue
  BY DEF PriceInv, AlertInvariant
<1> QED BY <1>1, SyncInvariance, PTL

\* Two sources of updates share one queue and one worker, and jobs run twice:
\* every change still has a price event of its own (processPriceSync,
\* processPriceUpdate).
THEOREM SyncAppliedIsRecorded == SyncSpec => []AppliedIsRecorded
<1>1. PriceInv => AppliedIsRecorded
  BY Recorded DEF PriceInv
<1> QED BY <1>1, SyncInvariance, PTL

\* Without failures, events and alerts are exactly the changes and the
\* decreases, whichever source they come from.
THEOREM SyncFeedIsExact == SyncSpec => []FeedIsExact
<1>1. PriceInv => FeedIsExact
  BY FeedExact DEF PriceInv
<1> QED BY <1>1, SyncInvariance, PTL

\* No job passes over a market day that had been published when it began
\* (syncTrackedSymbols).
THEOREM NoDayPassedOverHolds == SyncSpec => []NoDayPassedOver
<1>1. SyncInv => NoDayPassedOver
  BY DEF SyncInv
<1> QED BY <1>1, SyncInvariance, PTL

-----------------------------------------------------------------------------
(* The two endpoints of the provider.                                      *)

\* The greatest element of a set is the one that Max chooses.
LEMMA MaxIs ==
  ASSUME NEW S \in SUBSET Int, NEW m \in S, \A x \in S : m >= x
  PROVE  Max(S) = m
<1>1. \A n \in S : (\A x \in S : n >= x) => n = m
  OBVIOUS
<1> QED BY <1>1 DEF Max

\* The range of days of the one request holds the days of the other's loop.
LEMMA SameDays ==
  ASSUME NEW now \in Nat
  PROVE  LET dates == getLookbackDates(now)
         IN  Range(dates) = dates[lookbackDays] .. dates[1]
<1> DEFINE dates == getLookbackDates(now)
<1>1. lookbackDays \in Nat \ {0}
  BY MarketAssumption
<1>2. DOMAIN dates = 1 .. lookbackDays /\ \A i \in 1 .. lookbackDays : dates[i] = now - i
  BY <1>1 DEF getLookbackDates
<1> HIDE DEF dates
<1>3. dates[1] = now - 1 /\ dates[lookbackDays] = now - lookbackDays
  BY <1>1, <1>2
<1>4. Range(dates) = {now - i : i \in 1 .. lookbackDays}
  BY <1>2 DEF Range
<1>5. ASSUME NEW d \in (now - lookbackDays) .. (now - 1)
      PROVE  d \in {now - i : i \in 1 .. lookbackDays}
  <2>1. now - d \in 1 .. lookbackDays /\ d = now - (now - d)
    BY <1>1
  <2> QED BY <2>1
<1>6. {now - i : i \in 1 .. lookbackDays} \subseteq (now - lookbackDays) .. (now - 1)
  BY <1>1
<1> QED BY <1>3, <1>4, <1>5, <1>6 DEF dates

\* The request for one stock gives the price that the loop over the days has
\* found, as long as Polygon publishes nothing new (getCurrentPrice and
\* syncTrackedSymbols).
THEOREM EndpointsAgreeHolds == SyncSpec => []EndpointsAgree
<1>1. ASSUME SyncInv, HandlerTypes, sync.at = "enqueue", published = complete,
             sync.day \in Range(getLookbackDates(today)), NEW s \in sync.todo
      PROVE  getCurrentPrice(s) = bars[sync.day][s]
  <2> DEFINE dates == getLookbackDates(today)
             D == {d \in Range(dates) : s \in Response(d)}
  <2>1. today \in Nat /\ Day \subseteq Int
    BY <1>1, MarketAssumption DEF SyncInv, Day
  <2>2. getCurrentPrice(s) = IF D = {} THEN Absent ELSE bars[Max(D)][s]
    <3>1. Range(dates) = dates[lookbackDays] .. dates[1]
      BY <2>1, SameDays
    <3> QED BY <3>1 DEF getCurrentPrice, LatestBar
  <2>3. s \in Symbol /\ s \in sync.tracked /\ sync.day \in published
        /\ bars[sync.day][s] # Absent
    BY <1>1 DEF SyncInv, HandlerTypes
  <2>4. sync.day \in D
    BY <1>1, <2>3 DEF Response
  <2>5. \A d \in D : d \in complete /\ d \in Int /\ bars[d][s] # Absent
    BY <1>1, <2>1 DEF Response, SyncInv
  <2>6. \A d \in D : ~(d > sync.day)
    BY <1>1, <2>3, <2>5 DEF SyncInv, NoDayPassedOver
  <2> HIDE DEF D, dates
  <2>7. D \in SUBSET Int /\ \A d \in D : sync.day >= d
    BY <2>4, <2>5, <2>6
  <2>8. Max(D) = sync.day
    BY <2>4, <2>7, MaxIs
  <2> QED BY <2>2, <2>4, <2>8
<1>2. SyncInv /\ HandlerTypes => EndpointsAgree
  BY <1>1 DEF EndpointsAgree
<1> QED BY <1>2, SyncInvariance, PTL

-----------------------------------------------------------------------------
(* The order of the market days.  A stalled job may start behind jobs that *)
(* were added after it, so that the order is one of the jobs that have not *)
(* stalled, each against all that were added before it.                    *)

\* The days of a stock that have come out of the sync.
DaysOf(s) ==
  {queue[i].day : i \in {j \in DOMAIN queue : queue[j].symbol = s}} \cup {newest[s]}

\* No job that has not stalled is of an earlier day than a job before it, or
\* than a price that its stock has had.
QueueInOrder ==
  \A i, j \in DOMAIN queue :
    i < j /\ queue[i].symbol = queue[j].symbol /\ queue[j].day # 0 /\ queue[j].stalls = 0
      => queue[i].day <= queue[j].day
NewestBelowQueue ==
  \A j \in DOMAIN queue :
    queue[j].day # 0 /\ queue[j].stalls = 0 => newest[queue[j].symbol] <= queue[j].day

DaysRise == QueueInOrder /\ NewestBelowQueue

\* A job that begins finds only days that had been published, and what it
\* takes of a stock is of no earlier day than what was taken before.
DaysKnown ==
  \A s \in Symbol :
    /\ DaysOf(s) \subseteq {0} \cup published
    /\ \A d \in DaysOf(s) : d # 0 => bars[d][s] # Absent
    /\ sync.at = "fetch" => DaysOf(s) \subseteq {0} \cup complete
    /\ sync.at = "enqueue" /\ s \in sync.todo => \A d \in DaysOf(s) : d <= sync.day

\* A job that is added behind the others does not go back (enqueuePriceUpdate).
LEMMA AddedJob ==
  ASSUME TypeOK, DaysRise, NEW s \in Symbol, NEW p \in Price, NEW m \in Nat,
         queue' = Append(queue, [symbol |-> s, price |-> p, day |-> m, stalls |-> 0]),
         newest' = newest,
         m # 0 => \A d \in DaysOf(s) : d <= m
  PROVE  /\ DaysRise'
         /\ DaysOf(s)' \subseteq DaysOf(s) \cup {m}
         /\ \A t \in Symbol : t # s => DaysOf(t)' \subseteq DaysOf(t)
<1> DEFINE j == [symbol |-> s, price |-> p, day |-> m, stalls |-> 0]
<1>0. PICK n : n = Len(queue) + 1
  OBVIOUS
<1>1. queue' = Append(queue, j) /\ j \in Job /\ queue \in Seq(Job)
      /\ j.symbol = s /\ j.day = m
  BY NewJob DEF TypeOK
<1> HIDE DEF j
<1>2. /\ DOMAIN queue' = DOMAIN queue \cup {n} /\ n \notin DOMAIN queue
      /\ queue'[n] = j
      /\ \A i \in DOMAIN queue : queue'[i] = queue[i] /\ i < n /\ i \in Nat
  BY <1>0, <1>1
<1>3. queue'[n].symbol = s /\ queue'[n].day = m
  BY <1>1, <1>2
<1>4. \A i \in DOMAIN queue : queue[i].symbol = s => queue[i].day \in DaysOf(s)
  BY DEF DaysOf
<1>5. newest[s] \in DaysOf(s)
  BY DEF DaysOf
<1>6. QueueInOrder'
  <2> SUFFICES ASSUME NEW i \in DOMAIN queue', NEW k \in DOMAIN queue', i < k,
                      queue'[i].symbol = queue'[k].symbol, queue'[k].day # 0,
                      queue'[k].stalls = 0
               PROVE  queue'[i].day <= queue'[k].day
    BY DEF QueueInOrder
  <2>1. CASE k \in DOMAIN queue
    <3>1. i # n
      BY <2>1, <1>2
    <3> QED BY <2>1, <3>1, <1>2 DEF DaysRise, QueueInOrder
  <2>2. CASE k = n
    <3>1. i \in DOMAIN queue
      BY <2>2, <1>2
    <3> QED BY <2>2, <3>1, <1>2, <1>3, <1>4
  <2> QED BY <2>1, <2>2, <1>2
<1>7. NewestBelowQueue'
  <2> SUFFICES ASSUME NEW k \in DOMAIN queue', queue'[k].day # 0, queue'[k].stalls = 0
               PROVE  newest[queue'[k].symbol] <= queue'[k].day
    BY DEF NewestBelowQueue
  <2>1. CASE k \in DOMAIN queue
    BY <2>1, <1>2 DEF DaysRise, NewestBelowQueue
  <2>2. CASE k = n
    BY <2>2, <1>3, <1>5
  <2> QED BY <2>1, <2>2, <1>2
<1>8. DaysOf(s)' \subseteq DaysOf(s) \cup {m}
  BY <1>2, <1>3 DEF DaysOf
<1>9. \A t \in Symbol : t # s => DaysOf(t)' \subseteq DaysOf(t)
  BY <1>2, <1>3 DEF DaysOf
<1> QED BY <1>6, <1>7, <1>8, <1>9 DEF DaysRise

\* Nor does a queue of the same jobs or fewer, f telling where each was, in
\* which no job that has not stalled has moved before another.
LEMMA MovedJobs ==
  ASSUME DaysRise, newest' = newest, NEW f,
         \A i \in DOMAIN queue' :
           /\ f[i] \in DOMAIN queue
           /\ queue'[i].symbol = queue[f[i]].symbol /\ queue'[i].day = queue[f[i]].day
           /\ queue'[i].stalls = 0 => queue[f[i]].stalls = 0,
         \A i, j \in DOMAIN queue' : i < j /\ queue'[j].stalls = 0 => f[i] < f[j]
  PROVE  DaysRise' /\ \A t \in Symbol : DaysOf(t)' \subseteq DaysOf(t)
<1>1. QueueInOrder'
  BY DEF DaysRise, QueueInOrder
<1>2. NewestBelowQueue'
  BY DEF DaysRise, NewestBelowQueue
<1>3. \A t \in Symbol : DaysOf(t)' \subseteq DaysOf(t)
  BY DEF DaysOf
<1> QED BY <1>1, <1>2, <1>3 DEF DaysRise

\* A price that is applied is that of the first job (upsertPrice).
LEMMA HeadApplied ==
  ASSUME TypeOK, DaysRise, UpsertPrice
  PROVE  DaysRise' /\ \A t \in Symbol : DaysOf(t)' \subseteq DaysOf(t)
<1>1. /\ queue' = queue /\ queue \in Seq(Job) /\ 1 \in DOMAIN queue /\ Head(queue) = queue[1]
      /\ newest \in [Symbol -> Nat] /\ symbol \in Symbol /\ day \in Nat
      /\ newest' = [newest EXCEPT ![symbol] = IF @ < day THEN day ELSE @]
  <2>1. queue # <<>> /\ queue \in Seq(Job)
    BY BusyJob DEF UpsertPrice, TypeOK
  <2>2. Head(queue) = queue[1] /\ 1 \in DOMAIN queue
    BY <2>1
  <2> QED BY <2>1, <2>2, BusyJob DEF UpsertPrice, TypeOK
<1>2. symbol = queue[1].symbol /\ day = queue[1].day
  BY <1>1 DEF symbol, day
<1>3. \A t \in Symbol :
        newest'[t] = IF t = symbol /\ newest[t] < day THEN day ELSE newest[t]
  BY <1>1
<1>4. \A i \in DOMAIN queue :
        queue[i].symbol \in Symbol /\ queue[i].day \in Nat /\ (i = 1 \/ 1 < i)
  <2>1. \A i \in DOMAIN queue : queue[i] \in Job /\ (i = 1 \/ 1 < i)
    BY <1>1
  <2> QED BY <2>1 DEF Job
<1>5. QueueInOrder'
  BY <1>1 DEF DaysRise, QueueInOrder
<1>6. NewestBelowQueue'
  <2> SUFFICES ASSUME NEW k \in DOMAIN queue, queue[k].day # 0, queue[k].stalls = 0
               PROVE  newest'[queue[k].symbol] <= queue[k].day
    BY <1>1 DEF NewestBelowQueue
  <2>1. newest[queue[k].symbol] <= queue[k].day
    BY DEF DaysRise, NewestBelowQueue
  <2>2. queue[k].symbol = symbol => day <= queue[k].day
    BY <1>1, <1>2, <1>4 DEF DaysRise, QueueInOrder
  <2> QED BY <2>1, <2>2, <1>3, <1>4
<1>7. \A t \in Symbol : DaysOf(t)' \subseteq DaysOf(t)
  BY <1>1, <1>2, <1>3 DEF DaysOf
<1> QED BY <1>5, <1>6, <1>7 DEF DaysRise

\* A handler that ends, or goes on as before, knows what it has known.
LEMMA KnownKept ==
  ASSUME DaysKnown, SyncInv, HandlerTypes, published \subseteq published',
         \A t \in Symbol : DaysOf(t)' \subseteq DaysOf(t) \cup {0},
         sync'.at = "idle" \/ (sync' = sync /\ complete' = complete)
  PROVE  DaysKnown'
<1> SUFFICES ASSUME NEW t \in Symbol
             PROVE  /\ DaysOf(t)' \subseteq {0} \cup published'
                    /\ \A d \in DaysOf(t)' : d # 0 => bars[d][t] # Absent
                    /\ sync'.at = "fetch" => DaysOf(t)' \subseteq {0} \cup complete'
                    /\ sync'.at = "enqueue" /\ t \in sync'.todo =>
                         \A d \in DaysOf(t)' : d <= sync'.day
  BY DEF DaysKnown
<1>1. sync.day \in Nat
  BY DEF HandlerTypes
<1>2. sync'.at = "enqueue" /\ t \in sync'.todo => \A d \in DaysOf(t)' : d <= sync'.day
  BY <1>1 DEF DaysKnown
<1> QED BY <1>2 DEF DaysKnown

\* What leaves the prices alone leaves the days alone.
LEMMA SameJobs ==
  ASSUME DaysRise, queue' = queue, newest' = newest
  PROVE  DaysRise' /\ \A t \in Symbol : DaysOf(t)' \subseteq DaysOf(t)
BY DEF DaysRise, QueueInOrder, NewestBelowQueue, DaysOf

\* A job that has ended is the first of the queue (registerWorkers).
LEMMA EndedJob ==
  ASSUME TypeOK, DaysRise, step # "idle", queue' = Tail(queue), newest' = newest
  PROVE  DaysRise' /\ \A t \in Symbol : DaysOf(t)' \subseteq DaysOf(t)
<1> DEFINE f == [i \in DOMAIN queue' |-> i + 1]
<1>1. queue # <<>> /\ queue \in Seq(Job)
  BY DEF TypeOK
<1>2. \A i \in DOMAIN queue' :
        i \in Nat /\ i + 1 \in DOMAIN queue /\ queue'[i] = queue[i + 1]
  BY <1>1
<1>3. \A i \in DOMAIN queue' :
        f[i] = i + 1 /\ f[i] \in DOMAIN queue /\ queue'[i] = queue[f[i]] /\ i \in Nat
  BY <1>2
<1> HIDE DEF f
<1>4. \A i, j \in DOMAIN queue' : i < j => f[i] < f[j]
  BY <1>3
<1>5. \A i \in DOMAIN queue' :
        /\ f[i] \in DOMAIN queue
        /\ queue'[i].symbol = queue[f[i]].symbol /\ queue'[i].day = queue[f[i]].day
        /\ queue'[i].stalls = 0 => queue[f[i]].stalls = 0
  BY <1>3
<1> QED BY <1>4, <1>5, MovedJobs

\* A job that has stalled counts no more (BullMQ).
LEMMA RestalledJob ==
  ASSUME TypeOK, DaysRise, step # "idle", queue' = Restall(queue), newest' = newest
  PROVE  DaysRise' /\ \A t \in Symbol : DaysOf(t)' \subseteq DaysOf(t)
<1>1. CASE Head(queue).stalls < MaxStalls
  <2> DEFINE f == [i \in DOMAIN queue' |-> i]
  <2>1. queue # <<>> /\ queue \in Seq(Job) /\ queue' = [queue EXCEPT ![1].stalls = @ + 1]
    BY <1>1 DEF TypeOK, Restall
  <2>2. DOMAIN queue' = DOMAIN queue /\ \A i \in DOMAIN queue : i \in Nat /\ queue[i] \in Job
    BY <2>1
  <2>3. \A i \in DOMAIN queue :
          /\ queue'[i].symbol = queue[i].symbol /\ queue'[i].day = queue[i].day
          /\ queue'[i].stalls = 0 => queue[i].stalls = 0
    BY <2>1, <2>2 DEF Job
  <2>4. \A i \in DOMAIN queue' : f[i] = i
    OBVIOUS
  <2> HIDE DEF f
  <2> QED BY <2>2, <2>3, <2>4, MovedJobs
<1>2. CASE ~(Head(queue).stalls < MaxStalls)
  BY <1>2, EndedJob DEF Restall
<1> QED BY <1>1, <1>2

\* Where the jobs are when the i-th has become the first (a worker of BullMQ).
LEMMA StartAt ==
  ASSUME NEW q \in Seq(Job), NEW i \in Startable(q), NEW k \in DOMAIN Start(q, i)
  PROVE  /\ i \in DOMAIN q /\ i \in Nat /\ k \in DOMAIN q /\ k \in Nat
         /\ Start(q, i)[k] = IF k = 1 THEN q[i] ELSE IF k <= i THEN q[k - 1] ELSE q[k]
<1> DEFINE a == SubSeq(q, 1, i - 1)
           b == SubSeq(q, i + 1, Len(q))
           h == <<q[i]>>
<1>1. i \in 1 .. Len(q) /\ Len(q) \in Nat /\ i \in DOMAIN q /\ i \in Nat
  BY LenProperties DEF Startable
<1>2. q[i] \in Job /\ h \in Seq(Job) /\ Len(h) = 1 /\ h[1] = q[i]
  BY <1>1, ElementOfSeq
<1>3. a \in Seq(Job) /\ Len(a) = i - 1 /\ \A j \in 1 .. i - 1 : a[j] = q[j]
  BY <1>1, SubSeqProperties
<1>4. b \in Seq(Job) /\ Len(b) = Len(q) - i /\ \A j \in 1 .. Len(q) - i : b[j] = q[i + j]
  BY <1>1, SubSeqProperties
<1> HIDE DEF a, b, h
<1>5. /\ h \o a \in Seq(Job) /\ Len(h \o a) = i
      /\ \A j \in 1 .. i : (h \o a)[j] = IF j = 1 THEN q[i] ELSE q[j - 1]
  <2>1. /\ h \o a \in Seq(Job) /\ Len(h \o a) = i
        /\ \A j \in 1 .. i : (h \o a)[j] = IF j <= 1 THEN h[j] ELSE a[j - 1]
    <3>1. Len(h) + Len(a) = i /\ Len(h) = 1
      BY <1>1, <1>2, <1>3
    <3>2. /\ h \o a \in Seq(Job) /\ Len(h \o a) = Len(h) + Len(a)
          /\ \A j \in 1 .. Len(h) + Len(a) :
               (h \o a)[j] = IF j <= Len(h) THEN h[j] ELSE a[j - Len(h)]
      BY <1>2, <1>3, ConcatProperties
    <3> QED BY <3>1, <3>2
  <2>2. ASSUME NEW j \in 1 .. i PROVE (h \o a)[j] = IF j = 1 THEN q[i] ELSE q[j - 1]
    <3>1. CASE j = 1
      BY <1>2, <2>1, <3>1
    <3>2. CASE j # 1
      <4>1. j - 1 \in 1 .. i - 1 /\ ~(j <= 1)
        BY <1>1, <3>2
      <4> QED BY <1>3, <2>1, <3>2, <4>1
    <3> QED BY <3>1, <3>2
  <2> QED BY <2>1, <2>2
<1>6. /\ (h \o a) \o b \in Seq(Job) /\ Len((h \o a) \o b) = Len(q)
      /\ \A j \in 1 .. Len(q) :
           ((h \o a) \o b)[j] = IF j <= i THEN (h \o a)[j] ELSE b[j - i]
  <2> DEFINE c == h \o a
  <2>1. c \in Seq(Job) /\ Len(c) = i
    BY <1>5
  <2> HIDE DEF c
  <2>2. Len(c) + Len(b) = Len(q)
    BY <1>1, <1>4, <2>1
  <2>3. /\ c \o b \in Seq(Job) /\ Len(c \o b) = Len(q)
        /\ \A j \in 1 .. Len(q) : (c \o b)[j] = IF j <= i THEN c[j] ELSE b[j - i]
    BY <1>4, <2>1, <2>2, ConcatProperties
  <2> QED BY <2>3 DEF c
<1>7. Start(q, i) = (h \o a) \o b
  BY DEF Start, h, a, b
<1>8. k \in 1 .. Len(q)
  BY <1>6, <1>7, LenProperties
<1>9. CASE k <= i
  BY <1>1, <1>5, <1>6, <1>7, <1>8, <1>9, LenProperties
<1>10. CASE ~(k <= i)
  <2>1. k - i \in 1 .. Len(q) - i /\ i + (k - i) = k /\ k # 1
    BY <1>1, <1>8, <1>10
  <2> QED BY <1>1, <1>4, <1>6, <1>7, <1>8, <1>10, <2>1, LenProperties
<1> QED BY <1>9, <1>10

\* The job that starts passes stalled jobs only (a worker of BullMQ).
LEMMA StartedJob ==
  ASSUME TypeOK, DaysRise, NEW i \in Startable(queue), queue' = Start(queue, i),
         newest' = newest
  PROVE  DaysRise' /\ \A t \in Symbol : DaysOf(t)' \subseteq DaysOf(t)
<1> DEFINE f == [k \in DOMAIN queue' |-> IF k = 1 THEN i ELSE IF k <= i THEN k - 1 ELSE k]
<1>1. \A k \in DOMAIN queue' : f[k] = IF k = 1 THEN i ELSE IF k <= i THEN k - 1 ELSE k
  OBVIOUS
<1>2. queue \in Seq(Job) /\ DOMAIN queue = 1 .. Len(queue) /\ Len(queue) \in Nat
  BY LenProperties DEF TypeOK
<1> HIDE DEF f
<1>3. \A k \in DOMAIN queue' :
        /\ i \in DOMAIN queue /\ i \in Nat /\ k \in DOMAIN queue /\ k \in Nat
        /\ queue'[k] = IF k = 1 THEN queue[i] ELSE IF k <= i THEN queue[k - 1] ELSE queue[k]
  BY <1>2, StartAt
<1>4. \A k \in DOMAIN queue' : f[k] \in DOMAIN queue /\ queue'[k] = queue[f[k]]
  BY <1>1, <1>2, <1>3
<1>5. ASSUME NEW j \in DOMAIN queue', NEW k \in DOMAIN queue', j < k, queue'[k].stalls = 0
      PROVE  f[j] < f[k]
  <2>1. k # 1 /\ k \in Nat /\ j \in Nat /\ j >= 1 /\ i \in Nat /\ k >= 2
    BY <1>2, <1>3, <1>5
  <2>2. ~(k <= i)
    <3> SUFFICES ASSUME k <= i PROVE FALSE
      OBVIOUS
    <3>1. queue'[k] = queue[k - 1] /\ k - 1 \in 1 .. i - 1
      BY <1>3, <2>1
    <3>2. queue[k - 1].stalls > 0
      BY <3>1 DEF Startable
    <3> QED BY <1>5, <3>1, <3>2
  <2> QED BY <1>1, <1>5, <2>1, <2>2
<1> QED BY <1>4, <1>5, MovedJobs

\* Except for the sync's own additions, and the prices of the webhook, which
\* are of no day, no day is new (processPriceUpdate, ingestPriceUpdate).
LEMMA QuietDays ==
  ASSUME PriceInv, HandlerTypes, DaysRise, [SyncNext]_syncVars, ~EnqueueUpdate
  PROVE  DaysRise' /\ \A t \in Symbol : DaysOf(t)' \subseteq DaysOf(t) \cup {0}
<1> USE DEF PriceInv
<1>1. CASE UNCHANGED <<queue, newest>>
  BY <1>1, SameJobs
<1>2. ASSUME NEW s \in Symbol, NEW p \in quotes, Webhook(s, p)
      PROVE  DaysRise' /\ \A t \in Symbol : DaysOf(t)' \subseteq DaysOf(t) \cup {0}
  <2>1. p \in Price
    BY MarketAssumption
  <2>2. queue' = Append(queue, [symbol |-> s, price |-> p, day |-> 0, stalls |-> 0])
        /\ newest' = newest
    BY <1>2 DEF Webhook, Announce, Enqueue, stocks
  <2>3. /\ DaysRise'
        /\ DaysOf(s)' \subseteq DaysOf(s) \cup {0}
        /\ \A t \in Symbol : t # s => DaysOf(t)' \subseteq DaysOf(t)
    BY <2>1, <2>2, AddedJob
  <2> QED BY <2>1, <2>3
<1>3. CASE UpsertPrice
  BY <1>3, HeadApplied
<1>4. CASE Finish \/ JobError
  BY <1>4, EndedJob DEF Finish, JobError, EndJob, stocks
<1>5. CASE RestartSync
  <2>1. newest' = newest /\ queue' = IF step = "idle" THEN queue ELSE Restall(queue)
    BY <1>5 DEF RestartSync, Restart
  <2> QED BY <2>1, SameJobs, RestalledJob
<1>6. CASE Take
  <2>1. newest' = newest /\ \E i \in Startable(queue) : queue' = Start(queue, i)
    BY <1>6 DEF Take, stocks
  <2> QED BY <2>1, StartedJob
<1>7. CASE Schedule \/ BeginSync \/ Fetch \/ SyncError \/ Midnight \/ SyncRest
           \/ (\E d \in Day : Publish(d)) \/ ReadStock \/ RecordEvent
           \/ AnnounceDecrease \/ UNCHANGED syncVars
  <2>1. UNCHANGED <<queue, newest>>
    BY <1>7 DEF Schedule, BeginSync, Fetch, SyncError, Midnight, SyncRest, Publish,
       ReadStock, RecordEvent, AnnounceDecrease, syncVars, vars, stocks
  <2> QED BY <1>1, <2>1
<1> QED BY <1>2, <1>3, <1>4, <1>5, <1>6, <1>7 DEF SyncNext, PriceWorker

\* A day that a job takes is no earlier than those that were taken before,
\* because they had been published when it began (syncTrackedSymbols).
LEMMA DaysStep ==
  ASSUME PriceInv, SyncInv, HandlerTypes, DaysRise, DaysKnown, [SyncNext]_syncVars
  PROVE  DaysRise' /\ DaysKnown'
<1>1. CASE EnqueueUpdate
  <2>1. PICK s \in sync.todo :
          /\ queue' = Append(queue, [symbol |-> s, price |-> bars[sync.day][s],
                                     day |-> sync.day, stalls |-> 0])
          /\ IF sync.todo = {s} THEN EndSync(syncQueue)
             ELSE sync' = [sync EXCEPT !.todo = @ \ {s}] /\ UNCHANGED <<syncQueue, complete>>
    BY <1>1 DEF EnqueueUpdate, Enqueue
  <2> DEFINE p == bars[sync.day][s]
             D == sync.day
  <2>2. /\ s \in Symbol /\ D \in Day /\ D \in published /\ p # Absent /\ p \in Price
        /\ newest' = newest /\ published' = published /\ sync.at = "enqueue" /\ D \in Nat
    <3>1. s \in Symbol /\ D \in Day /\ D \in published /\ p # Absent /\ D \in Nat
      BY <1>1, <2>1 DEF EnqueueUpdate, SyncInv, HandlerTypes
    <3> QED BY <1>1, <3>1, MarketAssumption DEF EnqueueUpdate, market, stocks
  <2>4. \A d \in DaysOf(s) : d <= D
    BY <2>1, <2>2 DEF DaysKnown
  <2>5. /\ DaysRise'
        /\ DaysOf(s)' \subseteq DaysOf(s) \cup {D}
        /\ \A t \in Symbol : t # s => DaysOf(t)' \subseteq DaysOf(t)
    <3> HIDE DEF p
    <3>1. queue' = Append(queue, [symbol |-> s, price |-> p, day |-> D, stalls |-> 0])
      BY <2>1 DEF p
    <3> HIDE DEF D
    <3> QED BY <2>2, <2>4, <3>1, AddedJob DEF PriceInv
  <2>6. sync'.at = "idle" \/ (sync'.at = "enqueue" /\ sync'.day = D /\ sync'.todo = sync.todo \ {s})
    BY <2>1, <2>2 DEF EndSync, AtRest, HandlerTypes
  <2>7. \A t \in Symbol :
          /\ DaysOf(t)' \subseteq {0} \cup published'
          /\ \A d \in DaysOf(t)' : d # 0 => bars[d][t] # Absent
    BY <2>2, <2>5 DEF DaysKnown
  <2>8. ASSUME NEW t \in Symbol, sync'.at = "enqueue", t \in sync'.todo
        PROVE  \A d \in DaysOf(t)' : d <= sync'.day
    <3>1. t # s /\ t \in sync.todo /\ sync'.day = D
      BY <2>6, <2>8
    <3> QED BY <2>2, <2>5, <3>1 DEF DaysKnown
  <2> QED BY <2>5, <2>6, <2>7, <2>8 DEF DaysKnown
<1>2. CASE ~EnqueueUpdate
  <2>1. DaysRise' /\ \A t \in Symbol : DaysOf(t)' \subseteq DaysOf(t) \cup {0}
    BY <1>2, QuietDays
  <2>2. published \subseteq published'
    BY <1>2 DEF SyncNext, syncVars, market, Schedule, BeginSync, Fetch, SyncError, RestartSync,
       Midnight, Publish, Webhook, PriceWorker, SyncRest
  <2>3. CASE sync'.at = "idle" \/ (sync' = sync /\ complete' = complete)
    BY <2>1, <2>2, <2>3, KnownKept
  <2>4. CASE BeginSync /\ getTrackedSymbols # {}
    <3>1. sync'.at = "fetch" /\ complete' = published
      BY <2>4 DEF BeginSync, AtRest
    <3> QED BY <2>1, <2>2, <3>1 DEF DaysKnown
  <2>5. CASE Fetch /\ sync'.at # "idle"
    <3>1. sync.at = "fetch" /\ complete' = complete /\ sync'.at \in {"fetch", "enqueue"}
      <4>1. sync'.at \in {"fetch", "enqueue"} /\ sync.at = "fetch"
        BY <2>5, SyncStep DEF Fetch, HandlerTypes
      <4>2. ~EndSync(syncQueue)
        BY <2>5 DEF EndSync, AtRest
      <4> QED BY <4>1, <4>2, <2>5 DEF Fetch
    <3>2. NoDayPassedOver' /\ sync'.day \in Nat /\ sync'.todo \subseteq sync'.tracked
          /\ complete' \subseteq Day /\ Day \subseteq Nat
      BY SyncStep, MarketAssumption DEF SyncInv, HandlerTypes, Day
    <3>3. \A t \in Symbol :
            /\ DaysOf(t)' \subseteq {0} \cup complete'
            /\ \A d \in DaysOf(t)' : d # 0 => bars[d][t] # Absent
      BY <2>1, <3>1 DEF DaysKnown
    <3>4. ASSUME NEW t \in Symbol, sync'.at = "enqueue", t \in sync'.todo, NEW d \in DaysOf(t)'
          PROVE  d <= sync'.day
      <4>1. CASE d = 0
        BY <4>1, <3>2
      <4>2. CASE d \in complete' /\ bars[d][t] # Absent
        <5>1. ~(d > sync'.day)
          BY <4>2, <3>2, <3>4 DEF NoDayPassedOver
        <5> QED BY <5>1, <4>2, <3>2
      <4> QED BY <4>1, <4>2, <3>3
    <3>5. \A t \in Symbol : DaysOf(t)' \subseteq {0} \cup published'
      BY <2>1, <2>2 DEF DaysKnown
    <3> QED BY <2>1, <3>3, <3>4, <3>5 DEF DaysKnown
  <2>6. \/ sync'.at = "idle" \/ (sync' = sync /\ complete' = complete)
        \/ (BeginSync /\ getTrackedSymbols # {}) \/ Fetch
    BY <1>2 DEF SyncNext, syncVars, syncing, Schedule, BeginSync, SyncError, RestartSync, EndSync,
       AtRest, Midnight, Publish, Webhook, PriceWorker, SyncRest
  <2> QED BY <2>3, <2>4, <2>5, <2>6
<1> QED BY <1>1, <1>2

\* At the start nothing has come from the sync (onModuleInit).
LEMMA DaysStart == SyncInit => DaysRise /\ DaysKnown
<1> SUFFICES ASSUME SyncInit PROVE DaysRise /\ DaysKnown
  OBVIOUS
<1>1. DOMAIN queue = {} /\ sync.at = "idle" /\ \A s \in Symbol : newest[s] = 0
  BY DEF SyncInit, Init, AtRest
<1>2. DaysRise
  BY <1>1 DEF DaysRise, QueueInOrder, NewestBelowQueue
<1>3. \A s \in Symbol : DaysOf(s) = {0}
  BY <1>1 DEF DaysOf
<1> QED BY <1>1, <1>2, <1>3 DEF DaysKnown

\* A price of the sync whose job has not stalled takes no stock back to an older
\* market day, whatever runs again, restarts and is published late
\* (processPriceSync and the price queue).
THEOREM MarketDaysInOrderHolds == SyncSpec => []MarketDaysInOrder
<1> DEFINE I == PriceInv /\ SyncInv /\ HandlerTypes /\ DaysRise /\ DaysKnown
<1>1. SyncInit => I
  BY SyncStart, DaysStart
<1>2. I /\ [SyncNext]_<<vars, market, syncing>> => I'
  BY PricePart, PriceStep, SyncStep, DaysStep DEF syncVars
<1>3. I => MarketDaysInOrder
  <2> SUFFICES ASSUME TypeOK, NewestBelowQueue, step = "upsert", day # 0,
                      Head(queue).stalls = 0
               PROVE  newest[symbol] <= day
    BY DEF PriceInv, DaysRise, MarketDaysInOrder
  <2>1. queue # <<>> /\ queue \in Seq(Job)
    BY DEF TypeOK
  <2>2. 1 \in DOMAIN queue /\ Head(queue) = queue[1]
    BY <2>1
  <2> QED BY <2>2 DEF NewestBelowQueue, symbol, day
<1> QED BY <1>1, <1>2, <1>3, PTL DEF SyncSpec
=============================================================================
