----------------------------- MODULE ProviderSync -----------------------------
(***************************************************************************)
(* The price sync beside the price worker of PriceFeed: a scheduled job    *)
(* asks Polygon for the closing prices of the last market days, one        *)
(* request per day, takes the newest day on which a tracked stock was      *)
(* traded, and enqueues one price update per stock.  Meanwhile the         *)
(* exchange publishes days, midnight passes, the webhook brings other      *)
(* prices, requests fail and the process restarts.                         *)
(*                                                                         *)
(* Sources: modules/stock-provider/external-stock-provider.service.ts and  *)
(* the sync worker of modules/queue/queue.service.ts, under src/src.       *)
(*                                                                         *)
(* Operators that nothing uses are broken variants of the ones below them. *)
(***************************************************************************)
EXTENDS PriceFeed, FiniteSetsExt, Functions

CONSTANTS
  bars,           \* the closing price of each stock on each day, or Absent
  lookbackDays,   \* STOCK_POLYGON_LOOKBACK_DAYS (7 by default)
  quotes,         \* the prices that the webhook brings
  FirstDay, LastDay, MaxSyncs   \* bounds: the days that pass, the jobs scheduled

Day == 1 .. LastDay

ASSUME MarketAssumption ==
  /\ bars \in [Day -> [Symbol -> Price \cup {Absent}]]
  /\ quotes \subseteq Price
  /\ lookbackDays \in Nat \ {0} /\ LastDay \in Nat /\ FirstDay \in Day /\ MaxSyncs \in Nat

VARIABLES
  today,       \* the UTC date
  published,   \* the days whose bars Polygon has
  syncQueue,   \* the sync jobs, which carry no data (JobQueue)
  sync,        \* the handler of the active job
  syncs,       \* how many jobs have been scheduled
  complete     \* history: what had been published when the handler started

market == <<today, published>>
syncing == <<syncQueue, sync, syncs, complete>>

\* at: its next await; tracked: the stocks it asks for; dates: the days it still
\* may ask for, the newest first; day and todo: the day it took, and the stocks
\* whose update is still to be enqueued.
AtRest == [at |-> "idle", tracked |-> {}, dates |-> <<>>, day |-> 0, todo |-> {}]

SyncInit ==
  /\ Init
  /\ today = FirstDay
  /\ published \in {{d \in Day : d < FirstDay}, {d \in Day : d < FirstDay - 1}}
  /\ syncQueue = <<>> /\ sync = AtRest /\ syncs = 0 /\ complete = {}

-----------------------------------------------------------------------------
(* The calls on Polygon.                                                   *)

OldestFirst(now) == [offset \in 1 .. lookbackDays |-> now - 1 - lookbackDays + offset]
getLookbackDates(now) == [offset \in 1 .. lookbackDays |-> now - offset]

\* A response names every stock that was traded on the day, or none.
Response(d) ==
  IF d \in published THEN {s \in Symbol : bars[d][s] # Absent} ELSE {}

Every(d, tracked) == Response(d)
Updates(d, tracked) == Response(d) \cap tracked

\* getCurrentPrice: the newest bar of one stock in the range of days.
OldestBar(s, days) ==
  LET traded == {d \in days : s \in Response(d)}
  IN  IF traded = {} THEN Absent ELSE bars[Min(traded)][s]
LatestBar(s, days) ==
  LET traded == {d \in days : s \in Response(d)}
  IN  IF traded = {} THEN Absent ELSE bars[Max(traded)][s]

getCurrentPrice(s) ==
  LET dates == getLookbackDates(today)
  IN  LatestBar(s, dates[lookbackDays] .. dates[1])

-----------------------------------------------------------------------------
(* The scheduler and the handler of a job, processPriceSync.               *)

\* The scheduler adds the next job when one starts.
Schedule ==
  /\ syncs < MaxSyncs /\ Len(syncQueue) < 2
  /\ syncs' = syncs + 1
  /\ syncQueue' = Append(syncQueue, [stalls |-> 0])
  /\ UNCHANGED <<vars, market, sync, complete>>

getTrackedSymbols == {s \in Symbol : current[s] # Absent}

EndSync(q) == sync' = AtRest /\ complete' = {} /\ syncQueue' = Tail(q)

\* Without a tracked stock the job ends here.
BeginSync ==
  /\ sync.at = "idle"
  /\ \E i \in Startable(syncQueue) :
       IF getTrackedSymbols = {} THEN EndSync(Start(syncQueue, i))
       ELSE /\ sync' = [AtRest EXCEPT !.at = "fetch", !.tracked = getTrackedSymbols,
                                      !.dates = getLookbackDates(today)]
            /\ complete' = published
            /\ syncQueue' = Start(syncQueue, i)
  /\ UNCHANGED <<vars, market, syncs>>

\* One day of the loop: stop at the first with an update, or ask for the next.
Fetch ==
  /\ sync.at = "fetch"
  /\ LET d == Head(sync.dates)
         found == Updates(d, sync.tracked)
     IN  IF found # {}
         THEN /\ sync' = [sync EXCEPT !.at = "enqueue", !.day = d, !.todo = found]
              /\ UNCHANGED <<syncQueue, complete>>
         ELSE IF Len(sync.dates) > 1
         THEN /\ sync' = [sync EXCEPT !.dates = Tail(@)]
              /\ UNCHANGED <<syncQueue, complete>>
         ELSE EndSync(syncQueue)
  /\ UNCHANGED <<vars, market, syncs>>

\* The updates in the order of the response, which is any order.
EnqueueUpdate ==
  /\ sync.at = "enqueue"
  /\ \E s \in sync.todo :
       /\ queue' = Enqueue([symbol |-> s, price |-> bars[sync.day][s], day |-> sync.day,
                             stalls |-> 0])
       /\ IF sync.todo = {s} THEN EndSync(syncQueue)
          ELSE sync' = [sync EXCEPT !.todo = @ \ {s}] /\ UNCHANGED <<syncQueue, complete>>
  /\ UNCHANGED <<stocks, events, alerts, applied, worker, spent, market, syncs>>

\* A request is refused or times out, or an enqueue fails: the job has failed.
SyncError ==
  /\ sync.at # "idle"
  /\ Error /\ EndSync(syncQueue)
  /\ UNCHANGED <<stocks, events, alerts, applied, queue, worker, market, syncs>>

\* What the handler had enqueued stays; the stalled job runs from the start.
RestartSync ==
  /\ Restart
  /\ sync' = AtRest /\ complete' = {}
  /\ syncQueue' = IF sync.at = "idle" THEN syncQueue ELSE Restall(syncQueue)
  /\ UNCHANGED <<market, syncs>>

-----------------------------------------------------------------------------

Midnight ==
  /\ today < LastDay
  /\ today' = today + 1
  /\ UNCHANGED <<vars, published, syncing>>

Publish(d) ==
  /\ d < today /\ d \notin published
  /\ published' = published \cup {d}
  /\ UNCHANGED <<vars, today, syncing>>

\* A price from elsewhere.
Webhook(s, p) == Announce(s, p) /\ UNCHANGED <<market, syncing>>

PriceWorker ==
  /\ Take \/ ReadStock \/ RecordEvent \/ UpsertPrice \/ AnnounceDecrease \/ Finish \/ JobError
  /\ UNCHANGED <<market, syncing>>

SyncRest == queue = <<>> /\ syncQueue = <<>> /\ UNCHANGED <<vars, market, syncing>>

SyncNext ==
  \/ Schedule \/ BeginSync \/ Fetch \/ EnqueueUpdate \/ SyncError \/ RestartSync
  \/ Midnight \/ (\E d \in Day : Publish(d))
  \/ (\E s \in Symbol, p \in quotes : Webhook(s, p)) \/ PriceWorker \/ SyncRest

SyncSpec == SyncInit /\ [][SyncNext]_<<vars, market, syncing>>

-----------------------------------------------------------------------------

SyncJob == [stalls : Nat]

\* Every variable has its type; a busy handler has a job and something to do.
SyncTypeOK ==
  /\ TypeOK
  /\ today \in Day /\ published \subseteq Day
  /\ syncQueue \in Seq(SyncJob) /\ syncs \in 0 .. MaxSyncs
  /\ sync.at \in {"idle", "fetch", "enqueue"}
  /\ sync.tracked \subseteq Symbol /\ sync.todo \subseteq sync.tracked
  /\ sync.at = "idle" <=> sync = AtRest
  /\ sync.at = "fetch" => sync.dates # <<>>
  /\ sync.at = "enqueue" => sync.todo # {} /\ sync.day \in Day
  /\ sync.day # 0 => sync.at = "enqueue"
  /\ complete \subseteq published

\* No market day is passed over: when a job takes a day, no newer one that had
\* been published when the job began had a price of a tracked stock, whatever
\* is published and whatever midnight passes meanwhile (syncTrackedSymbols).
NoDayPassedOver ==
  sync.at = "enqueue" =>
    \A d \in complete, s \in sync.tracked : d > sync.day => bars[d][s] = Absent

\* A price of the sync takes its stock back to an older market day only if its
\* job has stalled.  Neither the next sync job, nor a sync job that runs again
\* after a restart, nor a day that is published late does so; a price job that a
\* restart has cut off does, when newer prices are applied before its lock has
\* run out (processPriceSync and the price queue).
MarketDaysInOrder ==
  step = "upsert" /\ day # 0 /\ Head(queue).stalls = 0 => newest[symbol] <= day

\* The two endpoints agree: while a job enqueues the prices that its loop over
\* the days has found, getCurrentPrice, one request for the range of days, gives
\* the same ones, unless Polygon has published something since the job began,
\* or midnight has moved the range past the day (syncTrackedSymbols).
EndpointsAgree ==
  sync.at = "enqueue" /\ published = complete /\ sync.day \in Range(getLookbackDates(today))
    => \A s \in sync.todo : getCurrentPrice(s) = bars[sync.day][s]
=============================================================================
