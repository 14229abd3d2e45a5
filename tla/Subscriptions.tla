---------------------------- MODULE Subscriptions ----------------------------
(***************************************************************************)
(* The stock subscriptions of one user: the document in MongoDB with the   *)
(* stocks and the ARN, the SNS subscription of the user's address with its *)
(* filter policy, the list last handed to the analytics publisher, and any *)
(* number of subscribe and unsubscribe requests that overlap, fail or are  *)
(* cut off between two awaited calls.                                      *)
(*                                                                         *)
(* Sources: modules/stocks/stocks.service.ts (subscribeUserToStock,        *)
(* unsubscribeUserFromStock) and common/providers/                         *)
(* sns.subscribe-topic-provider.ts under src/src.                          *)
(*                                                                         *)
(* Operators that nothing uses are broken variants of the ones below them. *)
(***************************************************************************)
CONSTANTS
  Call,            \* the requests of the user
  Subscribing,     \* those of subscribeUserToStock
  Stock, stockOf

ASSUME CallAssumption ==
  /\ Subscribing \subseteq Call
  /\ stockOf \in [Call -> Stock]

VARIABLES
  exists, stocks, saved,  \* the document, its subscribedStocks, "has an ARN"
  subscribed, filter,     \* SNS: the address is subscribed, the filter policy
  reported,               \* the list of the latest subscription-changed event
  pc, known, ids,         \* each request: next call, ARN read, stocks returned
  versions,               \* history: every value subscribedStocks has had
  alone                   \* history: the latest request ran alone, without error

document == <<exists, stocks, saved, versions>>
sns == <<subscribed, filter>>
vars == <<document, sns, reported, pc, known, ids, alone>>

Step == {"idle", "update", "subscribe", "filter", "save", "publish", "done", "failed"}

Init ==
  /\ exists = FALSE /\ stocks = {} /\ saved = FALSE
  /\ subscribed = FALSE /\ filter = {}
  /\ reported = {}
  /\ pc = [c \in Call |-> "idle"]
  /\ known = [c \in Call |-> FALSE]
  /\ ids = [c \in Call |-> {}]
  /\ versions = {{}}
  /\ alone = TRUE

Goto(c, s) == pc' = [pc EXCEPT ![c] = s]

Running == {c \in Call : pc[c] \notin {"idle", "done", "failed"}}
Start == alone' = (Running = {})

\* What findOneAndUpdate hands back: returnDocument is "after".
ReturnedBefore(before, after) == before
Returned(before, after) == after

SetStocks(c, list) ==
  /\ stocks' = list
  /\ versions' = versions \cup {list}
  /\ ids' = [ids EXCEPT ![c] = Returned(stocks, list)]

\* createStockFilterPolicy of the stocks the request holds; no stock becomes a
\* policy that no message matches.
OnlyThisStock(c) == {stockOf[c]}
Policy(c) == ids[c]

-----------------------------------------------------------------------------
(* subscribeUserToStock                                                    *)

\* The ARN is read before the update.
ReadSubscription(c) ==
  /\ c \in Subscribing /\ pc[c] = "idle"
  /\ known' = [known EXCEPT ![c] = saved]
  /\ Start
  /\ Goto(c, "update")
  /\ UNCHANGED <<document, sns, reported, ids>>

SavesFirst(c) == "save"
AfterUpdate(c) == IF known[c] THEN "filter" ELSE "subscribe"

\* The upsert with $addToSet.
AddStock(c) ==
  /\ pc[c] = "update"
  /\ exists' = TRUE
  /\ SetStocks(c, stocks \cup {stockOf[c]})
  /\ Goto(c, AfterUpdate(c))
  /\ UNCHANGED <<saved, sns, reported, known, alone>>

\* subscribeUser: SNS returns the subscription of the address if it has the same filter, and
\* refuses a second one with another filter.
SubscribeAddress(c) ==
  /\ pc[c] = "subscribe"
  /\ IF ~ subscribed \/ filter = Policy(c)
     THEN subscribed' = TRUE /\ filter' = Policy(c) /\ Goto(c, "save") /\ UNCHANGED alone
     ELSE Goto(c, "failed") /\ alone' = FALSE /\ UNCHANGED sns
  /\ UNCHANGED <<document, reported, known, ids>>

SaveArn(c) ==
  /\ pc[c] = "save"
  /\ saved' = TRUE
  /\ Goto(c, "publish")
  /\ UNCHANGED <<exists, stocks, versions, sns, reported, known, ids, alone>>

\* updateUserStockSubscriptionFilter, which unsubscribing calls too.
SetFilter(c) ==
  /\ pc[c] = "filter"
  /\ filter' = Policy(c)
  /\ Goto(c, "publish")
  /\ UNCHANGED <<document, subscribed, reported, known, ids, alone>>

\* The publisher swallows its failures: see AnalyticsDelivery.
PublishChange(c) ==
  /\ pc[c] = "publish"
  /\ reported' = ids[c]
  /\ Goto(c, "done")
  /\ UNCHANGED <<document, sns, known, ids, alone>>

-----------------------------------------------------------------------------
(* unsubscribeUserFromStock                                                *)

\* $pull; 404 without a document, and no call of SNS without an ARN.
RemoveStock(c) ==
  /\ c \notin Subscribing /\ pc[c] = "idle"
  /\ Start
  /\ IF exists
     THEN /\ SetStocks(c, stocks \ {stockOf[c]})
          /\ Goto(c, IF saved THEN "filter" ELSE "publish")
     ELSE Goto(c, "failed") /\ UNCHANGED <<stocks, versions, ids>>
  /\ UNCHANGED <<exists, saved, sns, reported, known>>

\* An awaited call throws, or the process dies, before the call has an effect.
Fail(c) ==
  /\ c \in Running
  /\ Goto(c, "failed")
  /\ alone' = FALSE
  /\ UNCHANGED <<document, sns, reported, known, ids>>

Rest == (\A c \in Call : pc[c] \in {"done", "failed"}) /\ UNCHANGED vars

Next ==
  \/ \E c \in Call :
       \/ ReadSubscription(c) \/ AddStock(c) \/ SubscribeAddress(c) \/ SaveArn(c)
       \/ SetFilter(c) \/ PublishChange(c) \/ RemoveStock(c) \/ Fail(c)
  \/ Rest

Spec == Init /\ [][Next]_vars

-----------------------------------------------------------------------------

\* Every variable has its type, a request calls SNS and the publisher only with
\* a document in place, and an ARN in the document is that of a subscription SNS
\* has (subscribeUserToStock saves it last).
TypeOK ==
  /\ exists \in BOOLEAN /\ saved \in BOOLEAN /\ subscribed \in BOOLEAN
  /\ alone \in BOOLEAN
  /\ stocks \in SUBSET Stock /\ filter \in SUBSET Stock /\ reported \in SUBSET Stock
  /\ versions \in SUBSET SUBSET Stock
  /\ pc \in [Call -> Step]
  /\ known \in [Call -> BOOLEAN]
  /\ ids \in [Call -> SUBSET Stock]
  /\ \A c \in Call :
       /\ pc[c] \in {"subscribe", "save", "filter", "publish"} => exists
       /\ pc[c] = "save" => subscribed
  /\ saved => exists /\ subscribed

\* The filter policy and the reported list are lists of stocks that the document
\* has had, however requests overlap: SNS never notifies the user of a stock
\* together with others that were never his at one time.
FilterWasDocument == {filter, reported} \subseteq versions

\* After a request that ran alone and succeeded the filter policy of a known
\* subscription and the reported list are those of the document, whatever races
\* and failures of the calls of the two methods came before it.
LoneRequestHeals ==
  alone /\ Running = {} => reported = stocks /\ (saved => filter = stocks)
=============================================================================
