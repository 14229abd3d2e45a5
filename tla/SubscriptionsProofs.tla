------------------------- MODULE SubscriptionsProofs -------------------------
(***************************************************************************)
(* Proofs about Subscriptions, for any requests and stocks: types, what    *)
(* the filter policy can be, and that a request that runs alone brings SNS *)
(* and analytics back to the document.                                     *)
(***************************************************************************)
EXTENDS Subscriptions, TLAPS

\* No request runs before the first one (subscribeUserToStock).
LEMMA TypeInit == Init => TypeOK
BY CallAssumption DEF Init, TypeOK, Step

\* A step keeps the types (subscribeUserToStock, unsubscribeUserFromStock).
LEMMA TypeStep == TypeOK /\ [Next]_vars => TypeOK'
<1> SUFFICES ASSUME TypeOK, [Next]_vars PROVE TypeOK'
  OBVIOUS
<1> USE CallAssumption DEF TypeOK, Step, Goto, document, sns
<1>1. ASSUME NEW c \in Call, ReadSubscription(c) PROVE TypeOK'
  BY <1>1 DEF ReadSubscription, Start
<1>2. ASSUME NEW c \in Call, AddStock(c) PROVE TypeOK'
  BY <1>2 DEF AddStock, SetStocks, Returned, AfterUpdate
<1>3. ASSUME NEW c \in Call, SubscribeAddress(c) PROVE TypeOK'
  <2>1. pc[c] = "subscribe" /\ exists /\ UNCHANGED <<document, reported, known, ids>>
    BY <1>3 DEF SubscribeAddress
  <2>2. CASE Goto(c, "save") /\ subscribed' = TRUE /\ filter' = ids[c] /\ UNCHANGED alone
    <3>1. filter' \in SUBSET Stock
      BY <2>2
    <3> QED BY <2>1, <2>2, <3>1
  <2>3. CASE Goto(c, "failed") /\ alone' = FALSE /\ UNCHANGED sns
    BY <2>1, <2>3
  <2> QED BY <1>3, <2>2, <2>3 DEF SubscribeAddress, Policy
<1>4. ASSUME NEW c \in Call, SaveArn(c) PROVE TypeOK'
  BY <1>4 DEF SaveArn
<1>5. ASSUME NEW c \in Call, SetFilter(c) PROVE TypeOK'
  BY <1>5 DEF SetFilter, Policy
<1>6. ASSUME NEW c \in Call, PublishChange(c) PROVE TypeOK'
  BY <1>6 DEF PublishChange
<1>7. ASSUME NEW c \in Call, RemoveStock(c) PROVE TypeOK'
  BY <1>7 DEF RemoveStock, SetStocks, Returned, Start
<1>8. ASSUME NEW c \in Call, Fail(c) PROVE TypeOK'
  BY <1>8 DEF Fail
<1>9. CASE UNCHANGED vars
  BY <1>9 DEF vars
<1> QED
  BY <1>1, <1>2, <1>3, <1>4, <1>5, <1>6, <1>7, <1>8, <1>9 DEF Next, Rest

\* Every variable keeps its type, SNS is called only with a document in place and
\* a saved ARN is that of a subscription (subscribeUserToStock).
THEOREM TypeCorrect == Spec => []TypeOK
BY TypeInit, TypeStep, PTL DEF Spec

-----------------------------------------------------------------------------
(* What SNS and analytics are told is a list that the document has had,    *)
(* because every request passes on the list its own update returned.       *)

ListInvariant ==
  /\ {filter, reported} \subseteq versions
  /\ \A c \in Call : ids[c] \in versions

\* At first nobody has a stock (StockSubscription).
LEMMA ListInit == Init => ListInvariant
BY DEF Init, ListInvariant

\* A request that hands its list on hands on a list of the document
\* (subscribeUserToStock, unsubscribeUserFromStock).
LEMMA ListStep == TypeOK /\ ListInvariant /\ [Next]_vars => ListInvariant'
<1> SUFFICES ASSUME TypeOK, ListInvariant, [Next]_vars PROVE ListInvariant'
  OBVIOUS
<1> USE DEF ListInvariant, document, sns
<1>1. ASSUME NEW c \in Call, NEW list, SetStocks(c, list), UNCHANGED <<sns, reported>>
      PROVE  ListInvariant'
  BY <1>1 DEF SetStocks, Returned, TypeOK
<1>2. ASSUME NEW c \in Call, SubscribeAddress(c) \/ SetFilter(c) \/ PublishChange(c)
      PROVE  ListInvariant'
  BY <1>2 DEF SubscribeAddress, SetFilter, PublishChange, Policy
<1>3. ASSUME NEW c \in Call, ReadSubscription(c) \/ SaveArn(c) \/ Fail(c)
      PROVE  ListInvariant'
  BY <1>3 DEF ReadSubscription, SaveArn, Fail
<1>4. ASSUME NEW c \in Call, AddStock(c) PROVE ListInvariant'
  BY <1>1, <1>4 DEF AddStock
<1>5. ASSUME NEW c \in Call, RemoveStock(c) PROVE ListInvariant'
  BY <1>1, <1>5 DEF RemoveStock
<1>6. CASE UNCHANGED vars
  BY <1>6 DEF vars
<1> QED BY <1>2, <1>3, <1>4, <1>5, <1>6 DEF Next, Rest

\* The filter policy and the reported list are always lists that the document has
\* had (updateUserStockSubscriptionFilter and publish, with the ids of the update).
THEOREM FilterWasDocumentHolds == Spec => []FilterWasDocument
<1>1. ListInvariant => FilterWasDocument
  BY DEF ListInvariant, FilterWasDocument
<1> QED BY <1>1, TypeInit, TypeStep, ListInit, ListStep, PTL DEF Spec

-----------------------------------------------------------------------------
(* A request that runs alone.  At each of its steps the invariant says what *)
(* it already agrees with the document about; without a document nothing   *)
(* has been said to anybody, so that a 404 leaves nothing to repair.       *)

Agrees(c) ==
  /\ pc[c] = "update" => known[c] = saved
  /\ pc[c] \in {"subscribe", "save", "filter", "publish"} => ids[c] = stocks
  /\ pc[c] = "subscribe" => ~ saved
  /\ pc[c] = "save" => filter = stocks
  /\ pc[c] = "publish" /\ saved => filter = stocks

LoneInvariant ==
  /\ ~ exists => stocks = {} /\ reported = {}
  /\ alone => \A c \in Running : Agrees(c) /\ \A d \in Running : c = d
  /\ LoneRequestHeals

\* Nothing runs at first (subscribeUserToStock).
LEMMA LoneInit == Init => LoneInvariant
BY DEF Init, LoneInvariant, LoneRequestHeals, Running

\* While a request runs alone, no other one takes a step (subscribeUserToStock,
\* unsubscribeUserFromStock).
LEMMA OnlyRunner ==
  ASSUME TypeOK, LoneInvariant, alone, NEW c \in Running
  PROVE  Running = {c} /\ Agrees(c)
BY DEF LoneInvariant, Running

\* What runs after a step of a request is what ran before, and perhaps not it.
LEMMA RunningStep ==
  ASSUME TypeOK, NEW c \in Running, NEW s, Goto(c, s)
  PROVE  Running' = IF s \in {"idle", "done", "failed"} THEN Running \ {c} ELSE Running
BY DEF TypeOK, Goto, Running

\* A request that starts runs alone if nothing runs.
LEMMA RunningStart ==
  ASSUME TypeOK, NEW c \in Call, pc[c] = "idle", NEW s, Goto(c, s)
  PROVE  Running' = IF s \in {"idle", "done", "failed"} THEN Running ELSE Running \cup {c}
BY DEF TypeOK, Goto, Running

\* A request alone agrees with the document at each of its steps, and so do SNS and
\* analytics at its end (subscribeUserToStock, unsubscribeUserFromStock).
LEMMA LoneStep == TypeOK /\ LoneInvariant /\ [Next]_vars => LoneInvariant'
<1> SUFFICES ASSUME TypeOK, LoneInvariant, [Next]_vars PROVE LoneInvariant'
  OBVIOUS
<1> USE DEF document, sns, LoneInvariant, LoneRequestHeals
<1>1. ASSUME NEW c \in Call, ReadSubscription(c) PROVE LoneInvariant'
  <2>1. Running' = Running \cup {c} /\ pc'[c] = "update" /\ known'[c] = saved
    BY <1>1, RunningStart DEF ReadSubscription, TypeOK, Goto
  <2>2. ASSUME alone' PROVE Running' = {c} /\ Agrees(c)'
    BY <1>1, <2>1, <2>2 DEF ReadSubscription, Start, Agrees
  <2> QED BY <1>1, <2>1, <2>2 DEF ReadSubscription
<1>2. ASSUME NEW c \in Call, AddStock(c) PROVE LoneInvariant'
  <2>1. c \in Running /\ Running' = Running
    BY <1>2, RunningStep DEF AddStock, Running, AfterUpdate
  <2>2. ids'[c] = stocks' /\ pc'[c] = AfterUpdate(c) /\ exists' /\ UNCHANGED <<saved, alone>>
    BY <1>2 DEF AddStock, SetStocks, Returned, Goto, TypeOK
  <2>3. ASSUME alone PROVE Running' = {c} /\ Agrees(c)'
    <3>1. Running = {c} /\ known[c] = saved
      BY <1>2, <2>1, <2>3, OnlyRunner DEF Agrees, AddStock
    <3> QED BY <2>1, <2>2, <3>1 DEF Agrees, AfterUpdate, TypeOK
  <2> QED BY <2>1, <2>2, <2>3
<1>3. ASSUME NEW c \in Call, SubscribeAddress(c) PROVE LoneInvariant'
  <2>1. c \in Running /\ UNCHANGED <<document, reported, ids>>
    BY <1>3 DEF SubscribeAddress, Running
  <2>2. CASE filter' = ids[c] /\ Goto(c, "save") /\ UNCHANGED alone
    <3>1. Running' = Running
      BY <2>1, <2>2, RunningStep
    <3>2. pc'[c] = "save"
      BY <2>2 DEF Goto, TypeOK
    <3>3. ASSUME alone PROVE Running' = {c} /\ Agrees(c)'
      BY <1>3, <2>1, <2>2, <3>1, <3>2, <3>3, OnlyRunner DEF Agrees, SubscribeAddress
    <3> QED BY <2>1, <2>2, <3>1, <3>3
  <2>3. CASE alone' = FALSE
    BY <2>1, <2>3
  <2> QED BY <1>3, <2>2, <2>3 DEF SubscribeAddress, Policy
<1>4. ASSUME NEW c \in Call, SaveArn(c) PROVE LoneInvariant'
  <2>1. c \in Running /\ Running' = Running /\ pc'[c] = "publish"
    BY <1>4, RunningStep DEF SaveArn, Running, TypeOK, Goto
  <2>2. ASSUME alone PROVE Running' = {c} /\ Agrees(c)'
    BY <1>4, <2>1, <2>2, OnlyRunner DEF Agrees, SaveArn
  <2> QED BY <1>4, <2>1, <2>2 DEF SaveArn
<1>5. ASSUME NEW c \in Call, SetFilter(c) PROVE LoneInvariant'
  <2>1. c \in Running /\ Running' = Running /\ pc'[c] = "publish" /\ filter' = ids[c]
    BY <1>5, RunningStep DEF SetFilter, Running, TypeOK, Goto, Policy
  <2>2. ASSUME alone PROVE Running' = {c} /\ Agrees(c)'
    BY <1>5, <2>1, <2>2, OnlyRunner DEF Agrees, SetFilter
  <2> QED BY <1>5, <2>1, <2>2 DEF SetFilter
<1>6. ASSUME NEW c \in Call, PublishChange(c) PROVE LoneInvariant'
  <2>1. c \in Running /\ Running' = Running \ {c} /\ exists
    BY <1>6, RunningStep DEF PublishChange, Running, TypeOK
  <2>2. reported' = ids[c] /\ UNCHANGED <<document, sns, alone>>
    BY <1>6 DEF PublishChange
  <2>3. ASSUME alone PROVE Running' = {} /\ ids[c] = stocks /\ (saved => filter = stocks)
    BY <1>6, <2>1, <2>3, OnlyRunner DEF Agrees, PublishChange
  <2> QED BY <2>1, <2>2, <2>3
<1>7. ASSUME NEW c \in Call, RemoveStock(c) PROVE LoneInvariant'
  <2>1. pc[c] = "idle" /\ alone' = (Running = {}) /\ UNCHANGED <<exists, saved, sns, reported>>
    BY <1>7 DEF RemoveStock, Start
  <2>2. CASE ~ exists
    <3>1. Running' = Running /\ UNCHANGED stocks
      BY <1>7, <2>1, <2>2, RunningStart DEF RemoveStock
    <3>2. stocks = {} /\ reported = {} /\ ~ saved
      BY <2>2 DEF TypeOK
    <3> QED BY <2>1, <3>1, <3>2
  <2>3. CASE exists
    <3>1. PICK s \in {"filter", "publish"} :
            Goto(c, s) /\ (s = "publish" => ~ saved) /\ ids'[c] = stocks'
      BY <1>7, <2>3 DEF RemoveStock, SetStocks, Returned, TypeOK
    <3>2. Running' = Running \cup {c} /\ pc'[c] = s
      BY <2>1, <3>1, RunningStart DEF Goto, TypeOK
    <3>3. ASSUME alone' PROVE Running' = {c} /\ Agrees(c)'
      BY <2>1, <3>1, <3>2, <3>3 DEF Agrees
    <3> QED BY <2>1, <2>3, <3>2, <3>3
  <2> QED BY <2>2, <2>3
<1>8. ASSUME NEW c \in Call, Fail(c) PROVE LoneInvariant'
  BY <1>8 DEF Fail
<1>9. CASE UNCHANGED vars
  BY <1>9 DEF vars, Running, Agrees
<1> QED
  BY <1>1, <1>2, <1>3, <1>4, <1>5, <1>6, <1>7, <1>8, <1>9 DEF Next, Rest

\* A request that runs alone and succeeds brings the filter policy and analytics
\* back to the document (subscribeUserToStock, unsubscribeUserFromStock).
THEOREM LoneRequestHealsHolds == Spec => []LoneRequestHeals
<1>1. LoneInvariant => LoneRequestHeals
  BY DEF LoneInvariant
<1> QED BY <1>1, TypeInit, TypeStep, LoneInit, LoneStep, PTL DEF Spec
=============================================================================
