--------------------------- MODULE InlinePipeline ---------------------------
(***************************************************************************)
(* The pipeline of OrderPipeline with QUEUE_DRIVER=inline, the driver of   *)
(* local testing and of the end-to-end tests: nothing is queued.  The HTTP *)
(* handler that creates an order, or that receives a price, itself         *)
(* evaluates the orders of the stock and executes those it has triggered,  *)
(* one after the other, before it answers.  Handlers of several requests   *)
(* interleave at every await; what one throws ends it, and nothing is run  *)
(* again after a crash.                                                    *)
(*                                                                         *)
(* Sources: modules/queue/queue.service.ts, modules/orders/                *)
(* orders.service.ts and modules/price-events under src/src.  The steps of *)
(* createBuyOrder and executeTriggeredOrder are those of OrderPipeline;    *)
(* its queues stay empty.                                                  *)
(*                                                                         *)
(* Operators that nothing uses are broken variants of the ones below them. *)
(***************************************************************************)
EXTENDS OrderPipeline

CONSTANTS Hook, about   \* the webhook's callers, and the stock each tells of

ASSUME HookAssumption == Hook \cap Order = {} /\ about \in [Hook -> Symbol]

VARIABLES
  at,     \* where the handler of each request is in the queue service
  told,   \* the price it was told, then the one its evaluation has read
  left,   \* the eligible orders that it has still to mark
  runs    \* the order that it executes, if it has still something to do

handlers == <<at, told, left, runs>>

Handler == Order \cup Hook
stockOf(h) == IF h \in Order THEN symbolOf[h] ELSE about[h]

InlineInit ==
  /\ Init
  /\ at = [h \in Handler |-> "rest"]
  /\ told = [h \in Handler |-> NoPrice]
  /\ left = [h \in Handler |-> {}]
  /\ runs = [h \in Handler |-> {}]

Continue(h, place) == at' = [at EXCEPT ![h] = place]

\* The handler of h returns or throws; the create request has its answer.
Leave(h) ==
  /\ Continue(h, "rest")
  /\ told' = [told EXCEPT ![h] = NoPrice]
  /\ left' = [left EXCEPT ![h] = {}]
  /\ runs' = [runs EXCEPT ![h] = {}]
  /\ req' = IF h \in Order THEN [req EXCEPT ![h] = "done"] ELSE req

-----------------------------------------------------------------------------
(* enqueuePriceUpdate calls processPriceUpdate.                            *)

ReceivePrice(w, p) ==
  /\ at[w] = "rest"
  /\ Spend("price")
  /\ Continue(w, "upsert")
  /\ told' = [told EXCEPT ![w] = p]
  /\ UNCHANGED <<mongo, request, feed, evaluation, execution, left, runs>>

InlineUpsert(w) ==
  /\ at[w] = "upsert"
  /\ price' = [price EXCEPT ![about[w]] = told[w]]
  /\ Continue(w, "read")
  /\ UNCHANGED <<balance, status, ledger, trade, position, taken, request, feed,
                 evaluation, execution, spent, told, left, runs>>

-----------------------------------------------------------------------------
(* enqueueOrderEvaluation calls processOrderEvaluation.                    *)

Evaluates(h) == IF h \in Order THEN req[h] = "enqueue" /\ at[h] = "rest" ELSE at[h] = "read"

InlineRead(h) ==
  /\ Evaluates(h)
  /\ told' = [told EXCEPT ![h] = price[stockOf(h)]]
  /\ Continue(h, "find")
  /\ UNCHANGED <<mongo, request, feed, evaluation, execution, spent, left, runs>>

InlineFind(h) ==
  /\ at[h] = "find"
  /\ left' = [left EXCEPT ![h] = Eligible(stockOf(h), told[h])]
  /\ Continue(h, "mark")
  /\ UNCHANGED <<mongo, request, feed, evaluation, execution, spent, told, runs>>

\* enqueueOrderExecution calls processOrderExecution for each marked order.  An
\* execution that has nothing left to do but return no longer has the order; its
\* local variables are set again before they are used.
ForgetsToExecute(h, o) == UNCHANGED <<step, at, runs>>
Executes(h, o) ==
  /\ Advance(o, "claim")
  /\ Continue(h, "run")
  /\ runs' = [i \in Handler |->
               IF i = h THEN {o} ELSE IF step[o] = "finish" THEN runs[i] \ {o} ELSE runs[i]]

InlineMark(h, o) ==
  /\ at[h] = "mark"
  /\ left' = [left EXCEPT ![h] = @ \ {o}]
  /\ IF StillPending(o)
     THEN status' = [status EXCEPT ![o] = "triggered"] /\ Executes(h, o)
     ELSE UNCHANGED <<status, step, at, runs>>
  /\ UNCHANGED <<books, request, feed, evaluation, job, spent, told>>

InlineReturn(h) ==
  /\ at[h] = "run"
  /\ \/ runs[h] = {} /\ UNCHANGED execution
     \/ \E o \in runs[h] : step[o] = "finish" /\ EndExecution(o, "absent")
  /\ runs' = [runs EXCEPT ![h] = {}]
  /\ Continue(h, "mark")
  /\ UNCHANGED <<mongo, request, feed, evaluation, spent, told, left>>

InlineFinish(h) ==
  /\ at[h] = "mark" /\ left[h] = {}
  /\ Leave(h)
  /\ UNCHANGED <<mongo, seen, feed, evaluation, execution, spent>>

-----------------------------------------------------------------------------
(* Whatever is thrown goes through every caller up to the HTTP request.    *)

\* A call fails outside an execution.
EvaluationThrows(h) ==
  /\ at[h] \in {"upsert", "find"} \/ Evaluates(h) \/ (at[h] = "mark" /\ left[h] # {})
  /\ Spend("error")
  /\ Leave(h)
  /\ UNCHANGED <<mongo, seen, feed, evaluation, execution>>

\* A call of an execution fails, or the portfolio is refused: the orders that
\* are still to be marked stay as they are.
ExecutionThrows(h) ==
  /\ \E o \in runs[h] :
       /\ \/ /\ step[o] \in ExecStep \ {"idle", "reserve", "ledger", "finish"}
             /\ Spend("error")
          \/ step[o] = "save" /\ DuplicatePosition(o) /\ UNCHANGED spent
       /\ EndExecution(o, "absent")
  /\ Leave(h)
  /\ UNCHANGED <<mongo, seen, feed, evaluation>>

\* The crash of OrderPipeline, with nothing in Redis to run again.
InlineCrash ==
  /\ Crash
  /\ at' = [h \in Handler |-> "rest"]
  /\ told' = [h \in Handler |-> NoPrice]
  /\ left' = [h \in Handler |-> {}]
  /\ runs' = [h \in Handler |-> {}]

-----------------------------------------------------------------------------

InlineExecution(o) ==
  \/ Claim(o) \/ CheckExisting(o) \/ ReadQuote(o) \/ Release(o) \/ Reserve(o)
  \/ WriteLedger(o) \/ Reject(o) \/ Book(o) \/ ReadPosition(o) \/ SavePosition(o)
  \/ Complete(o)

\* The handler of a request: of createBuyOrder, before it comes to the call of
\* enqueueOrderEvaluation, or of the webhook; then of an evaluation.
InlineHandler(h) ==
  \/ /\ h \in Order /\ UNCHANGED handlers
     /\ ReadStock(h) \/ CheckFunds(h) \/ InsertOrder(h)
  \/ h \in Hook /\ InlineUpsert(h)
  \/ InlineRead(h) \/ InlineFind(h) \/ InlineReturn(h) \/ InlineFinish(h)
  \/ \E o \in left[h] : InlineMark(h, o)
  \/ \E o \in runs[h] : InlineExecution(o) /\ UNCHANGED handlers

InlineEnvironment ==
  \/ \E o \in Order :
       /\ \/ ReceiveCreate(o) \/ CancelOrder(o) \/ DebitError(o)
          \/ req[o] # "enqueue" /\ RequestError(o)
       /\ UNCHANGED handlers
  \/ \E u \in User, amount \in TopUp : Deposit(u, amount) /\ UNCHANGED handlers
  \/ \E w \in Hook, p \in Price : ReceivePrice(w, p)
  \/ \E h \in Handler : EvaluationThrows(h) \/ ExecutionThrows(h)
  \/ InlineCrash

InlineRest ==
  /\ \A h \in Handler : at[h] = "rest"
  /\ \A o \in Order : req[o] \in {"idle", "done"}
  /\ UNCHANGED <<vars, handlers>>

InlineNext ==
  \/ InlineEnvironment
  \/ \E h \in Handler : InlineHandler(h)
  \/ InlineRest

\* Node keeps running every handler that has been started.
InlineSpec ==
  /\ InlineInit /\ [][InlineNext]_<<vars, handlers>>
  /\ \A h \in Handler : WF_<<vars, handlers>>(InlineHandler(h))

-----------------------------------------------------------------------------

\* The types, for the proofs: nothing is ever queued.
InlineTypeOK ==
  /\ TypeOK
  /\ at \in [Handler -> {"rest", "upsert", "read", "find", "mark", "run"}]
  /\ told \in [Handler -> Price \cup {NoPrice}]
  /\ left \in [Handler -> SUBSET Order] /\ runs \in [Handler -> SUBSET Order]
  /\ priceQueue = <<>> /\ evalQueue = <<>>

\* Two handlers that have found the same order eligible never both execute it:
\* the filter of markTriggered lets one through, and only an order that the
\* first has released can be let through again (processOrderEvaluation).
OneHandlerPerOrder ==
  \A h, i \in Handler : h # i => runs[h] \cap runs[i] = {}

\* Unlike the queues, which may leave a TRIGGERED order without a job, the
\* inline driver serves each order that it has triggered: it is bought,
\* rejected, cancelled or released, unless a call fails or the process dies; at
\* worst its trade is recorded and the portfolio refused (processOrderEvaluation).
TriggeredIsServed ==
  \A o \in Order :
    (status[o] \in {"triggered", "executing"})
      ~> \/ status[o] \notin {"triggered", "executing"} \/ trade[o] # NoPrice
         \/ spent["error"] > 0 \/ spent["crash"] > 0
=============================================================================
