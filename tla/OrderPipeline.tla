--------------------------- MODULE OrderPipeline ---------------------------
(***************************************************************************)
(* The path of a buy order through the service when QUEUE_DRIVER=bullmq:   *)
(* the HTTP handlers that create and cancel orders, the price worker, the  *)
(* evaluation worker that turns PENDING orders TRIGGERED, and the          *)
(* execution workers that debit the wallet, record the trade and update    *)
(* the portfolio.  Every await on MongoDB or Redis ends an action, so the  *)
(* handlers interleave as they do in the one Node process of the service.  *)
(*                                                                         *)
(* Sources: modules/orders/orders.service.ts, modules/queue/               *)
(* queue.service.ts, modules/wallet, modules/portfolio, modules/users and  *)
(* modules/stocks, all under src/src.                                      *)
(*                                                                         *)
(* Each operator whose name says what it gets wrong is a broken variant of *)
(* the operator below it; nothing uses it, and the properties refute it.   *)
(***************************************************************************)
EXTENDS JobQueue, FiniteSets, Functions

CONSTANTS
  Order,            \* create requests; each one inserts at most one order
  User, Symbol,     \* the registered users and the catalogue of stocks
  Price,            \* the prices a stock can have, 0 among them
  NoPrice,          \* no price read, or no trade recorded
  userOf, symbolOf, target, qty,   \* the body of each create request
  key,              \* its idempotency-key header, or NoKey
  NoKey,
  InitPrice,        \* the seeded price of each stock
  InitBalance,      \* the wallet of each user at the start
  TopUp,            \* the amounts a deposit may add
  ExecConcurrency,  \* jobs the execution worker runs at once (5 in the code)
  Limit             \* bound on each kind of event of the environment

\* What the environment does to the service a bounded number of times.
Event == {"price", "deposit", "crash", "error", "collision"}

ASSUME PriceAssumption == Price \subseteq Nat /\ NoPrice \notin Price
ASSUME RequestAssumption ==
  /\ userOf \in [Order -> User]
  /\ symbolOf \in [Order -> Symbol]
  /\ target \in [Order -> Nat]
  /\ qty \in [Order -> Nat \ {0}]
ASSUME StartAssumption ==
  /\ InitPrice \in [Symbol -> Price]
  /\ InitBalance \in [User -> Nat]
  /\ TopUp \subseteq Nat
ASSUME BoundAssumption ==
  /\ ExecConcurrency \in Nat
  /\ MaxStalls \in Nat
  /\ Limit \in [Event -> Nat]

VARIABLES
  \* MongoDB
  price,        \* stocks: currentPrice
  balance,      \* users: walletBalance
  status,       \* buy orders: status, "none" before the insert
  ledger,       \* wallet ledger: the amounts of the DEBIT rows of each order
  trade,        \* trade executions: executedPrice, NoPrice if there is none
  position,     \* portfolio: quantityOwned, 0 if there is no document
  taken,        \* history: the amounts reserveFunds took for each order
  \* one create request each
  req, seen,    \* its next step and the price it has read
  \* Redis, and the memory of the workers
  priceQueue, feedStep,
  evalQueue, evalStep, evalSeen, todo, marked,
  execJob, stalls, step, quote, held,
  spent         \* how often each Event has happened

books == <<price, balance, ledger, trade, position, taken>>
mongo == <<books, status>>
request == <<req, seen>>
feed == <<priceQueue, feedStep>>
evaluation == <<evalQueue, evalStep, evalSeen, todo, marked>>
job == <<execJob, stalls, quote, held>>
execution == <<job, step>>
vars == <<mongo, request, feed, evaluation, execution, spent>>

Status == {"none", "pending", "triggered", "executing", "completed",
           "cancelled", "failed"}
ReqStep == {"idle", "stock", "funds", "insert", "enqueue", "done"}
FeedStep == {"idle", "upsert", "enqueue", "finish"}
EvalStep == {"idle", "find", "mark", "enqueue"}
ExecStep == {"idle", "claim", "check", "quote", "release", "reserve", "ledger",
             "reject", "book", "read", "save", "complete", "finish"}
JobState == {"absent", "waiting", "active", "failed"}

Slot == User \X Symbol                    \* unique index of the portfolio
slot(o) == <<userOf[o], symbolOf[o]>>
cost(o, p) == qty[o] * p

Init ==
  /\ price = InitPrice
  /\ balance = InitBalance
  /\ status = [o \in Order |-> "none"]
  /\ ledger = [o \in Order |-> <<>>]
  /\ trade = [o \in Order |-> NoPrice]
  /\ position = [x \in Slot |-> 0]
  /\ taken = [o \in Order |-> <<>>]
  /\ req = [o \in Order |-> "idle"]
  /\ seen = [o \in Order |-> NoPrice]
  /\ priceQueue = <<>> /\ feedStep = "idle"
  /\ evalQueue = <<>> /\ evalStep = "idle" /\ evalSeen = NoPrice
  /\ todo = {} /\ marked = {}
  /\ execJob = [o \in Order |-> "absent"]
  /\ stalls = [o \in Order |-> 0]
  /\ step = [o \in Order |-> "idle"]
  /\ quote = [o \in Order |-> NoPrice]
  /\ held = [o \in Order |-> 0]
  /\ spent = [e \in Event |-> 0]

Spend(e) ==
  /\ spent[e] < Limit[e]
  /\ spent' = [spent EXCEPT ![e] = @ + 1]

-----------------------------------------------------------------------------
(* Adding a job.  BullMQ ignores an add whose jobId is already in Redis.   *)

OneIdPerSymbol(s) ==
  /\ evalQueue' = IF \E i \in 1 .. Len(evalQueue) : evalQueue[i].symbol = s THEN evalQueue
                  ELSE Append(evalQueue, [symbol |-> s, stalls |-> 0])
  /\ UNCHANGED spent

\* The id of an evaluation job is eval-SYMBOL-<millisecond>: two adds in the
\* same millisecond collide while the first job is still there.
AddEvaluation(s) ==
  \/ /\ evalQueue' = Append(evalQueue, [symbol |-> s, stalls |-> 0])
     /\ UNCHANGED spent
  \/ /\ \E i \in 1 .. Len(evalQueue) : evalQueue[i].symbol = s
     /\ Spend("collision")
     /\ UNCHANGED evalQueue

\* The id of an execution job is execute-<orderId>, whatever its state.
AddExecution(o) ==
  execJob' = IF execJob[o] = "absent" THEN [execJob EXCEPT ![o] = "waiting"]
             ELSE execJob

-----------------------------------------------------------------------------
(* POST /orders/buy-trigger: OrdersService.createBuyOrder                  *)

Goto(o, s) == req' = [req EXCEPT ![o] = s]
See(o, p) == seen' = [seen EXCEPT ![o] = p]
Answer(o) == Goto(o, "done") /\ See(o, NoPrice)

SameKey(o, a) == key[o] # NoKey /\ key[a] = key[o] /\ status[a] # "none"

\* An order already stored under the key answers the request.
ReceiveCreate(o) ==
  /\ req[o] = "idle"
  /\ Goto(o, IF \E a \in Order : SameKey(o, a) THEN "done" ELSE "stock")
  /\ UNCHANGED <<mongo, seen, feed, evaluation, execution, spent>>

ReadStock(o) ==
  /\ req[o] = "stock"
  /\ See(o, price[symbolOf[o]])
  /\ Goto(o, "funds")
  /\ UNCHANGED <<mongo, feed, evaluation, execution, spent>>

CheckFunds(o) ==
  /\ req[o] = "funds"
  /\ IF balance[userOf[o]] < cost(o, target[o]) THEN Answer(o)
     ELSE Goto(o, "insert") /\ UNCHANGED seen
  /\ UNCHANGED <<mongo, feed, evaluation, execution, spent>>

\* The unique index on idempotencyKey decides between concurrent requests.
NoIndex(o) == TRUE
IndexAllows(o) == ~ \E a \in Order : SameKey(o, a)

\* The trigger test uses the price read two awaits earlier.
InsertOrder(o) ==
  /\ req[o] = "insert"
  /\ IF IndexAllows(o)
     THEN /\ status' = [status EXCEPT ![o] = "pending"]
          /\ Goto(o, IF seen[o] <= target[o] THEN "enqueue" ELSE "done")
     ELSE Goto(o, "done") /\ UNCHANGED status
  /\ See(o, NoPrice)
  /\ UNCHANGED <<books, feed, evaluation, execution, spent>>

EnqueueOnCreate(o) ==
  /\ req[o] = "enqueue"
  /\ AddEvaluation(symbolOf[o])
  /\ Goto(o, "done")
  /\ UNCHANGED <<mongo, seen, feed, evalStep, evalSeen, todo, marked, execution>>

\* A read or a write of the handler fails and the client gets an error.
RequestError(o) ==
  /\ req[o] \in {"stock", "funds", "insert", "enqueue"}
  /\ Spend("error")
  /\ Answer(o)
  /\ UNCHANGED <<mongo, feed, evaluation, execution>>

CreateHandler(o) ==
  ReadStock(o) \/ CheckFunds(o) \/ InsertOrder(o) \/ EnqueueOnCreate(o)

CancellableLate == {"pending", "triggered", "executing"}
Cancellable == {"pending", "triggered"}

\* OrdersService.cancelOrder: one findOneAndUpdate, 404 for any other status.
CancelOrder(o) ==
  /\ status[o] \in Cancellable
  /\ status' = [status EXCEPT ![o] = "cancelled"]
  /\ UNCHANGED <<books, request, feed, evaluation, execution, spent>>

\* The $inc of WalletService.deposit; WalletLedger has the whole handler.
Deposit(u, amount) ==
  /\ Spend("deposit")
  /\ balance' = [balance EXCEPT ![u] = @ + amount]
  /\ UNCHANGED <<price, status, ledger, trade, position, taken, request, feed,
                 evaluation, execution>>

-----------------------------------------------------------------------------
(* Price updates: one worker of concurrency 1 on a FIFO queue (JobQueue);  *)
(* the head of the queue is the active job while feedStep is not "idle".   *)

\* The webhook and the provider sync both call enqueuePriceUpdate.
AnnouncePrice(s, p) ==
  /\ Spend("price")
  /\ priceQueue' = Append(priceQueue, [symbol |-> s, price |-> p, stalls |-> 0])
  /\ UNCHANGED <<mongo, request, feedStep, evaluation, execution>>

TakePriceJob ==
  /\ feedStep = "idle"
  /\ \E i \in Startable(priceQueue) : priceQueue' = Start(priceQueue, i)
  /\ feedStep' = "upsert"
  /\ UNCHANGED <<mongo, request, evaluation, execution, spent>>

UpsertPrice ==
  /\ feedStep = "upsert"
  /\ price' = [price EXCEPT ![Head(priceQueue).symbol] = Head(priceQueue).price]
  /\ feedStep' = "enqueue"
  /\ UNCHANGED <<balance, status, ledger, trade, position, taken, request,
                 priceQueue, evaluation, execution, spent>>

EnqueueAfterPrice ==
  /\ feedStep = "enqueue"
  /\ AddEvaluation(Head(priceQueue).symbol)
  /\ feedStep' = "finish"
  /\ UNCHANGED <<mongo, request, priceQueue, evalStep, evalSeen, todo, marked,
                 execution>>

EndPriceJob == priceQueue' = Tail(priceQueue) /\ feedStep' = "idle"

FinishPriceJob ==
  /\ feedStep = "finish"
  /\ EndPriceJob
  /\ UNCHANGED <<mongo, request, evaluation, execution, spent>>

\* No attempts option: a job that throws has failed for good.
PriceError ==
  /\ feedStep \in {"upsert", "enqueue"}
  /\ Spend("error")
  /\ EndPriceJob
  /\ UNCHANGED <<mongo, request, evaluation, execution>>

PriceWorker == TakePriceJob \/ UpsertPrice \/ EnqueueAfterPrice \/ FinishPriceJob

-----------------------------------------------------------------------------
(* Trigger evaluation: one worker of concurrency 1.                        *)

\* Take the next job and read the price of its stock.
StartEvaluation ==
  /\ evalStep = "idle"
  /\ \E i \in Startable(evalQueue) :
       /\ evalQueue' = Start(evalQueue, i)
       /\ evalSeen' = price[evalQueue[i].symbol]
  /\ evalStep' = "find"
  /\ UNCHANGED <<mongo, request, feed, todo, marked, execution, spent>>

EligibleStrictly(s, p) ==
  {o \in Order : symbolOf[o] = s /\ status[o] = "pending" /\ target[o] > p}
Eligible(s, p) ==
  {o \in Order : symbolOf[o] = s /\ status[o] = "pending" /\ target[o] >= p}

FindEligible ==
  /\ evalStep = "find"
  /\ todo' = Eligible(Head(evalQueue).symbol, evalSeen)
  /\ evalStep' = "mark"
  /\ UNCHANGED <<mongo, request, feed, evalQueue, evalSeen, marked, execution, spent>>

\* markTriggered changes nothing unless the order is still PENDING.
SeenPending(o) == TRUE
StillPending(o) == status[o] = "pending"

MarkTriggered(o) ==
  /\ evalStep = "mark" /\ o \in todo
  /\ todo' = todo \ {o}
  /\ IF StillPending(o)
     THEN /\ status' = [status EXCEPT ![o] = "triggered"]
          /\ marked' = {o} /\ evalStep' = "enqueue"
     ELSE UNCHANGED <<status, marked, evalStep>>
  /\ UNCHANGED <<books, request, feed, evalQueue, evalSeen, execution, spent>>

EnqueueExecution ==
  /\ evalStep = "enqueue"
  /\ \E o \in marked : AddExecution(o)
  /\ marked' = {} /\ evalStep' = "mark"
  /\ UNCHANGED <<mongo, request, feed, evalQueue, evalSeen, todo, stalls, step,
                 quote, held, spent>>

ForgetEvaluation ==
  evalStep' = "idle" /\ evalSeen' = NoPrice /\ todo' = {} /\ marked' = {}

FinishEvaluation ==
  /\ evalStep = "mark" /\ todo = {}
  /\ evalQueue' = Tail(evalQueue)
  /\ ForgetEvaluation
  /\ UNCHANGED <<mongo, request, feed, execution, spent>>

\* The orders still to be marked, or marked and not enqueued, are dropped.
EvaluationError ==
  /\ evalStep \in {"find", "enqueue"} \/ (evalStep = "mark" /\ todo # {})
  /\ Spend("error")
  /\ evalQueue' = Tail(evalQueue)
  /\ ForgetEvaluation
  /\ UNCHANGED <<mongo, request, feed, execution>>

EvaluationWorker ==
  \/ StartEvaluation \/ FindEligible \/ EnqueueExecution \/ FinishEvaluation
  \/ \E o \in Order : MarkTriggered(o)

-----------------------------------------------------------------------------
(* Order execution: OrdersService.executeTriggeredOrder.                   *)

Advance(o, s) == step' = [step EXCEPT ![o] = s]

\* The handler of o's job ends; its job is removed, or retained as failed.
EndExecution(o, state) ==
  /\ Advance(o, "idle")
  /\ execJob' = [execJob EXCEPT ![o] = state]
  /\ stalls' = [stalls EXCEPT ![o] = 0]
  /\ quote' = [quote EXCEPT ![o] = NoPrice]
  /\ held' = [held EXCEPT ![o] = 0]

\* Jobs start in any order here; FIFO is one of these orders.
TakeExecution(o) ==
  /\ execJob[o] = "waiting"
  /\ Cardinality({a \in Order : execJob[a] = "active"}) < ExecConcurrency
  /\ execJob' = [execJob EXCEPT ![o] = "active"]
  /\ Advance(o, "claim")
  /\ UNCHANGED <<mongo, request, feed, evaluation, stalls, quote, held, spent>>

ClaimableAgain(o) == status[o] \in {"triggered", "executing"}
Claimable(o) == status[o] = "triggered"

Claim(o) ==
  /\ step[o] = "claim"
  /\ IF Claimable(o)
     THEN status' = [status EXCEPT ![o] = "executing"] /\ Advance(o, "check")
     ELSE UNCHANGED status /\ Advance(o, "finish")
  /\ UNCHANGED <<books, request, feed, evaluation, job, spent>>

\* A trade execution that already exists completes the order.
CheckExisting(o) ==
  /\ step[o] = "check"
  /\ IF trade[o] # NoPrice
     THEN status' = [status EXCEPT ![o] = "completed"] /\ Advance(o, "finish")
     ELSE UNCHANGED status /\ Advance(o, "quote")
  /\ UNCHANGED <<books, request, feed, evaluation, job, spent>>

Above(o, p) == p > target[o]

ReadQuote(o) ==
  /\ step[o] = "quote"
  /\ quote' = [quote EXCEPT ![o] = price[symbolOf[o]]]
  /\ Advance(o, IF Above(o, price[symbolOf[o]]) THEN "release" ELSE "reserve")
  /\ UNCHANGED <<mongo, request, feed, evaluation, execJob, stalls, held, spent>>

\* updateOne by _id alone: the status is not part of the filter.
Release(o) ==
  /\ step[o] = "release"
  /\ status' = [status EXCEPT ![o] = "pending"]
  /\ Advance(o, "finish")
  /\ UNCHANGED <<books, request, feed, evaluation, job, spent>>

CanPayUnit(o) == balance[userOf[o]] >= quote[o]
CanPay(o) == balance[userOf[o]] >= cost(o, quote[o])

Debit(o) ==
  /\ balance' = [balance EXCEPT ![userOf[o]] = @ - cost(o, quote[o])]
  /\ taken' = [taken EXCEPT ![o] = Append(@, cost(o, quote[o]))]

RefuseAfterDebit(o) == Debit(o)
Refuse(o) == UNCHANGED <<balance, taken>>

\* usersService.reserveFunds: one findOneAndUpdate; null makes debitForOrder throw.
Reserve(o) ==
  /\ step[o] = "reserve"
  /\ IF CanPay(o) THEN Debit(o) /\ Advance(o, "ledger")
     ELSE Refuse(o) /\ Advance(o, "reject")
  /\ UNCHANGED <<price, status, ledger, trade, position, request, feed,
                 evaluation, job, spent>>

\* tradeExecution.create comes before applyExecution.
PortfolioFirst == "read"
AfterLedger == "book"

WriteLedger(o) ==
  /\ step[o] = "ledger"
  /\ ledger' = [ledger EXCEPT ![o] = Append(@, cost(o, quote[o]))]
  /\ Advance(o, AfterLedger)
  /\ UNCHANGED <<price, balance, status, trade, position, taken, request, feed,
                 evaluation, job, spent>>

\* The two guarded updates filter on EXECUTING.
FiltersOnTriggered(s) == s = "triggered"
StillExecuting(s) == s = "executing"

Settle(o, s) == status' = [status EXCEPT ![o] = IF StillExecuting(@) THEN s ELSE @]

\* The catch returns null, so that nothing is booked after a rejection.
FallsThrough == "book"
AfterReject == "finish"

\* The catch around debitForOrder, whatever was thrown.
Reject(o) ==
  /\ step[o] = "reject"
  /\ Settle(o, "failed")
  /\ Advance(o, AfterReject)
  /\ UNCHANGED <<books, request, feed, evaluation, job, spent>>

Book(o) ==
  /\ step[o] = "book"
  /\ trade' = [trade EXCEPT ![o] = quote[o]]
  /\ Advance(o, "read")
  /\ UNCHANGED <<price, balance, status, ledger, position, taken, request, feed,
                 evaluation, job, spent>>

\* portfolioService.applyExecution: findOne, then create or save.
ReadPosition(o) ==
  /\ step[o] = "read"
  /\ held' = [held EXCEPT ![o] = position[slot(o)]]
  /\ Advance(o, "save")
  /\ UNCHANGED <<mongo, request, feed, evaluation, execJob, stalls, quote, spent>>

\* save() sets the sum computed from the document read; create() inserts, and
\* the unique index refuses a second document for the same user and symbol.
DuplicatePosition(o) == held[o] = 0 /\ position[slot(o)] # 0

SavePosition(o) ==
  /\ step[o] = "save"
  /\ ~ DuplicatePosition(o)
  /\ position' = [position EXCEPT ![slot(o)] = held[o] + qty[o]]
  /\ Advance(o, "complete")
  /\ UNCHANGED <<price, balance, status, ledger, trade, taken, request, feed,
                 evaluation, job, spent>>

PositionRefused(o) ==
  /\ step[o] = "save"
  /\ DuplicatePosition(o)
  /\ EndExecution(o, "failed")
  /\ UNCHANGED <<mongo, request, feed, evaluation, spent>>

Complete(o) ==
  /\ step[o] = "complete"
  /\ Settle(o, "completed")
  /\ Advance(o, "finish")
  /\ UNCHANGED <<books, request, feed, evaluation, job, spent>>

\* removeOnComplete: only now can the same order be enqueued again.
FinishExecution(o) ==
  /\ step[o] = "finish"
  /\ EndExecution(o, "absent")
  /\ UNCHANGED <<mongo, request, feed, evaluation, spent>>

\* A failure while debiting is caught; any other fails the job.
DebitError(o) ==
  /\ step[o] \in {"reserve", "ledger"}
  /\ Spend("error")
  /\ Advance(o, "reject")
  /\ UNCHANGED <<mongo, request, feed, evaluation, job>>

ExecutionError(o) ==
  /\ step[o] \in ExecStep \ {"idle", "reserve", "ledger", "finish"}
  /\ Spend("error")
  /\ EndExecution(o, "failed")
  /\ UNCHANGED <<mongo, request, feed, evaluation>>

ExecutionWorker(o) ==
  \/ TakeExecution(o) \/ Claim(o) \/ CheckExisting(o) \/ ReadQuote(o)
  \/ Release(o) \/ Reserve(o) \/ WriteLedger(o) \/ Reject(o) \/ Book(o)
  \/ ReadPosition(o) \/ SavePosition(o) \/ PositionRefused(o) \/ Complete(o)
  \/ FinishExecution(o)

-----------------------------------------------------------------------------
(* The process dies and restarts.  Its requests and its memory are lost;   *)
(* MongoDB and Redis survive.  BullMQ finds the active jobs stalled and    *)
(* puts them back, or fails them after MaxStalls times.                    *)

StalledIsFailed(o) == "failed"
Stalled(o) == IF stalls[o] < MaxStalls THEN "waiting" ELSE "failed"

Crash ==
  /\ Spend("crash")
  /\ req' = [o \in Order |-> IF req[o] = "idle" THEN "idle" ELSE "done"]
  /\ seen' = [o \in Order |-> NoPrice]
  /\ priceQueue' = IF feedStep = "idle" THEN priceQueue ELSE Restall(priceQueue)
  /\ feedStep' = "idle"
  /\ evalQueue' = IF evalStep = "idle" THEN evalQueue ELSE Restall(evalQueue)
  /\ ForgetEvaluation
  /\ execJob' = [o \in Order |->
                  IF execJob[o] = "active" THEN Stalled(o) ELSE execJob[o]]
  /\ stalls' = [o \in Order |->
                 IF execJob[o] = "active" /\ stalls[o] < MaxStalls
                 THEN stalls[o] + 1 ELSE stalls[o]]
  /\ step' = [o \in Order |-> "idle"]
  /\ quote' = [o \in Order |-> NoPrice]
  /\ held' = [o \in Order |-> 0]
  /\ UNCHANGED mongo

Quiescent ==
  /\ priceQueue = <<>> /\ evalQueue = <<>>
  /\ \A o \in Order : req[o] \in {"idle", "done"} /\ execJob[o] \in {"absent", "failed"}

\* Nothing is left to do but what the environment may still ask for.
Rest == Quiescent /\ UNCHANGED vars

Environment ==
  \/ \E o \in Order : ReceiveCreate(o) \/ CancelOrder(o)
  \/ \E u \in User, amount \in TopUp : Deposit(u, amount)
  \/ \E s \in Symbol, p \in Price : AnnouncePrice(s, p)
  \/ Crash \/ PriceError \/ EvaluationError
  \/ \E o \in Order : RequestError(o) \/ DebitError(o) \/ ExecutionError(o)

Next ==
  \/ Environment
  \/ PriceWorker
  \/ EvaluationWorker
  \/ \E o \in Order : CreateHandler(o) \/ ExecutionWorker(o)
  \/ Rest

Spec == Init /\ [][Next]_vars

\* Node keeps running every handler that has been started, and BullMQ keeps
\* handing waiting jobs to idle workers.  Nothing makes the environment act.
Fairness ==
  /\ WF_vars(PriceWorker) /\ WF_vars(EvaluationWorker)
  /\ \A o \in Order : WF_vars(CreateHandler(o)) /\ WF_vars(ExecutionWorker(o))

FairSpec == Spec /\ Fairness

-----------------------------------------------------------------------------
(* What the pipeline guarantees.                                           *)

PriceJob == [symbol : Symbol, price : Price, stalls : Nat]
EvaluationJob == [symbol : Symbol, stalls : Nat]

\* Every variable has its type: in particular no wallet is ever overdrawn,
\* although the balance is tested long before it is debited (walletBalance).
TypeOK ==
  /\ price \in [Symbol -> Price]
  /\ balance \in [User -> Nat]
  /\ status \in [Order -> Status]
  /\ ledger \in [Order -> Seq(Nat)]
  /\ trade \in [Order -> Price \cup {NoPrice}]
  /\ position \in [Slot -> Nat]
  /\ taken \in [Order -> Seq(Nat)]
  /\ req \in [Order -> ReqStep]
  /\ seen \in [Order -> Price \cup {NoPrice}]
  /\ priceQueue \in Seq(PriceJob)
  /\ feedStep \in FeedStep
  /\ feedStep # "idle" => priceQueue # <<>>
  /\ evalQueue \in Seq(EvaluationJob)
  /\ evalStep \in EvalStep
  /\ evalStep # "idle" => evalQueue # <<>>
  /\ evalSeen \in Price \cup {NoPrice}
  /\ todo \in SUBSET Order
  /\ marked \in SUBSET Order
  /\ execJob \in [Order -> JobState]
  /\ stalls \in [Order -> Nat]
  /\ step \in [Order -> ExecStep]
  /\ quote \in [Order -> Price \cup {NoPrice}]
  /\ \A o \in Order : step[o] \in {"reserve", "ledger"} => quote[o] \in Price
  /\ held \in [Order -> Nat]
  /\ spent \in [Event -> Nat]

\* o has cost nothing and bought nothing.
Untouched(o) == taken[o] = <<>> /\ ledger[o] = <<>> /\ trade[o] = NoPrice

\* o was charged once, at price p within its target.
ChargedAt(o, p) == p <= target[o] /\ taken[o] = <<cost(o, p)>>

\* No order is charged twice or above its target, whatever is claimed again,
\* retried or cut short by a crash (executeTriggeredOrder, reserveFunds).
ChargedAtMostOnce ==
  \A o \in Order : taken[o] = <<>> \/ \E p \in Price : ChargedAt(o, p)

\* A trade execution stands for one debit of exactly its cost, with its row
\* in the ledger, and a COMPLETED order has a trade execution.
BooksAgree ==
  \A o \in Order :
    /\ trade[o] # NoPrice => ChargedAt(o, trade[o]) /\ ledger[o] = taken[o]
    /\ status[o] = "completed" => trade[o] # NoPrice

\* An order that waits, or that was cancelled while evaluation and execution
\* were racing with the cancel, has cost nothing.
IdleOrdersAreFree ==
  \A o \in Order :
    status[o] \in {"none", "pending", "triggered", "cancelled"} => Untouched(o)

\* FAILED, "wallet balance was insufficient": then no money was taken.  A call
\* that fails after reserveFunds has taken it ends as FAILED, too, so that this
\* holds only as long as no call has failed.
RejectedIsUncharged ==
  \A o \in Order : status[o] = "failed" => taken[o] = <<>>

\* Requests that share an idempotency key make one order.
OneOrderPerKey ==
  \A a, b \in Order :
    key[a] = key[b] /\ key[a] # NoKey /\ status[a] # "none" /\ status[b] # "none"
      => a = b

\* The shares that the trades of a user bought of a stock.
Bought(x) == SumFunctionOnSet(qty, {o \in Order : slot(o) = x /\ trade[o] # NoPrice})

\* The portfolio never shows shares that no trade bought.
PositionWithinTrades == \A x \in Slot : position[x] <= Bought(x)

\* COMPLETED, CANCELLED and FAILED orders stay what they are, although two of
\* the updates of executeTriggeredOrder do not test the status.
TerminalIsFinal ==
  [][\A o \in Order :
       status[o] \in {"completed", "cancelled", "failed"} => status'[o] = status[o]]_vars

\* The claim is exclusive: an EXECUTING order changes only by a step of the
\* job that is active for it, so neither a cancel nor an evaluation gets in.
ClaimIsExclusive ==
  [][\A o \in Order :
       status[o] = "executing" /\ status'[o] # "executing"
         => /\ step[o] \in {"check", "release", "reject", "complete"}
            /\ step'[o] = "finish"]_vars

\* The promise of the service to the owner of an order, and how the documents
\* of an order show it: a CANCELLED and a FAILED order are both void.
PhaseOf(s) ==
  CASE s = "none" -> "none"
    [] s \in {"pending", "triggered"} -> "open"
    [] s = "executing" -> "working"
    [] s = "completed" -> "bought"
    [] s \in {"cancelled", "failed"} -> "void"

phaseOf == [o \in Order |-> PhaseOf(status[o])]

Contract == INSTANCE OrderContract
  WITH phase <- phaseOf, bill <- taken, failed <- spent["error"] > 0

\* The pipeline keeps the contract of OrderContract, through crashes, failing
\* calls and any interleaving of its handlers.
KeepsContract == Contract!Spec

\* An evaluation of stock s that has not read the price yet.
EvaluationAhead(s) ==
  \E i \in 1 .. Len(evalQueue) :
    evalQueue[i].symbol = s /\ (i > 1 \/ evalStep = "idle")

\* A price update of s whose evaluation is still to be enqueued.
UpdateAhead(s) ==
  \E i \in 1 .. Len(priceQueue) :
    priceQueue[i].symbol = s /\ (i > 1 \/ feedStep # "finish")

Hit(o) == status[o] = "pending" /\ price[symbolOf[o]] <= target[o]

\* A PENDING order whose price is right is triggered once an evaluation of its
\* stock is still to read the price, or a price update is still to enqueue one,
\* unless the price rises above the target again.  Only three things can undo
\* that: a call that fails in the meantime, before the evaluation has got to
\* the order; a job id that collides in the meantime; and one crash more than a
\* stalled job survives (processOrderEvaluation, enqueueOrderEvaluation).
EvaluationTriggers ==
  \A o \in Order, e \in 0 .. Limit["error"], c \in 0 .. Limit["collision"] :
    (/\ Hit(o)
     /\ EvaluationAhead(symbolOf[o]) \/ UpdateAhead(symbolOf[o])
     /\ spent["error"] = e /\ spent["collision"] = c)
      ~> \/ ~ Hit(o)
         \/ spent["error"] > e \/ spent["collision"] > c \/ spent["crash"] > MaxStalls

\* A TRIGGERED order with a waiting job is claimed, cancelled or released.
TriggeredJobRuns ==
  \A o \in Order :
    (status[o] = "triggered" /\ execJob[o] = "waiting") ~> (status[o] # "triggered")

\* What two executions of one position can end with: o is paid and booked, and
\* the unique index has refused the document that its job created.
BookedOnly(o) == trade[o] # NoPrice /\ position[slot(o)] # 0

\* A claimed order is completed, rejected or released in the end; it stays
\* EXECUTING only if the process has died, or with a failed job to show for it:
\* after a call that failed, or as BookedOnly (executeTriggeredOrder).
ClaimSettles ==
  \A o \in Order :
    (status[o] = "executing")
      ~> \/ status[o] # "executing" \/ spent["crash"] > 0
         \/ execJob[o] = "failed" /\ (spent["error"] > 0 \/ BookedOnly(o))

-----------------------------------------------------------------------------
(* What the documentation promises and the pipeline does not keep.         *)

\* "Triggered buy orders that execute when currentPrice <= targetPrice": once
\* everything has run, no order is left TRIGGERED with the price at its target.
NoStrandedTrigger ==
  Quiescent => \A o \in Order : status[o] = "triggered" => price[symbolOf[o]] > target[o]

\* "Persistent ... portfolio positions": once everything has run, the position
\* shows the shares of all trades.
PositionCoversTrades ==
  Quiescent => \A x \in Slot : position[x] = Bought(x)
=============================================================================
