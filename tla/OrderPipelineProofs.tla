------------------------ MODULE OrderPipelineProofs ------------------------
(* Theorems about OrderPipeline and InlinePipeline, for any orders, users, *)
(* stocks, callers of the webhook and bounds.                              *)
EXTENDS InlinePipeline, SequenceTheorems, Sums, TLAPS

USE DEF books, job

-----------------------------------------------------------------------------
(* Type correctness.                                                       *)

LEMMA TypeInit == Init => TypeOK
  BY PriceAssumption, StartAssumption
     DEF Init, TypeOK, Status, ReqStep, FeedStep, EvalStep, ExecStep, JobState,
         Slot, Event

\* Removing the head of a queue leaves a queue.
LEMMA HeadAndTail ==
  ASSUME NEW S, NEW q \in Seq(S), q # <<>>
  PROVE  Tail(q) \in Seq(S) /\ Head(q) \in S
  BY HeadTailProperties

\* So does counting a stall of the job at its head.
LEMMA RestallPrice ==
  ASSUME NEW q \in Seq(PriceJob), q # <<>>
  PROVE  Restall(q) \in Seq(PriceJob)
<1>1. Head(q) = q[1] /\ q[1] \in PriceJob /\ 1 \in 1 .. Len(q) /\ Tail(q) \in Seq(PriceJob)
  BY HeadTailProperties, ElementOfSeq, EmptySeq, LenProperties
<1>2. [q[1] EXCEPT !.stalls = @ + 1] \in PriceJob
  BY <1>1 DEF PriceJob
<1>3. [q EXCEPT ![1] = [q[1] EXCEPT !.stalls = @ + 1]] \in Seq(PriceJob)
  BY <1>1, <1>2, ExceptSeq
<1> QED
  BY <1>1, <1>3, BoundAssumption DEF Restall

LEMMA RestallEvaluation ==
  ASSUME NEW q \in Seq(EvaluationJob), q # <<>>
  PROVE  Restall(q) \in Seq(EvaluationJob)
<1>1. Head(q) = q[1] /\ q[1] \in EvaluationJob /\ 1 \in 1 .. Len(q) /\ Tail(q) \in Seq(EvaluationJob)
  BY HeadTailProperties, ElementOfSeq, EmptySeq, LenProperties
<1>2. [q[1] EXCEPT !.stalls = @ + 1] \in EvaluationJob
  BY <1>1 DEF EvaluationJob
<1>3. [q EXCEPT ![1] = [q[1] EXCEPT !.stalls = @ + 1]] \in Seq(EvaluationJob)
  BY <1>1, <1>2, ExceptSeq
<1> QED
  BY <1>1, <1>3, BoundAssumption DEF Restall

\* So does taking up the next job, which becomes the head.
LEMMA StartType ==
  ASSUME NEW S, NEW q \in Seq(S), NEW i \in Startable(q)
  PROVE  q[i] \in S /\ Start(q, i) \in Seq(S) /\ Start(q, i) # <<>>
<1>1. i \in 1 .. Len(q) /\ Len(q) \in Nat
  BY LenProperties DEF Startable
<1>2. q[i] \in S /\ <<q[i]>> \in Seq(S) /\ Len(<<q[i]>>) = 1
  BY <1>1, ElementOfSeq
<1>3. SubSeq(q, 1, i - 1) \in Seq(S)
  BY <1>1
<1>4. SubSeq(q, i + 1, Len(q)) \in Seq(S)
  BY <1>1
<1>5. <<q[i]>> \o SubSeq(q, 1, i - 1) \in Seq(S) /\ Len(<<q[i]>> \o SubSeq(q, 1, i - 1)) >= 1
  BY <1>2, <1>3, ConcatProperties, LenProperties
<1>6. Start(q, i) \in Seq(S) /\ Len(Start(q, i)) >= 1
  BY <1>4, <1>5, ConcatProperties, LenProperties DEF Start
<1> QED
  BY <1>2, <1>6, EmptySeq

LEMMA CostIsNat ==
  ASSUME NEW o \in Order, NEW p \in Nat
  PROVE  cost(o, p) \in Nat
  BY RequestAssumption DEF cost

\* Counting an event keeps the counters natural numbers.
LEMMA SpendType ==
  ASSUME spent \in [Event -> Nat], NEW e \in Event, Spend(e)
  PROVE  spent' \in [Event -> Nat]
  BY DEF Spend

LEMMA Events == {"price", "deposit", "crash", "error", "collision"} \subseteq Event
  BY DEF Event

LEMMA AppendToPrices ==
  ASSUME priceQueue \in Seq(PriceJob), NEW entry \in PriceJob
  PROVE  Append(priceQueue, entry) \in Seq(PriceJob) /\ Append(priceQueue, entry) # <<>>
  BY AppendProperties

LEMMA AddEvaluationType ==
  ASSUME evalQueue \in Seq(EvaluationJob), evalStep # "idle" => evalQueue # <<>>,
         spent \in [Event -> Nat], NEW s \in Symbol, AddEvaluation(s)
  PROVE  /\ evalQueue' \in Seq(EvaluationJob)
         /\ evalStep # "idle" => evalQueue' # <<>>
         /\ spent' \in [Event -> Nat]
<1> DEFINE entry == [symbol |-> s, stalls |-> 0]
<1>1. entry \in EvaluationJob
  BY DEF EvaluationJob
<1>2. CASE evalQueue' = Append(evalQueue, entry) /\ UNCHANGED spent
  <2> HIDE DEF entry
  <2>1. Append(evalQueue, entry) \in Seq(EvaluationJob) /\ Append(evalQueue, entry) # <<>>
    BY <1>1, AppendProperties
  <2> QED
    BY <1>2, <2>1
<1>3. CASE Spend("collision") /\ UNCHANGED evalQueue
  BY <1>3, SpendType, Events
<1> QED
  BY <1>2, <1>3 DEF AddEvaluation

LEMMA TypeStep == TypeOK /\ [Next]_vars => TypeOK'
<1> SUFFICES ASSUME TypeOK, [Next]_vars PROVE TypeOK'
  OBVIOUS
<1> USE DEF TypeOK
<1>0. CASE UNCHANGED vars
  BY <1>0 DEF vars, mongo, request, feed, evaluation, execution
<1>1. ASSUME NEW o \in Order, ReceiveCreate(o) PROVE TypeOK'
  BY <1>1 DEF ReceiveCreate, Goto, ReqStep, mongo, feed, evaluation, execution
<1>2. ASSUME NEW o \in Order, CancelOrder(o) PROVE TypeOK'
  BY <1>2 DEF CancelOrder, Status, request, feed, evaluation, execution
<1>3. ASSUME NEW o \in Order, RequestError(o) PROVE TypeOK'
  BY <1>3, SpendType, Events
     DEF RequestError, Answer, Goto, See, ReqStep, mongo, feed, evaluation, execution
<1>4. ASSUME NEW o \in Order, ReadStock(o) PROVE TypeOK'
  BY <1>4, RequestAssumption
     DEF ReadStock, Goto, See, ReqStep, mongo, feed, evaluation, execution
<1>5. ASSUME NEW o \in Order, CheckFunds(o) PROVE TypeOK'
  BY <1>5 DEF CheckFunds, Answer, Goto, See, ReqStep, mongo, feed, evaluation, execution
<1>6. ASSUME NEW o \in Order, InsertOrder(o) PROVE TypeOK'
  BY <1>6 DEF InsertOrder, Goto, See, ReqStep, Status, feed, evaluation, execution
<1>7. ASSUME NEW o \in Order, EnqueueOnCreate(o) PROVE TypeOK'
  <2>1. AddEvaluation(symbolOf[o]) /\ UNCHANGED evalStep /\ symbolOf[o] \in Symbol
    BY <1>7, RequestAssumption DEF EnqueueOnCreate
  <2>2. /\ evalQueue' \in Seq(EvaluationJob)
        /\ evalStep' # "idle" => evalQueue' # <<>>
        /\ spent' \in [Event -> Nat]
    BY <2>1, AddEvaluationType
  <2> QED
    BY <1>7, <2>2 DEF EnqueueOnCreate, Goto, ReqStep, mongo, feed, execution
<1>8. ASSUME NEW u \in User, NEW amount \in TopUp, Deposit(u, amount) PROVE TypeOK'
  <2>1. balance' \in [User -> Nat]
    BY <1>8, StartAssumption DEF Deposit
  <2> QED
    BY <1>8, <2>1, SpendType, Events DEF Deposit, request, feed, evaluation, execution
<1>9. ASSUME NEW s \in Symbol, NEW p \in Price, AnnouncePrice(s, p) PROVE TypeOK'
  <2> DEFINE entry == [symbol |-> s, price |-> p, stalls |-> 0]
  <2>1. entry \in PriceJob /\ priceQueue' = Append(priceQueue, entry)
    BY <1>9 DEF PriceJob, AnnouncePrice
  <2> HIDE DEF entry
  <2>2. Append(priceQueue, entry) \in Seq(PriceJob) /\ Append(priceQueue, entry) # <<>>
    BY <2>1, AppendToPrices
  <2> QED
    BY <1>9, <2>1, <2>2, SpendType, Events
       DEF AnnouncePrice, mongo, request, evaluation, execution
<1>10. CASE TakePriceJob
  <2>1. PICK i \in Startable(priceQueue) : priceQueue' = Start(priceQueue, i)
    BY <1>10 DEF TakePriceJob
  <2>2. priceQueue' \in Seq(PriceJob) /\ priceQueue' # <<>>
    BY <2>1, StartType
  <2> QED
    BY <1>10, <2>2 DEF TakePriceJob, FeedStep, mongo, request, evaluation, execution
<1>11. CASE UpsertPrice
  <2>1. Head(priceQueue) \in PriceJob
    BY <1>11, HeadAndTail DEF UpsertPrice
  <2>2. price' \in [Symbol -> Price]
    BY <1>11, <2>1 DEF UpsertPrice, PriceJob
  <2> QED
    BY <1>11, <2>2 DEF UpsertPrice, FeedStep, request, evaluation, execution
<1>12. CASE EnqueueAfterPrice
  <2>1. Head(priceQueue) \in PriceJob
    BY <1>12, HeadAndTail DEF EnqueueAfterPrice
  <2>2. /\ evalQueue' \in Seq(EvaluationJob)
        /\ evalStep' # "idle" => evalQueue' # <<>>
        /\ spent' \in [Event -> Nat]
    BY <1>12, <2>1, AddEvaluationType DEF EnqueueAfterPrice, PriceJob
  <2> QED
    BY <1>12, <2>2 DEF EnqueueAfterPrice, FeedStep, mongo, request, execution
<1>13. CASE FinishPriceJob
  BY <1>13, HeadAndTail
     DEF FinishPriceJob, EndPriceJob, FeedStep, mongo, request, evaluation, execution
<1>14. CASE PriceError
  BY <1>14, HeadAndTail, SpendType, Events
     DEF PriceError, EndPriceJob, FeedStep, mongo, request, evaluation, execution
<1>15. CASE StartEvaluation
  <2>1. PICK i \in Startable(evalQueue) :
          evalQueue' = Start(evalQueue, i) /\ evalSeen' = price[evalQueue[i].symbol]
    BY <1>15 DEF StartEvaluation
  <2>2. evalQueue[i] \in EvaluationJob /\ evalQueue' \in Seq(EvaluationJob) /\ evalQueue' # <<>>
    BY <2>1, StartType
  <2>3. evalSeen' \in Price
    BY <2>1, <2>2 DEF EvaluationJob
  <2> QED
    BY <1>15, <2>2, <2>3 DEF StartEvaluation, EvalStep, mongo, request, feed, execution
<1>16. CASE FindEligible
  BY <1>16 DEF FindEligible, Eligible, EvalStep, mongo, request, feed, execution
<1>17. ASSUME NEW o \in Order, MarkTriggered(o) PROVE TypeOK'
  <2>1. status' \in [Order -> Status]
    BY <1>17 DEF MarkTriggered, Status
  <2>2. evalStep' \in EvalStep /\ todo' \in SUBSET Order /\ marked' \in SUBSET Order
    BY <1>17 DEF MarkTriggered, EvalStep
  <2>3. evalStep' # "idle" => evalQueue' # <<>>
    BY <1>17 DEF MarkTriggered
  <2> QED
    BY <1>17, <2>1, <2>2, <2>3 DEF MarkTriggered, request, feed, execution
<1>18. CASE EnqueueExecution
  BY <1>18 DEF EnqueueExecution, AddExecution, EvalStep, JobState, mongo, request, feed
<1>19. CASE FinishEvaluation
  BY <1>19, HeadAndTail
     DEF FinishEvaluation, ForgetEvaluation, EvalStep, mongo, request, feed, execution
<1>20. CASE EvaluationError
  <2>1. evalQueue # <<>>
    BY <1>20 DEF EvaluationError
  <2> QED
    BY <1>20, <2>1, HeadAndTail, SpendType, Events
       DEF EvaluationError, ForgetEvaluation, EvalStep, mongo, request, feed, execution
<1>21. ASSUME NEW o \in Order, TakeExecution(o) PROVE TypeOK'
  BY <1>21 DEF TakeExecution, Advance, JobState, ExecStep, mongo, request, feed, evaluation
<1>22. ASSUME NEW o \in Order, Claim(o) PROVE TypeOK'
  BY <1>22 DEF Claim, Advance, Status, ExecStep, request, feed, evaluation
<1>23. ASSUME NEW o \in Order, CheckExisting(o) PROVE TypeOK'
  BY <1>23 DEF CheckExisting, Advance, Status, ExecStep, request, feed, evaluation
<1>24. ASSUME NEW o \in Order, ReadQuote(o) PROVE TypeOK'
  BY <1>24, RequestAssumption
     DEF ReadQuote, Advance, ExecStep, mongo, request, feed, evaluation
<1>25. ASSUME NEW o \in Order, Release(o) PROVE TypeOK'
  BY <1>25 DEF Release, Advance, Status, ExecStep, request, feed, evaluation
<1>26. ASSUME NEW o \in Order, Reserve(o) PROVE TypeOK'
  <2> DEFINE c == cost(o, quote[o])
  <2>1. c \in Nat /\ userOf[o] \in User
    BY <1>26, CostIsNat, PriceAssumption, RequestAssumption DEF Reserve
  <2>2. Append(taken[o], c) \in Seq(Nat)
    BY <2>1, AppendProperties
  <2>3. CASE CanPay(o)
    <3>1. balance[userOf[o]] - c \in Nat
      BY <2>1, <2>3 DEF CanPay
    <3>2. /\ balance' = [balance EXCEPT ![userOf[o]] = @ - c]
          /\ taken' = [taken EXCEPT ![o] = Append(@, c)]
      BY <1>26, <2>3 DEF Reserve, Debit
    <3> HIDE DEF c
    <3> QED
      BY <1>26, <2>2, <2>3, <3>1, <3>2
         DEF Reserve, Advance, ExecStep, request, feed, evaluation
  <2>4. CASE ~ CanPay(o)
    BY <1>26, <2>4 DEF Reserve, Refuse, Advance, ExecStep, request, feed, evaluation
  <2> QED
    BY <2>3, <2>4
<1>27. ASSUME NEW o \in Order, WriteLedger(o) PROVE TypeOK'
  <2>1. cost(o, quote[o]) \in Nat
    BY <1>27, CostIsNat, PriceAssumption DEF WriteLedger
  <2>2. ledger' \in [Order -> Seq(Nat)]
    BY <1>27, <2>1, AppendProperties DEF WriteLedger
  <2> QED
    BY <1>27, <2>2 DEF WriteLedger, AfterLedger, Advance, ExecStep, request, feed, evaluation
<1>28. ASSUME NEW o \in Order, Reject(o) PROVE TypeOK'
  BY <1>28 DEF Reject, Settle, AfterReject, Advance, Status, ExecStep, request, feed, evaluation
<1>29. ASSUME NEW o \in Order, Book(o) PROVE TypeOK'
  BY <1>29 DEF Book, Advance, ExecStep, request, feed, evaluation
<1>30. ASSUME NEW o \in Order, ReadPosition(o) PROVE TypeOK'
  BY <1>30, RequestAssumption
     DEF ReadPosition, slot, Slot, Advance, ExecStep, mongo, request, feed, evaluation
<1>31. ASSUME NEW o \in Order, SavePosition(o) PROVE TypeOK'
  <2>1. held[o] + qty[o] \in Nat /\ slot(o) \in Slot
    BY RequestAssumption DEF slot, Slot
  <2> QED
    BY <1>31, <2>1 DEF SavePosition, Advance, ExecStep, request, feed, evaluation
<1>32. ASSUME NEW o \in Order, Complete(o) PROVE TypeOK'
  BY <1>32 DEF Complete, Settle, Advance, Status, ExecStep, request, feed, evaluation
<1>33. ASSUME NEW o \in Order, PositionRefused(o) \/ FinishExecution(o) PROVE TypeOK'
  <2>1. UNCHANGED <<mongo, request, feed, evaluation, spent>>
    BY <1>33 DEF PositionRefused, FinishExecution
  <2>2. EndExecution(o, "failed") \/ EndExecution(o, "absent")
    BY <1>33 DEF PositionRefused, FinishExecution
  <2>3. PICK state \in JobState : EndExecution(o, state)
    BY <2>2 DEF JobState
  <2> QED
    BY <2>1, <2>3 DEF EndExecution, Advance, ExecStep, mongo, request, feed, evaluation
<1>34. ASSUME NEW o \in Order, DebitError(o) PROVE TypeOK'
  BY <1>34, SpendType, Events
     DEF DebitError, Advance, ExecStep, mongo, request, feed, evaluation
<1>35. ASSUME NEW o \in Order, ExecutionError(o) PROVE TypeOK'
  BY <1>35, SpendType, Events
     DEF ExecutionError, EndExecution, Advance, JobState, ExecStep, mongo, request,
         feed, evaluation
<1>36. CASE Crash
  <2>1. priceQueue' \in Seq(PriceJob) /\ evalQueue' \in Seq(EvaluationJob)
    BY <1>36, RestallPrice, RestallEvaluation DEF Crash
  <2>2. /\ quote' \in [Order -> Price \cup {NoPrice}]
        /\ \A o \in Order : step'[o] = "idle"
    BY <1>36 DEF Crash
  <2>3. execJob' \in [Order -> JobState] /\ stalls' \in [Order -> Nat]
    BY <1>36 DEF Crash, Stalled, JobState
  <2> QED
    BY <1>36, <2>1, <2>2, <2>3, SpendType, Events
       DEF Crash, ForgetEvaluation, ReqStep, FeedStep, EvalStep, ExecStep, mongo
<1> QED
  BY <1>0, <1>1, <1>2, <1>3, <1>4, <1>5, <1>6, <1>7, <1>8, <1>9, <1>10, <1>11, <1>12,
     <1>13, <1>14, <1>15, <1>16, <1>17, <1>18, <1>19, <1>20, <1>21, <1>22, <1>23, <1>24,
     <1>25, <1>26, <1>27, <1>28, <1>29, <1>30, <1>31, <1>32, <1>33, <1>34, <1>35, <1>36,
     Zenon
     DEF Next, Environment, PriceWorker, EvaluationWorker, CreateHandler,
         ExecutionWorker, Rest

\* Every reachable state is of the right type; no wallet is overdrawn.
THEOREM TypeCorrect == Spec => []TypeOK
<1>1. Init => TypeOK
  BY TypeInit
<1>2. TypeOK /\ [Next]_vars => TypeOK'
  BY TypeStep
<1> QED
  BY <1>1, <1>2, PTL DEF Spec

-----------------------------------------------------------------------------
(* The inductive invariant: where the execution handler of an order stands *)
(* tells what its documents hold, and a handler that was cut off leaves a  *)
(* prefix of charge, ledger row and trade behind.                          *)

\* The handler has claimed the order and has not settled it.
Working == {"check", "quote", "release", "reserve", "ledger", "reject", "book",
            "read", "save", "complete"}
NotInserted == {"idle", "stock", "funds", "insert"}

StepInv(o) ==
  /\ step[o] \in Working => status[o] = "executing"
  /\ step[o] \in {"check", "quote", "release", "reserve"} => Untouched(o)
  /\ step[o] = "reserve" => quote[o] \in Price /\ quote[o] <= target[o]
  /\ step[o] \in {"ledger", "book"} =>
       /\ quote[o] \in Price /\ ChargedAt(o, quote[o]) /\ trade[o] = NoPrice
       /\ ledger[o] = IF step[o] = "ledger" THEN <<>> ELSE taken[o]
  /\ step[o] \in {"read", "save", "complete"} => trade[o] # NoPrice
  /\ step[o] = "reject" =>
       trade[o] = NoPrice /\ (spent["error"] = 0 => Untouched(o))

BookInv(o) ==
  \/ Untouched(o)
  \/ \E p \in Price :
       /\ ChargedAt(o, p)
       /\ ledger[o] \in {<<>>, taken[o]}
       /\ trade[o] # NoPrice => trade[o] = p /\ ledger[o] = taken[o]

StatusInv(o) ==
  /\ req[o] \in NotInserted => status[o] = "none"
  /\ status[o] \in {"none", "pending", "triggered", "cancelled"} => Untouched(o)
  /\ status[o] = "completed" => trade[o] # NoPrice
  /\ status[o] = "failed" /\ spent["error"] = 0 => Untouched(o)

OrderInv(o) == StepInv(o) /\ BookInv(o) /\ StatusInv(o)

Inv == TypeOK /\ \A o \in Order : OrderInv(o)

\* A step that does not concern o.
Same(o) ==
  /\ UNCHANGED <<status[o], taken[o], ledger[o], trade[o], step[o], quote[o]>>
  /\ req'[o] \in NotInserted => req[o] \in NotInserted

\* A failing call is not forgotten.
ErrorsStay == spent'["error"] = 0 => spent["error"] = 0

LEMMA SpentGrows == [Next]_vars => UNCHANGED spent \/ \E e \in Event : Spend(e)
<1> USE DEF AddEvaluation
<1>1. CASE UNCHANGED vars \/ Rest
  BY <1>1 DEF vars, Rest
<1>2. ASSUME NEW o \in Order, CreateHandler(o) PROVE UNCHANGED spent \/ \E e \in Event : Spend(e)
  BY <1>2, Events DEF CreateHandler, ReadStock, CheckFunds, InsertOrder, EnqueueOnCreate
<1>3. ASSUME NEW o \in Order, ExecutionWorker(o) PROVE UNCHANGED spent
  BY <1>3 DEF ExecutionWorker, TakeExecution, Claim, CheckExisting, ReadQuote, Release, Reserve,
              WriteLedger, Reject, Book, ReadPosition, SavePosition, PositionRefused, Complete,
              FinishExecution
<1>4. CASE PriceWorker \/ EvaluationWorker
  BY <1>4, Events
     DEF PriceWorker, TakePriceJob, UpsertPrice, EnqueueAfterPrice, FinishPriceJob,
         EvaluationWorker, StartEvaluation, FindEligible, MarkTriggered, EnqueueExecution,
         FinishEvaluation
<1>5. CASE Environment
  BY <1>5, Events
     DEF Environment, ReceiveCreate, CancelOrder, Deposit, AnnouncePrice, Crash, PriceError,
         EvaluationError, RequestError, DebitError, ExecutionError
<1> QED
  BY <1>1, <1>2, <1>3, <1>4, <1>5, Zenon DEF Next

LEMMA ErrorsStayed ==
  ASSUME TypeOK, [Next]_vars
  PROVE  ErrorsStay
  BY SpentGrows, Events DEF TypeOK, Spend, ErrorsStay

LEMMA SameKeepsInv ==
  ASSUME NEW o \in Order, OrderInv(o), Same(o), ErrorsStay
  PROVE  OrderInv(o)'
  BY DEF ErrorsStay, OrderInv, Same, StepInv, BookInv, StatusInv, Untouched, ChargedAt

LEMMA InvInit == Init => \A o \in Order : OrderInv(o)
  BY DEF Init, OrderInv, StepInv, BookInv, StatusInv, Untouched, Working,
         NotInserted

\* The actions that touch no order, and the actions on another order.
LEMMA OthersAreSame ==
  ASSUME TypeOK, NEW q \in Order,
         \/ UNCHANGED vars
         \/ PriceWorker \/ PriceError \/ EvaluationError
         \/ StartEvaluation \/ FindEligible \/ FinishEvaluation
         \/ \E u \in User, amount \in TopUp : Deposit(u, amount)
         \/ \E s \in Symbol, p \in Price : AnnouncePrice(s, p)
  PROVE  Same(q)
<1>1. UNCHANGED <<status, taken, ledger, trade, step, quote, req>>
  BY DEF vars, PriceWorker, TakePriceJob, UpsertPrice, EnqueueAfterPrice,
         FinishPriceJob, PriceError, EvaluationError, StartEvaluation, FindEligible,
         FinishEvaluation, Deposit, AnnouncePrice, mongo, request, feed, evaluation,
         execution
<1> QED
  BY <1>1 DEF Same

LEMMA RequestsAreSame ==
  ASSUME TypeOK, NEW o \in Order, NEW q \in Order,
         ReceiveCreate(o) \/ ReadStock(o) \/ CheckFunds(o) \/ EnqueueOnCreate(o)
           \/ RequestError(o)
  PROVE  Same(q)
<1>1. UNCHANGED <<status, taken, ledger, trade, step, quote>>
  BY DEF ReceiveCreate, ReadStock, CheckFunds, EnqueueOnCreate, RequestError, mongo,
         execution
<1>2. req'[q] \in NotInserted => req[q] \in NotInserted
  BY DEF ReceiveCreate, ReadStock, CheckFunds, EnqueueOnCreate, RequestError, Goto,
         Answer, NotInserted, TypeOK
<1> QED
  BY <1>1, <1>2 DEF Same

LEMMA OtherOrderIsSame ==
  ASSUME TypeOK, NEW o \in Order, NEW q \in Order, q # o,
         InsertOrder(o) \/ CancelOrder(o) \/ MarkTriggered(o) \/ ExecutionWorker(o)
           \/ DebitError(o) \/ ExecutionError(o)
  PROVE  Same(q)
<1> USE DEF Same, TypeOK
<1>1. CASE InsertOrder(o) \/ CancelOrder(o) \/ MarkTriggered(o)
  BY <1>1 DEF InsertOrder, CancelOrder, MarkTriggered, Goto, request, execution
<1>2. CASE TakeExecution(o) \/ Claim(o) \/ CheckExisting(o) \/ ReadQuote(o)
  BY <1>2 DEF TakeExecution, Claim, CheckExisting, ReadQuote, Advance, mongo, request
<1>3. CASE Release(o) \/ Reject(o) \/ Complete(o) \/ Book(o)
  BY <1>3 DEF Release, Reject, Complete, Book, Settle, Advance, request
<1>4. CASE Reserve(o)
  BY <1>4 DEF Reserve, Debit, Refuse, Advance, request
<1>5. CASE WriteLedger(o)
  BY <1>5 DEF WriteLedger, Advance, request
<1>6. CASE ReadPosition(o) \/ SavePosition(o) \/ DebitError(o)
  BY <1>6 DEF ReadPosition, SavePosition, DebitError, Advance, mongo, request
<1>7. CASE PositionRefused(o) \/ FinishExecution(o) \/ ExecutionError(o)
  BY <1>7 DEF PositionRefused, FinishExecution, ExecutionError, EndExecution, Advance,
              mongo, request
<1> QED
  BY <1>1, <1>2, <1>3, <1>4, <1>5, <1>6, <1>7, Zenon DEF ExecutionWorker

LEMMA WithinTarget ==
  ASSUME NEW o \in Order, NEW p \in Price, ~ Above(o, p)
  PROVE  p <= target[o]
<1>1. p \in Nat /\ target[o] \in Nat
  BY PriceAssumption, RequestAssumption
<1> QED
  BY <1>1 DEF Above

\* The actions on o itself, one by one.
LEMMA OwnStep ==
  ASSUME TypeOK, NEW o \in Order, OrderInv(o), ErrorsStay,
         InsertOrder(o) \/ CancelOrder(o) \/ MarkTriggered(o) \/ ExecutionWorker(o)
           \/ DebitError(o) \/ ExecutionError(o)
  PROVE  OrderInv(o)'
<1> USE DEF TypeOK, OrderInv, StepInv, StatusInv, Untouched, ErrorsStay
<1>1. CASE InsertOrder(o)
  BY <1>1 DEF InsertOrder, BookInv, ChargedAt, Goto, NotInserted, Working, execution
<1>2. CASE CancelOrder(o)
  BY <1>2 DEF CancelOrder, Cancellable, BookInv, ChargedAt, NotInserted, Working,
              request, execution
<1>3. CASE MarkTriggered(o)
  BY <1>3 DEF MarkTriggered, StillPending, BookInv, ChargedAt, NotInserted, Working,
              request, execution
<1>4. CASE TakeExecution(o)
  BY <1>4 DEF TakeExecution, BookInv, ChargedAt, Advance, NotInserted, Working, mongo, request
<1>5. CASE Claim(o)
  BY <1>5 DEF Claim, Claimable, BookInv, ChargedAt, Advance, NotInserted, Working, request
<1>6. CASE CheckExisting(o)
  BY <1>6 DEF CheckExisting, BookInv, ChargedAt, Advance, NotInserted, Working, request
<1>7. CASE ReadQuote(o)
  <2> DEFINE p == price[symbolOf[o]]
  <2>0. p \in Price /\ (~ Above(o, p) => p <= target[o])
    BY WithinTarget, RequestAssumption
  <2>1. /\ step'[o] \in {"release", "reserve"} /\ step[o] = "quote"
        /\ step'[o] = "reserve" => quote'[o] \in Price /\ quote'[o] <= target[o]
    <3>1. step[o] = "quote" /\ quote'[o] = p
      BY <1>7 DEF ReadQuote
    <3>2. step'[o] = IF Above(o, p) THEN "release" ELSE "reserve"
      BY <1>7 DEF ReadQuote, Advance
    <3> QED
      BY <2>0, <3>1, <3>2
  <2>2. UNCHANGED <<status, taken, ledger, trade, req>>
    BY <1>7 DEF ReadQuote, mongo, request
  <2>3. Untouched(o) /\ Untouched(o)' /\ status[o] = "executing"
    BY <2>1, <2>2 DEF Working
  <2>5. StepInv(o)'
    BY <2>1, <2>2, <2>3 DEF Working
  <2>6. BookInv(o)'
    BY <2>3 DEF BookInv
  <2>7. StatusInv(o)'
    BY <2>2, <2>3 DEF NotInserted
  <2> QED
    BY <2>5, <2>6, <2>7
<1>8. CASE Release(o)
  BY <1>8 DEF Release, BookInv, ChargedAt, Advance, NotInserted, Working, request
<1>9. CASE Reserve(o)
  <2>1. Append(<<>>, cost(o, quote[o])) = <<cost(o, quote[o])>>
    OBVIOUS
  <2>2. CASE CanPay(o)
    <3>1. Untouched(o) /\ quote'[o] \in Price /\ quote'[o] = quote[o]
      BY <1>9 DEF Reserve
    <3>2. taken'[o] = <<cost(o, quote[o])>>
      BY <1>9, <2>1, <2>2, <3>1 DEF Reserve, Debit
    <3>3. ChargedAt(o, quote[o])'
      <4>1. quote'[o] <= target[o]
        BY <1>9, <3>1 DEF Reserve
      <4>2. cost(o, quote[o])' = cost(o, quote[o])
        BY <3>1 DEF cost
      <4> QED
        BY <3>2, <4>1, <4>2 DEF ChargedAt
    <3>4. step'[o] = "ledger" /\ step[o] = "reserve"
      BY <1>9, <2>2 DEF Reserve, Advance
    <3>5. UNCHANGED <<status, ledger, trade, req, quote>>
      BY <1>9 DEF Reserve, request
    <3>6. StatusInv(o)'
      BY <3>4, <3>5 DEF NotInserted, Working
    <3>7. StepInv(o)'
      BY <3>1, <3>3, <3>4, <3>5 DEF Working
    <3>8. BookInv(o)'
      BY <3>1, <3>3, <3>5 DEF BookInv
    <3> QED
      BY <3>6, <3>7, <3>8
  <2>3. CASE ~ CanPay(o)
    BY <1>9, <2>3 DEF Reserve, Refuse, BookInv, ChargedAt, Advance, NotInserted, Working,
                      request
  <2> QED
    BY <2>2, <2>3
<1>10. CASE WriteLedger(o)
  <2>1. Append(<<>>, cost(o, quote[o])) = <<cost(o, quote[o])>>
    OBVIOUS
  <2>2. /\ quote'[o] \in Price /\ ChargedAt(o, quote[o])'
        /\ ledger'[o] = taken'[o] /\ trade'[o] = NoPrice
    BY <1>10, <2>1 DEF WriteLedger, ChargedAt
  <2> QED
    BY <1>10, <2>2
       DEF WriteLedger, AfterLedger, BookInv, Advance, NotInserted, Working, request
<1>11. CASE Reject(o)
  BY <1>11 DEF Reject, Settle, StillExecuting, AfterReject, BookInv, ChargedAt, Advance,
               NotInserted, Working, request
<1>12. CASE Book(o)
  <2>1. trade'[o] = quote[o] /\ trade'[o] # NoPrice
    BY <1>12, PriceAssumption DEF Book
  <2>2. ChargedAt(o, quote[o])' /\ ledger'[o] = taken'[o] /\ quote[o] \in Price
    BY <1>12 DEF Book, ChargedAt
  <2>3. BookInv(o)'
    <3>1. trade'[o] # NoPrice => trade'[o] = quote[o] /\ ledger'[o] = taken'[o]
      BY <2>1, <2>2
    <3>2. ledger'[o] \in {<<>>, taken'[o]}
      BY <2>2
    <3>3. cost(o, quote[o])' = cost(o, quote[o]) /\ quote'[o] = quote[o]
      BY <1>12 DEF Book, cost
    <3>4. taken'[o] = <<cost(o, quote[o])>> /\ quote[o] <= target[o]
      BY <2>2, <3>3 DEF ChargedAt
    <3> QED
      BY <2>2, <3>1, <3>2, <3>4 DEF BookInv, ChargedAt, cost
  <2>4. /\ step[o] = "book" /\ step'[o] = "read" /\ status[o] = "executing"
        /\ UNCHANGED <<status, req>>
    BY <1>12 DEF Book, Advance, Working, request
  <2>5. StepInv(o)'
    BY <2>1, <2>4 DEF Working
  <2>6. StatusInv(o)'
    BY <2>4, <1>12 DEF Book, NotInserted, Working
  <2> QED
    BY <2>3, <2>5, <2>6
<1>13. CASE ReadPosition(o) \/ SavePosition(o)
  <2>1. UNCHANGED <<status, taken, ledger, trade, quote, req>>
    BY <1>13 DEF ReadPosition, SavePosition, mongo, request
  <2>2. step[o] \in {"read", "save"} /\ step'[o] \in {"save", "complete"}
    BY <1>13 DEF ReadPosition, SavePosition, Advance
  <2>3. BookInv(o)'
    BY <2>1 DEF BookInv, ChargedAt
  <2> QED
    BY <2>1, <2>2, <2>3 DEF Working, NotInserted
<1>14. CASE Complete(o)
  BY <1>14 DEF Complete, Settle, StillExecuting, BookInv, ChargedAt, Advance, NotInserted,
               Working, request
<1>15. CASE PositionRefused(o) \/ FinishExecution(o) \/ ExecutionError(o)
  BY <1>15 DEF PositionRefused, FinishExecution, ExecutionError, EndExecution, BookInv,
               ChargedAt, Advance, NotInserted, Working, mongo, request
<1>16. CASE DebitError(o)
  <2>1. spent'["error"] # 0
    BY <1>16, Events DEF DebitError, Spend
  <2> QED
    BY <1>16, <2>1 DEF DebitError, BookInv, ChargedAt, Advance, NotInserted, Working,
                       mongo, request
<1> QED
  BY <1>1, <1>2, <1>3, <1>4, <1>5, <1>6, <1>7, <1>8, <1>9, <1>10, <1>11, <1>12, <1>13,
     <1>14, <1>15, <1>16, Zenon DEF ExecutionWorker

LEMMA CrashKeepsInv ==
  ASSUME TypeOK, NEW o \in Order, OrderInv(o), ErrorsStay, Crash
  PROVE  OrderInv(o)'
  BY DEF ErrorsStay, Crash, Stalled, TypeOK, OrderInv, StepInv, StatusInv, Untouched,
         BookInv, ChargedAt, NotInserted, Working, mongo

\* Handing a job to the queue changes no document and no handler.
LEMMA EnqueueKeepsInv ==
  ASSUME TypeOK, NEW o \in Order, OrderInv(o), ErrorsStay, EnqueueExecution
  PROVE  OrderInv(o)'
<1>1. UNCHANGED <<status[o], taken[o], ledger[o], trade[o], step[o], quote[o], req[o]>>
  BY DEF EnqueueExecution, mongo, request
<1> QED
  BY <1>1 DEF ErrorsStay, OrderInv, StepInv, BookInv, StatusInv, Untouched, ChargedAt

\* Every step is an idle one, a crash, the hand-over of a job, or a step of
\* one of the three groups above.
LEMMA StepKinds ==
  ASSUME [Next]_vars
  PROVE  \/ UNCHANGED vars \/ Crash \/ EnqueueExecution
         \/ PriceWorker \/ PriceError \/ EvaluationError
         \/ StartEvaluation \/ FindEligible \/ FinishEvaluation
         \/ \E u \in User, amount \in TopUp : Deposit(u, amount)
         \/ \E s \in Symbol, p \in Price : AnnouncePrice(s, p)
         \/ \E o \in Order :
              \/ ReceiveCreate(o) \/ ReadStock(o) \/ CheckFunds(o)
              \/ EnqueueOnCreate(o) \/ RequestError(o)
         \/ \E o \in Order :
              \/ InsertOrder(o) \/ CancelOrder(o) \/ MarkTriggered(o)
              \/ ExecutionWorker(o) \/ DebitError(o) \/ ExecutionError(o)
  BY Zenon DEF Next, Environment, EvaluationWorker, CreateHandler, Rest

LEMMA InvStep == Inv /\ [Next]_vars => Inv'
<1> SUFFICES ASSUME Inv, [Next]_vars, NEW q \in Order PROVE OrderInv(q)'
  BY TypeStep DEF Inv
<1>1. TypeOK /\ OrderInv(q) /\ ErrorsStay
  BY ErrorsStayed DEF Inv
<1>2. CASE Crash
  BY <1>1, <1>2, CrashKeepsInv
<1>3. CASE EnqueueExecution
  BY <1>1, <1>3, EnqueueKeepsInv
<1>4. ASSUME NEW o \in Order,
             InsertOrder(o) \/ CancelOrder(o) \/ MarkTriggered(o) \/ ExecutionWorker(o)
               \/ DebitError(o) \/ ExecutionError(o)
      PROVE  OrderInv(q)'
  <2>1. CASE q = o
    BY <1>1, <1>4, <2>1, OwnStep
  <2>2. CASE q # o
    BY <1>1, <1>4, <2>2, OtherOrderIsSame, SameKeepsInv
  <2> QED
    BY <2>1, <2>2
<1>5. ASSUME NEW o \in Order,
             ReceiveCreate(o) \/ ReadStock(o) \/ CheckFunds(o) \/ EnqueueOnCreate(o)
               \/ RequestError(o)
      PROVE  OrderInv(q)'
  BY <1>1, <1>5, RequestsAreSame, SameKeepsInv
<1>6. ASSUME \/ UNCHANGED vars
             \/ PriceWorker \/ PriceError \/ EvaluationError
             \/ StartEvaluation \/ FindEligible \/ FinishEvaluation
             \/ \E u \in User, amount \in TopUp : Deposit(u, amount)
             \/ \E s \in Symbol, p \in Price : AnnouncePrice(s, p)
      PROVE  OrderInv(q)'
  BY <1>1, <1>6, OthersAreSame, SameKeepsInv
<1> QED
  BY <1>2, <1>3, <1>4, <1>5, <1>6, StepKinds

LEMMA Invariance == Spec => []Inv
<1>1. Init => Inv
  BY TypeInit, InvInit DEF Inv
<1> QED
  BY <1>1, InvStep, PTL DEF Spec

-----------------------------------------------------------------------------
(* The safety theorems.                                                    *)

\* No order is charged twice or above its target, whatever crashes or fails.
THEOREM ChargedAtMostOnceHolds == Spec => []ChargedAtMostOnce
<1>1. Inv => ChargedAtMostOnce
  BY DEF Inv, OrderInv, BookInv, Untouched, ChargedAtMostOnce
<1> QED
  BY <1>1, Invariance, PTL

\* Trades, ledger rows and debits agree, and a COMPLETED order has its trade.
THEOREM BooksAgreeHolds == Spec => []BooksAgree
<1>1. Inv => BooksAgree
  BY DEF Inv, OrderInv, BookInv, StatusInv, Untouched, BooksAgree
<1> QED
  BY <1>1, Invariance, PTL

\* An order that waits or was cancelled has cost nothing.
THEOREM IdleOrdersAreFreeHolds == Spec => []IdleOrdersAreFree
<1>1. Inv => IdleOrdersAreFree
  BY DEF Inv, OrderInv, StatusInv, IdleOrdersAreFree
<1> QED
  BY <1>1, Invariance, PTL

\* As long as no database call has failed, a rejected order has cost nothing.
THEOREM RejectedIsUnchargedHolds == Spec => [](spent["error"] = 0 => RejectedIsUncharged)
<1>1. Inv => (spent["error"] = 0 => RejectedIsUncharged)
  BY DEF Inv, OrderInv, StatusInv, Untouched, RejectedIsUncharged
<1> QED
  BY <1>1, Invariance, PTL

-----------------------------------------------------------------------------
(* The shares of a position.  The position of a slot is bounded by the     *)
(* shares of the trades that no handler has still to add to it, and so is  *)
(* the position that a handler has read and not yet saved: the handler may *)
(* lose the shares of the others, and never adds the shares of its trade   *)
(* to a position that already has them.                                    *)

Traded == {o \in Order : trade[o] # NoPrice}

\* The orders of slot x whose shares no handler has still to add.
Added(x) == {o \in Traded : slot(o) = x /\ step[o] \notin {"read", "save"}}
Shares(x) == SumFunctionOnSet(qty, Added(x))

PositionInv ==
  /\ IsFiniteSet(Traded)
  /\ \A x \in Slot : position[x] <= Shares(x)
  /\ \A o \in Order : step[o] = "save" => held[o] <= Shares(slot(o))

LEMMA QuantitiesAdd ==
  ASSUME NEW S, IsFiniteSet(S), S \subseteq Order
  PROVE  /\ SumFunctionOnSet(qty, S) \in Nat
         /\ \A T \in SUBSET S : SumFunctionOnSet(qty, T) <= SumFunctionOnSet(qty, S)
<1>1. \A o \in S : qty[o] \in Nat
  BY RequestAssumption
<1> QED
  BY <1>1, SumType, SumSubset

LEMMA SharesAreNat ==
  ASSUME IsFiniteSet(Traded), NEW x
  PROVE  IsFiniteSet(Added(x)) /\ Shares(x) \in Nat
<1>1. Added(x) \subseteq Order /\ IsFiniteSet(Added(x))
  BY FS_Subset DEF Added, Traded
<1> QED
  BY <1>1, QuantitiesAdd DEF Shares

\* Orders only join the ones whose shares have been added or are given up.
LEMMA SharesGrow ==
  ASSUME IsFiniteSet(Traded'), NEW x, Added(x) \subseteq Added(x)'
  PROVE  Shares(x) \in Nat /\ Shares(x)' \in Nat /\ Shares(x) <= Shares(x)'
<1> DEFINE Before == Added(x)
           After == Added(x)'
<1>1. After \subseteq Order /\ After \subseteq Traded'
  BY DEF Added, Traded
<1>2. IsFiniteSet(After) /\ Before \subseteq After
  BY <1>1, FS_Subset
<1>3. Shares(x)' = SumFunctionOnSet(qty, After) /\ Shares(x) = SumFunctionOnSet(qty, Before)
  BY DEF Shares
<1> HIDE DEF Before, After
<1>4. IsFiniteSet(Before) /\ Before \subseteq Order
  BY <1>1, <1>2, FS_Subset
<1> QED
  BY <1>1, <1>2, <1>3, <1>4, QuantitiesAdd

LEMMA SharesStay ==
  ASSUME TypeOK, PositionInv, IsFiniteSet(Traded'),
         \A x \in Slot : Added(x) \subseteq Added(x)', UNCHANGED position,
         \A o \in Order : step'[o] = "save" =>
           \/ step[o] = "save" /\ held'[o] = held[o]
           \/ held'[o] = position[slot(o)]
  PROVE  PositionInv'
<1>1. \A x \in Slot : Shares(x) \in Nat /\ Shares(x)' \in Nat /\ Shares(x) <= Shares(x)'
  BY SharesGrow
<1>2. \A o \in Order : slot(o) \in Slot /\ slot(o)' = slot(o)
  BY RequestAssumption DEF slot, Slot
<1>3. /\ position \in [Slot -> Nat] /\ held \in [Order -> Nat]
      /\ \A x \in Slot : position[x] <= Shares(x)
      /\ \A o \in Order : step[o] = "save" => held[o] <= Shares(slot(o))
  BY DEF TypeOK, PositionInv
<1>4. \A x \in Slot : position'[x] <= Shares(x)'
  BY <1>1, <1>3
<1>5. \A o \in Order : step'[o] = "save" => held'[o] <= Shares(slot(o))'
  BY <1>1, <1>2, <1>3
<1> QED
  BY <1>4, <1>5 DEF PositionInv

\* Handlers come to the portfolio only by Book, ReadPosition and SavePosition.
SharesIdle ==
  /\ UNCHANGED <<trade, position>>
  /\ \A o \in Order :
       step'[o] \in {"read", "save"} => step'[o] = step[o] /\ held'[o] = held[o]

Delivers(o) == Book(o) \/ ReadPosition(o) \/ SavePosition(o)

LEMMA ShareMoves ==
  ASSUME TypeOK, [Next]_vars
  PROVE  SharesIdle \/ \E o \in Order : Delivers(o)
<1> USE DEF SharesIdle, Advance, TypeOK
<1>1. CASE Crash
  BY <1>1 DEF Crash, mongo
<1>2. ASSUME \/ UNCHANGED vars \/ EnqueueExecution
             \/ PriceWorker \/ PriceError \/ EvaluationError
             \/ StartEvaluation \/ FindEligible \/ FinishEvaluation
             \/ (\E u \in User, amount \in TopUp : Deposit(u, amount))
             \/ (\E s \in Symbol, p \in Price : AnnouncePrice(s, p))
             \/ \E o \in Order :
                  \/ ReceiveCreate(o) \/ ReadStock(o) \/ CheckFunds(o)
                  \/ EnqueueOnCreate(o) \/ RequestError(o)
                  \/ InsertOrder(o) \/ CancelOrder(o) \/ MarkTriggered(o)
      PROVE  SharesIdle
  <2>1. UNCHANGED <<trade, position, step, held>>
    BY <1>2 DEF vars, EnqueueExecution, PriceWorker, TakePriceJob, UpsertPrice,
                EnqueueAfterPrice, FinishPriceJob, PriceError, EvaluationError,
                StartEvaluation, FindEligible, FinishEvaluation, Deposit, AnnouncePrice,
                ReceiveCreate, ReadStock, CheckFunds, EnqueueOnCreate, RequestError,
                InsertOrder, CancelOrder, MarkTriggered, mongo, execution
  <2> QED
    BY <2>1
<1>3. ASSUME NEW o \in Order,
             \/ Claim(o) \/ CheckExisting(o) \/ Release(o) \/ Reserve(o)
             \/ WriteLedger(o) \/ Reject(o) \/ Complete(o)
      PROVE  SharesIdle
  BY <1>3 DEF Claim, CheckExisting, Release, Reserve, WriteLedger, AfterLedger, Reject,
              AfterReject, Complete
<1>4. ASSUME NEW o \in Order,
             \/ TakeExecution(o) \/ ReadQuote(o) \/ PositionRefused(o)
             \/ FinishExecution(o) \/ DebitError(o) \/ ExecutionError(o)
      PROVE  SharesIdle
  BY <1>4 DEF TakeExecution, ReadQuote, PositionRefused, FinishExecution, DebitError,
              ExecutionError, EndExecution, mongo
<1> QED
  BY <1>1, <1>2, <1>3, <1>4, StepKinds, Zenon DEF ExecutionWorker, Delivers

LEMMA IdleKeepsShares ==
  ASSUME TypeOK, PositionInv, SharesIdle
  PROVE  PositionInv'
<1>1. IsFiniteSet(Traded') /\ UNCHANGED position
  BY DEF PositionInv, SharesIdle, Traded
<1>2. \A x \in Slot : Added(x) \subseteq Added(x)'
  BY DEF SharesIdle, Added, Traded, slot
<1>3. \A o \in Order : step'[o] = "save" => step[o] = "save" /\ held'[o] = held[o]
  BY DEF SharesIdle
<1> QED
  BY <1>1, <1>2, <1>3, SharesStay

\* The trade is recorded before its shares are added, and by one handler only.
LEMMA BookKeepsShares ==
  ASSUME Inv, PositionInv, NEW o \in Order, Book(o)
  PROVE  PositionInv'
<1>1. /\ TypeOK /\ step[o] = "book" /\ trade[o] = NoPrice
      /\ trade' = [trade EXCEPT ![o] = quote[o]]
      /\ step' = [step EXCEPT ![o] = "read"]
      /\ UNCHANGED <<position, held>>
  BY DEF Inv, OrderInv, StepInv, Book, Advance
<1>2. Traded' \subseteq Traded \cup {o}
  BY <1>1 DEF TypeOK, Traded
<1>3. IsFiniteSet(Traded')
  BY <1>2, FS_AddElement, FS_Subset DEF PositionInv
<1>4. \A x \in Slot : Added(x) \subseteq Added(x)'
  BY <1>1 DEF TypeOK, Added, Traded, slot
<1>5. \A a \in Order : step'[a] = "save" => step[a] = "save" /\ held'[a] = held[a]
  BY <1>1 DEF TypeOK
<1> QED
  BY <1>1, <1>3, <1>4, <1>5, SharesStay

LEMMA ReadKeepsShares ==
  ASSUME Inv, PositionInv, NEW o \in Order, ReadPosition(o)
  PROVE  PositionInv'
<1>1. /\ TypeOK /\ step[o] = "read"
      /\ step' = [step EXCEPT ![o] = "save"]
      /\ held' = [held EXCEPT ![o] = position[slot(o)]]
      /\ UNCHANGED <<position, trade>>
  BY DEF Inv, ReadPosition, Advance, mongo
<1>2. IsFiniteSet(Traded')
  BY <1>1 DEF PositionInv, Traded
<1>3. \A x \in Slot : Added(x) \subseteq Added(x)'
  BY <1>1 DEF TypeOK, Added, Traded, slot
<1>4. \A a \in Order : step'[a] = "save" =>
        \/ step[a] = "save" /\ held'[a] = held[a]
        \/ held'[a] = position[slot(a)]
  BY <1>1 DEF TypeOK
<1> QED
  BY <1>1, <1>2, <1>3, <1>4, SharesStay

\* The shares of o are new to the position: o had not been added before.
LEMMA SaveKeepsShares ==
  ASSUME Inv, PositionInv, NEW o \in Order, SavePosition(o)
  PROVE  PositionInv'
<1>1. /\ TypeOK /\ step[o] = "save" /\ trade[o] # NoPrice /\ slot(o) \in Slot
      /\ step' = [step EXCEPT ![o] = "complete"]
      /\ position' = [position EXCEPT ![slot(o)] = held[o] + qty[o]]
      /\ UNCHANGED <<held, trade>>
  BY RequestAssumption DEF Inv, OrderInv, StepInv, SavePosition, Advance, slot, Slot
<1>2. IsFiniteSet(Traded) /\ IsFiniteSet(Traded')
  BY <1>1 DEF PositionInv, Traded
<1>3. \A x \in Slot : Added(x) \subseteq Added(x)'
  BY <1>1 DEF TypeOK, Added, Traded, slot
<1>4. \A x \in Slot : Shares(x) \in Nat /\ Shares(x)' \in Nat /\ Shares(x) <= Shares(x)'
  BY <1>2, <1>3, SharesGrow
<1>5. Added(slot(o))' = Added(slot(o)) \cup {o} /\ o \notin Added(slot(o))
  BY <1>1 DEF TypeOK, Added, Traded, slot
<1>6. Shares(slot(o))' = Shares(slot(o)) + qty[o]
  <2> DEFINE S == Added(slot(o))
  <2>1. IsFiniteSet(S) /\ o \notin S /\ \A a \in S \cup {o} : qty[a] \in Nat
    BY <1>2, <1>5, SharesAreNat, RequestAssumption DEF Added, Traded
  <2>2. Shares(slot(o)) = SumFunctionOnSet(qty, S)
        /\ Shares(slot(o))' = SumFunctionOnSet(qty, S \cup {o})
    BY <1>5 DEF Shares
  <2> HIDE DEF S
  <2> QED
    BY <2>1, <2>2, SumAdd
<1>7. \A x \in Slot : position'[x] <= Shares(x)'
  <2> TAKE x \in Slot
  <2>1. CASE x = slot(o)
    <3>1. position'[x] = held[o] + qty[o] /\ held[o] <= Shares(slot(o))
      BY <1>1, <2>1 DEF TypeOK, PositionInv
    <3>2. held[o] \in Nat /\ qty[o] \in Nat /\ slot(o) \in Slot
      BY <1>1, RequestAssumption DEF TypeOK
    <3>3. Shares(slot(o)) \in Nat /\ Shares(x)' = Shares(slot(o)) + qty[o]
      BY <1>4, <1>6, <2>1, <3>2
    <3> QED
      BY <3>1, <3>2, <3>3
  <2>2. CASE x # slot(o)
    <3>1. position'[x] = position[x] /\ position[x] <= Shares(x) /\ position[x] \in Nat
      BY <1>1, <2>2 DEF TypeOK, PositionInv
    <3> QED
      BY <1>4, <3>1
  <2> QED
    BY <2>1, <2>2
<1>8. \A a \in Order : step'[a] = "save" => held'[a] <= Shares(slot(a))'
  <2> SUFFICES ASSUME NEW a \in Order, step'[a] = "save"
               PROVE  held'[a] <= Shares(slot(a))'
    OBVIOUS
  <2>1. slot(a) \in Slot /\ slot(a)' = slot(a)
    BY RequestAssumption DEF slot, Slot
  <2>2. held'[a] = held[a] /\ held[a] \in Nat /\ held[a] <= Shares(slot(a))
    BY <1>1 DEF TypeOK, PositionInv
  <2> QED
    BY <1>4, <2>1, <2>2
<1> QED
  BY <1>2, <1>7, <1>8 DEF PositionInv

LEMMA PositionStep == Inv /\ PositionInv /\ [Next]_vars => PositionInv'
<1> SUFFICES ASSUME Inv, PositionInv, [Next]_vars PROVE PositionInv'
  OBVIOUS
<1>1. TypeOK
  BY DEF Inv
<1>2. CASE SharesIdle
  BY <1>1, <1>2, IdleKeepsShares
<1>3. ASSUME NEW o \in Order, Delivers(o) PROVE PositionInv'
  BY <1>3, BookKeepsShares, ReadKeepsShares, SaveKeepsShares DEF Delivers
<1> QED
  BY <1>1, <1>2, <1>3, ShareMoves

LEMMA PositionInit == Init => PositionInv
<1> SUFFICES ASSUME Init PROVE PositionInv
  OBVIOUS
<1>1. Traded = {} /\ \A x : Added(x) = {}
  BY DEF Init, Traded, Added
<1>2. \A x : Shares(x) = 0
  BY <1>1, SumEmpty DEF Shares
<1> QED
  BY <1>1, <1>2, FS_EmptySet DEF Init, PositionInv

LEMMA PositionWithin ==
  ASSUME TypeOK, PositionInv
  PROVE  PositionWithinTrades
<1> SUFFICES ASSUME NEW x \in Slot PROVE position[x] <= Bought(x)
  BY DEF PositionWithinTrades
<1> DEFINE S == {o \in Order : slot(o) = x /\ trade[o] # NoPrice}
<1>1. S \subseteq Order /\ S \subseteq Traded /\ Added(x) \subseteq S
  BY DEF Added, Traded
<1>2. IsFiniteSet(S) /\ Bought(x) = SumFunctionOnSet(qty, S)
  BY <1>1, FS_Subset DEF PositionInv, Bought
<1> HIDE DEF S
<1>3. Shares(x) \in Nat /\ Bought(x) \in Nat /\ Shares(x) <= Bought(x)
  BY <1>1, <1>2, QuantitiesAdd, SharesAreNat DEF PositionInv, Shares
<1> QED
  BY <1>3 DEF TypeOK, PositionInv

\* The portfolio never shows shares that no trade bought, although two handlers
\* may read the same position and save it one after the other.
THEOREM PositionWithinTradesHolds == Spec => []PositionWithinTrades
<1>1. Init => Inv /\ PositionInv
  BY TypeInit, InvInit, PositionInit DEF Inv
<1>2. Inv /\ PositionInv /\ [Next]_vars => Inv' /\ PositionInv'
  BY InvStep, PositionStep
<1>3. Inv /\ PositionInv => PositionWithinTrades
  BY PositionWithin DEF Inv
<1> QED
  BY <1>1, <1>2, <1>3, PTL DEF Spec

-----------------------------------------------------------------------------
(* What a step can do to the status and the charges of the orders.         *)

StatusMove(o, from, to) ==
  status[o] = from /\ status' = [status EXCEPT ![o] = to] /\ UNCHANGED <<taken, spent>>

\* The handler of o settles its status and has nothing left to do.
SettlingMove(o, last, to) ==
  /\ StatusMove(o, "executing", to)
  /\ step[o] = last /\ step'[o] = "finish"

ChargingMove(o) ==
  /\ step[o] = "reserve" /\ UNCHANGED <<status, spent>>
  /\ taken' = [taken EXCEPT ![o] = <<cost(o, quote[o])>>]

OrderMove(o) ==
  \/ StatusMove(o, "none", "pending") /\ IndexAllows(o)
  \/ StatusMove(o, "pending", "cancelled") \/ StatusMove(o, "triggered", "cancelled")
  \/ StatusMove(o, "pending", "triggered")
  \/ StatusMove(o, "triggered", "executing")
  \/ SettlingMove(o, "release", "pending")
  \/ SettlingMove(o, "reject", "failed")
  \/ SettlingMove(o, "complete", "completed")
  \/ ChargingMove(o)

LEMMA WorkerMoves ==
  ASSUME Inv, NEW o \in Order, ExecutionWorker(o)
  PROVE  UNCHANGED <<status, taken>> \/ OrderMove(o)
<1>1. TypeOK /\ OrderInv(o)
  BY DEF Inv
<1> USE DEF OrderMove, StatusMove, SettlingMove, ChargingMove
<1>2. CASE TakeExecution(o) \/ ReadQuote(o) \/ ReadPosition(o) \/ PositionRefused(o)
             \/ FinishExecution(o)
  BY <1>2 DEF TakeExecution, ReadQuote, ReadPosition, PositionRefused, FinishExecution,
              mongo
<1>3. CASE WriteLedger(o) \/ Book(o) \/ SavePosition(o)
  BY <1>3 DEF WriteLedger, Book, SavePosition
<1>4. CASE Claim(o)
  BY <1>4 DEF Claim, Claimable
<1>5. CASE CheckExisting(o)
  BY <1>1, <1>5 DEF CheckExisting, OrderInv, StepInv, Untouched
<1>6. step[o] \in Working => status[o] = "executing"
  BY <1>1 DEF OrderInv, StepInv
<1>7. CASE Release(o)
  BY <1>1, <1>6, <1>7 DEF Release, Advance, TypeOK, Working
<1>8. CASE Reject(o)
  BY <1>1, <1>6, <1>8
     DEF Reject, Settle, StillExecuting, AfterReject, Advance, TypeOK, Working
<1>9. CASE Complete(o)
  BY <1>1, <1>6, <1>9 DEF Complete, Settle, StillExecuting, Advance, TypeOK, Working
<1>10. CASE Reserve(o)
  <2>1. taken[o] = <<>> /\ step[o] = "reserve" /\ UNCHANGED <<status, spent>>
    BY <1>1, <1>10 DEF Reserve, OrderInv, StepInv, Untouched
  <2>2. Append(<<>>, cost(o, quote[o])) = <<cost(o, quote[o])>>
    OBVIOUS
  <2> QED
    BY <1>1, <1>10, <2>1, <2>2 DEF Reserve, Debit, Refuse, TypeOK
<1> QED
  BY <1>2, <1>3, <1>4, <1>5, <1>7, <1>8, <1>9, <1>10, Zenon DEF ExecutionWorker

LEMMA StepMoves ==
  ASSUME Inv, [Next]_vars
  PROVE  UNCHANGED <<status, taken>> \/ \E o \in Order : OrderMove(o)
<1>1. CASE \/ UNCHANGED vars \/ Crash \/ EnqueueExecution
           \/ PriceWorker \/ PriceError \/ EvaluationError
           \/ StartEvaluation \/ FindEligible \/ FinishEvaluation
  BY <1>1
     DEF vars, Crash, EnqueueExecution, PriceWorker, TakePriceJob, UpsertPrice,
         EnqueueAfterPrice, FinishPriceJob, PriceError, EvaluationError, StartEvaluation,
         FindEligible, FinishEvaluation, mongo
<1>2. CASE \/ \E u \in User, amount \in TopUp : Deposit(u, amount)
           \/ \E s \in Symbol, p \in Price : AnnouncePrice(s, p)
  BY <1>2 DEF Deposit, AnnouncePrice, mongo
<1>3. ASSUME NEW o \in Order,
             ReceiveCreate(o) \/ ReadStock(o) \/ CheckFunds(o) \/ EnqueueOnCreate(o)
               \/ RequestError(o) \/ DebitError(o) \/ ExecutionError(o)
      PROVE  UNCHANGED <<status, taken>>
  BY <1>3 DEF ReceiveCreate, ReadStock, CheckFunds, EnqueueOnCreate, RequestError,
              DebitError, ExecutionError, mongo
<1>4. ASSUME NEW o \in Order, InsertOrder(o)
      PROVE  UNCHANGED <<status, taken>> \/ OrderMove(o)
  <2>1. status[o] = "none"
    BY <1>4 DEF Inv, OrderInv, StatusInv, InsertOrder, NotInserted
  <2> QED
    BY <1>4, <2>1 DEF InsertOrder, OrderMove, StatusMove
<1>5. ASSUME NEW o \in Order, CancelOrder(o) \/ MarkTriggered(o)
      PROVE  UNCHANGED <<status, taken>> \/ OrderMove(o)
  BY <1>5 DEF CancelOrder, Cancellable, MarkTriggered, StillPending, OrderMove, StatusMove
<1> QED
  BY <1>1, <1>2, <1>3, <1>4, <1>5, StepKinds, WorkerMoves

\* No step revives an order that is COMPLETED, CANCELLED or FAILED.
THEOREM TerminalIsFinalHolds == Spec => TerminalIsFinal
<1> DEFINE final == \A o \in Order :
      status[o] \in {"completed", "cancelled", "failed"} => status'[o] = status[o]
<1>1. Inv /\ [Next]_vars => final
  <2> SUFFICES ASSUME Inv, [Next]_vars PROVE final
    OBVIOUS
  <2>1. ASSUME NEW o \in Order, OrderMove(o) PROVE final
    BY <2>1 DEF Inv, TypeOK, OrderMove, StatusMove, SettlingMove, ChargingMove
  <2> QED
    BY <2>1, StepMoves
<1> QED
  BY <1>1, Invariance, PTL DEF Spec, TerminalIsFinal

\* Only the handler that claimed an order takes it out of EXECUTING.
THEOREM ClaimIsExclusiveHolds == Spec => ClaimIsExclusive
<1> DEFINE exclusive == \A o \in Order :
      status[o] = "executing" /\ status'[o] # "executing"
        => /\ step[o] \in {"check", "release", "reject", "complete"}
           /\ step'[o] = "finish"
<1>1. Inv /\ [Next]_vars => exclusive
  <2> SUFFICES ASSUME Inv, [Next]_vars PROVE exclusive
    OBVIOUS
  <2>1. ASSUME NEW o \in Order, OrderMove(o) PROVE exclusive
    BY <2>1 DEF Inv, TypeOK, OrderMove, StatusMove, SettlingMove, ChargingMove
  <2> QED
    BY <2>1, StepMoves
<1> QED
  BY <1>1, Invariance, PTL DEF Spec, ClaimIsExclusive

\* The unique index keeps one order per idempotency key.
THEOREM OneOrderPerKeyHolds == Spec => []OneOrderPerKey
<1>1. Init => OneOrderPerKey
  BY DEF Init, OneOrderPerKey
<1>2. Inv /\ OneOrderPerKey /\ [Next]_vars => OneOrderPerKey'
  <2> SUFFICES ASSUME Inv, OneOrderPerKey, [Next]_vars PROVE OneOrderPerKey'
    OBVIOUS
  <2>1. ASSUME NEW o \in Order, StatusMove(o, "none", "pending"), IndexAllows(o)
        PROVE  OneOrderPerKey'
    BY <2>1 DEF OneOrderPerKey, StatusMove, IndexAllows, SameKey, Inv, TypeOK
  <2>2. ASSUME NEW o \in Order, OrderMove(o),
               ~ (StatusMove(o, "none", "pending") /\ IndexAllows(o))
        PROVE  OneOrderPerKey'
    <3>1. \A a \in Order : status[a] = "none" => status'[a] = "none"
      BY <2>2 DEF Inv, TypeOK, OrderMove, StatusMove, SettlingMove, ChargingMove
    <3> QED
      BY <3>1 DEF OneOrderPerKey
  <2>3. CASE UNCHANGED <<status, taken>>
    BY <2>3 DEF OneOrderPerKey
  <2> QED
    BY <2>1, <2>2, <2>3, StepMoves
<1> QED
  BY <1>1, <1>2, Invariance, PTL DEF Spec

-----------------------------------------------------------------------------
(* The pipeline implements OrderContract.                                  *)

LEMMA Phases ==
  /\ PhaseOf("none") = "none"
  /\ PhaseOf("pending") = "open" /\ PhaseOf("triggered") = "open"
  /\ PhaseOf("executing") = "working"
  /\ PhaseOf("completed") = "bought"
  /\ PhaseOf("cancelled") = "void" /\ PhaseOf("failed") = "void"
  BY DEF PhaseOf

LEMMA ContractInit == Init => Contract!Init
  BY Phases, Events DEF Init, Contract!Init, phaseOf

\* A move of the status is a move of the phase.
LEMMA PhaseMove ==
  ASSUME status \in [Order -> Status], NEW o \in Order, NEW s, NEW t, StatusMove(o, s, t)
  PROVE  /\ phaseOf[o] = PhaseOf(s)
         /\ phaseOf' = [phaseOf EXCEPT ![o] = PhaseOf(t)]
         /\ UNCHANGED <<taken, spent>>
  BY DEF StatusMove, phaseOf

LEMMA ContractStep ==
  ASSUME Inv, NEW o \in Order, OrderMove(o)
  PROVE  [Contract!Next]_(Contract!terms)
<1>1. TypeOK /\ OrderInv(o) /\ status \in [Order -> Status]
  BY DEF Inv, TypeOK
<1> USE DEF Contract!Move
<1>2. CASE StatusMove(o, "none", "pending")
  <2>1. Contract!Place(o)
    BY <1>1, <1>2, PhaseMove, Phases DEF Contract!Place
  <2> QED
    BY <2>1 DEF Contract!Next
<1>3. CASE StatusMove(o, "pending", "cancelled") \/ StatusMove(o, "triggered", "cancelled")
  <2>1. Contract!Withdraw(o)
    BY <1>1, <1>3, PhaseMove, Phases DEF Contract!Withdraw
  <2> QED
    BY <2>1 DEF Contract!Next
<1>4. CASE StatusMove(o, "pending", "triggered")
  <2>1. phaseOf' = phaseOf /\ UNCHANGED <<taken, spent>>
    BY <1>1, <1>4, Phases DEF StatusMove, phaseOf
  <2> QED
    BY <2>1 DEF Contract!terms
<1>5. CASE StatusMove(o, "triggered", "executing")
  <2>1. Contract!Begin(o)
    BY <1>1, <1>5, PhaseMove, Phases DEF Contract!Begin
  <2> QED
    BY <2>1 DEF Contract!Next
<1>6. CASE SettlingMove(o, "release", "pending")
  <2>1. taken[o] = <<>>
    BY <1>1, <1>6 DEF OrderInv, StepInv, Untouched, SettlingMove
  <2>2. Contract!GiveBack(o)
    BY <1>1, <1>6, <2>1, PhaseMove, Phases DEF Contract!GiveBack, SettlingMove
  <2> QED
    BY <2>2 DEF Contract!Next
<1>7. CASE SettlingMove(o, "reject", "failed")
  <2>1. taken[o] = <<>> \/ spent["error"] > 0
    BY <1>1, <1>7, Events DEF OrderInv, StepInv, Untouched, SettlingMove, TypeOK
  <2>2. Contract!RejectOrder(o)
    BY <1>1, <1>7, <2>1, PhaseMove, Phases DEF Contract!RejectOrder, SettlingMove
  <2> QED
    BY <2>2 DEF Contract!Next
<1>8. CASE SettlingMove(o, "complete", "completed")
  <2>1. taken[o] # <<>>
    <3>1. trade[o] # NoPrice
      BY <1>1, <1>8 DEF OrderInv, StepInv, SettlingMove
    <3>2. PICK p \in Price : ChargedAt(o, p)
      BY <1>1, <3>1 DEF OrderInv, BookInv, Untouched
    <3> QED
      BY <3>2 DEF ChargedAt
  <2>2. Contract!Deliver(o)
    BY <1>1, <1>8, <2>1, PhaseMove, Phases DEF Contract!Deliver, SettlingMove
  <2> QED
    BY <2>2 DEF Contract!Next
<1>9. CASE ChargingMove(o)
  <2>1. /\ taken[o] = <<>> /\ status[o] = "executing"
        /\ quote[o] \in Price /\ quote[o] <= target[o]
    BY <1>1, <1>9 DEF OrderInv, StepInv, Untouched, Working, ChargingMove
  <2>2. phaseOf[o] = "working" /\ phaseOf' = phaseOf
    BY <1>1, <1>9, <2>1, Phases DEF phaseOf, ChargingMove
  <2>3. Contract!Charge(o, quote[o])
    BY <1>9, <2>1, <2>2 DEF Contract!Charge, ChargingMove, cost
  <2> QED
    BY <2>1, <2>3 DEF Contract!Next
<1> QED
  BY <1>2, <1>3, <1>4, <1>5, <1>6, <1>7, <1>8, <1>9 DEF OrderMove

\* A step that moves no status and charges nothing is none of the contract's,
\* or the first failure of a call.
LEMMA QuietStep ==
  ASSUME TypeOK, TypeOK', ErrorsStay, UNCHANGED <<status, taken>>
  PROVE  [Contract!Next]_(Contract!terms)
<1>1. UNCHANGED <<phaseOf, taken>>
  BY DEF phaseOf
<1>2. CASE spent'["error"] > 0
  BY <1>1, <1>2 DEF Contract!Break, Contract!Next
<1>3. CASE ~ (spent'["error"] > 0)
  <2>1. spent["error"] = 0 /\ spent'["error"] = 0
    BY <1>3, Events DEF ErrorsStay, TypeOK
  <2> QED
    BY <1>1, <2>1 DEF Contract!terms
<1> QED
  BY <1>2, <1>3

\* Every run of the pipeline keeps the contract, whatever crashes or fails.
THEOREM KeepsContractHolds == Spec => KeepsContract
<1>1. Inv /\ [Next]_vars => [Contract!Next]_(Contract!terms)
  <2> SUFFICES ASSUME Inv, [Next]_vars PROVE [Contract!Next]_(Contract!terms)
    OBVIOUS
  <2>1. TypeOK /\ TypeOK' /\ ErrorsStay
    BY TypeStep, ErrorsStayed DEF Inv
  <2> QED
    BY <2>1, QuietStep, StepMoves, ContractStep
<1> QED
  BY <1>1, ContractInit, Invariance, PTL DEF Spec, KeepsContract, Contract!Spec

-----------------------------------------------------------------------------
(* The inline driver.  The invariant of the orders is the one above.       *)

\* The steps of OrderPipeline that the inline driver takes as they are.
Borrowed(o) ==
  \/ ReceiveCreate(o) \/ CancelOrder(o) \/ RequestError(o) \/ DebitError(o)
  \/ ReadStock(o) \/ CheckFunds(o) \/ InsertOrder(o) \/ InlineExecution(o)

DepositStep == \E u \in User, amount \in TopUp : Deposit(u, amount)

\* The steps of its own.
OwnAction(h) ==
  \/ h \in Hook /\ ((\E p \in Price : ReceivePrice(h, p)) \/ InlineUpsert(h))
  \/ InlineRead(h) \/ InlineFind(h) \/ InlineReturn(h) \/ InlineFinish(h)
  \/ (\E o \in Order : o \in left[h] /\ InlineMark(h, o))
  \/ EvaluationThrows(h) \/ ExecutionThrows(h)

LEMMA InlineKinds ==
  ASSUME [InlineNext]_<<vars, handlers>>, runs \in [Handler -> SUBSET Order],
         left \in [Handler -> SUBSET Order]
  PROVE  \/ UNCHANGED <<vars, handlers>>
         \/ (DepositStep \/ \E o \in Order : Borrowed(o)) /\ UNCHANGED handlers
         \/ InlineCrash
         \/ \E h \in Handler : OwnAction(h)
<1>1. Hook \subseteq Handler
  BY DEF Handler
<1>2. CASE InlineEnvironment
  BY <1>1, <1>2, Zenon DEF InlineEnvironment, Borrowed, DepositStep, OwnAction
<1>3. ASSUME NEW h \in Handler, InlineHandler(h)
      PROVE  \/ (\E o \in Order : Borrowed(o)) /\ UNCHANGED handlers
             \/ OwnAction(h)
  BY <1>3 DEF InlineHandler, Borrowed, OwnAction
<1> QED
  BY <1>2, <1>3, Zenon DEF InlineNext, InlineRest

LEMMA BorrowedIsNext ==
  ASSUME DepositStep \/ \E o \in Order : Borrowed(o)
  PROVE  [Next]_vars
  BY Zenon DEF DepositStep, Borrowed, InlineExecution, Next, Environment, CreateHandler,
               ExecutionWorker

\* None of them begins or ends an execution, or queues anything.
LEMMA BorrowedStaysBusy ==
  ASSUME TypeOK, DepositStep \/ \E o \in Order : Borrowed(o)
  PROVE  /\ \A a \in Order : step'[a] # "idle" <=> step[a] # "idle"
         /\ UNCHANGED <<priceQueue, evalQueue>>
<1>1. CASE DepositStep
  BY <1>1 DEF DepositStep, Deposit, feed, evaluation, execution
<1>2. ASSUME NEW o \in Order,
             ReceiveCreate(o) \/ CancelOrder(o) \/ RequestError(o) \/ ReadStock(o)
               \/ CheckFunds(o) \/ InsertOrder(o)
      PROVE  UNCHANGED <<step, priceQueue, evalQueue>>
  BY <1>2 DEF ReceiveCreate, CancelOrder, RequestError, ReadStock, CheckFunds, InsertOrder,
              feed, evaluation, execution
<1>3. ASSUME NEW o \in Order, DebitError(o) \/ InlineExecution(o)
      PROVE  /\ UNCHANGED <<priceQueue, evalQueue>>
             /\ step[o] # "idle"
             /\ \E s \in ExecStep \ {"idle"} : step' = [step EXCEPT ![o] = s]
  <2> USE DEF Advance, ExecStep, feed, evaluation
  <2>1. CASE DebitError(o) \/ Claim(o) \/ CheckExisting(o)
    BY <1>3, <2>1 DEF DebitError, Claim, CheckExisting
  <2>2. CASE ReadQuote(o) \/ Release(o) \/ Reserve(o)
    BY <1>3, <2>2 DEF ReadQuote, Release, Reserve
  <2>3. CASE WriteLedger(o) \/ Reject(o) \/ Book(o)
    BY <1>3, <2>3 DEF WriteLedger, AfterLedger, Reject, AfterReject, Book
  <2>4. CASE ReadPosition(o) \/ SavePosition(o) \/ Complete(o)
    BY <1>3, <2>4 DEF ReadPosition, SavePosition, Complete
  <2> QED
    BY <1>3, <2>1, <2>2, <2>3, <2>4, Zenon DEF InlineExecution
<1>4. ASSUME NEW o \in Order, DebitError(o) \/ InlineExecution(o)
      PROVE  \A a \in Order : step'[a] # "idle" <=> step[a] # "idle"
  BY <1>3, <1>4 DEF TypeOK
<1> QED
  BY <1>1, <1>2, <1>3, <1>4 DEF Borrowed

\* None of them makes an order PENDING that is about to be claimed.
LEMMA BorrowedClaims ==
  ASSUME Inv, DepositStep \/ \E o \in Order : Borrowed(o),
         \A a \in Order : step[a] = "claim" => status[a] \notin {"none", "pending"}
  PROVE  \A a \in Order : step'[a] = "claim" => status'[a] \notin {"none", "pending"}
<1> USE DEF Inv, TypeOK, Advance
<1>1. CASE DepositStep
  BY <1>1 DEF DepositStep, Deposit, execution
<1>2. ASSUME NEW o \in Order,
             ReceiveCreate(o) \/ RequestError(o) \/ ReadStock(o) \/ CheckFunds(o)
      PROVE  UNCHANGED <<step, status>>
  BY <1>2 DEF ReceiveCreate, RequestError, ReadStock, CheckFunds, mongo, execution
<1>3. ASSUME NEW o \in Order, CancelOrder(o)
      PROVE  \A a \in Order : step'[a] = "claim" => status'[a] \notin {"none", "pending"}
  BY <1>3 DEF CancelOrder, execution
<1>4. ASSUME NEW o \in Order, InsertOrder(o)
      PROVE  \A a \in Order : step'[a] = "claim" => status'[a] \notin {"none", "pending"}
  <2>1. status[o] = "none"
    BY <1>4 DEF InsertOrder, OrderInv, StatusInv, NotInserted
  <2> QED
    BY <1>4, <2>1 DEF InsertOrder, execution
<1>5. ASSUME NEW o \in Order, DebitError(o) \/ InlineExecution(o)
      PROVE  /\ \E s \in ExecStep \ {"claim"} : step' = [step EXCEPT ![o] = s]
             /\ \A a \in Order \ {o} : status'[a] = status[a]
  <2> USE DEF ExecStep, Settle, mongo
  <2>1. CASE DebitError(o) \/ Claim(o) \/ CheckExisting(o)
    BY <1>5, <2>1 DEF DebitError, Claim, CheckExisting
  <2>2. CASE ReadQuote(o) \/ Release(o) \/ Reserve(o)
    BY <1>5, <2>2 DEF ReadQuote, Release, Reserve
  <2>3. CASE WriteLedger(o) \/ Reject(o) \/ Book(o)
    BY <1>5, <2>3 DEF WriteLedger, AfterLedger, Reject, AfterReject, Book
  <2>4. CASE ReadPosition(o) \/ SavePosition(o) \/ Complete(o)
    BY <1>5, <2>4 DEF ReadPosition, SavePosition, Complete
  <2> QED
    BY <1>5, <2>1, <2>2, <2>3, <2>4, Zenon DEF InlineExecution
<1>6. ASSUME NEW o \in Order, DebitError(o) \/ InlineExecution(o)
      PROVE  \A a \in Order : step'[a] = "claim" => status'[a] \notin {"none", "pending"}
  BY <1>5, <1>6
<1> QED
  BY <1>1, <1>2, <1>3, <1>4, <1>6 DEF Borrowed

-----------------------------------------------------------------------------
(* The invariant of the handlers: who executes what.                       *)

HandlerTypes ==
  /\ at \in [Handler -> {"rest", "upsert", "read", "find", "mark", "run"}]
  /\ told \in [Handler -> Price \cup {NoPrice}]
  /\ left \in [Handler -> SUBSET Order] /\ runs \in [Handler -> SUBSET Order]
  /\ priceQueue = <<>> /\ evalQueue = <<>>
  /\ \A h \in Handler : at[h] = "upsert" => told[h] \in Price

\* A handler that is in an execution has one order, which no other has; and an
\* order that is about to be claimed has been triggered.
Executions ==
  /\ \A h \in Handler : runs[h] # {} => at[h] = "run"
  /\ \A h \in Handler : \A o, a \in runs[h] : o = a
  /\ \A o \in Order : step[o] # "idle" <=> \E h \in Handler : o \in runs[h]
  /\ \A h, i \in Handler : h # i => runs[h] \cap runs[i] = {}
  /\ \A o \in Order : step[o] = "claim" => status[o] \notin {"none", "pending"}

InlineInv == Inv /\ HandlerTypes /\ Executions

LEMMA InlineInitInv == InlineInit => InlineInv
<1> SUFFICES ASSUME InlineInit PROVE HandlerTypes /\ Executions
  BY TypeInit, InvInit DEF InlineInit, InlineInv, Inv
<1>1. step = [o \in Order |-> "idle"] /\ priceQueue = <<>> /\ evalQueue = <<>>
  BY DEF InlineInit, Init
<1>2. /\ at = [h \in Handler |-> "rest"] /\ told = [h \in Handler |-> NoPrice]
      /\ left = [h \in Handler |-> {}] /\ runs = [h \in Handler |-> {}]
  BY DEF InlineInit
<1>3. HandlerTypes
  BY <1>1, <1>2 DEF HandlerTypes
<1>4. Executions
  BY <1>1, <1>2 DEF Executions
<1> QED
  BY <1>3, <1>4

\* What an action that only moves a handler keeps.
LEMMA QuietInv ==
  ASSUME Inv, TypeOK', ErrorsStay,
         UNCHANGED <<status, taken, ledger, trade, step, quote>>,
         \A q \in Order : req'[q] \in NotInserted => req[q] \in NotInserted
  PROVE  Inv'
  BY SameKeepsInv DEF Inv, Same

LEMMA ErrorsStayHere ==
  ASSUME TypeOK, UNCHANGED spent \/ \E e \in Event : Spend(e)
  PROVE  ErrorsStay /\ spent' \in [Event -> Nat]
<1>1. spent' \in [Event -> Nat]
  BY SpendType DEF TypeOK
<1>2. ErrorsStay
  BY Events DEF TypeOK, Spend, ErrorsStay
<1> QED
  BY <1>1, <1>2

LEMMA StockIsSymbol ==
  ASSUME NEW h \in Handler
  PROVE  stockOf(h) \in Symbol
  BY RequestAssumption, HookAssumption DEF stockOf, Handler

\* The end of a handler.
LEMMA Leaving ==
  ASSUME TypeOK, HandlerTypes, NEW h \in Handler, Leave(h), UNCHANGED <<priceQueue, evalQueue>>
  PROVE  /\ HandlerTypes'
         /\ req' \in [Order -> ReqStep]
         /\ \A q \in Order : req'[q] \in NotInserted => req[q] \in NotInserted
         /\ at'[h] = "rest" /\ runs' = [runs EXCEPT ![h] = {}]
         /\ \A i \in Handler : i # h => at'[i] = at[i]
<1>1. /\ HandlerTypes' /\ at'[h] = "rest" /\ runs' = [runs EXCEPT ![h] = {}]
      /\ \A i \in Handler : i # h => at'[i] = at[i]
  BY DEF Leave, Continue, HandlerTypes
<1>2. req' = IF h \in Order THEN [req EXCEPT ![h] = "done"] ELSE req
  BY DEF Leave
<1> QED
  BY <1>1, <1>2 DEF TypeOK, ReqStep, NotInserted

\* A handler that ends outside an execution, or with the execution.
LEMMA LeavingExecutions ==
  ASSUME HandlerTypes, Executions, NEW h \in Handler,
         runs' = [runs EXCEPT ![h] = {}], UNCHANGED status,
         \A i \in Handler : i # h => at'[i] = at[i],
         \A o \in Order : step'[o] = IF o \in runs[h] THEN "idle" ELSE step[o]
  PROVE  Executions'
<1>1. runs \in [Handler -> SUBSET Order]
  BY DEF HandlerTypes
<1>2. runs'[h] = {} /\ \A i \in Handler : i # h => runs'[i] = runs[i]
  BY <1>1
<1>3. \A i \in Handler : runs'[i] # {} => at'[i] = "run"
  BY <1>2 DEF Executions
<1>4. \A i \in Handler : \A o, a \in runs'[i] : o = a
  BY <1>2 DEF Executions
<1>5. \A i, j \in Handler : i # j => runs'[i] \cap runs'[j] = {}
  BY <1>2 DEF Executions
<1>6. ASSUME NEW o \in Order
      PROVE  step'[o] # "idle" <=> \E i \in Handler : o \in runs'[i]
  <2>1. CASE o \in runs[h]
    <3>1. \A i \in Handler : o \notin runs'[i]
      BY <1>2, <2>1 DEF Executions
    <3> QED
      BY <2>1, <3>1
  <2>2. CASE o \notin runs[h]
    <3>1. \A i \in Handler : o \in runs'[i] <=> o \in runs[i]
      BY <1>2, <2>2
    <3> QED
      BY <2>2, <3>1 DEF Executions
  <2> QED
    BY <2>1, <2>2
<1>7. \A o \in Order : step'[o] = "claim" => status'[o] \notin {"none", "pending"}
  BY DEF Executions
<1> QED
  BY <1>3, <1>4, <1>5, <1>6, <1>7 DEF Executions

\* The handler of an order's execution ends.
LEMMA EndingExecution ==
  ASSUME Inv, HandlerTypes, Executions, NEW h \in Handler, NEW o \in runs[h],
         EndExecution(o, "absent")
  PROVE  /\ step' \in [Order -> ExecStep] /\ execJob' \in [Order -> JobState]
         /\ stalls' \in [Order -> Nat] /\ quote' \in [Order -> Price \cup {NoPrice}]
         /\ held' \in [Order -> Nat]
         /\ \A a \in Order : step'[a] = IF a \in runs[h] THEN "idle" ELSE step[a]
         /\ \A a \in Order : step'[a] \in {"idle", step[a]}
         /\ \A a \in Order : a # o => step'[a] = step[a] /\ quote'[a] = quote[a]
         /\ \A a \in Order : step'[a] \in {"reserve", "ledger"} => quote'[a] \in Price
<1>1. o \in Order /\ \A a \in runs[h] : a = o
  BY DEF HandlerTypes, Executions
<1>2. /\ step' \in [Order -> ExecStep] /\ execJob' \in [Order -> JobState]
      /\ stalls' \in [Order -> Nat] /\ quote' \in [Order -> Price \cup {NoPrice}]
      /\ held' \in [Order -> Nat]
      /\ step'[o] = "idle"
      /\ \A a \in Order : a # o => step'[a] = step[a] /\ quote'[a] = quote[a]
  BY <1>1 DEF EndExecution, Advance, Inv, TypeOK, ExecStep, JobState
<1>3. \A a \in Order : step[a] \in {"reserve", "ledger"} => quote[a] \in Price
  BY DEF Inv, TypeOK
<1> QED
  BY <1>1, <1>2, <1>3

LEMMA EndingInv ==
  ASSUME Inv, TypeOK', ErrorsStay, HandlerTypes, Executions, NEW h \in Handler,
         NEW o \in runs[h], EndExecution(o, "absent"),
         UNCHANGED <<status, taken, ledger, trade>>,
         \A q \in Order : req'[q] \in NotInserted => req[q] \in NotInserted
  PROVE  Inv'
<1>1. /\ o \in Order /\ step'[o] = "idle"
      /\ \A a \in Order : a # o => step'[a] = step[a] /\ quote'[a] = quote[a]
  BY EndingExecution DEF HandlerTypes
<1>2. ASSUME NEW q \in Order, q # o PROVE OrderInv(q)'
  <2>1. Same(q)
    BY <1>1, <1>2 DEF Same
  <2> QED
    BY <1>2, <2>1, SameKeepsInv DEF Inv
<1>3. OrderInv(o)'
  BY <1>1 DEF Inv, OrderInv, StepInv, BookInv, StatusInv, Untouched, ChargedAt, Working,
              ErrorsStay
<1> QED
  BY <1>2, <1>3 DEF Inv

-----------------------------------------------------------------------------
(* The steps of the inline driver keep the invariant.                      *)

\* Its variables change at one handler, which neither begins nor ends an
\* execution, and no document of an order changes.
LEMMA MovingInv ==
  ASSUME InlineInv, TypeOK', ErrorsStay, HandlerTypes', NEW h \in Handler,
         UNCHANGED <<status, taken, ledger, trade, step, quote, req, runs>>,
         at[h] # "run", at'[h] # "run", \A i \in Handler : i # h => at'[i] = at[i]
  PROVE  InlineInv'
<1>1. Inv'
  BY QuietInv DEF InlineInv
<1>2. Executions'
  BY DEF InlineInv, Executions
<1> QED
  BY <1>1, <1>2 DEF InlineInv

LEMMA MoveStep ==
  ASSUME InlineInv, NEW h \in Handler,
         \/ h \in Hook /\ ((\E p \in Price : ReceivePrice(h, p)) \/ InlineUpsert(h))
         \/ InlineRead(h) \/ InlineFind(h)
  PROVE  InlineInv'
<1> USE DEF HandlerTypes, Continue
<1>1. TypeOK /\ HandlerTypes /\ stockOf(h) \in Symbol
  BY StockIsSymbol DEF InlineInv, Inv
<1>2. ASSUME h \in Hook, NEW p \in Price, ReceivePrice(h, p) PROVE InlineInv'
  <2>1. ErrorsStay /\ spent' \in [Event -> Nat]
    BY <1>1, <1>2, ErrorsStayHere, Events DEF ReceivePrice
  <2>2. TypeOK'
    BY <1>1, <1>2, <2>1
       DEF ReceivePrice, TypeOK, mongo, request, feed, evaluation, execution
  <2>3. HandlerTypes' /\ at[h] # "run" /\ at'[h] # "run"
        /\ \A i \in Handler : i # h => at'[i] = at[i]
    BY <1>1, <1>2 DEF ReceivePrice, feed, evaluation
  <2>4. UNCHANGED <<status, taken, ledger, trade, step, quote, req, runs>>
    BY <1>2 DEF ReceivePrice, mongo, request, execution
  <2> QED
    BY <2>1, <2>2, <2>3, <2>4, MovingInv
<1>3. ASSUME h \in Hook, InlineUpsert(h) PROVE InlineInv'
  <2>1. ErrorsStay
    BY <1>1, <1>3, ErrorsStayHere DEF InlineUpsert
  <2>2. told[h] \in Price /\ about[h] \in Symbol
    BY <1>1, <1>3, HookAssumption DEF InlineUpsert
  <2>3. TypeOK'
    BY <1>1, <1>3, <2>2 DEF InlineUpsert, TypeOK, request, feed, evaluation, execution
  <2>4. HandlerTypes' /\ at[h] # "run" /\ at'[h] # "run"
        /\ \A i \in Handler : i # h => at'[i] = at[i]
    BY <1>1, <1>3 DEF InlineUpsert, feed, evaluation
  <2>5. UNCHANGED <<status, taken, ledger, trade, step, quote, req, runs>>
    BY <1>3 DEF InlineUpsert, request, execution
  <2> QED
    BY <2>1, <2>3, <2>4, <2>5, MovingInv
<1>4. ASSUME InlineRead(h) \/ InlineFind(h) PROVE InlineInv'
  <2>1. ErrorsStay
    BY <1>1, <1>4, ErrorsStayHere DEF InlineRead, InlineFind
  <2>2. UNCHANGED vars
    BY <1>4 DEF InlineRead, InlineFind, vars
  <2>3. TypeOK'
    BY <1>1, <2>2 DEF TypeOK, vars, mongo, request, feed, evaluation, execution
  <2>4. price[stockOf(h)] \in Price /\ Eligible(stockOf(h), told[h]) \subseteq Order
    BY <1>1 DEF TypeOK, Eligible
  <2>5. at[h] \in {"rest", "read", "find"} /\ UNCHANGED <<priceQueue, evalQueue>>
    BY <1>4, <2>2 DEF InlineRead, InlineFind, Evaluates, vars, feed, evaluation
  <2>6. HandlerTypes' /\ at'[h] # "run" /\ \A i \in Handler : i # h => at'[i] = at[i]
    BY <1>1, <1>4, <2>4, <2>5 DEF InlineRead, InlineFind
  <2>7. UNCHANGED <<status, taken, ledger, trade, step, quote, req, runs>>
    BY <1>4, <2>2 DEF InlineRead, InlineFind, vars, mongo, request, execution
  <2> QED
    BY <2>1, <2>3, <2>5, <2>6, <2>7, MovingInv
<1> QED
  BY <1>2, <1>3, <1>4

LEMMA MarkStep ==
  ASSUME InlineInv, NEW h \in Handler, NEW o \in Order, o \in left[h], InlineMark(h, o)
  PROVE  InlineInv'
<1>1. /\ TypeOK /\ HandlerTypes /\ Executions /\ Inv /\ ErrorsStay
      /\ at[h] = "mark" /\ runs[h] = {}
  BY ErrorsStayHere DEF InlineInv, Inv, InlineMark, Executions
<1>2. UNCHANGED <<taken, ledger, trade, quote, req, priceQueue, evalQueue, told>>
      /\ left' = [left EXCEPT ![h] = @ \ {o}]
  BY DEF InlineMark, request, feed, evaluation
<1>3. CASE StillPending(o)
  <2>1. /\ status[o] = "pending" /\ status' = [status EXCEPT ![o] = "triggered"]
        /\ step' = [step EXCEPT ![o] = "claim"]
        /\ at' = [at EXCEPT ![h] = "run"]
        /\ runs' = [i \in Handler |->
                     IF i = h THEN {o} ELSE IF step[o] = "finish" THEN runs[i] \ {o} ELSE runs[i]]
    BY <1>3 DEF InlineMark, StillPending, Executes, Advance, Continue
  <2>2. TypeOK'
    BY <1>1, <2>1 DEF InlineMark, TypeOK, Status, ExecStep, request, feed, evaluation
  <2>3. Inv'
    <3>1. ASSUME NEW q \in Order, q # o PROVE OrderInv(q)'
      <4>1. Same(q)
        BY <1>1, <1>2, <2>1, <3>1 DEF TypeOK, Same
      <4> QED
        BY <1>1, <3>1, <4>1, SameKeepsInv DEF Inv
    <3>2. status'[o] = "triggered" /\ step'[o] = "claim" /\ Untouched(o)
          /\ req[o] \notin NotInserted
      BY <1>1, <2>1 DEF Inv, TypeOK, OrderInv, StatusInv
    <3>3. OrderInv(o)'
      BY <1>2, <3>2 DEF OrderInv, StepInv, BookInv, StatusInv, Untouched, Working
    <3> QED
      BY <2>2, <3>1, <3>3 DEF Inv
  <2>4. step[o] \in {"idle", "finish"}
    <3>1. step[o] \notin Working
      BY <1>1, <2>1 DEF Inv, OrderInv, StepInv
    <3>2. step[o] # "claim" /\ step[o] \in ExecStep
      BY <1>1, <2>1 DEF Executions, TypeOK
    <3> QED
      BY <3>1, <3>2 DEF ExecStep, Working
  <2>5. HandlerTypes'
    BY <1>1, <1>2, <2>1 DEF HandlerTypes
  <2>6. /\ runs'[h] = {o}
        /\ \A i \in Handler : i # h => runs'[i] = runs[i] \ {o}
    BY <1>1, <2>1, <2>4 DEF Executions
  <2>7. Executions'
    <3>1. \A i \in Handler : runs'[i] # {} => at'[i] = "run"
      BY <1>1, <2>1, <2>6 DEF Executions, HandlerTypes
    <3>2. \A i \in Handler : \A a, b \in runs'[i] : a = b
      BY <1>1, <2>6 DEF Executions
    <3>3. \A i, j \in Handler : i # j => runs'[i] \cap runs'[j] = {}
      BY <1>1, <2>6 DEF Executions
    <3>4. ASSUME NEW a \in Order
          PROVE  step'[a] # "idle" <=> \E i \in Handler : a \in runs'[i]
      <4>1. CASE a = o
        BY <1>1, <2>1, <2>6, <4>1 DEF TypeOK
      <4>2. CASE a # o
        <5>1. step'[a] = step[a]
          BY <2>1, <4>2
        <5>2. \A i \in Handler : a \in runs'[i] <=> a \in runs[i]
          BY <1>1, <2>6, <4>2
        <5> QED
          BY <1>1, <5>1, <5>2 DEF Executions
      <4> QED
        BY <4>1, <4>2
    <3>5. \A a \in Order : step'[a] = "claim" => status'[a] \notin {"none", "pending"}
      BY <1>1, <2>1 DEF Executions, TypeOK
    <3> QED
      BY <3>1, <3>2, <3>3, <3>4, <3>5 DEF Executions
  <2> QED
    BY <2>3, <2>5, <2>7 DEF InlineInv
<1>4. CASE ~ StillPending(o)
  <2>1. UNCHANGED <<status, step, at, runs>>
    BY <1>4 DEF InlineMark
  <2>2. TypeOK'
    BY <1>1, <2>1 DEF InlineMark, TypeOK, request, feed, evaluation
  <2>3. HandlerTypes'
    BY <1>1, <1>2, <2>1 DEF HandlerTypes
  <2> QED
    BY <1>1, <1>2, <2>1, <2>2, <2>3, MovingInv
<1> QED
  BY <1>3, <1>4

LEMMA ReturnStep ==
  ASSUME InlineInv, NEW h \in Handler, InlineReturn(h)
  PROVE  InlineInv'
<1>1. TypeOK /\ HandlerTypes /\ Executions /\ Inv /\ ErrorsStay
  BY ErrorsStayHere DEF InlineInv, Inv, InlineReturn
<1>2. UNCHANGED <<status, taken, ledger, trade, req, told, left, priceQueue, evalQueue>>
  BY DEF InlineReturn, mongo, request, feed, evaluation
<1>3. /\ at' = [at EXCEPT ![h] = "mark"] /\ runs' = [runs EXCEPT ![h] = {}]
  BY DEF InlineReturn, Continue
<1>4. HandlerTypes'
  BY <1>1, <1>2, <1>3 DEF HandlerTypes
<1>5. \A i \in Handler : i # h => at'[i] = at[i]
  BY <1>1, <1>3 DEF HandlerTypes
<1>6. CASE runs[h] = {} /\ UNCHANGED execution
  <2>1. TypeOK'
    BY <1>1, <1>6
       DEF InlineReturn, TypeOK, mongo, request, feed, evaluation, execution
  <2>2. Inv'
    BY <1>1, <1>2, <1>6, <2>1, QuietInv DEF execution
  <2>3. Executions'
    BY <1>1, <1>2, <1>3, <1>5, <1>6, LeavingExecutions DEF execution
  <2> QED
    BY <1>4, <2>2, <2>3 DEF InlineInv
<1>7. ASSUME NEW o \in runs[h], EndExecution(o, "absent") PROVE InlineInv'
  <2>1. TypeOK'
    <3>1. UNCHANGED <<mongo, request, feed, evaluation, spent>>
      BY DEF InlineReturn
    <3>2. /\ step' \in [Order -> ExecStep] /\ execJob' \in [Order -> JobState]
          /\ stalls' \in [Order -> Nat] /\ quote' \in [Order -> Price \cup {NoPrice}]
          /\ held' \in [Order -> Nat]
          /\ \A a \in Order : step'[a] \in {"reserve", "ledger"} => quote'[a] \in Price
      BY <1>1, <1>7, EndingExecution
    <3> QED
      BY <1>1, <3>1, <3>2 DEF TypeOK, mongo, request, feed, evaluation
  <2>2. Inv'
    BY <1>1, <1>2, <1>7, <2>1, EndingInv
  <2>3. Executions'
    BY <1>1, <1>2, <1>3, <1>5, <1>7, EndingExecution, LeavingExecutions
  <2> QED
    BY <1>4, <2>2, <2>3 DEF InlineInv
<1> QED
  BY <1>6, <1>7 DEF InlineReturn

\* A handler that ends outside an execution, in time or by an exception.
LEMMA FinishStep ==
  ASSUME InlineInv, NEW h \in Handler, InlineFinish(h) \/ EvaluationThrows(h)
  PROVE  InlineInv'
<1>1. TypeOK /\ HandlerTypes /\ Executions /\ Inv /\ ErrorsStay /\ spent' \in [Event -> Nat]
  BY ErrorsStayHere, Events DEF InlineInv, Inv, InlineFinish, EvaluationThrows
<1>2. Leave(h) /\ UNCHANGED <<mongo, seen, feed, evaluation, execution>> /\ at[h] # "run"
  BY DEF InlineFinish, EvaluationThrows, Evaluates
<1>3. UNCHANGED <<status, taken, ledger, trade, step, quote, priceQueue, evalQueue>>
  BY <1>2 DEF mongo, execution, feed, evaluation
<1>4. /\ HandlerTypes'
      /\ req' \in [Order -> ReqStep]
      /\ \A q \in Order : req'[q] \in NotInserted => req[q] \in NotInserted
      /\ at'[h] = "rest" /\ runs' = [runs EXCEPT ![h] = {}]
      /\ \A i \in Handler : i # h => at'[i] = at[i]
  BY <1>1, <1>2, <1>3, Leaving
<1>5. TypeOK'
  BY <1>1, <1>2, <1>4 DEF TypeOK, mongo, feed, evaluation, execution
<1>6. runs[h] = {}
  BY <1>1, <1>2 DEF Executions
<1>7. Executions'
  <2>1. UNCHANGED status /\ \A o \in Order : step'[o] = IF o \in runs[h] THEN "idle" ELSE step[o]
    BY <1>3, <1>6
  <2> QED
    BY <1>1, <1>4, <2>1, LeavingExecutions
<1>8. Inv'
  BY <1>1, <1>3, <1>4, <1>5, QuietInv
<1> QED
  BY <1>4, <1>7, <1>8 DEF InlineInv

LEMMA ThrowStep ==
  ASSUME InlineInv, NEW h \in Handler, ExecutionThrows(h)
  PROVE  InlineInv'
<1>1. TypeOK /\ HandlerTypes /\ Executions /\ Inv /\ ErrorsStay /\ spent' \in [Event -> Nat]
  BY ErrorsStayHere, Events DEF InlineInv, Inv, ExecutionThrows
<1>2. PICK o \in runs[h] : EndExecution(o, "absent")
  BY DEF ExecutionThrows
<1>3. Leave(h) /\ UNCHANGED <<mongo, seen, feed, evaluation>>
  BY DEF ExecutionThrows
<1>4. UNCHANGED <<status, taken, ledger, trade, priceQueue, evalQueue>>
  BY <1>3 DEF mongo, feed, evaluation
<1>5. /\ HandlerTypes'
      /\ req' \in [Order -> ReqStep]
      /\ \A q \in Order : req'[q] \in NotInserted => req[q] \in NotInserted
      /\ at'[h] = "rest" /\ runs' = [runs EXCEPT ![h] = {}]
      /\ \A i \in Handler : i # h => at'[i] = at[i]
  BY <1>1, <1>3, <1>4, Leaving
<1>6. TypeOK'
  <2>1. /\ step' \in [Order -> ExecStep] /\ execJob' \in [Order -> JobState]
        /\ stalls' \in [Order -> Nat] /\ quote' \in [Order -> Price \cup {NoPrice}]
        /\ held' \in [Order -> Nat]
        /\ \A a \in Order : step'[a] \in {"reserve", "ledger"} => quote'[a] \in Price
    BY <1>1, <1>2, EndingExecution
  <2> QED
    BY <1>1, <1>3, <1>5, <2>1 DEF TypeOK, mongo, feed, evaluation
<1>7. Inv'
  BY <1>1, <1>2, <1>4, <1>5, <1>6, EndingInv
<1>8. Executions'
  <2>1. runs[h] = {o} /\ UNCHANGED status
    BY <1>1, <1>2, <1>4 DEF Executions, HandlerTypes
  <2>2. \A a \in Order : step'[a] = IF a \in runs[h] THEN "idle" ELSE step[a]
    BY <1>1, <1>2, <2>1, EndingExecution
  <2> QED
    BY <1>1, <1>5, <2>1, <2>2, LeavingExecutions
<1> QED
  BY <1>5, <1>7, <1>8 DEF InlineInv

LEMMA CrashStep ==
  ASSUME InlineInv, InlineCrash
  PROVE  InlineInv'
<1>1. TypeOK /\ HandlerTypes /\ Crash /\ [Next]_vars
  BY Zenon DEF InlineInv, Inv, InlineCrash, Next, Environment
<1>2. Inv'
  BY <1>1, InvStep DEF InlineInv
<1>3. /\ at' = [h \in Handler |-> "rest"] /\ told' = [h \in Handler |-> NoPrice]
      /\ left' = [h \in Handler |-> {}] /\ runs' = [h \in Handler |-> {}]
  BY DEF InlineCrash
<1>4. UNCHANGED <<priceQueue, evalQueue>> /\ step' = [o \in Order |-> "idle"]
  BY <1>1 DEF Crash, HandlerTypes, TypeOK
<1>5. HandlerTypes'
  BY <1>1, <1>3, <1>4 DEF HandlerTypes
<1>6. Executions'
  BY <1>3, <1>4 DEF Executions
<1> QED
  BY <1>2, <1>5, <1>6 DEF InlineInv

LEMMA BorrowedStep ==
  ASSUME InlineInv, DepositStep \/ \E o \in Order : Borrowed(o), UNCHANGED handlers
  PROVE  InlineInv'
<1>1. TypeOK /\ [Next]_vars
  BY BorrowedIsNext DEF InlineInv, Inv
<1>2. Inv'
  BY <1>1, InvStep DEF InlineInv
<1>3. /\ \A a \in Order : step'[a] # "idle" <=> step[a] # "idle"
      /\ UNCHANGED <<priceQueue, evalQueue>>
  BY <1>1, BorrowedStaysBusy
<1>4. \A a \in Order : step'[a] = "claim" => status'[a] \notin {"none", "pending"}
  BY <1>1, BorrowedClaims DEF InlineInv, Inv, Executions
<1>5. UNCHANGED <<at, told, left, runs>> /\ HandlerTypes /\ Executions
  BY DEF InlineInv, handlers
<1>6. HandlerTypes'
  BY <1>3, <1>5 DEF HandlerTypes
<1>7. Executions'
  BY <1>3, <1>4, <1>5 DEF Executions
<1> QED
  BY <1>2, <1>6, <1>7 DEF InlineInv

LEMMA InlineStep == InlineInv /\ [InlineNext]_<<vars, handlers>> => InlineInv'
<1> SUFFICES ASSUME InlineInv, [InlineNext]_<<vars, handlers>> PROVE InlineInv'
  OBVIOUS
<1>1. CASE UNCHANGED <<vars, handlers>>
  <2>1. Inv'
    BY <1>1, InvStep DEF InlineInv
  <2>2. UNCHANGED <<at, told, left, runs, step, status, priceQueue, evalQueue>>
    BY <1>1 DEF handlers, vars, mongo, feed, evaluation, execution
  <2>3. HandlerTypes' /\ Executions'
    BY <2>2 DEF InlineInv, HandlerTypes, Executions
  <2> QED
    BY <2>1, <2>3 DEF InlineInv
<1>2. CASE (DepositStep \/ \E o \in Order : Borrowed(o)) /\ UNCHANGED handlers
  BY <1>2, BorrowedStep
<1>3. CASE InlineCrash
  BY <1>3, CrashStep
<1>4. ASSUME NEW h \in Handler, OwnAction(h) PROVE InlineInv'
  BY <1>4, MoveStep, MarkStep, ReturnStep, FinishStep, ThrowStep DEF OwnAction
<1> QED
  BY <1>1, <1>2, <1>3, <1>4, InlineKinds DEF InlineInv, HandlerTypes

LEMMA InlineInvariance == InlineSpec => []InlineInv
  BY InlineInitInv, InlineStep, PTL DEF InlineSpec

-----------------------------------------------------------------------------

\* However many handlers find an order eligible, one executes it at a time; and
\* nothing is ever queued.
THEOREM OneHandlerPerOrderHolds == InlineSpec => [](OneHandlerPerOrder /\ InlineTypeOK)
<1>1. InlineInv => OneHandlerPerOrder /\ InlineTypeOK
  BY DEF InlineInv, Inv, HandlerTypes, Executions, OneHandlerPerOrder, InlineTypeOK
<1> QED
  BY <1>1, InlineInvariance, PTL

\* The inline driver keeps the contract of OrderContract too, whatever crashes
\* or fails and however the handlers of the requests interleave.
THEOREM InlineKeepsContract == InlineSpec => KeepsContract
<1>1. InlineInit => Contract!Init
  BY ContractInit DEF InlineInit
<1>2. InlineInv /\ [InlineNext]_<<vars, handlers>> => [Contract!Next]_(Contract!terms)
  <2> SUFFICES ASSUME InlineInv, [InlineNext]_<<vars, handlers>>
               PROVE  [Contract!Next]_(Contract!terms)
    OBVIOUS
  <2>1. Inv /\ TypeOK /\ Inv' /\ TypeOK' /\ HandlerTypes
    BY InlineStep DEF InlineInv, Inv
  <2>2. ASSUME [Next]_vars PROVE [Contract!Next]_(Contract!terms)
    BY <2>1, <2>2, ErrorsStayed, QuietStep, StepMoves, ContractStep
  <2>3. CASE UNCHANGED <<vars, handlers>>
    BY <2>2, <2>3
  <2>4. CASE DepositStep \/ \E o \in Order : Borrowed(o)
    BY <2>2, <2>4, BorrowedIsNext
  <2>5. CASE InlineCrash
    <3>1. [Next]_vars
      BY <2>5, Zenon DEF InlineCrash, Next, Environment
    <3> QED
      BY <2>2, <3>1
  <2>6. ASSUME NEW h \in Handler, OwnAction(h) PROVE [Contract!Next]_(Contract!terms)
    <3>1. ErrorsStay
      BY <2>1, <2>6, ErrorsStayHere, Events
         DEF OwnAction, ReceivePrice, InlineUpsert, InlineRead, InlineFind, InlineMark,
             InlineReturn, InlineFinish, EvaluationThrows, ExecutionThrows
    <3>2. CASE \E o \in Order : InlineMark(h, o)
      <4>1. PICK o \in Order : InlineMark(h, o)
        BY <3>2
      <4>2. UNCHANGED <<status, taken>> \/ OrderMove(o)
        BY <4>1 DEF InlineMark, StillPending, OrderMove, StatusMove
      <4> QED
        BY <2>1, <3>1, <4>2, QuietStep, ContractStep
    <3>3. CASE ~ \E o \in Order : InlineMark(h, o)
      <4>1. UNCHANGED <<status, taken>>
        BY <2>6, <3>3
           DEF OwnAction, ReceivePrice, InlineUpsert, InlineRead, InlineFind, InlineReturn,
               InlineFinish, EvaluationThrows, ExecutionThrows, mongo
      <4> QED
        BY <2>1, <3>1, <4>1, QuietStep
    <3> QED
      BY <3>2, <3>3
  <2> QED
    BY <2>1, <2>3, <2>4, <2>5, <2>6, InlineKinds DEF HandlerTypes
<1> QED
  BY <1>1, <1>2, InlineInvariance, PTL DEF InlineSpec, KeepsContract, Contract!Spec

-----------------------------------------------------------------------------
(* The books and the portfolio under the inline driver.                    *)

LEMMA InlineShares == InlineInv /\ PositionInv /\ [InlineNext]_<<vars, handlers>> => PositionInv'
<1> SUFFICES ASSUME InlineInv, PositionInv, [InlineNext]_<<vars, handlers>> PROVE PositionInv'
  OBVIOUS
<1>1. Inv /\ TypeOK /\ HandlerTypes
  BY DEF InlineInv, Inv
<1>2. CASE [Next]_vars
  BY <1>1, <1>2, PositionStep
<1>3. CASE UNCHANGED <<vars, handlers>> \/ InlineCrash
  BY <1>2, <1>3, Zenon DEF InlineCrash, Next, Environment
<1>4. CASE DepositStep \/ \E o \in Order : Borrowed(o)
  BY <1>2, <1>4, BorrowedIsNext
<1>5. ASSUME NEW h \in Handler, OwnAction(h) PROVE PositionInv'
  <2> USE DEF SharesIdle, TypeOK
  <2>1. CASE InlineReturn(h) \/ ExecutionThrows(h)
    <3>1. /\ UNCHANGED <<trade, position>>
          /\ UNCHANGED execution \/ \E o \in runs[h] : EndExecution(o, "absent")
      BY <2>1 DEF InlineReturn, ExecutionThrows, mongo
    <3> QED
      BY <1>1, <3>1, IdleKeepsShares DEF EndExecution, Advance, execution
  <2>2. CASE \E o \in Order : o \in left[h] /\ InlineMark(h, o)
    BY <1>1, <2>2, IdleKeepsShares DEF InlineMark, Executes, Advance
  <2>3. CASE ~ \/ InlineReturn(h) \/ ExecutionThrows(h)
               \/ \E o \in Order : o \in left[h] /\ InlineMark(h, o)
    <3>1. UNCHANGED <<trade, position, step, held>>
      BY <1>5, <2>3 DEF OwnAction, ReceivePrice, InlineUpsert, InlineRead, InlineFind,
                        InlineFinish, EvaluationThrows, mongo, execution
    <3> QED
      BY <1>1, <3>1, IdleKeepsShares
  <2> QED
    BY <2>1, <2>2, <2>3
<1> QED
  BY <1>1, <1>3, <1>4, <1>5, InlineKinds DEF HandlerTypes

\* Orders that are executed inside the request that triggered them are charged,
\* booked and added to the portfolio as correctly as the queued ones.
THEOREM InlineBooksHold ==
  InlineSpec => [](ChargedAtMostOnce /\ BooksAgree /\ IdleOrdersAreFree /\ PositionWithinTrades)
<1>1. InlineInit => InlineInv /\ PositionInv
  BY InlineInitInv, PositionInit DEF InlineInit
<1>2. InlineInv /\ PositionInv /\ [InlineNext]_<<vars, handlers>> => InlineInv' /\ PositionInv'
  BY InlineStep, InlineShares
<1>3. Inv => ChargedAtMostOnce /\ BooksAgree /\ IdleOrdersAreFree
  BY DEF Inv, OrderInv, BookInv, StatusInv, Untouched, ChargedAtMostOnce, BooksAgree,
         IdleOrdersAreFree
<1>4. InlineInv /\ PositionInv
        => ChargedAtMostOnce /\ BooksAgree /\ IdleOrdersAreFree /\ PositionWithinTrades
  BY <1>3, PositionWithin DEF InlineInv, Inv
<1> QED
  BY <1>1, <1>2, <1>4, PTL DEF InlineSpec
=============================================================================
