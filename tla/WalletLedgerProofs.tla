------------------------- MODULE WalletLedgerProofs -------------------------
(* Theorems about WalletLedger, for any number of overlapping calls.       *)
EXTENDS WalletLedger, Sums, TLAPS

USE DEF call, NoRow, Row, Debits

LEMMA TypeInit == Init => TypeOK
  BY CallAssumption DEF Init, TypeOK, Step

LEMMA MoveType ==
  ASSUME TypeOK, NEW c \in Call, NEW delta \in Int, balance + delta \in Nat, Move(c, delta)
  PROVE  /\ balance' \in Nat /\ updated' \in [Call -> Nat] /\ moved' \in [Call -> Row]
         /\ updated'[c] = balance + delta
         /\ moved'[c].before = balance /\ moved'[c].after = balance + delta
         /\ \A a \in Call \ {c} : updated'[a] = updated[a] /\ moved'[a] = moved[a]
<1> DEFINE r == [before |-> balance, after |-> balance + delta]
<1>1. r \in Row
  BY DEF TypeOK
<1>2. moved' = [moved EXCEPT ![c] = r]
  BY DEF Move
<1> HIDE DEF r
<1>3. moved' \in [Call -> Row] /\ moved'[c] = r /\ \A a \in Call \ {c} : moved'[a] = moved[a]
  BY <1>1, <1>2 DEF TypeOK
<1> QED
  BY <1>3 DEF Move, TypeOK, r

\* The two uses of Move.
LEMMA IncrementMoves ==
  ASSUME TypeOK, NEW c \in Call, Increment(c)
  PROVE  /\ balance' \in Nat /\ updated' \in [Call -> Nat] /\ moved' \in [Call -> Row]
         /\ updated'[c] = moved'[c].after
         /\ \A a \in Call \ {c} : updated'[a] = updated[a] /\ moved'[a] = moved[a]
<1> DEFINE delta == amount[c]
<1>1. delta \in Int /\ balance + delta \in Nat
  BY CallAssumption DEF TypeOK
<1>2. Move(c, delta)
  BY DEF Increment
<1> HIDE DEF delta
<1> QED
  BY <1>1, <1>2, MoveType

LEMMA DebitMoves ==
  ASSUME TypeOK, NEW c \in Call, Reserve(c), Enough(c)
  PROVE  /\ balance' \in Nat /\ updated' \in [Call -> Nat] /\ moved' \in [Call -> Row]
         /\ updated'[c] = moved'[c].after
         /\ moved'[c].before = updated'[c] + amount[c]
         /\ \A a \in Call \ {c} : updated'[a] = updated[a] /\ moved'[a] = moved[a]
<1> DEFINE delta == - amount[c]
<1>1. delta \in Int /\ balance + delta \in Nat /\ amount[c] \in Nat /\ balance \in Nat
  BY CallAssumption DEF TypeOK, Enough
<1>2. Move(c, delta)
  BY DEF Reserve
<1>3. balance = balance + delta + amount[c]
  BY <1>1
<1> HIDE DEF delta
<1> QED
  BY <1>1, <1>2, <1>3, MoveType

LEMMA TypeStep == TypeOK /\ [Next]_vars => TypeOK'
<1> SUFFICES ASSUME TypeOK, [Next]_vars PROVE TypeOK'
  OBVIOUS
<1> USE DEF TypeOK, Step, Goto
<1>1. CASE UNCHANGED vars
  BY <1>1 DEF vars
<1>2. ASSUME NEW c \in Call, ReadUser(c) PROVE TypeOK'
  BY <1>2 DEF ReadUser
<1>3. ASSUME NEW c \in Call, Increment(c) PROVE TypeOK'
  BY <1>3, IncrementMoves DEF Increment
<1>4. ASSUME NEW c \in Call, Reserve(c) PROVE TypeOK'
  <2>1. CASE Enough(c)
    BY <1>4, <2>1, DebitMoves DEF Reserve
  <2>2. CASE ~ Enough(c)
    BY <1>4, <2>2 DEF Reserve, Refusal
  <2> QED
    BY <2>1, <2>2
<1>5. ASSUME NEW c \in Call, InsertRow(c) PROVE TypeOK'
  <2>1. BalanceBefore(c) \in Int /\ BalanceAfter(c) \in Int
    BY CallAssumption DEF BalanceBefore, BalanceAfter
  <2> QED
    BY <1>5, <2>1 DEF InsertRow
<1>6. ASSUME NEW c \in Call, Fail(c) PROVE TypeOK'
  BY <1>6 DEF Fail
<1> QED
  BY <1>1, <1>2, <1>3, <1>4, <1>5, <1>6 DEF Next, Rest

\* The wallet is never overdrawn, however many debits overlap.
THEOREM TypeCorrect == Spec => []TypeOK
  BY TypeInit, TypeStep, PTL DEF Spec

-----------------------------------------------------------------------------

\* From its update on, a call holds the balance that its update left, and the
\* balance before it is known for a debit.
Held(c) ==
  /\ pc[c] = "increment" => c \in Deposits
  /\ pc[c] \in {"insert", "lost", "done"} =>
       /\ updated[c] = moved[c].after
       /\ c \in Debits => moved[c].before = updated[c] + amount[c]

Inv == TypeOK /\ RowsTellTheMove /\ \A c \in Call : Held(c)

LEMMA InvStep == Inv /\ [Next]_vars => Inv'
<1> SUFFICES ASSUME Inv, [Next]_vars PROVE RowsTellTheMove' /\ \A c \in Call : Held(c)'
  BY TypeStep DEF Inv
<1> USE DEF Inv, RowsTellTheMove, Held, Goto, TypeOK
<1>1. CASE UNCHANGED vars
  BY <1>1 DEF vars
<1>2. ASSUME NEW c \in Call, ReadUser(c) PROVE RowsTellTheMove' /\ \A a \in Call : Held(a)'
  BY <1>2 DEF ReadUser
<1>3. ASSUME NEW c \in Call, Increment(c) PROVE RowsTellTheMove' /\ \A a \in Call : Held(a)'
  <2>1. /\ updated'[c] = moved'[c].after
        /\ \A a \in Call \ {c} : updated'[a] = updated[a] /\ moved'[a] = moved[a]
    BY <1>3, IncrementMoves
  <2>2. pc[c] = "increment" /\ pc' = [pc EXCEPT ![c] = "insert"] /\ row' = row
    BY <1>3 DEF Increment
  <2>3. c \in Deposits
    BY <2>2
  <2>4. Held(c)' /\ \A a \in Call \ {c} : Held(a)'
    BY <2>1, <2>2, <2>3
  <2>5. RowsTellTheMove'
    BY <2>1, <2>2
  <2> QED
    BY <2>4, <2>5
<1>4. ASSUME NEW c \in Call, Reserve(c) PROVE RowsTellTheMove' /\ \A a \in Call : Held(a)'
  <2>1. CASE Enough(c)
    <3>1. /\ updated'[c] = moved'[c].after
          /\ moved'[c].before = updated'[c] + amount[c]
          /\ \A a \in Call \ {c} : updated'[a] = updated[a] /\ moved'[a] = moved[a]
      BY <1>4, <2>1, DebitMoves
    <3>2. pc[c] = "idle" /\ pc' = [pc EXCEPT ![c] = "insert"] /\ row' = row
      BY <1>4, <2>1 DEF Reserve
    <3>3. Held(c)' /\ \A a \in Call \ {c} : Held(a)'
      BY <3>1, <3>2
    <3>4. RowsTellTheMove'
      BY <3>1, <3>2
    <3> QED
      BY <3>3, <3>4
  <2>2. CASE ~ Enough(c)
    BY <1>4, <2>2 DEF Reserve, Refusal
  <2> QED
    BY <2>1, <2>2
<1>5. ASSUME NEW c \in Call, InsertRow(c) PROVE RowsTellTheMove' /\ \A a \in Call : Held(a)'
  BY <1>5 DEF InsertRow, BalanceBefore, BalanceAfter
<1>6. ASSUME NEW c \in Call, Fail(c) PROVE RowsTellTheMove' /\ \A a \in Call : Held(a)'
  BY <1>6 DEF Fail
<1> QED
  BY <1>1, <1>2, <1>3, <1>4, <1>5, <1>6 DEF Next, Rest

\* The row of a debit tells the balances around its own update.
THEOREM RowsTellTheMoveHolds == Spec => []RowsTellTheMove
<1>1. Init => Inv
  BY TypeInit DEF Init, Inv, RowsTellTheMove, Held
<1>2. Inv => RowsTellTheMove
  BY DEF Inv
<1> QED
  BY <1>1, <1>2, InvStep, PTL DEF Spec

-----------------------------------------------------------------------------
(* The ledger explains the balance.                                        *)

\* The calls whose update has moved the wallet, those that the ledger or a
\* missing row accounts for, and what has been moved.
Moved(S) == {c \in S : moved[c] # NoRow}
Counted(S) == {c \in S : row[c] # NoRow \/ Unrecorded(c)}
MovedIn == SumFunctionOnSet(amount, Moved(Deposits))
MovedOut == SumFunctionOnSet(amount, Moved(Debits))

\* A call moves the balance by its amount, and at most once: before its update
\* there is neither a move nor a row, after it the move is known, and the row of
\* a call that is done has the balance after it.
Mover(c) ==
  /\ pc[c] \in {"insert", "lost", "done"} =>
       moved[c].after = IF c \in Deposits THEN moved[c].before + amount[c]
                        ELSE moved[c].before - amount[c]
  /\ pc[c] \in {"idle", "increment", "refused", "failed"} => moved[c] = NoRow /\ row[c] = NoRow
  /\ Unrecorded(c) => row[c] = NoRow
  /\ moved[c].before \in Nat /\ moved[c].after \in Nat

Accounted ==
  /\ IsFiniteSet(Moved(Call))
  /\ balance = InitBalance + MovedIn - MovedOut

LedgerInv == Inv /\ Accounted /\ IsFiniteSet(Counted(Call)) /\ \A c \in Call : Mover(c)

LEMMA MovedFinite ==
  ASSUME IsFiniteSet(Moved(Call)), NEW S \in SUBSET Call
  PROVE  /\ IsFiniteSet(Moved(S))
         /\ SumFunctionOnSet(amount, Moved(S)) \in Nat
<1>1. Moved(S) \in SUBSET Moved(Call)
  BY DEF Moved
<1>2. IsFiniteSet(Moved(S))
  BY <1>1, FS_Subset
<1>3. \A c \in Moved(S) : amount[c] \in Nat
  BY CallAssumption DEF Moved
<1> QED
  BY <1>2, <1>3, SumType

\* A call that moves the wallet for the first time adds its amount to the total
\* of the deposits or of the debits; a move of 0 from 0 to 0 adds nothing.
LEMMA OneMore ==
  ASSUME TypeOK, IsFiniteSet(Moved(Call)), NEW c \in Call, moved[c] = NoRow,
         NEW r \in Row, r = NoRow => amount[c] = 0,
         moved' = [moved EXCEPT ![c] = r],
         NEW S \in SUBSET Call
  PROVE  /\ IsFiniteSet(Moved(S)')
         /\ SumFunctionOnSet(amount, Moved(S)') =
              SumFunctionOnSet(amount, Moved(S)) + (IF c \in S THEN amount[c] ELSE 0)
<1> DEFINE T == Moved(S)
<1>1. /\ IsFiniteSet(T) /\ SumFunctionOnSet(amount, T) \in Nat /\ c \notin T
      /\ \A a \in T \cup {c} : amount[a] \in Nat
  BY MovedFinite, CallAssumption DEF Moved
<1>2. Moved(S)' = IF c \in S /\ r # NoRow THEN T \cup {c} ELSE T
  BY DEF Moved, TypeOK
<1> HIDE DEF T
<1>3. /\ IsFiniteSet(T \cup {c})
      /\ SumFunctionOnSet(amount, T \cup {c}) = SumFunctionOnSet(amount, T) + amount[c]
  BY <1>1, SumAdd
<1>4. amount[c] \in Nat
  BY <1>1
<1> QED
  BY <1>1, <1>2, <1>3, <1>4 DEF T

\* The update of a call keeps the account.
LEMMA MoveAccounted ==
  ASSUME LedgerInv, NEW c \in Call, NEW delta \in Int, balance + delta \in Nat,
         Move(c, delta), moved[c] = NoRow,
         delta = IF c \in Deposits THEN amount[c] ELSE - amount[c]
  PROVE  Accounted'
<1> DEFINE r == [before |-> balance, after |-> balance + delta]
<1>1. TypeOK /\ Accounted /\ IsFiniteSet(Moved(Call)) /\ amount[c] \in Nat /\ balance \in Nat
  BY CallAssumption DEF LedgerInv, Inv, Accounted, TypeOK
<1>2. r \in Row /\ (r = NoRow => amount[c] = 0) /\ moved' = [moved EXCEPT ![c] = r]
  BY <1>1 DEF Move
<1> HIDE DEF r
<1>3. \A S \in SUBSET Call :
        /\ IsFiniteSet(Moved(S)')
        /\ SumFunctionOnSet(amount, Moved(S)') =
             SumFunctionOnSet(amount, Moved(S)) + (IF c \in S THEN amount[c] ELSE 0)
  BY <1>1, <1>2, OneMore
<1>4. Deposits \in SUBSET Call /\ Debits \in SUBSET Call /\ Call \in SUBSET Call
  BY CallAssumption
<1>5. /\ MovedIn' = MovedIn + (IF c \in Deposits THEN amount[c] ELSE 0)
      /\ MovedOut' = MovedOut + (IF c \in Deposits THEN 0 ELSE amount[c])
      /\ MovedIn \in Nat /\ MovedOut \in Nat
  BY <1>1, <1>3, <1>4, MovedFinite DEF MovedIn, MovedOut
<1>6. balance' = balance + delta /\ InitBalance \in Nat
  BY CallAssumption DEF Move
<1> QED
  BY <1>1, <1>3, <1>4, <1>5, <1>6 DEF Accounted

LEMMA SameAccounted ==
  ASSUME Accounted, UNCHANGED <<balance, moved>>
  PROVE  Accounted'
  BY DEF Accounted, Moved, MovedIn, MovedOut

\* A step adds no call but its own to those accounted for.
LEMMA CountedStep ==
  ASSUME TypeOK, IsFiniteSet(Counted(Call)), [Next]_vars
  PROVE  IsFiniteSet(Counted(Call)')
<1>1. CASE UNCHANGED vars
  BY <1>1 DEF vars, call, Counted, Unrecorded
<1>2. ASSUME NEW c \in Call,
             ReadUser(c) \/ Increment(c) \/ Reserve(c) \/ InsertRow(c) \/ Fail(c)
      PROVE  IsFiniteSet(Counted(Call)')
  <2>1. Counted(Call)' \in SUBSET (Counted(Call) \cup {c})
    BY <1>2 DEF ReadUser, Increment, Reserve, InsertRow, Fail, TypeOK, Goto, Counted, Unrecorded
  <2>2. IsFiniteSet(Counted(Call) \cup {c})
    BY FS_AddElement
  <2> QED
    BY <2>1, <2>2, FS_Subset
<1>3. CASE Rest
  BY <1>1, <1>3 DEF Rest
<1> QED
  BY <1>1, <1>2, <1>3 DEF Next

LEMMA LedgerStep == LedgerInv /\ [Next]_vars => LedgerInv'
<1> SUFFICES ASSUME LedgerInv, [Next]_vars PROVE LedgerInv'
  OBVIOUS
<1> SUFFICES Accounted' /\ \A a \in Call : Mover(a)'
  <2>1. IsFiniteSet(Counted(Call)')
    BY CountedStep DEF LedgerInv, Inv
  <2> QED
    BY <2>1, InvStep DEF LedgerInv
<1>0. TypeOK /\ Inv /\ Accounted /\ TypeOK' /\ \A a \in Call : Mover(a)
  BY TypeStep DEF LedgerInv, Inv
<1> USE DEF Mover, TypeOK, Goto, Unrecorded
<1>1. CASE UNCHANGED vars
  BY <1>0, <1>1, SameAccounted DEF vars
<1>2. ASSUME NEW c \in Call, ReadUser(c) PROVE Accounted' /\ \A a \in Call : Mover(a)'
  BY <1>0, <1>2, SameAccounted DEF ReadUser
<1>3. ASSUME NEW c \in Call, Increment(c) PROVE Accounted' /\ \A a \in Call : Mover(a)'
  <2>1. /\ pc[c] = "increment" /\ pc' = [pc EXCEPT ![c] = "insert"] /\ row' = row
        /\ moved[c] = NoRow /\ c \in Deposits /\ Move(c, amount[c])
    BY <1>0, <1>3 DEF Increment, Inv, Held
  <2>2. Mover(c)' /\ \A a \in Call \ {c} : Mover(a)'
    <3>1. /\ moved' = [moved EXCEPT ![c] = [before |-> balance, after |-> balance + amount[c]]]
          /\ balance \in Nat /\ amount[c] \in Nat
      BY <1>0, <2>1, CallAssumption DEF Move
    <3>2. /\ moved'[c].before = balance /\ moved'[c].after = balance + amount[c]
          /\ \A a \in Call \ {c} : moved'[a] = moved[a]
      BY <1>0, <3>1
    <3> QED
      BY <1>0, <2>1, <3>1, <3>2
  <2>3. Accounted'
    <3>1. amount[c] \in Nat /\ balance + amount[c] \in Nat
      BY <1>0, CallAssumption
    <3> QED
      BY <2>1, <3>1, MoveAccounted
  <2> QED
    BY <2>2, <2>3
<1>4. ASSUME NEW c \in Call, Reserve(c) PROVE Accounted' /\ \A a \in Call : Mover(a)'
  <2>1. CASE Enough(c)
    <3>1. /\ pc[c] = "idle" /\ pc' = [pc EXCEPT ![c] = "insert"] /\ row' = row
          /\ moved[c] = NoRow /\ c \notin Deposits /\ Move(c, - amount[c])
      BY <1>0, <1>4, <2>1 DEF Reserve
    <3>2. balance \in Nat /\ amount[c] \in Nat /\ balance - amount[c] \in Nat
      BY <1>0, <2>1, CallAssumption DEF Enough
    <3>3. Mover(c)' /\ \A a \in Call \ {c} : Mover(a)'
      <4>1. moved' = [moved EXCEPT ![c] = [before |-> balance, after |-> balance + (- amount[c])]]
        BY <3>1 DEF Move
      <4>2. /\ moved'[c].before = balance /\ moved'[c].after = balance - amount[c]
            /\ \A a \in Call \ {c} : moved'[a] = moved[a]
        BY <1>0, <3>2, <4>1
      <4> QED
        BY <1>0, <3>1, <3>2, <4>2
    <3>4. balance + (- amount[c]) \in Nat
      BY <3>2
    <3>5. Accounted'
      BY <1>0, <3>1, <3>2, <3>4, MoveAccounted
    <3> QED
      BY <3>3, <3>5
  <2>2. CASE ~ Enough(c)
    BY <1>0, <1>4, <2>2, SameAccounted DEF Reserve, Refusal
  <2> QED
    BY <2>1, <2>2
<1>5. ASSUME NEW c \in Call, InsertRow(c) PROVE Accounted' /\ \A a \in Call : Mover(a)'
  <2>1. Mover(c)' /\ \A a \in Call \ {c} : Mover(a)'
    BY <1>0, <1>5 DEF InsertRow
  <2>2. UNCHANGED <<balance, moved>>
    BY <1>5 DEF InsertRow
  <2>3. Accounted'
    BY <1>0, <2>2, SameAccounted
  <2> QED
    BY <2>1, <2>3
<1>6. ASSUME NEW c \in Call, Fail(c) PROVE Accounted' /\ \A a \in Call : Mover(a)'
  BY <1>0, <1>6, SameAccounted DEF Fail
<1> QED
  BY <1>1, <1>2, <1>3, <1>4, <1>5, <1>6 DEF Next, Rest

\* The calls that are accounted for and those that have moved the wallet differ
\* by calls of amount 0 only.
LEMMA CountedAreMoves ==
  ASSUME LedgerInv, NEW S \in SUBSET Call
  PROVE  SumFunctionOnSet(amount, Counted(S)) = SumFunctionOnSet(amount, Moved(S))
<1> DEFINE B == Moved(S) \cap Counted(S)
<1>1. IsFiniteSet(Moved(S)) /\ IsFiniteSet(Counted(S))
  <2>1. Counted(S) \in SUBSET Counted(Call)
    BY DEF Counted
  <2> QED
    BY <2>1, MovedFinite, FS_Subset DEF LedgerInv, Accounted
<1>2. ASSUME NEW c \in S, ~ (moved[c] = NoRow <=> row[c] = NoRow /\ ~ Unrecorded(c))
      PROVE  amount[c] = 0
  <2>1. pc[c] \in {"done", "insert", "lost"} /\ TypeOK /\ Mover(c) /\ Held(c)
    BY <1>2 DEF LedgerInv, Inv, Mover, TypeOK, Step, Unrecorded
  <2>2. row[c] \in Row /\ moved[c] \in Row /\ amount[c] \in Nat
    BY <2>1, CallAssumption DEF TypeOK
  <2>3. moved[c].after = (IF c \in Deposits THEN moved[c].before + amount[c]
                          ELSE moved[c].before - amount[c])
        /\ moved[c].before \in Nat
    BY <2>1 DEF Mover
  <2>4. CASE pc[c] = "done"
    <3>1. /\ row[c].after = moved[c].after
          /\ c \in Debits => row[c].before = moved[c].before
      BY <2>4 DEF LedgerInv, Inv, RowsTellTheMove
    <3> QED
      BY <1>2, <2>2, <2>3, <2>4, <3>1 DEF Unrecorded
  <2>5. CASE pc[c] \in {"insert", "lost"}
    <3>1. moved[c] = NoRow
      BY <1>2, <2>5 DEF Unrecorded
    <3> QED
      BY <2>2, <2>3, <3>1
  <2> QED
    BY <2>1, <2>4, <2>5
<1>3. /\ \A c \in Moved(S) \ B : amount[c] = 0
      /\ \A c \in Counted(S) \ B : amount[c] = 0
  BY <1>2 DEF Moved, Counted, Unrecorded
<1>4. \A c \in Call : amount[c] \in Nat
  BY CallAssumption
<1>5. Moved(S) \in SUBSET Call /\ Counted(S) \in SUBSET Call
  BY DEF Moved, Counted
<1>6. SumFunctionOnSet(amount, B) = SumFunctionOnSet(amount, Moved(S))
  <2>1. B \in SUBSET Moved(S)
    OBVIOUS
  <2> HIDE DEF B
  <2> QED
    BY <1>1, <1>3, <1>4, <1>5, <2>1, SumSubset
<1>7. SumFunctionOnSet(amount, B) = SumFunctionOnSet(amount, Counted(S))
  <2>1. B \in SUBSET Counted(S)
    OBVIOUS
  <2> HIDE DEF B
  <2> QED
    BY <1>1, <1>3, <1>4, <1>5, <2>1, SumSubset
<1> QED
  BY <1>6, <1>7

LEMMA LedgerInit == Init => LedgerInv
<1> SUFFICES ASSUME Init PROVE LedgerInv
  OBVIOUS
<1>1. Inv
  BY TypeInit DEF Init, Inv, RowsTellTheMove, Held
<1>2. \A c \in Call : Mover(c)
  BY DEF Init, Mover
<1>3. Moved(Call) = {} /\ Counted(Call) = {} /\ Moved(Deposits) = {} /\ Moved(Debits) = {}
  BY CallAssumption DEF Init, Moved, Counted, Unrecorded
<1>4. MovedIn = 0 /\ MovedOut = 0
  BY <1>3, SumEmpty DEF MovedIn, MovedOut
<1>5. Accounted
  BY <1>3, <1>4, FS_EmptySet, CallAssumption DEF Accounted, Init
<1> QED
  BY <1>1, <1>2, <1>3, <1>5, FS_EmptySet DEF LedgerInv

\* The rows of the ledger, and the updates whose row is missing, add up to the
\* balance at any moment, for any number of overlapping calls of any amounts,
\* each of which may be cut off.
THEOREM LedgerExplainsBalanceHolds == Spec => []LedgerExplainsBalance
<1>1. LedgerInv => LedgerExplainsBalance
  <2> SUFFICES ASSUME LedgerInv
               PROVE  balance = InitBalance + SumFunctionOnSet(amount, Counted(Deposits))
                                            - SumFunctionOnSet(amount, Counted(Debits))
    BY DEF LedgerExplainsBalance, Counted
  <2>1. Deposits \in SUBSET Call /\ Debits \in SUBSET Call
    BY CallAssumption
  <2> QED
    BY <2>1, CountedAreMoves DEF LedgerInv, Accounted, MovedIn, MovedOut
<1> QED
  BY <1>1, LedgerInit, LedgerStep, PTL DEF Spec
=============================================================================
