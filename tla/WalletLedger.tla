---------------------------- MODULE WalletLedger ----------------------------
(***************************************************************************)
(* One wallet and its ledger: WalletService.deposit and debitForOrder with *)
(* every awaited call, for any number of calls that overlap.  A call that  *)
(* fails or whose process dies stays where it is; nobody resumes it.       *)
(*                                                                         *)
(* Sources: modules/wallet/wallet.service.ts and modules/users/            *)
(* users.service.ts under src/src.                                         *)
(*                                                                         *)
(* Operators that nothing uses are broken variants of the ones below them. *)
(***************************************************************************)
EXTENDS Integers, Functions

CONSTANTS
  Call,         \* the calls, each of deposit or of debitForOrder
  Deposits,     \* those of deposit
  amount,
  InitBalance

ASSUME CallAssumption ==
  /\ Deposits \subseteq Call
  /\ amount \in [Call -> Nat]
  /\ InitBalance \in Nat

Debits == Call \ Deposits

VARIABLES
  balance,      \* users: walletBalance
  pc,           \* the next step of each call
  previous,     \* what deposit has read before its increment
  updated,      \* the balance in the document that the update returned
  row,          \* wallet ledger: the row of each call, NoRow before its insert
  moved         \* history: the balance before and after the update

call == <<pc, previous, updated>>
vars == <<balance, call, row, moved>>

Step == {"idle", "increment", "insert", "done", "refused", "failed", "lost"}
NoRow == [before |-> 0, after |-> 0]
Row == [before : Int, after : Int]

Init ==
  /\ balance = InitBalance
  /\ pc = [c \in Call |-> "idle"]
  /\ previous = [c \in Call |-> 0]
  /\ updated = [c \in Call |-> 0]
  /\ row = [c \in Call |-> NoRow]
  /\ moved = [c \in Call |-> NoRow]

Goto(c, s) == pc' = [pc EXCEPT ![c] = s]

\* The update of the user document, and what it returns to the caller.
Move(c, delta) ==
  /\ balance' = balance + delta
  /\ updated' = [updated EXCEPT ![c] = balance + delta]
  /\ moved' = [moved EXCEPT ![c] = [before |-> balance, after |-> balance + delta]]

-----------------------------------------------------------------------------

\* deposit: findById, then findByIdAndUpdate with $inc.
ReadUser(c) ==
  /\ c \in Deposits /\ pc[c] = "idle"
  /\ previous' = [previous EXCEPT ![c] = balance]
  /\ Goto(c, "increment")
  /\ UNCHANGED <<balance, updated, row, moved>>

Increment(c) ==
  /\ pc[c] = "increment"
  /\ Move(c, amount[c])
  /\ Goto(c, "insert")
  /\ UNCHANGED <<previous, row>>

\* debitForOrder: reserveFunds tests and takes in one findOneAndUpdate.
NotEmpty(c) == balance > 0
Enough(c) == balance >= amount[c]

CarriesOn == "insert"
Refusal == "refused"

Reserve(c) ==
  /\ c \in Debits /\ pc[c] = "idle"
  /\ IF Enough(c) THEN Move(c, - amount[c]) /\ Goto(c, "insert")
     ELSE Goto(c, Refusal) /\ UNCHANGED <<balance, updated, moved>>
  /\ UNCHANGED <<previous, row>>

\* balanceBefore and balanceAfter of the row.
BalanceNow(c) == balance
BalanceAfter(c) == updated[c]

BalanceBefore(c) ==
  IF c \in Deposits THEN previous[c] ELSE BalanceAfter(c) + amount[c]

InsertRow(c) ==
  /\ pc[c] = "insert"
  /\ row' = [row EXCEPT ![c] = [before |-> BalanceBefore(c), after |-> BalanceAfter(c)]]
  /\ Goto(c, "done")
  /\ UNCHANGED <<balance, previous, updated, moved>>

\* An awaited call throws, or the process dies: the update is not made, or its
\* row is lost.
Fail(c) ==
  /\ \/ pc[c] = "increment" /\ Goto(c, "failed")
     \/ pc[c] = "insert" /\ Goto(c, "lost")
  /\ UNCHANGED <<balance, previous, updated, row, moved>>

Ended(c) == pc[c] \in {"done", "refused", "failed", "lost"}
Rest == (\A c \in Call : Ended(c)) /\ UNCHANGED vars

Next ==
  \/ \E c \in Call : ReadUser(c) \/ Increment(c) \/ Reserve(c) \/ InsertRow(c) \/ Fail(c)
  \/ Rest

Spec == Init /\ [][Next]_vars

-----------------------------------------------------------------------------

\* Every variable has its type; the wallet is never overdrawn.
TypeOK ==
  /\ balance \in Nat
  /\ pc \in [Call -> Step]
  /\ previous \in [Call -> Nat]
  /\ updated \in [Call -> Nat]
  /\ row \in [Call -> Row]
  /\ moved \in [Call -> Row]

\* The row of a debit gives the balances right before and right after its own
\* update, whatever other calls do until the row is inserted (debitForOrder);
\* so does balanceAfter in the row of a deposit.
RowsTellTheMove ==
  \A c \in Call :
    pc[c] = "done" => /\ row[c].after = moved[c].after
                      /\ c \in Debits => row[c].before = moved[c].before

\* An update whose row is still to be inserted, or never will be.
Unrecorded(c) == pc[c] \in {"insert", "lost"}

\* At any moment, whatever overlaps and wherever a call is cut off, the balance
\* is what was there, plus the deposits, minus the debits, that have a row or
\* still lack one: a failure costs the row of its own call and nothing else.
LedgerExplainsBalance ==
  LET Counted(S) == {c \in S : row[c] # NoRow \/ Unrecorded(c)}
  IN  balance = InitBalance + SumFunctionOnSet(amount, Counted(Deposits))
                            - SumFunctionOnSet(amount, Counted(Debits))

=============================================================================
