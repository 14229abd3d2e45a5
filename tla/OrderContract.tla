--------------------------- MODULE OrderContract ---------------------------
(***************************************************************************)
(* What the service owes the owner of a buy order, without queues, workers *)
(* or prices: an order is open until it is withdrawn, rejected or bought;  *)
(* while it is being worked on it may be charged once, within its target;  *)
(* it is given back to the open orders only while uncharged, and rejected  *)
(* only while uncharged as long as no call of the service has failed; and  *)
(* it counts as bought only once it has been charged.  A charge that a     *)
(* crash has cut off from its purchase stays with an order being worked on.*)
(***************************************************************************)
EXTENDS Naturals, Sequences

CONSTANTS Order, Price, target, qty

VARIABLES
  phase,   \* "none", "open", "working", "bought", "void"
  bill,    \* the amounts charged for each order
  failed   \* a call to a database or a queue has failed

terms == <<phase, bill, failed>>

Phase == {"none", "open", "working", "bought", "void"}

Init ==
  /\ phase = [o \in Order |-> "none"]
  /\ bill = [o \in Order |-> <<>>]
  /\ failed = FALSE

Move(o, from, to) ==
  phase[o] = from /\ phase' = [phase EXCEPT ![o] = to] /\ UNCHANGED <<bill, failed>>

Break == failed' = TRUE /\ UNCHANGED <<phase, bill>>

Place(o) == Move(o, "none", "open")

Withdraw(o) == Move(o, "open", "void")

Begin(o) == Move(o, "open", "working")

GiveBack(o) == bill[o] = <<>> /\ Move(o, "working", "open")

RejectOrder(o) == (bill[o] = <<>> \/ failed) /\ Move(o, "working", "void")

Charge(o, p) ==
  /\ phase[o] = "working" /\ bill[o] = <<>> /\ p <= target[o]
  /\ bill' = [bill EXCEPT ![o] = <<qty[o] * p>>]
  /\ UNCHANGED <<phase, failed>>

Deliver(o) == bill[o] # <<>> /\ Move(o, "working", "bought")

Next ==
  \/ Break
  \/ \E o \in Order :
       \/ Place(o) \/ Withdraw(o) \/ Begin(o) \/ GiveBack(o) \/ RejectOrder(o)
       \/ (\E p \in Price : Charge(o, p)) \/ Deliver(o)

Spec == Init /\ [][Next]_terms
=============================================================================
