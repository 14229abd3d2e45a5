----------------------------- MODULE MCSnapshots -----------------------------
(* A small instance of Snapshots for TLC.                                  *)
EXTENDS Snapshots

CONSTANTS e1, e2, e3, e4, e5, e6, e7, i1, i3, i4, i5, i6, i7, u1, u2, s1, s2

\* e1 and e2 are one order triggered twice.
Ids == [e \in Event |->
         CASE e \in {e1, e2} -> i1 [] e = e3 -> i3 [] e = e4 -> i4 [] e = e5 -> i5 [] e = e6 -> i6
           [] e = e7 -> i7]

\* A tick of a date, months from 1.
On(y, month, day, tick) == UTC(y, month - 1, day) * TicksPerDay + tick

Sent(type, user, t) ==
  [type |-> type, user |-> user, occurredAt |-> t, status |-> "triggered", quantity |-> 2,
   amount |-> 3, stock |-> s1, price |-> 2, stocks |-> {s1}]

\* The last tick of a Sunday that ends a year and the first tick after it; the
\* last tick of a leap February and the first of March, in one week.
Data == [e \in Event |->
  CASE e = e1 -> Sent("order.triggered", u1, On(2023, 12, 31, 1))
    [] e = e2 -> Sent("order.triggered", u1, On(2024, 1, 1, 0))
    [] e = e3 -> [Sent("order.executed", u1, On(2024, 2, 29, 1)) EXCEPT !.status = "completed"]
    [] e = e4 -> Sent("stock.price.decreased", NoUser, On(2024, 3, 1, 0))
    [] e = e5 -> [Sent("stock.price.updated", NoUser, On(2024, 2, 29, 0)) EXCEPT !.price = 3]
    [] e = e6 -> [Sent("stock.subscription.changed", u2, On(2024, 3, 1, 1)) EXCEPT !.stocks = {s2}]
    [] e = e7 -> Sent("wallet.deposited", u2, On(2024, 2, 29, 1))]

Readings == {On(2023, 12, 31, 0), On(2024, 1, 1, 1), On(2024, 1, 7, 1), On(2024, 2, 28, 1),
             On(2024, 2, 29, 1), On(2024, 3, 3, 0)}
=============================================================================
