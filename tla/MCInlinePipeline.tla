-------------------------- MODULE MCInlinePipeline --------------------------
(* A small instance of InlinePipeline for TLC: two orders for one stock and  *)
(* one caller of the webhook.                                                *)
EXTENDS InlinePipeline

CONSTANTS o1, o2, u1, s1, w1,
          MaxPrice, MaxDeposit, MaxCrash, MaxError

MCLimit == [e \in Event |->
              CASE e = "price" -> MaxPrice
                [] e = "deposit" -> MaxDeposit
                [] e = "crash" -> MaxCrash
                [] e = "error" -> MaxError
                [] e = "collision" -> 0]

SameUser == [o \in Order |-> u1]
SameStock == [o \in Order |-> s1]
OneStock == [w \in Hook |-> s1]
\* Both orders buy at up to 1, o1 buys 1 and o2 buys 2.
Targets == [o \in Order |-> 1]
Quantities == [o \in Order |-> IF o = o1 THEN 1 ELSE 2]
NoKeys == [o \in Order |-> NoKey]
\* The price starts at both targets.
LowPrice == [s \in Symbol |-> 1]
\* Enough for o1; after a deposit for either order, but not for both.
Wallets == [u \in User |-> 1]
=============================================================================
