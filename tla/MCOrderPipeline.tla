-------------------------- MODULE MCOrderPipeline --------------------------
(* Small instances of OrderPipeline for TLC.                               *)
EXTENDS OrderPipeline

CONSTANTS o1, o2, u1, s1, s2, k1,
          MaxPrice, MaxDeposit, MaxCrash, MaxError, MaxCollision

MCLimit == [e \in Event |->
              CASE e = "price" -> MaxPrice
                [] e = "deposit" -> MaxDeposit
                [] e = "crash" -> MaxCrash
                [] e = "error" -> MaxError
                [] e = "collision" -> MaxCollision]

SameUser == [o \in Order |-> u1]
SameStock == [o \in Order |-> s1]
TwoStocks == [o \in Order |-> IF o = o1 THEN s1 ELSE s2]
\* o1 buys 1 at up to 2, o2 buys 2 at up to 1.
Targets == [o \in Order |-> IF o = o1 THEN 2 ELSE 1]
Quantities == [o \in Order |-> IF o = o1 THEN 1 ELSE 2]
NoKeys == [o \in Order |-> NoKey]
SameKeys == [o \in Order |-> k1]
\* The price starts above both targets.
HighPrice == [s \in Symbol |-> 3]
\* The price starts within the target of o1 alone.
MidPrice == [s \in Symbol |-> 2]
\* The price starts within both targets.
LowPrice == [s \in Symbol |-> 1]
\* Enough for both orders at price 1, but not once o1 has paid 2.
Wallets == [u \in User |-> 3]
=============================================================================
