--------------------------- MODULE MCSubscriptions ---------------------------
(* Small instances of Subscriptions for TLC.                               *)
EXTENDS Subscriptions

CONSTANTS a, b, add1, add2, add3, drop1, drop2

\* Two requests for a and one for b, each stock dropped once.
Stocks == [c \in Call |-> IF c \in {add1, add3, drop1} THEN a ELSE b]
=============================================================================
