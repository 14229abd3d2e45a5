---------------------------- MODULE MCProviderSync ----------------------------
(* A small market for TLC: three days on which the stocks, one, or both are  *)
(* traded, and a holiday.                                                    *)
EXTENDS ProviderSync, TLC

CONSTANTS aapl, ibm

Seeds == [s \in Seeded |-> 2]

Bars ==
  << aapl :> 3 @@ ibm :> Absent,
     aapl :> Absent @@ ibm :> 3,
     aapl :> 1 @@ ibm :> 1,
     aapl :> Absent @@ ibm :> Absent >>
===============================================================================
