------------------------ MODULE MCAnalyticsDelivery ------------------------
(* Small instances of AnalyticsDelivery for TLC.                           *)
EXTENDS AnalyticsDelivery

CONSTANTS e1, e2, e3, i1, i2, user, admin, m1, m2, m3, m4

\* e1 and e2 are the same order triggered twice, e3 concerns no user.
Ids == [e \in Event |-> IF e = e3 THEN i2 ELSE i1]
Docs == [e \in Event |-> IF e = e3 THEN <<admin>> ELSE <<user, admin>>]
\* SQS delivers e1 twice.
Copies == [m \in Message |->
            CASE m \in {m1, m2} -> e1 [] m = m3 -> e2 [] m = m4 -> e3]
=============================================================================
