--------------------------- MODULE MCWalletLedger ---------------------------
(* Small instances of WalletLedger for TLC.                                *)
EXTENDS WalletLedger

CONSTANTS d1, d2, b1, b2, b3

\* Two deposits and three debits that the wallet cannot all pay.
Amounts == [c \in Call |->
             CASE c = d1 -> 1 [] c = d2 -> 2 [] c = b1 -> 1 [] c = b2 -> 2 [] c = b3 -> 3]
=============================================================================
