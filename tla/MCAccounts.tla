------------------------------ MODULE MCAccounts ------------------------------
(* A small instance of Accounts for TLC.                                   *)
EXTENDS Accounts, TLC

Symmetry == Permutations(Email) \cup Permutations(Call)
=============================================================================
