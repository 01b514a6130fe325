----------------------------- MODULE MCAccounts -----------------------------
(* Accounts on a small instance.                                           *)
EXTENDS Accounts, TLC

Symmetry == Permutations(Users) \cup Permutations(Slots)
=============================================================================
