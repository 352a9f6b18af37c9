----------------------------- MODULE MCAccounts -----------------------------
(* Two users, two requests in flight.                                      *)
EXTENDS Accounts, TLC

Symmetry == Permutations(Users) \cup Permutations(Procs)
=============================================================================
