------------------------------ MODULE MCClient ------------------------------
(* Accounts are told apart by nothing but being different. *)
EXTENDS Client, TLC
Symmetry == Permutations(Accounts)
=============================================================================
