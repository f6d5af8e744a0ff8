----------------------------- MODULE MCCatalog -----------------------------
(* Two workspaces with a user each, told apart by nothing but being two.   *)
EXTENDS Catalog, TLC
CONSTANTS u1, u2, w1, w2

MCHome == u1 :> w1 @@ u2 :> w2

Swap == u1 :> u2 @@ u2 :> u1 @@ w1 :> w2 @@ w2 :> w1

Symmetry == Permutations(Requests) \cup Permutations(Dishes) \cup {Swap}
=============================================================================
