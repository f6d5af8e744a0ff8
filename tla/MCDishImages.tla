---------------------------- MODULE MCDishImages ----------------------------
(* Instances of DishImages for TLC.                                        *)
EXTENDS DishImages, TLC

(* Uploads are told apart by their identity only: the order of the rows    *)
(* comes from their columns.                                               *)
ImageSymmetry == Permutations(Images) \cup Permutations(Requests)
=============================================================================
