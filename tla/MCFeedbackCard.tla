--------------------------- MODULE MCFeedbackCard ---------------------------
(* FeedbackCard for TLC: ratings, and slots, are interchangeable. *)
EXTENDS FeedbackCard, TLC

Symmetry == Permutations(Ratings) \cup Permutations(Slots)
=============================================================================
