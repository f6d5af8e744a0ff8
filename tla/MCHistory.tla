----------------------------- MODULE MCHistory -----------------------------
(* History for TLC: three records. *)
EXTENDS History, TLC

MCIds     == 1 .. 3
MCStarts  == {1 .. 3, {2, 3}}
=============================================================================
