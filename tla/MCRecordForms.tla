--------------------------- MODULE MCRecordForms ---------------------------
(* The instance of RecordForms for TLC.                                    *)
EXTENDS RecordForms, TLC

\* No dish and no request is told from another.
FormSymmetry == Permutations(Names) \cup Permutations(Slots)
=============================================================================
