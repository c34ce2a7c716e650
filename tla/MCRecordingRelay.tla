--------------------------- MODULE MCRecordingRelay ---------------------------
(* Calls are interchangeable.                                               *)
EXTENDS RecordingRelay, TLC

Symmetry == Permutations(Call)
=============================================================================
