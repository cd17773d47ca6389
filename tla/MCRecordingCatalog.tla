-------------------------- MODULE MCRecordingCatalog --------------------------
(* Small instances of RecordingCatalog for TLC. *)
EXTENDS RecordingCatalog, TLC

CONSTANTS s1, s2, w1, w2

MCSegments == {s1, s2}
MCWorkers == {w1, w2}
Symmetry == Permutations(MCSegments) \cup Permutations(MCWorkers)
===============================================================================
