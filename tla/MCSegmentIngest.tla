---------------------------- MODULE MCSegmentIngest ----------------------------
(* Small instances of SegmentIngest for TLC. *)
EXTENDS SegmentIngest, TLC

CONSTANTS h1, h2

MCHandlers == {h1, h2}
Symmetry == Permutations(MCHandlers)
===============================================================================
