--------------------------- MODULE SegmentLifecycle ---------------------------
(***************************************************************************)
(* What the recording catalog promises about every video segment, told     *)
(* without its workers, statuses and failures (ARCHITECTURE.md, section 7, *)
(* "Auditable 2-Phase Deletion"):                                          *)
(*                                                                         *)
(*   unwritten -> listed -> doomed -> erased -> forgotten                  *)
(*                                                                         *)
(* A listed segment has a file and a row that offers it.  A doomed one     *)
(* still has its file but is no longer offered.  An erased one has lost    *)
(* the file and keeps the row, so storage still knows of it.  A forgotten  *)
(* one has neither.  No segment skips a stage or goes back.                *)
(***************************************************************************)
CONSTANT Segments

VARIABLE stage

Init == stage = [s \in Segments |-> "unwritten"]

Move(s, from, to) ==
    /\ stage[s] = from
    /\ stage' = [stage EXCEPT ![s] = to]

List(s)   == Move(s, "unwritten", "listed")
Doom(s)   == Move(s, "listed", "doomed")
Erase(s)  == Move(s, "doomed", "erased")
Forget(s) == Move(s, "erased", "forgotten")

Next == \E s \in Segments : List(s) \/ Doom(s) \/ Erase(s) \/ Forget(s)

Spec == Init /\ [][Next]_stage
===============================================================================
