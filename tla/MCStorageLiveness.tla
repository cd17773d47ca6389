--------------------------- MODULE MCStorageLiveness ---------------------------
(***************************************************************************)
(* What the storage controller must get done, on instances of it.  A       *)
(* behaviour is one of one instance, chosen at the start:                  *)
(*   requested    two segments, deleted by the tick and by a request over  *)
(*                HTTP at once;                                            *)
(*   interrupted  a restart in the middle of deletions, on a volume that   *)
(*                may be unmounted, with promotions and failing unlinks;   *)
(*   pressure     three segments of any fate, pages of two, and the motion *)
(*                buffer expired and kept beside the tick.                 *)
(***************************************************************************)
EXTENDS Integers, FiniteSets

CONSTANTS NoSegment, tick, index, motion, api1

VARIABLES
    part,
    file, row, pc, todo, seg, hold, tier, age, volume, run, boot, crashes, shielded

Requested == INSTANCE StorageController WITH
    Segments <- {1, 2}, Faults <- {"unlinkFails"},
    TickWorker <- tick, ApiWorkers <- {api1}, IndexWorker <- index, MotionWorker <- motion,
    BatchSize <- 1, MaxIterations <- 2, Critical <- 2, Target <- 1,
    Holdable <- {1}, Promotable <- {}, Fates <- {"AVAILABLE"}, MaxAge <- 1,
    Volumes <- {"ok"}, MaxCrashes <- 0
Interrupted == INSTANCE StorageController WITH
    Segments <- {1, 2}, Faults <- {"unlinkFails", "volumeGone"},
    TickWorker <- tick, ApiWorkers <- {}, IndexWorker <- index, MotionWorker <- motion,
    BatchSize <- 1, MaxIterations <- 1, Critical <- 1, Target <- 0,
    Holdable <- {1}, Promotable <- {1}, Fates <- {"AVAILABLE"}, MaxAge <- 1,
    Volumes <- {"ok", "unmounted"}, MaxCrashes <- 1
Pressure == INSTANCE StorageController WITH
    Segments <- {1, 2, 3}, Faults <- {},
    TickWorker <- tick, ApiWorkers <- {}, IndexWorker <- index, MotionWorker <- motion,
    BatchSize <- 2, MaxIterations <- 3, Critical <- 3, Target <- 1,
    Holdable <- {1}, Promotable <- {}, Fates <- {"AVAILABLE", "BUFFERED", "QUARANTINED"},
    MaxAge <- 0, Volumes <- {"ok"}, MaxCrashes <- 0

storageVars == <<file, row, pc, todo, seg, hold, tier, age, volume, run, boot, crashes, shielded>>
vars == <<part, storageVars>>

Init ==
    \/ part = "requested" /\ Requested!Init
    \/ part = "interrupted" /\ Interrupted!Init
    \/ part = "pressure" /\ Pressure!Init

Next ==
    /\ UNCHANGED part
    /\ CASE part = "requested" -> Requested!Next
         [] part = "interrupted" -> Interrupted!Next
         [] part = "pressure" -> Pressure!Next

InterruptedFairness ==
    /\ WF_storageVars(part = "interrupted" /\ Interrupted!StartTick)
    /\ WF_storageVars(part = "interrupted" /\ Interrupted!StartBootAudit)
    /\ WF_storageVars(part = "interrupted" /\ Interrupted!StorageStep(tick))
    /\ WF_storageVars(part = "interrupted" /\ Interrupted!Expiring)
    /\ WF_storageVars(part = "interrupted" /\ Interrupted!Keeping)

PressureFairness ==
    /\ WF_storageVars(part = "pressure" /\ Pressure!StartTick)
    /\ WF_storageVars(part = "pressure" /\ Pressure!StartBootAudit)
    /\ WF_storageVars(part = "pressure" /\ Pressure!StorageStep(tick))
    /\ WF_storageVars(part = "pressure" /\ Pressure!Expiring)
    /\ WF_storageVars(part = "pressure" /\ Pressure!Keeping)

Spec ==
    /\ Init /\ [][Next]_vars
    /\ InterruptedFairness /\ PressureFairness

(* The liveness of StorageController, for the instance that moves: no deletion stays
   half done, and no pressure is left unanswered. *)
PendingIsResolved ==
    \A s \in {1, 2} :
        part = "interrupted" /\ row[s] = "DELETE_PENDING" ~> row[s] # "DELETE_PENDING"
PressureIsRelieved ==
    part = "pressure" /\ Pressure!Used >= 3 ~> (part = "pressure" => Pressure!Relieved)
===============================================================================
