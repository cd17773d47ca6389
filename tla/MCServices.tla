------------------------------- MODULE MCServices -------------------------------
(***************************************************************************)
(* The services that run beside the requests and must keep going: the      *)
(* paths of MediaMTX, the backups, and the ingest of segments over a       *)
(* restart.  They share no state, and a behaviour is one of one part (see  *)
(* MCServer); the fairness of a part is the one its module states, for the *)
(* part that moves.                                                        *)
(***************************************************************************)
EXTENDS Naturals, FiniteSets

CONSTANT NoTick

VARIABLES
    part,
    cam, pathMode, inWindow, path, preview, tick, eval, states, candidates, changes, pathFaults,
    up, files, backupTick, slow, backupFaults,
    now, recorded, deleted, status, tier, motions, mode, watermark, scan, keep, announced,
    unsaid, ingestFaults, crashes, promised

Paths == INSTANCE MediaPaths WITH
    Cameras <- {"c1"}, WithSub <- {"c1"}, Previews <- {}, Api <- {"a1"}, Modes <- {"SCHEDULED"},
    Limit <- 1, Prompt <- TRUE, MaxOnboarding <- 1, MaxChanges <- 1, MaxFaults <- 1,
    mode <- pathMode, faults <- pathFaults
(* The same paths, with a preview in the place of the sub-stream. *)
Previews == INSTANCE MediaPaths WITH
    Cameras <- {"c1"}, WithSub <- {}, Previews <- {"p1"}, Api <- {"a1"}, Modes <- {"SCHEDULED"},
    Limit <- 1, Prompt <- TRUE, MaxOnboarding <- 1, MaxChanges <- 1, MaxFaults <- 1,
    mode <- pathMode, faults <- pathFaults
Backups == INSTANCE BackupScheduler WITH
    Ticks <- {"t1", "t2"}, Keep <- 1, Day <- 2, MaxBackupFaults <- 1, tick <- backupTick
Ingest == INSTANCE SegmentIngest WITH
    LastFile <- 2, MaxTime <- 4, Handlers <- {"h1"}, PreBuffer <- 1, PostBuffer <- 1,
    LateMotionGrace <- 0, QuietPeriod <- 1, Latency <- 0, StatFails <- FALSE, MaxFaults <- 1,
    MaxCrashes <- 1, Modes <- {"MOTION_ONLY"}, row <- status, faults <- ingestFaults

pathsVars == <<cam, pathMode, inWindow, path, preview, tick, eval, states, candidates, changes,
               pathFaults>>
backupsVars == <<up, files, backupTick, slow, backupFaults>>
ingestVars == <<now, recorded, deleted, status, tier, motions, mode, watermark, scan, keep,
                announced, unsaid, ingestFaults, crashes, promised>>
vars == <<part, pathsVars, backupsVars, ingestVars>>

(* A part that is not chosen stays in one of its initial states. *)
Init ==
    /\ part \in {"paths", "previews", "backups", "ingest"}
    /\ IF part = "previews" THEN Previews!Init ELSE Paths!Init
    /\ Backups!BackupInit /\ Ingest!Init
    /\ part \notin {"paths", "previews"} => inWindow /\ cam["c1"] = "none"

Next ==
    /\ UNCHANGED part
    /\ CASE part = "paths" -> Paths!Next
         [] part = "previews" -> Previews!Next
         [] OTHER -> UNCHANGED pathsVars
    /\ IF part = "backups" THEN Backups!BackupNext ELSE UNCHANGED backupsVars
    /\ IF part = "ingest" THEN Ingest!Next ELSE UNCHANGED ingestVars

PathsFairness ==
    /\ WF_pathsVars(part = "paths" /\ Paths!CameraStep("c1"))
    /\ WF_pathsVars(part = "previews" /\ Previews!CameraStep("c1"))
    /\ WF_pathsVars(part = "previews" /\ (\/ Previews!RegisterPreview("p1")
                                          \/ Previews!ClosePreview("p1")
                                          \/ Previews!RemovePreview("p1")))
    /\ \A e \in {"a1", "tick"} :
         /\ WF_pathsVars(part = "paths" /\ Paths!Evaluate(e))
         /\ WF_pathsVars(part = "previews" /\ Previews!Evaluate(e))
    /\ WF_pathsVars(part = "paths" /\ Paths!TickStep)
    /\ WF_pathsVars(part = "previews" /\ Previews!TickStep)

BackupsFairness ==
    /\ WF_backupsVars(part = "backups" /\ \E t \in {"t1", "t2"} : Backups!Start(t) \/ Backups!Hour(t))
    /\ \A t \in {"t1", "t2"} : WF_backupsVars(part = "backups" /\ Backups!TickStep(t))

IngestFairness ==
    /\ WF_ingestVars(part = "ingest" /\ Ingest!ScanStep)
    /\ WF_ingestVars(part = "ingest" /\ Ingest!MotionStep("h1"))
    /\ WF_ingestVars(part = "ingest" /\ Ingest!PassTime)

Spec ==
    /\ Init /\ [][Next]_vars
    /\ PathsFairness /\ BackupsFairness /\ IngestFairness

(* The paths of MediaMTX: MediaPaths. *)
PathsAreKept ==
    /\ [](part = "paths" => Paths!SweepSparesOwned)
    /\ [](part = "previews" => Previews!SweepSparesOwned)
    /\ <>[](CASE part = "paths" -> Paths!Converged
             [] part = "previews" -> Previews!Converged
             [] OTHER -> TRUE)

(* What is on disk: BackupScheduler and SegmentIngest. *)
BackupsAreUsable ==
    /\ []Backups!ListedIsWhole
    /\ part = "backups" => Backups!BackupsStayFresh
EveryFileIsCatalogued == part = "ingest" => Ingest!EveryFileIsCatalogued
================================================================================
