------------------------------ MODULE MediaPaths ------------------------------
(***************************************************************************)
(* Cameras and their MediaMTX paths: onboarding and removal                *)
(* (cameras/camera.service.ts), the scheduler that puts every path back    *)
(* to what the recording schedule asks for, and the sweep of paths that    *)
(* nobody owns (recordings/recording-scheduler.ts,                         *)
(* mediamtx/camera-media-paths.ts).                                        *)
(*                                                                         *)
(* MediaMTX keeps no path over a restart, the process keeps neither the    *)
(* announced flags nor the orphans of the last sweep over its own.  The    *)
(* scheduler tick, evaluations asked for over the API, onboardings,        *)
(* removals and previews interleave at every request to MediaMTX and to    *)
(* the database.                                                           *)
(***************************************************************************)
EXTENDS Naturals, FiniteSets

CONSTANTS
    Cameras,        \* camera ids; an id is used once
    WithSub,        \* the cameras that have a sub-stream
    Previews,       \* the names of onboarding previews; a name is used once
    Api,            \* the requests that set a schedule, at a time
    Modes,          \* the recording modes administrators choose from, of CONTINUOUS,
                    \* SCHEDULED, MOTION_ONLY and MANUAL_OFF
    Limit,          \* cameraLimit of the licence
    Prompt,         \* onboarding takes less than a scheduler interval (30 s)
    MaxOnboarding,  \* bound: onboardings at a time
    MaxChanges, MaxFaults   \* bounds: schedule changes; failures and restarts

VARIABLES
    cam,        \* where each camera is between its onboarding and its removal
    mode,       \* recordingMode of each camera
    inWindow,   \* whether the time is in the recording windows
    path,       \* the paths of MediaMTX: "none", "off", "on" (recorded)
    preview,    \* where each preview is; livePreviews are the "live" ones
    tick,       \* the scheduler tick
    eval,       \* the evaluation of one camera, by the tick or a request
    states,     \* recordingStates: what was announced last (recording.started, .stopped)
    candidates, \* orphanCandidates
    changes, faults

worldVars == <<mode, inWindow, changes>>
schedulerVars == <<tick, eval, states, candidates>>
vars == <<cam, mode, inWindow, path, preview, tick, eval, states, candidates,
          changes, faults>>

Evaluators == Api \cup {"tick"}
Main(c) == <<c, "main">>
Sub(c) == <<c, "sub">>
Preview(p) == <<p, "preview">>
Names == (Cameras \X {"main", "sub"}) \cup (Previews \X {"preview"})

Saved == {c \in Cameras : cam[c] = "saved"}
Onboarding == {c \in Cameras : cam[c] \in {"checked", "mainAdded", "provisioned"}}
PathsOf(c) == {Main(c)} \cup IF c \in WithSub THEN {Sub(c)} ELSE {}
Flag(record) == IF record THEN "on" ELSE "off"

IdleTick == [at |-> "idle", cameras |-> {}, todo |-> {}, window |-> FALSE,
             doomed |-> {}, orphans |-> {}]
IdleEval == [at |-> "idle"]
EvalSteps == {"schedule", "getMain", "addMain", "patchMain", "getSub", "addSub", "announce"}

TypeOK ==
    /\ cam \in [Cameras -> {"none", "checked", "mainAdded", "provisioned", "saved",
                            "removeSub", "removeMain", "gone"}]
    /\ mode \in [Cameras -> Modes \cup {"CONTINUOUS"}]
    /\ path \in [Names -> {"none", "off", "on"}]
    /\ preview \in [Previews -> {"none", "added", "live", "closing", "closed"}]
    /\ tick.at \in {"idle", "evaluate", "remove"}
    /\ tick.cameras \subseteq Cameras /\ tick.todo \subseteq tick.cameras
    /\ tick.doomed \subseteq tick.orphans /\ tick.orphans \subseteq Names
    /\ \A e \in Evaluators : eval[e].at \in EvalSteps \cup {"idle"}
    /\ states \in [Cameras -> {"unknown", "on", "off"}]
    /\ candidates \subseteq Names

Init ==
    /\ cam \in [Cameras -> {"none", "saved"}] /\ Cardinality(Saved) <= Limit
    /\ mode = [c \in Cameras |-> "CONTINUOUS"]
    /\ inWindow \in BOOLEAN
    /\ path = [n \in Names |-> "none"]
    /\ preview = [p \in Previews |-> "none"]
    /\ tick = IdleTick
    /\ eval = [e \in Evaluators |-> IdleEval]
    /\ states = [c \in Cameras |-> "unknown"]
    /\ candidates = {}
    /\ changes = 0 /\ faults = 0

Put(n, value) == path' = [path EXCEPT ![n] = value]

-------------------------------------------------------------------------------
(* Onboarding and removal *)

(* The licence is looked at before anything else; two onboardings may both pass. *)
AssertWithinLimit(c) ==
    /\ cam[c] = "none"
    /\ Cardinality(Onboarding) < MaxOnboarding
    /\ Cardinality(Saved) < Limit
    /\ cam' = [cam EXCEPT ![c] = "checked"]
    /\ UNCHANGED <<worldVars, path, preview, schedulerVars, faults>>

(* provision: the main path, recorded, then the sub path on demand. *)
ProvisionMain(c) ==
    /\ cam[c] = "checked"
    /\ Put(Main(c), "on")
    /\ cam' = [cam EXCEPT ![c] = IF c \in WithSub THEN "mainAdded" ELSE "provisioned"]
    /\ UNCHANGED <<worldVars, preview, schedulerVars, faults>>

ProvisionSub(c) ==
    /\ cam[c] = "mainAdded"
    /\ Put(Sub(c), "off")
    /\ cam' = [cam EXCEPT ![c] = "provisioned"]
    /\ UNCHANGED <<worldVars, preview, schedulerVars, faults>>

SaveCamera(c) ==
    /\ cam[c] = "provisioned"
    /\ cam' = [cam EXCEPT ![c] = "saved"]
    /\ UNCHANGED <<worldVars, path, preview, schedulerVars, faults>>

(* MediaMTX or the database refuses: the paths are removed again, sub path first. *)
FirstRemoval(c) == IF c \in WithSub THEN "removeSub" ELSE "removeMain"
OnboardingFails(c) ==
    /\ c \in Onboarding
    /\ faults < MaxFaults
    /\ faults' = faults + 1
    /\ cam' = [cam EXCEPT ![c] = FirstRemoval(c)]
    /\ UNCHANGED <<worldVars, path, preview, schedulerVars>>

(* removeCamera: the row first, then the paths. *)
DeleteRow(c) ==
    /\ cam[c] = "saved"
    /\ cam' = [cam EXCEPT ![c] = FirstRemoval(c)]
    /\ UNCHANGED <<worldVars, path, preview, schedulerVars, faults>>

RemoveStep(c) ==
    cam' = [cam EXCEPT ![c] = IF @ = "removeSub" THEN "removeMain" ELSE "gone"]
RemovePath(c) ==
    /\ cam[c] \in {"removeSub", "removeMain"}
    /\ Put(IF cam[c] = "removeSub" THEN Sub(c) ELSE Main(c), "none")
    /\ RemoveStep(c)
    /\ UNCHANGED <<worldVars, preview, schedulerVars, faults>>
(* A path that cannot be removed is left to the sweep. *)
RemovePathFails(c) ==
    /\ cam[c] \in {"removeSub", "removeMain"}
    /\ faults < MaxFaults
    /\ faults' = faults + 1
    /\ RemoveStep(c)
    /\ UNCHANGED <<worldVars, path, preview, schedulerVars>>

-------------------------------------------------------------------------------
(* Previews *)

(* The path exists before the process counts it as live: an await lies between. *)
OpenPreview(p) ==
    /\ preview[p] = "none"
    /\ Put(Preview(p), "off")
    /\ preview' = [preview EXCEPT ![p] = "added"]
    /\ UNCHANGED <<cam, worldVars, schedulerVars, faults>>
RegisterPreview(p) ==
    /\ preview[p] = "added"
    /\ preview' = [preview EXCEPT ![p] = "live"]
    /\ UNCHANGED <<cam, worldVars, path, schedulerVars, faults>>
(* By the wizard, by the commit of the camera or by the timer of ten minutes. *)
ClosePreview(p) ==
    /\ preview[p] = "live"
    /\ preview' = [preview EXCEPT ![p] = "closing"]
    /\ UNCHANGED <<cam, worldVars, path, schedulerVars, faults>>
RemovePreview(p) ==
    /\ preview[p] = "closing"
    /\ preview' = [preview EXCEPT ![p] = "closed"]
    /\ \/ Put(Preview(p), "none") /\ UNCHANGED faults
       \/ faults < MaxFaults /\ faults' = faults + 1 /\ UNCHANGED path
    /\ UNCHANGED <<cam, worldVars, schedulerVars>>

-------------------------------------------------------------------------------
(* The evaluation of a camera *)

(* shouldRecordToDisk: the motion buffer is recorded always and kept around motion. *)
ShouldRecord(c, window) ==
    CASE mode[c] \in {"CONTINUOUS", "MOTION_ONLY"} -> TRUE
      [] mode[c] = "MANUAL_OFF" -> FALSE
      [] OTHER -> window

SetEval(e, new) == eval' = [eval EXCEPT ![e] = new]

(* The schedule is read, and with it what was announced last. *)
ReadSchedule(e) ==
    LET c == eval[e].camera
    IN  /\ eval[e].at = "schedule"
        /\ SetEval(e, [at |-> "getMain", camera |-> c, previous |-> states[c],
                       want |-> Flag(ShouldRecord(c, eval[e].window))])
        /\ UNCHANGED <<cam, worldVars, path, preview, tick, states, candidates, faults>>

(* Mutant: a path that is there is left as it is. *)
MainActionBlind(e) == IF path[Main(eval[e].camera)] = "none" THEN "addMain" ELSE "none"

(* What getPath of the main path shows, and what is done about it. *)
MainAction(e) ==
    CASE path[Main(eval[e].camera)] = "none" -> "addMain"
      [] path[Main(eval[e].camera)] # eval[e].want -> "patchMain"
      [] OTHER -> "none"
AfterMain(e) == IF eval[e].camera \in WithSub THEN "getSub" ELSE "announce"
GetMain(e) ==
    /\ eval[e].at = "getMain"
    /\ SetEval(e, [eval[e] EXCEPT !.at =
           IF MainAction(e) = "none" THEN AfterMain(e) ELSE MainAction(e)])
    /\ UNCHANGED <<cam, worldVars, path, preview, tick, states, candidates, faults>>

AddMain(e) ==
    /\ eval[e].at = "addMain"
    /\ Put(Main(eval[e].camera), eval[e].want)
    /\ SetEval(e, [eval[e] EXCEPT !.at = AfterMain(e)])
    /\ UNCHANGED <<cam, worldVars, preview, tick, states, candidates, faults>>

(* A path that is gone by now cannot be patched: the evaluation ends. *)
PatchMain(e) ==
    /\ eval[e].at = "patchMain"
    /\ \/ /\ path[Main(eval[e].camera)] # "none"
          /\ Put(Main(eval[e].camera), eval[e].want)
          /\ SetEval(e, [eval[e] EXCEPT !.at = AfterMain(e)])
       \/ /\ path[Main(eval[e].camera)] = "none"
          /\ SetEval(e, IdleEval)
          /\ UNCHANGED path
    /\ UNCHANGED <<cam, worldVars, preview, tick, states, candidates, faults>>

GetSub(e) ==
    /\ eval[e].at = "getSub"
    /\ SetEval(e, [eval[e] EXCEPT !.at =
           IF path[Sub(eval[e].camera)] = "none" THEN "addSub" ELSE "announce"])
    /\ UNCHANGED <<cam, worldVars, path, preview, tick, states, candidates, faults>>
AddSub(e) ==
    /\ eval[e].at = "addSub"
    /\ Put(Sub(eval[e].camera), "off")
    /\ SetEval(e, [eval[e] EXCEPT !.at = "announce"])
    /\ UNCHANGED <<cam, worldVars, preview, tick, states, candidates, faults>>

(* A change against what was announced when the evaluation began is announced. *)
Announce(e) ==
    LET c == eval[e].camera
    IN  /\ eval[e].at = "announce"
        /\ states' = IF eval[e].previous = eval[e].want THEN states
                     ELSE [states EXCEPT ![c] = eval[e].want]
        /\ SetEval(e, IdleEval)
        /\ UNCHANGED <<cam, worldVars, path, preview, tick, candidates, faults>>

(* A request to MediaMTX fails: the next tick tries again. *)
EvaluationFails(e) ==
    /\ eval[e].at \in EvalSteps \ {"announce"}
    /\ faults < MaxFaults
    /\ faults' = faults + 1
    /\ SetEval(e, IdleEval)
    /\ UNCHANGED <<cam, worldVars, path, preview, tick, states, candidates>>

Evaluate(e) ==
    \/ ReadSchedule(e) \/ GetMain(e) \/ AddMain(e) \/ PatchMain(e)
    \/ GetSub(e) \/ AddSub(e) \/ Announce(e)

(* setCameraSchedule: mode and windows in one transaction, then an evaluation of the
   camera, if it is still listed. *)
SetSchedule(e, c, m) ==
    /\ eval[e].at = "idle"
    /\ c \in Saved
    /\ changes < MaxChanges
    /\ changes' = changes + 1
    /\ mode' = [mode EXCEPT ![c] = m]
    /\ SetEval(e, [at |-> "schedule", camera |-> c, window |-> inWindow])
    /\ UNCHANGED <<cam, inWindow, path, preview, tick, states, candidates, faults>>

(* A window of the schedule begins or ends. *)
WindowTurns ==
    /\ changes < MaxChanges
    /\ changes' = changes + 1
    /\ inWindow' = ~ inWindow
    /\ UNCHANGED <<cam, mode, path, preview, schedulerVars, faults>>

-------------------------------------------------------------------------------
(* The tick *)

(* Prompt: what was under way at the last sweep is over by the next tick. *)
TickStart ==
    /\ tick.at = "idle"
    /\ Prompt => \A n \in candidates :
                    /\ \A c \in Onboarding : n \notin PathsOf(c)
                    /\ \A p \in Previews : preview[p] = "added" => n # Preview(p)
    /\ tick' = [IdleTick EXCEPT !.at = "evaluate", !.cameras = Saved, !.todo = Saved,
                                !.window = inWindow]
    /\ UNCHANGED <<cam, worldVars, path, preview, eval, states, candidates, faults>>

(* The next camera of the list, evaluated for the time the tick began at. *)
EvaluateNext(c) ==
    /\ tick.at = "evaluate" /\ c \in tick.todo
    /\ eval["tick"].at = "idle"
    /\ tick' = [tick EXCEPT !.todo = @ \ {c}]
    /\ SetEval("tick", [at |-> "schedule", camera |-> c, window |-> tick.window])
    /\ UNCHANGED <<cam, worldVars, path, preview, states, candidates, faults>>

(* sweepOrphans: owned by a camera of the list the tick began with, or a live preview. *)
Owned(cameras) ==
    UNION {PathsOf(c) : c \in cameras}
        \cup {Preview(p) : p \in {q \in Previews : preview[q] = "live"}}
Doomed(orphans) == orphans \cap candidates
SweepList ==
    LET orphans == {n \in Names : path[n] # "none"} \ Owned(tick.cameras)
    IN  /\ tick.at = "evaluate" /\ tick.todo = {} /\ eval["tick"].at = "idle"
        /\ tick' = [tick EXCEPT !.at = "remove", !.orphans = orphans, !.doomed = Doomed(orphans)]
        /\ UNCHANGED <<cam, worldVars, path, preview, eval, states, candidates, faults>>

(* An orphan that is removed is no candidate any more, whether MediaMTX agreed or not. *)
SweepRemove(n) ==
    /\ tick.at = "remove" /\ n \in tick.doomed
    /\ tick' = [tick EXCEPT !.doomed = @ \ {n}, !.orphans = @ \ {n}]
    /\ \/ Put(n, "none") /\ UNCHANGED faults
       \/ faults < MaxFaults /\ faults' = faults + 1 /\ UNCHANGED path
    /\ UNCHANGED <<cam, worldVars, preview, eval, states, candidates>>
SweepEnds ==
    /\ tick.at = "remove" /\ tick.doomed = {}
    /\ candidates' = tick.orphans
    /\ tick' = IdleTick
    /\ UNCHANGED <<cam, worldVars, path, preview, eval, states, faults>>
SweepFails ==
    /\ tick.at = "evaluate" /\ tick.todo = {} /\ eval["tick"].at = "idle"
    /\ faults < MaxFaults
    /\ faults' = faults + 1
    /\ tick' = IdleTick
    /\ UNCHANGED <<cam, worldVars, path, preview, eval, states, candidates>>

-------------------------------------------------------------------------------
(* Restarts *)

MediaMtxRestarts ==
    /\ faults < MaxFaults
    /\ faults' = faults + 1
    /\ path' = [n \in Names |-> "none"]
    /\ UNCHANGED <<cam, worldVars, preview, schedulerVars>>

(* The process ends: requests are not resumed, memory is empty, MediaMTX goes on. *)
ProcessRestarts ==
    /\ faults < MaxFaults
    /\ faults' = faults + 1
    /\ cam' = [c \in Cameras |-> IF cam[c] \in {"none", "saved"} THEN cam[c] ELSE "gone"]
    /\ preview' = [p \in Previews |-> IF preview[p] = "none" THEN "none" ELSE "closed"]
    /\ tick' = IdleTick
    /\ eval' = [e \in Evaluators |-> IdleEval]
    /\ states' = [c \in Cameras |-> "unknown"]
    /\ candidates' = {}
    /\ UNCHANGED <<worldVars, path>>

-------------------------------------------------------------------------------

CameraStep(c) ==
    \/ ProvisionMain(c) \/ ProvisionSub(c) \/ SaveCamera(c) \/ RemovePath(c)
TickStep ==
    \/ TickStart \/ SweepList \/ SweepEnds
    \/ \E c \in Cameras : EvaluateNext(c)
    \/ \E n \in Names : SweepRemove(n)

Next ==
    \/ \E c \in Cameras :
        \/ CameraStep(c) \/ AssertWithinLimit(c) \/ OnboardingFails(c) \/ DeleteRow(c)
        \/ RemovePathFails(c)
    \/ \E p \in Previews :
        OpenPreview(p) \/ RegisterPreview(p) \/ ClosePreview(p) \/ RemovePreview(p)
    \/ \E e \in Evaluators : Evaluate(e) \/ EvaluationFails(e)
    \/ \E e \in Api, c \in Cameras, m \in Modes : SetSchedule(e, c, m)
    \/ WindowTurns
    \/ TickStep \/ SweepFails
    \/ MediaMtxRestarts \/ ProcessRestarts

Spec == Init /\ [][Next]_vars

(* Requests to MediaMTX time out after three seconds and the others settle; setInterval
   repeats the tick; the timer closes a preview. *)
Fairness ==
    /\ \A c \in Cameras : WF_vars(CameraStep(c))
    /\ \A p \in Previews :
        WF_vars(RegisterPreview(p) \/ ClosePreview(p) \/ RemovePreview(p))
    /\ \A e \in Evaluators : WF_vars(Evaluate(e))
    /\ WF_vars(TickStep)

FairSpec == Spec /\ Fairness

-------------------------------------------------------------------------------
(* Properties *)

(* The sweep never takes a path away from a camera that is saved or from a preview that is
   open: "A path must be orphaned on two consecutive sweeps, so one created just before its
   camera is saved survives" (sweepOrphans), although it works with the list of cameras its
   tick began with. *)
SweepSparesOwned ==
    \A n \in tick.doomed : n \notin Owned(Saved)

(* When nothing changes any more, MediaMTX comes to what the database says, whatever ran
   beside whatever: every camera has its paths, recorded as its schedule asks and announced
   so, and no path is left that nobody owns ("the database stays the single source of truth",
   evaluateCamera). *)
Converged ==
    /\ \A c \in Saved :
        /\ path[Main(c)] = Flag(ShouldRecord(c, inWindow))
        /\ states[c] = Flag(ShouldRecord(c, inWindow))
        /\ c \in WithSub => path[Sub(c)] = "off"
    /\ \A n \in Names \ Owned(Saved) : path[n] = "none"
PathsConverge == <>[]Converged

(* What holds for one onboarding at a time only: no more cameras than the licence allows. *)
WithinLicense == Cardinality(Saved) <= Limit
===============================================================================
