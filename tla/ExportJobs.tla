------------------------------ MODULE ExportJobs ------------------------------
(***************************************************************************)
(* Clip exports (export/export.service.ts, export-prune.service.ts): a job *)
(* is written QUEUED, then runs in the background of the request: it looks *)
(* up the recordings of its time range, copies them with ffmpeg into one   *)
(* file, records the checksum and serves it until the prune removes it.    *)
(*                                                                         *)
(* Deletion passes of the Storage Controller, other exports, prunes,       *)
(* downloads, the removal of the camera and the end of the process fall    *)
(* between any two awaits.  All jobs are of one camera.  The catalog is    *)
(* reduced to what an export sees of it: whether a segment is AVAILABLE    *)
(* and whether its file is there (see RecordingCatalog).                   *)
(***************************************************************************)
EXTENDS Naturals, FiniteSets

CONSTANTS
    Jobs, NoJob,
    Segments,       \* the recordings, numbered in the order of their start times
    Window,         \* the segments that overlap the time range of each job
    CopyJobs,       \* the jobs in STREAM_COPY mode; the others are TRANSCODED_OSD
    MaxSegments,    \* MAX_TIMELINE_SEGMENTS, the limit of one range query
    Deleters,       \* concurrent deletion passes
    Pruners,        \* concurrent prune passes: at start and hourly
    Faults,         \* the failures the environment may inject
    MaxCrashes      \* bound on the number of restarts

(* ffmpegFails: ffmpeg or the writing of its manifest fails for reasons of its own.
   unlinkFails: unlink fails although the file exists.
   dbFails: queries and updates of a running job may reject.
   sameInstant: two exports may start within one millisecond.
   cameraRemoved: the camera may be removed. *)
FaultKinds == {"ffmpegFails", "unlinkFails", "dbFails", "sameInstant", "cameraRemoved"}

ASSUME ExportAssumption ==
    /\ NoJob \notin Jobs
    /\ Segments \subseteq Nat /\ IsFiniteSet(Segments)
    /\ Window \in [Jobs -> SUBSET Segments]
    /\ CopyJobs \subseteq Jobs
    /\ MaxSegments \in Nat \ {0} /\ MaxCrashes \in Nat
    /\ Faults \subseteq FaultKinds

VARIABLES
    status,     \* the status of each job's row, "NONE" when there is no row
    pc,         \* what the execution of each job does next
    found,      \* the segments its range query returned
    copied,     \* those ffmpeg has been through
    name,       \* the output file of each job, named after the first job of its millisecond
    sum,        \* the checksum, as the content it was computed from
    output,     \* the content of each output file
    expired,    \* the jobs whose time to live is over
    seg,        \* what has become of each segment
    chosen,     \* what each deletion pass has decided to delete
    prune,      \* each prune pass: where it is, the jobs to visit, the one in hand
    camera,     \* whether the camera exists
    crashes,    \* restarts so far
    asked,      \* history: the footage in the job's window when it was requested
    shielded    \* history: the jobs no deletion pass had chosen footage of by then

execVars == <<pc, found, copied, name, sum>>
historyVars == <<asked, shielded>>
footageVars == <<seg, chosen>>
vars == <<status, pc, found, copied, name, sum, output, expired, seg, chosen, prune,
          camera, crashes, asked, shielded>>

Active == {"QUEUED", "RUNNING"}
Statuses == Active \cup {"NONE", "COMPLETED", "FAILED", "EXPIRED"}
Working == {"lookup", "validate", "refuse", "start", "open", "copy", "hash",
            "complete", "fail"}
Contents == [by : Jobs \cup {NoJob}, clip : SUBSET Segments]
NoFile == [by |-> NoJob, clip |-> {}]
NoPrune == [at |-> "idle", todo |-> {}, job |-> NoJob]

TypeOK ==
    /\ status \in [Jobs -> Statuses]
    /\ pc \in [Jobs -> Working \cup {"new", "done", "lost"}]
    /\ found \in [Jobs -> SUBSET Segments]
    /\ copied \in [Jobs -> SUBSET Segments]
    /\ name \in [Jobs -> Jobs]
    /\ sum \in [Jobs -> Contents]
    /\ output \in [Jobs -> Contents]
    /\ expired \subseteq Jobs
    /\ seg \in [Segments -> {"available", "doomed", "removed", "orphan"}]
    /\ chosen \in [Deleters -> SUBSET Segments]
    /\ prune \in [Pruners -> [at : {"idle", "unlink", "reread", "save"},
                              todo : SUBSET Jobs, job : Jobs \cup {NoJob}]]
    /\ camera \in BOOLEAN
    /\ crashes \in 0 .. MaxCrashes
    /\ asked \in [Jobs -> SUBSET Segments]
    /\ shielded \subseteq Jobs

Init ==
    /\ status = [j \in Jobs |-> "NONE"]
    /\ pc = [j \in Jobs |-> "new"]
    /\ found = [j \in Jobs |-> {}]
    /\ copied = [j \in Jobs |-> {}]
    /\ name = [j \in Jobs |-> j]
    /\ sum = [j \in Jobs |-> NoFile]
    /\ output = [j \in Jobs |-> NoFile]
    /\ expired = {}
    /\ seg = [s \in Segments |-> "available"]
    /\ chosen = [d \in Deleters |-> {}]
    /\ prune = [p \in Pruners |-> NoPrune]
    /\ camera = TRUE
    /\ crashes = 0
    /\ asked = [j \in Jobs |-> {}]
    /\ shielded = {}

Available == {s \in Segments : seg[s] = "available"}
Exists(n) == output[n] # NoFile

-------------------------------------------------------------------------------
(* The database.  persistJob upserts: without the camera, whose removal cascades to
   the job, the insert breaks its foreign key and the call rejects. *)
Goto(j, label) == pc' = [pc EXCEPT ![j] = label]

(* The task ends, and its locals with it. *)
End(j, label) ==
    /\ Goto(j, label)
    /\ found' = [found EXCEPT ![j] = {}]
    /\ copied' = [copied EXCEPT ![j] = {}]

Persist(j, st) ==
    /\ camera
    /\ status' = [status EXCEPT ![j] = st]

PersistRejects ==
    /\ ~camera \/ "dbFails" \in Faults
    /\ UNCHANGED status

-------------------------------------------------------------------------------
(* createExportJob: the row is QUEUED before the recordings are looked up, so that
   its window is already on a Hold when they are. *)

(* Mutant: the row is written when execution starts. *)
RequestUnheld(j) ==
    /\ pc[j] = "new" /\ camera
    /\ Goto(j, "lookup")
    /\ asked' = [asked EXCEPT ![j] = Window[j] \cap Available]
    /\ shielded' = IF \A d \in Deleters : Window[j] \cap chosen[d] = {}
                   THEN shielded \cup {j} ELSE shielded
    /\ UNCHANGED <<status, found, copied, name, sum, output, expired, footageVars, prune,
                   camera, crashes>>

Request(j) ==
    /\ pc[j] = "new"
    /\ Persist(j, "QUEUED")
    /\ Goto(j, "lookup")
    /\ asked' = [asked EXCEPT ![j] = Window[j] \cap Available]
    /\ shielded' = IF \A d \in Deleters : Window[j] \cap chosen[d] = {}
                   THEN shielded \cup {j} ELSE shielded
    /\ UNCHANGED <<found, copied, name, sum, output, expired, footageVars, prune,
                   camera, crashes>>

(* findRecordingsInRange: AVAILABLE rows only, oldest first, at most MaxSegments. *)
InRange(j) ==
    LET rows == Window[j] \cap Available
    IN  {s \in rows : Cardinality({t \in rows : t < s}) < MaxSegments}

(* A rejected query leaves createExportJob, and the row as it is. *)
LookupOutcomes(j) ==
    {CASE InRange(j) = {} -> "refuse" [] j \in CopyJobs -> "validate" [] OTHER -> "start"}
        \cup (IF "dbFails" \in Faults THEN {"lost"} ELSE {})

Lookup(j) ==
    /\ pc[j] = "lookup"
    /\ found' = [found EXCEPT ![j] = InRange(j)]
    /\ \E label \in LookupOutcomes(j) : Goto(j, label)
    /\ UNCHANGED <<status, copied, name, sum>>

(* The compatibility gate: every file exists and all have one format.  An
   incompatible format is a choice of the environment. *)
Validate(j) ==
    /\ pc[j] = "validate"
    /\ \/ Goto(j, "refuse")
       \/ /\ \A s \in found[j] : seg[s] # "removed"
          /\ Goto(j, "start")
    /\ UNCHANGED <<status, found, copied, name, sum>>

(* Mutant: the refusal is answered but not written. *)
RefuseUnwritten(j) ==
    /\ pc[j] = "refuse"
    /\ End(j, "done")
    /\ UNCHANGED <<status, name, sum>>

Refuse(j) ==
    /\ pc[j] = "refuse"
    /\ Persist(j, "FAILED") \/ PersistRejects
    /\ End(j, "done")
    /\ UNCHANGED <<name, sum>>

-------------------------------------------------------------------------------
(* executeExport. *)

(* Mutant: the file is named after the camera alone. *)
FileNameOfCamera(j) == {CHOOSE k \in Jobs : TRUE}

(* Two executions of one camera that start in the same millisecond choose one name. *)
FileNames(j) ==
    {j} \cup (IF "sameInstant" \in Faults THEN {name[k] : k \in {i \in Jobs : pc[i] = "open"}}
              ELSE {})

Start(j) ==
    /\ pc[j] = "start"
    /\ Persist(j, "RUNNING")
    /\ \E n \in FileNames(j) : name' = [name EXCEPT ![j] = n]
    /\ Goto(j, "open")
    /\ UNCHANGED <<found, copied, sum>>

(* This persistJob is outside the try: the background task just ends. *)
StartRejects(j) ==
    /\ pc[j] = "start"
    /\ PersistRejects
    /\ End(j, "lost")
    /\ UNCHANGED <<name, sum>>

(* ffmpeg -y truncates the output, then goes through the manifest. *)
Open(j) ==
    /\ pc[j] = "open"
    /\ output' = [output EXCEPT ![name[j]] = [by |-> j, clip |-> {}]]
    /\ Goto(j, "copy")
    /\ UNCHANGED <<status, found, copied, name, sum>>

CopySegment(j, s) ==
    /\ pc[j] = "copy"
    /\ s \in found[j] \ copied[j]
    /\ \A t \in found[j] \ copied[j] : s <= t
    /\ seg[s] # "removed"
    /\ copied' = [copied EXCEPT ![j] = @ \cup {s}]
    /\ output' = [output EXCEPT ![name[j]] = [by |-> j, clip |-> copied[j] \cup {s}]]
    /\ UNCHANGED <<status, pc, found, name, sum>>

(* A segment that cannot be opened ends the copy, with or without an error. *)
CopyMisses(j, s) ==
    /\ pc[j] = "copy"
    /\ s \in found[j] \ copied[j]
    /\ \A t \in found[j] \ copied[j] : s <= t
    /\ seg[s] = "removed"
    /\ \E label \in {"hash", "fail"} : Goto(j, label)
    /\ UNCHANGED <<status, found, copied, name, sum, output>>

FfmpegExits(j) ==
    /\ pc[j] = "copy"
    /\ copied[j] = found[j]
    /\ Goto(j, "hash")
    /\ UNCHANGED <<status, found, copied, name, sum, output>>

FfmpegFails(j) ==
    /\ pc[j] \in {"open", "copy"}
    /\ "ffmpegFails" \in Faults
    /\ Goto(j, "fail")
    /\ UNCHANGED <<status, found, copied, name, sum, output>>

Hash(j) ==
    /\ pc[j] = "hash"
    /\ sum' = [sum EXCEPT ![j] = output[name[j]]]
    /\ Goto(j, IF Exists(name[j]) THEN "complete" ELSE "fail")
    /\ UNCHANGED <<status, found, copied, name>>

Complete(j) ==
    /\ pc[j] = "complete"
    /\ \/ Persist(j, "COMPLETED") /\ End(j, "done")
       \/ PersistRejects /\ Goto(j, "fail") /\ UNCHANGED <<found, copied>>
    /\ UNCHANGED <<name, sum>>

(* The catch; the partial output stays on disk. *)
Fail(j) ==
    /\ pc[j] = "fail"
    /\ Persist(j, "FAILED") \/ PersistRejects
    /\ End(j, "done")
    /\ UNCHANGED <<name, sum>>

Copying(j) ==
    \/ Open(j)
    \/ \E s \in Segments : CopySegment(j, s) \/ CopyMisses(j, s)
    \/ FfmpegExits(j)
    \/ FfmpegFails(j)

Executing(j) ==
    \/ Lookup(j)
    \/ Validate(j)
    \/ Refuse(j)
    \/ Start(j) \/ StartRejects(j)
    \/ Hash(j)
    \/ Complete(j)
    \/ Fail(j)

JobStep(j) ==
    /\ Copying(j) \/ (Executing(j) /\ UNCHANGED output)
    /\ UNCHANGED <<expired, footageVars, prune, camera, crashes, historyVars>>

-------------------------------------------------------------------------------
(* Deletion passes: RetentionPolicy reads activeExports once, then the segments go
   one by one; the catalog unlinks what is marked, in this process or the next. *)

Held == UNION {Window[j] : j \in {k \in Jobs : status[k] \in Active}}

Choose(d) ==
    /\ chosen[d] = {}
    /\ \E batch \in SUBSET (Available \ Held) :
         batch # {} /\ chosen' = [chosen EXCEPT ![d] = batch]
    /\ UNCHANGED <<seg, status, execVars, output, expired, prune, camera,
                   crashes, historyVars>>

Mark(d, s) ==
    /\ s \in chosen[d]
    /\ chosen' = [chosen EXCEPT ![d] = @ \ {s}]
    /\ seg' = [seg EXCEPT ![s] = IF @ = "available" THEN "doomed" ELSE @]
    /\ UNCHANGED <<status, execVars, output, expired, prune, camera, crashes,
                   historyVars>>

Unlink(s) ==
    /\ seg[s] = "doomed"
    /\ seg' = [seg EXCEPT ![s] = "removed"]
    /\ UNCHANGED <<chosen, status, execVars, output, expired, prune, camera,
                   crashes, historyVars>>

-------------------------------------------------------------------------------
(* pruneExpiredExports. *)

Due == {j \in Jobs : status[j] = "COMPLETED" /\ j \in expired}

PruneStart(p) ==
    /\ prune[p].at = "idle"
    /\ Due # {}
    /\ prune' = [prune EXCEPT ![p] = [at |-> "unlink", todo |-> Due, job |-> NoJob]]
    /\ UNCHANGED <<status, output>>

(* Every error of unlink is taken for a file that is already gone. *)
PruneUnlink(p, j) ==
    /\ prune[p].at = "unlink"
    /\ j \in prune[p].todo
    /\ \/ output' = [output EXCEPT ![name[j]] = NoFile]
       \/ "unlinkFails" \in Faults /\ UNCHANGED output
    /\ prune' = [prune EXCEPT ![p] = [at |-> "reread", todo |-> @.todo \ {j}, job |-> j]]
    /\ UNCHANGED status

NextDue(p) ==
    IF prune[p].todo = {} THEN NoPrune
    ELSE [at |-> "unlink", todo |-> prune[p].todo, job |-> NoJob]

(* updateJobStatus reads the row again, and skips one that is gone. *)
PruneReread(p) ==
    /\ prune[p].at = "reread"
    /\ prune' = [prune EXCEPT ![p] =
                   IF status[@.job] = "NONE" THEN NextDue(p)
                   ELSE [at |-> "save", todo |-> @.todo, job |-> @.job]]
    /\ UNCHANGED <<status, output>>

(* Mutant: a pruned job is not marked. *)
PruneWithoutSave(p) ==
    /\ prune[p].at = "save"
    /\ prune' = [prune EXCEPT ![p] = NextDue(p)]
    /\ UNCHANGED <<status, output>>

(* A rejected update ends the pass. *)
PruneSave(p) ==
    /\ prune[p].at = "save"
    /\ \/ Persist(prune[p].job, "EXPIRED") /\ prune' = [prune EXCEPT ![p] = NextDue(p)]
       \/ PersistRejects /\ prune' = [prune EXCEPT ![p] = NoPrune]
    /\ UNCHANGED output

PruneStep(p) ==
    /\ \/ PruneStart(p)
       \/ \E j \in Jobs : PruneUnlink(p, j)
       \/ PruneReread(p)
       \/ PruneSave(p)
    /\ UNCHANGED <<execVars, expired, footageVars, camera, crashes, historyVars>>

-------------------------------------------------------------------------------
(* The rest of the world. *)

(* Only the expiry of a job that is or will be COMPLETED is ever looked at. *)
Expire(j) ==
    /\ status[j] \in Active \cup {"COMPLETED"}
    /\ j \notin expired
    /\ expired' = expired \cup {j}
    /\ UNCHANGED <<status, execVars, output, footageVars, prune, camera,
                   crashes, historyVars>>

(* The rows of the camera's jobs and recordings go with it; the files stay. *)
RemoveCamera ==
    /\ camera
    /\ "cameraRemoved" \in Faults
    /\ camera' = FALSE
    /\ status' = [j \in Jobs |-> "NONE"]
    /\ seg' = [s \in Segments |-> IF seg[s] = "available" THEN "orphan" ELSE seg[s]]
    /\ UNCHANGED <<execVars, output, expired, chosen, prune, crashes,
                   historyVars>>

(* Nothing resumes a job at start: the background task is gone. *)
Crash ==
    /\ crashes < MaxCrashes
    /\ crashes' = crashes + 1
    /\ pc' = [j \in Jobs |-> IF pc[j] \in Working THEN "lost" ELSE pc[j]]
    /\ found' = [j \in Jobs |-> {}]
    /\ copied' = [j \in Jobs |-> {}]
    /\ chosen' = [d \in Deleters |-> {}]
    /\ prune' = [p \in Pruners |-> NoPrune]
    /\ UNCHANGED <<status, name, sum, output, expired, seg, camera,
                   historyVars>>

Next ==
    \/ \E j \in Jobs : Request(j) \/ JobStep(j) \/ Expire(j)
    \/ \E d \in Deleters : Choose(d) \/ \E s \in Segments : Mark(d, s)
    \/ \E s \in Segments : Unlink(s)
    \/ \E p \in Pruners : PruneStep(p)
    \/ RemoveCamera
    \/ Crash

Spec == Init /\ [][Next]_vars

(* Awaited calls settle, ffmpeg included, and setInterval repeats the prune. *)
FairSpec ==
    /\ Spec
    /\ \A j \in Jobs : WF_vars(JobStep(j))
    /\ \A p \in Pruners : WF_vars(PruneStep(p))

-------------------------------------------------------------------------------
(* Properties. *)

(* retention-policy.ts:52, seen from the export: a completed export holds all the
   footage its window had when it was asked for, unless a deletion pass had already
   chosen some of it or the window exceeds the limit of the range query.  The hold
   must begin before the lookup and last until ffmpeg has read the last file. *)
HeldExportIsWhole ==
    \A j \in shielded :
        /\ status[j] = "COMPLETED"
        /\ Cardinality(asked[j]) <= MaxSegments
        => sum[j] = [by |-> j, clip |-> asked[j]]

(* getExportFileDetails: what a download finds. *)
Downloadable(j) == status[j] = "COMPLETED" /\ Exists(name[j])

(* A completed export can be downloaded until it expires, and the file under its name
   is never another than the one its checksum was computed from: a download that opens
   it after an await sends the bytes of the checksum in its header (export.routes.ts:153)
   or fails, whatever other exports and prunes do in the same directory. *)
ChecksumIsOfTheFile ==
    \A j \in Jobs :
        /\ status[j] = "COMPLETED" /\ j \notin expired => Downloadable(j)
        /\ status[j] \in {"COMPLETED", "EXPIRED"} => output[name[j]] \in {sum[j], NoFile}

(* A job whose execution is over holds no footage, however it ended: refused, failed,
   overtaken by a deletion or by the removal of the camera.  Only the end of the process
   or a failing database leaves a hold behind. *)
OverHoldsNothing == \A j \in Jobs : status[j] \in Active => pc[j] \in Working \cup {"lost"}

(* A finished export does not outlive its time to live for ever: it is marked and its
   file removed, however often the process ends in the middle of a prune. *)
ExpiredIsPruned ==
    \A j \in Jobs :
        status[j] = "COMPLETED" /\ j \in expired
            ~> \/ status[j] = "NONE"
               \/ status[j] = "EXPIRED" /\ ~Exists(name[j])

(* Why the above holds.  A row changes with the task that owns it; only a finished task
   is pruned; a file is written by its own job alone; and the footage of a shielded job
   stays on offer, unchosen, from before its lookup until its copy is complete. *)
RowInv(j) ==
    /\ pc[j] = "new" => status[j] = "NONE"
    /\ status[j] \in {"COMPLETED", "EXPIRED"} => pc[j] = "done"
    /\ pc[j] \in Working /\ camera => status[j] \in Active
    /\ ~camera => status[j] = "NONE"

FileInv(j) ==
    /\ name[j] = j
    /\ pc[j] = "copy" => output[j] = [by |-> j, clip |-> copied[j]]
    /\ pc[j] = "hash" => Exists(j)
    /\ pc[j] = "complete" => Exists(j) /\ sum[j] = output[j]
    /\ status[j] \in {"COMPLETED", "EXPIRED"} => output[j] \in {sum[j], NoFile}
    /\ status[j] = "COMPLETED" /\ j \notin expired => Exists(j)

Prunable(j) ==
    /\ j \in expired /\ pc[j] = "done"
    /\ camera => status[j] \in {"COMPLETED", "EXPIRED"}

PruneInv(p) ==
    /\ \A j \in prune[p].todo : Prunable(j)
    /\ prune[p].at \in {"reread", "save"} => prune[p].job \in Jobs /\ Prunable(prune[p].job)

Small(j) == Cardinality(asked[j]) <= MaxSegments

HoldInv(j) ==
    /\ pc[j] # "new" => Window[j] \cap Available \subseteq asked[j]
    /\ pc[j] \in {"new", "lookup", "validate", "start", "open"} => copied[j] = {}
    /\ j \in shielded =>
         /\ pc[j] # "new"
         /\ pc[j] \in Working /\ camera =>
              /\ asked[j] \subseteq Window[j] \cap Available
              /\ \A d \in Deleters : asked[j] \cap chosen[d] = {}
              /\ Small(j) /\ pc[j] \in {"validate", "start", "open", "copy"} => found[j] = asked[j]
              /\ Small(j) /\ pc[j] \in {"hash", "complete"}
                    => output[j] = [by |-> j, clip |-> asked[j]]
         /\ Small(j) /\ status[j] = "COMPLETED" => sum[j] = [by |-> j, clip |-> asked[j]]

ExportInv ==
    /\ TypeOK
    /\ \A j \in Jobs : RowInv(j) /\ FileInv(j) /\ HoldInv(j)
    /\ \A p \in Pruners : PruneInv(p)

(* CONTEXT.md:46 names "a queued or running export" as a Hold: whatever is QUEUED or
   RUNNING in the database is queued or running. *)
ActiveIsRunning == \A j \in Jobs : status[j] \in Active => pc[j] \in Working

(* export-prune.service.ts:47, "Unlinks files from disk and transitions status to
   EXPIRED": an expired export has no file. *)
ExpiredHasNoFile == \A j \in Jobs : status[j] = "EXPIRED" => ~Exists(name[j])
===============================================================================
