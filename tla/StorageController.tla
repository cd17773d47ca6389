--------------------------- MODULE StorageController ---------------------------
(***************************************************************************)
(* Who deletes footage and when (recordings/storage-controller.ts,         *)
(* retention-policy.ts, recording-engine.ts, settings/settings.service.ts) *)
(* over the catalog's deletion primitive (RecordingCatalog).               *)
(*                                                                         *)
(* The storage tick is single-flight, but a cleanup or a purge asked for   *)
(* over HTTP runs beside it, and so does the expiry of the motion buffer.  *)
(* A run of deleteOldestSegments reads a page of rows, then the disk       *)
(* usage, then the holds, then deletes row by row: each read is stale by   *)
(* the time it is used.                                                    *)
(*                                                                         *)
(* Segments are numbered in the order of their start times.                *)
(***************************************************************************)
EXTENDS Integers, FiniteSets

CONSTANTS
    Segments, NoSegment, Faults,
    TickWorker,     \* the engine's storage tick, and the boot audit
    ApiWorkers,     \* cleanups and purges requested over HTTP
    IndexWorker,    \* the index tick, which expires the motion buffer
    MotionWorker,   \* the motion.detected handler, which keeps buffered segments
    BatchSize, MaxIterations,
    Critical,       \* disk usage, in segments, from which rollover starts
    Target,         \* the usage down to which it deletes
    Holdable,       \* segments a bookmark or an export may come to cover
    Promotable,     \* segments that motion or an incident may give a longer tier
    Fates,          \* the statuses ingest may give a file
    MaxAge,         \* bound on age
    Volumes,        \* the states the recordings volume may be in
    MaxCrashes      \* bound on the number of restarts

Deleters == {TickWorker, IndexWorker} \cup ApiWorkers
Workers == Deleters \cup {MotionWorker}
Tiers == {"CONTINUOUS", "EVENT", "INCIDENT"}
StorageWorkers == {TickWorker} \cup ApiWorkers

ASSUME ControllerAssumption ==
    /\ Segments \subseteq Nat /\ NoSegment \notin Segments
    /\ Faults \subseteq {"updateLost", "deleteFails", "unlinkFails", "accessFails",
                        "volumeGone", "lateKeep"}
    /\ BatchSize \in Nat \ {0} /\ MaxIterations \in Nat \ {0}
    /\ Target \in Nat /\ Critical \in Nat
    /\ Fates \subseteq {"AVAILABLE", "BUFFERED", "QUARANTINED"} /\ MaxAge \in Nat
    /\ Volumes \subseteq {"ok", "readonly", "unmounted"}
    /\ "readonly" \in Volumes => "unlinkFails" \in Faults
    /\ "unmounted" \in Volumes => "volumeGone" \in Faults

VARIABLES
    file, row, pc, todo, seg,   \* the catalog's
    hold,   \* segments on a Hold: a bookmark or an active export overlaps them
    tier,   \* retention tier
    age,    \* the number of tier lifetimes a segment has outlived
    volume, \* the recordings volume
    run,    \* each storage worker's invocation
    boot,   \* how far the engine's start() has come
    crashes,  \* restarts so far
    shielded  \* history: segments held since before any worker had chosen them

Catalog == INSTANCE RecordingCatalog

catalogVars == <<file, row, pc, todo, seg>>
envVars == <<hold, tier, age, volume, crashes, shielded>>
vars == <<file, row, pc, todo, seg, run, boot,
          hold, tier, age, volume, crashes, shielded>>

Idle == [at |-> "idle", job |-> "tick", mode |-> "age", pass |-> "all", iter |-> 0,
         skip |-> 0, page |-> 0, eligible |-> {}, deleted |-> 0,
         allHeld |-> FALSE]

RunType ==
    [at : {"idle", "list", "pressure", "policy", "batch", "metrics", "reconcile",
           "reconciling", "report", "auditing"},
     job : {"tick", "purge", "cleanup", "audit"},
     mode : {"age", "capacity"},
     pass : {"quarantined", "all"},
     iter : 0 .. MaxIterations - 1,
     skip : Nat,
     page : 0 .. BatchSize,
     eligible : SUBSET Segments,
     deleted : 0 .. BatchSize,
     allHeld : BOOLEAN]

TypeOK ==
    /\ Catalog!TypeOK
    /\ hold \subseteq Segments
    /\ tier \in [Segments -> Tiers]
    /\ age \in [Segments -> 0 .. MaxAge]
    /\ volume \in {"ok", "readonly", "unmounted"}
    /\ run \in [StorageWorkers -> RunType]
    /\ boot \in {"maintenance", "audit", "up"}
    /\ crashes \in 0 .. MaxCrashes
    /\ shielded \subseteq Segments

Init ==
    /\ Catalog!Init
    /\ hold = {}
    /\ tier = [s \in Segments |-> "CONTINUOUS"]
    /\ age = [s \in Segments |-> 0]
    /\ volume = "ok"
    /\ run = [w \in StorageWorkers |-> Idle]
    /\ boot = "maintenance"
    /\ crashes = 0
    /\ shielded = {}

-------------------------------------------------------------------------------
(* RetentionPolicy. *)

(* getDays: a longer-lived tier never has the shorter lifetime. *)
Lifetime(t) == CASE t = "INCIDENT" -> 3 [] t = "EVENT" -> 2 [] OTHER -> 1

(* deletable, the part that looks at the candidate as it was read.  An explicit
   number of days, which settings' purge always passes, replaces the lifetimes. *)
Due(w, s) ==
    CASE run[w].mode = "capacity" -> TRUE
      [] run[w].job = "purge"     -> age[s] >= Lifetime("CONTINUOUS")
      [] OTHER                    -> age[s] >= Lifetime(tier[s])

Eligible(w, candidates) == {s \in candidates : row[s] # "BUFFERED" /\ Due(w, s)}

(* Disk usage, in segments.  statfs climbs to the nearest directory it can read,
   so that of an unmounted volume is the usage of whatever is underneath. *)
Used == Cardinality({s \in Segments : file[s] = "present"})

UsageSeen == IF volume = "unmounted" THEN {0, Critical} ELSE {Used}

(* findOldestRecordings(limit, skip, statuses). *)
Oldest(rows, skip) ==
    LET Rank(s) == Cardinality({t \in rows : t < s})
    IN  {s \in rows : skip <= Rank(s) /\ Rank(s) < skip + BatchSize}

Candidates(w) ==
    Oldest(Catalog!Rows(IF run[w].pass = "quarantined" THEN {"QUARANTINED"}
                        ELSE Catalog!Statuses \ {"NONE"}),
           run[w].skip)

-------------------------------------------------------------------------------
(* deleteOldestSegments. *)

At(w, label) == run[w].at = label

(* The bodies of the passes loop; the result is a run record. *)
BeginPasses(r, mode) ==
    [r EXCEPT !.at = "list", !.mode = mode, !.allHeld = FALSE,
              !.pass = IF mode = "capacity" THEN "quarantined" ELSE "all",
              !.iter = 0, !.skip = 0, !.page = 0, !.deleted = 0, !.eligible = {}]

(* An age pass is followed by checkStorage, a capacity pass by its report. *)
EndPasses(r) ==
    [r EXCEPT !.at = IF r.mode = "age" THEN "metrics" ELSE "report",
              !.iter = 0, !.skip = 0, !.page = 0, !.deleted = 0, !.eligible = {}]

EndPass(r, allHeld) ==
    IF r.pass = "quarantined"
    THEN [r EXCEPT !.at = "list", !.pass = "all", !.allHeld = FALSE,
                   !.iter = 0, !.skip = 0, !.page = 0, !.deleted = 0, !.eligible = {}]
    ELSE EndPasses([r EXCEPT !.allHeld = allHeld])

NextIteration(r) ==
    IF r.iter + 1 = MaxIterations THEN EndPass(r, r.allHeld)
    ELSE [r EXCEPT !.at = "list", !.iter = @ + 1,
                   !.page = 0, !.deleted = 0, !.eligible = {}]

SetRun(w, r) == run' = [run EXCEPT ![w] = r]

ListCandidates(w) ==
    LET found == Candidates(w)
        r == run[w]
    IN  /\ At(w, "list")
        /\ SetRun(w, IF found = {} THEN EndPass(r, r.pass = "all" /\ r.skip > 0)
                     ELSE [r EXCEPT !.at = IF r.mode = "capacity" THEN "pressure" ELSE "policy",
                                    !.page = Cardinality(found),
                                    !.eligible = Eligible(w, found)])
        /\ UNCHANGED <<catalogVars, envVars, boot>>

(* Mutant: rollover stops at the critical threshold. *)
CheckCritical(w) ==
    /\ At(w, "pressure")
    /\ \E used \in UsageSeen :
         SetRun(w, IF used > Critical THEN [run[w] EXCEPT !.at = "policy"]
                   ELSE EndPasses([run[w] EXCEPT !.allHeld = FALSE]))
    /\ UNCHANGED <<catalogVars, envVars, boot>>

(* shouldContinue: enough has been freed, and no more is said of what remains. *)
CheckPressure(w) ==
    /\ At(w, "pressure")
    /\ \E used \in UsageSeen :
         SetRun(w, IF used > Target THEN [run[w] EXCEPT !.at = "policy"]
                   ELSE EndPasses([run[w] EXCEPT !.allHeld = FALSE]))
    /\ UNCHANGED <<catalogVars, envVars, boot>>

(* Mutant: under disk pressure holds give way. *)
ReadHoldsForAge(w) ==
    LET deletable == run[w].eligible \ (IF run[w].mode = "capacity" THEN {} ELSE hold)
    IN  /\ At(w, "policy")
        /\ SetRun(w, [run[w] EXCEPT !.at = "batch",
                                    !.skip = @ + run[w].page - Cardinality(deletable),
                                    !.eligible = {}])
        /\ \/ deletable # {} /\ Catalog!StartDelete(w, deletable)
           \/ deletable = {} /\ UNCHANGED catalogVars
        /\ UNCHANGED <<envVars, boot>>

(* The holds are read once for the whole page. *)
ReadHolds(w) ==
    LET deletable == run[w].eligible \ hold
    IN  /\ At(w, "policy")
        /\ SetRun(w, [run[w] EXCEPT !.at = "batch",
                                    !.skip = @ + run[w].page - Cardinality(deletable),
                                    !.eligible = {}])
        /\ \/ deletable # {} /\ Catalog!StartDelete(w, deletable)
           \/ deletable = {} /\ UNCHANGED catalogVars
        /\ UNCHANGED <<envVars, boot>>

Deleted(w) == SetRun(w, [run[w] EXCEPT !.deleted = @ + 1])
Skipped(w) == SetRun(w, [run[w] EXCEPT !.skip = @ + 1])

(* What the volume lets unlink and access answer. *)
UnlinkAnswers(w) ==
    \/ volume = "ok" /\ Catalog!UnlinkFile(w, "unlink", "removeRow")
    \/ volume # "unmounted" /\ Catalog!UnlinkFails(w)
    \/ /\ Catalog!UnlinkFindsNothing(w)
       /\ file[seg[w]] # "present" \/ volume = "unmounted"

(* deleteSegmentInternal on the batch, oldest segment first. *)
Deleting(w) ==
    \/ \E s \in todo[w] : (\A t \in todo[w] : s <= t) /\ Catalog!Mark(w, s)
    \/ UnlinkAnswers(w)
    \/ Catalog!RowRemovalFailed(w, "removeRow", "garbage")

DeletionSucceeds(w) ==
    \/ Catalog!RemoveRow(w, "removeRow", "mark")
    \/ Catalog!RemoveRow(w, "removeStaleRow", "mark")

DeletionFails(w) ==
    \/ Catalog!StaleRowRemovalThrows(w)
    \/ Catalog!MarkGarbage(w, "garbage", "mark")

DeleteBatch(w) ==
    /\ At(w, "batch")
    /\ \/ Deleting(w) /\ UNCHANGED run
       \/ DeletionSucceeds(w) /\ Deleted(w)
       \/ DeletionFails(w) /\ Skipped(w)
    /\ UNCHANGED <<envVars, boot>>

(* A short page of which nothing could be deleted ends the pass. *)
EndBatch(w) ==
    LET r == run[w]
    IN  /\ At(w, "batch")
        /\ pc[w] = "idle"
        /\ SetRun(w, IF r.deleted = 0 /\ r.page < BatchSize
                     THEN EndPass(r, r.pass = "all")
                     ELSE NextIteration(r))
        /\ UNCHANGED <<catalogVars, envVars, boot>>

-------------------------------------------------------------------------------
(* The jobs: tickStorage, the HTTP cleanup and purge, and the boot audit. *)

(* start() runs a storage tick, then the audit, then opens for business. *)
BootAfter(w) ==
    IF w # TickWorker \/ boot = "up" THEN boot
    ELSE IF boot = "maintenance" THEN "audit" ELSE "up"

Stop(w) ==
    /\ SetRun(w, Idle)
    /\ boot' = BootAfter(w)

Free(w) == At(w, "idle") /\ pc[w] = "idle"

(* purgeRetention does not ask for the volume's health. *)
StartTick ==
    /\ Free(TickWorker)
    /\ boot # "audit"
    /\ SetRun(TickWorker, BeginPasses(Idle, "age"))
    /\ UNCHANGED <<catalogVars, envVars, boot>>

StartPurge(w) ==
    /\ Free(w)
    /\ boot = "up"
    /\ SetRun(w, BeginPasses([Idle EXCEPT !.job = "purge"], "age"))
    /\ UNCHANGED <<catalogVars, envVars, boot>>

StartCleanup(w) ==
    /\ Free(w)
    /\ boot = "up"
    /\ SetRun(w, [Idle EXCEPT !.job = "cleanup", !.at = "metrics"])
    /\ UNCHANGED <<catalogVars, envVars, boot>>

(* checkStorage: nothing below the critical threshold, nor when the write canary
   has failed. *)
CheckStorage(w) ==
    /\ At(w, "metrics")
    /\ \E used \in UsageSeen :
         IF volume = "readonly" \/ used < Critical THEN Stop(w)
         ELSE SetRun(w, [run[w] EXCEPT !.at = "reconcile"]) /\ UNCHANGED boot
    /\ UNCHANGED <<catalogVars, envVars>>

(* Mutant: the storage pass and the audit leave interrupted deletions alone. *)
SkipReconciling(w) ==
    /\ At(w, "reconcile")
    /\ SetRun(w, [run[w] EXCEPT !.at = "reconciling"])
    /\ UNCHANGED <<catalogVars, envVars, boot>>

StartReconciling(w) ==
    /\ At(w, "reconcile")
    /\ \/ Catalog!StartReconcile(w)
       \/ Catalog!Rows({"DELETE_PENDING"}) = {} /\ UNCHANGED catalogVars
    /\ SetRun(w, [run[w] EXCEPT !.at = "reconciling"])
    /\ UNCHANGED <<envVars, boot>>

Rejects(s) == file[s] # "present" \/ volume = "unmounted" \/ "accessFails" \in Faults

Reconciling(w) ==
    \/ \E s \in todo[w] : \/ volume # "unmounted" /\ Catalog!AccessFinds(w, s)
                          \/ Rejects(s) /\ Catalog!AccessRejects(w, s)
    \/ volume = "ok" /\ Catalog!UnlinkFile(w, "reUnlink", "reRemoveRow")
    \/ Catalog!ReUnlinkFails(w)
    \/ Catalog!RemoveRow(w, "reRemoveRow", "access")
    \/ Catalog!RowRemovalFailed(w, "reRemoveRow", "reGarbage")
    \/ Catalog!RemoveRow(w, "reRemoveStaleRow", "access")
    \/ Catalog!MarkGarbage(w, "reGarbage", "access")

(* A rejection inside the reconciliation ends the whole job. *)
Reconcile(w) ==
    /\ At(w, "reconciling")
    /\ \/ Reconciling(w) /\ UNCHANGED <<run, boot>>
       \/ Catalog!ReconcileThrows(w) /\ Stop(w)
    /\ UNCHANGED envVars

EndReconciling(w) ==
    /\ At(w, "reconciling")
    /\ pc[w] = "idle"
    /\ run[w].job # "audit"
    /\ SetRun(w, BeginPasses(run[w], "capacity"))
    /\ UNCHANGED <<catalogVars, envVars, boot>>

(* The closing metrics, the exhaustion alarm and storage.rollover. *)
Report(w) ==
    /\ At(w, "report")
    /\ Stop(w)
    /\ UNCHANGED <<catalogVars, envVars>>

(* auditAfterCrash skips a volume it cannot write to. *)
StartBootAudit ==
    /\ boot = "audit"
    /\ Free(TickWorker)
    /\ IF volume = "readonly" THEN Stop(TickWorker)
       ELSE /\ SetRun(TickWorker, [Idle EXCEPT !.job = "audit", !.at = "reconcile"])
            /\ UNCHANGED boot
    /\ UNCHANGED <<catalogVars, envVars>>

ListAvailable(w) ==
    /\ At(w, "reconciling")
    /\ pc[w] = "idle"
    /\ run[w].job = "audit"
    /\ \/ Catalog!StartAudit(w)
       \/ Catalog!Rows({"AVAILABLE"}) = {} /\ UNCHANGED catalogVars
    /\ SetRun(w, [run[w] EXCEPT !.at = "auditing"])
    /\ UNCHANGED <<envVars, boot>>

Audit(w) ==
    /\ At(w, "auditing")
    /\ \/ \E s \in todo[w] : \/ volume # "unmounted" /\ Catalog!AuditFinds(w, s)
                             \/ Rejects(s) /\ Catalog!AuditMisses(w, s)
       \/ Catalog!MarkMissing(w)
    /\ UNCHANGED <<run, envVars, boot>>

EndAudit(w) ==
    /\ At(w, "auditing")
    /\ pc[w] = "idle"
    /\ Stop(w)
    /\ UNCHANGED <<catalogVars, envVars>>

StorageStep(w) ==
    \/ ListCandidates(w) \/ CheckPressure(w) \/ ReadHolds(w)
    \/ DeleteBatch(w) \/ EndBatch(w)
    \/ CheckStorage(w) \/ StartReconciling(w) \/ Reconcile(w) \/ EndReconciling(w)
    \/ Report(w)
    \/ ListAvailable(w) \/ Audit(w) \/ EndAudit(w)

-------------------------------------------------------------------------------
(* Expiry of the motion buffer: neither age, tier nor holds are asked for. *)

ExpireBuffered(expired) ==
    /\ boot = "up"
    /\ Catalog!StartDelete(IndexWorker, expired)
    /\ UNCHANGED <<run, envVars, boot>>

Expiring ==
    /\ Deleting(IndexWorker) \/ DeletionSucceeds(IndexWorker) \/ DeletionFails(IndexWorker)
    /\ UNCHANGED <<run, envVars, boot>>

-------------------------------------------------------------------------------
(* Everything else. *)

(* Mutant: a finished file is not catalogued. *)
RecordOnly(s, status) ==
    /\ boot = "up" /\ volume = "ok"
    /\ \A t \in Segments : t < s => file[t] # "unwritten"
    /\ file[s] = "unwritten"
    /\ file' = [file EXCEPT ![s] = "present"]
    /\ UNCHANGED <<row, pc, todo, seg, run, envVars, boot>>

(* MediaMTX finishes files in the order of their start times; the index tick,
   started after the boot audit, catalogues them. *)
Record(s, status) ==
    /\ boot = "up" /\ volume = "ok"
    /\ \A t \in Segments : t < s => file[t] # "unwritten"
    /\ Catalog!Ingest(s, status)
    /\ UNCHANGED <<run, envVars, boot>>

(* The engine subscribes to motion before it starts. *)
KeepBuffered(near) ==
    /\ Catalog!StartKeep(MotionWorker, near)
    /\ UNCHANGED <<run, envVars, boot>>

Keeping ==
    /\ Catalog!KeepStep(MotionWorker)
    /\ UNCHANGED <<run, envVars, boot>>

(* A deleting worker has picked s. *)
Reached(s) == \E w \in Deleters : s \in todo[w] \/ seg[w] = s

PlaceHold(s) ==
    /\ s \in Holdable \ hold
    /\ file[s] # "unwritten"
    /\ hold' = hold \cup {s}
    /\ shielded' = IF row[s] \in {"AVAILABLE", "QUARANTINED"} /\ ~Reached(s)
                   THEN shielded \cup {s} ELSE shielded
    /\ UNCHANGED <<catalogVars, run, boot, tier, age, volume, crashes>>

ReleaseHold(s) ==
    /\ s \in hold
    /\ hold' = hold \ {s}
    /\ shielded' = shielded \ {s}
    /\ UNCHANGED <<catalogVars, run, boot, tier, age, volume, crashes>>

(* A motion handler or createIncident, which read the row some time before. *)
Promote(s, t) ==
    /\ s \in Promotable
    /\ row[s] # "NONE" /\ tier[s] # t
    /\ tier' = [tier EXCEPT ![s] = t]
    /\ UNCHANGED <<catalogVars, run, boot, hold, age, volume, crashes, shielded>>

GrowOld(s) ==
    /\ file[s] # "unwritten"
    /\ age[s] < MaxAge
    /\ \A t \in Segments : t < s => age[t] > age[s]
    /\ age' = [age EXCEPT ![s] = @ + 1]
    /\ UNCHANGED <<catalogVars, run, boot, hold, tier, volume, crashes, shielded>>

ChangeVolume(v) ==
    /\ v \in Volumes \ {volume}
    /\ volume' = v
    /\ UNCHANGED <<catalogVars, run, boot, hold, tier, age, crashes, shielded>>

Restart ==
    /\ crashes < MaxCrashes
    /\ crashes' = crashes + 1
    /\ \/ Catalog!Crash
       \/ (\A w \in Workers : pc[w] = "idle") /\ UNCHANGED catalogVars
    /\ run' = [w \in StorageWorkers |-> Idle]
    /\ boot' = "maintenance"
    /\ UNCHANGED <<hold, tier, age, volume, shielded>>

Next ==
    \/ StartTick \/ StartBootAudit
    \/ \E w \in ApiWorkers : StartPurge(w) \/ StartCleanup(w)
    \/ \E w \in StorageWorkers : StorageStep(w)
    \/ \E chosen \in SUBSET Catalog!Rows({"BUFFERED"}) :
        ExpireBuffered(chosen) \/ KeepBuffered(chosen)
    \/ Expiring \/ Keeping
    \/ \E s \in Segments :
        \/ \E status \in Fates : Record(s, status)
        \/ PlaceHold(s) \/ ReleaseHold(s) \/ GrowOld(s)
        \/ \E t \in {"EVENT", "INCIDENT"} : Promote(s, t)
    \/ \E v \in Volumes : ChangeVolume(v)
    \/ Restart

(* setInterval keeps starting the ticks, and an awaited call settles. *)
Fairness ==
    /\ WF_vars(StartTick) /\ WF_vars(StartBootAudit)
    /\ \A w \in StorageWorkers : WF_vars(StorageStep(w))
    /\ WF_vars(Expiring) /\ WF_vars(Keeping)

Spec == Init /\ [][Next]_vars
FairSpec == Spec /\ Fairness

-------------------------------------------------------------------------------
(* Properties. *)

(* Every step of the storage controller, the motion buffer and the boot audit
   uses the catalog's deletion primitive the way RecordingCatalog allows. *)
ImplementsCatalog == Catalog!Spec

(* CONTEXT.md:46, as far as the code goes: a Hold placed on offered footage before
   any worker has chosen it for deletion keeps file and row, through all later
   passes, purges, cleanups and restarts, until it is released. *)
HoldKeepsFootage ==
    \A s \in shielded : row[s] \in {"AVAILABLE", "QUARANTINED"} /\ file[s] = "present"

(* recording-engine.ts:277: once the boot audit is over, an interrupted deletion
   is either finished or in the hands of a worker. *)
NoPendingLeftBehind ==
    boot = "up" => \A s \in Segments : row[s] = "DELETE_PENDING" => Reached(s)

(* The same for the whole run of the system: a deletion once begun is finished or
   recorded as garbage, whatever crash interrupts it. *)
PendingIsResolved ==
    \A s \in Segments : row[s] = "DELETE_PENDING" ~> row[s] # "DELETE_PENDING"

Unreclaimable(s) == s \in hold \/ row[s] = "BUFFERED"

(* CONTEXT.md:53: at the critical threshold the disk is brought back below it,
   unless all that is left is held or buffered. *)
Relieved ==
    \/ Used < Critical
    \/ \A s \in Segments : file[s] = "present" => Unreclaimable(s)

PressureIsRelieved == Used >= Critical ~> Relieved

-------------------------------------------------------------------------------
(* The inductive invariants behind ImplementsCatalog and HoldKeepsFootage. *)

(* What a pass has chosen was written, and only what was written has a row. *)
ChoiceInv ==
    /\ \A s \in Segments : file[s] = "unwritten" => row[s] = "NONE"
    /\ \A w \in StorageWorkers : run[w].eligible \subseteq Catalog!Written

(* Shielded footage is still held, which the choice of each page asks for, and no
   worker has it on its list, except an audit that will find its file. *)
ShieldInv ==
    /\ shielded \subseteq hold
    /\ HoldKeepsFootage
    /\ \A s \in shielded, w \in Deleters :
         seg[w] # s /\ (s \in todo[w] => pc[w] \in {"check", "missing"})

-------------------------------------------------------------------------------
(* What the documents say and the code does not do. *)

(* CONTEXT.md:46: a Hold is "a reason footage must stay whatever its age or the
   disk pressure": no deletion begins on held footage. *)
HeldIsNeverDeleted ==
    [][\A s \in hold : row[s] = "AVAILABLE" => row'[s] # "DELETE_PENDING"]_vars

(* CONTEXT.md:40: whether a segment may be deleted by age depends on "its Retention
   Tier's lifetime", in every pass by age. *)
TierLifetimeDecides ==
    [][\A w \in StorageWorkers : \A s \in run'[w].eligible \ run[w].eligible :
         run[w].mode = "age" => age[s] >= Lifetime(tier[s])]_vars

(* CONTEXT.md:53: rollover prunes "until usage drops to the target threshold": it
   reports with the usage at the target, or nothing reclaimable left. *)
RolloverReachesTarget ==
    \A w \in StorageWorkers :
        At(w, "report") => \/ Used <= Target
                           \/ \A s \in Segments : file[s] = "present" => Unreclaimable(s)

(* CONTEXT.md:53 "the oldest Video Segments": a batch leaves no older footage that
   is offered, not held and not refused earlier in the pass. *)
OldestFirst ==
    [][\A w \in StorageWorkers :
         At(w, "policy") /\ run'[w].at = "batch" /\ run[w].mode = "capacity"
             /\ run[w].pass = "all" =>
           \A s \in todo'[w], t \in Segments :
               t < s /\ row[t] = "AVAILABLE" /\ t \notin hold =>
                   t \in todo'[w]]_vars

(* ARCHITECTURE.md:189: the INCIDENT tier locks footage "against continuous FIFO
   deletion": rollover picks none of it. *)
IncidentFootageLocked ==
    [][\A w \in StorageWorkers :
         At(w, "policy") /\ run'[w].at = "batch" /\ run[w].mode = "capacity" =>
           \A s \in todo'[w] : tier[s] # "INCIDENT"]_vars

(* storage-controller.ts:380 and :473: when the pass says so, "all remaining
   footage is protected": every segment still on disk is held or buffered. *)
ExhaustionMeansHeld ==
    \A w \in StorageWorkers :
        At(w, "report") /\ run[w].allHeld =>
            \A s \in Segments : file[s] = "present" => Unreclaimable(s)

(* ARCHITECTURE.md:215: on read-only storage "deletions and state mutations halt". *)
ReadOnlyHaltsDeletion ==
    [][volume = "readonly" =>
         \A s \in Segments : row[s] \in Catalog!Listed => row'[s] \in Catalog!Listed]_vars

(* ARCHITECTURE.md:238, "disk disappears / mount missing (halts deletions, prevents
   catalog wipe)": no row is removed while the volume is not mounted. *)
UnmountedKeepsCatalog ==
    [][volume = "unmounted" =>
         \A s \in Segments : row[s] # "NONE" => row'[s] # "NONE"]_vars

(* recording-engine.ts:279: "a volume that is late to mount must not make every
   recording look missing". *)
LateMountIsNotMissing ==
    [][volume = "unmounted" =>
         \A s \in Segments : row[s] = "AVAILABLE" => row'[s] # "MISSING"]_vars
===============================================================================
