--------------------------- MODULE RecordingCatalog ---------------------------
(***************************************************************************)
(* The catalog's two-phase deletion, its crash reconciliation and the      *)
(* audit of missing files (recordings/recording-catalog.ts,                *)
(* repositories/recording.repository.ts, storage-invariants.service.ts).   *)
(*                                                                         *)
(* Every database and file system call is awaited, so a worker may be      *)
(* overtaken between any two of them by another worker, by ingest, or by   *)
(* the end of the process.  A worker is one invocation that walks a list   *)
(* of rows it read at the start: the storage tick, a cleanup or purge      *)
(* requested over HTTP, the expiry of the motion buffer, the boot audit.   *)
(*                                                                         *)
(* Which rows a worker picks is left open here: the catalog must be safe   *)
(* for every choice.  StorageController adds the choice.                   *)
(***************************************************************************)
EXTENDS Naturals, FiniteSets

CONSTANTS
    Segments,   \* the video segments MediaMTX will write
    Workers,    \* concurrent invocations of delete, reconcile, audit or onMotion
    NoSegment,  \* the value of seg[w] when w works on no segment
    Faults      \* the failures the environment may inject

(* updateLost: updateRecordingStatus catches the database error and returns null.
   deleteFails: deleteRecording rejects although the row exists.
   unlinkFails: unlink fails with anything but ENOENT (EPERM, EROFS, EBUSY).
   accessFails: access rejects although the file exists (EACCES, EIO).
   volumeGone: the volume is not mounted, so both answer ENOENT for every file.
   lateKeep: a motion handler outlasts lateMotionGrace (see SegmentIngest), so what
   it keeps may be deleted at the same time. *)
FaultKinds == {"updateLost", "deleteFails", "unlinkFails", "accessFails", "volumeGone",
               "lateKeep"}

ASSUME CatalogAssumption ==
    /\ Faults \subseteq FaultKinds
    /\ NoSegment \notin Segments

VARIABLES
    file,   \* the file of each segment on the recordings volume
    row,    \* the status of its catalog row, "NONE" when there is no row
    pc,     \* what each worker does next
    todo,   \* the rows it has still to visit, as it read them at the start
    seg     \* the segment it is working on

catalogVars == <<file, row, pc, todo, seg>>

FileStates == {"unwritten", "present", "removed"}

Listed == {"AVAILABLE", "BUFFERED", "QUARANTINED"}
Doomed == {"DELETE_PENDING", "GARBAGE", "MISSING"}
Statuses == {"NONE"} \cup Listed \cup Doomed

Labels == {"idle",
           "mark", "unlink", "removeRow", "removeStaleRow", "garbage",
           "access", "reUnlink", "reRemoveRow", "reRemoveStaleRow", "reGarbage",
           "check", "missing", "keep"}

TypeOK ==
    /\ file \in [Segments -> FileStates]
    /\ row \in [Segments -> Statuses]
    /\ pc \in [Workers -> Labels]
    /\ todo \in [Workers -> SUBSET Segments]
    /\ seg \in [Workers -> Segments \cup {NoSegment}]

Init ==
    /\ file = [s \in Segments |-> "unwritten"]
    /\ row = [s \in Segments |-> "NONE"]
    /\ pc = [w \in Workers |-> "idle"]
    /\ todo = [w \in Workers |-> {}]
    /\ seg = [w \in Workers |-> NoSegment]

Rows(statuses) == {s \in Segments : row[s] \in statuses}

-------------------------------------------------------------------------------
(* The repository's writes, as functions from rows to rows. *)

(* updateRecordingStatus: no row, or a swallowed error, leaves the table alone. *)
StatusUpdates(s, status) ==
    {[row EXCEPT ![s] = IF @ = "NONE" THEN @ ELSE status]}
        \cup (IF "updateLost" \in Faults THEN {row} ELSE {})

CanRemoveRow(s) == row[s] # "NONE"
RowRemovalFails(s) == row[s] = "NONE" \/ "deleteFails" \in Faults
RowRemoved(s) == [row EXCEPT ![s] = "NONE"]

AccessMayReject(s) ==
    file[s] # "present" \/ Faults \cap {"accessFails", "volumeGone"} # {}

(* Control moves of a worker. *)
Goto(w, label) == pc' = [pc EXCEPT ![w] = label]

(* The for loop takes the next listed row, or the pass ends. *)
Continue(w, loop) ==
    /\ Goto(w, IF todo[w] = {} THEN "idle" ELSE loop)
    /\ seg' = [seg EXCEPT ![w] = NoSegment]

Take(w, s) ==
    /\ s \in todo[w]
    /\ todo' = [todo EXCEPT ![w] = @ \ {s}]
    /\ seg' = [seg EXCEPT ![w] = s]

-------------------------------------------------------------------------------
(* The rest of the recording engine. *)

(* Segment ingest gives a finished file its row (see SegmentIngest). *)
Ingest(s, status) ==
    /\ file[s] = "unwritten"
    /\ file' = [file EXCEPT ![s] = "present"]
    /\ row' = [row EXCEPT ![s] = status]
    /\ UNCHANGED <<pc, todo, seg>>

(* onMotion reads the buffered segments near the motion, then keeps them one by one,
   whatever has become of them since. *)
StartKeep(w, chosen) ==
    /\ pc[w] = "idle"
    /\ chosen # {}
    /\ todo' = [todo EXCEPT ![w] = chosen]
    /\ Goto(w, "keep")
    /\ UNCHANGED <<file, row, seg>>

Keep(w, s) ==
    /\ pc[w] = "keep"
    /\ s \in todo[w]
    /\ todo' = [todo EXCEPT ![w] = @ \ {s}]
    /\ row' \in StatusUpdates(s, "AVAILABLE")
    /\ Goto(w, IF todo'[w] = {} THEN "idle" ELSE "keep")
    /\ UNCHANGED <<file, seg>>

BeingKept(s) == \E w \in Workers : pc[w] = "keep" /\ s \in todo[w]

-------------------------------------------------------------------------------
(* deleteSegmentInternal, once for every row of a list read beforehand: some of
   the rows may be gone by now. *)

Written == {s \in Segments : file[s] # "unwritten"}

StartDelete(w, chosen) ==
    /\ pc[w] = "idle"
    /\ chosen # {}
    /\ todo' = [todo EXCEPT ![w] = chosen]
    /\ Goto(w, "mark")
    /\ UNCHANGED <<file, row, seg>>

(* Mutants: the file goes first; expiry does not wait for the motion handlers. *)
SkipMark(w, s) ==
    /\ pc[w] = "mark"
    /\ Take(w, s)
    /\ Goto(w, "unlink")
    /\ UNCHANGED <<file, row>>

MarkWithoutGrace(w, s) ==
    /\ pc[w] = "mark"
    /\ Take(w, s)
    /\ row' \in StatusUpdates(s, "DELETE_PENDING")
    /\ Goto(w, "unlink")
    /\ UNCHANGED file

(* Phase 1.  The result of the update is not looked at.  Expiry waits for the grace
   of the motion handlers, and rollover takes the newest footage last. *)
Mark(w, s) ==
    /\ pc[w] = "mark"
    /\ BeingKept(s) => "lateKeep" \in Faults
    /\ Take(w, s)
    /\ row' \in StatusUpdates(s, "DELETE_PENDING")
    /\ Goto(w, "unlink")
    /\ UNCHANGED file

(* Phase 2. *)
UnlinkFile(w, from, to) ==
    /\ pc[w] = from
    /\ file[seg[w]] = "present"
    /\ file' = [file EXCEPT ![seg[w]] = "removed"]
    /\ Goto(w, to)
    /\ UNCHANGED <<row, todo, seg>>

UnlinkFindsNothing(w) ==
    /\ pc[w] = "unlink"
    /\ file[seg[w]] # "present" \/ "volumeGone" \in Faults
    /\ Goto(w, "removeStaleRow")
    /\ UNCHANGED <<file, row, todo, seg>>

(* Mutant: the error of unlink is swallowed and the row removed. *)
IgnoreUnlinkError(w) ==
    /\ pc[w] = "unlink"
    /\ "unlinkFails" \in Faults
    /\ file[seg[w]] = "present"
    /\ Goto(w, "removeRow")
    /\ UNCHANGED <<file, row, todo, seg>>

UnlinkFails(w) ==
    /\ pc[w] = "unlink"
    /\ "unlinkFails" \in Faults
    /\ file[seg[w]] = "present"
    /\ Goto(w, "garbage")
    /\ UNCHANGED <<file, row, todo, seg>>

(* Phase 3, or the removal of a row whose file was already gone. *)
RemoveRow(w, from, loop) ==
    /\ pc[w] = from
    /\ CanRemoveRow(seg[w])
    /\ row' = RowRemoved(seg[w])
    /\ Continue(w, loop)
    /\ UNCHANGED <<file, todo>>

RowRemovalFailed(w, from, to) ==
    /\ pc[w] = from
    /\ RowRemovalFails(seg[w])
    /\ Goto(w, to)
    /\ UNCHANGED <<file, row, todo, seg>>

(* A stale row that cannot be removed: the error reaches the caller's catch,
   which goes on with its next segment. *)
StaleRowRemovalThrows(w) ==
    /\ pc[w] = "removeStaleRow"
    /\ RowRemovalFails(seg[w])
    /\ Continue(w, "mark")
    /\ UNCHANGED <<file, row, todo>>

(* Mutant: a failed unlink puts the segment back on offer. *)
RollBack(w, from, loop) ==
    /\ pc[w] = from
    /\ row' \in StatusUpdates(seg[w], "AVAILABLE")
    /\ Continue(w, loop)
    /\ UNCHANGED <<file, todo>>

MarkGarbage(w, from, loop) ==
    /\ pc[w] = from
    /\ row' \in StatusUpdates(seg[w], "GARBAGE")
    /\ Continue(w, loop)
    /\ UNCHANGED <<file, todo>>

DeleteStep(w) ==
    \/ \E s \in Segments : Mark(w, s)
    \/ UnlinkFile(w, "unlink", "removeRow")
    \/ UnlinkFindsNothing(w)
    \/ UnlinkFails(w)
    \/ RemoveRow(w, "removeRow", "mark")
    \/ RowRemovalFailed(w, "removeRow", "garbage")
    \/ RemoveRow(w, "removeStaleRow", "mark")
    \/ StaleRowRemovalThrows(w)
    \/ MarkGarbage(w, "garbage", "mark")

-------------------------------------------------------------------------------
(* reconcilePendingDeletions. *)

StartReconcile(w) ==
    /\ pc[w] = "idle"
    /\ Rows({"DELETE_PENDING"}) # {}
    /\ todo' = [todo EXCEPT ![w] = Rows({"DELETE_PENDING"})]
    /\ Goto(w, "access")
    /\ UNCHANGED <<file, row, seg>>

AccessFinds(w, s) ==
    /\ pc[w] = "access"
    /\ Take(w, s)
    /\ file[s] = "present"
    /\ Goto(w, "reUnlink")
    /\ UNCHANGED <<file, row>>

(* The catch takes every rejection for "File does not exist on disk". *)
AccessRejects(w, s) ==
    /\ pc[w] = "access"
    /\ Take(w, s)
    /\ AccessMayReject(s)
    /\ Goto(w, "reRemoveStaleRow")
    /\ UNCHANGED <<file, row>>

(* Any unlink error, a file removed since the check included, is garbage. *)
ReUnlinkFails(w) ==
    /\ pc[w] = "reUnlink"
    /\ file[seg[w]] # "present" \/ Faults \cap {"unlinkFails", "volumeGone"} # {}
    /\ Goto(w, "reGarbage")
    /\ UNCHANGED <<file, row, todo, seg>>

(* The rejection leaves reconcilePendingDeletions: the rows not yet visited stay. *)
ReconcileThrows(w) ==
    /\ pc[w] = "reRemoveStaleRow"
    /\ RowRemovalFails(seg[w])
    /\ todo' = [todo EXCEPT ![w] = {}]
    /\ seg' = [seg EXCEPT ![w] = NoSegment]
    /\ Goto(w, "idle")
    /\ UNCHANGED <<file, row>>

ReconcileStep(w) ==
    \/ \E s \in Segments : AccessFinds(w, s) \/ AccessRejects(w, s)
    \/ UnlinkFile(w, "reUnlink", "reRemoveRow")
    \/ ReUnlinkFails(w)
    \/ RemoveRow(w, "reRemoveRow", "access")
    \/ RowRemovalFailed(w, "reRemoveRow", "reGarbage")
    \/ RemoveRow(w, "reRemoveStaleRow", "access")
    \/ ReconcileThrows(w)
    \/ MarkGarbage(w, "reGarbage", "access")

-------------------------------------------------------------------------------
(* auditAndReconcile, after its reconciliation: files of AVAILABLE rows. *)

StartAudit(w) ==
    /\ pc[w] = "idle"
    /\ Rows({"AVAILABLE"}) # {}
    /\ todo' = [todo EXCEPT ![w] = Rows({"AVAILABLE"})]
    /\ Goto(w, "check")
    /\ UNCHANGED <<file, row, seg>>

AuditFinds(w, s) ==
    /\ pc[w] = "check"
    /\ s \in todo[w]
    /\ file[s] = "present"
    /\ todo' = [todo EXCEPT ![w] = @ \ {s}]
    /\ Goto(w, IF todo'[w] = {} THEN "idle" ELSE "check")
    /\ UNCHANGED <<file, row, seg>>

AuditMisses(w, s) ==
    /\ pc[w] = "check"
    /\ Take(w, s)
    /\ AccessMayReject(s)
    /\ Goto(w, "missing")
    /\ UNCHANGED <<file, row>>

MarkMissing(w) ==
    /\ pc[w] = "missing"
    /\ row' \in StatusUpdates(seg[w], "MISSING")
    /\ Continue(w, "check")
    /\ UNCHANGED <<file, todo>>

AuditStep(w) ==
    \/ \E s \in Segments : AuditFinds(w, s) \/ AuditMisses(w, s)
    \/ MarkMissing(w)

-------------------------------------------------------------------------------
(* The process ends: what the workers held in memory is gone. *)
Crash ==
    /\ \E w \in Workers : pc[w] # "idle"
    /\ pc' = [w \in Workers |-> "idle"]
    /\ todo' = [w \in Workers |-> {}]
    /\ seg' = [w \in Workers |-> NoSegment]
    /\ UNCHANGED <<file, row>>

KeepStep(w) == \E s \in Segments : Keep(w, s)

WorkerStep(w) == DeleteStep(w) \/ ReconcileStep(w) \/ AuditStep(w) \/ KeepStep(w)

Next ==
    \/ \E s \in Segments : \E status \in Listed : Ingest(s, status)
    \/ \E w \in Workers :
        \/ \E chosen \in SUBSET Written : StartDelete(w, chosen)
        \/ \E chosen \in SUBSET Rows({"BUFFERED"}) : StartKeep(w, chosen)
        \/ StartReconcile(w)
        \/ StartAudit(w)
        \/ WorkerStep(w)
    \/ Crash

Spec == Init /\ [][Next]_catalogVars

-------------------------------------------------------------------------------
(* Properties. *)

(* ARCHITECTURE.md, invariant 4: a file is removed from disk only while its row
   no longer offers the segment.  Every caller of deleteSegmentInternal and the
   reconciliation must have marked the row, however their steps interleave. *)
UnlinkOnlyDoomed ==
    [][\A s \in Segments :
         file[s] = "present" /\ file'[s] = "removed" => row[s] \notin Listed]_catalogVars

(* ARCHITECTURE.md, invariant 2, after any crash and with any number of workers:
   a row that offers a segment has its file on disk. *)
ListedHasFile == \A s \in Segments : row[s] \in Listed => file[s] = "present"

(* A file on disk has a row, so rollover can still reclaim it and no deletion,
   finished or interrupted, leaves footage nobody knows of (segment-ingest.ts:52). *)
FileHasRow == \A s \in Segments : file[s] = "present" => row[s] # "NONE"

(* Why the above holds: what each worker may rely on at each of its awaits, however
   many other workers run.  Marked segments are never offered again, so the worker
   that is about to unlink need not look at the row. *)
Deleting == {"unlink", "removeRow", "removeStaleRow", "garbage"}
Reconciling == {"reUnlink", "reRemoveRow", "reRemoveStaleRow", "reGarbage"}
FileSeenGone == {"removeRow", "removeStaleRow", "reRemoveRow", "reRemoveStaleRow", "missing"}

WorkerInv(w) ==
    /\ todo[w] \subseteq Written
    /\ pc[w] \in Deleting \cup Reconciling \cup {"missing"} => seg[w] \in Written
    /\ pc[w] \in Deleting \cup Reconciling => row[seg[w]] \notin Listed
    /\ pc[w] \in Reconciling \cup {"access"} => \A s \in todo[w] : row[s] \notin Listed
    /\ pc[w] \in FileSeenGone => file[seg[w]] = "removed"
    /\ pc[w] = "keep" => \A s \in todo[w] : row[s] \in Listed

CatalogInv ==
    /\ TypeOK
    /\ \A s \in Segments : file[s] = "unwritten" => row[s] = "NONE"
    /\ ListedHasFile
    /\ FileHasRow
    /\ \A w \in Workers : WorkerInv(w)

(* The stage of SegmentLifecycle a segment is in. *)
StageOf(s) ==
    CASE file[s] = "unwritten" -> "unwritten"
      [] file[s] # "unwritten" /\ row[s] \in Listed -> "listed"
      [] file[s] = "present" /\ row[s] \notin Listed -> "doomed"
      [] file[s] = "removed" /\ row[s] \in Doomed -> "erased"
      [] OTHER -> "forgotten"

Lifecycle == INSTANCE SegmentLifecycle WITH stage <- [s \in Segments |-> StageOf(s)]

(* The deletion protocol of recording-catalog.ts implements the lifecycle that
   ARCHITECTURE.md draws: no stage is skipped, none is left backwards. *)
ImplementsLifecycle == Lifecycle!Spec
===============================================================================
