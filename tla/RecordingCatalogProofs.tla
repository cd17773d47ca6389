------------------------- MODULE RecordingCatalogProofs -------------------------
(***************************************************************************)
(* Proofs about RecordingCatalog, for any number of segments and workers.  *)
(***************************************************************************)
EXTENDS RecordingCatalog, TLAPS

(* The failures the deletion protocol is made for: the database may reject a
   removal and the disk an unlink, but an update is never lost without an error,
   access rejects only what does not exist, and motion handlers are in time. *)
HonestFaults == Faults \cap {"updateLost", "accessFails", "volumeGone", "lateKeep"} = {}

-------------------------------------------------------------------------------
(* Type correctness, whatever fails. *)

LEMMA InitTyped == Init => TypeOK
BY DEF Init, TypeOK, FileStates, Statuses, Labels, Listed, Doomed

(* What a worker's own step leaves typed. *)
LEMMA WorkerStepTyped ==
    ASSUME TypeOK, NEW w \in Workers, WorkerStep(w)
    PROVE  TypeOK'
<1> USE DEF TypeOK, FileStates, Statuses, Labels, Listed, Doomed, Goto, Continue, Take,
            StatusUpdates, RowRemoved
<1>1. CASE DeleteStep(w)
  BY <1>1 DEF DeleteStep, Mark, UnlinkFile, UnlinkFindsNothing, UnlinkFails, RemoveRow,
              RowRemovalFailed, StaleRowRemovalThrows, MarkGarbage
<1>2. CASE ReconcileStep(w)
  BY <1>2 DEF ReconcileStep, AccessFinds, AccessRejects, UnlinkFile, ReUnlinkFails,
              RemoveRow, RowRemovalFailed, ReconcileThrows, MarkGarbage
<1>3. CASE AuditStep(w)
  BY <1>3 DEF AuditStep, AuditFinds, AuditMisses, MarkMissing
<1>4. CASE KeepStep(w)
  BY <1>4 DEF KeepStep, Keep
<1> QED BY <1>1, <1>2, <1>3, <1>4 DEF WorkerStep

(* Every step leaves it so. *)
LEMMA StepTyped ==
    ASSUME TypeOK, [Next]_catalogVars
    PROVE  TypeOK'
<1> USE DEF TypeOK, FileStates, Statuses, Labels, Listed, Doomed, Goto
<1>1. ASSUME NEW s \in Segments, NEW status \in Listed, Ingest(s, status) PROVE TypeOK'
  BY <1>1 DEF Ingest
<1>2. ASSUME NEW w \in Workers, NEW chosen \in SUBSET Rows({"BUFFERED"}), StartKeep(w, chosen)
      PROVE  TypeOK'
  BY <1>2 DEF StartKeep, Rows
<1>3. ASSUME NEW w \in Workers, NEW chosen \in SUBSET Written, StartDelete(w, chosen)
      PROVE  TypeOK'
  BY <1>3 DEF StartDelete, Written
<1>4. ASSUME NEW w \in Workers, StartReconcile(w) PROVE TypeOK'
  BY <1>4 DEF StartReconcile, Rows
<1>5. ASSUME NEW w \in Workers, StartAudit(w) PROVE TypeOK'
  BY <1>5 DEF StartAudit, Rows
<1>6. ASSUME NEW w \in Workers, WorkerStep(w) PROVE TypeOK'
  BY <1>6, WorkerStepTyped
<1>7. CASE Crash
  BY <1>7 DEF Crash
<1>8. CASE UNCHANGED catalogVars
  BY <1>8 DEF catalogVars
<1> QED BY <1>1, <1>2, <1>3, <1>4, <1>5, <1>6, <1>7, <1>8 DEF Next

(* Every value of the model's state is one of the code's statuses and program
   points, also when updates are lost and the volume is gone. *)
THEOREM TypeCorrect == Spec => []TypeOK
<1>1. TypeOK /\ [Next]_catalogVars => TypeOK'
  BY StepTyped
<1> QED BY InitTyped, <1>1, PTL DEF Spec

-------------------------------------------------------------------------------
(* The inductive invariant. *)

RowsMatchFiles ==
    /\ \A s \in Segments : file[s] = "unwritten" => row[s] = "NONE"
    /\ ListedHasFile
    /\ FileHasRow

(* What no step undoes: a segment once written stays so, one no longer offered is
   never offered again, a removed file does not come back, and what a motion handler
   is about to keep stays offered.  A worker may therefore go on using what it learnt
   before its last await. *)
NothingReturns ==
    \A s \in Segments :
        /\ file[s] # "unwritten" => file'[s] # "unwritten"
        /\ file[s] # "unwritten" /\ row[s] \notin Listed => row'[s] \notin Listed
        /\ file[s] = "removed" => file'[s] = "removed"
        /\ BeingKept(s) /\ row[s] \in Listed => row'[s] \in Listed

LEMMA OthersKeepInv ==
    ASSUME TypeOK, NothingReturns, NEW v \in Workers, WorkerInv(v),
           pc'[v] = pc[v], todo'[v] = todo[v], seg'[v] = seg[v]
    PROVE  WorkerInv(v)'
BY DEF TypeOK, NothingReturns, WorkerInv, Written, Deleting, Reconciling, FileSeenGone,
       BeingKept

(* One worker's step: the others keep what they knew. *)
LEMMA InvFromParts ==
    ASSUME CatalogInv, TypeOK', NothingReturns, RowsMatchFiles',
           NEW w \in Workers, WorkerInv(w)',
           \A v \in Workers \ {w} : pc'[v] = pc[v] /\ todo'[v] = todo[v] /\ seg'[v] = seg[v]
    PROVE  CatalogInv'
<1>1. \A v \in Workers \ {w} : WorkerInv(v)'
  BY OthersKeepInv DEF CatalogInv
<1> QED BY <1>1 DEF CatalogInv, RowsMatchFiles

(* deleteSegmentInternal. *)
LEMMA DeleteKeepsInv ==
    ASSUME HonestFaults, CatalogInv, TypeOK', NEW w \in Workers, DeleteStep(w)
    PROVE  CatalogInv'
<1> USE DEF TypeOK, HonestFaults, FileStates, Statuses, Labels, Listed, Doomed, Written,
            Goto, Continue, Take
<1> DEFINE Others == \A v \in Workers \ {w} :
              pc'[v] = pc[v] /\ todo'[v] = todo[v] /\ seg'[v] = seg[v]
           Goal == NothingReturns /\ RowsMatchFiles' /\ WorkerInv(w)' /\ Others
<1>0. TypeOK /\ RowsMatchFiles /\ WorkerInv(w)
  BY DEF CatalogInv, RowsMatchFiles
<1> USE DEF WorkerInv, RowsMatchFiles, NothingReturns, ListedHasFile, FileHasRow, Deleting,
            Reconciling, FileSeenGone
<1>1. ASSUME NEW s \in Segments, Mark(w, s) PROVE Goal
  BY <1>1, <1>0 DEF Mark, StatusUpdates
<1>2. ASSUME UnlinkFile(w, "unlink", "removeRow") PROVE Goal
  BY <1>2, <1>0 DEF UnlinkFile
<1>3. ASSUME UnlinkFindsNothing(w) PROVE Goal
  BY <1>3, <1>0 DEF UnlinkFindsNothing
<1>4. ASSUME UnlinkFails(w) PROVE Goal
  BY <1>4, <1>0 DEF UnlinkFails
<1>5. ASSUME RemoveRow(w, "removeRow", "mark") PROVE Goal
  BY <1>5, <1>0 DEF RemoveRow, CanRemoveRow, RowRemoved
<1>6. ASSUME RowRemovalFailed(w, "removeRow", "garbage") PROVE Goal
  BY <1>6, <1>0 DEF RowRemovalFailed
<1>7. ASSUME RemoveRow(w, "removeStaleRow", "mark") PROVE Goal
  BY <1>7, <1>0 DEF RemoveRow, CanRemoveRow, RowRemoved
<1>8. ASSUME StaleRowRemovalThrows(w) PROVE Goal
  BY <1>8, <1>0 DEF StaleRowRemovalThrows
<1>9. ASSUME MarkGarbage(w, "garbage", "mark") PROVE Goal
  BY <1>9, <1>0 DEF MarkGarbage, StatusUpdates
<1>10. Goal
  BY ONLY DeleteStep(w), <1>1, <1>2, <1>3, <1>4, <1>5, <1>6, <1>7, <1>8, <1>9 DEF DeleteStep
<1> HIDE DEF WorkerInv, RowsMatchFiles, NothingReturns, ListedHasFile, FileHasRow, Deleting, Reconciling, FileSeenGone
<1> QED BY <1>10, InvFromParts

(* reconcilePendingDeletions. *)
LEMMA ReconcileKeepsInv ==
    ASSUME HonestFaults, CatalogInv, TypeOK', NEW w \in Workers, ReconcileStep(w)
    PROVE  CatalogInv'
<1> USE DEF TypeOK, HonestFaults, FileStates, Statuses, Labels, Listed, Doomed, Written,
            Goto, Continue, Take
<1> DEFINE Others == \A v \in Workers \ {w} :
              pc'[v] = pc[v] /\ todo'[v] = todo[v] /\ seg'[v] = seg[v]
           Goal == NothingReturns /\ RowsMatchFiles' /\ WorkerInv(w)' /\ Others
<1>0. TypeOK /\ RowsMatchFiles /\ WorkerInv(w)
  BY DEF CatalogInv, RowsMatchFiles
<1> USE DEF WorkerInv, RowsMatchFiles, NothingReturns, ListedHasFile, FileHasRow, Deleting,
            Reconciling, FileSeenGone
<1>1. ASSUME NEW s \in Segments, AccessFinds(w, s) PROVE Goal
  BY <1>1, <1>0 DEF AccessFinds
<1>2. ASSUME NEW s \in Segments, AccessRejects(w, s) PROVE Goal
  BY <1>2, <1>0 DEF AccessRejects, AccessMayReject
<1>3. ASSUME UnlinkFile(w, "reUnlink", "reRemoveRow") PROVE Goal
  BY <1>3, <1>0 DEF UnlinkFile
<1>4. ASSUME ReUnlinkFails(w) PROVE Goal
  BY <1>4, <1>0 DEF ReUnlinkFails
<1>5. ASSUME RemoveRow(w, "reRemoveRow", "access") PROVE Goal
  BY <1>5, <1>0 DEF RemoveRow, CanRemoveRow, RowRemoved
<1>6. ASSUME RowRemovalFailed(w, "reRemoveRow", "reGarbage") PROVE Goal
  BY <1>6, <1>0 DEF RowRemovalFailed
<1>7. ASSUME RemoveRow(w, "reRemoveStaleRow", "access") PROVE Goal
  BY <1>7, <1>0 DEF RemoveRow, CanRemoveRow, RowRemoved
<1>8. ASSUME ReconcileThrows(w) PROVE Goal
  BY <1>8, <1>0 DEF ReconcileThrows
<1>9. ASSUME MarkGarbage(w, "reGarbage", "access") PROVE Goal
  BY <1>9, <1>0 DEF MarkGarbage, StatusUpdates
<1>10. Goal
  BY ONLY ReconcileStep(w), <1>1, <1>2, <1>3, <1>4, <1>5, <1>6, <1>7, <1>8, <1>9 DEF ReconcileStep
<1> HIDE DEF WorkerInv, RowsMatchFiles, NothingReturns, ListedHasFile, FileHasRow, Deleting, Reconciling, FileSeenGone
<1> QED BY <1>10, InvFromParts

(* The audit of AVAILABLE rows. *)
LEMMA AuditKeepsInv ==
    ASSUME HonestFaults, CatalogInv, TypeOK', NEW w \in Workers, AuditStep(w)
    PROVE  CatalogInv'
<1> USE DEF TypeOK, HonestFaults, FileStates, Statuses, Labels, Listed, Doomed, Written,
            Goto, Continue, Take
<1> DEFINE Others == \A v \in Workers \ {w} :
              pc'[v] = pc[v] /\ todo'[v] = todo[v] /\ seg'[v] = seg[v]
           Goal == NothingReturns /\ RowsMatchFiles' /\ WorkerInv(w)' /\ Others
<1>0. TypeOK /\ RowsMatchFiles /\ WorkerInv(w)
  BY DEF CatalogInv, RowsMatchFiles
<1> USE DEF WorkerInv, RowsMatchFiles, NothingReturns, ListedHasFile, FileHasRow, Deleting,
            Reconciling, FileSeenGone
<1>1. ASSUME NEW s \in Segments, AuditFinds(w, s) PROVE Goal
  BY <1>1, <1>0 DEF AuditFinds
<1>2. ASSUME NEW s \in Segments, AuditMisses(w, s) PROVE Goal
  BY <1>2, <1>0 DEF AuditMisses, AccessMayReject
<1>3. ASSUME MarkMissing(w) PROVE Goal
  BY <1>3, <1>0 DEF MarkMissing, StatusUpdates
<1>4. Goal
  BY ONLY AuditStep(w), <1>1, <1>2, <1>3 DEF AuditStep
<1> HIDE DEF WorkerInv, RowsMatchFiles, NothingReturns, ListedHasFile, FileHasRow, Deleting, Reconciling, FileSeenGone
<1> QED BY <1>4, InvFromParts

(* onMotion. *)
LEMMA MotionKeepsInv ==
    ASSUME HonestFaults, CatalogInv, TypeOK', NEW w \in Workers, KeepStep(w)
    PROVE  CatalogInv'
<1> PICK s \in Segments : Keep(w, s)
  BY DEF KeepStep
<1> USE DEF CatalogInv, TypeOK, HonestFaults, FileStates, Statuses, Labels, Listed, Doomed,
            Written, Goto, WorkerInv, RowsMatchFiles, NothingReturns, ListedHasFile,
            FileHasRow, Deleting, Reconciling, FileSeenGone, Keep, StatusUpdates, BeingKept
<1>1. NothingReturns
  OBVIOUS
<1>2. RowsMatchFiles'
  OBVIOUS
<1>3. WorkerInv(w)'
  OBVIOUS
<1>4. \A v \in Workers \ {w} : pc'[v] = pc[v] /\ todo'[v] = todo[v] /\ seg'[v] = seg[v]
  OBVIOUS
<1> QED BY ONLY CatalogInv, TypeOK', <1>1, <1>2, <1>3, <1>4, w \in Workers, InvFromParts

(* Every step of the system. *)
LEMMA StepKeepsInv ==
    ASSUME HonestFaults, CatalogInv, [Next]_catalogVars
    PROVE  CatalogInv'
<1> USE DEF TypeOK, FileStates, Statuses, Labels, Listed, Doomed, Written, Goto,
            CatalogInv, WorkerInv, ListedHasFile, FileHasRow, Deleting, Reconciling,
            FileSeenGone
<1>1. ASSUME NEW s \in Segments, NEW status \in Listed, Ingest(s, status) PROVE CatalogInv'
  BY <1>1 DEF Ingest
<1>2. ASSUME NEW w \in Workers, NEW chosen \in SUBSET Rows({"BUFFERED"}), StartKeep(w, chosen)
      PROVE  CatalogInv'
  BY <1>2 DEF StartKeep, Rows
<1>3. ASSUME NEW w \in Workers, NEW chosen \in SUBSET Written, StartDelete(w, chosen)
      PROVE  CatalogInv'
  BY <1>3 DEF StartDelete
<1>4. ASSUME NEW w \in Workers, StartReconcile(w) PROVE CatalogInv'
  BY <1>4 DEF StartReconcile, Rows
<1>5. ASSUME NEW w \in Workers, StartAudit(w) PROVE CatalogInv'
  BY <1>5 DEF StartAudit, Rows
<1>6. ASSUME NEW w \in Workers, WorkerStep(w) PROVE CatalogInv'
  <2>1. TypeOK'
    BY <1>6, WorkerStepTyped
  <2> QED
    BY ONLY <1>6, <2>1, HonestFaults, CatalogInv, DeleteKeepsInv, ReconcileKeepsInv,
            AuditKeepsInv, MotionKeepsInv DEF WorkerStep
<1>7. CASE Crash
  BY <1>7 DEF Crash
<1>8. CASE UNCHANGED catalogVars
  BY <1>8 DEF catalogVars
<1> QED BY <1>1, <1>2, <1>3, <1>4, <1>5, <1>6, <1>7, <1>8 DEF Next

-------------------------------------------------------------------------------
(* The results. *)

(* The catalog's rows and files agree, and every worker still knows what it
   learnt, after any interleaving, failure and crash. *)
THEOREM CatalogCorrect ==
    ASSUME HonestFaults
    PROVE  Spec => []CatalogInv
<1>1. Init => CatalogInv
  BY InitTyped DEF Init, CatalogInv, WorkerInv, ListedHasFile, FileHasRow, Deleting,
                   Reconciling, FileSeenGone, Listed
<1>2. CatalogInv /\ [Next]_catalogVars => CatalogInv'
  BY StepKeepsInv
<1> QED BY <1>1, <1>2, PTL DEF Spec

(* A row that offers a segment has its file on disk (ARCHITECTURE.md, invariant 2). *)
THEOREM OfferedFootageExists ==
    ASSUME HonestFaults
    PROVE  Spec => []ListedHasFile
<1>1. CatalogInv => ListedHasFile
  BY DEF CatalogInv
<1> QED BY <1>1, CatalogCorrect, PTL

(* No file is left on disk without a row (segment-ingest.ts:52). *)
THEOREM NoFileIsOrphaned ==
    ASSUME HonestFaults
    PROVE  Spec => []FileHasRow
<1>1. CatalogInv => FileHasRow
  BY DEF CatalogInv
<1> QED BY <1>1, CatalogCorrect, PTL

(* A file is removed only once its row no longer offers it (invariant 4). *)
LEMMA OnlyUnlinkRemoves ==
    ASSUME TypeOK, [Next]_catalogVars, NEW s \in Segments, file[s] = "present", file'[s] = "removed"
    PROVE  \E w \in Workers : seg[w] = s /\ pc[w] \in {"unlink", "reUnlink"}
BY DEF TypeOK, Next, WorkerStep, DeleteStep, ReconcileStep, AuditStep, KeepStep, Ingest, Keep,
       StartKeep, StartDelete, StartReconcile, StartAudit, Crash, catalogVars, Mark, UnlinkFile,
       UnlinkFindsNothing, UnlinkFails, RemoveRow, RowRemovalFailed, StaleRowRemovalThrows,
       MarkGarbage, AccessFinds, AccessRejects, ReUnlinkFails, ReconcileThrows, AuditFinds,
       AuditMisses, MarkMissing, FileStates

THEOREM UnlinkIsSafe ==
    ASSUME HonestFaults
    PROVE  Spec => UnlinkOnlyDoomed
<1> DEFINE Step == \A s \in Segments :
             file[s] = "present" /\ file'[s] = "removed" => row[s] \notin Listed
<1>1. CatalogInv /\ [Next]_catalogVars => [Step]_catalogVars
  BY OnlyUnlinkRemoves DEF CatalogInv, WorkerInv, Deleting, Reconciling
<1> QED BY <1>1, CatalogCorrect, PTL DEF Spec, UnlinkOnlyDoomed

-------------------------------------------------------------------------------
(* The catalog implements the lifecycle of a segment. *)

(* The five ways a step may write a segment's file and row. *)
LegalWrite(s) ==
    /\ \A t \in Segments \ {s} : file'[t] = file[t] /\ row'[t] = row[t]
    /\ \/ file[s] = "unwritten" /\ file'[s] = "present" /\ row'[s] \in Listed
       \/ file[s] = "present" /\ file'[s] = "present" /\ row[s] \in Listed
              /\ row'[s] \in Listed \cup Doomed
       \/ file[s] = "present" /\ file'[s] = "present" /\ row[s] \in Doomed /\ row'[s] \in Doomed
       \/ file[s] = "present" /\ file'[s] = "removed" /\ row[s] \in Doomed /\ row'[s] = row[s]
       \/ file[s] = "removed" /\ file'[s] = "removed" /\ row[s] \in Doomed
              /\ row'[s] \in Doomed \cup {"NONE"}

WritesLegally ==
    \/ file' = file /\ row' = row
    \/ \E s \in Segments : LegalWrite(s)

LEMMA DeleteWritesLegally ==
    ASSUME HonestFaults, CatalogInv, NEW w \in Workers, DeleteStep(w)
    PROVE  WritesLegally
<1> USE DEF TypeOK, HonestFaults, FileStates, Statuses, Listed, Doomed, Written, CatalogInv,
            WorkerInv, ListedHasFile, FileHasRow, Deleting, Reconciling, FileSeenGone,
            WritesLegally, LegalWrite
<1>1. ASSUME NEW s \in Segments, Mark(w, s) PROVE WritesLegally
  BY <1>1 DEF Mark, StatusUpdates, Take
<1>2. CASE UnlinkFile(w, "unlink", "removeRow")
  BY <1>2 DEF UnlinkFile
<1>3. CASE UnlinkFindsNothing(w) \/ UnlinkFails(w)
  BY <1>3 DEF UnlinkFindsNothing, UnlinkFails
<1>4. CASE RemoveRow(w, "removeRow", "mark") \/ RemoveRow(w, "removeStaleRow", "mark")
  BY <1>4 DEF RemoveRow, CanRemoveRow, RowRemoved
<1>5. CASE RowRemovalFailed(w, "removeRow", "garbage") \/ StaleRowRemovalThrows(w)
  BY <1>5 DEF RowRemovalFailed, StaleRowRemovalThrows
<1>6. CASE MarkGarbage(w, "garbage", "mark")
  BY <1>6 DEF MarkGarbage, StatusUpdates
<1> QED BY ONLY DeleteStep(w), <1>1, <1>2, <1>3, <1>4, <1>5, <1>6 DEF DeleteStep

LEMMA ReconcileWritesLegally ==
    ASSUME HonestFaults, CatalogInv, NEW w \in Workers, ReconcileStep(w)
    PROVE  WritesLegally
<1> USE DEF TypeOK, HonestFaults, FileStates, Statuses, Listed, Doomed, Written, CatalogInv,
            WorkerInv, ListedHasFile, FileHasRow, Deleting, Reconciling, FileSeenGone,
            WritesLegally, LegalWrite
<1>1. ASSUME NEW s \in Segments, AccessFinds(w, s) \/ AccessRejects(w, s) PROVE WritesLegally
  BY <1>1 DEF AccessFinds, AccessRejects
<1>2. CASE UnlinkFile(w, "reUnlink", "reRemoveRow")
  BY <1>2 DEF UnlinkFile
<1>3. CASE RemoveRow(w, "reRemoveRow", "access") \/ RemoveRow(w, "reRemoveStaleRow", "access")
  BY <1>3 DEF RemoveRow, CanRemoveRow, RowRemoved
<1>4. CASE ReUnlinkFails(w) \/ RowRemovalFailed(w, "reRemoveRow", "reGarbage") \/ ReconcileThrows(w)
  BY <1>4 DEF ReUnlinkFails, RowRemovalFailed, ReconcileThrows
<1>5. CASE MarkGarbage(w, "reGarbage", "access")
  BY <1>5 DEF MarkGarbage, StatusUpdates
<1> QED BY ONLY ReconcileStep(w), <1>1, <1>2, <1>3, <1>4, <1>5 DEF ReconcileStep

LEMMA StepWritesLegally ==
    ASSUME HonestFaults, CatalogInv, [Next]_catalogVars
    PROVE  WritesLegally
<1> USE DEF TypeOK, FileStates, Statuses, Listed, Doomed, Written, CatalogInv, ListedHasFile,
            FileHasRow
<1>1. ASSUME NEW s \in Segments, NEW status \in Listed, Ingest(s, status) PROVE WritesLegally
  BY <1>1 DEF Ingest, WritesLegally, LegalWrite
<1>2. ASSUME NEW w \in Workers, KeepStep(w) PROVE WritesLegally
  BY <1>2 DEF KeepStep, Keep, StatusUpdates, HonestFaults, WorkerInv, WritesLegally, LegalWrite
<1>3. ASSUME NEW w \in Workers, AuditStep(w) PROVE WritesLegally
  BY <1>3 DEF AuditStep, AuditFinds, AuditMisses, MarkMissing, StatusUpdates, HonestFaults,
              WorkerInv, FileSeenGone, WritesLegally, LegalWrite
<1>4. ASSUME NEW w \in Workers, NEW chosen, StartDelete(w, chosen) PROVE WritesLegally
  BY <1>4 DEF StartDelete, WritesLegally
<1>5. ASSUME NEW w \in Workers, NEW chosen,
             StartKeep(w, chosen) \/ StartReconcile(w) \/ StartAudit(w)
      PROVE  WritesLegally
  BY <1>5 DEF StartKeep, StartReconcile, StartAudit, WritesLegally
<1>6. CASE Crash \/ UNCHANGED catalogVars
  BY <1>6 DEF Crash, catalogVars, WritesLegally
<1> QED
  BY ONLY HonestFaults, CatalogInv, [Next]_catalogVars, DeleteWritesLegally,
          ReconcileWritesLegally, <1>1, <1>2, <1>3, <1>4, <1>5, <1>6 DEF Next, WorkerStep

(* A legal write is a move of the lifecycle, or none. *)
LEMMA LegalWriteIsMove ==
    ASSUME WritesLegally
    PROVE  [Lifecycle!Next]_([s \in Segments |-> StageOf(s)])
<1> DEFINE st == [t \in Segments |-> StageOf(t)]
<1>1. CASE file' = file /\ row' = row
  BY <1>1 DEF StageOf
<1>2. ASSUME NEW s \in Segments, LegalWrite(s) PROVE [Lifecycle!Next]_st
  <2>1. \A t \in Segments \ {s} : StageOf(t)' = StageOf(t)
    BY <1>2 DEF LegalWrite, StageOf
  <2>2. st' = [st EXCEPT ![s] = StageOf(s)']
    BY <2>1
  <2>3. \/ StageOf(s)' = StageOf(s)
        \/ StageOf(s) = "unwritten" /\ StageOf(s)' = "listed"
        \/ StageOf(s) = "listed" /\ StageOf(s)' = "doomed"
        \/ StageOf(s) = "doomed" /\ StageOf(s)' = "erased"
        \/ StageOf(s) = "erased" /\ StageOf(s)' = "forgotten"
    BY <1>2 DEF LegalWrite, StageOf, Listed, Doomed
  <2>4. CASE StageOf(s)' = StageOf(s)
    BY <2>1, <2>4
  <2>5. CASE StageOf(s)' # StageOf(s)
    <3>1. Lifecycle!List(s) \/ Lifecycle!Doom(s) \/ Lifecycle!Erase(s) \/ Lifecycle!Forget(s)
      BY <2>2, <2>3, <2>5 DEF Lifecycle!List, Lifecycle!Doom, Lifecycle!Erase,
                              Lifecycle!Forget, Lifecycle!Move
    <3> QED BY <3>1 DEF Lifecycle!Next
  <2> QED BY <2>4, <2>5
<1> QED BY <1>1, <1>2 DEF WritesLegally

(* The deletion protocol implements the lifecycle. *)
THEOREM CatalogImplementsLifecycle ==
    ASSUME HonestFaults
    PROVE  Spec => ImplementsLifecycle
<1>1. Init => Lifecycle!Init
  BY DEF Init, Lifecycle!Init, StageOf
<1>2. CatalogInv /\ [Next]_catalogVars => [Lifecycle!Next]_([s \in Segments |-> StageOf(s)])
  BY StepWritesLegally, LegalWriteIsMove
<1> QED
  BY <1>1, <1>2, CatalogCorrect, PTL DEF Spec, ImplementsLifecycle, Lifecycle!Spec
===============================================================================
