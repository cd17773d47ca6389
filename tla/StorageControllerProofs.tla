------------------------ MODULE StorageControllerProofs ------------------------
(***************************************************************************)
(* Theorems about StorageController, for any number of segments, requests  *)
(* over HTTP, pages, thresholds and restarts.  What is proved of the       *)
(* catalog on its own (RecordingCatalogProofs) carries over once every     *)
(* step of the controller is shown to be one of the catalog's.             *)
(***************************************************************************)
EXTENDS StorageController, TLAPS

CatalogProofs == INSTANCE RecordingCatalogProofs

(* See RecordingCatalogProofs: an update is not lost silently, access rejects only
   what does not exist, the volume is there, and motion handlers are in time. *)
HonestFaults == CatalogProofs!HonestFaults

-------------------------------------------------------------------------------
(* Runs *)

(* The records of the storage workers keep their fields. *)
RunShape ==
    /\ DOMAIN run = StorageWorkers
    /\ \A w \in StorageWorkers : DOMAIN run[w] = DOMAIN Idle

LEMMA EmptyChoice ==
    ASSUME NEW r, DOMAIN r = DOMAIN Idle, NEW mode, NEW held
    PROVE  /\ BeginPasses(r, mode).eligible = {} /\ DOMAIN BeginPasses(r, mode) = DOMAIN Idle
           /\ EndPasses(r).eligible = {} /\ DOMAIN EndPasses(r) = DOMAIN Idle
           /\ EndPass(r, held).eligible = {} /\ DOMAIN EndPass(r, held) = DOMAIN Idle
           /\ NextIteration(r).eligible = {} /\ DOMAIN NextIteration(r) = DOMAIN Idle
<1>1. /\ BeginPasses(r, mode).eligible = {} /\ DOMAIN BeginPasses(r, mode) = DOMAIN Idle
      /\ EndPasses(r).eligible = {} /\ DOMAIN EndPasses(r) = DOMAIN Idle
  BY DEF BeginPasses, EndPasses, Idle
<1>2. ASSUME NEW h  PROVE  EndPass(r, h).eligible = {} /\ DOMAIN EndPass(r, h) = DOMAIN Idle
  BY DEF EndPass, EndPasses, Idle
<1>3. NextIteration(r).eligible = {} /\ DOMAIN NextIteration(r) = DOMAIN Idle
  BY <1>2 DEF NextIteration, Idle
<1> QED  BY <1>1, <1>2, <1>3

-------------------------------------------------------------------------------
(* What a step of the controller does to the catalog *)

(* The choices the controller makes: every list of deletions was written, and none of it
   was held when the holds were read, or else it is the motion buffer's. *)
Choice(w, chosen) ==
    /\ Catalog!StartDelete(w, chosen)
    /\ chosen \subseteq Catalog!Written
    /\ chosen \cap hold = {} \/ chosen \subseteq Catalog!Rows({"BUFFERED"})

CatalogMove ==
    \/ UNCHANGED catalogVars
    \/ \E s \in Segments, status \in Catalog!Listed : Catalog!Ingest(s, status)
    \/ \E w \in Deleters : \/ \E chosen \in SUBSET Segments : Choice(w, chosen)
                           \/ Catalog!StartReconcile(w) \/ Catalog!StartAudit(w)
                           \/ Catalog!DeleteStep(w)
                           \/ Catalog!ReconcileStep(w)
                           \/ Catalog!AuditStep(w)
    \/ \E chosen \in SUBSET Catalog!Rows({"BUFFERED"}) : Catalog!StartKeep(MotionWorker, chosen)
    \/ Catalog!KeepStep(MotionWorker)
    \/ Catalog!Crash

LEMMA DeletingIsDeleteStep ==
    ASSUME Catalog!TypeOK, NEW w \in Workers,
           Deleting(w) \/ DeletionSucceeds(w) \/ DeletionFails(w)
    PROVE  Catalog!DeleteStep(w)
<1>1. todo[w] \subseteq Segments
  BY DEF Catalog!TypeOK
<1> QED
  BY <1>1 DEF Deleting, UnlinkAnswers, DeletionSucceeds, DeletionFails, Catalog!DeleteStep

LEMMA ReconcilingIsReconcileStep ==
    ASSUME Catalog!TypeOK, NEW w \in Workers, Reconciling(w) \/ Catalog!ReconcileThrows(w)
    PROVE  Catalog!ReconcileStep(w)
<1>1. todo[w] \subseteq Segments
  BY DEF Catalog!TypeOK
<1> QED  BY <1>1 DEF Reconciling, Catalog!ReconcileStep

LEMMA AuditIsAuditStep ==
    ASSUME Catalog!TypeOK, NEW w \in StorageWorkers, Audit(w)
    PROVE  Catalog!AuditStep(w)
<1>1. todo[w] \subseteq Segments
  BY DEF Catalog!TypeOK, Workers, Deleters, StorageWorkers
<1> QED  BY <1>1 DEF Audit, Catalog!AuditStep

LEMMA StorageStepMoves ==
    ASSUME Catalog!TypeOK, ChoiceInv, NEW w \in StorageWorkers, StorageStep(w)
    PROVE  CatalogMove
<1>0. w \in Deleters /\ w \in Workers
  BY DEF StorageWorkers, Workers, Deleters
<1>1. CASE ListCandidates(w) \/ CheckPressure(w) \/ EndBatch(w) \/ CheckStorage(w)
           \/ EndReconciling(w) \/ Report(w) \/ EndAudit(w)
  BY <1>1 DEF ListCandidates, CheckPressure, EndBatch, CheckStorage, EndReconciling, Report,
     EndAudit, CatalogMove
<1>2. CASE ReadHolds(w)
  <2> DEFINE deletable == run[w].eligible \ hold
  <2>1. deletable \subseteq Catalog!Written /\ deletable \cap hold = {}
    BY DEF ChoiceInv
  <2>2. deletable \in SUBSET Segments
    BY <2>1 DEF Catalog!Written
  <2>3. Catalog!StartDelete(w, deletable) \/ UNCHANGED catalogVars
    BY <1>2 DEF ReadHolds
  <2> QED  BY <1>0, <2>1, <2>2, <2>3 DEF Choice, CatalogMove
<1>3. CASE DeleteBatch(w)
  <2>1. Catalog!DeleteStep(w)
    BY <1>0, <1>3, DeletingIsDeleteStep DEF DeleteBatch
  <2> QED  BY <1>0, <2>1 DEF CatalogMove
<1>4. CASE StartReconciling(w)
  BY <1>0, <1>4 DEF StartReconciling, CatalogMove
<1>5. CASE Reconcile(w)
  <2>1. Catalog!ReconcileStep(w)
    BY <1>0, <1>5, ReconcilingIsReconcileStep DEF Reconcile
  <2> QED  BY <1>0, <2>1 DEF CatalogMove
<1>6. CASE ListAvailable(w)
  BY <1>0, <1>6 DEF ListAvailable, CatalogMove
<1>7. CASE Audit(w)
  <2>1. Catalog!AuditStep(w)
    BY <1>7, AuditIsAuditStep
  <2> QED  BY <1>0, <2>1 DEF CatalogMove
<1> QED  BY <1>1, <1>2, <1>3, <1>4, <1>5, <1>6, <1>7 DEF StorageStep

(* The holds change between the catalog's steps only. *)
LEMMA StepMoves ==
    ASSUME Catalog!TypeOK, ChoiceInv, Next
    PROVE  /\ CatalogMove
           /\ \/ UNCHANGED <<hold, shielded>>
              \/ UNCHANGED catalogVars /\ \E s \in Segments : PlaceHold(s) \/ ReleaseHold(s)
<1> DEFINE Goal == /\ CatalogMove
                   /\ \/ UNCHANGED <<hold, shielded>>
                      \/ /\ UNCHANGED catalogVars
                         /\ \E s \in Segments : PlaceHold(s) \/ ReleaseHold(s)
<1>0. IndexWorker \in Deleters /\ IndexWorker \in Workers
  BY DEF Workers, Deleters
<1>1. CASE StartTick \/ StartBootAudit
  BY <1>1 DEF StartTick, StartBootAudit, CatalogMove, envVars
<1>2. ASSUME NEW w \in ApiWorkers, StartPurge(w) \/ StartCleanup(w)  PROVE Goal
  BY <1>2 DEF StartPurge, StartCleanup, CatalogMove, envVars
<1>3. ASSUME NEW w \in StorageWorkers, StorageStep(w)  PROVE Goal
  <2>1. UNCHANGED envVars
    BY <1>3 DEF StorageStep, ListCandidates, CheckPressure, ReadHolds, DeleteBatch, EndBatch,
       CheckStorage, StartReconciling, Reconcile, EndReconciling, Report, ListAvailable, Audit,
       EndAudit
  <2> QED  BY <1>3, <2>1, StorageStepMoves DEF envVars
<1>4. ASSUME NEW chosen \in SUBSET Catalog!Rows({"BUFFERED"}), ExpireBuffered(chosen)
      PROVE Goal
  <2>1. chosen \in SUBSET Segments /\ chosen \subseteq Catalog!Written
    BY DEF Catalog!Rows, Catalog!Written, ChoiceInv
  <2>2. Choice(IndexWorker, chosen)
    BY <1>4, <2>1 DEF ExpireBuffered, Choice
  <2> QED  BY <1>0, <1>4, <2>1, <2>2 DEF ExpireBuffered, CatalogMove, envVars
<1>5. ASSUME NEW chosen \in SUBSET Catalog!Rows({"BUFFERED"}), KeepBuffered(chosen)
      PROVE Goal
  BY <1>0, <1>5 DEF KeepBuffered, CatalogMove, envVars
<1>6. CASE Expiring
  <2>1. Catalog!DeleteStep(IndexWorker)
    BY <1>0, <1>6, DeletingIsDeleteStep DEF Expiring
  <2> QED  BY <1>0, <1>6, <2>1 DEF Expiring, CatalogMove, envVars
<1>7. CASE Keeping
  BY <1>0, <1>7 DEF Keeping, CatalogMove, envVars
<1>8. ASSUME NEW s \in Segments, NEW status \in Fates, Record(s, status)  PROVE Goal
  <2>1. status \in Catalog!Listed
    BY ControllerAssumption DEF Catalog!Listed
  <2> QED  BY <1>8, <2>1 DEF Record, CatalogMove, envVars
<1>9. ASSUME NEW s \in Segments, PlaceHold(s) \/ ReleaseHold(s)  PROVE Goal
  <2>1. UNCHANGED catalogVars
    BY <1>9 DEF PlaceHold, ReleaseHold
  <2> QED  BY <1>9, <2>1 DEF CatalogMove
<1>10. ASSUME NEW s \in Segments, GrowOld(s)  PROVE Goal
  BY <1>10 DEF GrowOld, CatalogMove
<1>11. ASSUME NEW s \in Segments, NEW t \in {"EVENT", "INCIDENT"}, Promote(s, t)  PROVE Goal
  BY <1>11 DEF Promote, CatalogMove
<1>12. ASSUME NEW v \in Volumes, ChangeVolume(v)  PROVE Goal
  BY <1>12 DEF ChangeVolume, CatalogMove
<1>13. CASE Restart
  BY <1>13 DEF Restart, CatalogMove
<1> QED
  BY <1>1, <1>2, <1>3, <1>4, <1>5, <1>6, <1>7, <1>8, <1>9, <1>10, <1>11, <1>12, <1>13 DEF Next

-------------------------------------------------------------------------------
(* The two instances of the catalog are one: that of the controller, and that of the
   theorems about it. *)

LEMMA SameTypes ==
    /\ Catalog!TypeOK <=> CatalogProofs!TypeOK
    /\ Catalog!TypeOK' <=> CatalogProofs!TypeOK'
BY DEF Catalog!TypeOK, CatalogProofs!TypeOK, Catalog!FileStates,
       CatalogProofs!FileStates, Catalog!Statuses, CatalogProofs!Statuses,
       Catalog!Labels, CatalogProofs!Labels, Catalog!Listed,
       CatalogProofs!Listed, Catalog!Doomed, CatalogProofs!Doomed

LEMMA SameInv ==
    /\ Catalog!CatalogInv <=> CatalogProofs!CatalogInv
    /\ Catalog!CatalogInv' <=> CatalogProofs!CatalogInv'
BY SameTypes DEF Catalog!CatalogInv, CatalogProofs!CatalogInv, Catalog!ListedHasFile,
       CatalogProofs!ListedHasFile, Catalog!FileHasRow,
       CatalogProofs!FileHasRow, Catalog!WorkerInv, CatalogProofs!WorkerInv,
       Catalog!Listed, CatalogProofs!Listed, Catalog!Written,
       CatalogProofs!Written, Catalog!Deleting, CatalogProofs!Deleting,
       Catalog!Reconciling, CatalogProofs!Reconciling, Catalog!FileSeenGone,
       CatalogProofs!FileSeenGone

LEMMA SameWorkerStep ==
    ASSUME NEW w
    PROVE  Catalog!WorkerStep(w) <=> CatalogProofs!WorkerStep(w)
<1> USE DEF Catalog!FileStates, CatalogProofs!FileStates, Catalog!Statuses,
            CatalogProofs!Statuses, Catalog!Labels, CatalogProofs!Labels,
            Catalog!Listed, CatalogProofs!Listed, Catalog!Doomed,
            CatalogProofs!Doomed, Catalog!Rows, CatalogProofs!Rows,
            Catalog!Written, CatalogProofs!Written, Catalog!BeingKept,
            CatalogProofs!BeingKept, Catalog!StatusUpdates,
            CatalogProofs!StatusUpdates, Catalog!CanRemoveRow,
            CatalogProofs!CanRemoveRow, Catalog!RowRemovalFails,
            CatalogProofs!RowRemovalFails, Catalog!RowRemoved,
            CatalogProofs!RowRemoved, Catalog!AccessMayReject,
            CatalogProofs!AccessMayReject, Catalog!Goto, CatalogProofs!Goto,
            Catalog!Continue, CatalogProofs!Continue, Catalog!Take,
            CatalogProofs!Take
<1>1. Catalog!DeleteStep(w) <=> CatalogProofs!DeleteStep(w)
  BY DEF Catalog!DeleteStep, CatalogProofs!DeleteStep, Catalog!Mark,
         CatalogProofs!Mark, Catalog!UnlinkFile, CatalogProofs!UnlinkFile,
         Catalog!UnlinkFindsNothing, CatalogProofs!UnlinkFindsNothing,
         Catalog!UnlinkFails, CatalogProofs!UnlinkFails, Catalog!RemoveRow,
         CatalogProofs!RemoveRow, Catalog!RowRemovalFailed,
         CatalogProofs!RowRemovalFailed, Catalog!StaleRowRemovalThrows,
         CatalogProofs!StaleRowRemovalThrows, Catalog!MarkGarbage,
         CatalogProofs!MarkGarbage
<1>2. Catalog!ReconcileStep(w) <=> CatalogProofs!ReconcileStep(w)
  BY DEF Catalog!ReconcileStep, CatalogProofs!ReconcileStep,
         Catalog!AccessFinds, CatalogProofs!AccessFinds, Catalog!AccessRejects,
         CatalogProofs!AccessRejects, Catalog!UnlinkFile,
         CatalogProofs!UnlinkFile, Catalog!ReUnlinkFails,
         CatalogProofs!ReUnlinkFails, Catalog!RemoveRow,
         CatalogProofs!RemoveRow, Catalog!RowRemovalFailed,
         CatalogProofs!RowRemovalFailed, Catalog!ReconcileThrows,
         CatalogProofs!ReconcileThrows, Catalog!MarkGarbage,
         CatalogProofs!MarkGarbage
<1>3. Catalog!AuditStep(w) <=> CatalogProofs!AuditStep(w)
  BY DEF Catalog!AuditStep, CatalogProofs!AuditStep, Catalog!AuditFinds,
         CatalogProofs!AuditFinds, Catalog!AuditMisses,
         CatalogProofs!AuditMisses, Catalog!MarkMissing,
         CatalogProofs!MarkMissing
<1>4. Catalog!KeepStep(w) <=> CatalogProofs!KeepStep(w)
  BY DEF Catalog!KeepStep, CatalogProofs!KeepStep, Catalog!Keep,
         CatalogProofs!Keep
<1> QED  BY <1>1, <1>2, <1>3, <1>4 DEF Catalog!WorkerStep, CatalogProofs!WorkerStep

LEMMA SameNext ==
    /\ Catalog!Init <=> CatalogProofs!Init
    /\ [Catalog!Next]_(Catalog!catalogVars) <=> [CatalogProofs!Next]_(CatalogProofs!catalogVars)
<1>1. Catalog!Init <=> CatalogProofs!Init
  BY DEF Catalog!Init, CatalogProofs!Init
<1>2. Catalog!Next <=> CatalogProofs!Next
  BY SameWorkerStep
     DEF Catalog!Next, CatalogProofs!Next, Catalog!Ingest, CatalogProofs!Ingest,
         Catalog!StartDelete, CatalogProofs!StartDelete, Catalog!StartKeep,
         CatalogProofs!StartKeep, Catalog!StartReconcile,
         CatalogProofs!StartReconcile, Catalog!StartAudit,
         CatalogProofs!StartAudit, Catalog!Crash, CatalogProofs!Crash,
         Catalog!Listed, CatalogProofs!Listed, Catalog!Written,
         CatalogProofs!Written, Catalog!Rows, CatalogProofs!Rows, Catalog!Goto,
         CatalogProofs!Goto
<1> QED  BY <1>1, <1>2 DEF Catalog!catalogVars, CatalogProofs!catalogVars

-------------------------------------------------------------------------------
(* The controller implements the catalog *)

LEMMA MoveIsCatalogStep ==
    ASSUME CatalogMove
    PROVE  [Catalog!Next]_(Catalog!catalogVars)
<1>1. Deleters \subseteq Workers /\ MotionWorker \in Workers
  BY DEF Workers
<1> QED
  BY <1>1 DEF CatalogMove, Choice, Catalog!Next, Catalog!WorkerStep, Catalog!catalogVars, catalogVars

LEMMA CatalogFacts == CatalogProofs!CatalogAssumption
BY ControllerAssumption DEF CatalogProofs!CatalogAssumption, CatalogProofs!FaultKinds

LEMMA CatalogStepTyped ==
    ASSUME Catalog!TypeOK, [Catalog!Next]_(Catalog!catalogVars)
    PROVE  Catalog!TypeOK'
BY CatalogFacts, SameTypes, SameNext, CatalogProofs!StepTyped

(* A row appears with its file only, and no file is ever unwritten again. *)
LEMMA WrittenGrows ==
    ASSUME Catalog!TypeOK, ChoiceInv, CatalogMove
    PROVE  /\ \A s \in Segments : file'[s] = "unwritten" => row'[s] = "NONE"
           /\ Catalog!Written \subseteq Catalog!Written'
<1> USE DEF Catalog!TypeOK, Catalog!Written
<1>0. \A s \in Segments : file[s] = "unwritten" => row[s] = "NONE"
  BY DEF ChoiceInv
<1> DEFINE Goal == /\ \A s \in Segments : file'[s] = "unwritten" => row'[s] = "NONE"
                   /\ Catalog!Written \subseteq Catalog!Written'
<1>1. ASSUME NEW s, NEW status, row' \in Catalog!StatusUpdates(s, status), file' = file
      PROVE  Goal
  BY <1>0, <1>1 DEF Catalog!StatusUpdates
<1>2. ASSUME NEW s, row' = Catalog!RowRemoved(s), file' = file  PROVE Goal
  BY <1>0, <1>2 DEF Catalog!RowRemoved
<1>3. ASSUME UNCHANGED <<row, file>>  PROVE Goal
  BY <1>0, <1>3
<1>4. ASSUME NEW s \in Segments, NEW status \in Catalog!Listed, Catalog!Ingest(s, status)
      PROVE  Goal
  BY <1>0, <1>4 DEF Catalog!Ingest
<1>5. ASSUME NEW from, NEW to, NEW w, Catalog!UnlinkFile(w, from, to)  PROVE Goal
  BY <1>0, <1>5 DEF Catalog!UnlinkFile
<1>6. ASSUME NEW w \in Deleters, Catalog!DeleteStep(w)  PROVE Goal
  BY <1>1, <1>2, <1>3, <1>5, <1>6 DEF Catalog!DeleteStep, Catalog!Mark,
     Catalog!UnlinkFindsNothing, Catalog!UnlinkFails, Catalog!RemoveRow,
     Catalog!RowRemovalFailed, Catalog!StaleRowRemovalThrows, Catalog!MarkGarbage
<1>7. ASSUME NEW w \in Deleters, Catalog!ReconcileStep(w)  PROVE Goal
  BY <1>1, <1>2, <1>3, <1>5, <1>7 DEF Catalog!ReconcileStep, Catalog!AccessFinds,
     Catalog!AccessRejects, Catalog!ReUnlinkFails, Catalog!RemoveRow,
     Catalog!RowRemovalFailed, Catalog!ReconcileThrows, Catalog!MarkGarbage
<1>8. ASSUME NEW w \in Deleters, Catalog!AuditStep(w)  PROVE Goal
  BY <1>1, <1>3, <1>8 DEF Catalog!AuditStep, Catalog!AuditFinds, Catalog!AuditMisses,
     Catalog!MarkMissing
<1>9. CASE Catalog!KeepStep(MotionWorker)
  BY <1>1, <1>9 DEF Catalog!KeepStep, Catalog!Keep
<1>10. CASE UNCHANGED catalogVars
  BY <1>3, <1>10 DEF catalogVars
<1>11. ASSUME NEW w, NEW chosen, Choice(w, chosen) \/ Catalog!StartKeep(w, chosen)
       PROVE  Goal
  BY <1>3, <1>11 DEF Choice, Catalog!StartDelete, Catalog!StartKeep
<1>12. ASSUME NEW w, Catalog!StartReconcile(w) \/ Catalog!StartAudit(w)  PROVE Goal
  BY <1>3, <1>12 DEF Catalog!StartReconcile, Catalog!StartAudit
<1>13. CASE Catalog!Crash
  BY <1>3, <1>13 DEF Catalog!Crash
<1> QED  BY <1>4, <1>6, <1>7, <1>8, <1>9, <1>10, <1>11, <1>12, <1>13 DEF CatalogMove

(* The runs: what a worker will choose from comes from the rows it has just read. *)
LEMMA RunsStep ==
    ASSUME RunShape, ChoiceInv, Next
    PROVE  /\ RunShape'
           /\ \A w \in StorageWorkers :
                  run'[w].eligible \subseteq run[w].eligible \cup Catalog!Written
<1> DEFINE Fits(w, r) == /\ DOMAIN r = DOMAIN Idle
                         /\ r.eligible \subseteq run[w].eligible \cup Catalog!Written
           Goal == /\ RunShape'
                   /\ \A w \in StorageWorkers :
                         run'[w].eligible \subseteq run[w].eligible \cup Catalog!Written
<1>1. ASSUME NEW w \in StorageWorkers, NEW r, Fits(w, r), SetRun(w, r)  PROVE Goal
  BY <1>1 DEF RunShape, SetRun
<1>2. ASSUME UNCHANGED run  PROVE Goal
  BY <1>2 DEF RunShape
<1>3. \A w \in StorageWorkers : Fits(w, Idle)
  BY DEF Idle
<1>4. ASSUME NEW w \in StorageWorkers, Stop(w)  PROVE Goal
  BY <1>1, <1>3, <1>4 DEF Stop
<1>5. TickWorker \in StorageWorkers /\ ApiWorkers \subseteq StorageWorkers
  BY DEF StorageWorkers
<1>6. CASE StartTick
  <2>1. Fits(TickWorker, BeginPasses(Idle, "age"))
    BY EmptyChoice
  <2> QED  BY <1>1, <1>5, <1>6, <2>1 DEF StartTick
<1>7. CASE StartBootAudit
  <2>1. Fits(TickWorker, [Idle EXCEPT !.job = "audit", !.at = "reconcile"])
    BY DEF Idle
  <2> QED  BY <1>1, <1>4, <1>5, <1>7, <2>1 DEF StartBootAudit
<1>8. ASSUME NEW w \in ApiWorkers, StartPurge(w) \/ StartCleanup(w)  PROVE Goal
  <2>1. Fits(w, BeginPasses([Idle EXCEPT !.job = "purge"], "age"))
    <3>1. DOMAIN [Idle EXCEPT !.job = "purge"] = DOMAIN Idle
      OBVIOUS
    <3> QED  BY <3>1, EmptyChoice
  <2>2. Fits(w, [Idle EXCEPT !.job = "cleanup", !.at = "metrics"])
    BY DEF Idle
  <2> QED  BY <1>1, <1>5, <1>8, <2>1, <2>2 DEF StartPurge, StartCleanup
<1>9. ASSUME NEW w \in StorageWorkers, StorageStep(w)  PROVE Goal
  <2>0. DOMAIN run[w] = DOMAIN Idle
    BY DEF RunShape
  <2>1. ASSUME NEW held
        PROVE  Fits(w, EndPass(run[w], held)) /\ Fits(w, NextIteration(run[w]))
    BY <2>0, EmptyChoice
  <2>2. CASE ListCandidates(w)
    <3> DEFINE found == Candidates(w)
               r == [run[w] EXCEPT !.at = IF run[w].mode = "capacity" THEN "pressure" ELSE "policy",
                                   !.page = Cardinality(found),
                                   !.eligible = Eligible(w, found)]
    <3>1. found \subseteq Catalog!Written
      BY DEF Candidates, Oldest, Catalog!Rows, Catalog!Statuses, Catalog!Written, ChoiceInv
    <3>2. Eligible(w, found) \subseteq found
      BY DEF Eligible
    <3>3. DOMAIN r = DOMAIN Idle /\ r.eligible = Eligible(w, found)
      BY <2>0 DEF Idle
    <3>4. Fits(w, r)
      BY <3>1, <3>2, <3>3
    <3>5. SetRun(w, EndPass(run[w], run[w].pass = "all" /\ run[w].skip > 0)) \/ SetRun(w, r)
      BY <2>2 DEF ListCandidates
    <3> QED  BY <1>1, <2>1, <3>4, <3>5
  <2>3. CASE CheckPressure(w)
    <3>1. Fits(w, [run[w] EXCEPT !.at = "policy"])
      BY <2>0 DEF Idle
    <3>2. DOMAIN [run[w] EXCEPT !.allHeld = FALSE] = DOMAIN Idle
      BY <2>0
    <3>3. Fits(w, EndPasses([run[w] EXCEPT !.allHeld = FALSE]))
      BY <3>2, EmptyChoice
    <3> QED  BY <1>1, <2>3, <3>1, <3>3 DEF CheckPressure
  <2>4. CASE ReadHolds(w)
    <3> DEFINE r == [run[w] EXCEPT !.at = "batch",
                        !.skip = @ + run[w].page - Cardinality(run[w].eligible \ hold),
                        !.eligible = {}]
    <3>1. Fits(w, r)
      BY <2>0 DEF Idle
    <3>2. SetRun(w, r)
      BY <2>4 DEF ReadHolds
    <3> QED  BY <1>1, <3>1, <3>2
  <2>5. CASE DeleteBatch(w)
    <3>1. Fits(w, [run[w] EXCEPT !.deleted = @ + 1]) /\ Fits(w, [run[w] EXCEPT !.skip = @ + 1])
      BY <2>0 DEF Idle
    <3> QED  BY <1>1, <1>2, <2>5, <3>1 DEF DeleteBatch, Deleted, Skipped
  <2>6. CASE EndBatch(w)
    <3>1. SetRun(w, EndPass(run[w], run[w].pass = "all")) \/ SetRun(w, NextIteration(run[w]))
      BY <2>6 DEF EndBatch
    <3> QED  BY <1>1, <2>1, <3>1
  <2>7. CASE CheckStorage(w) \/ StartReconciling(w) \/ ListAvailable(w)
    <3>1. \A at \in {"reconcile", "reconciling", "auditing"} : Fits(w, [run[w] EXCEPT !.at = at])
      BY <2>0 DEF Idle
    <3>2. Stop(w) \/ \E at \in {"reconcile", "reconciling", "auditing"} :
                        SetRun(w, [run[w] EXCEPT !.at = at])
      BY <2>7 DEF CheckStorage, StartReconciling, ListAvailable
    <3> QED  BY <1>1, <1>4, <3>1, <3>2
  <2>8. CASE Reconcile(w) \/ Audit(w) \/ Report(w) \/ EndAudit(w)
    BY <1>2, <1>4, <2>8 DEF Reconcile, Audit, Report, EndAudit
  <2>9. CASE EndReconciling(w)
    <3>1. Fits(w, BeginPasses(run[w], "capacity"))
      BY <2>0, EmptyChoice
    <3> QED  BY <1>1, <2>9, <3>1 DEF EndReconciling
  <2> QED  BY <1>9, <2>2, <2>3, <2>4, <2>5, <2>6, <2>7, <2>8, <2>9 DEF StorageStep
<1>10. CASE Restart
  BY <1>10 DEF Restart, RunShape, Idle
<1>11. CASE Expiring \/ Keeping
  BY <1>2, <1>11 DEF Expiring, Keeping
<1>12. ASSUME NEW s \in Segments, NEW status, Record(s, status)  PROVE Goal
  BY <1>2, <1>12 DEF Record
<1>13. ASSUME NEW s \in Segments, NEW t,
              PlaceHold(s) \/ ReleaseHold(s) \/ GrowOld(s) \/ Promote(s, t)
       PROVE  Goal
  BY <1>2, <1>13 DEF PlaceHold, ReleaseHold, GrowOld, Promote
<1>14. ASSUME NEW chosen, ExpireBuffered(chosen) \/ KeepBuffered(chosen)  PROVE Goal
  BY <1>2, <1>14 DEF ExpireBuffered, KeepBuffered
<1>15. ASSUME NEW v, ChangeVolume(v)  PROVE Goal
  BY <1>2, <1>15 DEF ChangeVolume
<1> QED
  BY <1>6, <1>7, <1>8, <1>9, <1>10, <1>11, <1>12, <1>13, <1>14, <1>15 DEF Next

LEMMA ChoiceStep ==
    ASSUME Catalog!TypeOK, ChoiceInv, RunShape, Next
    PROVE  ChoiceInv'
<1>1. CatalogMove
  BY StepMoves
<1>2. /\ \A s \in Segments : file'[s] = "unwritten" => row'[s] = "NONE"
      /\ Catalog!Written \subseteq Catalog!Written'
  BY <1>1, WrittenGrows
<1>3. \A w \in StorageWorkers : run'[w].eligible \subseteq run[w].eligible \cup Catalog!Written
  BY RunsStep
<1>4. \A w \in StorageWorkers : run[w].eligible \subseteq Catalog!Written
  BY DEF ChoiceInv
<1>5. \A w \in StorageWorkers : run'[w].eligible \subseteq Catalog!Written'
  BY <1>2, <1>3, <1>4
<1> QED  BY <1>2, <1>5 DEF ChoiceInv

ControllerInv == Catalog!TypeOK /\ ChoiceInv /\ RunShape

LEMMA ControllerInit == Init => ControllerInv /\ ShieldInv /\ Catalog!Init
<1> SUFFICES ASSUME Init  PROVE ControllerInv /\ ShieldInv /\ Catalog!Init
  OBVIOUS
<1>1. Catalog!Init /\ Catalog!TypeOK
  BY CatalogFacts, SameTypes, SameNext, CatalogProofs!InitTyped DEF Init
<1>2. RunShape
  BY DEF Init, RunShape
<1>3. ChoiceInv
  BY <1>1 DEF Init, ChoiceInv, Catalog!Init, Idle
<1>4. ShieldInv
  BY DEF Init, ShieldInv, HoldKeepsFootage
<1> QED  BY <1>1, <1>2, <1>3, <1>4 DEF ControllerInv

LEMMA ControllerStep == ControllerInv /\ [Next]_vars => ControllerInv'
<1> SUFFICES ASSUME ControllerInv, [Next]_vars  PROVE ControllerInv'
  OBVIOUS
<1>1. CASE Next
  <2>1. [Catalog!Next]_(Catalog!catalogVars)
    BY <1>1, StepMoves, MoveIsCatalogStep DEF ControllerInv
  <2> QED  BY <1>1, <2>1, CatalogStepTyped, ChoiceStep, RunsStep DEF ControllerInv
<1>2. CASE UNCHANGED vars
  BY <1>2 DEF vars, ControllerInv, Catalog!TypeOK, ChoiceInv, RunShape, Catalog!Written
<1> QED  BY <1>1, <1>2

(* What the controller lists, was written, and its records are whole. *)
THEOREM ControllerConsistent == Spec => []ControllerInv
<1> QED  BY ControllerInit, ControllerStep, PTL DEF Spec

(* storage-controller.ts against recording-catalog.ts: whatever the passes choose, and
   whoever runs beside them, the deletion primitive is used as RecordingCatalog allows. *)
THEOREM ControllerImplementsCatalog == Spec => ImplementsCatalog
<1>1. Init => Catalog!Init
  BY ControllerInit
<1>2. ControllerInv /\ [Next]_vars => [Catalog!Next]_(Catalog!catalogVars)
  <2> SUFFICES ASSUME ControllerInv, [Next]_vars  PROVE [Catalog!Next]_(Catalog!catalogVars)
    OBVIOUS
  <2>1. CASE Next
    BY <2>1, StepMoves, MoveIsCatalogStep DEF ControllerInv
  <2>2. CASE UNCHANGED vars
    BY <2>2 DEF vars, Catalog!catalogVars
  <2> QED  BY <2>1, <2>2
<1> QED  BY <1>1, <1>2, ControllerConsistent, PTL DEF Spec, ImplementsCatalog, Catalog!Spec

(* So the catalog's rows and files agree while the controller, the expiry and the audit
   run, crash and restart. *)
THEOREM CatalogStaysCorrect ==
    ASSUME HonestFaults
    PROVE  Spec => []Catalog!CatalogInv
<1>1. Spec => CatalogProofs!Spec
  BY SameNext, ControllerImplementsCatalog, PTL
     DEF ImplementsCatalog, Catalog!Spec, CatalogProofs!Spec
<1>2. CatalogProofs!Spec => []CatalogProofs!CatalogInv
  BY CatalogFacts, CatalogProofs!CatalogCorrect DEF HonestFaults
<1> QED  BY <1>1, <1>2, SameInv, PTL

-------------------------------------------------------------------------------
(* Shielded footage *)

(* What a step leaves to a shielded segment. *)
Untouched(s) ==
    /\ row'[s] \in {"AVAILABLE", "QUARANTINED"} /\ file'[s] = "present"
    /\ \A w \in Deleters :
         seg'[w] # s /\ (s \in todo'[w] => pc'[w] \in {"check", "missing"})

(* One worker's step: the lists of the others do not change. *)
LEMMA UntouchedByOne ==
    ASSUME Catalog!TypeOK, NEW s \in shielded, ShieldInv, NEW w \in Workers,
           row'[s] \in {"AVAILABLE", "QUARANTINED"}, file'[s] = "present",
           \A v \in Workers \ {w} : pc'[v] = pc[v] /\ todo'[v] = todo[v] /\ seg'[v] = seg[v],
           w \in Deleters => seg'[w] # s /\ (s \in todo'[w] => pc'[w] \in {"check", "missing"})
    PROVE  Untouched(s)
BY DEF Untouched, ShieldInv, Workers

(* deleteSegmentInternal. *)
LEMMA DeleteLeavesShielded ==
    ASSUME HonestFaults, Catalog!TypeOK, ShieldInv, NEW s \in shielded, s \in Segments,
           NEW w \in Deleters, Catalog!DeleteStep(w)
    PROVE  Untouched(s)
<1> USE DEF Catalog!TypeOK, Catalog!Goto, Catalog!Continue, Catalog!Take
<1>0. /\ row[s] \in {"AVAILABLE", "QUARANTINED"} /\ file[s] = "present"
      /\ seg[w] # s /\ (s \in todo[w] => pc[w] \in {"check", "missing"})
      /\ w \in Workers /\ NoSegment # s
  BY ControllerAssumption DEF ShieldInv, HoldKeepsFootage, Workers
<1> DEFINE Own == /\ row'[s] = row[s] /\ file'[s] = file[s]
                  /\ \A v \in Workers \ {w} :
                        pc'[v] = pc[v] /\ todo'[v] = todo[v] /\ seg'[v] = seg[v]
                  /\ seg'[w] # s /\ (s \in todo'[w] => pc'[w] \in {"check", "missing"})
<1>1. ASSUME NEW t \in Segments, Catalog!Mark(w, t)  PROVE Own
  BY <1>0, <1>1 DEF Catalog!Mark, Catalog!StatusUpdates
<1>2. ASSUME Catalog!UnlinkFile(w, "unlink", "removeRow")  PROVE Own
  BY <1>0, <1>2 DEF Catalog!UnlinkFile
<1>3. ASSUME Catalog!UnlinkFindsNothing(w) \/ Catalog!UnlinkFails(w)
             \/ Catalog!RowRemovalFailed(w, "removeRow", "garbage")  PROVE Own
  BY <1>0, <1>3 DEF Catalog!UnlinkFindsNothing, Catalog!UnlinkFails, Catalog!RowRemovalFailed
<1>4. ASSUME Catalog!RemoveRow(w, "removeRow", "mark") \/ Catalog!RemoveRow(w, "removeStaleRow", "mark")  PROVE Own
  BY <1>0, <1>4 DEF Catalog!RemoveRow, Catalog!RowRemoved
<1>5. ASSUME Catalog!StaleRowRemovalThrows(w)  PROVE Own
  BY <1>0, <1>5 DEF Catalog!StaleRowRemovalThrows
<1>6. ASSUME Catalog!MarkGarbage(w, "garbage", "mark")  PROVE Own
  BY <1>0, <1>6 DEF Catalog!MarkGarbage, Catalog!StatusUpdates
<1>7. Own
  BY ONLY Catalog!DeleteStep(w), <1>1, <1>2, <1>3, <1>4, <1>5, <1>6 DEF Catalog!DeleteStep
<1> QED  BY <1>0, <1>7, UntouchedByOne

(* reconcilePendingDeletions. *)
LEMMA ReconcileLeavesShielded ==
    ASSUME HonestFaults, Catalog!TypeOK, ShieldInv, NEW s \in shielded, s \in Segments,
           NEW w \in Deleters, Catalog!ReconcileStep(w) \/ Catalog!StartReconcile(w)
    PROVE  Untouched(s)
<1> USE DEF Catalog!TypeOK, Catalog!Goto, Catalog!Continue, Catalog!Take
<1>0. /\ row[s] \in {"AVAILABLE", "QUARANTINED"} /\ file[s] = "present"
      /\ seg[w] # s /\ (s \in todo[w] => pc[w] \in {"check", "missing"})
      /\ w \in Workers /\ NoSegment # s
  BY ControllerAssumption DEF ShieldInv, HoldKeepsFootage, Workers
<1> DEFINE Own == /\ row'[s] = row[s] /\ file'[s] = file[s]
                  /\ \A v \in Workers \ {w} :
                        pc'[v] = pc[v] /\ todo'[v] = todo[v] /\ seg'[v] = seg[v]
                  /\ seg'[w] # s /\ (s \in todo'[w] => pc'[w] \in {"check", "missing"})
<1>1. ASSUME NEW t \in Segments, Catalog!AccessFinds(w, t) \/ Catalog!AccessRejects(w, t)  PROVE Own
  BY <1>0, <1>1 DEF Catalog!AccessFinds, Catalog!AccessRejects
<1>2. ASSUME Catalog!UnlinkFile(w, "reUnlink", "reRemoveRow")  PROVE Own
  BY <1>0, <1>2 DEF Catalog!UnlinkFile
<1>3. ASSUME Catalog!ReUnlinkFails(w) \/ Catalog!RowRemovalFailed(w, "reRemoveRow", "reGarbage")  PROVE Own
  BY <1>0, <1>3 DEF Catalog!ReUnlinkFails, Catalog!RowRemovalFailed
<1>4. ASSUME Catalog!RemoveRow(w, "reRemoveRow", "access")
             \/ Catalog!RemoveRow(w, "reRemoveStaleRow", "access")  PROVE Own
  BY <1>0, <1>4 DEF Catalog!RemoveRow, Catalog!RowRemoved
<1>5. ASSUME Catalog!ReconcileThrows(w)  PROVE Own
  BY <1>0, <1>5 DEF Catalog!ReconcileThrows
<1>6. ASSUME Catalog!MarkGarbage(w, "reGarbage", "access")  PROVE Own
  BY <1>0, <1>6 DEF Catalog!MarkGarbage, Catalog!StatusUpdates
<1>7. ASSUME Catalog!StartReconcile(w)  PROVE Own
  BY <1>0, <1>7 DEF Catalog!StartReconcile, Catalog!Rows
<1>8. Own
  BY ONLY Catalog!ReconcileStep(w) \/ Catalog!StartReconcile(w),
     <1>1, <1>2, <1>3, <1>4, <1>5, <1>6, <1>7 DEF Catalog!ReconcileStep
<1> QED  BY <1>0, <1>8, UntouchedByOne

(* The audit, which finds the file. *)
LEMMA AuditLeavesShielded ==
    ASSUME HonestFaults, Catalog!TypeOK, ShieldInv, NEW s \in shielded, s \in Segments,
           NEW w \in Deleters, Catalog!AuditStep(w) \/ Catalog!StartAudit(w)
    PROVE  Untouched(s)
<1> USE DEF Catalog!TypeOK, Catalog!Goto, Catalog!Continue, Catalog!Take
<1>0. /\ row[s] \in {"AVAILABLE", "QUARANTINED"} /\ file[s] = "present"
      /\ seg[w] # s /\ (s \in todo[w] => pc[w] \in {"check", "missing"})
      /\ w \in Workers /\ NoSegment # s
  BY ControllerAssumption DEF ShieldInv, HoldKeepsFootage, Workers
<1>1. Faults \cap {"accessFails", "volumeGone"} = {}
  BY DEF HonestFaults, CatalogProofs!HonestFaults
<1> DEFINE Own == /\ row'[s] = row[s] /\ file'[s] = file[s]
                  /\ \A v \in Workers \ {w} :
                        pc'[v] = pc[v] /\ todo'[v] = todo[v] /\ seg'[v] = seg[v]
                  /\ seg'[w] # s /\ (s \in todo'[w] => pc'[w] \in {"check", "missing"})
<1>2. ASSUME NEW t \in Segments, Catalog!AuditFinds(w, t)  PROVE Own
  BY <1>0, <1>2 DEF Catalog!AuditFinds
<1>3. ASSUME NEW t \in Segments, Catalog!AuditMisses(w, t)  PROVE Own
  <2>1. t # s
    BY <1>0, <1>1, <1>3 DEF Catalog!AuditMisses, Catalog!AccessMayReject
  <2> QED  BY <1>0, <1>3, <2>1 DEF Catalog!AuditMisses
<1>4. ASSUME Catalog!MarkMissing(w)  PROVE Own
  BY <1>0, <1>4 DEF Catalog!MarkMissing, Catalog!StatusUpdates
<1>5. ASSUME Catalog!StartAudit(w)  PROVE Own
  BY <1>0, <1>5 DEF Catalog!StartAudit
<1>6. Own
  BY ONLY Catalog!AuditStep(w) \/ Catalog!StartAudit(w), <1>2, <1>3, <1>4, <1>5
     DEF Catalog!AuditStep
<1> QED  BY <1>0, <1>6, UntouchedByOne

LEMMA MoveLeavesShielded ==
    ASSUME HonestFaults, Catalog!TypeOK, ShieldInv, NEW s \in shielded, s \in Segments,
           CatalogMove
    PROVE  Untouched(s)
<1> USE DEF Catalog!TypeOK, Catalog!Goto
<1>0. /\ row[s] \in {"AVAILABLE", "QUARANTINED"} /\ file[s] = "present" /\ s \in hold
      /\ \A w \in Deleters :
            seg[w] # s /\ (s \in todo[w] => pc[w] \in {"check", "missing"}) /\ w \in Workers
      /\ MotionWorker \in Workers /\ NoSegment # s
  BY ControllerAssumption DEF ShieldInv, HoldKeepsFootage, Workers
<1>1. CASE UNCHANGED catalogVars
  BY <1>0, <1>1 DEF catalogVars, Untouched
<1>2. ASSUME NEW t \in Segments, NEW status, Catalog!Ingest(t, status)  PROVE Untouched(s)
  BY <1>0, <1>2 DEF Catalog!Ingest, Untouched
<1>3. ASSUME NEW w \in Deleters, NEW chosen \in SUBSET Segments, Choice(w, chosen)
      PROVE  Untouched(s)
  <2>1. s \notin chosen
    BY <1>0, <1>3 DEF Choice, Catalog!Rows
  <2> QED  BY <1>0, <1>3, <2>1, UntouchedByOne DEF Choice, Catalog!StartDelete
<1>4. ASSUME NEW chosen \in SUBSET Catalog!Rows({"BUFFERED"}),
             Catalog!StartKeep(MotionWorker, chosen)
      PROVE  Untouched(s)
  <2>1. s \notin chosen
    BY <1>0 DEF Catalog!Rows
  <2> QED  BY <1>0, <1>4, <2>1, UntouchedByOne DEF Catalog!StartKeep
<1>5. CASE Catalog!KeepStep(MotionWorker)
  <2> PICK t \in Segments : Catalog!Keep(MotionWorker, t)
    BY <1>5 DEF Catalog!KeepStep
  <2>1. row'[s] \in {"AVAILABLE", "QUARANTINED"} /\ file'[s] = "present"
    BY <1>0 DEF Catalog!Keep, Catalog!StatusUpdates
  <2>2. \A v \in Workers \ {MotionWorker} :
            pc'[v] = pc[v] /\ todo'[v] = todo[v] /\ seg'[v] = seg[v]
    BY DEF Catalog!Keep
  <2>3. /\ seg'[MotionWorker] = seg[MotionWorker] /\ pc[MotionWorker] = "keep"
        /\ todo'[MotionWorker] \subseteq todo[MotionWorker]
    BY <1>0 DEF Catalog!Keep
  <2> QED  BY <1>0, <2>1, <2>2, <2>3, UntouchedByOne
<1>6. CASE Catalog!Crash
  BY <1>0, <1>6 DEF Catalog!Crash, Untouched
<1> QED
  BY <1>1, <1>2, <1>3, <1>4, <1>5, <1>6, DeleteLeavesShielded, ReconcileLeavesShielded,
     AuditLeavesShielded DEF CatalogMove

LEMMA ShieldStep ==
    ASSUME HonestFaults, ControllerInv, Catalog!CatalogInv, shielded \subseteq Segments,
           ShieldInv, [Next]_vars
    PROVE  ShieldInv' /\ shielded' \subseteq Segments
<1> USE DEF ControllerInv
<1>1. CASE UNCHANGED vars
  BY <1>1 DEF vars, ShieldInv, HoldKeepsFootage
<1>2. CASE Next /\ UNCHANGED <<hold, shielded>>
  <2>1. \A s \in shielded : Untouched(s)
    BY <1>2, StepMoves, MoveLeavesShielded
  <2> QED  BY <1>2, <2>1 DEF Untouched, ShieldInv, HoldKeepsFootage
<1>3. ASSUME NEW s \in Segments, PlaceHold(s)  PROVE ShieldInv' /\ shielded' \subseteq Segments
  <2>1. row[s] \in {"AVAILABLE", "QUARANTINED"} => file[s] = "present"
    BY DEF Catalog!CatalogInv, Catalog!ListedHasFile, Catalog!Listed
  <2>2. ~Reached(s) => \A w \in Deleters : seg[w] # s /\ s \notin todo[w]
    BY DEF Reached
  <2>3. UNCHANGED <<file, row, pc, todo, seg>> /\ hold' = hold \cup {s}
    BY <1>3 DEF PlaceHold, catalogVars
  <2>4. shielded' = IF row[s] \in {"AVAILABLE", "QUARANTINED"} /\ ~Reached(s)
                    THEN shielded \cup {s} ELSE shielded
    BY <1>3 DEF PlaceHold
  <2> QED  BY <2>1, <2>2, <2>3, <2>4 DEF ShieldInv, HoldKeepsFootage
<1>4. ASSUME NEW s \in Segments, ReleaseHold(s)  PROVE ShieldInv' /\ shielded' \subseteq Segments
  BY <1>4 DEF ReleaseHold, catalogVars, ShieldInv, HoldKeepsFootage
<1> QED  BY <1>1, <1>2, <1>3, <1>4, StepMoves

(* CONTEXT.md:46 (retention-policy.ts and storage-controller.ts against the holds): a hold
   placed before any worker has chosen the footage keeps it, through any number of passes,
   purges, cleanups, audits and restarts at once, until it is released.  The holds are read
   once for a page and not again, and nothing else protects the footage. *)
THEOREM HeldFootageStays ==
    ASSUME HonestFaults
    PROVE  Spec => []HoldKeepsFootage
<1> DEFINE Shielded == ShieldInv /\ shielded \subseteq Segments
<1>1. Init => Shielded
  BY ControllerInit DEF Init
<1>2. ControllerInv /\ Catalog!CatalogInv /\ Shielded /\ [Next]_vars => Shielded'
  BY ShieldStep
<1>3. Shielded => HoldKeepsFootage
  BY DEF ShieldInv
<1> QED
  BY <1>1, <1>2, <1>3, ControllerConsistent, CatalogStaysCorrect, PTL DEF Spec
================================================================================
