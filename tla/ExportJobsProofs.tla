--------------------------- MODULE ExportJobsProofs ---------------------------
(***************************************************************************)
(* Exports for any number of jobs, segments, passes and crashes: what a    *)
(* completed export holds, that its checksum is of its file, and that no   *)
(* hold outlives its task.                                                 *)
(***************************************************************************)
EXTENDS ExportJobs, FiniteSetTheorems, TLAPS

USE ExportAssumption

-------------------------------------------------------------------------------
(* Types. *)

JobTypes ==
    /\ status \in [Jobs -> Statuses]
    /\ pc \in [Jobs -> Working \cup {"new", "done", "lost"}]
    /\ found \in [Jobs -> SUBSET Segments]
    /\ copied \in [Jobs -> SUBSET Segments]
    /\ name \in [Jobs -> Jobs]
    /\ sum \in [Jobs -> Contents]
    /\ output \in [Jobs -> Contents]

LEMMA InitTypeOK == Init => TypeOK
  BY DEF Init, TypeOK, Statuses, Active, Working, Contents, NoFile, NoPrune

LEMMA RequestTypeOK == ASSUME TypeOK, NEW j \in Jobs, Request(j) PROVE TypeOK'
  BY DEF TypeOK, Request, Persist, Goto, Statuses, Active, Working, Available, footageVars

LEMMA ExecutingTypes ==
    ASSUME JobTypes, NEW j \in Jobs, Executing(j), UNCHANGED output
    PROVE  JobTypes'
<1> USE DEF JobTypes, Goto, Persist, PersistRejects, End, Statuses, Active, Working
<1>1. CASE Lookup(j)
  <2>1. InRange(j) \subseteq Segments
    BY DEF InRange, Available
  <2>2. LookupOutcomes(j) \subseteq {"refuse", "validate", "start", "lost"}
    BY DEF LookupOutcomes
  <2> QED BY <1>1, <2>1, <2>2 DEF Lookup
<1>2. CASE Validate(j)
  BY <1>2 DEF Validate
<1>3. CASE Refuse(j)
  BY <1>3 DEF Refuse
<1>4. CASE Start(j)
  BY <1>4 DEF Start, FileNames
<1>5. CASE StartRejects(j)
  BY <1>5 DEF StartRejects
<1>6. CASE Hash(j)
  BY <1>6 DEF Hash
<1>7. CASE Complete(j)
  BY <1>7 DEF Complete
<1>8. CASE Fail(j)
  BY <1>8 DEF Fail
<1> QED BY <1>1, <1>2, <1>3, <1>4, <1>5, <1>6, <1>7, <1>8 DEF Executing

LEMMA CopyingTypes ==
    ASSUME JobTypes, NEW j \in Jobs, Copying(j)
    PROVE  JobTypes'
<1> USE DEF JobTypes, Goto, Working
<1>1. CASE Open(j)
  BY <1>1 DEF Open, Contents
<1>2. CASE \E s \in Segments : CopySegment(j, s)
  <2>1. PICK s \in Segments : CopySegment(j, s)
    BY <1>2
  <2>2. [by |-> j, clip |-> copied[j] \cup {s}] \in Contents
    BY DEF Contents
  <2> QED BY <2>1, <2>2 DEF CopySegment
<1>3. CASE \E s \in Segments : CopyMisses(j, s)
  BY <1>3 DEF CopyMisses
<1>4. CASE FfmpegExits(j)
  BY <1>4 DEF FfmpegExits
<1>5. CASE FfmpegFails(j)
  BY <1>5 DEF FfmpegFails
<1> QED BY <1>1, <1>2, <1>3, <1>4, <1>5 DEF Copying

PruneType ==
    [at : {"idle", "unlink", "reread", "save"}, todo : SUBSET Jobs, job : Jobs \cup {NoJob}]

LEMMA NextDueType ==
    ASSUME NEW p \in Pruners, prune \in [Pruners -> PruneType]
    PROVE  NextDue(p) \in PruneType
  BY DEF NextDue, NoPrune, PruneType

LEMMA PruneTypeOK == ASSUME TypeOK, NEW p \in Pruners, PruneStep(p) PROVE TypeOK'
<1>1. prune \in [Pruners -> PruneType]
  BY DEF TypeOK, PruneType
<1>2. NextDue(p) \in PruneType
  BY <1>1, NextDueType
<1>3. UNCHANGED <<pc, found, copied, name, sum, expired, seg, chosen, camera, crashes,
                  asked, shielded>>
  BY DEF PruneStep, execVars, footageVars, historyVars
<1>4. SUFFICES /\ prune' \in [Pruners -> PruneType]
               /\ status' \in [Jobs -> Statuses]
               /\ output' \in [Jobs -> Contents]
  BY <1>3 DEF TypeOK, PruneType
<1>5. CASE PruneStart(p)
  BY <1>1, <1>5 DEF PruneStart, PruneType, TypeOK, Due
<1>6. CASE \E j \in Jobs : PruneUnlink(p, j)
  BY <1>1, <1>6 DEF PruneUnlink, PruneType, TypeOK, NoFile, Contents
<1>7. CASE PruneReread(p)
  BY <1>1, <1>2, <1>7 DEF PruneReread, PruneType, TypeOK
<1>8. CASE PruneSave(p)
  <2>1. NoPrune \in PruneType
    BY DEF NoPrune, PruneType
  <2>2. prune' \in [Pruners -> PruneType]
    BY <1>1, <1>2, <1>8, <2>1 DEF PruneSave
  <2>3. status' \in [Jobs -> Statuses]
    BY <1>8 DEF PruneSave, TypeOK, Persist, PersistRejects, Statuses
  <2> QED BY <1>8, <2>2, <2>3 DEF PruneSave, TypeOK
<1> QED BY <1>5, <1>6, <1>7, <1>8 DEF PruneStep

LEMMA NextTypeOK == TypeOK /\ [Next]_vars => TypeOK'
<1> SUFFICES ASSUME TypeOK, [Next]_vars PROVE TypeOK'
  OBVIOUS
<1>1. CASE \E j \in Jobs : Request(j)
  BY <1>1, RequestTypeOK
<1>2. ASSUME NEW j \in Jobs, JobStep(j) PROVE TypeOK'
  <2>1. JobTypes'
    BY <1>2, ExecutingTypes, CopyingTypes DEF JobStep, TypeOK, JobTypes
  <2> QED BY <1>2, <2>1 DEF JobStep, TypeOK, JobTypes, footageVars, historyVars
<1>3. CASE \E j \in Jobs : Expire(j)
  BY <1>3 DEF Expire, TypeOK, execVars, footageVars, historyVars
<1>4. CASE \E d \in Deleters : Choose(d)
  BY <1>4 DEF Choose, Available, TypeOK, execVars, historyVars
<1>5. CASE \E d \in Deleters : \E s \in Segments : Mark(d, s)
  BY <1>5 DEF Mark, TypeOK, execVars, historyVars
<1>6. CASE \E s \in Segments : Unlink(s)
  BY <1>6 DEF Unlink, TypeOK, execVars, historyVars
<1>7. CASE \E p \in Pruners : PruneStep(p)
  BY <1>7, PruneTypeOK
<1>8. CASE RemoveCamera
  BY <1>8 DEF RemoveCamera, TypeOK, execVars, historyVars, Statuses
<1>9. CASE Crash
  BY <1>9 DEF Crash, TypeOK, historyVars, NoPrune
<1>10. CASE UNCHANGED vars
  BY <1>10 DEF vars, TypeOK
<1> QED BY <1>1, <1>2, <1>3, <1>4, <1>5, <1>6, <1>7, <1>8, <1>9, <1>10 DEF Next

(* Every state of the export service, of its database rows and of the passes beside it
   has its type, whatever fails. *)
THEOREM TypeCorrect == Spec => []TypeOK
  BY InitTypeOK, NextTypeOK, PTL DEF Spec

-------------------------------------------------------------------------------
(* A step of a job leaves the other jobs alone. *)

JobInv(j) == RowInv(j) /\ FileInv(j) /\ HoldInv(j)

JobUnchanged(i) ==
    /\ status'[i] = status[i] /\ pc'[i] = pc[i] /\ found'[i] = found[i]
    /\ copied'[i] = copied[i] /\ name'[i] = name[i] /\ sum'[i] = sum[i]
    /\ output'[i] = output[i]

LEMMA JobStepFrame ==
    ASSUME TypeOK, NEW j \in Jobs, JobStep(j), name[j] = j
    PROVE  /\ pc[j] \in Working
           /\ \A i \in Jobs \ {j} : JobUnchanged(i)
<1> USE DEF TypeOK, Goto, Persist, PersistRejects, End, Working, JobUnchanged
<1>1. CASE Copying(j)
  BY <1>1 DEF Copying, Open, CopySegment, CopyMisses, FfmpegExits, FfmpegFails
<1>2. CASE Executing(j) /\ UNCHANGED output
  BY <1>2 DEF Executing, Lookup, Validate, Refuse, Start, StartRejects, Hash, Complete, Fail
<1> QED BY <1>1, <1>2 DEF JobStep

(* What a job's invariant depends on, besides its own variables. *)
LEMMA FrameKeepsJobInv ==
    ASSUME NEW i \in Jobs, JobInv(i), JobUnchanged(i),
           UNCHANGED <<expired, seg, chosen, camera, asked, shielded>>
    PROVE  JobInv(i)'
<1>1. RowInv(i)'
  BY DEF JobInv, RowInv, JobUnchanged
<1>2. FileInv(i)'
  BY DEF JobInv, FileInv, JobUnchanged, Exists
<1>3. HoldInv(i)'
  BY DEF JobInv, HoldInv, JobUnchanged, Available, Small
<1> QED BY <1>1, <1>2, <1>3 DEF JobInv

-------------------------------------------------------------------------------
(* A step of a job keeps its own invariant. *)

(* A range query that is not cut off returns every row of the range. *)
LEMMA NothingCutOff ==
    ASSUME NEW S, IsFiniteSet(S), S \subseteq Nat, Cardinality(S) <= MaxSegments
    PROVE  {s \in S : Cardinality({t \in S : t < s}) < MaxSegments} = S
<1> SUFFICES ASSUME NEW s \in S PROVE Cardinality({t \in S : t < s}) < MaxSegments
  OBVIOUS
<1>1. IsFiniteSet(S \ {s}) /\ Cardinality(S \ {s}) = Cardinality(S) - 1
  BY FS_RemoveElement
<1>2. {t \in S : t < s} \in SUBSET (S \ {s})
  OBVIOUS
<1>3. /\ IsFiniteSet({t \in S : t < s})
      /\ Cardinality({t \in S : t < s}) <= Cardinality(S \ {s})
  BY <1>1, <1>2, FS_Subset
<1>4. Cardinality(S) \in Nat /\ Cardinality({t \in S : t < s}) \in Nat
  BY <1>3, FS_CardinalityType
<1> QED BY <1>1, <1>3, <1>4

LEMMA RangeIsWhole ==
    ASSUME TypeOK, NEW j \in Jobs, Small(j), asked[j] = Window[j] \cap Available
    PROVE  InRange(j) = asked[j]
<1>1. asked[j] \in SUBSET Segments
  BY DEF TypeOK
<1>2. IsFiniteSet(asked[j]) /\ asked[j] \subseteq Nat
  BY <1>1, FS_Subset
<1> QED BY <1>2, NothingCutOff DEF InRange, Small

UniqueNames == "sameInstant" \notin Faults

LEMMA ExecutingKeepsJobInv ==
    ASSUME UniqueNames, TypeOK, NEW j \in Jobs, JobInv(j), Executing(j),
           UNCHANGED <<output, expired, seg, chosen, camera, asked, shielded>>
    PROVE  JobInv(j)'
<1> USE DEF TypeOK, JobInv, RowInv, FileInv, HoldInv, Goto, Working, Active, Exists, Available, Small
<1>1. CASE Lookup(j)
  <2>1. pc'[j] \in {"refuse", "validate", "start", "lost"}
    BY <1>1 DEF Lookup, LookupOutcomes
  <2>2. /\ pc[j] = "lookup" /\ found'[j] = InRange(j)
        /\ UNCHANGED <<status, copied, name, sum>>
    BY <1>1 DEF Lookup
  <2>3. j \in shielded /\ camera /\ Small(j) => found'[j] = asked[j]
    BY <2>2, RangeIsWhole
  <2> QED BY <2>1, <2>2, <2>3
<1>2. CASE Validate(j)
  BY <1>2 DEF Validate
<1>3. CASE Refuse(j)
  BY <1>3 DEF Refuse, Persist, PersistRejects, End
<1>4. CASE Start(j)
  BY <1>4 DEF Start, FileNames, UniqueNames, Persist
<1>5. CASE StartRejects(j)
  BY <1>5 DEF StartRejects, PersistRejects, End
<1>6. CASE Hash(j)
  BY <1>6 DEF Hash
<1>7. CASE Complete(j)
  BY <1>7 DEF Complete, Persist, PersistRejects, End
<1>8. CASE Fail(j)
  BY <1>8 DEF Fail, Persist, PersistRejects, End
<1> QED BY <1>1, <1>2, <1>3, <1>4, <1>5, <1>6, <1>7, <1>8 DEF Executing

LEMMA CopyingKeepsJobInv ==
    ASSUME TypeOK, NEW j \in Jobs, JobInv(j), Copying(j),
           UNCHANGED <<expired, seg, chosen, camera, asked, shielded>>
    PROVE  JobInv(j)'
<1> USE DEF TypeOK, JobInv, RowInv, FileInv, HoldInv, Goto, Working, Active, Exists, NoFile,
            Available, Small
<1>1. CASE Open(j)
  BY <1>1 DEF Open
<1>2. CASE \E s \in Segments : CopySegment(j, s)
  BY <1>2 DEF CopySegment
<1>3. CASE \E s \in Segments : CopyMisses(j, s)
  BY <1>3 DEF CopyMisses
<1>4. CASE FfmpegExits(j)
  BY <1>4 DEF FfmpegExits
<1>5. CASE FfmpegFails(j)
  BY <1>5 DEF FfmpegFails
<1> QED BY <1>1, <1>2, <1>3, <1>4, <1>5 DEF Copying

-------------------------------------------------------------------------------
(* One lemma per group of actions. *)

LEMMA JobStepKeepsInv ==
    ASSUME UniqueNames, ExportInv, NEW j \in Jobs, JobStep(j)
    PROVE  /\ \A i \in Jobs : JobInv(i)'
           /\ \A p \in Pruners : PruneInv(p)'
<1>1. TypeOK /\ JobInv(j) /\ name[j] = j
  BY DEF ExportInv, JobInv, FileInv
<1>2. UNCHANGED <<expired, seg, chosen, prune, camera, asked, shielded>>
  BY DEF JobStep, footageVars, historyVars
<1>3. pc[j] \in Working /\ \A i \in Jobs \ {j} : JobUnchanged(i)
  BY <1>1, JobStepFrame
<1>4. ASSUME NEW i \in Jobs PROVE JobInv(i)'
  <2>1. CASE i = j
    BY <1>1, <1>2, <2>1, ExecutingKeepsJobInv, CopyingKeepsJobInv DEF JobStep
  <2>2. CASE i # j
    BY <1>2, <1>3, <2>2, FrameKeepsJobInv DEF ExportInv, JobInv
  <2> QED BY <2>1, <2>2
<1>5. ASSUME NEW p \in Pruners PROVE PruneInv(p)'
  <2>1. \A i \in Jobs : Prunable(i) => Prunable(i)'
    BY <1>2, <1>3 DEF Prunable, Working, JobUnchanged
  <2>2. prune[p].todo \subseteq Jobs
    BY <1>1 DEF TypeOK
  <2> QED BY <1>2, <2>1, <2>2 DEF ExportInv, PruneInv
<1> QED BY <1>4, <1>5

LEMMA RequestKeepsInv ==
    ASSUME ExportInv, NEW j \in Jobs, Request(j)
    PROVE  /\ \A i \in Jobs : JobInv(i)'
           /\ \A p \in Pruners : PruneInv(p)'
<1> USE DEF Request, Persist, Goto, footageVars
<1>1. TypeOK
  BY DEF ExportInv
<1>2. ASSUME NEW i \in Jobs PROVE JobInv(i)'
  <2>1. RowInv(i)'
    BY <1>1 DEF ExportInv, TypeOK, RowInv, Active, Working
  <2>2. FileInv(i)'
    BY <1>1 DEF ExportInv, TypeOK, RowInv, FileInv, Exists
  <2>3. HoldInv(i)'
    BY <1>1 DEF ExportInv, TypeOK, RowInv, HoldInv, Available, Small, Working
  <2> QED BY <2>1, <2>2, <2>3 DEF JobInv
<1>3. ASSUME NEW p \in Pruners PROVE PruneInv(p)'
  <2>1. \A i \in Jobs : Prunable(i) => Prunable(i)'
    BY <1>1 DEF TypeOK, Prunable
  <2>2. prune[p].todo \subseteq Jobs
    BY <1>1 DEF TypeOK
  <2> QED BY <2>1, <2>2 DEF ExportInv, PruneInv
<1> QED BY <1>2, <1>3

(* Time, the deletion passes, the removal of the camera. *)
LEMMA WorldKeepsInv ==
    ASSUME ExportInv,
           \/ \E j \in Jobs : Expire(j)
           \/ \E d \in Deleters : Choose(d) \/ \E s \in Segments : Mark(d, s)
           \/ \E s \in Segments : Unlink(s)
           \/ RemoveCamera
    PROVE  /\ \A i \in Jobs : JobInv(i)'
           /\ \A p \in Pruners : PruneInv(p)'
<1> USE DEF execVars, historyVars, footageVars
<1>1. TypeOK /\ \A i \in Jobs : JobInv(i)
  BY DEF ExportInv, JobInv
<1>2. CASE \E j \in Jobs : Expire(j)
  BY <1>1, <1>2 DEF Expire, ExportInv, TypeOK, JobInv, RowInv, FileInv, HoldInv, Exists,
                    Available, Small, PruneInv, Prunable
<1>3. CASE \E d \in Deleters : Choose(d)
  <2>1. PICK d \in Deleters : Choose(d)
    BY <1>3
  <2>2. ASSUME NEW i \in Jobs, i \in shielded, pc[i] \in Working, camera
        PROVE  asked[i] \cap chosen'[d] = {}
    <3>1. asked[i] \subseteq Held
      BY <1>1, <2>2 DEF JobInv, RowInv, HoldInv, Held
    <3> QED BY <1>1, <2>1, <3>1 DEF Choose, TypeOK
  <2>3. \A i \in Jobs : JobInv(i)'
    BY <1>1, <2>1, <2>2 DEF Choose, TypeOK, JobInv, RowInv, FileInv, HoldInv, Exists,
                            Available, Small
  <2> QED BY <2>1, <2>3 DEF Choose, ExportInv, PruneInv, Prunable
<1>4. CASE \E d \in Deleters : \E s \in Segments : Mark(d, s)
  BY <1>1, <1>4 DEF Mark, ExportInv, TypeOK, JobInv, RowInv, FileInv, HoldInv, Exists,
                    Available, Small, PruneInv, Prunable
<1>5. CASE \E s \in Segments : Unlink(s)
  BY <1>1, <1>5 DEF Unlink, ExportInv, TypeOK, JobInv, RowInv, FileInv, HoldInv, Exists,
                    Available, Small, PruneInv, Prunable
<1>6. CASE RemoveCamera
  BY <1>1, <1>6 DEF RemoveCamera, ExportInv, TypeOK, JobInv, RowInv, FileInv, HoldInv,
                    Exists, Available, Small, PruneInv, Prunable, Working, Active
<1> QED BY <1>2, <1>3, <1>4, <1>5, <1>6

LEMMA CrashKeepsInv ==
    ASSUME ExportInv, Crash
    PROVE  /\ \A i \in Jobs : JobInv(i)'
           /\ \A p \in Pruners : PruneInv(p)'
  BY DEF Crash, historyVars, ExportInv, TypeOK, JobInv, RowInv, FileInv, HoldInv,
         Exists, Available, Small, PruneInv, Prunable, Working, NoPrune

LEMMA PruneKeepsInv ==
    ASSUME ExportInv, NEW p \in Pruners, PruneStep(p)
    PROVE  /\ \A i \in Jobs : JobInv(i)'
           /\ \A q \in Pruners : PruneInv(q)'
<1> USE DEF execVars, historyVars, footageVars
<1>1. TypeOK /\ \A i \in Jobs : JobInv(i)
  BY DEF ExportInv, JobInv
<1>2. UNCHANGED <<pc, found, copied, name, sum, expired, seg, chosen, camera, asked, shielded>>
  BY DEF PruneStep
<1>3. prune[p].todo \subseteq Jobs /\ PruneInv(p)
  BY <1>1 DEF TypeOK, ExportInv
<1>4. ASSUME status' = status, output' = output PROVE \A i \in Jobs : JobInv(i)'
  BY <1>1, <1>2, <1>4, FrameKeepsJobInv DEF JobUnchanged
<1>5. CASE PruneStart(p)
  <2>1. \A j \in Due : Prunable(j)
    BY <1>1 DEF Due, Prunable, JobInv, RowInv
  <2>2. \A q \in Pruners : PruneInv(q)'
    BY <1>1, <1>2, <1>5, <2>1 DEF PruneStart, ExportInv, TypeOK, PruneInv, Prunable
  <2> QED BY <1>4, <1>5, <2>2 DEF PruneStart
<1>6. CASE \E j \in Jobs : PruneUnlink(p, j)
  <2>1. PICK j \in Jobs : PruneUnlink(p, j)
    BY <1>6
  <2>2. Prunable(j) /\ name[j] = j
    BY <1>1, <1>3, <2>1 DEF PruneUnlink, PruneInv, JobInv, FileInv
  <2>3. \A i \in Jobs : JobInv(i)'
    BY <1>1, <1>2, <2>1, <2>2 DEF PruneUnlink, TypeOK, JobInv, RowInv, FileInv, HoldInv,
         Exists, Available, Small, Prunable, Working
  <2>4. \A q \in Pruners : PruneInv(q)'
    BY <1>1, <1>2, <2>1, <2>2 DEF PruneUnlink, ExportInv, TypeOK, PruneInv, Prunable
  <2> QED BY <2>3, <2>4
<1>7. CASE PruneReread(p)
  <2>1. \A q \in Pruners : PruneInv(q)'
    BY <1>1, <1>2, <1>7 DEF PruneReread, NextDue, NoPrune, ExportInv, TypeOK, PruneInv,
         Prunable
  <2> QED BY <1>4, <1>7, <2>1 DEF PruneReread
<1>8. CASE PruneSave(p)
  <2>1. prune[p].job \in Jobs /\ Prunable(prune[p].job)
    BY <1>3, <1>8 DEF PruneSave, PruneInv
  <2>2. \A i \in Jobs : JobInv(i)'
    BY <1>1, <1>2, <1>8, <2>1 DEF PruneSave, Persist, PersistRejects, TypeOK, JobInv, RowInv,
         FileInv, HoldInv, Exists, Available, Small, Prunable, Working, Active
  <2>3. \A q \in Pruners : PruneInv(q)'
    <3>1. \A j \in Jobs : Prunable(j) => Prunable(j)'
      BY <1>1, <1>2, <1>8, <2>1 DEF PruneSave, Persist, PersistRejects, TypeOK, Prunable
    <3>2. PruneInv(p)'
      <4>1. /\ prune'[p].at \notin {"reread", "save"}
            /\ prune'[p].todo \subseteq prune[p].todo
        BY <1>1, <1>8 DEF PruneSave, NextDue, NoPrune, TypeOK
      <4> QED BY <1>3, <3>1, <4>1 DEF PruneInv
    <3>3. ASSUME NEW q \in Pruners, q # p PROVE PruneInv(q)'
      <4>1. prune'[q] = prune[q] /\ prune[q].todo \subseteq Jobs
        BY <1>1, <1>8, <3>3 DEF PruneSave, TypeOK
      <4> QED BY <3>1, <4>1 DEF ExportInv, PruneInv
    <3> QED BY <3>2, <3>3
  <2> QED BY <2>2, <2>3
<1> QED BY <1>5, <1>6, <1>7, <1>8 DEF PruneStep

-------------------------------------------------------------------------------
(* The theorems. *)

LEMMA InitExportInv == Init => ExportInv
  BY InitTypeOK DEF Init, ExportInv, RowInv, FileInv, HoldInv, PruneInv, NoPrune, Working,
     Available, Exists, NoFile

LEMMA NextExportInv == UniqueNames /\ ExportInv /\ [Next]_vars => ExportInv'
<1> SUFFICES ASSUME UniqueNames, ExportInv, [Next]_vars PROVE ExportInv'
  OBVIOUS
<1>1. TypeOK'
  BY NextTypeOK DEF ExportInv
<1>2. SUFFICES /\ \A i \in Jobs : JobInv(i)'
               /\ \A p \in Pruners : PruneInv(p)'
  BY <1>1 DEF ExportInv, JobInv
<1>3. CASE UNCHANGED vars
  BY <1>3 DEF vars, ExportInv, JobInv, RowInv, FileInv, HoldInv, Exists, Available, Small,
     PruneInv, Prunable
<1>4. CASE Next
  BY <1>4, JobStepKeepsInv, RequestKeepsInv, WorldKeepsInv, CrashKeepsInv, PruneKeepsInv
     DEF Next
<1> QED BY <1>3, <1>4

(* When no two exports of a camera start in one millisecond, the invariant that ties rows,
   tasks, files, prunes and holds together holds, whatever else fails. *)
THEOREM ExportsCorrect == UniqueNames /\ Spec => []ExportInv
<1>1. UniqueNames => (Spec => []ExportInv)
  <2> SUFFICES ASSUME UniqueNames PROVE Spec => []ExportInv
    OBVIOUS
  <2>1. ExportInv /\ [Next]_vars => ExportInv'
    BY NextExportInv
  <2> QED BY InitExportInv, <2>1, PTL DEF Spec
<1> QED BY <1>1

(* A completed export holds all the footage asked for, if its hold came in time: for any
   number of exports, deletion passes, failures and restarts. *)
THEOREM HoldsServeExports == UniqueNames /\ Spec => []HeldExportIsWhole
<1>1. ExportInv => HeldExportIsWhole
  BY DEF ExportInv, TypeOK, HoldInv, HeldExportIsWhole, Small
<1> QED BY <1>1, ExportsCorrect, PTL

(* The checksum of an export is of the file under its name as long as there is one, and
   there is one until the export expires. *)
THEOREM ChecksumsHold == UniqueNames /\ Spec => []ChecksumIsOfTheFile
<1>1. ExportInv => ChecksumIsOfTheFile
  BY DEF ExportInv, FileInv, ChecksumIsOfTheFile, Downloadable, Exists
<1> QED BY <1>1, ExportsCorrect, PTL

LEMMA JobStepEndsHold ==
    ASSUME "dbFails" \notin Faults, TypeOK, NEW j \in Jobs, RowInv(j), JobStep(j)
    PROVE  status'[j] \in Active => pc'[j] \in Working \cup {"lost"}
<1> USE DEF TypeOK, RowInv, Goto, Persist, PersistRejects, End, Working, Active
<1>1. CASE Copying(j)
  BY <1>1 DEF Copying, Open, CopySegment, CopyMisses, FfmpegExits, FfmpegFails
<1>2. CASE Lookup(j)
  BY <1>2 DEF Lookup, LookupOutcomes
<1>3. CASE Validate(j) \/ Start(j) \/ StartRejects(j) \/ Hash(j)
  BY <1>3 DEF Validate, Start, StartRejects, Hash
<1>4. CASE Refuse(j) \/ Complete(j) \/ Fail(j)
  BY <1>4 DEF Refuse, Complete, Fail
<1> QED BY <1>1, <1>2, <1>3, <1>4 DEF JobStep, Executing

LEMMA NextOverHoldsNothing ==
    ASSUME UniqueNames, "dbFails" \notin Faults, ExportInv, OverHoldsNothing, [Next]_vars
    PROVE  OverHoldsNothing'
<1> USE DEF OverHoldsNothing, execVars
<1>1. TypeOK
  BY DEF ExportInv
<1>2. CASE \E j \in Jobs : Request(j)
  BY <1>1, <1>2 DEF Request, Persist, Goto, TypeOK, Working
<1>3. ASSUME NEW j \in Jobs, JobStep(j) PROVE OverHoldsNothing'
  <2>1. \A i \in Jobs \ {j} : JobUnchanged(i)
    BY <1>1, <1>3, JobStepFrame DEF ExportInv, FileInv
  <2>2. status'[j] \in Active => pc'[j] \in Working \cup {"lost"}
    BY <1>1, <1>3, JobStepEndsHold DEF ExportInv
  <2> QED BY <2>1, <2>2 DEF JobUnchanged
<1>4. CASE \E p \in Pruners : PruneStep(p)
  BY <1>1, <1>4 DEF PruneStep, PruneStart, PruneUnlink, PruneReread, PruneSave, Persist,
       PersistRejects, TypeOK, Active
<1>5. CASE RemoveCamera \/ Crash
  BY <1>1, <1>5 DEF RemoveCamera, Crash, TypeOK, Active
<1>6. CASE \/ \E j \in Jobs : Expire(j)
           \/ \E d \in Deleters : Choose(d) \/ \E s \in Segments : Mark(d, s)
           \/ \E s \in Segments : Unlink(s)
           \/ UNCHANGED vars
  BY <1>6 DEF Expire, Choose, Mark, Unlink, vars
<1> QED BY <1>2, <1>3, <1>4, <1>5, <1>6 DEF Next

(* When the database answers, an execution that is over has ended its hold on footage;
   only the end of the process can leave one behind. *)
THEOREM HoldsEnd == UniqueNames /\ "dbFails" \notin Faults /\ Spec => []OverHoldsNothing
<1>1. ASSUME UniqueNames, "dbFails" \notin Faults
      PROVE  ExportInv /\ OverHoldsNothing /\ [Next]_vars => OverHoldsNothing'
  BY <1>1, NextOverHoldsNothing
<1>2. Init => OverHoldsNothing
  BY DEF Init, OverHoldsNothing, Active
<1>3. ASSUME UniqueNames, "dbFails" \notin Faults PROVE Spec => []OverHoldsNothing
  <2>1. ExportInv /\ OverHoldsNothing /\ [Next]_vars => OverHoldsNothing'
    BY <1>1, <1>3
  <2>2. Spec => []ExportInv
    BY <1>3, ExportsCorrect
  <2> QED BY <1>2, <2>1, <2>2, PTL DEF Spec
<1> QED BY <1>3
===============================================================================
