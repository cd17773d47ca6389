------------------------------ MODULE TieredStorage ------------------------------
(***************************************************************************)
(* The offload of recordings to a second storage                           *)
(* (storage/tiered-storage-manager.ts, storage/local-storage-provider.ts): *)
(* tasks in the memory of the process, at most MaxConcurrent of them       *)
(* uploading at a time, each drained by the one that ends before it.       *)
(***************************************************************************)
EXTENDS Naturals, FiniteSets

CONSTANTS Tasks,          \* calls of enqueueOffload
          Keys,           \* objects they offload
          MaxConcurrent   \* maxConcurrentUploads, at least 1

VARIABLES secondary,      \* a second provider is set
          late,           \* it was set while tasks waited, and nothing was queued since
          task,           \* each task: its key and status
          activeUploads,
          primary,        \* the keys whose file is there
          remote          \* what the second storage holds under a key

offloadVars == <<secondary, late, task, activeUploads, primary, remote>>

OffloadTypeOK ==
    /\ secondary \in BOOLEAN /\ late \in BOOLEAN
    /\ task \in [Tasks -> [key : Keys, status : {"none", "pending", "reading", "uploading",
                                                 "completed", "failed"}]]
    /\ activeUploads \in 0..Cardinality(Tasks)
    /\ primary \subseteq Keys /\ remote \in [Keys -> {"none", "torn", "whole"}]

OffloadInit ==
    /\ secondary \in BOOLEAN /\ late = FALSE
    /\ task = [t \in Tasks |-> [key |-> CHOOSE k \in Keys : TRUE, status |-> "none"]]
    /\ activeUploads = 0 /\ primary = Keys /\ remote = [k \in Keys |-> "none"]

With(tasks, status) == {t \in Tasks : tasks[t].status = status}
InProgress(tasks) == With(tasks, "reading") \union With(tasks, "uploading")

(* Mutant: one slot more than there are. *)
FreeSlotsOneMore(active) == IF active > MaxConcurrent THEN 0 ELSE MaxConcurrent + 1 - active

FreeSlots(active) == IF active >= MaxConcurrent THEN 0 ELSE MaxConcurrent - active

(* drainQueue: waiting tasks start as long as there are slots; each takes its slot
   before its first await.  The map keeps their order, which nothing here tells apart. *)
DrainQueue(tasks, active) ==
    LET pending == With(tasks, "pending")
        room == IF secondary' THEN FreeSlots(active) ELSE 0
        many == IF Cardinality(pending) < room THEN Cardinality(pending) ELSE room
    IN  \E started \in SUBSET pending :
           /\ Cardinality(started) = many
           /\ task' = [t \in Tasks |-> IF t \in started THEN [tasks[t] EXCEPT !.status = "reading"]
                                       ELSE tasks[t]]
           /\ activeUploads' = active + many

EnqueueOffload(t, k) ==
    /\ task[t].status = "none"
    /\ UNCHANGED secondary /\ late' = FALSE
    /\ DrainQueue([task EXCEPT ![t] = [key |-> k, status |-> "pending"]], activeUploads)
    /\ UNCHANGED <<primary, remote>>

(* setSecondaryProvider does not drain. *)
SetSecondaryProvider ==
    /\ ~secondary /\ secondary' = TRUE
    /\ late' = (With(task, "pending") # {})
    /\ UNCHANGED <<task, activeUploads, primary, remote>>

(* The end of processTask, whatever came of it: the slot is free and the queue drains. *)
Finally(t, status) ==
    /\ UNCHANGED secondary
    /\ late' = (late /\ FreeSlots(activeUploads - 1) = 0)
    /\ DrainQueue([task EXCEPT ![t].status = status], activeUploads - 1)

(* getStream: the file may have been deleted since the task was queued. *)
OpenSource(t) ==
    /\ task[t].status = "reading" /\ task[t].key \in primary
    /\ task' = [task EXCEPT ![t].status = "uploading"]
    /\ remote' = [remote EXCEPT ![task[t].key] = "torn"]
    /\ UNCHANGED <<secondary, late, activeUploads, primary>>

SourceIsGone(t) ==
    /\ task[t].status = "reading" /\ task[t].key \notin primary
    /\ Finally(t, "failed")
    /\ UNCHANGED <<primary, remote>>

(* put writes under the key itself, and its pipe ends or breaks. *)
Uploaded(t) ==
    /\ task[t].status = "uploading"
    /\ Finally(t, "completed")
    /\ remote' = [remote EXCEPT ![task[t].key] = "whole"]
    /\ UNCHANGED primary

UploadFails(t) ==
    /\ task[t].status = "uploading"
    /\ Finally(t, "failed")
    /\ UNCHANGED <<primary, remote>>

(* Retention deletes the file of the first storage. *)
Retention(k) ==
    /\ k \in primary /\ primary' = primary \ {k}
    /\ UNCHANGED <<secondary, late, task, activeUploads, remote>>

OffloadNext ==
    \/ \E t \in Tasks : \/ \E k \in Keys : EnqueueOffload(t, k)
                        \/ OpenSource(t) \/ SourceIsGone(t) \/ Uploaded(t) \/ UploadFails(t)
    \/ SetSecondaryProvider
    \/ \E k \in Keys : Retention(k)

OffloadSpec == OffloadInit /\ [][OffloadNext]_offloadVars

(* The counter of the uploads is the number of tasks in progress and never more than
   the maximum, and with a second storage no task waits while a slot is free, unless it
   was queued before that storage was set and nothing has been queued or ended since. *)
UploadsFillTheirSlots ==
    /\ activeUploads = Cardinality(InProgress(task))
    /\ activeUploads <= MaxConcurrent
    /\ secondary /\ ~late /\ activeUploads < MaxConcurrent => With(task, "pending") = {}

(* It is inductive for tasks that have a status. *)
OffloadShape ==
    /\ DOMAIN task = Tasks /\ \A t \in Tasks : DOMAIN task[t] = {"key", "status"}
    /\ activeUploads \in Nat /\ late \in BOOLEAN /\ secondary \in BOOLEAN
OffloadInv == OffloadShape /\ UploadsFillTheirSlots

(* By hand: no task waits while a slot is free; what a finished upload left is whole. *)
NoSlotIsFree ==
    secondary /\ activeUploads < MaxConcurrent => With(task, "pending") = {}
ObjectsAreWhole ==
    \A k \in Keys : remote[k] = "torn" => \E t \in With(task, "uploading") : task[t].key = k
================================================================================
