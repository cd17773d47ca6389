------------------------------ MODULE AnalysisJobs ------------------------------
(***************************************************************************)
(* The durable job of one recording and one worker                         *)
(* (jobs/processing-job.queue.ts), the coordinator that analyses a segment *)
(* when its event arrives (ai/ai-pipeline-coordinator.ts) and the          *)
(* detections it stores (ai/detection.repository.ts).  The coordinator     *)
(* enqueues a job but never claims it; who retries the queued ones is a    *)
(* consumer of claimNext, which the repository leaves to its user.         *)
(***************************************************************************)
EXTENDS Naturals, FiniteSets

CONSTANTS Handlers,     \* handleSegmentCreated for this recording: an event may come twice
          Consumers,    \* users of claimNext
          Items,        \* detections of the segment, stored one after the other
          MaxAttempts,  \* at least 1, as Items
          MaxJobFaults, \* bound: queries and analyses that fail, and crashes
          None

VARIABLES job,       \* the row: status and attempts, or None
          saved,     \* how often each detection is stored
          proc,      \* a handler or a consumer: its step, what it knows and has read
          jobFaults

jobVars == <<job, saved, proc, jobFaults>>

Procs == Handlers \union Consumers
Statuses == {"QUEUED", "CLAIMED", "COMPLETED", "FAILED"}
Jobs == [status : Statuses, attempts : 0..MaxAttempts + Cardinality(Procs)]
Resting == [step |-> "rest", hasJob |-> FALSE, read |-> None, next |-> 1]

JobTypeOK ==
    /\ job \in Jobs \union {None}
    /\ saved \in [1..Items -> 0..Cardinality(Procs) * (MaxAttempts + 1)]
    /\ \A p \in Procs : proc[p].read \in Jobs \union {None} /\ proc[p].next \in 1..Items + 1
    /\ jobFaults \in 0..MaxJobFaults

JobInit ==
    /\ job = None /\ saved = [i \in 1..Items |-> 0] /\ jobFaults = 0
    /\ proc = [p \in Procs |-> Resting]

At(p, step) == proc[p].step = step
Goes(p, step) == proc' = [proc EXCEPT ![p].step = step]
Ends(p) == proc' = [proc EXCEPT ![p] = [Resting EXCEPT !.step = "over"]]

(* enqueue looks for the job of (recordingId, jobType) first. *)
FindJob(h) ==
    /\ At(h, "rest")
    /\ proc' = [proc EXCEPT ![h].step = IF job = None THEN "create" ELSE "process",
                            ![h].hasJob = job # None]
    /\ UNCHANGED <<job, saved, jobFaults>>

(* A second create meets the unique key: the handler goes on without a job. *)
CreateJob(h) ==
    /\ At(h, "create")
    /\ job' = IF job = None THEN [status |-> "QUEUED", attempts |-> 0] ELSE job
    /\ proc' = [proc EXCEPT ![h].step = "process", ![h].hasJob = (job = None)]
    /\ UNCHANGED <<saved, jobFaults>>

(* claimNext reads the queued jobs that are due, then marks each as claimed, whatever
   has become of it, with the attempts it read. *)
ReadCandidates(c) ==
    /\ At(c, "rest") /\ job # None /\ job.status = "QUEUED"
    /\ proc' = [proc EXCEPT ![c].step = "claim", ![c].read = job]
    /\ UNCHANGED <<job, saved, jobFaults>>

Claim(c) ==
    /\ At(c, "claim")
    /\ job' = [status |-> "CLAIMED", attempts |-> proc[c].read.attempts + 1]
    /\ proc' = [proc EXCEPT ![c] = [Resting EXCEPT !.step = "process", !.hasJob = TRUE]]
    /\ UNCHANGED <<saved, jobFaults>>

(* Mutant: the job is completed as soon as the worker has answered. *)
CompleteFirst(step) ==
    CASE step = "process" -> "complete" [] step = "complete" -> "save" [] step = "save" -> "over"

(* What follows a step: the detections are stored before the job is completed. *)
After(step) ==
    CASE step = "process" -> "save" [] step = "save" -> "complete" [] step = "complete" -> "over"

(* The worker is ready and has analysed the segment. *)
ProcessSegment(p) ==
    /\ At(p, "process")
    /\ Goes(p, After("process"))
    /\ UNCHANGED <<job, saved, jobFaults>>

(* saveDetections: one create at a time, without a transaction. *)
SaveDetection(p) ==
    /\ At(p, "save") /\ proc[p].next <= Items
    /\ saved' = [saved EXCEPT ![proc[p].next] = @ + 1]
    /\ proc' = [proc EXCEPT ![p].next = @ + 1]
    /\ UNCHANGED <<job, jobFaults>>

AllSaved(p) ==
    /\ At(p, "save") /\ proc[p].next > Items
    /\ Goes(p, After("save"))
    /\ UNCHANGED <<job, saved, jobFaults>>

Complete(p) ==
    /\ At(p, "complete")
    /\ job' = IF proc[p].hasJob THEN [job EXCEPT !.status = "COMPLETED"] ELSE job
    /\ Goes(p, After("complete"))
    /\ UNCHANGED <<saved, jobFaults>>

(* The worker is not ready or fails, or a query does: the handler comes to fail. *)
AnalysisFails(p) ==
    /\ proc[p].step \in {"process", "save", "complete"} /\ jobFaults < MaxJobFaults
    /\ jobFaults' = jobFaults + 1
    /\ IF proc[p].hasJob THEN Goes(p, "readFail") ELSE Ends(p)
    /\ UNCHANGED <<job, saved>>

(* fail reads the row, counts an attempt unless a claim has, and writes. *)
ReadFailed(p) ==
    /\ At(p, "readFail")
    /\ proc' = [proc EXCEPT ![p].step = "fail", ![p].read = job]
    /\ UNCHANGED <<job, saved, jobFaults>>

Counted(read) == read.attempts + (IF read.status = "CLAIMED" THEN 0 ELSE 1)

Fail(p) ==
    /\ At(p, "fail")
    /\ LET attempts == Counted(proc[p].read)
       IN  job' = [status |-> IF attempts < MaxAttempts THEN "QUEUED" ELSE "FAILED",
                   attempts |-> attempts]
    /\ Ends(p)
    /\ UNCHANGED <<saved, jobFaults>>

(* A consumer comes back for the next job; a handler has had its event. *)
ConsumerPolls(c) ==
    /\ At(c, "over")
    /\ proc' = [proc EXCEPT ![c] = Resting]
    /\ UNCHANGED <<job, saved, jobFaults>>

(* The process dies; rows stay as they are, and no event is repeated. *)
Dies ==
    /\ jobFaults < MaxJobFaults /\ jobFaults' = jobFaults + 1
    /\ proc' = [p \in Procs |-> IF At(p, "rest") THEN Resting ELSE [Resting EXCEPT !.step = "over"]]
    /\ UNCHANGED <<job, saved>>

JobNext ==
    \/ \E h \in Handlers : FindJob(h) \/ CreateJob(h)
    \/ \E c \in Consumers : ReadCandidates(c) \/ Claim(c) \/ ConsumerPolls(c)
    \/ \E p \in Procs : ProcessSegment(p) \/ SaveDetection(p) \/ AllSaved(p) \/ Complete(p)
                        \/ AnalysisFails(p) \/ ReadFailed(p) \/ Fail(p)
    \/ Dies

JobSpec == JobInit /\ [][JobNext]_jobVars

(* A job that counts as completed has every detection of its recording in the store,
   whoever claimed it, failed beside it or died: the search of the timeline does not
   miss what the queue says was analysed. *)
CompletedIsAnalysed ==
    job # None /\ job.status = "COMPLETED" => \A i \in 1..Items : saved[i] > 0

(* The inductive invariant behind it: whoever is about to complete the job has stored every
   detection, and whoever stores them has stored those in front of the next one. *)
JobShape ==
    /\ saved \in [1..Items -> Nat]
    /\ DOMAIN proc = Procs
    /\ \A p \in Procs :
          /\ DOMAIN proc[p] = {"step", "hasJob", "read", "next"}
          /\ proc[p].next \in Nat \ {0}
          /\ proc[p].step \in {"rest", "create", "claim", "process"} => proc[p].next = 1
StoredBefore(p) == \A i \in 1..Items : i < proc[p].next => saved[i] > 0
StoredAll == \A i \in 1..Items : saved[i] > 0
ProgressIsStored ==
    \A p \in Procs :
        /\ proc[p].step = "save" => StoredBefore(p)
        /\ proc[p].step = "complete" => StoredAll
JobInv == JobShape /\ ProgressIsStored /\ CompletedIsAnalysed

(* By hand: a completed job stays completed; attempts stay within their maximum; a
   detection is stored once; a claimed job is somebody's. *)
CompletedStays ==
    [][job # None /\ job.status = "COMPLETED" => job'.status = "COMPLETED"]_jobVars
AttemptsAreBounded == job # None => job.attempts <= MaxAttempts
DetectionsAreOnce == \A i \in 1..Items : saved[i] <= 1
ClaimedIsHeld ==
    job # None /\ job.status = "CLAIMED" => \E p \in Procs : proc[p].step \notin {"rest", "over"}
================================================================================
