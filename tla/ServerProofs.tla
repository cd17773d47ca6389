------------------------------ MODULE ServerProofs ------------------------------
(***************************************************************************)
(* Eleven parts of MCServer are proved here, one after the other and each  *)
(* with an inductive invariant of its own that its module states: analysis *)
(* jobs, the login throttle, accounts and their tokens, offload, moves of  *)
(* a camera, the wizard, the editor of rights, alerts, motion zones,       *)
(* access to the HTTP API, and the archive and its restore.                *)
(* The bounds of a part are constants, so the theorems hold for any number *)
(* of logins, handlers, tasks, timers and requests, for any number of      *)
(* failures, and for any capacity, cooldown, zone and polygon.             *)
(***************************************************************************)
EXTENDS MCServer, Integers, Sequences, FiniteSetTheorems, TLAPS

-------------------------------------------------------------------------------
(* Analysis jobs *)

LEMMA JobsStart == Jobs!JobInit => Jobs!JobInv
BY JobsAssumption DEF Jobs!JobInit, Jobs!JobInv, Jobs!JobShape, Jobs!ProgressIsStored,
   Jobs!CompletedIsAnalysed, Jobs!Resting

(* A step of one handler or consumer that stores nothing and leaves the job alone or writes
   one that is not completed, unless everything is stored. *)
LEMMA JobsGoOn ==
    ASSUME Jobs!JobInv, NEW p \in Jobs!Procs, NEW q,
           proc' = [proc EXCEPT ![p] = q], detections' = detections,
           DOMAIN q = {"step", "hasJob", "read", "next"},
           q.next \in Nat \ {0},
           q.step \in {"rest", "create", "claim", "process"} => q.next = 1,
           q.step = "save" => \A i \in 1..Items : i < q.next => detections[i] > 0,
           q.step = "complete" => Jobs!StoredAll,
           \/ job' = job
           \/ job'.status # "COMPLETED"
           \/ Jobs!StoredAll
    PROVE  Jobs!JobInv'
<1>1. \A r \in Jobs!Procs : proc'[r] = IF r = p THEN q ELSE proc[r]
  BY DEF Jobs!JobInv, Jobs!JobShape
<1>2. Jobs!JobShape'
  BY <1>1 DEF Jobs!JobInv, Jobs!JobShape
<1>3. Jobs!ProgressIsStored'
  BY <1>1 DEF Jobs!JobInv, Jobs!ProgressIsStored, Jobs!StoredBefore, Jobs!StoredAll
<1>4. Jobs!CompletedIsAnalysed'
  BY DEF Jobs!JobInv, Jobs!CompletedIsAnalysed, Jobs!StoredAll
<1>5. QED
  BY <1>2, <1>3, <1>4 DEF Jobs!JobInv

LEMMA JobsStep ==
    ASSUME Jobs!JobInv, [Jobs!JobNext]_jobsVars
    PROVE  Jobs!JobInv'
<1> USE JobsAssumption
<1>0. /\ JobHandlers \subseteq Jobs!Procs /\ JobConsumers \subseteq Jobs!Procs
      /\ DOMAIN proc = Jobs!Procs
      /\ \A p \in Jobs!Procs :
            /\ DOMAIN proc[p] = {"step", "hasJob", "read", "next"}
            /\ proc[p].next \in Nat \ {0}
            /\ proc[p].step \in {"rest", "create", "claim", "process"} => proc[p].next = 1
  BY DEF Jobs!Procs, Jobs!JobInv, Jobs!JobShape
<1>1. CASE UNCHANGED jobsVars
  BY <1>1 DEF jobsVars, Jobs!JobInv, Jobs!JobShape, Jobs!ProgressIsStored, Jobs!StoredBefore,
              Jobs!StoredAll, Jobs!CompletedIsAnalysed
<1>2. ASSUME NEW h \in JobHandlers, Jobs!FindJob(h)
      PROVE  Jobs!JobInv'
  <2> DEFINE q == [proc[h] EXCEPT !.step = IF job = None THEN "create" ELSE "process",
                                  !.hasJob = job # None]
  <2>1. proc' = [proc EXCEPT ![h] = q] /\ UNCHANGED <<job, detections>>
    BY <1>0, <1>2 DEF Jobs!FindJob
  <2>2. /\ DOMAIN q = {"step", "hasJob", "read", "next"} /\ q.next = 1 /\ q.next \in Nat \ {0}
        /\ q.step \in {"create", "process"}
    BY <1>0, <1>2 DEF Jobs!FindJob, Jobs!At
  <2> HIDE DEF q
  <2>3. QED
    BY <1>0, <2>1, <2>2, JobsGoOn
<1>3. ASSUME NEW h \in JobHandlers, Jobs!CreateJob(h)
      PROVE  Jobs!JobInv'
  <2> DEFINE q == [proc[h] EXCEPT !.step = "process", !.hasJob = (job = None)]
  <2>1. proc' = [proc EXCEPT ![h] = q] /\ UNCHANGED detections
    BY <1>0, <1>3 DEF Jobs!CreateJob
  <2>2. /\ DOMAIN q = {"step", "hasJob", "read", "next"} /\ q.next = 1 /\ q.next \in Nat \ {0}
        /\ q.step = "process"
    BY <1>0, <1>3 DEF Jobs!CreateJob, Jobs!At
  <2>3. job' = job \/ job'.status # "COMPLETED"
    BY <1>3 DEF Jobs!CreateJob
  <2> HIDE DEF q
  <2>4. QED
    BY <1>0, <2>1, <2>2, <2>3, JobsGoOn
<1>4. ASSUME NEW c \in JobConsumers, Jobs!ReadCandidates(c)
      PROVE  Jobs!JobInv'
  <2> DEFINE q == [proc[c] EXCEPT !.step = "claim", !.read = job]
  <2>1. proc' = [proc EXCEPT ![c] = q] /\ UNCHANGED <<job, detections>>
    BY <1>0, <1>4 DEF Jobs!ReadCandidates
  <2>2. /\ DOMAIN q = {"step", "hasJob", "read", "next"} /\ q.next = 1 /\ q.next \in Nat \ {0}
        /\ q.step = "claim"
    BY <1>0, <1>4 DEF Jobs!ReadCandidates, Jobs!At
  <2> HIDE DEF q
  <2>3. QED
    BY <1>0, <2>1, <2>2, JobsGoOn
<1>5. ASSUME NEW c \in JobConsumers, Jobs!Claim(c)
      PROVE  Jobs!JobInv'
  <2> DEFINE q == [Jobs!Resting EXCEPT !.step = "process", !.hasJob = TRUE]
  <2>1. proc' = [proc EXCEPT ![c] = q] /\ UNCHANGED detections
    BY <1>5 DEF Jobs!Claim
  <2>2. /\ DOMAIN q = {"step", "hasJob", "read", "next"} /\ q.next = 1 /\ q.next \in Nat \ {0}
        /\ q.step = "process"
    BY DEF Jobs!Resting
  <2>3. job'.status # "COMPLETED"
    BY <1>5 DEF Jobs!Claim
  <2> HIDE DEF q
  <2>4. QED
    BY <1>0, <2>1, <2>2, <2>3, JobsGoOn
<1>6. ASSUME NEW c \in JobConsumers, Jobs!ConsumerPolls(c)
      PROVE  Jobs!JobInv'
  <2> DEFINE q == Jobs!Resting
  <2>1. proc' = [proc EXCEPT ![c] = q] /\ UNCHANGED <<job, detections>>
    BY <1>6 DEF Jobs!ConsumerPolls
  <2>2. /\ DOMAIN q = {"step", "hasJob", "read", "next"} /\ q.next = 1 /\ q.next \in Nat \ {0}
        /\ q.step = "rest"
    BY DEF Jobs!Resting
  <2> HIDE DEF q
  <2>3. QED
    BY <1>0, <2>1, <2>2, JobsGoOn
<1>7. ASSUME NEW p \in Jobs!Procs, Jobs!ProcessSegment(p)
      PROVE  Jobs!JobInv'
  <2> DEFINE q == [proc[p] EXCEPT !.step = "save"]
  <2>1. proc' = [proc EXCEPT ![p] = q] /\ UNCHANGED <<job, detections>>
    BY <1>0, <1>7 DEF Jobs!ProcessSegment, Jobs!Goes, Jobs!After
  <2>2. /\ DOMAIN q = {"step", "hasJob", "read", "next"} /\ q.next = 1 /\ q.next \in Nat \ {0}
        /\ q.step = "save"
    BY <1>0, <1>7 DEF Jobs!ProcessSegment, Jobs!At
  <2>3. \A i \in 1..Items : ~(i < q.next)
    BY <2>2
  <2> HIDE DEF q
  <2>4. QED
    BY <1>0, <2>1, <2>2, <2>3, JobsGoOn
<1>8. ASSUME NEW p \in Jobs!Procs, Jobs!SaveDetection(p)
      PROVE  Jobs!JobInv'
  <2> DEFINE n == proc[p].next
             q == [proc[p] EXCEPT !.next = n + 1]
  <2>1. proc' = [proc EXCEPT ![p] = q] /\ detections' = [detections EXCEPT ![n] = @ + 1]
        /\ job' = job
    BY <1>0, <1>8 DEF Jobs!SaveDetection
  <2>2. /\ DOMAIN q = {"step", "hasJob", "read", "next"} /\ q.next = n + 1
        /\ q.step = "save"
    BY <1>0, <1>8 DEF Jobs!SaveDetection, Jobs!At
  <2>3. n \in 1..Items /\ n \in Nat \ {0}
    BY <1>0, <1>8 DEF Jobs!SaveDetection
  <2> HIDE DEF q
  <2>4. /\ detections \in [1..Items -> Nat]
        /\ detections' \in [1..Items -> Nat] /\ detections'[n] > 0
        /\ \A i \in 1..Items : detections[i] > 0 => detections'[i] > 0
    BY <2>1, <2>3 DEF Jobs!JobInv, Jobs!JobShape
  <2>5. \A r \in Jobs!Procs : proc'[r] = IF r = p THEN q ELSE proc[r]
    BY <1>0, <2>1
  <2>6. Jobs!JobShape'
    BY <1>0, <2>1, <2>2, <2>3, <2>4, <2>5 DEF Jobs!JobShape
  <2>7. Jobs!ProgressIsStored'
    <3>1. \A i \in 1..Items : i < n + 1 => detections'[i] > 0
      BY <1>8, <2>3, <2>4 DEF Jobs!SaveDetection, Jobs!At, Jobs!JobInv, Jobs!ProgressIsStored,
                              Jobs!StoredBefore
    <3>2. QED
      BY <2>2, <2>4, <2>5, <3>1 DEF Jobs!JobInv, Jobs!ProgressIsStored, Jobs!StoredBefore,
                                    Jobs!StoredAll
  <2>8. Jobs!CompletedIsAnalysed'
    BY <2>1, <2>4 DEF Jobs!JobInv, Jobs!CompletedIsAnalysed
  <2>9. QED
    BY <2>6, <2>7, <2>8 DEF Jobs!JobInv
<1>9. ASSUME NEW p \in Jobs!Procs, Jobs!AllSaved(p)
      PROVE  Jobs!JobInv'
  <2> DEFINE q == [proc[p] EXCEPT !.step = "complete"]
  <2>1. proc' = [proc EXCEPT ![p] = q] /\ UNCHANGED <<job, detections>>
    BY <1>0, <1>9 DEF Jobs!AllSaved, Jobs!Goes, Jobs!After
  <2>2. /\ DOMAIN q = {"step", "hasJob", "read", "next"} /\ q.next \in Nat \ {0}
        /\ q.step = "complete"
    BY <1>0
  <2>3. Jobs!StoredAll
    BY <1>0, <1>9 DEF Jobs!AllSaved, Jobs!At, Jobs!JobInv, Jobs!ProgressIsStored,
                      Jobs!StoredBefore, Jobs!StoredAll
  <2> HIDE DEF q
  <2>4. QED
    BY <1>0, <2>1, <2>2, <2>3, JobsGoOn
<1>10. ASSUME NEW p \in Jobs!Procs, Jobs!Complete(p)
       PROVE  Jobs!JobInv'
  <2> DEFINE q == [proc[p] EXCEPT !.step = "over"]
  <2>1. proc' = [proc EXCEPT ![p] = q] /\ UNCHANGED detections
    BY <1>0, <1>10 DEF Jobs!Complete, Jobs!Goes, Jobs!After
  <2>2. /\ DOMAIN q = {"step", "hasJob", "read", "next"} /\ q.next \in Nat \ {0}
        /\ q.step = "over"
    BY <1>0
  <2>3. Jobs!StoredAll
    BY <1>10 DEF Jobs!Complete, Jobs!At, Jobs!JobInv, Jobs!ProgressIsStored
  <2> HIDE DEF q
  <2>4. QED
    BY <1>0, <2>1, <2>2, <2>3, JobsGoOn
<1> DEFINE over == [Jobs!Resting EXCEPT !.step = "over"]
<1>a. /\ DOMAIN over = {"step", "hasJob", "read", "next"} /\ over.next = 1 /\ over.next \in Nat \ {0}
      /\ over.step = "over"
  BY DEF Jobs!Resting
<1>11. ASSUME NEW p \in Jobs!Procs, Jobs!AnalysisFails(p)
       PROVE  Jobs!JobInv'
  <2>1. CASE proc[p].hasJob
    <3> DEFINE q == [proc[p] EXCEPT !.step = "readFail"]
    <3>1. proc' = [proc EXCEPT ![p] = q] /\ UNCHANGED <<job, detections>>
      BY <1>0, <1>11, <2>1 DEF Jobs!AnalysisFails, Jobs!Goes
    <3>2. /\ DOMAIN q = {"step", "hasJob", "read", "next"} /\ q.next \in Nat \ {0}
          /\ q.step = "readFail"
      BY <1>0
    <3> HIDE DEF q
    <3>3. QED
      BY <1>0, <3>1, <3>2, JobsGoOn
  <2>2. CASE ~proc[p].hasJob
    <3>1. proc' = [proc EXCEPT ![p] = over] /\ UNCHANGED <<job, detections>>
      BY <1>11, <2>2 DEF Jobs!AnalysisFails, Jobs!Ends
    <3> HIDE DEF over
    <3>2. QED
      BY <1>0, <1>a, <3>1, JobsGoOn
  <2>3. QED
    BY <2>1, <2>2
<1>12. ASSUME NEW p \in Jobs!Procs, Jobs!ReadFailed(p)
       PROVE  Jobs!JobInv'
  <2> DEFINE q == [proc[p] EXCEPT !.step = "fail", !.read = job]
  <2>1. proc' = [proc EXCEPT ![p] = q] /\ UNCHANGED <<job, detections>>
    BY <1>0, <1>12 DEF Jobs!ReadFailed
  <2>2. /\ DOMAIN q = {"step", "hasJob", "read", "next"} /\ q.next \in Nat \ {0}
        /\ q.step = "fail"
    BY <1>0
  <2> HIDE DEF q
  <2>3. QED
    BY <1>0, <2>1, <2>2, JobsGoOn
<1>13. ASSUME NEW p \in Jobs!Procs, Jobs!Fail(p)
       PROVE  Jobs!JobInv'
  <2>1. proc' = [proc EXCEPT ![p] = over] /\ UNCHANGED detections
    BY <1>13 DEF Jobs!Fail, Jobs!Ends
  <2>2. job'.status # "COMPLETED"
    BY <1>13 DEF Jobs!Fail
  <2> HIDE DEF over
  <2>3. QED
    BY <1>0, <1>a, <2>1, <2>2, JobsGoOn
<1>14. ASSUME Jobs!Dies
       PROVE  Jobs!JobInv'
  <2>1. /\ \A p \in Jobs!Procs : proc'[p] = IF Jobs!At(p, "rest") THEN Jobs!Resting ELSE over
        /\ DOMAIN proc' = Jobs!Procs /\ UNCHANGED <<job, detections>>
    BY <1>14 DEF Jobs!Dies
  <2>2. \A p \in Jobs!Procs : /\ DOMAIN proc'[p] = {"step", "hasJob", "read", "next"}
                              /\ proc'[p].next = 1 /\ proc'[p].step \in {"rest", "over"}
    BY <1>a, <2>1 DEF Jobs!Resting
  <2> HIDE DEF over
  <2>3. QED
    BY <2>1, <2>2 DEF Jobs!JobInv, Jobs!JobShape, Jobs!ProgressIsStored, Jobs!CompletedIsAnalysed
<1>15. QED
  BY <1>1, <1>2, <1>3, <1>4, <1>5, <1>6, <1>7, <1>8, <1>9, <1>10, <1>11, <1>12, <1>13, <1>14
     DEF Jobs!JobNext

(* The invariant of the jobs holds whichever part of the server moves. *)
THEOREM JobsConsistent == Spec => []Jobs!JobInv
<1>1. Init => Jobs!JobInv
  BY JobsStart DEF Init
<1>2. Jobs!JobInv /\ [Next]_vars => Jobs!JobInv'
  BY JobsStep DEF Next, vars
<1>3. QED
  BY <1>1, <1>2, PTL DEF Spec

(* A job that counts as completed has every detection of its recording in the store. *)
THEOREM CompletedJobsAreAnalysed == Spec => []CompletedIsAnalysed
<1>1. Jobs!JobInv => CompletedIsAnalysed
  BY DEF Jobs!JobInv, CompletedIsAnalysed
<1>2. QED
  BY <1>1, JobsConsistent, PTL

-------------------------------------------------------------------------------
(* The login throttle *)

(* An instance of a module counts as this module does. *)
LEMMA ThrottleSizes == \A S : Throttle!Cardinality(S) = Cardinality(S)
BY DEF Throttle!Cardinality, Cardinality

(* How many logins there may be, and how many with one more or one less. *)
LEMMA LoginCounts ==
    /\ Cardinality(LoginSlots) \in Nat
    /\ \A S \in SUBSET LoginSlots :
          /\ Cardinality(S) \in Nat /\ Cardinality(S) <= Cardinality(LoginSlots)
          /\ \A l \in S : Cardinality(S \ {l}) = Cardinality(S) - 1
<1>1. IsFiniteSet(LoginSlots) /\ \A S \in SUBSET LoginSlots : IsFiniteSet(S)
  BY ThrottleAssumption, FS_Subset
<1>2. \A S \in SUBSET LoginSlots : Cardinality(S) <= Cardinality(LoginSlots)
  BY <1>1, FS_Subset
<1>3. QED
  BY <1>1, <1>2, FS_CardinalityType, FS_RemoveElement

LEMMA ThrottleStart == Throttle!ThrottleInit => Throttle!ThrottleInv
<1> SUFFICES ASSUME Throttle!ThrottleInit PROVE Throttle!ThrottleInv
  OBVIOUS
<1>1. Throttle!ThrottleTypeOK
  BY DEF Throttle!ThrottleInit, Throttle!ThrottleTypeOK, Throttle!NoEntry
<1>2. Throttle!WindowsAreBounded
  BY ThrottleAssumption DEF Throttle!ThrottleInit, Throttle!WindowsAreBounded, Throttle!Over,
     Throttle!NoEntry, Throttle!Keys
<1>3. Throttle!GuessesAreBounded
  BY ThrottleAssumption, LoginCounts, ThrottleSizes
     DEF Throttle!ThrottleInit, Throttle!GuessesAreBounded
<1>4. QED
  BY <1>1, <1>2, <1>3 DEF Throttle!ThrottleInv

LEMMA ThrottleStep ==
    ASSUME Throttle!ThrottleInv, [Throttle!ThrottleNext]_throttleVars
    PROVE  Throttle!ThrottleInv'
<1> DEFINE N == Cardinality(LoginSlots)
           W(u) == Cardinality(Throttle!UnderWay(u))
<1>0. /\ Throttle!ThrottleTypeOK /\ Throttle!WindowsAreBounded /\ Throttle!GuessesAreBounded
      /\ N \in Nat /\ \A u : W(u) \in Nat /\ W(u) <= N
      /\ Usernames \subseteq Throttle!Keys /\ Throttle!Ip \in Throttle!Keys
      /\ \A u \in Usernames : u # Throttle!Ip /\ u # Throttle!Nobody
      /\ MaxPerUser \in Nat \ {0} /\ MaxPerIp \in Nat \ {0} /\ LoginWindow \in Nat
  BY LoginCounts, ThrottleAssumption
     DEF Throttle!ThrottleInv, Throttle!UnderWay, Throttle!Keys, Throttle!Ip, Throttle!Nobody
<1>a. /\ attempt \in [LoginSlots -> Usernames \cup {Throttle!Nobody}]
      /\ failures \in [Throttle!Keys -> [count : Nat, windowStart : Nat]]
      /\ guesses \in [Usernames -> Nat] /\ now \in Nat
  BY <1>0 DEF Throttle!ThrottleTypeOK
<1>b. \A u \in Usernames :
        /\ guesses[u] = failures[u].count /\ guesses[u] <= MaxPerUser + N - 1
        /\ ~Throttle!Over(failures[u]) => guesses[u] + W(u) <= MaxPerUser + N - 1
  BY <1>0, ThrottleSizes DEF Throttle!WindowsAreBounded, Throttle!GuessesAreBounded
<1>c. ASSUME Throttle!ThrottleTypeOK',
             \A u \in Usernames :
                /\ guesses'[u] = failures'[u].count /\ guesses'[u] <= MaxPerUser + N - 1
                /\ ~Throttle!Over(failures[u])' => guesses'[u] + W(u)' <= MaxPerUser + N - 1
      PROVE  Throttle!ThrottleInv'
  BY <1>c, ThrottleSizes
     DEF Throttle!ThrottleInv, Throttle!WindowsAreBounded, Throttle!GuessesAreBounded
<1>1. CASE UNCHANGED throttleVars
  <2>1. /\ attempt' = attempt /\ failures' = failures /\ guesses' = guesses /\ now' = now
    BY <1>1 DEF throttleVars
  <2>2. Throttle!ThrottleTypeOK' /\ \A u : W(u)' = W(u)
    BY <1>0, <2>1 DEF Throttle!ThrottleTypeOK, Throttle!UnderWay
  <2>3. QED
    BY <1>b, <1>c, <2>1, <2>2 DEF Throttle!Over
<1>2. CASE Throttle!ThrottleTick
  <2>1. now' = now + 1 /\ UNCHANGED <<attempt, failures, guesses>>
    BY <1>2 DEF Throttle!ThrottleTick
  <2>2. Throttle!ThrottleTypeOK' /\ \A u : W(u)' = W(u)
    BY <1>a, <2>1 DEF Throttle!ThrottleTypeOK, Throttle!UnderWay
  <2>3. \A f \in [count : Nat, windowStart : Nat] : Throttle!Over(f) => Throttle!Over(f)'
    BY <1>0, <1>a, <2>1 DEF Throttle!Over
  <2>4. \A u \in Usernames : Throttle!Over(failures[u]) => Throttle!Over(failures[u])'
    BY <1>0, <1>a, <2>1, <2>3 DEF Throttle!Over
  <2>5. QED
    BY <1>b, <1>c, <2>1, <2>2, <2>4
<1>3. ASSUME NEW l \in LoginSlots, Throttle!AskThrottle(l)
      PROVE  Throttle!ThrottleInv'
  <2>1. PICK u \in Usernames : ~Throttle!Blocked(u) /\ attempt' = [attempt EXCEPT ![l] = u]
    BY <1>3 DEF Throttle!AskThrottle
  <2>2. UNCHANGED <<failures, guesses, now>> /\ attempt[l] = Throttle!Nobody
    BY <1>3 DEF Throttle!AskThrottle
  <2>3. Throttle!ThrottleTypeOK'
    BY <1>a, <2>1, <2>2 DEF Throttle!ThrottleTypeOK
  <2>4. W(u)' \in Nat /\ W(u)' <= N
    BY LoginCounts DEF Throttle!UnderWay
  <2>5. \A v \in Usernames : v # u => Throttle!UnderWay(v)' = Throttle!UnderWay(v)
    BY <1>0, <1>3, <1>a, <2>1, <2>2 DEF Throttle!UnderWay
  <2>6. ~Throttle!Over(failures[u]) => guesses[u] <= MaxPerUser - 1
    BY <1>0, <1>a, <1>b, <2>1 DEF Throttle!Over, Throttle!Blocked, Throttle!MaxOf
  <2>7. ~Throttle!Over(failures[u]) => guesses[u] + W(u)' <= MaxPerUser + N - 1
    BY <1>0, <1>a, <2>4, <2>6
  <2>8. \A v \in Usernames : Throttle!Over(failures[v])' = Throttle!Over(failures[v])
    BY <2>2 DEF Throttle!Over
  <2> HIDE DEF N
  <2>9. QED
    BY <1>b, <1>c, <2>2, <2>3, <2>5, <2>7, <2>8
<1>4. ASSUME NEW l \in LoginSlots, Throttle!RecordFailure(l)
      PROVE  Throttle!ThrottleInv'
  <2>1. PICK u \in Usernames : attempt[l] = u
    BY <1>a, <1>4 DEF Throttle!RecordFailure
  <2> DEFINE Old == failures[u]
  <2>2. /\ now' = now /\ attempt' = [attempt EXCEPT ![l] = Throttle!Nobody]
        /\ failures' = [failures EXCEPT ![u] = Throttle!Counted(@), ![Throttle!Ip] = Throttle!Counted(@)]
        /\ guesses' = [guesses EXCEPT ![u] = IF Throttle!Over(Old) THEN 1 ELSE @ + 1]
    BY <1>4, <2>1 DEF Throttle!RecordFailure
  <2>3. \A f \in [count : Nat, windowStart : Nat] :
           Throttle!Counted(f) \in [count : Nat, windowStart : Nat]
    BY <1>a DEF Throttle!Counted
  <2>4. Throttle!ThrottleTypeOK'
    <3>1. failures' \in [Throttle!Keys -> [count : Nat, windowStart : Nat]]
      <4>1. failures' = [k \in Throttle!Keys |->
                            IF k \in {u, Throttle!Ip} THEN Throttle!Counted(failures[k])
                            ELSE failures[k]]
        BY <1>0, <1>a, <2>2
      <4>2. QED
        BY <1>a, <2>3, <4>1
    <3>2. guesses' \in [Usernames -> Nat] /\ attempt' \in [LoginSlots -> Usernames \cup {Throttle!Nobody}]
      BY <1>0, <1>a, <2>2
    <3>3. QED
      BY <1>a, <2>2, <3>1, <3>2 DEF Throttle!ThrottleTypeOK
  <2>5. \A v \in Usernames : v # u =>
           /\ Throttle!UnderWay(v)' = Throttle!UnderWay(v)
           /\ guesses'[v] = guesses[v] /\ failures'[v] = failures[v]
    BY <1>0, <1>a, <2>1, <2>2 DEF Throttle!UnderWay
  <2>6. l \in Throttle!UnderWay(u) /\ Throttle!UnderWay(u)' = Throttle!UnderWay(u) \ {l}
    <3>1. u # Throttle!Nobody /\ \A k \in LoginSlots :
             attempt'[k] = IF k = l THEN Throttle!Nobody ELSE attempt[k]
      BY <1>0, <1>a, <2>2
    <3>2. \A k : k \in Throttle!UnderWay(u)' <=> k \in Throttle!UnderWay(u) \ {l}
      BY <2>1, <3>1 DEF Throttle!UnderWay
    <3>3. QED
      BY <2>1, <3>2 DEF Throttle!UnderWay
  <2>7. W(u)' = W(u) - 1
    BY <2>6, LoginCounts DEF Throttle!UnderWay
  <2>8. /\ failures'[u] = Throttle!Counted(Old) /\ Old \in [count : Nat, windowStart : Nat]
        /\ guesses'[u] = IF Throttle!Over(Old) THEN 1 ELSE guesses[u] + 1
        /\ guesses[u] = Old.count /\ guesses[u] \in Nat /\ W(u) \in Nat /\ W(u) <= N
        /\ W(u)' \in Nat
    BY <1>0, <1>a, <1>b, <2>1, <2>2, LoginCounts DEF Throttle!UnderWay
  <2>9. guesses'[u] = failures'[u].count /\ guesses'[u] + W(u)' <= MaxPerUser + N - 1
    <3>1. CASE Throttle!Over(Old)
      BY <1>0, <2>7, <2>8, <3>1 DEF Throttle!Counted
    <3>2. CASE ~Throttle!Over(Old)
      <4>1. guesses[u] + W(u) <= MaxPerUser + N - 1
        BY <1>b, <3>2
      <4>2. QED
        BY <1>0, <2>7, <2>8, <3>2, <4>1 DEF Throttle!Counted
    <3>3. QED
      BY <3>1, <3>2
  <2>10. guesses'[u] <= MaxPerUser + N - 1
    BY <1>0, <2>1, <2>4, <2>8, <2>9 DEF Throttle!ThrottleTypeOK
  <2>11. \A v \in Usernames : v # u => Throttle!Over(failures[v])' = Throttle!Over(failures[v])
    BY <2>2, <2>5 DEF Throttle!Over
  <2> HIDE DEF N
  <2>12. QED
    BY <1>b, <1>c, <2>4, <2>5, <2>9, <2>10, <2>11
<1>5. ASSUME NEW l \in LoginSlots, Throttle!RecordSuccess(l)
      PROVE  Throttle!ThrottleInv'
  <2>1. PICK u \in Usernames : attempt[l] = u
    BY <1>a, <1>5 DEF Throttle!RecordSuccess
  <2>2. /\ now' = now /\ attempt' = [attempt EXCEPT ![l] = Throttle!Nobody]
        /\ failures' = [failures EXCEPT ![u] = Throttle!NoEntry]
        /\ guesses' = [guesses EXCEPT ![u] = 0]
    BY <1>5, <2>1 DEF Throttle!RecordSuccess
  <2>3. Throttle!ThrottleTypeOK'
    BY <1>a, <2>1, <2>2 DEF Throttle!ThrottleTypeOK, Throttle!NoEntry
  <2>4. \A v \in Usernames : v # u =>
           /\ Throttle!UnderWay(v)' = Throttle!UnderWay(v)
           /\ guesses'[v] = guesses[v] /\ failures'[v] = failures[v]
    BY <1>0, <1>a, <2>1, <2>2 DEF Throttle!UnderWay
  <2>5. /\ guesses'[u] = 0 /\ failures'[u].count = 0 /\ guesses'[u] <= MaxPerUser + N - 1
        /\ Throttle!Over(failures[u])'
    BY <1>0, <1>a, <2>2 DEF Throttle!NoEntry, Throttle!Over
  <2>6. \A v \in Usernames : v # u => Throttle!Over(failures[v])' = Throttle!Over(failures[v])
    BY <2>2, <2>4 DEF Throttle!Over
  <2> HIDE DEF N
  <2>7. QED
    BY <1>b, <1>c, <2>3, <2>4, <2>5, <2>6
<1>6. QED
  BY <1>1, <1>2, <1>3, <1>4, <1>5 DEF Throttle!ThrottleNext, Throttle!LoginStep

(* The invariant of the throttle holds whichever part of the server moves. *)
THEOREM ThrottleConsistent == Spec => []Throttle!ThrottleInv
<1>1. Init => Throttle!ThrottleInv
  BY ThrottleStart DEF Init
<1>2. Throttle!ThrottleInv /\ [Next]_vars => Throttle!ThrottleInv'
  BY ThrottleStep DEF Next, vars
<1>3. QED
  BY <1>1, <1>2, PTL DEF Spec

(* However many logins run side by side, a username is guessed in one window at most
   MaxPerUser times and by as many more as were under way: checking first and counting
   after the password lets no more than these past login-throttle.ts. *)
THEOREM GuessesStayBounded == Spec => []Throttle!GuessesAreBounded
<1>1. Throttle!ThrottleInv => Throttle!GuessesAreBounded
  BY DEF Throttle!ThrottleInv
<1>2. QED
  BY <1>1, ThrottleConsistent, PTL

-------------------------------------------------------------------------------
(* Accounts and their tokens *)

LEMMA SessionStart == Entry!SessionInit => Entry!SessionInv
<1> SUFFICES ASSUME Entry!SessionInit PROVE Entry!SessionInv
  OBVIOUS
<1>1. /\ account \in [SessionUsers -> {[present |-> TRUE, role |-> r, tv |-> 0] : r \in Entry!Roles}]
      /\ tokens = {} /\ op = [o \in SessionOps |-> Entry!IdleOp]
      /\ check = [c \in SessionChecks |-> Entry!IdleCheck]
      /\ login = [l \in SessionLogins |-> Entry!IdleLogin]
      /\ sessionCache = [u \in SessionUsers |-> Entry!Missing]
      /\ generation = [u \in SessionUsers |-> 0]
  BY DEF Entry!SessionInit
<1>2. account \in [SessionUsers -> Entry!Rows]
  <2>1. \A r \in Entry!Roles : [present |-> TRUE, role |-> r, tv |-> 0] \in Entry!Rows
    BY DEF Entry!Rows
  <2>2. {[present |-> TRUE, role |-> r, tv |-> 0] : r \in Entry!Roles} \subseteq Entry!Rows
    BY <2>1
  <2>3. QED
    BY <1>1, <2>2
<1>3. Entry!SessionShape
  BY <1>1, <1>2 DEF Entry!SessionShape
<1>4. /\ \A o \in SessionOps : op[o].at = "idle"
      /\ \A c \in SessionChecks : check[c].at = "idle"
      /\ \A l \in SessionLogins : login[l].at = "idle"
  BY <1>1 DEF Entry!IdleOp, Entry!IdleCheck, Entry!IdleLogin
<1>5. Entry!ReadsAreCurrent /\ Entry!VoidStaysVoid /\ Entry!RevokedIsRefused
  BY <1>4 DEF Entry!ReadsAreCurrent, Entry!VoidStaysVoid, Entry!RevokedIsRefused
<1>6. Entry!TokensAreOfThePast /\ Entry!CacheIsCurrent
  BY <1>1, <1>4 DEF Entry!TokensAreOfThePast, Entry!CacheIsCurrent
<1>7. QED
  BY <1>3, <1>5, <1>6 DEF Entry!SessionInv

(* What the sets of records and the idle records are made of. *)
LEMMA SessionFacts ==
    ASSUME Entry!SessionInv
    PROVE  /\ account \in [SessionUsers -> Entry!Rows] /\ tokens \subseteq Entry!TokenSet
           /\ op \in [SessionOps -> Entry!Changes \union {Entry!IdleOp}]
           /\ check \in [SessionChecks -> Entry!Lookups \union Entry!Accepted \union {Entry!IdleCheck}]
           /\ login \in [SessionLogins -> [at : {"verify"}, user : SessionUsers, read : Entry!Rows]
                                             \union {Entry!IdleLogin}]
           /\ sessionCache \in [SessionUsers -> Entry!Rows \union {Entry!Missing}]
           /\ generation \in [SessionUsers -> Nat]
           /\ Entry!IdleOp.at = "idle" /\ Entry!IdleCheck.at = "idle" /\ Entry!IdleLogin.at = "idle"
           /\ \A u \in SessionUsers : account[u] \in Entry!Rows /\ account[u].tv \in Nat
           /\ \A o \in SessionOps : op[o].at # "idle" =>
                 op[o] \in Entry!Changes /\ op[o].user \in SessionUsers /\ op[o].read \in Entry!Rows
           /\ \A c \in SessionChecks : check[c].at \in {"lookup", "read"} =>
                 /\ check[c] \in Entry!Lookups /\ check[c].token \in Entry!TokenSet
                 /\ check[c].token.user \in SessionUsers
           /\ \A l \in SessionLogins : login[l].at = "verify" =>
                 login[l].user \in SessionUsers /\ login[l].read \in Entry!Rows
<1>1. Entry!SessionShape
  BY DEF Entry!SessionInv
<1>2. Entry!IdleOp.at = "idle" /\ Entry!IdleCheck.at = "idle" /\ Entry!IdleLogin.at = "idle"
  BY DEF Entry!IdleOp, Entry!IdleCheck, Entry!IdleLogin
<1>3. \A u \in SessionUsers : account[u] \in Entry!Rows /\ account[u].tv \in Nat
  BY <1>1 DEF Entry!SessionShape, Entry!Rows
<1>4. \A o \in SessionOps : op[o].at # "idle" =>
         op[o] \in Entry!Changes /\ op[o].user \in SessionUsers /\ op[o].read \in Entry!Rows
  BY <1>1, <1>2 DEF Entry!SessionShape, Entry!Changes
<1>5. \A c \in SessionChecks : check[c].at \in {"lookup", "read"} =>
         /\ check[c] \in Entry!Lookups /\ check[c].token \in Entry!TokenSet
         /\ check[c].token.user \in SessionUsers
  BY <1>1, <1>2 DEF Entry!SessionShape, Entry!Lookups, Entry!Accepted, Entry!TokenSet
<1>6. \A l \in SessionLogins : login[l].at = "verify" =>
         login[l].user \in SessionUsers /\ login[l].read \in Entry!Rows
  BY <1>1, <1>2 DEF Entry!SessionShape
<1>7. QED
  BY <1>1, <1>2, <1>3, <1>4, <1>5, <1>6 DEF Entry!SessionShape

LEMMA SessionStep ==
    ASSUME Entry!SessionInv, Entry!OneChangeAtATime, [Entry!SessionNext]_accountsVars
    PROVE  Entry!SessionInv'
<1> USE SessionFacts
(* Another step of a change that leaves the row alone. *)
<1>a. ASSUME NEW o \in SessionOps, op[o].at # "invalidate",
             NEW q \in Entry!Changes \union {Entry!IdleOp}, op' = [op EXCEPT ![o] = q],
             q.at \in {"count", "write"} => q.read = account[q.user],
             UNCHANGED <<account, tokens, check, login, sessionCache, generation>>
      PROVE  Entry!SessionInv'
  <2>1. \A p \in SessionOps : op'[p] = IF p = o THEN q ELSE op[p]
    BY <1>a
  <2>2. Entry!SessionShape'
    BY <1>a DEF Entry!SessionInv, Entry!SessionShape
  <2>3. Entry!ReadsAreCurrent'
    BY <1>a, <2>1 DEF Entry!SessionInv, Entry!ReadsAreCurrent
  <2>4. \A u \in SessionUsers : Entry!Invalidating(u) => Entry!Invalidating(u)'
    BY <1>a, <2>1 DEF Entry!Invalidating
  <2>5. Entry!CacheIsCurrent'
    BY <1>a, <2>4 DEF Entry!SessionInv, Entry!CacheIsCurrent
  <2>6. Entry!TokensAreOfThePast' /\ Entry!VoidStaysVoid' /\ Entry!RevokedIsRefused'
    BY <1>a DEF Entry!SessionInv, Entry!TokensAreOfThePast, Entry!OfThePast, Entry!VoidStaysVoid,
       Entry!RevokedIsRefused, Entry!Matches
  <2>7. QED
    BY <2>2, <2>3, <2>5, <2>6 DEF Entry!SessionInv
(* A step of a check, and what the cache holds after it. *)
<1>b. ASSUME NEW c \in SessionChecks, NEW q \in Entry!Lookups \union Entry!Accepted \union {Entry!IdleCheck},
             check' = [check EXCEPT ![c] = q],
             q.at \in {"lookup", "read"} =>
                /\ q.token \in Entry!TokenSet /\ q.token.user \in SessionUsers
                /\ q.generation <= generation[q.token.user]
                /\ q.void => /\ \/ ~account[q.token.user].present
                                \/ q.token.tv < account[q.token.user].tv
                             /\ q.at = "read" => ~Entry!Matches(q.row, q.token),
             q.at = "read" /\ q.generation = generation[q.token.user] =>
                q.row = account[q.token.user] \/ Entry!Invalidating(q.token.user),
             q.at = "accepted" => ~q.void,
             sessionCache' \in [SessionUsers -> Entry!Rows \union {Entry!Missing}],
             \A u \in SessionUsers :
                sessionCache'[u] \in {Entry!Missing, account[u]} \/ Entry!Invalidating(u),
             UNCHANGED <<account, tokens, op, login, generation>>
      PROVE  Entry!SessionInv'
  <2>1. \A d \in SessionChecks : check'[d] = IF d = c THEN q ELSE check[d]
    BY <1>b
  <2>2. Entry!SessionShape'
    BY <1>b DEF Entry!SessionInv, Entry!SessionShape
  <2>3. \A u \in SessionUsers : Entry!Invalidating(u)' <=> Entry!Invalidating(u)
    BY <1>b DEF Entry!Invalidating
  <2>4. Entry!CacheIsCurrent'
    BY <1>b, <2>1, <2>3 DEF Entry!SessionInv, Entry!CacheIsCurrent
  <2>5. Entry!VoidStaysVoid' /\ Entry!RevokedIsRefused'
    BY <1>b, <2>1 DEF Entry!SessionInv, Entry!VoidStaysVoid, Entry!RevokedIsRefused,
       Entry!Matches
  <2>6. Entry!TokensAreOfThePast' /\ Entry!ReadsAreCurrent'
    BY <1>b DEF Entry!SessionInv, Entry!TokensAreOfThePast, Entry!OfThePast,
       Entry!ReadsAreCurrent
  <2>7. QED
    BY <2>2, <2>4, <2>5, <2>6 DEF Entry!SessionInv
<1>1. CASE UNCHANGED accountsVars
  <2>1. UNCHANGED <<account, tokens, op, check, login, sessionCache, generation>>
    BY <1>1 DEF accountsVars
  <2>2. Entry!SessionShape' /\ Entry!ReadsAreCurrent' /\ Entry!TokensAreOfThePast'
    BY <2>1 DEF Entry!SessionInv, Entry!SessionShape, Entry!ReadsAreCurrent,
       Entry!TokensAreOfThePast, Entry!OfThePast
  <2>3. Entry!CacheIsCurrent' /\ Entry!VoidStaysVoid' /\ Entry!RevokedIsRefused'
    BY <2>1 DEF Entry!SessionInv, Entry!CacheIsCurrent, Entry!Invalidating, Entry!VoidStaysVoid,
       Entry!RevokedIsRefused, Entry!Matches
  <2>4. QED
    BY <2>2, <2>3 DEF Entry!SessionInv
<1>2. ASSUME NEW o \in SessionOps, Entry!RequireUser(o)
      PROVE  Entry!SessionInv'
  <2>1. PICK kind \in Entry!Kinds, u \in SessionUsers, at \in {"count", "write"} :
           op' = [op EXCEPT ![o] = [at |-> at, kind |-> kind, user |-> u, read |-> account[u]]]
    BY <1>2 DEF Entry!RequireUser
  <2> DEFINE q == [at |-> at, kind |-> kind, user |-> u, read |-> account[u]]
  <2>2. q \in Entry!Changes /\ q.read = account[q.user]
    BY <2>1 DEF Entry!Changes
  <2>3. op[o].at # "invalidate" /\ UNCHANGED <<account, tokens, check, login, sessionCache, generation>>
    BY <1>2 DEF Entry!RequireUser, Entry!OpVars
  <2>4. op' = [op EXCEPT ![o] = q]
    BY <2>1
  <2> HIDE DEF q
  <2>5. QED
    BY <1>a, <2>2, <2>3, <2>4
<1>3. ASSUME NEW o \in SessionOps, Entry!AssertNotLastAdmin(o)
      PROVE  Entry!SessionInv'
  <2>1. op[o].at = "count" /\ op[o] \in Entry!Changes /\ op[o].read = account[op[o].user]
        /\ UNCHANGED <<account, tokens, check, login, sessionCache, generation>>
    BY <1>3 DEF Entry!AssertNotLastAdmin, Entry!OpVars, Entry!SessionInv, Entry!ReadsAreCurrent
  <2>2. PICK q : q = [op[o] EXCEPT !.at = "write"]
    OBVIOUS
  <2>3. q \in Entry!Changes /\ q.read = op[o].read /\ q.user = op[o].user
    BY <2>1, <2>2 DEF Entry!Changes
  <2>4. op' = [op EXCEPT ![o] = Entry!IdleOp] \/ op' = [op EXCEPT ![o] = q]
    BY <1>3, <2>2 DEF Entry!AssertNotLastAdmin
  <2>5. CASE op' = [op EXCEPT ![o] = q]
    BY <1>a, <2>1, <2>3, <2>5
  <2>6. CASE op' = [op EXCEPT ![o] = Entry!IdleOp]
    BY <1>a, <2>1, <2>6
  <2>7. QED
    BY <2>4, <2>5, <2>6
<1>4. ASSUME NEW o \in SessionOps, Entry!WriteAccount(o)
      PROVE  Entry!SessionInv'
  <2>0. PICK u \in SessionUsers : u = op[o].user
    BY <1>4 DEF Entry!WriteAccount
  <2>1. /\ op[o].at = "write" /\ op[o] \in Entry!Changes /\ op[o].read = account[u]
        /\ UNCHANGED <<tokens, check, login, sessionCache, generation>>
    BY <1>4, <2>0 DEF Entry!WriteAccount, Entry!OpVars, Entry!SessionInv, Entry!ReadsAreCurrent
  <2>2. CASE ~account[u].present
    <3>1. op' = [op EXCEPT ![o] = Entry!IdleOp] /\ UNCHANGED account
      BY <1>4, <2>0, <2>2 DEF Entry!WriteAccount
    <3>2. QED
      BY <1>a, <2>1, <3>1
  <2>3. CASE account[u].present
    <3>1. PICK new : new = Entry!Changed(o)
      OBVIOUS
    <3>2. PICK q : q = [op[o] EXCEPT !.at = "invalidate"]
      OBVIOUS
    <3>3. account' = [account EXCEPT ![u] = new] /\ op' = [op EXCEPT ![o] = q]
      BY <1>4, <2>0, <2>3, <3>1, <3>2 DEF Entry!WriteAccount
    <3>4. q \in Entry!Changes /\ q.at = "invalidate" /\ q.user = u
      BY <2>0, <2>1, <3>2 DEF Entry!Changes
    <3>5. new \in Entry!Rows /\ (~new.present \/ new.tv = account[u].tv + 1)
      <4>1. PICK bumped : bumped = [op[o].read EXCEPT !.tv = @ + 1]
        OBVIOUS
      <4>2. bumped \in Entry!Rows /\ bumped.tv = account[u].tv + 1
        BY <2>0, <2>1, <4>1 DEF Entry!Rows
      <4>3. Entry!Nothing \in Entry!Rows /\ ~Entry!Nothing.present
        BY DEF Entry!Nothing, Entry!Rows, Entry!Roles
      <4>4. account[u].role \in Entry!Roles
        BY DEF Entry!Rows
      <4>5. \A r \in Entry!Roles : /\ [bumped EXCEPT !.role = r] \in Entry!Rows
                                   /\ [bumped EXCEPT !.role = r].tv = account[u].tv + 1
        BY <4>2 DEF Entry!Rows
      <4>6. \/ new = Entry!Nothing
            \/ \E r \in Entry!Roles : new = [bumped EXCEPT !.role = r]
        <5>1. CASE op[o].kind = "demote"
          <6>1. new = [bumped EXCEPT !.role = "VIEWER"]
            BY <3>1, <4>1, <5>1 DEF Entry!Changed
          <6>2. QED
            BY <6>1 DEF Entry!Roles
        <5>2. CASE op[o].kind = "promote"
          <6>1. new = [bumped EXCEPT !.role = "ADMIN"]
            BY <3>1, <4>1, <5>2 DEF Entry!Changed
          <6>2. QED
            BY <6>1 DEF Entry!Roles
        <5>3. CASE op[o].kind = "delete"
          BY <3>1, <5>3 DEF Entry!Changed
        <5>4. CASE op[o].kind \notin {"demote", "promote", "delete"}
          <6>1. new = [bumped EXCEPT !.role = account[u].role]
            BY <2>0, <3>1, <4>1, <5>4 DEF Entry!Changed
          <6>2. QED
            BY <4>4, <6>1
        <5>5. QED
          BY <5>1, <5>2, <5>3, <5>4
      <4>7. QED
        BY <4>3, <4>5, <4>6
    <3>6. /\ \A v \in SessionUsers : account'[v] = IF v = u THEN new ELSE account[v]
          /\ \A p \in SessionOps : op'[p] = IF p = o THEN q ELSE op[p]
      BY <3>3
    <3>7. Entry!SessionShape'
      BY <2>1, <3>3, <3>4, <3>5 DEF Entry!SessionInv, Entry!SessionShape
    <3>8. Entry!ReadsAreCurrent'
      <4>1. \A p \in SessionOps : p # o /\ op[p].at \in {"count", "write"} => op[p].user # u
        BY <2>0, <2>1 DEF Entry!OneChangeAtATime
      <4>2. QED
        BY <3>4, <3>6, <4>1 DEF Entry!SessionInv, Entry!ReadsAreCurrent
    <3>9. \A role_, tv_, v : v \in SessionUsers /\ tv_ \in Nat /\ Entry!OfThePast(role_, tv_, v)
             => Entry!OfThePast(role_, tv_, v)'
      BY <2>3, <3>5, <3>6 DEF Entry!OfThePast
    <3>10. Entry!TokensAreOfThePast'
      <4>1. \A token \in tokens : token.user \in SessionUsers /\ token.tv \in Nat
        BY DEF Entry!TokenSet
      <4>2. \A l \in SessionLogins : login[l].at = "verify" =>
               login[l].user \in SessionUsers /\ login[l].read.tv \in Nat
        BY DEF Entry!Rows
      <4>3. QED
        BY <2>1, <3>9, <4>1, <4>2 DEF Entry!SessionInv, Entry!TokensAreOfThePast
    <3>11. Entry!CacheIsCurrent'
      <4>1. Entry!Invalidating(u)'
        BY <3>4, <3>6 DEF Entry!Invalidating
      <4>2. \A v \in SessionUsers : Entry!Invalidating(v) => Entry!Invalidating(v)'
        BY <2>1, <3>6 DEF Entry!Invalidating
      <4>3. QED
        BY <2>1, <3>6, <4>1, <4>2 DEF Entry!SessionInv, Entry!CacheIsCurrent
    <3>12. Entry!VoidStaysVoid' /\ Entry!RevokedIsRefused'
      <4>1. \A c \in SessionChecks : check[c].at \in {"lookup", "read"} => check[c].token.tv \in Nat
        BY DEF Entry!TokenSet
      <4>2. QED
        BY <2>1, <2>3, <3>5, <3>6, <4>1 DEF Entry!SessionInv, Entry!VoidStaysVoid,
           Entry!RevokedIsRefused, Entry!Matches
    <3>13. QED
      BY <3>7, <3>8, <3>10, <3>11, <3>12 DEF Entry!SessionInv
  <2>4. QED
    BY <2>2, <2>3
<1>5. ASSUME NEW o \in SessionOps, Entry!InvalidateSessionCache(o)
      PROVE  Entry!SessionInv'
  <2>1. PICK u \in SessionUsers : u = op[o].user
    BY <1>5 DEF Entry!InvalidateSessionCache
  <2>2. /\ op[o].at = "invalidate" /\ op' = [op EXCEPT ![o] = Entry!IdleOp]
        /\ generation' = [generation EXCEPT ![u] = generation[u] + 1]
        /\ sessionCache' = [sessionCache EXCEPT ![u] = Entry!Missing]
        /\ UNCHANGED <<account, tokens, check, login>>
    BY <1>5, <2>1 DEF Entry!InvalidateSessionCache, Entry!OpVars
  <2>3. /\ \A p \in SessionOps : op'[p] = IF p = o THEN Entry!IdleOp ELSE op[p]
        /\ \A v \in SessionUsers : generation'[v] = IF v = u THEN generation[u] + 1 ELSE generation[v]
        /\ \A v \in SessionUsers : sessionCache'[v] = IF v = u THEN Entry!Missing ELSE sessionCache[v]
    BY <2>2
  <2>4. Entry!SessionShape'
    BY <2>2 DEF Entry!SessionInv, Entry!SessionShape
  <2>5. Entry!ReadsAreCurrent'
    BY <2>2, <2>3 DEF Entry!SessionInv, Entry!ReadsAreCurrent
  <2>6. Entry!TokensAreOfThePast' /\ Entry!VoidStaysVoid' /\ Entry!RevokedIsRefused'
    BY <2>2 DEF Entry!SessionInv, Entry!TokensAreOfThePast, Entry!OfThePast, Entry!VoidStaysVoid,
       Entry!RevokedIsRefused, Entry!Matches
  <2>7. Entry!CacheIsCurrent'
    <3>1. \A v \in SessionUsers : v # u => (Entry!Invalidating(v) => Entry!Invalidating(v)')
      BY <2>1, <2>3 DEF Entry!Invalidating
    <3>2. \A c \in SessionChecks : check[c].at \in {"lookup", "read"} => check[c].generation \in Nat
      BY DEF Entry!Lookups
    <3>3. \A v \in SessionUsers : sessionCache'[v] \in {Entry!Missing, account'[v]} \/ Entry!Invalidating(v)'
      BY <2>2, <2>3, <3>1 DEF Entry!SessionInv, Entry!CacheIsCurrent
    <3>4. ASSUME NEW c \in SessionChecks, check[c].at \in {"lookup", "read"}
          PROVE  /\ check[c].generation <= generation'[check[c].token.user]
                 /\ check[c].at = "read" /\ check[c].generation = generation'[check[c].token.user] =>
                       \/ check[c].row = account[check[c].token.user]
                       \/ Entry!Invalidating(check[c].token.user)'
      <4>1. PICK v \in SessionUsers : v = check[c].token.user
        BY <3>4
      <4>2. generation[v] \in Nat /\ check[c].generation \in Nat /\ check[c].generation <= generation[v]
        BY <3>2, <3>4, <4>1 DEF Entry!SessionInv, Entry!CacheIsCurrent
      <4>3. CASE v = u
        BY <2>3, <4>1, <4>2, <4>3
      <4>4. CASE v # u
        <5>1. generation'[v] = generation[v]
          BY <2>3, <4>4
        <5>2. check[c].at = "read" /\ check[c].generation = generation[v] =>
                 check[c].row = account[v] \/ Entry!Invalidating(v)
          BY <4>1 DEF Entry!SessionInv, Entry!CacheIsCurrent
        <5>3. Entry!Invalidating(v) => Entry!Invalidating(v)'
          BY <3>1, <4>4
        <5>4. Entry!Invalidating(check[c].token.user)' <=> Entry!Invalidating(v)'
          BY <2>2, <4>1 DEF Entry!Invalidating
        <5>5. QED
          BY <4>1, <4>2, <5>1, <5>2, <5>3, <5>4
      <4>5. QED
        BY <4>3, <4>4
    <3>5. \A c \in SessionChecks : check'[c] = check[c]
      BY <2>2
    <3>6. QED
      BY <2>2, <3>3, <3>4, <3>5 DEF Entry!CacheIsCurrent
  <2>8. QED
    BY <2>4, <2>5, <2>6, <2>7 DEF Entry!SessionInv
<1>6. ASSUME NEW c \in SessionChecks, Entry!IsSessionValid(c)
      PROVE  Entry!SessionInv'
  <2>1. PICK token \in tokens, void \in BOOLEAN :
           /\ void <=> Entry!Void(token)
           /\ check' = [check EXCEPT ![c] =
                 IF sessionCache[token.user] = Entry!Missing
                 THEN [at |-> "lookup", token |-> token, void |-> void, row |-> Entry!Nothing,
                       generation |-> generation[token.user]]
                 ELSE Entry!Verdict(sessionCache[token.user], token, void)]
    <3>1. PICK token \in tokens :
             check' = [check EXCEPT ![c] =
                 IF sessionCache[token.user] = Entry!Missing
                 THEN [at |-> "lookup", token |-> token, void |-> Entry!Void(token),
                       row |-> Entry!Nothing, generation |-> generation[token.user]]
                 ELSE Entry!Verdict(sessionCache[token.user], token, Entry!Void(token))]
      BY <1>6 DEF Entry!IsSessionValid
    <3>2. Entry!Void(token) \in BOOLEAN
      BY DEF Entry!Void
    <3>3. QED
      BY <3>1, <3>2
  <2>2. PICK u \in SessionUsers : u = token.user /\ token \in Entry!TokenSet /\ token.tv \in Nat
    BY DEF Entry!TokenSet
  <2>3. UNCHANGED <<account, tokens, op, login, sessionCache, generation>>
    BY <1>6 DEF Entry!IsSessionValid, Entry!CheckVars
  <2>4. void => /\ ~account[u].present \/ token.tv < account[u].tv
                /\ ~Entry!Matches(account[u], token)
                /\ sessionCache[u] \in {Entry!Missing, account[u]}
    <3>1. Entry!OfThePast(token.role, token.tv, u)
      BY <2>2 DEF Entry!SessionInv, Entry!TokensAreOfThePast
    <3>2. void => ~Entry!Matches(account[u], token)
      BY <2>1, <2>2 DEF Entry!Void
    <3>3. void => ~Entry!Invalidating(u)
      BY <2>1, <2>2 DEF Entry!Void, Entry!Invalidating
    <3>4. void => ~account[u].present \/ token.tv < account[u].tv
      BY <3>1, <3>2 DEF Entry!OfThePast, Entry!Matches
    <3>5. QED
      BY <3>2, <3>3, <3>4 DEF Entry!SessionInv, Entry!CacheIsCurrent
  <2>5. /\ sessionCache' \in [SessionUsers -> Entry!Rows \union {Entry!Missing}]
        /\ \A v \in SessionUsers :
              sessionCache'[v] \in {Entry!Missing, account[v]} \/ Entry!Invalidating(v)
    BY <2>3 DEF Entry!SessionInv, Entry!CacheIsCurrent
  <2>6. CASE sessionCache[u] = Entry!Missing
    <3>1. PICK q : q = [at |-> "lookup", token |-> token, void |-> void, row |-> Entry!Nothing,
                        generation |-> generation[u]]
      OBVIOUS
    <3>2. Entry!Nothing \in Entry!Rows
      BY DEF Entry!Nothing, Entry!Rows, Entry!Roles
    <3>3. q \in Entry!Lookups /\ q.at = "lookup" /\ q.token = token /\ q.token.user = u
          /\ q.generation = generation[u] /\ generation[u] \in Nat /\ q.void = void
      BY <2>2, <3>1, <3>2 DEF Entry!Lookups
    <3>4. check' = [check EXCEPT ![c] = q]
      BY <2>1, <2>2, <2>6, <3>1
    <3>5. q.token \in Entry!TokenSet /\ q.token.user \in SessionUsers
          /\ q.generation <= generation[q.token.user]
      BY <2>2, <3>3
    <3>6. q.void => ~account[q.token.user].present \/ q.token.tv < account[q.token.user].tv
      BY <2>2, <2>4, <3>3
    <3>7. QED
      BY <1>b, <2>3, <2>5, <3>3, <3>4, <3>5, <3>6
  <2>7. CASE sessionCache[u] # Entry!Missing
    <3>1. PICK q : q = Entry!Verdict(sessionCache[u], token, void)
      OBVIOUS
    <3>2. check' = [check EXCEPT ![c] = q]
      BY <2>1, <2>2, <2>7, <3>1
    <3>3. CASE Entry!Matches(sessionCache[u], token)
      <4>1. q = [at |-> "accepted", void |-> void]
        BY <3>1, <3>3 DEF Entry!Verdict
      <4>2. q \in Entry!Accepted /\ q.at = "accepted" /\ q.void = void
        BY <4>1 DEF Entry!Accepted
      <4>3. ~void
        BY <2>4, <2>7, <3>3
      <4>4. QED
        BY <1>b, <2>3, <2>5, <3>2, <4>2, <4>3
    <3>4. CASE ~Entry!Matches(sessionCache[u], token)
      <4>1. q = Entry!IdleCheck
        BY <3>1, <3>4 DEF Entry!Verdict
      <4>2. QED
        BY <1>b, <2>3, <2>5, <3>2, <4>1
    <3>5. QED
      BY <3>3, <3>4
  <2>8. QED
    BY <2>6, <2>7
<1>7. ASSUME NEW c \in SessionChecks, Entry!LookupReads(c)
      PROVE  Entry!SessionInv'
  <2>1. PICK u \in SessionUsers : u = check[c].token.user
    BY <1>7 DEF Entry!LookupReads
  <2>2. PICK q : q = [[check[c] EXCEPT !.at = "read"] EXCEPT !.row = account[u]]
    OBVIOUS
  <2>3. /\ check[c].at = "lookup" /\ check' = [check EXCEPT ![c] = q]
        /\ UNCHANGED <<account, tokens, op, login, sessionCache, generation>>
    <3>1. [check[c] EXCEPT !.at = "read", !.row = account[u]] = q
      BY <2>2
    <3>2. QED
      BY <1>7, <2>1, <3>1 DEF Entry!LookupReads, Entry!CheckVars
  <2>4. /\ q \in Entry!Lookups /\ q.at = "read" /\ q.token = check[c].token
        /\ q.void = check[c].void /\ q.row = account[u] /\ q.generation = check[c].generation
    BY <2>2, <2>3 DEF Entry!Lookups
  <2>5. /\ q.token \in Entry!TokenSet /\ q.token.user = u /\ q.token.tv \in Nat
        /\ q.generation <= generation[u]
    BY <2>1, <2>3, <2>4 DEF Entry!SessionInv, Entry!CacheIsCurrent, Entry!TokenSet
  <2>6. q.void => ~account[u].present \/ q.token.tv < account[u].tv
    BY <2>1, <2>3, <2>4 DEF Entry!SessionInv, Entry!VoidStaysVoid
  <2>7. q.void => ~Entry!Matches(q.row, q.token)
    BY <2>4, <2>5, <2>6 DEF Entry!Matches
  <2>8. /\ sessionCache' \in [SessionUsers -> Entry!Rows \union {Entry!Missing}]
        /\ \A v \in SessionUsers :
              sessionCache'[v] \in {Entry!Missing, account[v]} \/ Entry!Invalidating(v)
    BY <2>3 DEF Entry!SessionInv, Entry!CacheIsCurrent
  <2>9. QED
    BY <1>b, <2>3, <2>4, <2>5, <2>6, <2>7, <2>8
<1>8. ASSUME NEW c \in SessionChecks, Entry!LookupEnds(c)
      PROVE  Entry!SessionInv'
  <2>1. PICK u \in SessionUsers, row \in Entry!Rows, token \in Entry!TokenSet, void \in BOOLEAN :
           u = check[c].token.user /\ row = check[c].row /\ token = check[c].token /\ void = check[c].void
    BY <1>8 DEF Entry!LookupEnds, Entry!Lookups
  <2>2. PICK q : q = Entry!Verdict(row, token, void)
    OBVIOUS
  <2>3. /\ check[c].at = "read" /\ check' = [check EXCEPT ![c] = q]
        /\ UNCHANGED <<account, tokens, op, login, generation>>
    BY <1>8, <2>1, <2>2 DEF Entry!LookupEnds, Entry!CheckVars
  <2>4. \/ UNCHANGED sessionCache
        \/ /\ sessionCache' = [sessionCache EXCEPT ![u] = row]
           /\ row = account[u] \/ Entry!Invalidating(u)
    BY <1>8, <2>1, <2>3 DEF Entry!LookupEnds, Entry!KeepInCache, Entry!SessionInv, Entry!CacheIsCurrent
  <2>5. /\ sessionCache' \in [SessionUsers -> Entry!Rows \union {Entry!Missing}]
        /\ \A v \in SessionUsers :
              sessionCache'[v] \in {Entry!Missing, account[v]} \/ Entry!Invalidating(v)
    BY <2>1, <2>4 DEF Entry!SessionInv, Entry!CacheIsCurrent
  <2>6. void => ~Entry!Matches(row, token)
    BY <2>1, <2>3 DEF Entry!SessionInv, Entry!VoidStaysVoid
  <2>7. CASE Entry!Matches(row, token)
    <3>1. q = [at |-> "accepted", void |-> void]
      BY <2>2, <2>7 DEF Entry!Verdict
    <3>2. q \in Entry!Accepted /\ q.at = "accepted" /\ q.void = void
      BY <3>1 DEF Entry!Accepted
    <3>3. QED
      BY <1>b, <2>3, <2>5, <2>6, <2>7, <3>2
  <2>8. CASE ~Entry!Matches(row, token)
    <3>1. q = Entry!IdleCheck
      BY <2>2, <2>8 DEF Entry!Verdict
    <3>2. QED
      BY <1>b, <2>3, <2>5, <3>1
  <2>9. QED
    BY <2>7, <2>8
<1>9. ASSUME NEW u \in SessionUsers, Entry!CacheExpires(u)
      PROVE  Entry!SessionInv'
  <2>1. /\ sessionCache' = [sessionCache EXCEPT ![u] = Entry!Missing]
        /\ UNCHANGED <<account, tokens, op, check, login, generation>>
    BY <1>9 DEF Entry!CacheExpires, Entry!CheckVars
  <2>2. Entry!SessionShape' /\ Entry!ReadsAreCurrent' /\ Entry!TokensAreOfThePast'
    BY <2>1 DEF Entry!SessionInv, Entry!SessionShape, Entry!ReadsAreCurrent,
       Entry!TokensAreOfThePast, Entry!OfThePast
  <2>3. Entry!VoidStaysVoid' /\ Entry!RevokedIsRefused'
    BY <2>1 DEF Entry!SessionInv, Entry!VoidStaysVoid, Entry!RevokedIsRefused, Entry!Matches
  <2>4. \A v \in SessionUsers : Entry!Invalidating(v)' <=> Entry!Invalidating(v)
    BY <2>1 DEF Entry!Invalidating
  <2>5. Entry!CacheIsCurrent'
    BY <2>1, <2>4 DEF Entry!SessionInv, Entry!CacheIsCurrent
  <2>6. QED
    BY <2>2, <2>3, <2>5 DEF Entry!SessionInv
(* A step of a login. *)
<1>c. ASSUME UNCHANGED <<account, op, check, sessionCache, generation>>,
             Entry!SessionShape', Entry!TokensAreOfThePast'
      PROVE  Entry!SessionInv'
  <2>1. Entry!ReadsAreCurrent' /\ Entry!VoidStaysVoid' /\ Entry!RevokedIsRefused'
    BY <1>c DEF Entry!SessionInv, Entry!ReadsAreCurrent, Entry!VoidStaysVoid,
       Entry!RevokedIsRefused, Entry!Matches
  <2>2. Entry!CacheIsCurrent'
    BY <1>c DEF Entry!SessionInv, Entry!CacheIsCurrent, Entry!Invalidating
  <2>3. QED
    BY <1>c, <2>1, <2>2 DEF Entry!SessionInv
<1>10. ASSUME NEW l \in SessionLogins, Entry!VerifyCredentials(l)
       PROVE  Entry!SessionInv'
  <2>1. PICK u \in SessionUsers :
           login' = [login EXCEPT ![l] = [at |-> "verify", user |-> u, read |-> account[u]]]
    BY <1>10 DEF Entry!VerifyCredentials
  <2>2. UNCHANGED <<account, tokens, op, check, sessionCache, generation>>
    BY <1>10 DEF Entry!VerifyCredentials, Entry!LoginVars
  <2>3. PICK q : q = [at |-> "verify", user |-> u, read |-> account[u]]
    OBVIOUS
  <2>4. q \in [at : {"verify"}, user : SessionUsers, read : Entry!Rows] /\ q.user = u
        /\ q.read = account[u]
    BY <2>3
  <2>5. login' = [login EXCEPT ![l] = q]
    BY <2>1, <2>3
  <2>6. Entry!SessionShape'
    BY <2>2, <2>4, <2>5 DEF Entry!SessionInv, Entry!SessionShape
  <2>7. Entry!OfThePast(q.read.role, q.read.tv, q.user)
    BY <2>4 DEF Entry!OfThePast
  <2>8. \A k \in SessionLogins : login'[k] = IF k = l THEN q ELSE login[k]
    BY <2>5
  <2>9. Entry!TokensAreOfThePast'
    BY <2>2, <2>7, <2>8 DEF Entry!SessionInv, Entry!TokensAreOfThePast, Entry!OfThePast
  <2>10. QED
    BY <1>c, <2>2, <2>6, <2>9
<1>11. ASSUME NEW l \in SessionLogins, Entry!IssueToken(l)
       PROVE  Entry!SessionInv'
  <2>1. PICK new : new = [user |-> login[l].user, role |-> login[l].read.role, tv |-> login[l].read.tv]
    OBVIOUS
  <2>2. /\ login[l].at = "verify" /\ tokens' = tokens \union {new}
        /\ login' = [login EXCEPT ![l] = Entry!IdleLogin]
        /\ UNCHANGED <<account, op, check, sessionCache, generation>>
    BY <1>11, <2>1 DEF Entry!IssueToken, Entry!LoginVars
  <2>3. new \in Entry!TokenSet
    BY <2>1, <2>2 DEF Entry!TokenSet, Entry!Rows
  <2>4. Entry!SessionShape'
    BY <2>2, <2>3 DEF Entry!SessionInv, Entry!SessionShape
  <2>5. Entry!OfThePast(new.role, new.tv, new.user)
    BY <2>1, <2>2 DEF Entry!SessionInv, Entry!TokensAreOfThePast
  <2>6. \A k \in SessionLogins : login'[k] = IF k = l THEN Entry!IdleLogin ELSE login[k]
    BY <2>2
  <2>7. Entry!TokensAreOfThePast'
    BY <2>2, <2>5, <2>6 DEF Entry!SessionInv, Entry!TokensAreOfThePast, Entry!OfThePast
  <2>8. QED
    BY <1>c, <2>2, <2>4, <2>7
<1>12. QED
  BY <1>1, <1>2, <1>3, <1>4, <1>5, <1>6, <1>7, <1>8, <1>9, <1>10, <1>11
     DEF Entry!SessionNext, Entry!OpStep, Entry!CheckStep, Entry!LoginStep

(* The invariant of accounts, tokens and their cache, for as long as no two changes of one
   account overlap: the version a change writes is the one it read, plus one. *)
THEOREM SessionsConsistent ==
    Spec /\ [](part = "accounts" => Entry!OneChangeAtATime)
        => [](part = "accounts" => Entry!SessionInv)
<1> DEFINE Inv == part = "accounts" => Entry!SessionInv
           One == part = "accounts" => Entry!OneChangeAtATime
<1>1. Init => Inv
  BY SessionStart DEF Init
<1>2. Inv /\ One /\ [Next]_vars => Inv'
  <2>1. SUFFICES ASSUME Inv, One, [Next]_vars, part' = "accounts"
                 PROVE  Entry!SessionInv'
    OBVIOUS
  <2>2. part = "accounts" /\ [Entry!SessionNext]_accountsVars
    BY <2>1 DEF Next, vars
  <2>3. QED
    BY <2>1, <2>2, SessionStep
<1> HIDE DEF Inv, One
<1>3. Spec /\ []One => []Inv
  BY <1>1, <1>2, PTL DEF Spec
<1>4. QED
  BY <1>3 DEF Inv, One

(* Once a password change, a sign-out, a change of role or a removal has answered, no request
   that comes later is let in with a token it revoked, whatever lookups of the cache were
   under way (session.ts), as long as changes of one account do not overlap; and the guesses
   at a username stay bounded. *)
THEOREM EntryStaysGuarded ==
    Spec /\ [](part = "accounts" => Entry!OneChangeAtATime) => []EntryIsGuarded
<1>1. (part = "accounts" => Entry!SessionInv) /\ Throttle!GuessesAreBounded => EntryIsGuarded
  BY DEF Entry!SessionInv, EntryIsGuarded
<1>2. QED
  BY <1>1, SessionsConsistent, GuessesStayBounded, PTL

-------------------------------------------------------------------------------
(* The offload to a second storage *)

LEMMA OffloadSizes == \A S : Offload!Cardinality(S) = Cardinality(S)
BY DEF Offload!Cardinality, Cardinality

LEMMA TasksAreFinite ==
    /\ \A S \in SUBSET Tasks : IsFiniteSet(S) /\ Cardinality(S) \in Nat
    /\ \A tasks, status : /\ Offload!With(tasks, status) \in SUBSET Tasks
                          /\ Offload!InProgress(tasks) \in SUBSET Tasks
<1>1. \A S \in SUBSET Tasks : IsFiniteSet(S)
  BY OffloadAssumption, FS_Subset
<1>2. QED
  BY <1>1, FS_CardinalityType DEF Offload!With, Offload!InProgress

(* drainQueue leaves the counter at the number of uploads, within the maximum, and no
   task waiting while a slot is free. *)
LEMMA QueueDrains ==
    ASSUME NEW tasks, NEW active \in Nat,
           DOMAIN tasks = Tasks, \A t \in Tasks : DOMAIN tasks[t] = {"key", "status"},
           active = Cardinality(Offload!InProgress(tasks)), active <= MaxConcurrent,
           Offload!DrainQueue(tasks, active)
    PROVE  /\ DOMAIN task' = Tasks /\ \A t \in Tasks : DOMAIN task'[t] = {"key", "status"}
           /\ activeUploads' \in Nat /\ activeUploads' <= MaxConcurrent
           /\ activeUploads' = Cardinality(Offload!InProgress(task'))
           /\ secondary' /\ activeUploads' < MaxConcurrent => Offload!With(task', "pending") = {}
<1> DEFINE pending == Offload!With(tasks, "pending")
           room == IF secondary' THEN Offload!FreeSlots(active) ELSE 0
           many == IF Cardinality(pending) < room THEN Cardinality(pending) ELSE room
<1>1. PICK started \in SUBSET pending :
         /\ Cardinality(started) = many
         /\ task' = [t \in Tasks |-> IF t \in started THEN [tasks[t] EXCEPT !.status = "reading"]
                                     ELSE tasks[t]]
         /\ activeUploads' = active + many
  BY OffloadSizes DEF Offload!DrainQueue
<1>2. /\ pending \in SUBSET Tasks /\ started \in SUBSET Tasks
      /\ IsFiniteSet(pending) /\ IsFiniteSet(started)
      /\ Cardinality(pending) \in Nat /\ Cardinality(started) \in Nat
      /\ Offload!InProgress(tasks) \in SUBSET Tasks /\ IsFiniteSet(Offload!InProgress(tasks))
  BY <1>1, TasksAreFinite DEF Offload!With
<1>3. /\ room \in Nat /\ many \in Nat /\ many <= room /\ active + room <= MaxConcurrent
      /\ secondary' => active + room = MaxConcurrent
  BY <1>2, OffloadAssumption DEF Offload!FreeSlots
<1>4. /\ DOMAIN task' = Tasks
      /\ \A t \in Tasks : /\ DOMAIN task'[t] = {"key", "status"}
                          /\ task'[t].status = IF t \in started THEN "reading"
                                               ELSE tasks[t].status
  BY <1>1, <1>2
<1>5. Offload!InProgress(task') = Offload!InProgress(tasks) \cup started
  BY <1>1, <1>2, <1>4 DEF Offload!InProgress, Offload!With
<1>6. Offload!InProgress(tasks) \cap started = {}
  BY <1>1 DEF Offload!InProgress, Offload!With
<1>7. Cardinality(Offload!InProgress(task')) = active + many
  <2>1. Cardinality(Offload!InProgress(tasks) \cup started)
           = active + Cardinality(started) - Cardinality(Offload!InProgress(tasks) \cap started)
    BY <1>2, FS_Union
  <2>2. Cardinality(Offload!InProgress(tasks) \cap started) = 0
    BY <1>6, FS_EmptySet
  <2>3. Cardinality(started) = many
    BY <1>1
  <2> HIDE DEF many
  <2>4. QED
    BY <1>3, <1>5, <2>1, <2>2, <2>3
<1>8. ASSUME secondary', activeUploads' < MaxConcurrent
      PROVE  Offload!With(task', "pending") = {}
  <2>1. many = Cardinality(pending)
    BY <1>1, <1>2, <1>3, <1>8, OffloadAssumption
  <2> HIDE DEF pending, many
  <2>2. started = pending
    BY <1>1, <1>2, <2>1, FS_Subset
  <2>3. QED
    BY <1>4, <2>2 DEF Offload!With, pending
<1>9. QED
  BY <1>1, <1>3, <1>4, <1>7, <1>8

LEMMA OffloadStart == Offload!OffloadInit => Offload!OffloadInv
<1> SUFFICES ASSUME Offload!OffloadInit PROVE Offload!OffloadInv
  OBVIOUS
<1>1. Offload!InProgress(task) = {} /\ Offload!With(task, "pending") = {}
  BY DEF Offload!OffloadInit, Offload!InProgress, Offload!With
<1>2. Offload!OffloadShape
  BY DEF Offload!OffloadInit, Offload!OffloadShape
<1>3. Offload!UploadsFillTheirSlots
  <2>1. Offload!Cardinality(Offload!InProgress(task)) = 0
    BY <1>1, OffloadSizes, FS_EmptySet
  <2>2. QED
    BY <1>1, <2>1, OffloadAssumption DEF Offload!OffloadInit, Offload!UploadsFillTheirSlots
<1>4. QED
  BY <1>2, <1>3 DEF Offload!OffloadInv

LEMMA OffloadStep ==
    ASSUME Offload!OffloadInv, [Offload!OffloadNext]_offloadVars
    PROVE  Offload!OffloadInv'
<1>0. /\ DOMAIN task = Tasks /\ \A t \in Tasks : DOMAIN task[t] = {"key", "status"}
      /\ activeUploads \in Nat /\ activeUploads <= MaxConcurrent
      /\ late \in BOOLEAN /\ secondary \in BOOLEAN
      /\ activeUploads = Cardinality(Offload!InProgress(task))
      /\ secondary /\ ~late /\ activeUploads < MaxConcurrent => Offload!With(task, "pending") = {}
  BY OffloadSizes DEF Offload!OffloadInv, Offload!OffloadShape, Offload!UploadsFillTheirSlots
<1>a. ASSUME DOMAIN task' = Tasks, \A t \in Tasks : DOMAIN task'[t] = {"key", "status"},
             activeUploads' \in Nat, activeUploads' <= MaxConcurrent,
             late' \in BOOLEAN, secondary' \in BOOLEAN,
             activeUploads' = Cardinality(Offload!InProgress(task')),
             secondary' /\ ~late' /\ activeUploads' < MaxConcurrent
                => Offload!With(task', "pending") = {}
      PROVE  Offload!OffloadInv'
  BY <1>a, OffloadSizes
     DEF Offload!OffloadInv, Offload!OffloadShape, Offload!UploadsFillTheirSlots
<1>b. ASSUME NEW t \in Tasks, task[t].status \in {"reading", "uploading"},
             NEW status \in {"completed", "failed"}, Offload!Finally(t, status)
      PROVE  Offload!OffloadInv'
  <2> DEFINE ended == [task EXCEPT ![t].status = status]
  <2>1. /\ DOMAIN ended = Tasks /\ \A u \in Tasks : DOMAIN ended[u] = {"key", "status"}
        /\ \A u \in Tasks : ended[u].status = IF u = t THEN status ELSE task[u].status
    BY <1>0
  <2>2. Offload!DrainQueue(ended, activeUploads - 1)
    BY <1>b DEF Offload!Finally
  <2> HIDE DEF ended
  <2>3. Offload!InProgress(ended) = Offload!InProgress(task) \ {t} /\ t \in Offload!InProgress(task)
    BY <1>b, <2>1 DEF Offload!InProgress, Offload!With
  <2>4. /\ activeUploads - 1 = Cardinality(Offload!InProgress(ended))
        /\ activeUploads - 1 \in Nat /\ activeUploads - 1 < MaxConcurrent
    <3>1. /\ IsFiniteSet(Offload!InProgress(task))
          /\ Cardinality(Offload!InProgress(ended)) \in Nat
      BY TasksAreFinite
    <3>2. Cardinality(Offload!InProgress(ended)) = activeUploads - 1
      BY <1>0, <2>3, <3>1, FS_RemoveElement
    <3>3. QED
      BY <1>0, <3>1, <3>2, OffloadAssumption
  <2>5. secondary' = secondary /\ late' = FALSE
    <3>1. Offload!FreeSlots(activeUploads - 1) # 0
      BY <1>0, <2>4, OffloadAssumption DEF Offload!FreeSlots
    <3>2. /\ secondary' = secondary
          /\ late' = (late /\ Offload!FreeSlots(activeUploads - 1) = 0)
      BY <1>b DEF Offload!Finally
    <3>3. QED
      BY <3>1, <3>2
  <2>6. /\ DOMAIN task' = Tasks /\ \A u \in Tasks : DOMAIN task'[u] = {"key", "status"}
        /\ activeUploads' \in Nat /\ activeUploads' <= MaxConcurrent
        /\ activeUploads' = Cardinality(Offload!InProgress(task'))
        /\ secondary' /\ activeUploads' < MaxConcurrent => Offload!With(task', "pending") = {}
    <3> DEFINE active == activeUploads - 1
    <3>1. /\ active \in Nat /\ active <= MaxConcurrent
          /\ active = Cardinality(Offload!InProgress(ended)) /\ Offload!DrainQueue(ended, active)
      BY <2>2, <2>4, OffloadAssumption
    <3> HIDE DEF active
    <3>2. QED
      BY <2>1, <3>1, QueueDrains
  <2>7. QED
    BY <1>0, <1>a, <2>5, <2>6
<1>1. CASE UNCHANGED offloadVars
  BY <1>0, <1>1, <1>a DEF offloadVars
<1>2. ASSUME NEW t \in Tasks, NEW k \in ObjectKeys, Offload!EnqueueOffload(t, k)
      PROVE  Offload!OffloadInv'
  <2> DEFINE queued == [task EXCEPT ![t] = [key |-> k, status |-> "pending"]]
  <2>1. /\ DOMAIN queued = Tasks /\ \A u \in Tasks : DOMAIN queued[u] = {"key", "status"}
        /\ \A u \in Tasks : queued[u].status = IF u = t THEN "pending" ELSE task[u].status
    BY <1>0
  <2>2. /\ Offload!DrainQueue(queued, activeUploads) /\ secondary' = secondary /\ late' = FALSE
        /\ task[t].status = "none"
    BY <1>2 DEF Offload!EnqueueOffload
  <2> HIDE DEF queued
  <2>3. Offload!InProgress(queued) = Offload!InProgress(task)
    BY <2>1, <2>2 DEF Offload!InProgress, Offload!With
  <2>4. QED
    BY <1>0, <1>a, <2>1, <2>2, <2>3, QueueDrains, OffloadAssumption
<1>3. ASSUME NEW t \in Tasks, Offload!OpenSource(t)
      PROVE  Offload!OffloadInv'
  <2>1. /\ DOMAIN task' = Tasks /\ \A u \in Tasks : DOMAIN task'[u] = {"key", "status"}
        /\ \A u \in Tasks : task'[u].status = IF u = t THEN "uploading" ELSE task[u].status
        /\ task[t].status = "reading" /\ UNCHANGED <<secondary, late, activeUploads>>
    BY <1>0, <1>3 DEF Offload!OpenSource
  <2>2. /\ Offload!InProgress(task') = Offload!InProgress(task)
        /\ Offload!With(task', "pending") = Offload!With(task, "pending")
    BY <2>1 DEF Offload!InProgress, Offload!With
  <2>3. QED
    BY <1>0, <1>a, <2>1, <2>2
<1>4. ASSUME NEW t \in Tasks, Offload!SourceIsGone(t)
      PROVE  Offload!OffloadInv'
  BY <1>4, <1>b DEF Offload!SourceIsGone
<1>5. ASSUME NEW t \in Tasks, Offload!Uploaded(t)
      PROVE  Offload!OffloadInv'
  BY <1>5, <1>b DEF Offload!Uploaded
<1>6. ASSUME NEW t \in Tasks, Offload!UploadFails(t)
      PROVE  Offload!OffloadInv'
  BY <1>6, <1>b DEF Offload!UploadFails
<1>7. CASE Offload!SetSecondaryProvider
  BY <1>0, <1>7, <1>a DEF Offload!SetSecondaryProvider
<1>8. ASSUME NEW k \in ObjectKeys, Offload!Retention(k)
      PROVE  Offload!OffloadInv'
  BY <1>0, <1>8, <1>a DEF Offload!Retention
<1>9. QED
  BY <1>1, <1>2, <1>3, <1>4, <1>5, <1>6, <1>7, <1>8 DEF Offload!OffloadNext

(* The invariant of the offload holds while its part of the server moves. *)
THEOREM OffloadConsistent == Spec => [](part = "offload" => Offload!OffloadInv)
<1>1. Init => (part = "offload" => Offload!OffloadInv)
  BY OffloadStart DEF Init
<1>2. (part = "offload" => Offload!OffloadInv) /\ [Next]_vars
         => (part = "offload" => Offload!OffloadInv)'
  BY OffloadStep DEF Next, vars, offloadVars
<1>3. QED
  BY <1>1, <1>2, PTL DEF Spec

(* tiered-storage-manager.ts never runs more uploads than it has slots, counts those it
   runs, and leaves no task waiting beside a free slot but for those that were queued before
   the second storage was set. *)
THEOREM UploadsFillSlots == Spec => []UploadsFillTheirSlots
<1>1. (part = "offload" => Offload!OffloadInv) => UploadsFillTheirSlots
  BY DEF Offload!OffloadInv, UploadsFillTheirSlots
<1>2. QED
  BY <1>1, OffloadConsistent, PTL

-------------------------------------------------------------------------------
(* Moves of a camera *)

Movers == PtzSlots \union PtzTimers
PtzCalls == [Movers -> Moves!Calls \union {None}]
WatchesIn(c) ==
    /\ c # None
    /\ \/ c.kind = "watchdog" /\ c.step # "answer"
       \/ c.kind = "move" /\ c.step # "sent"
       \/ c.kind = "stop" /\ c.step \in {"params", "command"}

LEMMA PtzFacts ==
    /\ None \notin Moves!Calls /\ 0 \in 0..MaxPresets /\ MaxPresets \in Nat
    /\ \A kind \in Moves!Kinds, step \in Moves!Steps, heard \in BOOLEAN :
          /\ Moves!Doing(kind, step, heard) \in Moves!Calls
          /\ Moves!Doing(kind, step, heard).kind = kind
          /\ Moves!Doing(kind, step, heard).step = step
BY PtzAssumption DEF Moves!Doing, Moves!Calls

(* A request takes a step, or is over. *)
LEMMA CallGoes ==
    ASSUME NEW calls \in PtzCalls, NEW p \in Movers, calls[p] # None, NEW step \in Moves!Steps
    PROVE  /\ Moves!Goes(calls, p, step) \in PtzCalls
           /\ Moves!Goes(calls, p, step)[p] # None
           /\ Moves!Goes(calls, p, step)[p].kind = calls[p].kind
           /\ Moves!Goes(calls, p, step)[p].step = step
           /\ \A q \in Movers : q # p => Moves!Goes(calls, p, step)[q] = calls[q]
<1> DEFINE c == [calls[p] EXCEPT !.step = step]
<1>1. calls[p] \in Moves!Calls
  BY DEF PtzCalls
<1>2. c \in Moves!Calls /\ c.kind = calls[p].kind /\ c.step = step
  BY <1>1 DEF Moves!Calls
<1>3. Moves!Goes(calls, p, step) = [calls EXCEPT ![p] = c]
  BY DEF Moves!Goes
<1> HIDE DEF c
<1>4. QED
  BY <1>2, <1>3, PtzFacts DEF PtzCalls

LEMMA CallEnds ==
    ASSUME NEW calls \in PtzCalls, NEW p \in Movers
    PROVE  /\ Moves!Over(calls, p) \in PtzCalls
           /\ \A q \in Movers : Moves!Over(calls, p)[q] = IF q = p THEN None ELSE calls[q]
BY DEF Moves!Over, PtzCalls

(* clearWatchdog ends a timer that has not fired, and nothing else. *)
LEMMA TimerIsCleared ==
    ASSUME NEW calls \in PtzCalls
    PROVE  /\ Moves!ClearWatchdog(calls) \in PtzCalls
           /\ \A q \in Movers :
                 \/ Moves!ClearWatchdog(calls)[q] = calls[q]
                 \/ Moves!ClearWatchdog(calls)[q] = None /\ calls[q] # None
                    /\ calls[q].step = "pending"
BY DEF Moves!ClearWatchdog, Moves!Over, PtzCalls

(* A request that is begun takes a free slot, and disturbs no other. *)
LEMMA SendsKeep ==
    ASSUME NEW calls \in PtzCalls, NEW kinds, \A i \in DOMAIN kinds : kinds[i] \in Moves!Kinds,
           Moves!Sends(calls, kinds)
    PROVE  /\ ptzCall' \in PtzCalls
           /\ \A p \in Movers : \/ ptzCall'[p] = calls[p]
                                \/ calls[p] = None /\ ptzCall'[p] # None /\ ptzCall'[p].step = "sent"
<1> DEFINE ways == Moves!Injection(DOMAIN kinds, Moves!Free(calls, PtzSlots))
           way == CHOOSE w \in ways : TRUE
           begun(kind) == Moves!Doing(kind, "sent", kind \in {"list", "save"})
           chosen(p) == CHOOSE i \in DOMAIN kinds : way[i] = p
<1>1. way \in ways
  BY DEF Moves!Sends
<1>2. \A i \in DOMAIN kinds : way[i] \in PtzSlots /\ calls[way[i]] = None
  BY <1>1 DEF Moves!Injection, Moves!Free
<1>3. ptzCall' = [p \in Movers |-> IF \E i \in DOMAIN kinds : way[i] = p
                                THEN begun(kinds[chosen(p)]) ELSE calls[p]]
  BY DEF Moves!Sends, PtzCalls
<1>4. ASSUME NEW p \in Movers, \E i \in DOMAIN kinds : way[i] = p
      PROVE  calls[p] = None /\ chosen(p) \in DOMAIN kinds
  BY <1>2, <1>4
<1>5. ASSUME NEW kind \in Moves!Kinds
      PROVE  begun(kind) \in Moves!Calls /\ begun(kind).step = "sent"
  <2> DEFINE heard == kind \in {"list", "save"}
  <2>1. heard \in BOOLEAN /\ "sent" \in Moves!Steps
    BY DEF Moves!Steps
  <2> HIDE DEF heard
  <2>2. Moves!Doing(kind, "sent", heard) \in Moves!Calls /\ Moves!Doing(kind, "sent", heard).step = "sent"
    BY <2>1, PtzFacts
  <2>3. QED
    BY <2>2 DEF heard
<1> HIDE DEF way, begun, chosen
<1>6. ASSUME NEW p \in Movers
      PROVE  /\ ptzCall'[p] \in Moves!Calls \union {None}
             /\ \/ ptzCall'[p] = calls[p]
                \/ calls[p] = None /\ ptzCall'[p] # None /\ ptzCall'[p].step = "sent"
  BY <1>3, <1>4, <1>5, PtzFacts DEF PtzCalls
<1>7. QED
  BY <1>3, <1>6 DEF PtzCalls

(* What keeps a moving camera watched. *)
LEMMA WatchGoesOn ==
    ASSUME Moves!WatchInv, NEW calls \in PtzCalls, ptzCall' = calls,
           saved' \in 0..MaxPresets, ptzFaults' \in Nat, ptzFaults' = 0 => ptzFaults = 0,
           \A p \in Movers : calls[p] # None /\ calls[p].step = "pending"
                                => calls[p].kind = "watchdog",
           \/ ~moving' \/ ptzFaults' # 0
           \/ \E p \in Movers : WatchesIn(calls[p])
           \/ moving /\ \A p \in Movers : WatchesIn(ptzCall[p]) => WatchesIn(calls[p])
    PROVE  Moves!WatchInv'
<1>1. \A p : (Moves!Watches(p) <=> WatchesIn(ptzCall[p])) /\ (Moves!Watches(p)' <=> WatchesIn(calls[p]))
  BY DEF Moves!Watches, WatchesIn
<1>2. Moves!PtzShape'
  BY DEF Moves!PtzShape, Moves!At, PtzCalls, Movers
<1>3. QED
  BY <1>1, <1>2 DEF Moves!WatchInv, Movers

(* Requests that are sent, and those that end and watched nothing, leave the moves watched. *)
LEMMA CallsAreWatched ==
    ASSUME Moves!WatchInv, moving' = moving, saved' = saved, ptzFaults' = ptzFaults,
           NEW calls \in PtzCalls, ptzCall' = calls,
           \A p \in Movers : \/ calls[p] = ptzCall[p]
                             \/ calls[p] = None /\ ~WatchesIn(ptzCall[p])
                             \/ /\ calls[p] # None /\ calls[p].step = "sent"
                                /\ ~WatchesIn(ptzCall[p])
    PROVE  Moves!WatchInv'
<1>1. \A p \in Movers : calls[p] # None /\ calls[p].step = "pending" => calls[p].kind = "watchdog"
  BY DEF Moves!WatchInv, Moves!PtzShape, Moves!At, Movers
<1>2. \A p \in Movers : WatchesIn(ptzCall[p]) => WatchesIn(calls[p])
  BY DEF WatchesIn
<1>3. \/ ~moving' \/ ptzFaults' # 0
      \/ \E p \in Movers : WatchesIn(calls[p])
      \/ moving /\ \A p \in Movers : WatchesIn(ptzCall[p]) => WatchesIn(calls[p])
  BY <1>2
<1>4. QED
  BY <1>1, <1>3, WatchGoesOn DEF Moves!WatchInv, Moves!PtzShape

LEMMA PtzStart == Moves!PtzInit => Moves!WatchInv
BY DEF Moves!PtzInit, Moves!WatchInv, Moves!PtzShape, Moves!At

LEMMA PtzStep ==
    ASSUME Moves!WatchInv, [Moves!PtzNext]_ptzVars
    PROVE  Moves!WatchInv'
<1>0. /\ ptzCall \in PtzCalls /\ saved \in 0..MaxPresets /\ ptzFaults \in Nat
      /\ \A p \in Movers : ptzCall[p] # None /\ ptzCall[p].step = "pending"
                              => ptzCall[p].kind = "watchdog"
      /\ PtzSlots \subseteq Movers /\ PtzTimers \subseteq Movers
      /\ \A p \in Movers : ptzCall[p] # None => ptzCall[p] \in Moves!Calls
  BY DEF Moves!WatchInv, Moves!PtzShape, Moves!At, PtzCalls, Movers
<1>a. ASSUME NEW kinds, \A i \in DOMAIN kinds : kinds[i] \in Moves!Kinds,
             moving' = moving, saved' = saved, ptzFaults' = ptzFaults,
             ptzCall' = ptzCall \/ Moves!Sends(ptzCall, kinds)
      PROVE  Moves!WatchInv'
  <2> DEFINE calls == ptzCall'
  <2>1. /\ calls \in PtzCalls
        /\ \A p \in Movers : \/ calls[p] = ptzCall[p]
                             \/ ptzCall[p] = None /\ calls[p] # None /\ calls[p].step = "sent"
    BY <1>0, <1>a, SendsKeep
  <2> HIDE DEF calls
  <2>2. ptzCall' = calls
    BY DEF calls
  <2>3. QED
    BY <1>a, <2>1, <2>2, CallsAreWatched DEF WatchesIn
<1>b. /\ \A kind \in Moves!Kinds : \A i \in DOMAIN <<kind>> : <<kind>>[i] \in Moves!Kinds
      /\ \A i \in DOMAIN <<"goto", "goto">> : <<"goto", "goto">>[i] \in Moves!Kinds
      /\ {"list", "move", "stop", "goto", "save", "remove"} \subseteq Moves!Kinds
      /\ {"params", "command", "answer", "pending"} \subseteq Moves!Steps
  BY DEF Moves!Kinds, Moves!Steps
<1>1. CASE UNCHANGED ptzVars
  BY <1>1, <1>a, <1>b DEF ptzVars
<1>2. CASE Moves!OpenOverlay
  BY <1>2, <1>a, <1>b DEF Moves!OpenOverlay
<1>3. CASE Moves!SendMove \/ Moves!SendStop \/ Moves!GotoPreset \/ Moves!SavePreset
              \/ Moves!RemovePreset
  BY <1>3, <1>a, <1>b DEF Moves!SendMove, Moves!SendStop, Moves!GotoPreset, Moves!SavePreset,
     Moves!RemovePreset
<1>4. CASE Moves!ToggleTour
  BY <1>4, <1>a, <1>b DEF Moves!ToggleTour, Moves!TourEffect
<1>5. CASE Moves!TourStep
  BY <1>5, <1>a, <1>b DEF Moves!TourStep
<1>6. CASE Moves!CameraStops
  <2>1. ptzCall' = ptzCall /\ ~moving' /\ saved' = saved /\ ptzFaults' = ptzFaults
    BY <1>6 DEF Moves!CameraStops
  <2>2. QED
    BY <1>0, <2>1, WatchGoesOn
<1>7. CASE Moves!OnClose
  <2> DEFINE Unheard(c) == IF c = None THEN None ELSE [c EXCEPT !.heard = FALSE]
             calls == [p \in Movers |-> Unheard(ptzCall[p])]
  <2>1. ptzCall' = calls /\ UNCHANGED <<moving, saved, ptzFaults>>
    BY <1>0, <1>7 DEF Moves!OnClose, PtzCalls
  <2>2. \A c \in Moves!Calls : Unheard(c) \in Moves!Calls /\ Unheard(c) # None
                               /\ Unheard(c).step = c.step /\ Unheard(c).kind = c.kind
    BY PtzFacts DEF Moves!Calls
  <2>3. \A p \in Movers : IF ptzCall[p] = None THEN calls[p] = None
                          ELSE /\ calls[p] \in Moves!Calls /\ calls[p] # None
                               /\ calls[p].step = ptzCall[p].step
                               /\ calls[p].kind = ptzCall[p].kind
    BY <1>0, <2>2
  <2>4. calls \in PtzCalls
    BY <1>0, <2>2 DEF PtzCalls
  <2> HIDE DEF calls, Unheard
  <2>5. \A p \in Movers : WatchesIn(ptzCall[p]) => WatchesIn(calls[p])
    BY <2>3 DEF WatchesIn
  <2>6. QED
    BY <1>0, <2>1, <2>3, <2>4, <2>5, WatchGoesOn
<1>8. CASE Moves!Restart
  <2> DEFINE calls == [p \in Movers |-> IF Moves!At(p, "sent") THEN ptzCall[p] ELSE None]
  <2>1. ptzCall' = calls /\ saved' = saved /\ ptzFaults' = ptzFaults + 1
    BY <1>0, <1>8 DEF Moves!Restart, PtzCalls
  <2>2. calls \in PtzCalls /\ \A p \in Movers : calls[p] = ptzCall[p] \/ calls[p] = None
    BY <1>0 DEF PtzCalls
  <2>3. ptzFaults' \in Nat /\ ptzFaults' # 0
    BY <1>0, <2>1
  <2> HIDE DEF calls
  <2>4. QED
    BY <1>0, <2>1, <2>2, <2>3, WatchGoesOn
<1>9. ASSUME NEW p \in PtzSlots, Moves!Arrives(p)
      PROVE  Moves!WatchInv'
  <2> DEFINE gone == Moves!Goes(ptzCall, p, "params")
             calls == IF ptzCall[p].kind = "stop" THEN Moves!ClearWatchdog(gone) ELSE gone
  <2>1. /\ ptzCall' = calls /\ UNCHANGED <<moving, saved, ptzFaults>>
        /\ ptzCall[p] # None /\ ptzCall[p].step = "sent"
    BY <1>9 DEF Moves!Arrives, Moves!At
  <2>2. /\ gone \in PtzCalls /\ gone[p] # None /\ gone[p].kind = ptzCall[p].kind
        /\ gone[p].step = "params" /\ \A q \in Movers : q # p => gone[q] = ptzCall[q]
    BY <1>0, <1>b, <2>1, CallGoes
  <2> HIDE DEF gone
  <2>3. /\ calls \in PtzCalls
        /\ \A q \in Movers : calls[q] = gone[q] \/ calls[q] = None
        /\ ptzCall[p].kind # "stop" => calls = gone
        /\ calls[p] = gone[p]
    BY <1>0, <2>2, TimerIsCleared
  <2> HIDE DEF calls
  <2>4. \A q \in Movers : calls[q] # None /\ calls[q].step = "pending" => calls[q].kind = "watchdog"
    BY <1>0, <2>2, <2>3
  <2>5. \/ \E q \in Movers : WatchesIn(calls[q])
        \/ \A q \in Movers : WatchesIn(ptzCall[q]) => WatchesIn(calls[q])
    BY <1>0, <2>2, <2>3 DEF WatchesIn
  <2>6. \/ ~moving' \/ ptzFaults' # 0
        \/ \E q \in Movers : WatchesIn(calls[q])
        \/ moving /\ \A q \in Movers : WatchesIn(ptzCall[q]) => WatchesIn(calls[q])
    BY <2>1, <2>5
  <2>7. QED
    BY <1>0, <2>1, <2>3, <2>4, <2>6, WatchGoesOn
<1>10. ASSUME NEW p \in Movers, Moves!GetConnectionParams(p)
       PROVE  Moves!WatchInv'
  <2> DEFINE gone == Moves!Goes(ptzCall, p, "command")
             calls == IF ptzCall[p].kind = "move" THEN Moves!ClearWatchdog(gone) ELSE gone
  <2>1. /\ ptzCall' = calls /\ UNCHANGED <<moving, saved, ptzFaults>>
        /\ ptzCall[p] # None /\ ptzCall[p].step = "params"
    BY <1>10 DEF Moves!GetConnectionParams, Moves!At
  <2>2. /\ gone \in PtzCalls /\ gone[p] # None /\ gone[p].kind = ptzCall[p].kind
        /\ gone[p].step = "command" /\ \A q \in Movers : q # p => gone[q] = ptzCall[q]
    BY <1>0, <1>b, <2>1, CallGoes
  <2> HIDE DEF gone
  <2>3. /\ calls \in PtzCalls
        /\ \A q \in Movers : calls[q] = gone[q] \/ calls[q] = None
        /\ ptzCall[p].kind # "move" => calls = gone
        /\ calls[p] = gone[p]
    BY <1>0, <2>2, TimerIsCleared
  <2> HIDE DEF calls
  <2>4. \A q \in Movers : calls[q] # None /\ calls[q].step = "pending" => calls[q].kind = "watchdog"
    BY <1>0, <2>2, <2>3
  <2>5. \/ \E q \in Movers : WatchesIn(calls[q])
        \/ \A q \in Movers : WatchesIn(ptzCall[q]) => WatchesIn(calls[q])
    BY <1>0, <2>2, <2>3 DEF WatchesIn
  <2>6. \/ ~moving' \/ ptzFaults' # 0
        \/ \E q \in Movers : WatchesIn(calls[q])
        \/ moving /\ \A q \in Movers : WatchesIn(ptzCall[q]) => WatchesIn(calls[q])
    BY <2>1, <2>5
  <2>7. QED
    BY <1>0, <2>1, <2>3, <2>4, <2>6, WatchGoesOn
<1>c. \A kind : Moves!Takes(kind) /\ kind \in Moves!Kinds =>
         /\ saved' \in 0..MaxPresets
         /\ kind \in {"stop", "watchdog"} => ~moving'
         /\ kind # "move" => moving' = moving \/ ~moving'
  <2> SUFFICES ASSUME NEW kind \in Moves!Kinds, Moves!Takes(kind)
               PROVE  /\ saved' \in 0..MaxPresets
                      /\ kind \in {"stop", "watchdog"} => ~moving'
                      /\ kind # "move" => moving' = moving \/ ~moving'
    OBVIOUS
  <2>1. CASE kind = "move"
    BY <1>0, <2>1 DEF Moves!Takes
  <2>2. CASE kind \in {"stop", "watchdog"}
    BY <1>0, <2>2 DEF Moves!Takes
  <2>3. CASE kind = "goto"
    BY <1>0, <2>3 DEF Moves!Takes
  <2>4. CASE kind = "list"
    BY <1>0, <2>4 DEF Moves!Takes
  <2>5. CASE kind = "save"
    BY <1>0, <2>5, PtzAssumption DEF Moves!Takes
  <2>6. CASE kind = "remove"
    BY <1>0, <2>6, PtzAssumption DEF Moves!Takes
  <2>7. QED
    BY <2>1, <2>2, <2>3, <2>4, <2>5, <2>6 DEF Moves!Kinds
<1>11. ASSUME NEW p \in Movers, Moves!Command(p)
       PROVE  Moves!WatchInv'
  <2> DEFINE c == [ptzCall[p] EXCEPT !.step = "answer",
                                     !.data = IF ptzCall[p].kind = "list" THEN saved ELSE 0]
             calls == [ptzCall EXCEPT ![p] = c]
  <2>1. /\ ptzCall[p] \in Moves!Calls /\ ptzCall[p].step = "command" /\ ptzCall[p] # None
        /\ Moves!Takes(ptzCall[p].kind) /\ ptzFaults' = ptzFaults
        /\ ptzCall' = calls
    BY <1>0, <1>11 DEF Moves!Command, Moves!At
  <2>2. c \in Moves!Calls /\ c.kind = ptzCall[p].kind /\ c.step = "answer"
    BY <1>0, <2>1, PtzFacts DEF Moves!Calls, Moves!Steps
  <2> HIDE DEF c
  <2>3. calls \in PtzCalls /\ \A q \in Movers : calls[q] = IF q = p THEN c ELSE ptzCall[q]
    BY <1>0, <2>2 DEF PtzCalls
  <2> HIDE DEF calls
  <2>4. ptzCall[p].kind \in Moves!Kinds /\ c # None
    BY <2>1, <2>2, PtzFacts DEF Moves!Calls
  <2>5. /\ saved' \in 0..MaxPresets
        /\ ptzCall[p].kind \in {"stop", "watchdog"} => ~moving'
        /\ ptzCall[p].kind # "move" => moving' = moving \/ ~moving'
    BY <1>c, <2>1, <2>4
  <2>6. \/ ~moving'
        \/ \E q \in Movers : WatchesIn(calls[q])
        \/ moving /\ \A q \in Movers : WatchesIn(ptzCall[q]) => WatchesIn(calls[q])
    <3>1. CASE ptzCall[p].kind = "move"
      BY <2>2, <2>3, <2>4, <3>1 DEF WatchesIn
    <3>2. CASE ptzCall[p].kind # "move" /\ moving'
      <4>1. ~WatchesIn(ptzCall[p]) /\ moving
        BY <2>5, <3>2 DEF WatchesIn
      <4>2. QED
        BY <2>3, <4>1
    <3>3. QED
      BY <3>1, <3>2
  <2>7. QED
    BY <1>0, <2>1, <2>2, <2>3, <2>5, <2>6, WatchGoesOn
<1>12. ASSUME NEW p \in Movers, Moves!Fails(p)
       PROVE  Moves!WatchInv'
  <2> DEFINE calls == Moves!Over(ptzCall, p)
  <2>1. /\ ptzCall' = calls /\ ptzFaults' = ptzFaults + 1 /\ ptzCall[p] # None
        /\ saved' = saved \/ Moves!Takes(ptzCall[p].kind)
    BY <1>12 DEF Moves!Fails, Moves!At
  <2>2. calls \in PtzCalls /\ \A q \in Movers : calls[q] = IF q = p THEN None ELSE ptzCall[q]
    BY <1>0, CallEnds
  <2> HIDE DEF calls
  <2>3. saved' \in 0..MaxPresets
    BY <1>0, <1>c, <2>1 DEF Moves!Calls
  <2>4. ptzFaults' \in Nat /\ ptzFaults' # 0
    BY <1>0, <2>1
  <2>5. QED
    BY <1>0, <2>1, <2>2, <2>3, <2>4, WatchGoesOn
<1>13. ASSUME NEW t \in PtzTimers, Moves!Finally(t)
       PROVE  Moves!WatchInv'
  <2> DEFINE calls == Moves!Over(ptzCall, t)
  <2>1. /\ ptzCall' = calls /\ UNCHANGED <<moving, saved, ptzFaults>>
        /\ ptzCall[t].step = "answer" /\ ptzCall[t].kind = "watchdog"
    BY <1>13 DEF Moves!Finally, Moves!At
  <2>2. calls \in PtzCalls /\ \A q \in Movers : calls[q] = IF q = t THEN None ELSE ptzCall[q]
    BY <1>0, CallEnds
  <2> HIDE DEF calls
  <2>3. ~WatchesIn(ptzCall[t])
    BY <2>1 DEF WatchesIn
  <2>4. QED
    BY <2>1, <2>2, <2>3, CallsAreWatched
<1>14. ASSUME NEW p \in PtzSlots, Moves!Moved(p)
       PROVE  Moves!WatchInv'
  <2> DEFINE t == CHOOSE free \in Moves!Free(ptzCall, PtzTimers) : TRUE
             armed == Moves!Doing("watchdog", "pending", FALSE)
             over == Moves!Over(ptzCall, p)
             calls == [over EXCEPT ![t] = armed]
  <2>1. ptzCall' = calls /\ UNCHANGED <<moving, saved, ptzFaults>>
    BY <1>14 DEF Moves!Moved
  <2>2. t \in Movers
    BY <1>0, <1>14 DEF Moves!Moved, Moves!Free
  <2>3. /\ armed \in Moves!Calls /\ armed # None /\ armed.kind = "watchdog"
        /\ armed.step = "pending"
    <3>1. FALSE \in BOOLEAN /\ "watchdog" \in Moves!Kinds /\ "pending" \in Moves!Steps
      BY DEF Moves!Kinds, Moves!Steps
    <3>2. armed \in Moves!Calls /\ armed.kind = "watchdog" /\ armed.step = "pending"
      <4> HIDE DEF armed
      <4>1. PICK doing : doing = armed
        OBVIOUS
      <4>2. doing = Moves!Doing("watchdog", "pending", FALSE)
        BY <4>1 DEF armed
      <4>3. doing \in Moves!Calls /\ doing.kind = "watchdog" /\ doing.step = "pending"
        BY <3>1, <4>2, PtzFacts
      <4>4. QED
        BY <4>1, <4>3
    <3>3. QED
      BY <3>2, PtzFacts
  <2>4. over \in PtzCalls /\ \A q \in Movers : over[q] = IF q = p THEN None ELSE ptzCall[q]
    BY <1>0, CallEnds
  <2> HIDE DEF t, armed, over
  <2>5. calls \in PtzCalls /\ \A q \in Movers : calls[q] = IF q = t THEN armed ELSE over[q]
    BY <2>2, <2>3, <2>4 DEF PtzCalls
  <2> HIDE DEF calls
  <2>6. WatchesIn(calls[t])
    BY <2>2, <2>3, <2>5 DEF WatchesIn
  <2>7. QED
    BY <1>0, <2>1, <2>2, <2>3, <2>4, <2>5, <2>6, WatchGoesOn
<1>15. ASSUME NEW t \in PtzTimers, Moves!Fires(t)
       PROVE  Moves!WatchInv'
  <2> DEFINE gone == Moves!Goes(ptzCall, t, "params")
             calls == Moves!ClearWatchdog(gone)
  <2>1. /\ ptzCall' = calls /\ UNCHANGED <<moving, saved, ptzFaults>>
        /\ ptzCall[t] # None /\ ptzCall[t].step = "pending"
    BY <1>15 DEF Moves!Fires, Moves!At
  <2>2. /\ gone \in PtzCalls /\ gone[t] # None /\ gone[t].kind = ptzCall[t].kind
        /\ gone[t].step = "params" /\ \A q \in Movers : q # t => gone[q] = ptzCall[q]
    BY <1>0, <1>b, <2>1, CallGoes
  <2> HIDE DEF gone
  <2>3. /\ calls \in PtzCalls
        /\ \A q \in Movers : calls[q] = gone[q] \/ calls[q] = None
        /\ calls[t] = gone[t]
    BY <1>0, <2>2, TimerIsCleared
  <2> HIDE DEF calls
  <2>4. \A q \in Movers : calls[q] # None /\ calls[q].step = "pending" => calls[q].kind = "watchdog"
    BY <1>0, <2>2, <2>3
  <2>5. WatchesIn(calls[t])
    BY <1>0, <2>1, <2>2, <2>3 DEF WatchesIn
  <2>6. QED
    BY <1>0, <2>1, <2>3, <2>4, <2>5, WatchGoesOn
<1>16. ASSUME NEW p \in PtzSlots, Moves!Answered(p)
       PROVE  Moves!WatchInv'
  <2> DEFINE over == Moves!Over(ptzCall, p)
             calls == ptzCall'
  <2>1. /\ moving' = moving /\ saved' = saved /\ ptzFaults' = ptzFaults
        /\ ptzCall[p].step = "answer" /\ ptzCall[p].kind \notin {"move", "watchdog"}
        /\ \/ ptzCall' = over
           \/ Moves!Sends(over, <<"goto">>)
           \/ Moves!Sends(over, <<"list">>)
    BY <1>16 DEF Moves!Answered, Moves!At, Moves!TourEffect
  <2>2. over \in PtzCalls /\ \A q \in Movers : over[q] = IF q = p THEN None ELSE ptzCall[q]
    BY <1>0, CallEnds
  <2> HIDE DEF over
  <2>3. ~WatchesIn(ptzCall[p])
    BY <2>1 DEF WatchesIn
  <2>4. /\ calls \in PtzCalls
        /\ \A q \in Movers : \/ calls[q] = over[q]
                             \/ over[q] = None /\ calls[q] # None /\ calls[q].step = "sent"
    BY <1>b, <2>1, <2>2, SendsKeep
  <2> HIDE DEF calls
  <2>5. ptzCall' = calls
    BY DEF calls
  <2>6. QED
    BY <2>1, <2>2, <2>3, <2>4, <2>5, CallsAreWatched DEF WatchesIn
<1>17. QED
  BY <1>1, <1>2, <1>3, <1>4, <1>5, <1>6, <1>7, <1>8, <1>9, <1>10, <1>11, <1>12, <1>13, <1>14,
     <1>15, <1>16 DEF Moves!PtzNext, Movers

(* The invariant of the moves holds whichever part of the server moves. *)
THEOREM WatchesConsistent == Spec => []Moves!WatchInv
<1>1. Init => Moves!WatchInv
  BY PtzStart DEF Init
<1>2. Moves!WatchInv /\ [Next]_vars => Moves!WatchInv'
  BY PtzStep DEF Next, vars, ptzVars
<1>3. QED
  BY <1>1, <1>2, PTL DEF Spec

(* ptz.service.ts leaves no camera moving unwatched while nothing fails, whatever overtakes
   what and though a watchdog forgets a timer that is not its own. *)
THEOREM EveryMoveWatched == Spec => []MovesAreWatched
<1>1. Moves!WatchInv => MovesAreWatched
  BY DEF Moves!WatchInv, Moves!PtzShape, MovesAreWatched, Moves!MovesAreWatched, Moves!Watched,
     Moves!Watches
<1>2. QED
  BY <1>1, WatchesConsistent, PTL

-------------------------------------------------------------------------------
(* The wizard *)

IsCommit(r) == r # None /\ r.kind = "commit"
WizardCalls == [WizardSlots -> Wizard!Request \union {None}]
SameForm ==
    UNCHANGED <<currentStep, discovered, cameraIp, selectedMain, previewPath>>

(* A request takes a free slot. *)
LEMMA AsksKeep ==
    ASSUME Wizard!WizardShape, NEW kind \in {"scan", "auth", "preview", "teardown", "commit"},
           Wizard!Asks(kind)
    PROVE  \E s \in WizardSlots, r \in Wizard!Request :
              /\ call[s] = None /\ call' = [call EXCEPT ![s] = r]
              /\ r.kind = kind /\ r.answer = "asked"
<1> DEFINE free == {s \in WizardSlots : call[s] = None}
           s == CHOOSE t \in free : TRUE
           r == [kind |-> kind, device |-> selectedMain, ip |-> cameraIp, path |-> previewPath,
                 answer |-> "asked"]
<1>1. free # {} /\ call' = [call EXCEPT ![s] = r]
  BY DEF Wizard!Asks
<1>2. s \in free
  BY <1>1
<1>3. r \in Wizard!Request
  BY DEF Wizard!WizardShape, Wizard!Request, Wizard!OrNone
<1>4. QED
  BY <1>1, <1>2, <1>3

(* The shape with the invariant's parts, said of the state after a step. *)
LEMMA WizardGoesOn ==
    ASSUME Wizard!WizardInv, NEW calls \in WizardCalls, call' = calls,
           \A s \in WizardSlots : IsCommit(calls[s]) \/ IsCommit(call[s]) => calls[s] = call[s],
           cameraIp' \in Devices \union {None}, selectedMain' \in Devices \union {None},
           previewPath' \in (1..MaxPreviews) \union {None}, nextPath' \in Nat \ {0},
           opens' = opens, lost' = lost, cameras' = cameras, isOpen' \in BOOLEAN,
           isOpen' => isOpen, "commit" \in isBusy => "commit" \in isBusy'
    PROVE  Wizard!WizardInv'
<1>1. Wizard!WizardShape'
  BY DEF Wizard!WizardInv, Wizard!WizardShape, Wizard!OrNone, WizardCalls
<1>2. \A s : /\ Wizard!Committing(s) <=> IsCommit(call[s])
             /\ Wizard!Committing(s)' <=> IsCommit(calls[s])
             /\ \A answer : /\ Wizard!CommitAt(s, answer) <=> IsCommit(call[s]) /\ call[s].answer = answer
                            /\ Wizard!CommitAt(s, answer)' <=> IsCommit(calls[s]) /\ calls[s].answer = answer
  BY DEF Wizard!Committing, Wizard!CommitAt, IsCommit
<1>3. Wizard!OneCommit'
  BY <1>2 DEF Wizard!WizardInv, Wizard!OneCommit
<1>4. \A s \in WizardSlots : \A answer : Wizard!CommitAt(s, answer) <=> Wizard!CommitAt(s, answer)'
  BY <1>2
<1>5. Wizard!OpeningIsOwed' /\ Wizard!OneCameraPerOpening'
  BY <1>4 DEF Wizard!WizardInv, Wizard!OpeningIsOwed, Wizard!OneCameraPerOpening
<1>6. QED
  BY <1>1, <1>3, <1>5 DEF Wizard!WizardInv

(* What is owed once the only commit has been asked for, has been answered or is over. *)
LEMMA CommitGoesOn ==
    ASSUME Wizard!WizardInv, NEW calls \in WizardCalls, call' = calls, NEW t \in WizardSlots,
           \A s \in WizardSlots : s # t => calls[s] = call[s] /\ ~IsCommit(calls[s]),
           IsCommit(calls[t]) => "commit" \in isBusy',
           cameraIp' = cameraIp, selectedMain' = selectedMain, previewPath' = previewPath,
           nextPath' = nextPath, opens' = opens, lost' \in Nat,
           cameras' \in Seq([ip : Devices \union {None}, stream : Devices \union {None}]),
           isOpen' \in BOOLEAN,
           Len(cameras') <= opens + lost',
           \/ IsCommit(calls[t]) /\ calls[t].answer = "ok"
           \/ ~isOpen' /\ ~IsCommit(calls[t])
           \/ Len(cameras') < opens + lost'
    PROVE  Wizard!WizardInv'
<1>1. Wizard!WizardShape'
  BY DEF Wizard!WizardInv, Wizard!WizardShape, Wizard!OrNone, WizardCalls
<1>2. \A s : /\ Wizard!Committing(s)' <=> IsCommit(calls[s])
             /\ \A answer : Wizard!CommitAt(s, answer)' <=> IsCommit(calls[s]) /\ calls[s].answer = answer
  BY DEF Wizard!Committing, Wizard!CommitAt, IsCommit
<1>3. Wizard!OneCommit'
  BY <1>2 DEF Wizard!OneCommit
<1>4. Wizard!OpeningIsOwed'
  BY <1>2 DEF Wizard!OpeningIsOwed
<1>5. Wizard!OneCameraPerOpening'
  BY DEF Wizard!OneCameraPerOpening
<1>6. QED
  BY <1>1, <1>3, <1>4, <1>5 DEF Wizard!WizardInv

LEMMA WizardStart == Wizard!WizardInit => Wizard!WizardInv
<1> SUFFICES ASSUME Wizard!WizardInit PROVE Wizard!WizardInv
  OBVIOUS
<1>1. /\ cameras = <<>> /\ Len(cameras) = 0 /\ opens = 0 /\ lost = 0 /\ isOpen = FALSE
      /\ \A s \in WizardSlots : call[s] = None
  BY DEF Wizard!WizardInit
<1>2. Wizard!WizardShape
  <2>1. cameras \in Seq([ip : Wizard!OrNone(Devices), stream : Wizard!OrNone(Devices)])
    BY <1>1
  <2>2. call \in [WizardSlots -> Wizard!OrNone(Wizard!Request)]
    BY DEF Wizard!WizardInit, Wizard!OrNone
  <2>3. /\ cameraIp \in Wizard!OrNone(Devices) /\ selectedMain \in Wizard!OrNone(Devices)
        /\ previewPath \in Wizard!OrNone(1..MaxPreviews)
    BY Zenon DEF Wizard!WizardInit, Wizard!OrNone
  <2>4. nextPath = 1 /\ isOpen \in BOOLEAN
    BY Zenon DEF Wizard!WizardInit
  <2>5. nextPath \in Nat \ {0} /\ opens \in Nat /\ lost \in Nat
    BY <1>1, <2>4
  <2>6. QED
    BY <2>1, <2>2, <2>3, <2>4, <2>5 DEF Wizard!WizardShape
<1>3. Wizard!OneCommit
  BY <1>1 DEF Wizard!OneCommit, Wizard!Committing
<1>4. Wizard!OpeningIsOwed
  BY <1>1 DEF Wizard!OpeningIsOwed, Wizard!CommitAt
<1>5. Wizard!OneCameraPerOpening
  BY <1>1 DEF Wizard!OneCameraPerOpening
<1>6. QED
  BY <1>2, <1>3, <1>4, <1>5 DEF Wizard!WizardInv

LEMMA WizardStep ==
    ASSUME Wizard!WizardInv, [Wizard!WizardNext]_wizardVars
    PROVE  Wizard!WizardInv'
<1> USE WizardAssumption
<1>0. /\ call \in WizardCalls /\ None \notin Wizard!Request
      /\ cameraIp \in Devices \union {None} /\ selectedMain \in Devices \union {None}
      /\ previewPath \in (1..MaxPreviews) \union {None} /\ nextPath \in Nat \ {0}
      /\ opens \in Nat /\ lost \in Nat /\ isOpen \in BOOLEAN
      /\ cameras \in Seq([ip : Devices \union {None}, stream : Devices \union {None}])
      /\ Len(cameras) \in Nat /\ Len(cameras) <= opens + lost
      /\ Wizard!WizardShape
  BY DEF Wizard!WizardInv, Wizard!WizardShape, Wizard!OrNone, Wizard!OneCameraPerOpening, WizardCalls
<1>a. /\ \A s \in WizardSlots : IsCommit(call[s]) => "commit" \in isBusy
      /\ \A s, t \in WizardSlots : IsCommit(call[s]) /\ IsCommit(call[t]) => s = t
      /\ \/ isOpen
         \/ \E s \in WizardSlots : IsCommit(call[s]) /\ call[s].answer = "asked"
         => \/ Len(cameras) < opens + lost
            \/ \E s \in WizardSlots : IsCommit(call[s]) /\ call[s].answer = "ok"
  BY DEF Wizard!WizardInv, Wizard!OneCommit, Wizard!OpeningIsOwed, Wizard!Committing,
         Wizard!CommitAt, IsCommit
<1>b. ASSUME NEW kind \in {"scan", "auth", "preview", "teardown"}, Wizard!Asks(kind),
             cameraIp' = cameraIp, selectedMain' = selectedMain, previewPath' = previewPath,
             nextPath' = nextPath, opens' = opens, lost' = lost, cameras' = cameras,
             isOpen' = isOpen, isBusy \subseteq isBusy'
      PROVE  Wizard!WizardInv'
  <2>1. PICK s \in WizardSlots, r \in Wizard!Request :
           call[s] = None /\ call' = [call EXCEPT ![s] = r] /\ r.kind = kind
    BY <1>0, <1>b, AsksKeep
  <2> DEFINE calls == [call EXCEPT ![s] = r]
  <2>2. calls \in WizardCalls /\ \A t \in WizardSlots : calls[t] = IF t = s THEN r ELSE call[t]
    BY <1>0 DEF WizardCalls
  <2> HIDE DEF calls
  <2>3. \A t \in WizardSlots : IsCommit(calls[t]) \/ IsCommit(call[t]) => calls[t] = call[t]
    BY <2>1, <2>2 DEF IsCommit
  <2>4. call' = calls
    BY <2>1 DEF calls
  <2>5. QED
    BY <1>0, <1>b, <2>2, <2>3, <2>4, WizardGoesOn
<1>c. ASSUME call' = call,
             cameraIp' \in Devices \union {None}, selectedMain' = selectedMain,
             previewPath' = previewPath, nextPath' = nextPath, opens' = opens, lost' = lost,
             cameras' = cameras, isOpen' \in BOOLEAN, isOpen' => isOpen, isBusy' = isBusy
      PROVE  Wizard!WizardInv'
  BY <1>0, <1>c, WizardGoesOn
<1>1. CASE UNCHANGED wizardVars
  BY <1>0, <1>1, <1>c DEF wizardVars
<1>2. CASE Wizard!Open
  <2>1. /\ call' = call /\ cameraIp' = None /\ selectedMain' = None /\ previewPath' = None
        /\ nextPath' = nextPath /\ opens' = opens + 1 /\ lost' = lost /\ cameras' = cameras
        /\ isOpen' = TRUE /\ isBusy' = isBusy
    BY <1>2 DEF Wizard!Open, Wizard!serverVars
  <2>2. Wizard!WizardShape'
    BY <1>0, <2>1 DEF Wizard!WizardShape, Wizard!OrNone
  <2>3. Wizard!OneCommit'
    BY <2>1 DEF Wizard!WizardInv, Wizard!OneCommit, Wizard!Committing
  <2>4. Len(cameras') < opens' + lost'
    BY <1>0, <2>1
  <2>5. QED
    BY <1>0, <2>1, <2>2, <2>3, <2>4
       DEF Wizard!WizardInv, Wizard!OpeningIsOwed, Wizard!OneCameraPerOpening
<1>3. CASE Wizard!HandleClose
  <2>1. CASE previewPath = None
    BY <1>0, <1>3, <1>c, <2>1 DEF Wizard!HandleClose, Wizard!formVars, Wizard!serverVars
  <2>2. CASE previewPath # None
    BY <1>3, <1>b, <2>2 DEF Wizard!HandleClose, Wizard!formVars, Wizard!serverVars
  <2>3. QED
    BY <2>1, <2>2
<1>4. CASE Wizard!RunSubnetScan
  BY <1>4, <1>b DEF Wizard!RunSubnetScan, Wizard!formVars, Wizard!serverVars
<1>5. CASE Wizard!HandleProbeAuth
  BY <1>5, <1>b DEF Wizard!HandleProbeAuth, Wizard!formVars, Wizard!serverVars
<1>6. CASE Wizard!ToNetworkCheck \/ Wizard!Proceed \/ Wizard!Back
  BY <1>0, <1>6, <1>c DEF Wizard!ToNetworkCheck, Wizard!Proceed, Wizard!Back, Wizard!serverVars
<1>7. CASE Wizard!HandleProvisionPreview
  <2>1. CASE selectedMain = None
    BY <1>0, <1>7, <1>c, <2>1 DEF Wizard!HandleProvisionPreview, Wizard!serverVars
  <2>2. CASE selectedMain # None
    BY <1>7, <1>b, <2>2 DEF Wizard!HandleProvisionPreview, Wizard!serverVars
  <2>3. QED
    BY <2>1, <2>2
<1>8. ASSUME NEW d \in Devices, Wizard!HandleSelectDiscovered(d) \/ Wizard!ManualEntry(d)
      PROVE  Wizard!WizardInv'
  BY <1>0, <1>8, <1>c DEF Wizard!HandleSelectDiscovered, Wizard!ManualEntry, Wizard!serverVars
<1>9. CASE Wizard!HandleCommitCamera
  <2>1. /\ isOpen /\ "commit" \notin isBusy /\ Wizard!Asks("commit")
        /\ isBusy' = isBusy \union {"commit"}
        /\ cameraIp' = cameraIp /\ selectedMain' = selectedMain /\ previewPath' = previewPath
        /\ nextPath' = nextPath /\ opens' = opens /\ lost' = lost /\ cameras' = cameras
        /\ isOpen' = isOpen
    BY <1>9 DEF Wizard!HandleCommitCamera, Wizard!CanSubmit, Wizard!InForm, Wizard!formVars,
       Wizard!serverVars
  <2>2. PICK s \in WizardSlots, r \in Wizard!Request :
           /\ call[s] = None /\ call' = [call EXCEPT ![s] = r]
           /\ r.kind = "commit" /\ r.answer = "asked"
    BY <1>0, <2>1, AsksKeep
  <2> DEFINE calls == [call EXCEPT ![s] = r]
  <2>3. calls \in WizardCalls /\ \A t \in WizardSlots : calls[t] = IF t = s THEN r ELSE call[t]
    BY <1>0 DEF WizardCalls
  <2> HIDE DEF calls
  <2>4. \A t \in WizardSlots : ~IsCommit(call[t])
    BY <1>a, <2>1
  <2>5. Len(cameras) < opens + lost
    BY <1>a, <2>1, <2>4
  <2>6. call' = calls
    BY <2>2 DEF calls
  <2>7. QED
    BY <1>0, <2>1, <2>3, <2>4, <2>5, <2>6, CommitGoesOn
<1>d. ASSUME NEW s \in WizardSlots, call[s] # None
      PROVE  /\ call[s] \in Wizard!Request
             /\ \A answer \in {"asked", "ok", "error"} :
                   LET r == [call[s] EXCEPT !.answer = answer]
                       calls == [call EXCEPT ![s].answer = answer]
                   IN  /\ r \in Wizard!Request /\ r.kind = call[s].kind /\ r.answer = answer
                       /\ calls \in WizardCalls
                       /\ \A t \in WizardSlots : calls[t] = IF t = s THEN r ELSE call[t]
  <2>1. call[s] \in Wizard!Request
    BY <1>0, <1>d DEF WizardCalls
  <2>2. ASSUME NEW answer \in {"asked", "ok", "error"}
        PROVE  LET r == [call[s] EXCEPT !.answer = answer]
                   calls == [call EXCEPT ![s].answer = answer]
               IN  /\ r \in Wizard!Request /\ r.kind = call[s].kind /\ r.answer = answer
                   /\ calls \in WizardCalls
                   /\ \A t \in WizardSlots : calls[t] = IF t = s THEN r ELSE call[t]
    <3> DEFINE r == [call[s] EXCEPT !.answer = answer]
               calls == [call EXCEPT ![s].answer = answer]
    <3>1. r \in Wizard!Request /\ r.kind = call[s].kind /\ r.answer = answer
      BY <2>1 DEF Wizard!Request
    <3>2. calls = [call EXCEPT ![s] = r]
      OBVIOUS
    <3>3. calls \in WizardCalls /\ \A t \in WizardSlots : calls[t] = IF t = s THEN r ELSE call[t]
      <4> HIDE DEF r, calls
      <4>1. QED
        BY <1>0, <3>1, <3>2 DEF WizardCalls
    <3>4. QED
      BY <3>1, <3>3
  <2>3. QED
    BY <2>1, <2>2
<1>10. ASSUME NEW s \in WizardSlots, Wizard!Serve(s)
       PROVE  Wizard!WizardInv'
  <2>0. /\ call[s] # None /\ call[s].answer = "asked" /\ call[s] \in Wizard!Request
        /\ isOpen' = isOpen /\ opens' = opens /\ isBusy' = isBusy /\ lost' = lost
        /\ cameraIp' = cameraIp /\ selectedMain' = selectedMain /\ previewPath' = previewPath
    BY <1>0, <1>10 DEF Wizard!Serve, Wizard!Asked, Wizard!formVars, WizardCalls
  <2> DEFINE r == [call[s] EXCEPT !.answer = "ok"]
             calls == [call EXCEPT ![s].answer = "ok"]
  <2>1. /\ r \in Wizard!Request /\ r.kind = call[s].kind /\ r.answer = "ok" /\ calls \in WizardCalls
        /\ \A t \in WizardSlots : calls[t] = IF t = s THEN r ELSE call[t]
    BY <1>d, <2>0
  <2> HIDE DEF r
  <2>2. CASE Wizard!ServePreview(s)
    <3> DEFINE q == [call[s] EXCEPT !.answer = "ok", !.path = nextPath]
               served == [call EXCEPT ![s] = q]
    <3>1. /\ call[s].kind = "preview" /\ nextPath \in 1..MaxPreviews /\ nextPath' = nextPath + 1
          /\ cameras' = cameras /\ call' = served
      BY <1>0, <2>2 DEF Wizard!ServePreview
    <3>2. q \in Wizard!Request /\ q.kind = "preview"
      BY <2>0, <3>1 DEF Wizard!Request, Wizard!OrNone
    <3> HIDE DEF q
    <3>3. served \in WizardCalls /\ \A t \in WizardSlots : served[t] = IF t = s THEN q ELSE call[t]
      BY <1>0, <3>2 DEF WizardCalls
    <3> HIDE DEF served
    <3>4. \A t \in WizardSlots : IsCommit(served[t]) \/ IsCommit(call[t]) => served[t] = call[t]
      BY <3>1, <3>2, <3>3 DEF IsCommit
    <3>5. nextPath' \in Nat \ {0}
      BY <1>0, <3>1
    <3>6. QED
      BY <1>0, <2>0, <3>1, <3>3, <3>4, <3>5, WizardGoesOn
  <2>3. CASE /\ call[s].kind # "commit" /\ call' = calls
             /\ nextPath' = nextPath /\ cameras' = cameras
    <3> HIDE DEF calls
    <3>1. \A t \in WizardSlots : IsCommit(calls[t]) \/ IsCommit(call[t]) => calls[t] = call[t]
      BY <2>1, <2>3 DEF IsCommit
    <3>2. QED
      BY <1>0, <2>0, <2>1, <2>3, <3>1, WizardGoesOn
  <2>4. CASE Wizard!ServeCommit(s)
    <3> DEFINE c == [ip |-> call[s].ip, stream |-> call[s].device]
    <3>1. /\ call[s].kind = "commit" /\ cameras' = Append(cameras, c) /\ call' = calls
          /\ nextPath' = nextPath
      BY <2>4 DEF Wizard!ServeCommit, Wizard!Answers
    <3>2. c \in [ip : Devices \union {None}, stream : Devices \union {None}]
      BY <2>0 DEF Wizard!Request, Wizard!OrNone
    <3> HIDE DEF c, calls
    <3>3. /\ cameras' \in Seq([ip : Devices \union {None}, stream : Devices \union {None}])
          /\ Len(cameras') = Len(cameras) + 1
      BY <1>0, <3>1, <3>2
    <3>4. IsCommit(call[s]) /\ \A t \in WizardSlots : IsCommit(call[t]) => t = s
      BY <1>a, <2>0, <3>1 DEF IsCommit
    <3>5. Len(cameras) < opens + lost
      BY <1>a, <2>0, <3>4
    <3>6. Len(cameras') <= opens + lost'
      BY <1>0, <2>0, <3>3, <3>5
    <3>7. /\ IsCommit(calls[s]) /\ calls[s].answer = "ok"
          /\ \A t \in WizardSlots : t # s => calls[t] = call[t] /\ ~IsCommit(calls[t])
          /\ "commit" \in isBusy' /\ lost' \in Nat
      BY <1>0, <1>a, <2>0, <2>1, <3>1, <3>4, WizardAssumption DEF IsCommit
    <3>8. QED
      BY <1>0, <2>0, <2>1, <3>1, <3>3, <3>6, <3>7, CommitGoesOn
  <2>5. QED
    BY <1>10, <2>2, <2>3, <2>4 DEF Wizard!Serve, Wizard!ServeTeardown, Wizard!Answers
<1>11. ASSUME NEW s \in WizardSlots, Wizard!Fails(s)
       PROVE  Wizard!WizardInv'
  <2>0. /\ call[s] # None /\ call[s].answer \in {"asked", "ok"} /\ call[s] \in Wizard!Request
        /\ isOpen' = isOpen /\ opens' = opens /\ isBusy' = isBusy
        /\ cameraIp' = cameraIp /\ selectedMain' = selectedMain /\ previewPath' = previewPath
        /\ nextPath' = nextPath /\ cameras' = cameras
        /\ lost' = IF call[s].kind = "commit" /\ call[s].answer = "ok" THEN lost + 1 ELSE lost
    BY <1>0, <1>11 DEF Wizard!Fails, Wizard!formVars, WizardCalls
  <2> DEFINE r == [call[s] EXCEPT !.answer = "error"]
             calls == [call EXCEPT ![s].answer = "error"]
  <2>1. /\ r \in Wizard!Request /\ r.kind = call[s].kind /\ r.answer = "error"
        /\ calls \in WizardCalls
        /\ \A t \in WizardSlots : calls[t] = IF t = s THEN r ELSE call[t]
    BY <1>d, <2>0
  <2>2. call' = calls
    BY <1>11 DEF Wizard!Fails, Wizard!Answers
  <2> HIDE DEF r, calls
  <2>3. CASE call[s].kind # "commit"
    <3>1. \A t \in WizardSlots : IsCommit(calls[t]) \/ IsCommit(call[t]) => calls[t] = call[t]
      BY <2>1, <2>3 DEF IsCommit
    <3>2. lost' = lost
      BY <2>0, <2>3
    <3>3. QED
      BY <1>0, <2>0, <2>1, <2>2, <3>1, <3>2, WizardGoesOn
  <2>4. CASE call[s].kind = "commit"
    <3>1. IsCommit(call[s]) /\ \A t \in WizardSlots : IsCommit(call[t]) => t = s
      BY <1>a, <2>0, <2>4 DEF IsCommit
    <3>2. Len(cameras') < opens + lost' /\ Len(cameras') <= opens + lost' /\ lost' \in Nat
      <4>1. CASE call[s].answer = "asked"
        <5>1. Len(cameras) < opens + lost
          BY <1>a, <3>1, <4>1
        <5>2. QED
          BY <1>0, <2>0, <4>1, <5>1
      <4>2. CASE call[s].answer = "ok"
        BY <1>0, <2>0, <2>4, <4>2
      <4>3. QED
        BY <2>0, <4>1, <4>2
    <3>3. /\ \A t \in WizardSlots : t # s => calls[t] = call[t] /\ ~IsCommit(calls[t])
          /\ "commit" \in isBusy'
      BY <1>a, <2>0, <2>1, <3>1
    <3>4. QED
      BY <1>0, <2>0, <2>1, <2>2, <3>2, <3>3, CommitGoesOn
  <2>5. QED
    BY <2>3, <2>4
<1>12. ASSUME NEW s \in WizardSlots, Wizard!Receive(s)
       PROVE  Wizard!WizardInv'
  <2>0. /\ call[s] # None /\ call[s].answer # "asked" /\ call[s] \in Wizard!Request
        /\ Wizard!Result(call[s])
        /\ isBusy' = isBusy \ {call[s].kind} /\ call' = [call EXCEPT ![s] = None]
        /\ opens' = opens /\ nextPath' = nextPath /\ cameras' = cameras /\ lost' = lost
    BY <1>0, <1>12 DEF Wizard!Receive, Wizard!serverVars, WizardCalls
  <2> DEFINE calls == [call EXCEPT ![s] = None]
  <2>1. /\ calls \in WizardCalls
        /\ \A t \in WizardSlots : calls[t] = IF t = s THEN None ELSE call[t]
    BY <1>0 DEF WizardCalls
  <2> HIDE DEF calls
  <2>2. call' = calls
    BY <2>0 DEF calls
  <2>3. /\ call[s].kind \in {"scan", "auth", "preview", "teardown", "commit"}
        /\ call[s].ip \in Devices \union {None} /\ call[s].path \in (1..MaxPreviews) \union {None}
        /\ call[s].answer \in {"asked", "ok", "error"}
    BY <2>0 DEF Wizard!Request, Wizard!OrNone
  <2>4. /\ cameraIp' \in Devices \union {None} /\ selectedMain' \in Devices \union {None}
        /\ previewPath' \in (1..MaxPreviews) \union {None}
        /\ isOpen' \in BOOLEAN /\ (isOpen' => isOpen)
        /\ call[s].kind = "commit" =>
              /\ isOpen' => call[s].answer # "ok"
              /\ cameraIp' = cameraIp /\ selectedMain' = selectedMain /\ previewPath' = previewPath
    <3>1. CASE call[s].kind = "scan"
      BY <1>0, <2>0, <3>1 DEF Wizard!Result
    <3>2. CASE call[s].kind = "auth"
      BY <1>0, <2>0, <2>3, <3>2 DEF Wizard!Result
    <3>3. CASE call[s].kind = "preview"
      BY <1>0, <2>0, <2>3, <3>3 DEF Wizard!Result
    <3>4. CASE call[s].kind = "teardown"
      BY <1>0, <2>0, <3>4 DEF Wizard!Result, Wizard!formVars
    <3>5. CASE call[s].kind = "commit"
      BY <1>0, <2>0, <3>5 DEF Wizard!Result, Wizard!formVars
    <3>6. QED
      BY <2>3, <3>1, <3>2, <3>3, <3>4, <3>5
  <2>5. CASE call[s].kind # "commit"
    <3>1. \A t \in WizardSlots : IsCommit(calls[t]) \/ IsCommit(call[t]) => calls[t] = call[t]
      BY <2>1, <2>5 DEF IsCommit
    <3>2. "commit" \in isBusy => "commit" \in isBusy'
      BY <2>0, <2>5
    <3>3. QED
      BY <1>0, <2>0, <2>1, <2>2, <2>4, <3>1, <3>2, WizardGoesOn
  <2>6. CASE call[s].kind = "commit"
    <3>1. IsCommit(call[s]) /\ \A t \in WizardSlots : IsCommit(call[t]) => t = s
      BY <1>a, <2>0, <2>6 DEF IsCommit
    <3>2. ~isOpen' \/ Len(cameras') < opens + lost'
      <4>1. CASE isOpen'
        BY <1>a, <2>0, <2>4, <2>6, <3>1, <4>1
      <4>2. QED
        BY <4>1
    <3>3. /\ \A t \in WizardSlots : t # s => calls[t] = call[t] /\ ~IsCommit(calls[t])
          /\ ~IsCommit(calls[s]) /\ lost' \in Nat /\ Len(cameras') <= opens + lost'
      BY <1>0, <2>0, <2>1, <3>1 DEF IsCommit
    <3>4. QED
      BY <1>0, <2>0, <2>1, <2>2, <2>4, <2>6, <3>2, <3>3, CommitGoesOn
  <2>7. QED
    BY <2>5, <2>6
<1>13. QED
  BY <1>1, <1>2, <1>3, <1>4, <1>5, <1>6, <1>7, <1>8, <1>9, <1>10, <1>11, <1>12
     DEF Wizard!WizardNext

(* The invariant of the wizard holds whichever part of the server moves. *)
THEOREM WizardConsistent == Spec => []Wizard!WizardInv
<1>1. Init => Wizard!WizardInv
  BY WizardStart DEF Init
<1>2. Wizard!WizardInv /\ [Next]_vars => Wizard!WizardInv'
  BY WizardStep DEF Next, vars, wizardVars
<1>3. QED
  BY <1>1, <1>2, PTL DEF Spec

(* Whatever is closed, opened and retried while requests are in flight, the wizard adds at
   most one camera for each time it is opened and each answer to a commit that is lost. *)
THEOREM OneCameraEachOpening == Spec => []OneCameraPerOpening
<1>1. Wizard!WizardInv => OneCameraPerOpening
  BY DEF Wizard!WizardInv, OneCameraPerOpening
<1>2. QED
  BY <1>1, WizardConsistent, PTL

-------------------------------------------------------------------------------
(* The editor of rights *)

IsSave(c) == c # None /\ c.kind \in Rights!Saves

LEMMA RightsFacts ==
    /\ None \notin Rights!Rights /\ None \notin Rights!SaveCalls
    /\ Rights!NoRights \in Rights!Rights /\ Rights!Unloaded \in Rights!Shown
    /\ Rights!Saves = {"saveCamera", "saveSite"} /\ Rights!Halves = {"camera", "site"}
    /\ Rights!Answers = {"asked", "ok", "refused", "lost"}
<1>1. None \notin Rights!Rights /\ None \notin Rights!SaveCalls
  BY RightsAssumption
<1>2. Rights!NoRights \in Rights!Rights
  BY DEF Rights!Rights, Rights!NoRights
<1>3. Rights!Unloaded \in Rights!Shown
  BY DEF Rights!Unloaded, Rights!Shown, Rights!Entries
<1>4. QED
  BY <1>1, <1>2, <1>3 DEF Rights!Saves, Rights!Halves, Rights!Answers

(* What a save makes of a grant is a grant, and of grants, grants. *)
LEMMA WrittenIsAGrant ==
    ASSUME NEW h, NEW entry, NEW grant, grant \in BOOLEAN
    PROVE  Rights!Written(h, entry, grant) \in BOOLEAN
BY DEF Rights!Written

LEMMA OutcomeIsOfRights ==
    ASSUME granted \in [Accounts -> Rights!Rights], NEW a \in Accounts
    PROVE  /\ Rights!Outcome(a) \in Rights!Rights
           /\ \A h \in Rights!Halves :
                 Rights!Outcome(a)[h] = Rights!Written(h, permissions[h], granted[a][h])
<1>1. granted[a] \in [Rights!Halves -> BOOLEAN]
  BY DEF Rights!Rights
<1>2. \A h \in Rights!Halves : Rights!Written(h, permissions[h], granted[a][h]) \in BOOLEAN
  BY <1>1, WrittenIsAGrant
<1>3. QED
  BY <1>2 DEF Rights!Outcome, Rights!Rights

(* A request that is sent takes a free slot. *)
LEMMA RequestIsSent ==
    ASSUME NEW calls, NEW r, Rights!Sends(calls, r)
    PROVE  \E t \in RightsSlots : calls[t] = None /\ rightsCall' = [calls EXCEPT ![t] = r]
<1>1. Rights!Free(calls) # {}
  BY DEF Rights!Sends
<1>2. (CHOOSE s \in Rights!Free(calls) : TRUE) \in Rights!Free(calls)
  BY <1>1
<1>3. QED
  BY <1>2 DEF Rights!Sends, Rights!Free

(* A step that neither starts a save nor ends or answers one, and that writes nothing but
   what a save no longer answers for. *)
LEMMA RightsGoOn ==
    ASSUME Rights!RightsInv, NEW calls, rightsCall' = calls, DOMAIN calls = RightsSlots,
           \A s \in RightsSlots : Rights!CallShape(calls[s]),
           \A s \in RightsSlots : IsSave(calls[s]) \/ IsSave(rightsCall[s])
                                     => calls[s] = rightsCall[s],
           granted' \in [Accounts -> Rights!Rights], permissions' \in Rights!Shown,
           savedRights' \in [Accounts -> Rights!Rights \union {None}],
           isSaving' = isSaving, selectedUser' = None \/ selectedUser'.id \in Accounts,
           \A a \in Accounts : savedRights'[a] # None =>
              savedRights'[a] = savedRights[a] /\ granted'[a] = granted[a]
    PROVE  Rights!RightsInv'
<1>1. Rights!RightsShape'
  BY DEF Rights!RightsInv, Rights!RightsShape, Rights!CallShape
<1>2. \A s \in RightsSlots : /\ Rights!Saving(s) <=> IsSave(rightsCall[s])
                             /\ Rights!Saving(s)' <=> IsSave(calls[s])
                             /\ Rights!Saving(s)' <=> Rights!Saving(s)
                             /\ Rights!Saving(s) => calls[s] = rightsCall[s]
  BY DEF Rights!Saving, IsSave
<1>3. Rights!OneSave'
  BY <1>2 DEF Rights!RightsInv, Rights!OneSave
<1>4. \A s \in RightsSlots : Rights!Saving(s) => rightsCall[s].account \in Accounts
  BY DEF Rights!RightsInv, Rights!RightsShape, Rights!CallShape, Rights!Saving, Rights!SaveCalls
<1>5. Rights!SaveIsUnderWay'
  <2>1. ASSUME NEW s \in RightsSlots, Rights!Saving(s)'
        PROVE  Rights!SavesWhatWasAsked(rightsCall[s])'
    <3>1. Rights!SavesWhatWasAsked(rightsCall[s]) /\ rightsCall[s].account \in Accounts
      BY <1>2, <1>4, <2>1 DEF Rights!RightsInv, Rights!SaveIsUnderWay
    <3>c. PICK c : c = rightsCall[s]
      OBVIOUS
    <3>2. rightsCall'[s] = c
      BY <1>2, <2>1, <3>c
    <3>3. Rights!SavesWhatWasAsked(c) /\ c.account \in Accounts
      BY <3>1, <3>c
    <3>4. \A h : savedRights'[c.account] # None => Rights!Leaves(c, h)' = Rights!Leaves(c, h)
      BY <3>3 DEF Rights!Leaves, Rights!HalfIsDone, Rights!Half, Rights!Written
    <3>5. savedRights'[c.account] # None =>
             /\ c.answer \in {"asked", "ok"}
             /\ \A h \in Rights!Halves : Rights!Leaves(c, h)' = savedRights'[c.account][h]
      BY <3>3, <3>4 DEF Rights!SavesWhatWasAsked
    <3>6. \A h : Rights!Leaves(rightsCall[s], h)' = Rights!Leaves(c, h)'
      BY <3>2 DEF Rights!Leaves, Rights!HalfIsDone, Rights!Half, Rights!Written
    <3>7. QED
      BY <3>2, <3>5, <3>6 DEF Rights!SavesWhatWasAsked
  <2>2. ASSUME NEW a \in Accounts, savedRights'[a] # None
        PROVE  granted'[a] = savedRights'[a]
               \/ \E s \in RightsSlots : Rights!Saving(s)' /\ calls[s].account = a
    BY <1>2, <2>2 DEF Rights!RightsInv, Rights!SaveIsUnderWay
  <2>3. QED
    BY <2>1, <2>2 DEF Rights!SaveIsUnderWay
<1>6. QED
  BY <1>1, <1>3, <1>5 DEF Rights!RightsInv

(* A step of the only save, which is in slot t from now on: it starts, is answered, goes on to
   its second half, or is over. *)
LEMMA SaveGoesOn ==
    ASSUME Rights!RightsInv, NEW calls, rightsCall' = calls, DOMAIN calls = RightsSlots,
           \A s \in RightsSlots : Rights!CallShape(calls[s]),
           NEW t \in RightsSlots, \A s \in RightsSlots : s # t => ~IsSave(calls[s]),
           granted' \in [Accounts -> Rights!Rights], permissions' = permissions,
           savedRights' \in [Accounts -> Rights!Rights \union {None}],
           isSaving' \in BOOLEAN, isSaving' <=> IsSave(calls[t]), selectedUser' = selectedUser,
           IsSave(calls[t]) => Rights!SavesWhatWasAsked(calls[t])',
           \A a \in Accounts : savedRights'[a] # None =>
              granted'[a] = savedRights'[a] \/ (IsSave(calls[t]) /\ calls[t].account = a)
    PROVE  Rights!RightsInv'
<1>1. Rights!RightsShape'
  BY DEF Rights!RightsInv, Rights!RightsShape, Rights!CallShape
<1>2. \A s \in RightsSlots : Rights!Saving(s)' <=> IsSave(calls[s])
  BY DEF Rights!Saving, IsSave
<1>3. Rights!OneSave'
  BY <1>2 DEF Rights!OneSave
<1>4. Rights!SaveIsUnderWay'
  <2>1. ASSUME NEW s \in RightsSlots, Rights!Saving(s)'
        PROVE  Rights!SavesWhatWasAsked(rightsCall[s])'
    <3>1. s = t
      BY <1>2, <2>1
    <3>2. QED
      BY <1>2, <2>1, <3>1 DEF Rights!SavesWhatWasAsked
  <2>2. \A a \in Accounts : savedRights'[a] # None =>
           granted'[a] = savedRights'[a]
           \/ \E s \in RightsSlots : Rights!Saving(s)' /\ calls[s].account = a
    BY <1>2
  <2>3. QED
    BY <2>1, <2>2 DEF Rights!SaveIsUnderWay
<1>5. QED
  BY <1>1, <1>3, <1>4 DEF Rights!RightsInv

LEMMA RightsStart == Rights!RightsInit => Rights!RightsInv
<1> SUFFICES ASSUME Rights!RightsInit PROVE Rights!RightsInv
  OBVIOUS
<1>1. /\ granted \in [Accounts -> Rights!Rights] /\ permissions = Rights!Unloaded
      /\ savedRights = [a \in Accounts |-> None] /\ selectedUser = None
      /\ rightsCall = [s \in RightsSlots |-> None] /\ isSaving = FALSE
  BY DEF Rights!RightsInit
<1>2. Rights!RightsShape
  BY <1>1, RightsFacts DEF Rights!RightsShape, Rights!CallShape
<1>3. Rights!OneSave /\ Rights!SaveIsUnderWay
  BY <1>1 DEF Rights!OneSave, Rights!SaveIsUnderWay, Rights!Saving
<1>4. QED
  BY <1>2, <1>3 DEF Rights!RightsInv

LEMMA RightsStep ==
    ASSUME Rights!RightsInv, [Rights!RightsNext]_rightsVars
    PROVE  Rights!RightsInv'
<1> USE RightsFacts
<1>0. /\ DOMAIN rightsCall = RightsSlots /\ \A s \in RightsSlots : Rights!CallShape(rightsCall[s])
      /\ granted \in [Accounts -> Rights!Rights]
      /\ savedRights \in [Accounts -> Rights!Rights \union {None}]
      /\ permissions \in Rights!Shown /\ isSaving \in BOOLEAN
      /\ selectedUser = None \/ selectedUser.id \in Accounts
      /\ isSaving <=> \E s \in RightsSlots : IsSave(rightsCall[s])
      /\ \A s, t \in RightsSlots : IsSave(rightsCall[s]) /\ IsSave(rightsCall[t]) => s = t
      /\ \A s \in RightsSlots : IsSave(rightsCall[s]) => Rights!SavesWhatWasAsked(rightsCall[s])
      /\ \A a \in Accounts : savedRights[a] # None =>
            \/ granted[a] = savedRights[a]
            \/ \E s \in RightsSlots : IsSave(rightsCall[s]) /\ rightsCall[s].account = a
  BY DEF Rights!RightsInv, Rights!RightsShape, Rights!OneSave, Rights!SaveIsUnderWay,
         Rights!Saving, IsSave
(* Requests other than saves end, and are sent. *)
<1>a. ASSUME NEW before, DOMAIN before = RightsSlots,
             \A s \in RightsSlots : \/ before[s] = rightsCall[s]
                                    \/ before[s] = None /\ ~IsSave(rightsCall[s]),
             NEW r, ~IsSave(r), Rights!CallShape(r),
             rightsCall' = before \/ Rights!Sends(before, r),
             granted' = granted, permissions' \in Rights!Shown, savedRights' = savedRights,
             isSaving' = isSaving, selectedUser' = None \/ selectedUser'.id \in Accounts
      PROVE  Rights!RightsInv'
  <2>1. \A s \in RightsSlots : /\ Rights!CallShape(before[s])
                               /\ IsSave(before[s]) \/ IsSave(rightsCall[s])
                                     => before[s] = rightsCall[s]
    BY <1>0, <1>a DEF IsSave, Rights!CallShape
  <2>2. CASE rightsCall' = before
    BY <1>0, <1>a, <2>1, <2>2, RightsGoOn
  <2>3. CASE Rights!Sends(before, r)
    <3>1. PICK t \in RightsSlots : before[t] = None /\ rightsCall' = [before EXCEPT ![t] = r]
      BY <2>3, RequestIsSent
    <3> DEFINE calls == [before EXCEPT ![t] = r]
    <3>2. /\ DOMAIN calls = RightsSlots
          /\ \A s \in RightsSlots : calls[s] = IF s = t THEN r ELSE before[s]
      BY <1>a
    <3> HIDE DEF calls
    <3>3. \A s \in RightsSlots : /\ Rights!CallShape(calls[s])
                                 /\ IsSave(calls[s]) \/ IsSave(rightsCall[s])
                                       => calls[s] = rightsCall[s]
      BY <1>a, <2>1, <3>1, <3>2 DEF IsSave
    <3>4. rightsCall' = calls
      BY <3>1 DEF calls
    <3>5. QED
      BY <1>0, <1>a, <3>2, <3>3, <3>4, RightsGoOn
  <2>4. QED
    BY <1>a, <2>2, <2>3
<1>b. ASSUME NEW kind \in Rights!Kinds, NEW who, NEW data
      PROVE  LET r == Rights!Asked(kind, who, data)
             IN  /\ kind \notin Rights!Saves /\ (kind = "role" => who \in Accounts)
                       => ~IsSave(r) /\ Rights!CallShape(r)
  BY DEF Rights!Asked, IsSave, Rights!CallShape
<1>1. CASE UNCHANGED rightsVars
  BY <1>0, <1>1, RightsGoOn DEF rightsVars
<1>c. ASSUME NEW s \in RightsSlots
      PROVE  /\ DOMAIN Rights!Over(s) = RightsSlots
             /\ \A t \in RightsSlots : Rights!Over(s)[t] = IF t = s THEN None ELSE rightsCall[t]
  BY <1>0 DEF Rights!Over
<1>d. "list" \in Rights!Kinds /\ "loadCamera" \in Rights!Kinds /\ "loadSite" \in Rights!Kinds
      /\ "role" \in Rights!Kinds /\ "delete" \in Rights!Kinds /\ "create" \in Rights!Kinds
  BY DEF Rights!Kinds
<1>2. CASE Rights!OpenEditor
  <2> DEFINE r == Rights!Asked("list", None, None)
  <2>1. ~IsSave(r) /\ Rights!CallShape(r)
    BY <1>b, <1>d
  <2>2. /\ Rights!Sends(rightsCall, r) /\ granted' = granted /\ permissions' = permissions
        /\ savedRights' = savedRights /\ isSaving' = isSaving /\ selectedUser' = selectedUser
    BY <1>2 DEF Rights!OpenEditor, Rights!accountVars
  <2> HIDE DEF r
  <2>3. QED
    BY <1>0, <1>a, <2>1, <2>2
<1>3. CASE Rights!OnClose
  BY <1>0, <1>3, RightsGoOn DEF Rights!OnClose, Rights!accountVars
<1>4. ASSUME NEW a \in Accounts, Rights!LoadPermissions(a)
      PROVE  Rights!RightsInv'
  <2> DEFINE r == Rights!Asked("loadCamera", a, None)
  <2>1. ~IsSave(r) /\ Rights!CallShape(r)
    BY <1>b, <1>d
  <2>2. /\ rightsCall' = rightsCall \/ Rights!Sends(rightsCall, r)
        /\ granted' = granted /\ permissions' = permissions
        /\ savedRights' = savedRights /\ isSaving' = isSaving /\ selectedUser'.id = a
    BY <1>4 DEF Rights!LoadPermissions, Rights!accountVars
  <2> HIDE DEF r
  <2>3. QED
    BY <1>0, <1>a, <2>1, <2>2
<1>5. ASSUME NEW h \in Rights!Halves, Rights!TogglePermission(h)
      PROVE  Rights!RightsInv'
  <2>1. permissions' \in Rights!Shown
    <3>1. permissions' = [permissions EXCEPT ![h] = Rights!Toggled(h, permissions[h])]
      BY <1>5 DEF Rights!TogglePermission
    <3>2. permissions[h] \in Rights!Entries
      BY <1>0, <1>5 DEF Rights!Shown
    <3>3. Rights!Toggled(h, permissions[h]) \in Rights!Entries
      BY <3>2 DEF Rights!Toggled, Rights!Entries
    <3>4. QED
      BY <1>0, <3>1, <3>3 DEF Rights!Shown
  <2>2. QED
    BY <1>0, <1>5, <2>1, RightsGoOn DEF Rights!TogglePermission, Rights!accountVars
<1>6. ASSUME NEW kind \in {"role", "delete"}, NEW data, Rights!ChangeAccount(kind, data)
      PROVE  Rights!RightsInv'
  <2> DEFINE r == Rights!Asked(kind, selectedUser.id, data)
  <2>1. ~IsSave(r) /\ Rights!CallShape(r)
    BY <1>0, <1>6, <1>b, <1>d DEF Rights!ChangeAccount
  <2>2. /\ Rights!Sends(rightsCall, r) /\ granted' = granted /\ permissions' = permissions
        /\ savedRights' = savedRights /\ isSaving' = isSaving /\ selectedUser' = selectedUser
    BY <1>6 DEF Rights!ChangeAccount, Rights!accountVars, Rights!shownVars
  <2> HIDE DEF r
  <2>3. QED
    BY <1>0, <1>a, <2>1, <2>2
<1>7. ASSUME NEW a \in Accounts, NEW data, Rights!CreateUser(a, data)
      PROVE  Rights!RightsInv'
  <2> DEFINE r == Rights!Asked("create", a, data)
  <2>1. ~IsSave(r) /\ Rights!CallShape(r)
    BY <1>b, <1>d
  <2>2. /\ Rights!Sends(rightsCall, r) /\ granted' = granted /\ permissions' = permissions
        /\ savedRights' = savedRights /\ isSaving' = isSaving /\ selectedUser' = selectedUser
    BY <1>7 DEF Rights!CreateUser, Rights!accountVars, Rights!shownVars
  <2> HIDE DEF r
  <2>3. QED
    BY <1>0, <1>a, <2>1, <2>2
<1>8. ASSUME NEW a \in Accounts, NEW h \in Rights!Halves, Rights!OthersGrant(a, h)
      PROVE  Rights!RightsInv'
  <2>1. /\ granted' = [granted EXCEPT ![a][h] = ~@] /\ savedRights' = [savedRights EXCEPT ![a] = None]
        /\ rightsCall' = rightsCall /\ permissions' = permissions /\ isSaving' = isSaving
        /\ selectedUser' = selectedUser
    BY <1>8 DEF Rights!OthersGrant, Rights!shownVars
  <2>2. granted' \in [Accounts -> Rights!Rights]
    BY <1>0, <2>1 DEF Rights!Rights
  <2>3. /\ savedRights' \in [Accounts -> Rights!Rights \union {None}]
        /\ \A b \in Accounts : savedRights'[b] # None =>
              savedRights'[b] = savedRights[b] /\ granted'[b] = granted[b]
    BY <1>0, <2>1
  <2>4. QED
    BY <1>0, <2>1, <2>2, <2>3, RightsGoOn
<1>9. CASE Rights!SavePermissions
  <2>1. PICK a \in Accounts : a = selectedUser.id
    BY <1>0, <1>9 DEF Rights!SavePermissions, Rights!MaySave, Rights!Selected
  <2>2. PICK r : r = Rights!Asked("saveCamera", a, permissions)
    OBVIOUS
  <2>out. PICK out : out = Rights!Outcome(a)
    OBVIOUS
  <2>of. /\ out \in Rights!Rights
         /\ \A h \in Rights!Halves :
               out[h] = Rights!Written(h, permissions[h], granted[a][h])
    BY <1>0, <2>1, <2>out, OutcomeIsOfRights
  <2>3. /\ ~isSaving /\ isSaving' = TRUE /\ Rights!Sends(rightsCall, r)
        /\ savedRights' = [savedRights EXCEPT ![a] = out]
        /\ granted' = granted /\ permissions' = permissions /\ selectedUser' = selectedUser
    BY <1>9, <2>1, <2>2, <2>out DEF Rights!SavePermissions, Rights!MaySave, Rights!accountVars
  <2>4. /\ r \in Rights!SaveCalls /\ IsSave(r) /\ Rights!CallShape(r)
        /\ r.kind = "saveCamera" /\ r.account = a /\ r.data = permissions /\ r.answer = "asked"
    <3>1. /\ r \in Rights!SaveCalls /\ DOMAIN r = {"kind", "account", "data", "answer"}
          /\ r.kind = "saveCamera" /\ r.account = a /\ r.data = permissions /\ r.answer = "asked"
      BY <1>0, <2>2 DEF Rights!Asked, Rights!SaveCalls
    <3>2. QED
      BY <3>1 DEF IsSave, Rights!CallShape
  <2>5. PICK t \in RightsSlots : rightsCall' = [rightsCall EXCEPT ![t] = r]
    BY <2>3, RequestIsSent
  <2>6. PICK calls : calls = rightsCall'
    OBVIOUS
  <2>7. /\ DOMAIN calls = RightsSlots
        /\ \A s \in RightsSlots : calls[s] = IF s = t THEN r ELSE rightsCall[s]
    BY <1>0, <2>5, <2>6
  <2>8. \A s \in RightsSlots : ~IsSave(rightsCall[s])
    BY <1>0, <2>3
  <2>9. /\ savedRights' \in [Accounts -> Rights!Rights \union {None}]
        /\ \A b \in Accounts : savedRights'[b] = IF b = a THEN out ELSE savedRights[b]
    BY <1>0, <2>3, <2>of
  <2>10. Rights!SavesWhatWasAsked(calls[t])'
    <3>1. \A h \in Rights!Halves : ~Rights!HalfIsDone(r, h)
      BY <2>4 DEF Rights!HalfIsDone, Rights!Half
    <3>2. calls[t] = r /\ calls' = calls /\ r' = r
      BY <2>7
    <3>3. granted' = granted
      BY <2>3
    <3>4. \A h \in Rights!Halves : Rights!Leaves(calls[t], h)' = out[h]
      BY <2>4, <2>of, <3>1, <3>2, <3>3 DEF Rights!Leaves, Rights!HalfIsDone, Rights!Half
    <3>5. QED
      BY <2>4, <2>9, <3>2, <3>4 DEF Rights!SavesWhatWasAsked
  <2>11. \A b \in Accounts : savedRights'[b] # None =>
           granted'[b] = savedRights'[b] \/ (IsSave(calls[t]) /\ calls[t].account = b)
    <3>1. IsSave(calls[t]) /\ calls[t].account = a
      BY <2>4, <2>7
    <3>2. ASSUME NEW b \in Accounts, b # a, savedRights'[b] # None
          PROVE  granted'[b] = savedRights'[b]
      <4>1. savedRights'[b] = savedRights[b] /\ granted'[b] = granted[b]
        BY <2>3, <2>9, <3>2
      <4>2. granted[b] = savedRights[b]
        BY <1>0, <2>8, <3>2, <4>1
      <4>3. QED
        BY <4>1, <4>2
    <3>3. QED
      BY <3>1, <3>2
  <2>12. /\ \A s \in RightsSlots : Rights!CallShape(calls[s])
         /\ \A s \in RightsSlots : s # t => ~IsSave(calls[s])
         /\ isSaving' \in BOOLEAN /\ (isSaving' <=> IsSave(calls[t]))
    BY <1>0, <2>3, <2>4, <2>7, <2>8
  <2>13. QED
    <3>1. /\ granted' \in [Accounts -> Rights!Rights] /\ rightsCall' = calls
          /\ permissions' = permissions /\ selectedUser' = selectedUser
      BY <1>0, <2>3, <2>6
    <3>2. QED
      BY <2>7, <2>9, <2>10, <2>11, <2>12, <3>1, SaveGoesOn
<1>10. ASSUME NEW s \in RightsSlots, Rights!ReceiveList(s)
       PROVE  Rights!RightsInv'
  <2>1. /\ rightsCall' = Rights!Over(s) /\ rightsCall[s].kind = "list"
        /\ granted' = granted /\ permissions' = permissions
        /\ savedRights' = savedRights /\ isSaving' = isSaving /\ selectedUser' = selectedUser
    BY <1>10 DEF Rights!ReceiveList, Rights!Answered, Rights!OnAnswer, Rights!accountVars
  <2>2. ~IsSave(rightsCall[s]) /\ ~IsSave(None) /\ Rights!CallShape(None)
    BY <2>1 DEF IsSave, Rights!CallShape
  <2>3. QED
    BY <1>0, <1>a, <1>c, <2>1, <2>2
<1>11. ASSUME NEW s \in RightsSlots, NEW h \in Rights!Halves, Rights!ReceiveRights(s, h)
       PROVE  Rights!RightsInv'
  <2> DEFINE r == Rights!Asked("loadSite", rightsCall[s].account, None)
  <2>1. ~IsSave(r) /\ Rights!CallShape(r)
    BY <1>b, <1>d
  <2>2. /\ rightsCall[s].kind \in {"loadSite", "loadCamera"}
        /\ rightsCall' = Rights!Over(s) \/ Rights!Sends(Rights!Over(s), r)
        /\ granted' = granted
        /\ savedRights' = savedRights /\ isSaving' = isSaving /\ selectedUser' = selectedUser
    BY <1>11 DEF Rights!ReceiveRights, Rights!Answered, Rights!OnAnswer, Rights!accountVars
  <2> HIDE DEF r
  <2>3. permissions' \in Rights!Shown
    <3>1. Rights!Entry(rightsCall[s]) \in Rights!Entries
      BY DEF Rights!Entry, Rights!Entries
    <3>2. \/ permissions' = permissions
          \/ permissions' = [permissions EXCEPT ![h] = Rights!Entry(rightsCall[s])]
      BY <1>11 DEF Rights!ReceiveRights
    <3>3. QED
      BY <1>0, <3>1, <3>2 DEF Rights!Shown
  <2>4. ~IsSave(rightsCall[s])
    BY <2>2 DEF IsSave
  <2>5. QED
    BY <1>0, <1>a, <1>c, <2>1, <2>2, <2>3, <2>4
<1>12. ASSUME NEW s \in RightsSlots, Rights!ReceiveAccount(s)
       PROVE  Rights!RightsInv'
  <2> DEFINE r == Rights!Asked("list", None, None)
  <2>1. ~IsSave(r) /\ Rights!CallShape(r)
    BY <1>b, <1>d
  <2>2. /\ rightsCall[s].kind \in {"role", "delete", "create"} /\ rightsCall[s] # None
        /\ rightsCall' = Rights!Over(s) \/ Rights!Sends(Rights!Over(s), r)
        /\ granted' = granted /\ permissions' = permissions
        /\ savedRights' = savedRights /\ isSaving' = isSaving
    BY <1>12 DEF Rights!ReceiveAccount, Rights!Answered, Rights!OnAnswer, Rights!accountVars
  <2> HIDE DEF r
  <2>3. selectedUser' = None \/ selectedUser'.id \in Accounts
    <3>1. rightsCall[s].kind = "role" => rightsCall[s].account \in Accounts
      BY <1>0, <2>2 DEF Rights!CallShape
    <3>2. \/ selectedUser' = selectedUser \/ selectedUser' = None
          \/ rightsCall[s].kind = "role" /\ selectedUser'.id = rightsCall[s].account
      <4>1. CASE rightsCall[s].kind = "role"
        <5>1. CASE rightsCall[s].answer = "ok"
          <6>1. selectedUser' = [id |-> rightsCall[s].account, role |-> rightsCall[s].data]
            BY <1>12, <4>1, <5>1 DEF Rights!ReceiveAccount
          <6>2. QED
            BY <4>1, <6>1
        <5>2. CASE rightsCall[s].answer # "ok"
          BY <1>12, <5>2 DEF Rights!ReceiveAccount
        <5>3. QED
          BY <5>1, <5>2
      <4>2. CASE rightsCall[s].kind = "delete"
        BY <1>12, <4>2 DEF Rights!ReceiveAccount
      <4>3. CASE rightsCall[s].kind = "create"
        BY <1>12, <4>3 DEF Rights!ReceiveAccount
      <4>4. QED
        BY <2>2, <4>1, <4>2, <4>3
    <3>3. QED
      BY <1>0, <3>1, <3>2
  <2>4. ~IsSave(rightsCall[s])
    BY <2>2 DEF IsSave
  <2>5. QED
    BY <1>0, <1>a, <1>c, <2>1, <2>2, <2>3, <2>4
(* What the server does for a request that is not a save, and what is known of the only one. *)
<1>e. ASSUME NEW s \in RightsSlots, rightsCall[s] # None, ~IsSave(rightsCall[s]),
             NEW r, DOMAIN r = {"kind", "account", "data", "answer"},
             r.kind = rightsCall[s].kind, r.account = rightsCall[s].account,
             DOMAIN rightsCall' = RightsSlots,
             \A t \in RightsSlots : rightsCall'[t] = IF t = s THEN r ELSE rightsCall[t],
             granted' \in [Accounts -> Rights!Rights],
             savedRights' \in [Accounts -> Rights!Rights \union {None}],
             \A a \in Accounts : savedRights'[a] # None =>
                savedRights'[a] = savedRights[a] /\ granted'[a] = granted[a],
             permissions' = permissions, isSaving' = isSaving, selectedUser' = selectedUser
      PROVE  Rights!RightsInv'
  <2>1. PICK calls : calls = rightsCall'
    OBVIOUS
  <2>2. /\ DOMAIN calls = RightsSlots
        /\ \A t \in RightsSlots : calls[t] = IF t = s THEN r ELSE rightsCall[t]
    BY <1>0, <1>e, <2>1
  <2>3. ~IsSave(r) /\ Rights!CallShape(r)
    <3>1. rightsCall[s].kind \notin Rights!Saves /\ Rights!CallShape(rightsCall[s])
      BY <1>0, <1>e DEF IsSave
    <3>2. r.kind \notin Rights!Saves /\ (r.kind = "role" => r.account \in Accounts)
      BY <1>e, <3>1 DEF Rights!CallShape
    <3>3. QED
      BY <1>e, <3>2 DEF Rights!CallShape, IsSave
  <2>4. \A t \in RightsSlots : /\ Rights!CallShape(calls[t])
                               /\ IsSave(calls[t]) \/ IsSave(rightsCall[t])
                                     => calls[t] = rightsCall[t]
    BY <1>0, <1>e, <2>2, <2>3
  <2>5. rightsCall' = calls /\ permissions' \in Rights!Shown
        /\ (selectedUser' = None \/ selectedUser'.id \in Accounts)
    BY <1>0, <1>e, <2>1
  <2>6. QED
    BY <1>e, <2>2, <2>4, <2>5, RightsGoOn
<1>f. ASSUME NEW s \in RightsSlots, IsSave(rightsCall[s])
      PROVE  /\ rightsCall[s] \in Rights!SaveCalls /\ rightsCall[s] # None
             /\ rightsCall[s].kind \in {"saveCamera", "saveSite"}
             /\ rightsCall[s].account \in Accounts /\ rightsCall[s].data \in Rights!Shown
             /\ DOMAIN rightsCall[s] = {"kind", "account", "data", "answer"}
             /\ Rights!SavesWhatWasAsked(rightsCall[s])
             /\ \A t \in RightsSlots : t # s => ~IsSave(rightsCall[t])
             /\ \A a \in Accounts : a # rightsCall[s].account /\ savedRights[a] # None
                   => granted[a] = savedRights[a]
  <2>1. rightsCall[s] # None /\ rightsCall[s].kind \in Rights!Saves
    BY <1>f DEF IsSave
  <2>2. /\ rightsCall[s] \in Rights!SaveCalls
        /\ DOMAIN rightsCall[s] = {"kind", "account", "data", "answer"}
    BY <1>0, <2>1 DEF Rights!CallShape
  <2>3. rightsCall[s].account \in Accounts /\ rightsCall[s].data \in Rights!Shown
    BY <2>2 DEF Rights!SaveCalls
  <2>4. QED
    BY <1>0, <1>f, <2>1, <2>2, <2>3
(* The only save goes on in slot t, or is over. *)
<1>g. ASSUME NEW s \in RightsSlots, IsSave(rightsCall[s]),
             NEW t \in RightsSlots, NEW r, r = None \/ r \in Rights!SaveCalls,
             r # None => /\ DOMAIN r = {"kind", "account", "data", "answer"}
                         /\ r.account = rightsCall[s].account,
             DOMAIN rightsCall' = RightsSlots, rightsCall'[t] = r,
             \A u \in RightsSlots : u # t =>
                rightsCall'[u] = IF u = s THEN None ELSE rightsCall[u],
             granted' \in [Accounts -> Rights!Rights],
             savedRights' \in [Accounts -> Rights!Rights \union {None}],
             \A a \in Accounts : a # rightsCall[s].account =>
                savedRights'[a] = savedRights[a] /\ granted'[a] = granted[a],
             permissions' = permissions, selectedUser' = selectedUser,
             isSaving' \in BOOLEAN, isSaving' <=> r # None,
             savedRights'[rightsCall[s].account] # None =>
                IF r = None THEN granted'[rightsCall[s].account] = savedRights'[rightsCall[s].account]
                ELSE Rights!SavesWhatWasAsked(r)'
      PROVE  Rights!RightsInv'
  <2>0. PICK a : a = rightsCall[s].account
    OBVIOUS
  <2>1. PICK calls : calls = rightsCall'
    OBVIOUS
  <2>2. /\ DOMAIN calls = RightsSlots /\ calls[t] = r
        /\ \A u \in RightsSlots : u # t =>
              calls[u] = IF u = s THEN None ELSE rightsCall[u]
    BY <1>0, <1>g, <2>1
  <2>3. (IsSave(r) <=> r # None) /\ Rights!CallShape(r) /\ Rights!CallShape(None) /\ ~IsSave(None)
    <3>1. CASE r = None
      BY <3>1 DEF IsSave, Rights!CallShape
    <3>2. CASE r # None
      <4>1. r \in Rights!SaveCalls /\ r.kind \in Rights!Saves /\ r.account \in Accounts
        BY <1>g, <3>2 DEF Rights!SaveCalls
      <4>2. QED
        BY <1>g, <3>2, <4>1 DEF IsSave, Rights!CallShape
    <3>3. QED
      BY <3>1, <3>2
  <2>4. \A u \in RightsSlots : Rights!CallShape(calls[u]) /\ (u # t => ~IsSave(calls[u]))
    BY <1>0, <1>f, <1>g, <2>2, <2>3
  <2>5. /\ rightsCall' = calls /\ isSaving' \in BOOLEAN /\ (isSaving' <=> IsSave(calls[t]))
    BY <1>g, <2>1, <2>2, <2>3
  <2>6. \A b \in Accounts : savedRights'[b] # None =>
           granted'[b] = savedRights'[b] \/ (IsSave(calls[t]) /\ calls[t].account = b)
    <3>1. ASSUME NEW b \in Accounts, savedRights'[b] # None, b # a
          PROVE  granted'[b] = savedRights'[b]
      <4>1. granted[b] = savedRights[b]
        BY <1>f, <1>g, <2>0, <3>1
      <4>2. QED
        BY <1>g, <2>0, <3>1, <4>1
    <3>2. ASSUME savedRights'[a] # None
          PROVE  granted'[a] = savedRights'[a] \/ (IsSave(calls[t]) /\ calls[t].account = a)
      <4>1. CASE r = None
        BY <1>g, <2>0, <3>2, <4>1
      <4>2. CASE r # None
        BY <1>g, <2>0, <2>2, <2>3, <4>2
      <4>3. QED
        BY <4>1, <4>2
    <3>3. QED
      BY <3>1, <3>2
  <2>7. IsSave(calls[t]) => Rights!SavesWhatWasAsked(calls[t])'
    <3>1. SUFFICES ASSUME r # None
                   PROVE  Rights!SavesWhatWasAsked(calls[t])'
      BY <2>2, <2>3
    <3>2. r.account = a
      BY <1>g, <2>0, <3>1
    <3>3. CASE savedRights'[a] = None
      BY <2>2, <3>2, <3>3 DEF Rights!SavesWhatWasAsked
    <3>4. CASE savedRights'[a] # None
      <4>1. Rights!SavesWhatWasAsked(r)'
        BY <1>g, <2>0, <3>1, <3>4
      <4>2. QED
        BY <2>2, <4>1 DEF Rights!SavesWhatWasAsked
    <3>5. QED
      BY <3>3, <3>4
  <2>8. QED
    BY <1>g, <2>2, <2>4, <2>5, <2>6, <2>7, SaveGoesOn
(* What the server writes for a request. *)
<1>h. ASSUME NEW s \in RightsSlots, NEW c, c = rightsCall[s], c # None, Rights!Does(c)
      PROVE  /\ ~IsSave(c) /\ c.kind # "delete" => granted' = granted
             /\ c.kind = "delete" =>
                   /\ granted' \in [Accounts -> Rights!Rights]
                   /\ \A a \in Accounts : a # c.account => granted'[a] = granted[a]
             /\ IsSave(c) =>
                   /\ granted' \in [Accounts -> Rights!Rights]
                   /\ \A a \in Accounts : a # c.account => granted'[a] = granted[a]
                   /\ \A h \in Rights!Halves :
                         granted'[c.account][h] =
                            IF h = Rights!Half(c)
                            THEN Rights!Written(h, c.data[h], granted[c.account][h])
                            ELSE granted[c.account][h]
  <2>1. CASE c.kind \in {"create", "role"}
    BY <1>h, <2>1 DEF Rights!Does, IsSave
  <2>2. CASE c.kind = "delete"
    <3>1. granted' = [granted EXCEPT ![c.account] = Rights!NoRights]
      BY <1>h, <2>2 DEF Rights!Does
    <3>2. QED
      BY <1>0, <2>2, <3>1 DEF IsSave
  <2>3. CASE c.kind \in {"saveCamera", "saveSite"}
    <3>1. /\ IsSave(c) /\ c.account \in Accounts
          /\ granted[c.account] \in Rights!Rights /\ c.kind # "delete"
      BY <1>0, <1>f, <1>h, <2>3 DEF IsSave
    <3>2. PICK h : h = Rights!Half(c)
      OBVIOUS
    <3>3. h \in Rights!Halves
      BY <3>2 DEF Rights!Half
    <3>w. PICK w : w = Rights!Written(h, c.data[h], granted[c.account][h])
      OBVIOUS
    <3>b. w \in BOOLEAN
      <4>1. granted[c.account][h] \in BOOLEAN
        BY <3>1, <3>3 DEF Rights!Rights
      <4>2. QED
        BY <3>w, <4>1, WrittenIsAGrant
    <3>4. granted' = [granted EXCEPT ![c.account] = [@ EXCEPT ![h] = w]]
      BY <1>h, <2>3, <3>2, <3>w DEF Rights!Does, Rights!Half
    <3>5. [granted[c.account] EXCEPT ![h] = w] \in Rights!Rights
      BY <3>1, <3>3, <3>b DEF Rights!Rights
    <3>6. /\ granted' \in [Accounts -> Rights!Rights]
          /\ \A a \in Accounts : a # c.account => granted'[a] = granted[a]
          /\ granted'[c.account] = [granted[c.account] EXCEPT ![h] = w]
      BY <1>0, <3>1, <3>4, <3>5
    <3>7. \A k \in Rights!Halves : granted'[c.account][k] =
             IF k = h THEN w ELSE granted[c.account][k]
      BY <3>1, <3>6 DEF Rights!Rights
    <3>8. QED
      BY <3>1, <3>2, <3>w, <3>6, <3>7
  <2>4. CASE c.kind \notin {"create", "role", "delete", "saveCamera", "saveSite"}
    BY <1>h, <2>4 DEF Rights!Does, Rights!accountVars, IsSave
  <2>5. QED
    BY <2>1, <2>2, <2>3, <2>4
(* A save that is answered without being served whole is given up. *)
<1>i. ASSUME NEW s \in RightsSlots, IsSave(rightsCall[s]), NEW answer \in {"refused", "lost"},
             rightsCall' = [rightsCall EXCEPT ![s].answer = answer],
             granted' = granted \/ Rights!Does(rightsCall[s]),
             savedRights' = [savedRights EXCEPT ![rightsCall[s].account] = None],
             permissions' = permissions, isSaving' = isSaving, selectedUser' = selectedUser
      PROVE  Rights!RightsInv'
  <2>0. PICK c : c = rightsCall[s]
    OBVIOUS
  <2>1. /\ c \in Rights!SaveCalls /\ c # None /\ c.account \in Accounts
        /\ DOMAIN c = {"kind", "account", "data", "answer"}
    BY <1>f, <1>i, <2>0
  <2>2. PICK r : r = [c EXCEPT !.answer = answer]
    OBVIOUS
  <2>3. /\ r \in Rights!SaveCalls /\ r # None /\ r.account = c.account
        /\ DOMAIN r = {"kind", "account", "data", "answer"}
    BY <2>1, <2>2 DEF Rights!SaveCalls
  <2>4. /\ DOMAIN rightsCall' = RightsSlots /\ rightsCall'[s] = r
        /\ \A u \in RightsSlots : u # s =>
              rightsCall'[u] = IF u = s THEN None ELSE rightsCall[u]
    BY <1>0, <1>i, <2>0, <2>2
  <2>5. /\ granted' \in [Accounts -> Rights!Rights]
        /\ \A a \in Accounts : a # c.account => granted'[a] = granted[a]
    <3>1. CASE granted' = granted
      BY <1>0, <3>1
    <3>2. CASE Rights!Does(c)
      BY <1>h, <1>i, <2>0, <2>1, <3>2
    <3>3. QED
      BY <1>i, <2>0, <3>1, <3>2
  <2>6. /\ savedRights' \in [Accounts -> Rights!Rights \union {None}]
        /\ savedRights'[c.account] = None
        /\ \A a \in Accounts : a # c.account => savedRights'[a] = savedRights[a]
    BY <1>0, <1>i, <2>0, <2>1
  <2>7. isSaving' \in BOOLEAN /\ (isSaving' <=> r # None)
    BY <1>0, <1>i, <2>3
  <2>8. /\ r = None \/ r \in Rights!SaveCalls
        /\ r # None => /\ DOMAIN r = {"kind", "account", "data", "answer"}
                       /\ r.account = rightsCall[s].account
        /\ \A a \in Accounts : a # rightsCall[s].account =>
              savedRights'[a] = savedRights[a] /\ granted'[a] = granted[a]
        /\ savedRights'[rightsCall[s].account] = None
    BY <2>0, <2>3, <2>5, <2>6
  <2>9. QED
    BY <1>g, <1>i, <2>4, <2>5, <2>6, <2>7, <2>8
(* A request that is not a save is answered, served or not. *)
<1>j. ASSUME NEW s \in RightsSlots, rightsCall[s] # None, ~IsSave(rightsCall[s]),
             NEW r, DOMAIN r = {"kind", "account", "data", "answer"},
             r.kind = rightsCall[s].kind, r.account = rightsCall[s].account,
             rightsCall' = [rightsCall EXCEPT ![s] = r],
             granted' = granted \/ Rights!Does(rightsCall[s]),
             rightsCall[s].kind = "delete" /\ Rights!Does(rightsCall[s])
                => savedRights' = Rights!Unsettled(rightsCall[s], {"delete"}),
             savedRights' \in {savedRights, [savedRights EXCEPT ![rightsCall[s].account] = None]},
             permissions' = permissions, isSaving' = isSaving, selectedUser' = selectedUser
      PROVE  Rights!RightsInv'
  <2>0. PICK c : c = rightsCall[s]
    OBVIOUS
  <2>1. /\ savedRights' \in [Accounts -> Rights!Rights \union {None}]
        /\ \A a \in Accounts : savedRights'[a] # None => savedRights'[a] = savedRights[a]
    BY <1>0, <1>j
  <2>2. /\ granted' \in [Accounts -> Rights!Rights]
        /\ \A a \in Accounts : savedRights'[a] # None => granted'[a] = granted[a]
    <3>1. CASE granted' = granted
      BY <1>0, <3>1
    <3>2. CASE Rights!Does(c) /\ c.kind # "delete"
      BY <1>0, <1>h, <1>j, <2>0, <3>2
    <3>3. CASE Rights!Does(c) /\ c.kind = "delete"
      <4>1. /\ granted' \in [Accounts -> Rights!Rights]
            /\ \A a \in Accounts : a # c.account => granted'[a] = granted[a]
        BY <1>h, <1>j, <2>0, <3>3
      <4>2. savedRights' = [savedRights EXCEPT ![c.account] = None]
        BY <1>j, <2>0, <3>3 DEF Rights!Unsettled
      <4>3. \A a \in Accounts : savedRights'[a] # None => a # c.account
        BY <1>0, <4>2
      <4>4. QED
        BY <4>1, <4>3
    <3>4. QED
      BY <1>j, <2>0, <3>1, <3>2, <3>3
  <2>3. /\ DOMAIN rightsCall' = RightsSlots
        /\ \A t \in RightsSlots : rightsCall'[t] = IF t = s THEN r ELSE rightsCall[t]
    BY <1>0, <1>j
  <2>4. QED
    BY <1>e, <1>j, <2>1, <2>2, <2>3
<1>13. ASSUME NEW s \in RightsSlots, Rights!FailRequest(s)
       PROVE  Rights!RightsInv'
  <2>1. /\ rightsCall[s] # None /\ permissions' = permissions
        /\ isSaving' = isSaving /\ selectedUser' = selectedUser
        /\ savedRights' = Rights!Unsettled(rightsCall[s], {"saveCamera", "saveSite", "delete"})
    BY <1>13 DEF Rights!FailRequest, Rights!shownVars
  <2>2. PICK answer \in {"refused", "lost"} :
           /\ rightsCall' = [rightsCall EXCEPT ![s].answer = answer]
           /\ granted' = granted \/ Rights!Does(rightsCall[s])
    BY <1>13 DEF Rights!FailRequest, Rights!accountVars
  <2>3. CASE IsSave(rightsCall[s])
    <3>1. savedRights' = [savedRights EXCEPT ![rightsCall[s].account] = None]
      BY <1>f, <2>1, <2>3 DEF Rights!Unsettled
    <3>2. QED
      BY <1>i, <2>1, <2>2, <2>3, <3>1
  <2>4. CASE ~IsSave(rightsCall[s])
    <3>1. PICK r : r = [rightsCall[s] EXCEPT !.answer = answer]
      OBVIOUS
    <3>2. DOMAIN rightsCall[s] = {"kind", "account", "data", "answer"}
      BY <1>0, <2>1 DEF Rights!CallShape
    <3>3. /\ DOMAIN r = {"kind", "account", "data", "answer"}
          /\ r.kind = rightsCall[s].kind /\ r.account = rightsCall[s].account
      BY <3>1, <3>2
    <3>4. rightsCall' = [rightsCall EXCEPT ![s] = r]
      BY <2>2, <3>1
    <3>5. savedRights' \in {savedRights, [savedRights EXCEPT ![rightsCall[s].account] = None]}
      BY <2>1 DEF Rights!Unsettled
    <3>6. rightsCall[s].kind = "delete" => savedRights' = Rights!Unsettled(rightsCall[s], {"delete"})
      BY <2>1 DEF Rights!Unsettled
    <3>7. QED
      BY <1>j, <2>1, <2>2, <2>4, <3>3, <3>4, <3>5, <3>6
  <2>5. QED
    BY <2>3, <2>4
<1>14. ASSUME NEW s \in RightsSlots, Rights!Serve(s)
       PROVE  Rights!RightsInv'
  <2>0. PICK c : c = rightsCall[s]
    OBVIOUS
  <2>1. /\ c # None /\ c.answer = "asked" /\ permissions' = permissions
        /\ isSaving' = isSaving /\ selectedUser' = selectedUser
        /\ DOMAIN c = {"kind", "account", "data", "answer"}
    BY <1>0, <1>14, <2>0 DEF Rights!Serve, Rights!shownVars, Rights!CallShape
  <2>2. CASE Rights!Accepts(c)
    <3>1. PICK r : r = [c EXCEPT !.answer = "ok", !.data = Rights!Told(c)]
      OBVIOUS
    <3>2. /\ DOMAIN r = {"kind", "account", "data", "answer"} /\ r.kind = c.kind
          /\ r.account = c.account /\ r.answer = "ok" /\ r.data = Rights!Told(c)
      BY <2>1, <3>1
    <3>3. /\ Rights!Does(c) /\ savedRights' = Rights!Unsettled(c, {"delete"})
          /\ rightsCall' = [rightsCall EXCEPT ![s] = r]
      BY <1>14, <2>0, <2>2, <3>1 DEF Rights!Serve
    <3>4. CASE ~IsSave(c)
      <4>1. savedRights' \in {savedRights, [savedRights EXCEPT ![c.account] = None]}
        BY <3>3 DEF Rights!Unsettled
      <4>2. QED
        BY <1>j, <2>0, <2>1, <3>2, <3>3, <3>4, <4>1
    <3>5. CASE IsSave(c)
      <4>1. /\ c \in Rights!SaveCalls /\ c.kind \in {"saveCamera", "saveSite"}
            /\ c.account \in Accounts /\ Rights!SavesWhatWasAsked(c)
        BY <1>f, <2>0, <3>5
      <4>2. r.data = c.data
        BY <3>2, <4>1 DEF Rights!Told
      <4>3. r \in Rights!SaveCalls /\ r # None
        <5>1. r \in Rights!SaveCalls
          BY <3>1, <3>2, <4>1, <4>2 DEF Rights!SaveCalls
        <5>2. QED
          BY <5>1
      <4>4. savedRights' = savedRights
        BY <3>3, <4>1 DEF Rights!Unsettled
      <4>5. /\ granted' \in [Accounts -> Rights!Rights]
            /\ \A a \in Accounts : a # c.account => granted'[a] = granted[a]
            /\ \A h \in Rights!Halves : granted'[c.account][h] =
                  IF h = Rights!Half(c) THEN Rights!Written(h, c.data[h], granted[c.account][h])
                  ELSE granted[c.account][h]
        BY <1>h, <2>0, <2>1, <3>3, <3>5
      <4>6. savedRights'[c.account] # None => Rights!SavesWhatWasAsked(r)'
        <5>1. SUFFICES ASSUME savedRights[c.account] # None
                       PROVE  Rights!SavesWhatWasAsked(r)'
          BY <4>4
        <5>2. \A h \in Rights!Halves : Rights!Leaves(c, h) = savedRights[c.account][h]
          BY <4>1, <5>1 DEF Rights!SavesWhatWasAsked
        <5>3. ASSUME NEW h \in Rights!Halves
              PROVE  Rights!Leaves(r, h)' = savedRights[c.account][h]
          <6>1. CASE h = Rights!Half(c)
            <7>1. Rights!HalfIsDone(r, h)' /\ ~Rights!HalfIsDone(c, h)
              BY <2>1, <3>2, <6>1 DEF Rights!HalfIsDone, Rights!Half
            <7>2. Rights!Leaves(r, h)' = granted'[c.account][h]
              BY <3>2, <7>1 DEF Rights!Leaves
            <7>3. Rights!Leaves(c, h) = Rights!Written(h, c.data[h], granted[c.account][h])
              BY <7>1 DEF Rights!Leaves
            <7>4. QED
              BY <4>5, <5>2, <6>1, <7>2, <7>3
          <6>2. CASE h # Rights!Half(c)
            <7>1. Rights!HalfIsDone(c, h) <=> Rights!HalfIsDone(r, h)'
              BY <3>2, <6>2 DEF Rights!HalfIsDone, Rights!Half
            <7>2. granted'[c.account][h] = granted[c.account][h]
              BY <4>5, <6>2
            <7>3. Rights!Leaves(r, h)' = Rights!Leaves(c, h)
              BY <3>2, <4>2, <7>1, <7>2 DEF Rights!Leaves, Rights!Written
            <7>4. QED
              BY <5>2, <7>3
          <6>3. QED
            BY <6>1, <6>2
        <5>4. QED
          BY <3>2, <4>4, <5>3 DEF Rights!SavesWhatWasAsked
      <4>7. /\ DOMAIN rightsCall' = RightsSlots /\ rightsCall'[s] = r
            /\ \A u \in RightsSlots : u # s =>
                  rightsCall'[u] = IF u = s THEN None ELSE rightsCall[u]
        BY <1>0, <3>3
      <4>8. isSaving' \in BOOLEAN /\ (isSaving' <=> r # None)
        BY <1>0, <2>0, <2>1, <3>5, <4>3
      <4>9. /\ savedRights' \in [Accounts -> Rights!Rights \union {None}]
            /\ \A a \in Accounts : a # rightsCall[s].account =>
                  savedRights'[a] = savedRights[a] /\ granted'[a] = granted[a]
            /\ r.account = rightsCall[s].account /\ IsSave(rightsCall[s])
            /\ savedRights'[rightsCall[s].account] # None => Rights!SavesWhatWasAsked(r)'
        BY <1>0, <2>0, <3>2, <3>5, <4>4, <4>5, <4>6
      <4>10. QED
        BY <1>g, <2>1, <3>2, <4>3, <4>5, <4>7, <4>8, <4>9
    <3>6. QED
      BY <3>4, <3>5
  <2>3. CASE ~Rights!Accepts(c)
    <3>1. /\ rightsCall' = [rightsCall EXCEPT ![s].answer = "refused"] /\ granted' = granted
          /\ savedRights' = Rights!Unsettled(c, {"saveCamera", "saveSite"})
      BY <1>14, <2>0, <2>3 DEF Rights!Serve, Rights!accountVars
    <3>2. CASE IsSave(c)
      <4>1. savedRights' = [savedRights EXCEPT ![rightsCall[s].account] = None]
        BY <1>f, <2>0, <3>1, <3>2 DEF Rights!Unsettled
      <4>2. QED
        BY <1>i, <2>0, <2>1, <3>1, <3>2, <4>1
    <3>3. CASE ~IsSave(c)
      <4>1. PICK r : r = [c EXCEPT !.answer = "refused"]
        OBVIOUS
      <4>2. /\ DOMAIN r = {"kind", "account", "data", "answer"}
            /\ r.kind = c.kind /\ r.account = c.account
        BY <2>1, <4>1
      <4>3. /\ DOMAIN rightsCall' = RightsSlots
            /\ \A t \in RightsSlots : rightsCall'[t] = IF t = s THEN r ELSE rightsCall[t]
        BY <1>0, <2>0, <3>1, <4>1
      <4>4. c.kind \notin Rights!Saves
        BY <2>1, <3>3 DEF IsSave
      <4>5. savedRights' = savedRights
        BY <3>1, <4>4 DEF Rights!Unsettled
      <4>6. QED
        BY <1>0, <1>e, <2>0, <2>1, <3>1, <3>3, <4>2, <4>3, <4>5
    <3>4. QED
      BY <3>2, <3>3
  <2>4. QED
    BY <2>2, <2>3
<1>15. ASSUME NEW s \in RightsSlots, NEW h \in Rights!Halves, Rights!ReceiveSave(s, h)
       PROVE  Rights!RightsInv'
  <2>0. PICK c : c = rightsCall[s]
    OBVIOUS
  <2>1. /\ c # None /\ c.kind = (IF h = "site" THEN "saveSite" ELSE "saveCamera")
        /\ c.answer # "asked" /\ granted' = granted /\ permissions' = permissions
        /\ savedRights' = savedRights /\ selectedUser' = selectedUser
    BY <1>15, <2>0 DEF Rights!ReceiveSave, Rights!Answered, Rights!OnAnswer, Rights!accountVars
  <2>2. IsSave(rightsCall[s]) /\ isSaving = TRUE
    BY <1>0, <2>0, <2>1 DEF IsSave
  <2>3. /\ c \in Rights!SaveCalls /\ c.account \in Accounts /\ c.data \in Rights!Shown
        /\ Rights!SavesWhatWasAsked(c) /\ h = Rights!Half(c)
    BY <1>f, <2>0, <2>1, <2>2 DEF Rights!Half
  <2>4. savedRights[c.account] # None =>
           /\ c.answer = "ok"
           /\ \A k \in Rights!Halves : savedRights[c.account][k] =
                 IF k = h \/ k = "camera" THEN granted[c.account][k]
                 ELSE Rights!Written(k, c.data[k], granted[c.account][k])
    BY <2>1, <2>3 DEF Rights!SavesWhatWasAsked, Rights!HalfIsDone, Rights!Leaves
  <2>5. /\ granted' \in [Accounts -> Rights!Rights]
        /\ savedRights' \in [Accounts -> Rights!Rights \union {None}]
        /\ \A a \in Accounts : a # rightsCall[s].account =>
              savedRights'[a] = savedRights[a] /\ granted'[a] = granted[a]
    BY <1>0, <2>1
  <2>6. CASE h = "camera" /\ c.answer = "ok"
    <3>1. PICK r : r = Rights!Asked("saveSite", c.account, c.data)
      OBVIOUS
    <3>2. /\ DOMAIN r = {"kind", "account", "data", "answer"} /\ r \in Rights!SaveCalls
          /\ r.kind = "saveSite" /\ r.account = c.account /\ r.data = c.data /\ r.answer = "asked"
      BY <2>3, <3>1 DEF Rights!Asked, Rights!SaveCalls
    <3>3. Rights!Sends(Rights!Over(s), r) /\ isSaving' = isSaving
      BY <1>15, <2>0, <2>6, <3>1 DEF Rights!ReceiveSave
    <3>4. PICK t \in RightsSlots : rightsCall' = [Rights!Over(s) EXCEPT ![t] = r]
      BY <3>3, RequestIsSent
    <3>5. /\ DOMAIN rightsCall' = RightsSlots /\ rightsCall'[t] = r
          /\ \A u \in RightsSlots : u # t =>
                rightsCall'[u] = IF u = s THEN None ELSE rightsCall[u]
      BY <1>c, <3>4
    <3>6. savedRights'[c.account] # None => Rights!SavesWhatWasAsked(r)'
      <4>1. \A k \in Rights!Halves : Rights!HalfIsDone(r, k)' <=> k = "camera"
        BY <3>2 DEF Rights!HalfIsDone, Rights!Half
      <4>2. \A k \in Rights!Halves : Rights!Leaves(r, k)' =
               IF k = "camera" THEN granted[c.account][k]
               ELSE Rights!Written(k, c.data[k], granted[c.account][k])
        BY <2>1, <3>2, <4>1 DEF Rights!Leaves, Rights!Written
      <4>3. QED
        BY <2>1, <2>4, <2>6, <3>2, <4>2 DEF Rights!SavesWhatWasAsked
    <3>7. /\ r # None /\ isSaving' \in BOOLEAN /\ (isSaving' <=> r # None)
      BY <2>2, <3>2, <3>3
    <3>8. /\ r.account = rightsCall[s].account
          /\ savedRights'[rightsCall[s].account] # None => Rights!SavesWhatWasAsked(r)'
      BY <2>0, <3>2, <3>6
    <3>9. QED
      BY <1>g, <2>1, <2>2, <2>5, <3>2, <3>5, <3>7, <3>8
  <2>7. CASE ~(h = "camera" /\ c.answer = "ok")
    <3>1. rightsCall' = Rights!Over(s) /\ isSaving' = FALSE
      BY <1>15, <2>0, <2>7 DEF Rights!ReceiveSave
    <3>2. /\ DOMAIN rightsCall' = RightsSlots /\ rightsCall'[s] = None
          /\ \A u \in RightsSlots : u # s =>
                rightsCall'[u] = IF u = s THEN None ELSE rightsCall[u]
      BY <1>c, <3>1
    <3>3. savedRights[c.account] # None => granted[c.account] = savedRights[c.account]
      <4>1. SUFFICES ASSUME savedRights[c.account] # None
                     PROVE  granted[c.account] = savedRights[c.account]
        OBVIOUS
      <4>2. h = "site"
        BY <2>4, <2>7, <4>1
      <4>3. \A k \in Rights!Halves : granted[c.account][k] = savedRights[c.account][k]
        BY <2>4, <4>1, <4>2
      <4>4. granted[c.account] \in Rights!Rights /\ savedRights[c.account] \in Rights!Rights
        BY <1>0, <2>3, <4>1
      <4>5. QED
        BY <4>3, <4>4 DEF Rights!Rights
    <3>4. savedRights'[rightsCall[s].account] # None =>
             granted'[rightsCall[s].account] = savedRights'[rightsCall[s].account]
      BY <2>0, <2>1, <3>3
    <3>5. isSaving' \in BOOLEAN /\ (isSaving' <=> None # None)
      BY <3>1
    <3>6. QED
      BY <1>g, <2>1, <2>2, <2>5, <3>2, <3>4, <3>5
  <2>8. QED
    BY <2>6, <2>7
<1>16. QED
  BY <1>1, <1>2, <1>3, <1>4, <1>5, <1>6, <1>7, <1>8, <1>9, <1>10, <1>11, <1>12, <1>13,
     <1>14, <1>15 DEF Rights!RightsNext

(* The invariant of the editor holds whichever part of the server moves. *)
THEOREM RightsConsistent == Spec => []Rights!RightsInv
<1>1. Init => Rights!RightsInv
  BY RightsStart DEF Init
<1>2. Rights!RightsInv /\ [Next]_vars => Rights!RightsInv'
  BY RightsStep DEF Next, vars, rightsVars
<1>3. QED
  BY <1>1, <1>2, PTL DEF Spec

(* A save that has ended without an error has left the account what it asked for when Save
   was clicked, whatever was clicked, loaded and answered meanwhile: of sites, those that were
   shown; of cameras, those that were shown and those the matrix had no entry for as they
   were, which is all of them when it was not loaded. *)
THEOREM SavesStayWhole == Spec => []SavesAreWhole
<1>1. Rights!RightsInv => SavesAreWhole
  BY DEF Rights!RightsInv, Rights!OneSave, Rights!SaveIsUnderWay, SavesAreWhole,
         Rights!SavesAreWhole
<1>2. QED
  BY <1>1, RightsConsistent, PTL

-------------------------------------------------------------------------------
(* Alerts: intervals, cooldowns and buckets.  A bucket is worth its tokens and what is left
   of an interval; an alert spends an interval of that worth and a unit of time adds at most
   one, so the alerts of a span are paid for by the span and by what the bucket was worth
   before. *)

(* Whole intervals and what is left of the last one. *)
LEMMA Intervals ==
    ASSUME NEW R \in Nat \ {0}, NEW a \in Nat
    PROVE  /\ a \div R \in Nat /\ a % R \in Nat /\ (a % R) < R
           /\ a = (a \div R) * R + (a % R)
<1>1. a \div R \in Int /\ a % R \in 0..(R - 1)
  OBVIOUS
<1>2. a = R * (a \div R) + (a % R)
  OBVIOUS
<1>3. a \div R >= 0
  <2>1. SUFFICES ASSUME a \div R < 0 PROVE FALSE
    BY <1>1
  <2>2. PICK d \in Nat : a \div R = -(1 + d)
    BY <1>1, <2>1
  <2>3. R * (a \div R) = -R - R * d /\ R * d \in Nat
    BY <2>2
  <2>4. QED
    BY <1>1, <1>2, <2>3
<1>4. QED
  BY <1>1, <1>2, <1>3

(* There is one way to write a number of units as intervals and a remainder. *)
LEMMA OneWay ==
    ASSUME NEW R \in Nat \ {0}, NEW q \in Nat, NEW r \in Nat, r < R
    PROVE  /\ (q * R + r) \div R = q
           /\ (q * R + r) % R = r
<1> DEFINE a == q * R + r
           p == a \div R
           s == a % R
<1>1. a \in Nat
  OBVIOUS
<1>2. p \in Nat /\ s \in Nat /\ s < R /\ a = p * R + s
  BY <1>1, Intervals
<1>3. q * R + r = p * R + s
  BY <1>2
<1> HIDE DEF a, p, s
<1>4. ~(q < p)
  <2>1. SUFFICES ASSUME q < p PROVE FALSE
    OBVIOUS
  <2>2. PICK d \in Nat : p = q + 1 + d
    BY <1>2, <2>1
  <2>3. p * R = q * R + R + d * R /\ d * R \in Nat
    BY <2>2
  <2>4. QED
    BY <1>2, <1>3, <2>3
<1>5. ~(p < q)
  <2>1. SUFFICES ASSUME p < q PROVE FALSE
    OBVIOUS
  <2>2. PICK d \in Nat : q = p + 1 + d
    BY <1>2, <2>1
  <2>3. q * R = p * R + R + d * R /\ d * R \in Nat
    BY <1>2, <2>2
  <2>4. QED
    BY <1>2, <1>3, <2>3
<1>6. p = q
  BY <1>2, <1>4, <1>5
<1>7. s = r
  BY <1>2, <1>3, <1>6
<1>8. QED
  BY <1>6, <1>7 DEF a, p, s

(* A step of the clock. *)
LEMMA NextUnit ==
    ASSUME NEW R \in Nat \ {0}, NEW a \in Nat
    PROVE  IF (a % R) + 1 < R
           THEN (a + 1) \div R = a \div R /\ (a + 1) % R = (a % R) + 1
           ELSE (a + 1) \div R = a \div R + 1 /\ (a + 1) % R = 0
<1> DEFINE q == a \div R
           r == a % R
<1>1. q \in Nat /\ r \in Nat /\ r < R /\ a = q * R + r
  BY Intervals
<1> HIDE DEF q, r
<1>2. CASE r + 1 < R
  <2>1. a + 1 = q * R + (r + 1) /\ r + 1 \in Nat
    BY <1>1
  <2>2. (q * R + (r + 1)) \div R = q /\ (q * R + (r + 1)) % R = r + 1
    BY <1>1, <1>2, <2>1, OneWay
  <2>3. QED
    BY <1>2, <2>1, <2>2 DEF q, r
<1>3. CASE ~(r + 1 < R)
  <2>1. a + 1 = (q + 1) * R + 0
    BY <1>1, <1>3
  <2>2. (a + 1) \div R = q + 1 /\ (a + 1) % R = 0
    BY <1>1, <2>1, OneWay
  <2>3. QED
    BY <1>3, <2>2 DEF q, r
<1>4. QED
  BY <1>2, <1>3

(* An instance of a module counts and compares as this module does. *)
LEMMA AlertSizes == \A S : Channels!Cardinality(S) = Cardinality(S)
BY DEF Channels!Cardinality, Cardinality

(* The larger and the smaller of two numbers. *)
LEMMA LargerOf ==
    ASSUME NEW a \in Nat, NEW b \in Nat
    PROVE  Channels!Max({a, b}) \in {a, b} /\ a <= Channels!Max({a, b}) /\ b <= Channels!Max({a, b})
<1>1. \E x \in {a, b} : \A y \in {a, b} : x >= y
  OBVIOUS
<1>2. Channels!Max({a, b}) \in {a, b} /\ \A y \in {a, b} : Channels!Max({a, b}) >= y
  BY <1>1 DEF Channels!Max
<1>3. QED
  BY <1>2

LEMMA SmallerOf ==
    ASSUME NEW a \in Nat, NEW b \in Nat
    PROVE  Channels!Min({a, b}) = IF a <= b THEN a ELSE b
<1>1. \E x \in {a, b} : \A y \in {a, b} : x <= y
  OBVIOUS
<1>2. Channels!Min({a, b}) \in {a, b} /\ \A y \in {a, b} : Channels!Min({a, b}) <= y
  BY <1>1 DEF Channels!Min
<1>3. QED
  BY <1>2

(* No cooldown is longer than the longest, which the history reaches back to. *)
LEMMA LongestCooldown ==
    /\ Channels!MaxCooldown \in Nat \ {0} /\ Channels!MaxCooldown <= Window + 1
    /\ \A c \in Cooldowns : c \in Nat /\ c <= Channels!MaxCooldown
<1>1. \E c \in Cooldowns : \A d \in Cooldowns : c >= d
  BY ChannelsAssumption
<1>2. Channels!MaxCooldown \in Cooldowns /\ \A d \in Cooldowns : Channels!MaxCooldown >= d
  BY <1>1 DEF Channels!MaxCooldown, Channels!Max
<1>3. QED
  BY <1>2, ChannelsAssumption

(* What a bucket becomes when it is looked at. *)
LEMMA RefillFacts ==
    ASSUME NEW b \in Channels!Buckets
    PROVE  /\ Channels!Refilled(b) \in Channels!Buckets
           /\ Channels!Refilled(b).tokens =
                 IF Capacity <= b.tokens + (b.sinceRefill \div RefillInterval)
                 THEN Capacity ELSE b.tokens + (b.sinceRefill \div RefillInterval)
           /\ Channels!Refilled(b).sinceRefill = b.sinceRefill % RefillInterval
           /\ b.tokens \in 0..Capacity /\ b.sinceRefill \in Nat /\ b.sinceAcquired \in Nat
           /\ b # Channels!NoBucket
<1> USE ChannelsAssumption
<1>1. b.tokens \in 0..Capacity /\ b.sinceRefill \in Nat /\ b.sinceAcquired \in Nat
  BY DEF Channels!Buckets
<1>2. PICK q \in Nat : q = b.sinceRefill \div RefillInterval
  BY <1>1, Intervals
<1>3. PICK r \in Nat : r = b.sinceRefill % RefillInterval
  BY <1>1, Intervals
<1>4. PICK n : n = Channels!Min({Capacity, b.tokens + q})
  OBVIOUS
<1>5. n = (IF Capacity <= b.tokens + q THEN Capacity ELSE b.tokens + q) /\ n \in 0..Capacity
  BY <1>1, <1>2, <1>4, SmallerOf
<1>6. Channels!Refilled(b) = [b EXCEPT !.tokens = n, !.sinceRefill = r]
  BY <1>2, <1>3, <1>4 DEF Channels!Refilled
<1>7. [b EXCEPT !.tokens = n, !.sinceRefill = r]
         = [tokens |-> n, sinceRefill |-> r, sinceAcquired |-> b.sinceAcquired]
  <2>1. [b EXCEPT !.tokens = n, !.sinceRefill = r] = [[b EXCEPT !.tokens = n] EXCEPT !.sinceRefill = r]
    BY DEF Channels!Buckets
  <2>2. [b EXCEPT !.tokens = n]
           = [tokens |-> n, sinceRefill |-> b.sinceRefill, sinceAcquired |-> b.sinceAcquired]
    BY DEF Channels!Buckets
  <2>3. [[tokens |-> n, sinceRefill |-> b.sinceRefill, sinceAcquired |-> b.sinceAcquired]
            EXCEPT !.sinceRefill = r]
           = [tokens |-> n, sinceRefill |-> r, sinceAcquired |-> b.sinceAcquired]
    OBVIOUS
  <2>4. QED
    BY <2>1, <2>2, <2>3
<1>8. Channels!NoBucket.tokens = Capacity + 1
  BY DEF Channels!NoBucket
<1>9. b # Channels!NoBucket
  BY <1>1, <1>8
<1>10. QED
  BY <1>1, <1>2, <1>3, <1>5, <1>6, <1>7, <1>9 DEF Channels!Buckets

(* A bucket is worth less than one interval more than its capacity. *)
LEMMA CreditBounds ==
    ASSUME NEW b \in Channels!Buckets
    PROVE  Channels!Credit(b) \in Nat /\ Channels!Credit(b) < (Capacity + 1) * RefillInterval
<1> USE ChannelsAssumption
<1>1. PICK n \in 0..Capacity, r \in Nat :
         /\ r < RefillInterval
         /\ n = Channels!Refilled(b).tokens /\ r = Channels!Refilled(b).sinceRefill
  <2>1. Channels!Refilled(b).tokens \in 0..Capacity
    BY RefillFacts DEF Channels!Buckets
  <2>2. b.sinceRefill % RefillInterval \in Nat /\ (b.sinceRefill % RefillInterval) < RefillInterval
    BY RefillFacts, Intervals
  <2>3. QED
    BY <2>1, <2>2, RefillFacts
<1>2. Channels!Credit(b) = n * RefillInterval + r
  BY <1>1 DEF Channels!Credit
<1>3. PICK d \in Nat : Capacity = n + d
  <2>1. Capacity - n \in Nat /\ Capacity = n + (Capacity - n)
    BY <1>1
  <2>2. QED
    BY <2>1
<1>4. (Capacity + 1) * RefillInterval = n * RefillInterval + d * RefillInterval + RefillInterval
      /\ n * RefillInterval \in Nat /\ d * RefillInterval \in Nat
  BY <1>1, <1>3
<1>5. QED
  BY <1>1, <1>2, <1>4

(* A unit of time adds at most one to what a bucket is worth. *)
LEMMA CreditGrows ==
    ASSUME NEW b \in Channels!Buckets
    PROVE  /\ Channels!OlderBucket(b) \in Channels!Buckets
           /\ Channels!Credit(Channels!OlderBucket(b)) <= Channels!Credit(b) + 1
           /\ Channels!OlderBucket(b).sinceRefill < RefillInterval =>
                 Channels!OlderBucket(b).sinceRefill = b.sinceRefill + 1
           /\ Channels!OlderBucket(b).sinceAcquired < Channels!MaxCooldown =>
                 Channels!OlderBucket(b).sinceAcquired = b.sinceAcquired + 1
<1> USE ChannelsAssumption
<1> DEFINE R == RefillInterval
           t == b.tokens
           q == b.sinceRefill \div R
           r == b.sinceRefill % R
           old == Channels!OlderBucket(b)
<1>1. /\ t \in 0..Capacity /\ b.sinceRefill \in Nat /\ b.sinceAcquired \in Nat
      /\ q \in Nat /\ r \in Nat /\ r < R /\ b.sinceRefill = q * R + r /\ b # Channels!NoBucket
  BY RefillFacts, Intervals
<1>2. PICK since \in Nat :
         since = IF b.sinceRefill + 1 = (Capacity + 1) * R THEN Capacity * R ELSE b.sinceRefill + 1
  <2>1. Capacity * R \in Nat /\ b.sinceRefill + 1 \in Nat
    BY <1>1
  <2>2. QED
    BY <2>1
<1>3. PICK acquired \in Nat :
         /\ acquired = Channels!Min({Channels!MaxCooldown, b.sinceAcquired + 1})
         /\ acquired < Channels!MaxCooldown => acquired = b.sinceAcquired + 1
  BY <1>1, SmallerOf, LongestCooldown
<1>4. old = [tokens |-> t, sinceRefill |-> since, sinceAcquired |-> acquired]
  BY <1>1, <1>2, <1>3 DEF Channels!OlderBucket, Channels!Buckets
<1>5. old \in Channels!Buckets /\ old.tokens = t /\ old.sinceRefill = since /\ old.sinceAcquired = acquired
  BY <1>1, <1>4 DEF Channels!Buckets
<1>6. since < R => since = b.sinceRefill + 1
  <2>1. PICK d \in Nat : Capacity = d + 1
    OBVIOUS
  <2>2. Capacity * R = d * R + R /\ d * R \in Nat
    BY <2>1
  <2>3. QED
    BY <1>1, <1>2, <2>2
<1>7. PICK m \in Nat, n \in Nat :
         /\ m = (IF Capacity <= t + q THEN Capacity ELSE t + q)
         /\ n = (IF Capacity <= t + (since \div R) THEN Capacity ELSE t + (since \div R))
         /\ since \div R \in Nat /\ since % R \in Nat
  <2>1. since \div R \in Nat /\ since % R \in Nat
    BY <1>2, Intervals
  <2>2. PICK p \in Nat : p = since \div R
    BY <2>1
  <2>3. t + q \in Nat /\ t + p \in Nat
    BY <1>1, <2>2
  <2>4. QED
    BY <2>1, <2>2, <2>3
<1>8. /\ Channels!Credit(b) = m * R + r
      /\ Channels!Credit(old) = n * R + (since % R)
  BY <1>5, <1>7, RefillFacts DEF Channels!Credit
<1>9. n * R + (since % R) <= m * R + r + 1
  <2>1. IF r + 1 < R THEN (b.sinceRefill + 1) \div R = q /\ (b.sinceRefill + 1) % R = r + 1
                     ELSE (b.sinceRefill + 1) \div R = q + 1 /\ (b.sinceRefill + 1) % R = 0
    BY <1>1, NextUnit
  <2> HIDE DEF q, r, old
  <2>2. CASE b.sinceRefill + 1 = (Capacity + 1) * R
    <3>1. Capacity * R + 0 = since
      BY <1>2, <2>2
    <3>2. since \div R = Capacity /\ since % R = 0
      BY <3>1, OneWay
    <3>3. PICK next \in Nat, more \in Nat : next = b.sinceRefill + 1 /\ more = Capacity + 1
      BY <1>1
    <3>4. (b.sinceRefill + 1) \div R = Capacity + 1 /\ (b.sinceRefill + 1) % R = 0
      <4>1. more * R + 0 = next
        BY <2>2, <3>3
      <4>2. next \div R = more /\ next % R = 0
        BY <4>1, OneWay
      <4>3. QED
        BY <3>3, <4>2
    <3>5. q >= Capacity
      BY <1>1, <2>1, <3>4
    <3>6. m = Capacity /\ n = Capacity
      BY <1>1, <1>7, <3>2, <3>5
    <3>7. QED
      BY <1>1, <3>2, <3>6
  <2>3. CASE b.sinceRefill + 1 # (Capacity + 1) * R /\ r + 1 < R
    BY <1>1, <1>2, <1>7, <2>1, <2>3
  <2>4. CASE b.sinceRefill + 1 # (Capacity + 1) * R /\ ~(r + 1 < R)
    <3>1. since \div R = q + 1 /\ since % R = 0 /\ r + 1 = R
      BY <1>1, <1>2, <2>1, <2>4
    <3>2. n = m \/ n = m + 1
      BY <1>1, <1>7, <3>1
    <3>3. n * R = m * R \/ n * R = m * R + R
      BY <1>7, <3>2
    <3>4. m * R \in Nat
      BY <1>7
    <3>5. QED
      BY <1>1, <3>1, <3>3, <3>4
  <2>5. QED
    BY <2>2, <2>3, <2>4
<1>10. QED
  BY <1>3, <1>5, <1>6, <1>8, <1>9

(* An alert that passes costs an interval. *)
LEMMA CreditSpent ==
    ASSUME NEW b \in Channels!Buckets, Channels!Refilled(b).tokens >= 1
    PROVE  /\ Channels!Acquired(b) \in Channels!Buckets
           /\ Channels!Credit(Channels!Acquired(b)) + RefillInterval = Channels!Credit(b)
           /\ Channels!Acquired(b).sinceAcquired = 0
<1> USE ChannelsAssumption
<1>1. PICK n \in 1..Capacity, r \in Nat :
         /\ r < RefillInterval
         /\ n = Channels!Refilled(b).tokens /\ r = Channels!Refilled(b).sinceRefill
  <2>1. Channels!Refilled(b).tokens \in 1..Capacity
    BY RefillFacts DEF Channels!Buckets
  <2>2. b.sinceRefill % RefillInterval \in Nat /\ (b.sinceRefill % RefillInterval) < RefillInterval
    BY RefillFacts, Intervals
  <2>3. QED
    BY <2>1, <2>2, RefillFacts
<1>2. PICK after : after = [tokens |-> n - 1, sinceRefill |-> r, sinceAcquired |-> 0]
  OBVIOUS
<1>3. Channels!Acquired(b) = after
  <2>1. PICK full \in Channels!Buckets : full = Channels!Refilled(b)
    BY RefillFacts
  <2>2. Channels!Acquired(b) = [full EXCEPT !.tokens = @ - 1, !.sinceAcquired = 0]
    BY <2>1, RefillFacts DEF Channels!Acquired
  <2>3. [full EXCEPT !.tokens = @ - 1, !.sinceAcquired = 0]
           = [[full EXCEPT !.tokens = n - 1] EXCEPT !.sinceAcquired = 0]
    BY <1>1, <2>1 DEF Channels!Buckets
  <2>4. [full EXCEPT !.tokens = n - 1]
           = [tokens |-> n - 1, sinceRefill |-> r, sinceAcquired |-> full.sinceAcquired]
    BY <1>1, <2>1 DEF Channels!Buckets
  <2>5. QED
    BY <1>2, <2>2, <2>3, <2>4
<1>4. after \in Channels!Buckets /\ after.tokens = n - 1 /\ after.sinceRefill = r /\ after.sinceAcquired = 0
  BY <1>1, <1>2 DEF Channels!Buckets
<1>5. r \div RefillInterval = 0 /\ r % RefillInterval = r
  <2>1. 0 * RefillInterval + r = r
    BY <1>1
  <2>2. QED
    BY <1>1, <2>1, OneWay
<1>6. Channels!Refilled(after).tokens = n - 1 /\ Channels!Refilled(after).sinceRefill = r
  BY <1>1, <1>4, <1>5, RefillFacts
<1>7. Channels!Credit(after) = (n - 1) * RefillInterval + r
      /\ Channels!Credit(b) = n * RefillInterval + r
  BY <1>1, <1>6 DEF Channels!Credit
<1>8. (n - 1) * RefillInterval + RefillInterval = n * RefillInterval
  BY <1>1
<1>9. QED
  BY <1>1, <1>3, <1>4, <1>7, <1>8

-------------------------------------------------------------------------------
(* The alerts of a span *)

(* The alerts of a span are finitely many; a unit later they are within one more unit. *)
LEMMA SpansAreFinite ==
    ASSUME NEW S \in SUBSET (0..Window), NEW span
    PROVE  IsFiniteSet({a \in S : a <= span}) /\ Cardinality({a \in S : a <= span}) \in Nat
<1>1. PICK T \in SUBSET (0..Window) : T = {a \in S : a <= span}
  OBVIOUS
<1>2. IsFiniteSet(0..Window)
  BY ChannelsAssumption, FS_Interval
<1>3. IsFiniteSet(T) /\ Cardinality(T) \in Nat
  BY <1>2, FS_Subset, FS_CardinalityType
<1>4. QED
  BY <1>1, <1>3

LEMMA SpansMoveOn ==
    ASSUME NEW S \in SUBSET (0..Window), NEW span \in Nat
    PROVE  Cardinality({a \in {x + 1 : x \in S} \cap 0..Window : a <= span + 1})
               <= Cardinality({a \in S : a <= span})
<1> DEFINE now_ == {a \in {x + 1 : x \in S} \cap 0..Window : a <= span + 1}
           before == {a \in S : a <= span}
           f == [a \in now_ |-> a - 1]
<1>1. \A a \in now_ : a - 1 \in before /\ a \in Nat
  BY ChannelsAssumption
<1>2. IsFiniteSet(before)
  BY SpansAreFinite
<1> HIDE DEF now_, before
<1>3. f \in Injection(now_, before)
  BY <1>1 DEF Injection, IsInjective
<1>4. Cardinality(now_) <= Cardinality(before)
  BY <1>2, <1>3, FS_Injection
<1>5. QED
  BY <1>4 DEF now_, before

(* One more alert is one more in any span. *)
LEMMA SpansGrow ==
    ASSUME NEW S \in SUBSET (0..Window), NEW span
    PROVE  Cardinality({a \in S \union {0} : a <= span}) <= Cardinality({a \in S : a <= span}) + 1
<1>1. {a \in S \union {0} : a <= span} = {a \in S : a <= span}
      \/ {a \in S \union {0} : a <= span} = {a \in S : a <= span} \union {0}
  OBVIOUS
<1>2. IsFiniteSet({a \in S : a <= span}) /\ Cardinality({a \in S : a <= span}) \in Nat
  BY SpansAreFinite
<1>3. Cardinality({a \in S : a <= span} \union {0}) <= Cardinality({a \in S : a <= span}) + 1
  BY <1>2, FS_AddElement
<1>4. QED
  BY <1>1, <1>2, <1>3

(* One bucket and the history of its key, as LimiterInv relates them. *)
Paid(b, S) ==
    /\ b \in Channels!Buckets \union {Channels!NoBucket} /\ S \in SUBSET (0..Window)
    /\ \A span \in 0..Window :
          IF b = Channels!NoBucket THEN S = {}
          ELSE Cardinality({a \in S : a <= span}) * RefillInterval + Channels!Credit(b)
                   < (Capacity + 1) * RefillInterval + span
    /\ b # Channels!NoBucket =>
          /\ b.sinceAcquired < Channels!MaxCooldown => b.sinceAcquired \in S
          /\ b.sinceRefill < RefillInterval => \E a \in S : a <= b.sinceRefill

(* What was paid for stays so as time goes by: every span has grown by a unit. *)
LEMMA PaidLater ==
    ASSUME NEW b, NEW S, Paid(b, S)
    PROVE  Paid(Channels!OlderBucket(b), {a + 1 : a \in S} \cap 0..Window)
<1> USE ChannelsAssumption
<1> DEFINE T == {a + 1 : a \in S} \cap 0..Window
           old == Channels!OlderBucket(b)
<1>0. b \in Channels!Buckets \union {Channels!NoBucket} /\ S \in SUBSET (0..Window)
      /\ T \in SUBSET (0..Window)
  BY DEF Paid
<1>1. CASE b = Channels!NoBucket
  <2>1. S = {} /\ old = b
    BY <1>1 DEF Paid, Channels!OlderBucket
  <2>2. T = {}
    BY <2>1
  <2> HIDE DEF T, old
  <2>3. QED
    BY <1>1, <2>1, <2>2 DEF Paid, T, old
<1>2. CASE b # Channels!NoBucket
  <2>1. b \in Channels!Buckets
    BY <1>0, <1>2
  <2>2. /\ old \in Channels!Buckets /\ old # Channels!NoBucket
        /\ Channels!Credit(old) <= Channels!Credit(b) + 1
        /\ Channels!Credit(old) \in Nat /\ Channels!Credit(b) \in Nat
        /\ Channels!Credit(old) < (Capacity + 1) * RefillInterval
        /\ old.sinceRefill < RefillInterval => old.sinceRefill = b.sinceRefill + 1
        /\ old.sinceAcquired < Channels!MaxCooldown => old.sinceAcquired = b.sinceAcquired + 1
        /\ b.sinceRefill \in Nat /\ b.sinceAcquired \in Nat
    BY <2>1, CreditGrows, CreditBounds, RefillFacts
  <2> HIDE DEF old
  <2>3. ASSUME NEW span \in 0..Window
        PROVE  Cardinality({a \in T : a <= span}) * RefillInterval + Channels!Credit(old)
                   < (Capacity + 1) * RefillInterval + span
    <3>1. CASE span = 0
      <4>1. {a \in T : a <= span} = {}
        BY <1>0, <3>1
      <4>2. Cardinality({a \in T : a <= span}) = 0
        BY <4>1, FS_EmptySet
      <4>3. QED
        BY <2>2, <3>1, <4>2
    <3>2. CASE span # 0
      <4>1. PICK less \in 0..Window : span = less + 1
        <5>1. span - 1 \in 0..Window /\ span = (span - 1) + 1
          BY <3>2
        <5>2. QED
          BY <5>1
      <4>2. PICK n \in Nat : n = Cardinality({a \in S : a <= less})
        BY <1>0, SpansAreFinite
      <4>3. PICK m \in Nat : m = Cardinality({a \in T : a <= span})
        BY <1>0, SpansAreFinite
      <4>4. m <= n
        BY <1>0, <4>1, <4>2, <4>3, SpansMoveOn
      <4>5. n * RefillInterval + Channels!Credit(b) < (Capacity + 1) * RefillInterval + less
        BY <1>2, <4>2 DEF Paid
      <4>6. m * RefillInterval <= n * RefillInterval /\ m * RefillInterval \in Nat
            /\ n * RefillInterval \in Nat /\ (Capacity + 1) * RefillInterval \in Nat
        <5>1. PICK d \in Nat : n = m + d
          <6>1. n - m \in Nat /\ n = m + (n - m)
            BY <4>4
          <6>2. QED
            BY <6>1
        <5>2. n * RefillInterval = m * RefillInterval + d * RefillInterval
              /\ d * RefillInterval \in Nat /\ m * RefillInterval \in Nat
          BY <5>1
        <5>3. QED
          BY <5>2
      <4>7. QED
        BY <2>2, <4>1, <4>3, <4>5, <4>6
    <3>3. QED
      BY <3>1, <3>2
  <2>4. old.sinceAcquired < Channels!MaxCooldown => old.sinceAcquired \in T
    <3>1. SUFFICES ASSUME old.sinceAcquired < Channels!MaxCooldown
                   PROVE  old.sinceAcquired \in T
      OBVIOUS
    <3>2. b.sinceAcquired < Channels!MaxCooldown /\ old.sinceAcquired <= Window
      BY <2>2, <3>1, LongestCooldown
    <3>3. b.sinceAcquired \in S
      BY <1>2, <3>2 DEF Paid
    <3>4. QED
      BY <2>2, <3>1, <3>2, <3>3
  <2>5. old.sinceRefill < RefillInterval => \E a \in T : a <= old.sinceRefill
    <3>1. SUFFICES ASSUME old.sinceRefill < RefillInterval
                   PROVE  \E a \in T : a <= old.sinceRefill
      OBVIOUS
    <3>2. old.sinceRefill = b.sinceRefill + 1 /\ b.sinceRefill < RefillInterval
          /\ old.sinceRefill <= Window
      BY <2>2, <3>1
    <3>3. PICK a \in S : a <= b.sinceRefill
      BY <1>2, <3>2 DEF Paid
    <3>4. a + 1 \in T /\ a + 1 <= old.sinceRefill
      BY <1>0, <2>2, <3>2, <3>3
    <3>5. QED
      BY <3>4
  <2> HIDE DEF T
  <2>6. Paid(old, T)
    BY <1>0, <2>2, <2>3, <2>4, <2>5 DEF Paid
  <2>7. QED
    BY <2>6 DEF old, T
<1>3. QED
  BY <1>1, <1>2

(* An alert that passes is paid for by the interval its bucket loses. *)
LEMMA PaidOnceMore ==
    ASSUME NEW b, NEW S, Paid(b, S),
           b = Channels!NoBucket \/ Channels!Refilled(b).tokens >= 1
    PROVE  Paid(Channels!Acquired(b), S \union {0})
<1> USE ChannelsAssumption
<1> DEFINE T == S \union {0}
           new == Channels!Acquired(b)
<1>0. b \in Channels!Buckets \union {Channels!NoBucket} /\ S \in SUBSET (0..Window)
      /\ T \in SUBSET (0..Window)
  BY DEF Paid
<1>1. /\ new \in Channels!Buckets /\ new # Channels!NoBucket /\ new.sinceAcquired = 0
      /\ Channels!Credit(new) \in Nat
      /\ new.sinceRefill \in Nat
      /\ \A span \in 0..Window :
            Cardinality({a \in S : a <= span}) * RefillInterval + Channels!Credit(new) + RefillInterval
                < (Capacity + 1) * RefillInterval + span
  <2>1. CASE b = Channels!NoBucket
    <3>1. new = [tokens |-> Capacity - 1, sinceRefill |-> 0, sinceAcquired |-> 0]
      BY <2>1 DEF Channels!Acquired
    <3>2. new \in Channels!Buckets /\ new.tokens = Capacity - 1 /\ new.sinceRefill = 0
          /\ new.sinceAcquired = 0
      BY <3>1 DEF Channels!Buckets
    <3>3. 0 \div RefillInterval = 0 /\ 0 % RefillInterval = 0
      <4>1. 0 * RefillInterval + 0 = 0
        OBVIOUS
      <4>2. QED
        BY <4>1, OneWay
    <3>4. Channels!Refilled(new).tokens = Capacity - 1 /\ Channels!Refilled(new).sinceRefill = 0
      BY <3>2, <3>3, RefillFacts
    <3>5. Channels!Credit(new) = (Capacity - 1) * RefillInterval + 0
      BY <3>4 DEF Channels!Credit
    <3>6. (Capacity + 1) * RefillInterval
              = (Capacity - 1) * RefillInterval + RefillInterval + RefillInterval
          /\ (Capacity - 1) * RefillInterval \in Nat
      OBVIOUS
    <3>7. \A span \in 0..Window : Cardinality({a \in S : a <= span}) = 0
      <4>1. S = {}
        BY <2>1 DEF Paid
      <4>2. \A span \in 0..Window : {a \in S : a <= span} = {}
        BY <4>1
      <4>3. QED
        BY <4>2, FS_EmptySet
    <3>8. QED
      BY <3>2, <3>5, <3>6, <3>7, RefillFacts
  <2>2. CASE b # Channels!NoBucket
    <3>1. b \in Channels!Buckets
      BY <1>0, <2>2
    <3>2. /\ new \in Channels!Buckets /\ new.sinceAcquired = 0
          /\ Channels!Credit(new) + RefillInterval = Channels!Credit(b)
      BY <2>2, <3>1, CreditSpent
    <3>3. Channels!Credit(new) \in Nat /\ new # Channels!NoBucket /\ new.sinceRefill \in Nat
      BY <3>2, CreditBounds, RefillFacts
    <3>4. ASSUME NEW span \in 0..Window
          PROVE  Cardinality({a \in S : a <= span}) * RefillInterval + Channels!Credit(new) + RefillInterval
                    < (Capacity + 1) * RefillInterval + span
      <4>1. PICK n \in Nat : n = Cardinality({a \in S : a <= span})
        BY <1>0, SpansAreFinite
      <4>2. n * RefillInterval + Channels!Credit(b) < (Capacity + 1) * RefillInterval + span
        BY <2>2, <4>1 DEF Paid
      <4>3. n * RefillInterval \in Nat
        BY <4>1
      <4>4. QED
        BY <3>2, <3>3, <4>1, <4>2, <4>3
    <3>5. QED
      BY <3>2, <3>3, <3>4
  <2>3. QED
    BY <2>1, <2>2
<1>2. ASSUME NEW span \in 0..Window
      PROVE  Cardinality({a \in T : a <= span}) * RefillInterval + Channels!Credit(new)
                 < (Capacity + 1) * RefillInterval + span
  <2>1. PICK n \in Nat, m \in Nat :
           n = Cardinality({a \in S : a <= span}) /\ m = Cardinality({a \in T : a <= span})
    BY <1>0, SpansAreFinite
  <2>2. m <= n + 1
    BY <1>0, <2>1, SpansGrow
  <2>3. m * RefillInterval <= n * RefillInterval + RefillInterval
        /\ m * RefillInterval \in Nat /\ n * RefillInterval \in Nat
        /\ (Capacity + 1) * RefillInterval \in Nat
    <3>1. PICK d \in Nat : n + 1 = m + d
      <4>1. n + 1 - m \in Nat /\ n + 1 = m + (n + 1 - m)
        BY <2>1, <2>2
      <4>2. QED
        BY <4>1
    <3>2. (n + 1) * RefillInterval = m * RefillInterval + d * RefillInterval
          /\ (n + 1) * RefillInterval = n * RefillInterval + RefillInterval
          /\ d * RefillInterval \in Nat /\ m * RefillInterval \in Nat /\ n * RefillInterval \in Nat
      <4>1. (m + d) * RefillInterval = m * RefillInterval + d * RefillInterval
        OBVIOUS
      <4>2. (n + 1) * RefillInterval = n * RefillInterval + RefillInterval
        OBVIOUS
      <4>3. QED
        BY <3>1, <4>1, <4>2
    <3>3. QED
      BY <3>2
  <2>4. n * RefillInterval + Channels!Credit(new) + RefillInterval
            < (Capacity + 1) * RefillInterval + span
    BY <1>1, <2>1
  <2> HIDE DEF new
  <2>5. Channels!Credit(new) \in Nat
    BY <1>1
  <2>6. QED
    BY <2>1, <2>3, <2>4, <2>5
<1>3. 0 \in T
  OBVIOUS
<1> HIDE DEF T, new
<1>4. Paid(new, T)
  BY <1>0, <1>1, <1>2, <1>3 DEF Paid
<1>5. QED
  BY <1>4 DEF new, T

-------------------------------------------------------------------------------
(* The limiter *)

LEMMA LimiterStart == Channels!Init => Channels!LimiterInv
<1> SUFFICES ASSUME Channels!Init PROVE Channels!LimiterInv
  OBVIOUS
<1>1. /\ bucket = [k \in Channels!Keys |-> Channels!NoBucket]
      /\ sent = [k \in Channels!Keys |-> {}]
  BY DEF Channels!Init
<1>2. Channels!HistoryIsPaid /\ Channels!LastIsRemembered
  BY <1>1 DEF Channels!HistoryIsPaid, Channels!LastIsRemembered
<1>3. QED
  BY <1>1, <1>2 DEF Channels!LimiterInv

(* Only the clock and the alerts that ask for a token touch buckets and history. *)
LEMMA LimiterStep ==
    ASSUME Channels!LimiterInv, [Channels!Next]_channelsVars
    PROVE  Channels!LimiterInv'
<1>1. /\ bucket \in [Channels!Keys -> Channels!Buckets \union {Channels!NoBucket}]
      /\ sent \in [Channels!Keys -> SUBSET (0..Window)]
      /\ \A k \in Channels!Keys : Paid(bucket[k], sent[k])
  BY AlertSizes DEF Channels!LimiterInv, Channels!HistoryIsPaid, Channels!LastIsRemembered,
     Channels!Within, Paid
(* The invariant holds if it does of every key. *)
<1>2. ASSUME DOMAIN bucket' = Channels!Keys, DOMAIN sent' = Channels!Keys,
             bucket' = [k \in Channels!Keys |-> bucket'[k]],
             sent' = [k \in Channels!Keys |-> sent'[k]],
             \A k \in Channels!Keys : Paid(bucket'[k], sent'[k])
      PROVE  Channels!LimiterInv'
  <2>1. \A k \in Channels!Keys :
           /\ bucket'[k] \in Channels!Buckets \union {Channels!NoBucket}
           /\ sent'[k] \in SUBSET (0..Window)
    BY <1>2 DEF Paid
  <2>2. /\ bucket' \in [Channels!Keys -> Channels!Buckets \union {Channels!NoBucket}]
        /\ sent' \in [Channels!Keys -> SUBSET (0..Window)]
    BY <1>2, <2>1
  <2>3. Channels!HistoryIsPaid'
    BY <1>2, AlertSizes DEF Channels!HistoryIsPaid, Channels!Within, Paid
  <2>4. Channels!LastIsRemembered'
    BY <1>2 DEF Channels!LastIsRemembered, Paid
  <2>5. QED
    BY <2>2, <2>3, <2>4 DEF Channels!LimiterInv
<1>3. ASSUME UNCHANGED <<bucket, sent>>
      PROVE  Channels!LimiterInv'
  BY <1>1, <1>2, <1>3
<1>4. CASE Channels!Tick
  <2>1. /\ bucket' = [k \in Channels!Keys |-> Channels!OlderBucket(bucket[k])]
        /\ sent' = [k \in Channels!Keys |-> {a + 1 : a \in sent[k]} \cap 0..Window]
    BY <1>4 DEF Channels!Tick
  <2>2. \A k \in Channels!Keys :
           Paid(Channels!OlderBucket(bucket[k]), {a + 1 : a \in sent[k]} \cap 0..Window)
    BY <1>1, PaidLater
  <2>3. \A k \in Channels!Keys : Paid(bucket'[k], sent'[k])
    BY <2>1, <2>2
  <2>4. QED
    BY <1>2, <2>1, <2>3
<1>5. ASSUME NEW key, NEW cooldown, NEW allowed \in BOOLEAN,
             Channels!TryAcquire(key, cooldown, allowed)
      PROVE  Channels!LimiterInv'
  <2>1. CASE ~allowed
    BY <1>3, <1>5, <2>1 DEF Channels!TryAcquire
  <2>2. CASE allowed
    <3>1. /\ bucket' = [bucket EXCEPT ![key] = Channels!Acquired(bucket[key])]
          /\ sent' = [sent EXCEPT ![key] = sent[key] \union {0}]
          /\ Channels!Allowed(bucket[key], cooldown)
      BY <1>5, <2>2 DEF Channels!TryAcquire
    <3>2. bucket[key] = Channels!NoBucket \/ Channels!Refilled(bucket[key]).tokens >= 1
      BY <3>1 DEF Channels!Allowed
    <3>3. key \in Channels!Keys => Paid(Channels!Acquired(bucket[key]), sent[key] \union {0})
      BY <1>1, <1>5, <3>2, PaidOnceMore
    <3>4. \A k \in Channels!Keys :
             /\ bucket'[k] = IF k = key THEN Channels!Acquired(bucket[key]) ELSE bucket[k]
             /\ sent'[k] = IF k = key THEN sent[key] \union {0} ELSE sent[k]
      BY <1>1, <3>1
    <3>5. \A k \in Channels!Keys : Paid(bucket'[k], sent'[k])
      BY <1>1, <3>3, <3>4
    <3>6. /\ DOMAIN bucket' = Channels!Keys /\ bucket' = [k \in Channels!Keys |-> bucket'[k]]
          /\ DOMAIN sent' = Channels!Keys /\ sent' = [k \in Channels!Keys |-> sent'[k]]
      BY <1>1, <3>1
    <3>7. QED
      BY <1>2, <3>5, <3>6
  <2>3. QED
    BY <2>1, <2>2
<1>6. CASE UNCHANGED channelsVars
  BY <1>3, <1>6 DEF channelsVars
<1>7. ASSUME NEW h \in AlertHandlers, NEW kind \in Alerts, Channels!Broadcast(h, kind)
      PROVE  Channels!LimiterInv'
  BY <1>3, <1>5, <1>7 DEF Channels!Broadcast, Channels!SmtpHandle, Channels!limiterVars
<1>8. ASSUME NEW h \in AlertHandlers, Channels!HandleEvent(h)
      PROVE  Channels!LimiterInv'
  <2> DEFINE config == Channels!CurrentConfig
             key == Channels!CooldownKey("whatsapp", handler[h].kind)
  <2>1. \/ UNCHANGED <<bucket, sent>>
        \/ Channels!TryAcquire(key, config.cooldown, TRUE)
        \/ Channels!TryAcquire(key, config.cooldown, FALSE)
    BY <1>8 DEF Channels!HandleEvent, Channels!limiterVars
  <2>2. CASE UNCHANGED <<bucket, sent>>
    BY <1>3, <2>2
  <2>3. CASE Channels!TryAcquire(key, config.cooldown, TRUE)
    BY <1>5, <2>3
  <2>4. CASE Channels!TryAcquire(key, config.cooldown, FALSE)
    BY <1>5, <2>4
  <2>5. QED
    BY <2>1, <2>2, <2>3, <2>4
<1>9. ASSUME NEW h \in AlertHandlers, Channels!HandleEventFails(h) \/ Channels!SendEnds(h)
      PROVE  Channels!LimiterInv'
  BY <1>3, <1>9 DEF Channels!HandleEventFails, Channels!SendEnds, Channels!limiterVars
<1>10. ASSUME NEW a \in Admins, NEW p \in Providers, NEW c \in Cooldowns, NEW e \in BOOLEAN, NEW input,
              Channels!UpdateRead(a, p, c, e, input)
       PROVE  Channels!LimiterInv'
  BY <1>3, <1>10 DEF Channels!UpdateRead, Channels!limiterVars
<1>11. ASSUME NEW a \in Admins,
              Channels!UpdateFind(a) \/ Channels!UpdateWrite(a) \/ Channels!UpdateFails(a)
       PROVE  Channels!LimiterInv'
  BY <1>3, <1>11 DEF Channels!UpdateFind, Channels!UpdateWrite, Channels!UpdateFails,
     Channels!limiterVars
<1>12. ASSUME NEW c, Channels!SmtpUpdate(c) \/ Channels!GetConfig
       PROVE  Channels!LimiterInv'
  BY <1>3, <1>12 DEF Channels!SmtpUpdate, Channels!GetConfig, Channels!limiterVars
<1>13. QED
  BY <1>4, <1>6, <1>7, <1>8, <1>9, <1>10, <1>11, <1>12 DEF Channels!Next

-------------------------------------------------------------------------------
(* The credentials *)

(* Masked credentials never reach a row, if an update carries credentials. *)
LEMMA CredentialsStart == Channels!Init => Channels!CredentialsInv
<1> SUFFICES ASSUME Channels!Init PROVE Channels!CredentialsInv
  OBVIOUS
<1>1. settings = <<>> \/ \E c \in Channels!Configs :
         c.credentials = c.provider /\ settings = <<c>>
  BY DEF Channels!Init
<1>2. \A c \in Channels!Configs : c.provider \in Providers /\ "mask" \notin Providers
  BY ChannelsAssumption DEF Channels!Configs
<1>3. settings \in Seq(Channels!Unmasked)
  <2>1. CASE settings = <<>>
    BY <2>1
  <2>2. CASE settings # <<>>
    <3>1. PICK c \in Channels!Configs : c.credentials = c.provider /\ settings = <<c>>
      BY <1>1, <2>2
    <3>2. c \in Channels!Unmasked
      BY <1>2, <3>1 DEF Channels!Unmasked
    <3>3. QED
      BY <3>1, <3>2
  <2>3. QED
    BY <2>1, <2>2
<1>4. update = [a \in Admins |-> Channels!Idle]
  BY DEF Channels!Init
<1>5. QED
  BY <1>3, <1>4 DEF Channels!CredentialsInv

(* An update reads the credentials of a row, or of none, and writes what it made of them. *)
LEMMA CredentialsStep ==
    ASSUME ~PartialUpdates, Channels!CredentialsInv, [Channels!Next]_channelsVars
    PROVE  Channels!CredentialsInv'
<1> DEFINE Requests == [at : {"find", "create"}, config : Channels!Unmasked] \union {Channels!Idle}
                       \union [at : {"update"}, row : Nat, config : Channels!Unmasked]
<1>1. settings \in Seq(Channels!Unmasked) /\ update \in [Admins -> Requests]
  BY DEF Channels!CredentialsInv
<1>2. ASSUME settings' \in Seq(Channels!Unmasked), update' \in [Admins -> Requests]
      PROVE  Channels!CredentialsInv'
  BY <1>2 DEF Channels!CredentialsInv
<1>3. ASSUME UNCHANGED <<settings, update>>
      PROVE  Channels!CredentialsInv'
  BY <1>1, <1>2, <1>3
<1> HIDE DEF Requests
<1>4. Channels!Idle.at = "idle" /\ Channels!Idle \in Requests
  BY DEF Channels!Idle, Requests
<1>5. CASE UNCHANGED channelsVars \/ Channels!Tick
  BY <1>3, <1>5 DEF channelsVars, Channels!Tick, Channels!settingsVars
<1>6. ASSUME NEW h \in AlertHandlers, NEW kind \in Alerts, Channels!Broadcast(h, kind)
      PROVE  Channels!CredentialsInv'
  BY <1>3, <1>6 DEF Channels!Broadcast, Channels!settingsVars
<1>7. ASSUME NEW h \in AlertHandlers,
             Channels!HandleEvent(h) \/ Channels!HandleEventFails(h) \/ Channels!SendEnds(h)
      PROVE  Channels!CredentialsInv'
  BY <1>3, <1>7 DEF Channels!HandleEvent, Channels!HandleEventFails, Channels!SendEnds,
     Channels!settingsVars
<1>8. ASSUME NEW a \in Admins, NEW p \in Providers, NEW c \in Cooldowns, NEW e \in BOOLEAN,
             NEW input, Channels!UpdateRead(a, p, c, e, input)
      PROVE  Channels!CredentialsInv'
  <2>1. PICK stored : stored = Channels!CurrentConfig.credentials
    OBVIOUS
  <2>2. stored \in Providers \union {"none"}
    <3>1. CASE settings = <<>>
      BY <2>1, <3>1 DEF Channels!CurrentConfig, Channels!Default
    <3>2. CASE settings # <<>>
      <4>1. settings[Len(settings)] \in Channels!Unmasked
        BY <1>1, <3>2
      <4>2. QED
        BY <2>1, <3>2, <4>1 DEF Channels!CurrentConfig, Channels!Unmasked, Channels!Configs
    <3>3. QED
      BY <3>1, <3>2
  <2>3. PICK new : new = Channels!NewCredentials(stored, input)
    OBVIOUS
  <2>4. input \in {p, "none", "mask"}
    BY <1>8 DEF Channels!UpdateRead, Channels!CredentialInputs
  <2>5. "leftOut" # input /\ "mask" \notin Providers
    BY <2>4, ChannelsAssumption
  <2>6. new \in Providers \union {"none"}
    <3>1. CASE input = "mask"
      <4>1. new = stored
        BY <2>3, <3>1 DEF Channels!NewCredentials
      <4>2. QED
        BY <2>2, <4>1
    <3>2. CASE input # "mask"
      <4>1. new = input
        BY <2>3, <2>5, <3>2 DEF Channels!NewCredentials
      <4>2. QED
        BY <2>4, <3>2, <4>1
    <3>3. QED
      BY <3>1, <3>2
  <2>7. PICK config : config = [provider |-> p, cooldown |-> c, enabled |-> e, credentials |-> new]
    OBVIOUS
  <2>8. config \in Channels!Unmasked
    BY <2>5, <2>6, <2>7 DEF Channels!Unmasked, Channels!Configs
  <2>9. PICK q : q = [at |-> "find", config |-> config]
    OBVIOUS
  <2>10. q \in Requests
    BY <2>8, <2>9 DEF Requests
  <2>11. update' = [update EXCEPT ![a] = q] /\ settings' = settings
    BY <1>8, <2>1, <2>3, <2>7, <2>9 DEF Channels!UpdateRead
  <2>12. QED
    BY <1>1, <1>2, <2>10, <2>11
<1>9. ASSUME NEW a \in Admins, Channels!UpdateFind(a)
      PROVE  Channels!CredentialsInv'
  <2>1. update[a].at = "find" /\ settings' = settings
    BY <1>9 DEF Channels!UpdateFind
  <2>2. update[a] \in [at : {"find", "create"}, config : Channels!Unmasked]
    BY <1>1, <1>4, <2>1 DEF Requests
  <2>3. \/ update' = [update EXCEPT ![a].at = "create"]
        \/ \E i \in DOMAIN settings :
              update' = [update EXCEPT ![a] = [at |-> "update", row |-> i, config |-> @.config]]
    BY <1>9 DEF Channels!UpdateFind
  <2>4. CASE update' = [update EXCEPT ![a].at = "create"]
    <3>1. PICK q : q = [update[a] EXCEPT !.at = "create"]
      OBVIOUS
    <3>2. q \in Requests
      BY <2>2, <3>1 DEF Requests
    <3>3. update' = [update EXCEPT ![a] = q]
      BY <2>4, <3>1
    <3>4. QED
      BY <1>1, <1>2, <2>1, <3>2, <3>3
  <2>5. ASSUME NEW i \in DOMAIN settings,
               update' = [update EXCEPT ![a] = [at |-> "update", row |-> i, config |-> @.config]]
        PROVE  Channels!CredentialsInv'
    <3>1. PICK q : q = [at |-> "update", row |-> i, config |-> update[a].config]
      OBVIOUS
    <3>2. i \in Nat
      BY <1>1
    <3>3. q \in Requests
      BY <2>2, <3>1, <3>2 DEF Requests
    <3>4. update' = [update EXCEPT ![a] = q]
      BY <2>5, <3>1
    <3>5. QED
      BY <1>1, <1>2, <2>1, <3>3, <3>4
  <2>6. QED
    BY <2>3, <2>4, <2>5
<1>10. ASSUME NEW a \in Admins, Channels!UpdateWrite(a)
       PROVE  Channels!CredentialsInv'
  <2>1. update[a].at \in {"update", "create"}
    BY <1>10 DEF Channels!UpdateWrite
  <2>2. update[a].config \in Channels!Unmasked
    BY <1>1, <1>4, <2>1 DEF Requests
  <2>3. PICK config \in Channels!Unmasked : config = update[a].config
    BY <2>2
  <2>4. \/ settings' = Append(settings, config)
        \/ settings' = [settings EXCEPT ![update[a].row] = config]
    BY <1>10, <2>3 DEF Channels!UpdateWrite
  <2>5. settings' \in Seq(Channels!Unmasked)
    BY <1>1, <2>4
  <2>6. update' = [update EXCEPT ![a] = Channels!Idle]
    BY <1>10 DEF Channels!UpdateWrite
  <2>7. QED
    BY <1>1, <1>2, <1>4, <2>5, <2>6
<1>11. ASSUME NEW a \in Admins, Channels!UpdateFails(a)
       PROVE  Channels!CredentialsInv'
  <2>1. update' = [update EXCEPT ![a] = Channels!Idle] /\ settings' = settings
    BY <1>11 DEF Channels!UpdateFails
  <2>2. QED
    BY <1>1, <1>2, <1>4, <2>1
<1>12. ASSUME NEW c, Channels!SmtpUpdate(c) \/ Channels!GetConfig
       PROVE  Channels!CredentialsInv'
  BY <1>3, <1>12 DEF Channels!SmtpUpdate, Channels!GetConfig
<1>13. QED
  BY <1>5, <1>6, <1>7, <1>8, <1>9, <1>10, <1>11, <1>12 DEF Channels!Next

-------------------------------------------------------------------------------
(* What the invariants say *)

(* What the history of a key and the worth of its bucket say of the alerts that passed. *)
LEMMA PaidIsExact ==
    ASSUME NEW b, NEW S, Paid(b, S)
    PROVE  /\ \A span \in 0..Window :
                 Cardinality({a \in S : a <= span})
                     <= Capacity + (span + RefillInterval - 1) \div RefillInterval
           /\ \A cooldown \in Cooldowns : ~Channels!Allowed(b, cooldown) =>
                 \E a \in S : a < Channels!Max({cooldown, RefillInterval})
<1> USE ChannelsAssumption
<1> DEFINE R == RefillInterval
<1>0. b \in Channels!Buckets \union {Channels!NoBucket} /\ S \in SUBSET (0..Window)
  BY DEF Paid
<1>1. ASSUME NEW span \in 0..Window
      PROVE  Cardinality({a \in S : a <= span}) <= Capacity + (span + R - 1) \div R
  <2>1. PICK n \in Nat : n = Cardinality({a \in S : a <= span})
    BY <1>0, SpansAreFinite
  <2>2. PICK whole \in Nat : whole = span + R - 1
    OBVIOUS
  <2>3. PICK m \in Nat, r \in Nat : m = whole \div R /\ r < R /\ whole = m * R + r
    BY <2>2, Intervals
  <2>4. CASE b = Channels!NoBucket
    <3>1. {a \in S : a <= span} = {}
      BY <2>4 DEF Paid
    <3>2. n = 0
      BY <2>1, <3>1, FS_EmptySet
    <3>3. QED
      BY <2>1, <2>2, <2>3, <3>2
  <2>5. CASE b # Channels!NoBucket
    <3>1. n * R + Channels!Credit(b) < (Capacity + 1) * R + span
      BY <2>1, <2>5 DEF Paid
    <3>2. Channels!Credit(b) \in Nat
      BY <1>0, <2>5, CreditBounds
    <3>3. n * R < (Capacity + 1) * R + span
      <4>1. n * R \in Nat /\ (Capacity + 1) * R \in Nat
        OBVIOUS
      <4>2. QED
        BY <3>1, <3>2, <4>1
    <3>4. n <= Capacity + m
      <4>1. SUFFICES ASSUME n > Capacity + m PROVE FALSE
        OBVIOUS
      <4>2. PICK d \in Nat : n = Capacity + m + 1 + d
        <5>1. n - (Capacity + m + 1) \in Nat /\ n = Capacity + m + 1 + (n - (Capacity + m + 1))
          BY <4>1
        <5>2. QED
          BY <5>1
      <4>3. n * R = Capacity * R + m * R + R + d * R
        <5>1. (Capacity + m + 1 + d) * R = Capacity * R + m * R + R + d * R
          OBVIOUS
        <5>2. QED
          BY <4>2, <5>1
      <4>4. (Capacity + 1) * R = Capacity * R + R
        OBVIOUS
      <4>5. Capacity * R \in Nat /\ m * R \in Nat /\ d * R \in Nat
        OBVIOUS
      <4>6. QED
        BY <2>2, <2>3, <3>3, <4>3, <4>4, <4>5
    <3>5. QED
      BY <2>1, <2>2, <2>3, <3>4
  <2>6. QED
    BY <2>4, <2>5
<1>2. ASSUME NEW cooldown \in Cooldowns, ~Channels!Allowed(b, cooldown)
      PROVE  \E a \in S : a < Channels!Max({cooldown, R})
  <2>1. /\ b \in Channels!Buckets /\ b # Channels!NoBucket
        /\ b.sinceAcquired < cooldown \/ Channels!Refilled(b).tokens < 1
        /\ b.sinceAcquired \in Nat /\ b.sinceRefill \in Nat /\ b.tokens \in 0..Capacity
    <3>1. b # Channels!NoBucket
      BY <1>2 DEF Channels!Allowed
    <3>2. b \in Channels!Buckets
      BY <1>0, <3>1
    <3>3. b.sinceAcquired \in Nat /\ Channels!Refilled(b).tokens \in Nat
      BY <3>2, RefillFacts DEF Channels!Buckets
    <3>4. b.sinceAcquired < cooldown \/ Channels!Refilled(b).tokens < 1
      BY <1>2, <3>3, LongestCooldown DEF Channels!Allowed
    <3>5. QED
      BY <3>1, <3>2, <3>4, RefillFacts
  <2>2. cooldown \in Nat /\ cooldown <= Channels!Max({cooldown, R}) /\ R <= Channels!Max({cooldown, R})
        /\ Channels!Max({cooldown, R}) \in Nat
    BY LargerOf
  <2>3. CASE b.sinceAcquired < cooldown
    <3>1. b.sinceAcquired \in S
      BY <2>1, <2>3, LongestCooldown DEF Paid
    <3>2. QED
      BY <2>1, <2>2, <2>3, <3>1
  <2>4. CASE Channels!Refilled(b).tokens < 1
    <3>1. PICK a \in Nat : a = b.sinceRefill
      BY <2>1
    <3>2. /\ a \div R \in Nat /\ a % R \in Nat /\ a % R < R
          /\ a = (a \div R) * R + (a % R)
      BY Intervals
    <3>3. PICK q \in Nat : q = a \div R
      BY <3>2
    <3>4. PICK m \in Nat : m = a % R
      BY <3>2
    <3>5. m < R /\ a = q * R + m
      BY <3>2, <3>3, <3>4
    <3>6. Channels!Refilled(b).tokens = IF Capacity <= b.tokens + q THEN Capacity ELSE b.tokens + q
      BY <1>0, <2>1, <3>1, <3>3, RefillFacts
    <3>7. q = 0
      BY <2>1, <2>4, <3>6, ChannelsAssumption
    <3>8. b.sinceRefill < R
      BY <3>1, <3>5, <3>7
    <3>9. PICK x \in S : x <= b.sinceRefill
      BY <2>1, <3>8 DEF Paid
    <3>10. QED
      BY <1>0, <2>1, <2>2, <3>8, <3>9
  <2>5. QED
    BY <2>1, <2>3, <2>4
<1>3. QED
  BY <1>1, <1>2

(* The invariants of the limiter and of the credentials hold in every behaviour of their part. *)
THEOREM LimiterConsistent == Spec => [](part \in {"channels", "alerts"} => Channels!LimiterInv)
<1> DEFINE Inv == part \in {"channels", "alerts"} => Channels!LimiterInv
<1>1. Init => Inv
  BY LimiterStart DEF Init
<1>2. Inv /\ [Next]_vars => Inv'
  <2>1. SUFFICES ASSUME Inv, [Next]_vars, part' \in {"channels", "alerts"}
                 PROVE  Channels!LimiterInv'
    OBVIOUS
  <2>2. part \in {"channels", "alerts"} /\ [Channels!Next]_channelsVars
    BY <2>1 DEF Next, vars
  <2>3. QED
    BY <2>1, <2>2, LimiterStep
<1>3. Spec => []Inv
  <2> HIDE DEF Inv
  <2>1. QED
    BY <1>1, <1>2, PTL DEF Spec
<1>4. QED
  BY <1>3

(* Nobody is flooded and nobody is left in the dark: within any span the alerts of a key that
   pass are at most the capacity of the bucket and one for every interval begun, whatever
   cooldowns are set meanwhile, and one is refused only for a recent one. *)
THEOREM LimiterStaysExact == Spec => []LimiterIsExact
<1>1. (part \in {"channels", "alerts"} => Channels!LimiterInv) => LimiterIsExact
  <2>1. SUFFICES ASSUME Channels!LimiterInv
                 PROVE  Channels!AlertsAreBounded /\ Channels!SuppressionIsJustified
    BY DEF LimiterIsExact
  <2>2. \A k \in Channels!Keys : Paid(bucket[k], sent[k])
    BY <2>1, AlertSizes DEF Channels!LimiterInv, Channels!HistoryIsPaid,
       Channels!LastIsRemembered, Channels!Within, Paid
  <2>3. Channels!AlertsAreBounded
    BY <2>2, PaidIsExact, AlertSizes DEF Channels!AlertsAreBounded
  <2>4. Channels!SuppressionIsJustified
    BY <2>2, PaidIsExact DEF Channels!SuppressionIsJustified
  <2>5. QED
    BY <2>3, <2>4
<1>2. QED
  BY <1>1, LimiterConsistent, PTL

(* No mask is ever stored in the place of credentials, in whatever order updates read, find and
   write, if every update carries credentials. *)
THEOREM CredentialsStayKept == ~PartialUpdates => (Spec => []CredentialsAreKept)
<1> SUFFICES ASSUME ~PartialUpdates
             PROVE  Spec => []CredentialsAreKept
  OBVIOUS
<1> DEFINE Inv == part \in {"channels", "alerts"} => Channels!CredentialsInv
<1>1. Init => Inv
  BY CredentialsStart DEF Init
<1>2. Inv /\ [Next]_vars => Inv'
  <2>1. SUFFICES ASSUME Inv, [Next]_vars, part' \in {"channels", "alerts"}
                 PROVE  Channels!CredentialsInv'
    OBVIOUS
  <2>2. part \in {"channels", "alerts"} /\ [Channels!Next]_channelsVars
    BY <2>1 DEF Next, vars
  <2>3. QED
    BY <2>1, <2>2, CredentialsStep
<1>3. Inv => CredentialsAreKept
  <2>1. SUFFICES ASSUME Channels!CredentialsInv PROVE Channels!CredentialsAreKept
    BY DEF CredentialsAreKept
  <2>2. \A i \in DOMAIN settings : settings[i] \in Channels!Unmasked
    BY <2>1 DEF Channels!CredentialsInv
  <2>3. QED
    BY <2>2 DEF Channels!CredentialsAreKept, Channels!Unmasked
<1> HIDE DEF Inv
<1>4. QED
  BY <1>1, <1>2, <1>3, PTL DEF Spec

-------------------------------------------------------------------------------
(* Motion zones *)

LEMMA ZonesStart == Areas!ZonesInit => Areas!ZonesInv
BY DEF Areas!ZonesInit, Areas!ZonesInv, Areas!NoZones

(* A request that is served right is something. *)
LEMMA ServedIsSomething ==
    ASSUME NEW c, Areas!ServedRight(c)
    PROVE  c # None
<1>1. c.kind \in Areas!Kinds /\ c.step \in Areas!Steps
  BY DEF Areas!ServedRight
<1>2. c.zone \in ZoneIds \union {None}
  BY DEF Areas!ServedRight
<1>3. c.change \in Areas!Zone \union Areas!Changes \union {None}
  BY DEF Areas!ServedRight
<1>4. c.got \in {None} \union Areas!Zone \union SUBSET Areas!Zone
  BY DEF Areas!ServedRight
<1>5. c = [kind |-> c.kind, step |-> c.step, zone |-> c.zone, change |-> c.change,
           got |-> c.got]
  BY DEF Areas!ServedRight
<1>6. [kind |-> c.kind, step |-> c.step, zone |-> c.zone, change |-> c.change,
       got |-> c.got] \in Areas!Served
  BY <1>1, <1>2, <1>3, <1>4 DEF Areas!Served
<1>7. QED
  BY <1>5, <1>6, ZonesAssumption

(* Another step of a request, with what its statement gave. *)
Onward(c, s, g) == [[c EXCEPT !.step = s] EXCEPT !.got = g]
LEMMA ServedOn ==
    ASSUME NEW c, Areas!ServedRight(c), NEW s \in Areas!Steps \ {"find"}, NEW g,
           g \in CASE s = "set" -> SUBSET Areas!Zone
                   [] s = "write" /\ c.kind # "create" -> Areas!Zone \union {None}
                   [] OTHER -> {None}
    PROVE  /\ Areas!ServedRight(Onward(c, s, g)) /\ Onward(c, s, g).step = s
           /\ Onward(c, s, g).got = g
<1>1. PICK d : d = [kind |-> c.kind, step |-> s, zone |-> c.zone, change |-> c.change,
                    got |-> g]
  OBVIOUS
<1>2. c = [kind |-> c.kind, step |-> c.step, zone |-> c.zone, change |-> c.change,
           got |-> c.got]
  BY DEF Areas!ServedRight
<1>3. [[c EXCEPT !.step = s] EXCEPT !.got = g] = d
  <2>1. PICK k, z, h, t, o : c = [kind |-> k, step |-> t, zone |-> z, change |-> h,
                                     got |-> o]
    BY <1>2
  <2>2. [c EXCEPT !.step = s] = [kind |-> k, step |-> s, zone |-> z, change |-> h,
                                 got |-> o]
    BY <2>1
  <2>3. [[kind |-> k, step |-> s, zone |-> z, change |-> h, got |-> o]
            EXCEPT !.got = g]
           = [kind |-> k, step |-> s, zone |-> z, change |-> h, got |-> g]
    OBVIOUS
  <2>4. d = [kind |-> k, step |-> s, zone |-> z, change |-> h, got |-> g]
    BY <1>1, <2>1
  <2>5. QED
    BY <2>2, <2>3, <2>4
<1>4. /\ d.kind = c.kind /\ d.step = s /\ d.zone = c.zone /\ d.change = c.change
      /\ d.got = g
  BY <1>1
<1>5. d = [kind |-> d.kind, step |-> d.step, zone |-> d.zone, change |-> d.change,
           got |-> d.got]
  BY <1>1
<1>6. Areas!ServedRight(d)
  BY <1>4, <1>5 DEF Areas!ServedRight
<1>7. Onward(c, s, g) = d
  BY <1>3 DEF Onward
<1>8. QED
  BY <1>4, <1>6, <1>7

(* A request arrives: nothing is written by it yet. *)
LEMMA ZoneRequestBegins ==
    ASSUME Areas!ZonesInv, NEW r \in ZoneRequests, NEW kind \in Areas!Kinds,
           NEW step \in Areas!Steps, NEW zone, NEW change,
           Areas!Begin(r, kind, step, zone, change),
           step = IF kind = "list" THEN "list" ELSE IF kind = "create" THEN "write" ELSE "find",
           zone \in IF kind = "list" THEN {None} ELSE ZoneIds,
           change \in CASE kind = "create" -> Areas!Zone [] kind = "update" -> Areas!Changes
                        [] OTHER -> {None},
           memoryZones' \in [ZoneIds -> Areas!Zone \union {None}]
    PROVE  Areas!ZonesInv'
<1>1. PICK new : new = [kind |-> kind, step |-> step, zone |-> zone, change |-> change, got |-> None]
  OBVIOUS
<1>2. /\ new.kind = kind /\ new.step = step /\ new.zone = zone /\ new.change = change
      /\ new.got = None
  BY <1>1
<1>3. Areas!ServedRight(new) /\ new # None
  <2>1. new = [kind |-> new.kind, step |-> new.step, zone |-> new.zone, change |-> new.change,
               got |-> new.got]
    BY <1>1
  <2>2. Areas!ServedRight(new)
    BY <1>2, <2>1 DEF Areas!ServedRight, Areas!Kinds, Areas!Steps
  <2>3. QED
    BY <2>2, ServedIsSomething
<1>4. /\ request[r] = None /\ DOMAIN request = ZoneRequests
      /\ request' = [request EXCEPT ![r] = new]
      /\ UNCHANGED <<rows, cameraZonesCache, fresh, doubt>>
  BY <1>1 DEF Areas!Begin, Areas!ZonesInv
<1>5. /\ request'[r] = new /\ DOMAIN request' = ZoneRequests
      /\ \A q \in ZoneRequests \ {r} : request'[q] = request[q]
  BY <1>4
<1>6. \A q \in ZoneRequests : request'[q] # None => Areas!ServedRight(request'[q])
  BY <1>3, <1>5 DEF Areas!ZonesInv
<1>7. fresh' \subseteq ZoneRequests /\ r \notin fresh
  BY <1>4 DEF Areas!ZonesInv, Areas!At
<1>8. \A q \in fresh' : Areas!At(q, "set")' /\ request'[q].got = Areas!ZonesOf(rows')
  BY <1>4, <1>5, <1>7 DEF Areas!ZonesInv, Areas!At
<1>9. ~doubt' /\ cameraZonesCache' # None =>
         \/ cameraZonesCache' = Areas!ZonesOf(rows')
         \/ \E q \in ZoneRequests : request'[q] # None /\ request'[q].step \in {"list", "set"}
  <2>1. SUFFICES ASSUME ~doubt, cameraZonesCache # None, cameraZonesCache # Areas!ZonesOf(rows)
                 PROVE  \E q \in ZoneRequests : request'[q] # None /\ request'[q].step \in {"list", "set"}
    BY <1>4
  <2>2. PICK q \in ZoneRequests : request[q] # None /\ request[q].step \in {"list", "set"}
    BY <2>1 DEF Areas!ZonesInv
  <2>3. QED
    BY <1>4, <1>5, <2>2
<1>10. /\ rows' \in [ZoneIds -> Areas!Zone \union {None}]
       /\ cameraZonesCache' \in {None} \union SUBSET Areas!Zone
  BY <1>4 DEF Areas!ZonesInv
<1>11. QED
  BY <1>5, <1>6, <1>7, <1>8, <1>9, <1>10 DEF Areas!ZonesInv

(* A request takes another step, or is over: a list stays fresh until the table changes, which
   it does only when a request goes on to list; the filter changes only as a request is over. *)
LEMMA ZoneRequestMoves ==
    ASSUME Areas!ZonesInv, NEW r \in ZoneRequests, request[r] # None, NEW c,
           request' = [q \in ZoneRequests |-> IF q = r THEN c ELSE request[q]],
           c # None => Areas!ServedRight(c),
           rows' \in [ZoneIds -> Areas!Zone \union {None}],
           memoryZones' \in [ZoneIds -> Areas!Zone \union {None}],
           cameraZonesCache' \in {None} \union SUBSET Areas!Zone,
           \/ rows' = rows /\ fresh' \subseteq fresh \union {r}
           \/ c # None /\ c.step = "list" /\ fresh' = {},
           r \in fresh' => c # None /\ c.step = "set" /\ c.got = Areas!ZonesOf(rows'),
           ~doubt' => \/ cameraZonesCache' = Areas!ZonesOf(rows')
                      \/ /\ cameraZonesCache' = cameraZonesCache /\ ~doubt
                         /\ \/ c # None /\ c.step \in {"list", "set"}
                            \/ rows' = rows /\ request[r].step \notin {"list", "set"}
    PROVE  Areas!ZonesInv'
<1>1. request'[r] = c /\ DOMAIN request' = ZoneRequests
      /\ \A q \in ZoneRequests \ {r} : request'[q] = request[q]
  OBVIOUS
<1>2. \A q \in ZoneRequests : request'[q] # None => Areas!ServedRight(request'[q])
  BY <1>1 DEF Areas!ZonesInv
<1>3. /\ fresh' \subseteq ZoneRequests
      /\ \A q \in fresh' : Areas!At(q, "set")' /\ request'[q].got = Areas!ZonesOf(rows')
  <2>1. fresh \subseteq ZoneRequests
    BY DEF Areas!ZonesInv
  <2>2. SUFFICES ASSUME NEW q \in fresh'
                 PROVE  /\ request'[q] # None /\ request'[q].step = "set"
                        /\ request'[q].got = Areas!ZonesOf(rows')
    BY <2>1 DEF Areas!At
  <2>3. CASE q = r
    BY <1>1, <2>2, <2>3
  <2>4. CASE q # r
    <3>1. q \in fresh /\ q \in ZoneRequests /\ rows' = rows
      BY <2>1, <2>2, <2>4
    <3>2. QED
      BY <1>1, <2>4, <3>1 DEF Areas!ZonesInv, Areas!At
  <2>5. QED
    BY <2>3, <2>4
<1>4. ~doubt' /\ cameraZonesCache' # None =>
         \/ cameraZonesCache' = Areas!ZonesOf(rows')
         \/ \E q \in ZoneRequests : request'[q] # None /\ request'[q].step \in {"list", "set"}
  <2>1. SUFFICES ASSUME ~doubt, cameraZonesCache # None,
                        cameraZonesCache' = cameraZonesCache,
                        cameraZonesCache' # Areas!ZonesOf(rows'),
                        rows' = rows, request[r].step \notin {"list", "set"}
                 PROVE  \E q \in ZoneRequests : request'[q] # None /\ request'[q].step \in {"list", "set"}
    BY <1>1
  <2>2. PICK q \in ZoneRequests : request[q] # None /\ request[q].step \in {"list", "set"}
    BY <2>1 DEF Areas!ZonesInv
  <2>3. q # r
    BY <2>1, <2>2
  <2>4. QED
    BY <1>1, <2>2, <2>3
<1>5. QED
  BY <1>1, <1>2, <1>3, <1>4 DEF Areas!ZonesInv

LEMMA ZoneRequestGoes ==
    ASSUME Areas!ZonesInv, NEW r \in ZoneRequests, request[r] # None, NEW s, NEW g,
           Areas!Goes(r, s, g)
    PROVE  request' = [q \in ZoneRequests |->
                          IF q = r THEN Onward(request[r], s, g) ELSE request[q]]
<1>1. DOMAIN request = ZoneRequests
  BY DEF Areas!ZonesInv
<1>2. PICK first : first = [request EXCEPT ![r] = [request[r] EXCEPT !.step = s]]
  OBVIOUS
<1>3. request' = [first EXCEPT ![r] = [first[r] EXCEPT !.got = g]]
  BY <1>2 DEF Areas!Goes
<1>4. first = [q \in ZoneRequests |-> IF q = r THEN [request[r] EXCEPT !.step = s] ELSE request[q]]
  BY <1>1, <1>2
<1>5. first[r] = [request[r] EXCEPT !.step = s] /\ DOMAIN first = ZoneRequests
      /\ \A q \in ZoneRequests \ {r} : first[q] = request[q]
  BY <1>4
<1>6. PICK c : c = Onward(request[r], s, g)
  OBVIOUS
<1>7. [first[r] EXCEPT !.got = g] = c
  BY <1>5, <1>6 DEF Onward
<1>8. request' = [first EXCEPT ![r] = c]
  BY <1>3, <1>7
<1>9. request' = [q \in ZoneRequests |-> IF q = r THEN c ELSE request[q]]
  BY <1>5, <1>8
<1>10. QED
  BY <1>6, <1>9

LEMMA ZonesStep ==
    ASSUME Areas!ZonesInv, [Areas!ZonesNext]_zonesVars
    PROVE  Areas!ZonesInv'
<1>1. /\ rows \in [ZoneIds -> Areas!Zone \union {None}]
      /\ memoryZones \in [ZoneIds -> Areas!Zone \union {None}]
      /\ cameraZonesCache \in {None} \union SUBSET Areas!Zone
      /\ \A r \in ZoneRequests : request[r] # None => Areas!ServedRight(request[r])
  BY DEF Areas!ZonesInv
<1>2. CASE UNCHANGED zonesVars
  <2>1. /\ UNCHANGED <<rows, memoryZones, cameraZonesCache, request, fresh, doubt>>
        /\ \A r : Areas!At(r, "set")' <=> Areas!At(r, "set")
    BY <1>2 DEF zonesVars, Areas!At
  <2>2. QED
    BY <2>1 DEF Areas!ZonesInv
<1>3. CASE Areas!Restart
  BY <1>1, <1>3 DEF Areas!Restart, Areas!ZonesInv, Areas!NoZones
<1>4. ASSUME NEW r \in ZoneRequests, Areas!ListZones(r)
      PROVE  Areas!ZonesInv'
  BY <1>1, <1>4, ZoneRequestBegins DEF Areas!ListZones, Areas!Kinds, Areas!Steps
<1>5. ASSUME NEW r \in ZoneRequests, NEW zone \in Areas!Zone, Areas!CreateZone(r, zone)
      PROVE  Areas!ZonesInv'
  <2>1. zone.id \in ZoneIds
    BY DEF Areas!Zone
  <2>2. memoryZones' \in [ZoneIds -> Areas!Zone \union {None}]
    BY <1>1, <1>5, <2>1 DEF Areas!CreateZone
  <2>3. Areas!Begin(r, "create", "write", zone.id, zone)
    BY <1>5 DEF Areas!CreateZone
  <2>4. QED
    BY <2>1, <2>2, <2>3, ZoneRequestBegins DEF Areas!Kinds, Areas!Steps
<1>6. ASSUME NEW r \in ZoneRequests, NEW z \in ZoneIds, NEW change \in Areas!Changes,
             Areas!UpdateZone(r, z, change)
      PROVE  Areas!ZonesInv'
  BY <1>1, <1>6, ZoneRequestBegins DEF Areas!UpdateZone, Areas!Kinds, Areas!Steps
<1>7. ASSUME NEW r \in ZoneRequests, NEW z \in ZoneIds, Areas!DeleteZone(r, z)
      PROVE  Areas!ZonesInv'
  BY <1>1, <1>7, ZoneRequestBegins DEF Areas!DeleteZone, Areas!Kinds, Areas!Steps
<1>8. ASSUME NEW r \in ZoneRequests, Areas!GetZone(r)
      PROVE  Areas!ZonesInv'
  <2>1. /\ request[r] # None /\ request[r].step = "find"
        /\ UNCHANGED <<rows, cameraZonesCache, fresh, doubt>> /\ r \notin fresh
    BY <1>8 DEF Areas!GetZone, Areas!At, Areas!ZonesInv
  <2>2. Areas!ServedRight(request[r]) /\ request[r].kind \in {"update", "delete"}
        /\ request[r].zone \in ZoneIds
    BY <1>1, <2>1 DEF Areas!ServedRight
  <2>3. PICK found \in {rows[request[r].zone], memoryZones[request[r].zone]} :
           IF found = None
           THEN Areas!Ends(r) /\ UNCHANGED memoryZones
           ELSE LET updated == IF request[r].kind = "delete" THEN None
                               ELSE Areas!Apply(found, request[r].change)
                IN  /\ Areas!Goes(r, "write", updated)
                    /\ memoryZones' = [memoryZones EXCEPT ![request[r].zone] = updated]
    BY <1>8 DEF Areas!GetZone
  <2>4. CASE found = None
    <3>1. request' = [q \in ZoneRequests |-> IF q = r THEN None ELSE request[q]]
      BY <2>3, <2>4 DEF Areas!ZonesInv, Areas!Ends
    <3>2. QED
      BY <1>1, <2>1, <2>3, <2>4, <3>1, ZoneRequestMoves
  <2>5. CASE found # None
    <3>1. found \in Areas!Zone
      BY <1>1, <2>2, <2>3, <2>5
    <3>2. PICK updated : updated = IF request[r].kind = "delete" THEN None
                                   ELSE Areas!Apply(found, request[r].change)
      OBVIOUS
    <3>3. updated \in Areas!Zone \union {None}
      <4>1. CASE request[r].kind = "delete"
        BY <3>2, <4>1
      <4>2. CASE request[r].kind = "update"
        <5>1. PICK change \in Areas!Changes : change = request[r].change
          BY <2>2, <4>2 DEF Areas!ServedRight
        <5>2. Areas!Apply(found, change) \in Areas!Zone
          <6>1. CASE change.field = "enabled" /\ change.newValue \in BOOLEAN
            BY <3>1, <6>1 DEF Areas!Apply, Areas!Zone
          <6>2. CASE change.field = "coordinates" /\ change.newValue \in Polygons
            BY <3>1, <6>2 DEF Areas!Apply, Areas!Zone
          <6>3. QED
            BY <6>1, <6>2 DEF Areas!Changes
        <5>3. QED
          BY <3>2, <4>2, <5>1, <5>2
      <4>3. QED
        BY <2>2, <4>1, <4>2
    <3>4. Areas!Goes(r, "write", updated)
          /\ memoryZones' = [memoryZones EXCEPT ![request[r].zone] = updated]
      BY <2>3, <2>5, <3>2
    <3>5. PICK c : c = Onward(request[r], "write", updated)
      OBVIOUS
    <3>6. request' = [q \in ZoneRequests |-> IF q = r THEN c ELSE request[q]]
      BY <2>1, <3>4, <3>5, ZoneRequestGoes
    <3>7. Areas!ServedRight(c) /\ c.step = "write"
      <4>1. request[r].kind # "create" /\ "write" \in Areas!Steps \ {"find"}
        BY <2>2 DEF Areas!Steps
      <4>2. QED
        BY <2>2, <3>3, <3>5, <4>1, ServedOn
    <3>8. memoryZones' \in [ZoneIds -> Areas!Zone \union {None}]
      BY <1>1, <2>2, <3>3, <3>4
    <3>9. QED
      BY <1>1, <2>1, <3>6, <3>7, <3>8, ZoneRequestMoves
  <2>6. QED
    BY <2>4, <2>5
<1>9. ASSUME NEW r \in ZoneRequests, Areas!Write(r)
      PROVE  Areas!ZonesInv'
  <2>1. /\ request[r] # None /\ request[r].step = "write" /\ Areas!Goes(r, "list", None)
        /\ UNCHANGED <<memoryZones, cameraZonesCache, doubt>> /\ r \notin fresh
        /\ (rows' = rows /\ fresh' = fresh) \/ fresh' = {}
    BY <1>9 DEF Areas!Write, Areas!At, Areas!Overtaken, Areas!ZonesInv
  <2>2. Areas!ServedRight(request[r])
    BY <1>1, <2>1
  <2>3. rows' \in [ZoneIds -> Areas!Zone \union {None}]
    <3>1. PICK row : row = IF request[r].kind = "create" THEN request[r].change ELSE request[r].got
      OBVIOUS
    <3>2. row \in Areas!Zone \union {None}
      BY <2>1, <2>2, <3>1 DEF Areas!ServedRight
    <3>3. rows' = rows \/ rows' = [rows EXCEPT ![request[r].zone] = row]
      BY <1>9, <3>1 DEF Areas!Write, Areas!Changed
    <3>4. QED
      BY <1>1, <3>2, <3>3
  <2>4. PICK c : c = Onward(request[r], "list", None)
    OBVIOUS
  <2>5. request' = [q \in ZoneRequests |-> IF q = r THEN c ELSE request[q]]
    BY <2>1, <2>4, ZoneRequestGoes
  <2>6. Areas!ServedRight(c) /\ c.step = "list"
    <3>1. "list" \in Areas!Steps \ {"find"}
      BY DEF Areas!Steps
    <3>2. QED
      BY <2>2, <2>4, <3>1, ServedOn
  <2>7. c # None
    BY <2>6, ServedIsSomething
  <2>8. QED
    BY <1>1, <2>1, <2>3, <2>5, <2>6, <2>7, ZoneRequestMoves
<1>10. ASSUME NEW r \in ZoneRequests, Areas!FindMany(r)
       PROVE  Areas!ZonesInv'
  <2>1. /\ request[r] # None /\ request[r].step = "list"
        /\ Areas!Goes(r, "set", Areas!ZonesOf(rows))
        /\ UNCHANGED <<rows, memoryZones, cameraZonesCache, doubt>>
        /\ fresh' = fresh \union {r}
    BY <1>10 DEF Areas!FindMany, Areas!At
  <2>2. Areas!ServedRight(request[r]) /\ Areas!ZonesOf(rows) \in SUBSET Areas!Zone
    BY <1>1, <2>1 DEF Areas!ZonesOf
  <2>3. PICK c : c = Onward(request[r], "set", Areas!ZonesOf(rows))
    OBVIOUS
  <2>4. request' = [q \in ZoneRequests |-> IF q = r THEN c ELSE request[q]]
    BY <2>1, <2>3, ZoneRequestGoes
  <2>5. /\ Areas!ServedRight(c) /\ c.step = "set"
        /\ c.got = Areas!ZonesOf(rows)
    <3>1. "set" \in Areas!Steps \ {"find"}
      BY DEF Areas!Steps
    <3>2. QED
      BY <2>2, <2>3, <3>1, ServedOn
  <2>6. c # None
    BY <2>5, ServedIsSomething
  <2>7. QED
    BY <1>1, <2>1, <2>4, <2>5, <2>6, ZoneRequestMoves
<1>11. ASSUME NEW r \in ZoneRequests, Areas!SetCameraZones(r)
       PROVE  Areas!ZonesInv'
  <2>1. /\ request[r] # None /\ request[r].step = "set"
        /\ cameraZonesCache' = request[r].got /\ doubt' = (r \notin fresh)
        /\ fresh' = fresh \ {r}
        /\ UNCHANGED <<rows, memoryZones>>
        /\ request' = [q \in ZoneRequests |-> IF q = r THEN None ELSE request[q]]
    BY <1>11 DEF Areas!SetCameraZones, Areas!At, Areas!ZonesInv, Areas!Ends
  <2>2. request[r].got \in SUBSET Areas!Zone
    BY <1>1, <2>1 DEF Areas!ServedRight
  <2>3. r \in fresh => request[r].got = Areas!ZonesOf(rows)
    BY <2>1 DEF Areas!ZonesInv
  <2>4. ~doubt' => cameraZonesCache' = Areas!ZonesOf(rows')
    BY <2>1, <2>3
  <2>5. QED
    BY <1>1, <2>1, <2>2, <2>4, ZoneRequestMoves
<1>12. ASSUME NEW r \in ZoneRequests, Areas!InMemoryFallback(r)
       PROVE  Areas!ZonesInv'
  <2>1. /\ request[r] # None /\ request[r].step = "list"
        /\ cameraZonesCache' = Areas!ZonesOf(memoryZones) /\ doubt'
        /\ UNCHANGED <<rows, memoryZones, fresh>> /\ r \notin fresh
        /\ request' = [q \in ZoneRequests |-> IF q = r THEN None ELSE request[q]]
    BY <1>12 DEF Areas!InMemoryFallback, Areas!At, Areas!ZonesInv, Areas!Ends
  <2>2. Areas!ZonesOf(memoryZones) \in SUBSET Areas!Zone
    BY <1>1 DEF Areas!ZonesOf
  <2>3. QED
    BY <1>1, <2>1, <2>2, ZoneRequestMoves
<1>13. QED
  BY <1>2, <1>3, <1>4, <1>5, <1>6, <1>7, <1>8, <1>9, <1>10, <1>11, <1>12 DEF Areas!ZonesNext

(* An area lets a point pass as the truth table says, if rays tell what is inside of it. *)
LEMMA VerdictOfACell ==
    ASSUME NEW zones \in SUBSET Areas!Zone, NEW cell \in Cells
    PROVE  LET enabled == {z \in zones : z.enabled}
               inclusions == {z \in enabled : z.zoneType = "INCLUSION"}
           IN  ~Areas!EvaluateMotionPoint(cell, zones) <=>
                  \/ \E z \in enabled \ inclusions : Areas!Inside(cell, z.coordinates)
                  \/ inclusions # {} /\ \A z \in inclusions : ~Areas!Inside(cell, z.coordinates)
<1>1. \A z \in zones : /\ z.zoneType = "INCLUSION" \/ z.zoneType = "EXCLUSION"
                       /\ Areas!IsPointInPolygon(cell, z.coordinates)
                             <=> Areas!Inside(cell, z.coordinates)
  BY ZonesAssumption DEF Areas!Zone, Areas!ZoneTypes
<1> DEFINE excluded == \E z \in zones : z.enabled /\ z.zoneType = "EXCLUSION"
                                        /\ Areas!Inside(cell, z.coordinates)
           included == \E z \in zones : z.enabled /\ z.zoneType = "INCLUSION"
                                        /\ Areas!Inside(cell, z.coordinates)
           some == \E z \in zones : z.enabled /\ z.zoneType = "INCLUSION"
<1>2. Areas!EvaluateMotionPoint(cell, zones) <=> ~excluded /\ (~some \/ included)
  BY <1>1 DEF Areas!EvaluateMotionPoint, Areas!Matched
<1>3. (\E z \in {y \in zones : y.enabled} \ {y \in {x \in zones : x.enabled} : y.zoneType = "INCLUSION"} :
          Areas!Inside(cell, z.coordinates)) <=> excluded
  BY <1>1
<1>4. ({y \in {x \in zones : x.enabled} : y.zoneType = "INCLUSION"} # {}) <=> some
  OBVIOUS
<1>5. (\A z \in {y \in {x \in zones : x.enabled} : y.zoneType = "INCLUSION"} :
          ~Areas!Inside(cell, z.coordinates)) <=> ~included
  OBVIOUS
<1> HIDE DEF excluded, included, some
<1>6. QED
  BY <1>2, <1>3, <1>4, <1>5

(* The invariant of the zones holds whichever part of the server moves. *)
THEOREM ZonesConsistent == Spec => []Areas!ZonesInv
<1>1. Init => Areas!ZonesInv
  BY ZonesStart DEF Init
<1>2. Areas!ZonesInv /\ [Next]_vars => Areas!ZonesInv'
  <2>1. SUFFICES ASSUME Areas!ZonesInv, [Next]_vars
                 PROVE  Areas!ZonesInv'
    OBVIOUS
  <2>2. [Areas!ZonesNext]_zonesVars
    BY <2>1 DEF Next, vars
  <2>3. QED
    BY <2>1, <2>2, ZonesStep
<1>3. QED
  BY <1>1, <1>2, PTL DEF Spec

(* The filter judges motion by the zones of the table, unless requests overlapped or the table
   could not be read, and judges it as the truth table of areas says. *)
THEOREM ZonesStayApplied == Spec => []ZonesAreApplied
<1>1. Areas!ZonesInv => ZonesAreApplied
  <2>1. SUFFICES ASSUME Areas!ZonesInv
                 PROVE  Areas!VerdictsFollowTheTable /\ Areas!FilterIsCurrent
    BY DEF ZonesAreApplied
  <2>2. PICK zones \in SUBSET Areas!Zone : zones = Areas!GetCameraZones
    BY <2>1 DEF Areas!ZonesInv, Areas!GetCameraZones
  <2>3. Areas!VerdictsFollowTheTable
    <3> DEFINE Blocked(cell) ==
                  \/ \E z \in {y \in zones : y.enabled}
                              \ {y \in {x \in zones : x.enabled} : y.zoneType = "INCLUSION"} :
                        Areas!Inside(cell, z.coordinates)
                  \/ /\ {y \in {x \in zones : x.enabled} : y.zoneType = "INCLUSION"} # {}
                     /\ \A z \in {y \in {x \in zones : x.enabled} : y.zoneType = "INCLUSION"} :
                           ~Areas!Inside(cell, z.coordinates)
    <3>1. \A cell \in Cells : ~Areas!EvaluateMotionPoint(cell, zones) <=> Blocked(cell)
      BY VerdictOfACell
    <3>2. zones = {} => \A cell : ~Blocked(cell)
      OBVIOUS
    <3> SUFFICES \A active \in SUBSET Cells :
                    ~Areas!Emitted(active) <=> active # {} /\ \A cell \in active : Blocked(cell)
      BY <2>2 DEF Areas!VerdictsFollowTheTable
    <3> HIDE DEF Blocked
    <3>3. QED
      BY <2>2, <3>1, <3>2 DEF Areas!Emitted, Areas!EvaluateCellGrid
  <2>4. Areas!FilterIsCurrent
    BY <2>1 DEF Areas!ZonesInv, Areas!FilterIsCurrent, Areas!Quiet
  <2>5. QED
    BY <2>3, <2>4
<1>2. QED
  BY <1>1, ZonesConsistent, PTL

-------------------------------------------------------------------------------
(* Who gets what from the HTTP API *)

LEMMA AccessStarts == Routes!AccessInit => Routes!AccessInv
BY DEF Routes!AccessInit, Routes!AccessInv

(* Between two answers everything may change, and nothing does between a request and its
   answer. *)
LEMMA AccessStep ==
    ASSUME Routes!AccessInv, [Routes!AccessNext]_routesVars
    PROVE  Routes!AccessInv'
<1>1. CASE UNCHANGED routesVars
  <2>1. \A r : Routes!Serve(r)' = Routes!Serve(r)
    BY <1>1 DEF routesVars, Routes!Serve, Routes!GateStatus, Routes!EnforceStatus, Routes!Handle,
       Routes!HasCapability, Routes!ScopeCan, Routes!ScopeCameras, Routes!RightsOn,
       Routes!EffectiveGrants
  <2>2. QED
    BY <1>1, <2>1 DEF routesVars, Routes!AccessInv
<1>2. CASE Routes!Ask
  <2>1. PICK route \in Routes!Routes :
           \E r \in Routes!Requests(route) : asked' = r /\ response' = Routes!Serve(r)
    BY <1>2 DEF Routes!Ask
  <2>2. UNCHANGED <<role, cameraGrants, siteGrants, siteOf, licence>>
    BY <1>2 DEF Routes!Ask
  <2>3. \A r : Routes!Serve(r)' = Routes!Serve(r)
    BY <2>2 DEF Routes!Serve, Routes!GateStatus, Routes!EnforceStatus, Routes!Handle,
       Routes!HasCapability, Routes!ScopeCan, Routes!ScopeCameras, Routes!RightsOn,
       Routes!EffectiveGrants
  <2>4. QED
    BY <2>1, <2>2, <2>3 DEF Routes!AccessInv
<1>3. CASE Routes!Moves
  BY <1>3 DEF Routes!Moves, Routes!AccessInv
<1>4. QED
  BY <1>1, <1>2, <1>3 DEF Routes!AccessNext

(* What the guards of a route and its handler have to do with each other. *)
PerCamera == {"named", "owner", "match", "visible", "filtered", "narrowed"}

AsksForWhatItUses(route) ==
    LET gate == route.gate  access == route.access  use == route.use IN
    /\ gate.auth \in {"open", "session", "cookie"}
    /\ access.kind \in {"none", "camera", "resource", "list", "stream"}
    /\ use.of \in {"named", "match"} => access.kind = "camera" /\ access.right = use.what
    /\ use.of = "owner" => access.kind \in {"resource", "stream"} /\ access.right = use.what
    /\ use.of \in PerCamera => use.what \in Routes!Rights
    /\ use.of \in PerCamera \union {"nothing", "own", "self"}
    /\ use.what = "config" => gate.auth # "open" /\ gate.roles = {"ADMIN"}
    /\ use.what = "account" => use.of \in {"own", "self"}
    /\ access.kind = "list" => use.of \in {"visible", "filtered", "narrowed"}

(* A route that takes no cookie, by what it asks and what it uses. *)
Sound(route) == AsksForWhatItUses(route) /\ route.gate.auth # "cookie"

LEMMA SoundRoutes ==
    /\ \A name, capability :
          /\ Sound(Routes!Route(name, Routes!Admin(capability), Routes!Free, Routes!Config))
          /\ Sound(Routes!Route(name, Routes!Session(capability), Routes!Free, Routes!Account))
          /\ Sound(Routes!Route(name, Routes!Session(capability), Routes!Free,
                                Routes!Use("account", "own")))
          /\ Sound(Routes!Route(name, Routes!Session(capability), Routes!Free,
                                Routes!Use("view", "visible")))
          /\ Sound(Routes!Route(name, Routes!Session(capability), Routes!Free, Routes!Appliance))
          /\ Sound(Routes!Route(name, Routes!Staff(capability), Routes!Free, Routes!Appliance))
          /\ Sound(Routes!Route(name, Routes!Staff(capability), Routes!ByCamera("canViewPlayback"),
                                Routes!Use("canViewPlayback", "match")))
    /\ \A name : Sound(Routes!Route(name, Routes!Open, Routes!Free, Routes!Appliance))
    /\ \A name, capability, right :
          right \in Routes!Rights =>
            /\ Sound(Routes!Route(name, Routes!Session(capability), Routes!ByCamera(right),
                                  Routes!Use(right, "named")))
            /\ Sound(Routes!Route(name, Routes!Staff(capability), Routes!ByCamera(right),
                                  Routes!Use(right, "named")))
            /\ Sound(Routes!Route(name, Routes!Session(capability), Routes!ByResource(right),
                                  Routes!Use(right, "owner")))
            /\ Sound(Routes!Route(name, Routes!Session(capability), Routes!Listing(right),
                                  Routes!Use(right, "visible")))
            /\ Sound(Routes!Route(name, Routes!Staff(capability), Routes!Listing(right),
                                  Routes!Use(right, "visible")))
            /\ Sound(Routes!Route(name, Routes!Session(capability), Routes!Listing(right),
                                  Routes!Use(right, "filtered")))
            /\ Sound(Routes!Route(name, Routes!Session(capability), Routes!Listing(right),
                                  Routes!Use(right, "narrowed")))
    /\ \A name, cookie, right :
          right \in Routes!Rights =>
            AsksForWhatItUses(Routes!Route(name, Routes!MediaGate(cookie), Routes!ByStream(right),
                                           Routes!Use(right, "owner")))
    /\ {"view", "canViewLive", "canViewPlayback", "canControlPtz", "canExportClips"}
          \subseteq Routes!Rights
BY DEF Sound, AsksForWhatItUses, PerCamera, Routes!Rights, Routes!Flags, Routes!Route, Routes!Gate,
       Routes!Open, Routes!Session, Routes!Admin, Routes!Staff, Routes!Free, Routes!ByCamera,
       Routes!ByResource, Routes!Listing, Routes!ByStream, Routes!Use, Routes!Appliance,
       Routes!Config, Routes!Account, Routes!MediaGate

(* Every route asks for the right its handler uses, of the camera its handler uses. *)
LEMMA RoutesAskForWhatTheyUse ==
    /\ \A route \in Routes!Routes : AsksForWhatItUses(route)
    /\ \A route \in Routes!Routes : route.gate.auth = "cookie" => route \in Routes!MediaRoutes
<1> DEFINE Asks(S) == \A route \in S : Sound(route)
<1> USE SoundRoutes
<1>1. Asks(Routes!OnboardingRoutes)
  BY DEF Routes!OnboardingRoutes
<1>2. Asks(Routes!CommitRoutes)
  BY DEF Routes!CommitRoutes
<1>3. Asks(Routes!CameraRoutes)
  BY DEF Routes!CameraRoutes
<1>4. Asks(Routes!PtzRoutes)
  BY DEF Routes!PtzRoutes
<1>5. Asks(Routes!StorageRoutes)
  BY DEF Routes!StorageRoutes
<1>6. Asks(Routes!RecordingRoutes)
  BY DEF Routes!RecordingRoutes
<1>7. Asks(Routes!ExportRoutes)
  BY DEF Routes!ExportRoutes
<1>8. Asks(Routes!BookmarkRoutes)
  BY DEF Routes!BookmarkRoutes
<1>9. Asks(Routes!ZoneRoutes)
  BY DEF Routes!ZoneRoutes
<1>10. Asks(Routes!HealthRoutes)
  BY DEF Routes!HealthRoutes
<1>11. Asks(Routes!WhatsAppRoutes)
  BY DEF Routes!WhatsAppRoutes
<1>12. Asks(Routes!SmtpRoutes)
  BY DEF Routes!SmtpRoutes
<1>13. Asks(Routes!WebhookRoutes)
  BY DEF Routes!WebhookRoutes
<1>14. Asks(Routes!StreamingRoutes)
  BY DEF Routes!StreamingRoutes
<1>15. Asks(Routes!PlaybackRoutes)
  BY DEF Routes!PlaybackRoutes
<1>16. Asks(Routes!SettingsRoutes)
  BY DEF Routes!SettingsRoutes
<1>17. Asks(Routes!SystemRoutes)
  BY DEF Routes!SystemRoutes
<1>18. Asks(Routes!BackupRoutes)
  BY DEF Routes!BackupRoutes
<1>19. Asks(Routes!AuditRoutes)
  BY DEF Routes!AuditRoutes
<1>20. Asks(Routes!SiteRoutes)
  BY DEF Routes!SiteRoutes
<1>21. Asks(Routes!EventRoutes)
  BY DEF Routes!EventRoutes
<1>22. Asks(Routes!LoginRoutes)
  BY DEF Routes!LoginRoutes
<1>23. Asks(Routes!UserRoutes)
  BY DEF Routes!UserRoutes
<1>24. Asks(Routes!PermissionRoutes)
  BY DEF Routes!PermissionRoutes
<1>25. \A route \in Routes!MediaRoutes : AsksForWhatItUses(route)
  BY DEF Routes!MediaRoutes
<1>26. QED
  BY <1>1, <1>2, <1>3, <1>4, <1>5, <1>6, <1>7, <1>8, <1>9, <1>10, <1>11, <1>12, <1>13, <1>14, <1>15, <1>16, <1>17, <1>18, <1>19, <1>20, <1>21, <1>22, <1>23, <1>24, <1>25 DEF Sound, Routes!Routes

(* The Camera Scope grants what the policy says. *)
LEMMA ScopeIsThePolicy ==
    ASSUME role \in Routes!Roles, NEW c \in ApiCameras, NEW right \in Routes!Rights
    PROVE  Routes!ScopeCan(c, right) <=> Routes!Entitled(c, right)
<1> DEFINE held(flag) ==
             \/ role = "ADMIN"
             \/ role = "VIEWER" /\ flag \in {"canViewLive", "canViewPlayback"}
             \/ role = "OPERATOR" /\ flag \in cameraGrants[c]
             \/ role = "OPERATOR" /\ \E s \in ApiSites : siteOf[c] = s /\ flag \in siteGrants[s]
<1>1. \A flag \in Routes!Flags : flag \in Routes!RightsOn(c) <=> held(flag)
  BY DEF Routes!RightsOn, Routes!EffectiveGrants, Routes!Roles, Routes!Flags
<1>2. {"canViewLive", "canViewPlayback"} \subseteq Routes!Flags /\ "view" \notin Routes!Flags
  BY DEF Routes!Flags
<1>3. Routes!Entitled(c, right) <=>
        IF right = "view" THEN held("canViewLive") \/ held("canViewPlayback")
        ELSE held(right)
  BY DEF Routes!Entitled
<1> HIDE DEF held
<1>4. CASE right = "view"
  BY <1>1, <1>2, <1>3, <1>4 DEF Routes!ScopeCan
<1>5. CASE right # "view"
  <2>1. right \in Routes!Flags
    BY <1>5 DEF Routes!Rights
  <2>2. QED
    BY <1>1, <1>3, <1>5, <2>1 DEF Routes!ScopeCan
<1>6. QED
  BY <1>4, <1>5

(* What the lists filter by. *)
LEMMA ScopeHoldsTheEntitled ==
    ASSUME role \in Routes!Roles, NEW right \in Routes!Rights
    PROVE  Routes!ScopeCameras(right) = {c \in ApiCameras : Routes!Entitled(c, right)}
BY ScopeIsThePolicy DEF Routes!ScopeCameras

(* An answer with data is the handler's, for a caller who passed both guards. *)
LEMMA GuardsPassed ==
    ASSUME NEW r, AsksForWhatItUses(r.route), Routes!Serve(r).status = "ok"
    PROVE  /\ Routes!GateStatus(r.route.gate, r) = "pass"
           /\ Routes!EnforceStatus(r.route.access, r) = "pass"
           /\ Routes!Serve(r) = Routes!Handle(r)
<1> DEFINE gate == Routes!GateStatus(r.route.gate, r)
           enforced == Routes!EnforceStatus(r.route.access, r)
<1>1. gate # "ok" /\ enforced # "ok"
  BY DEF Routes!GateStatus, Routes!EnforceStatus, AsksForWhatItUses
<1>2. \A status : Routes!Refused(status).status = status
  BY DEF Routes!Refused
<1>3. Routes!Serve(r) = IF gate # "pass" THEN Routes!Refused(gate)
                        ELSE IF enforced # "pass" THEN Routes!Refused(enforced)
                        ELSE Routes!Handle(r)
  BY DEF Routes!Serve
<1> HIDE DEF gate, enforced
<1>4. gate = "pass" /\ enforced = "pass"
  BY <1>1, <1>2, <1>3
<1>5. QED
  BY <1>3, <1>4 DEF gate, enforced

(* What the handler gives, by the cameras it uses. *)
LEMMA HandlerGives ==
    ASSUME NEW r, Routes!Handle(r).status = "ok",
           r.route.use.of \in PerCamera \union {"nothing", "own", "self"}
    PROVE  LET use == r.route.use  given == Routes!Handle(r) IN
           /\ given.what = use.what
           /\ use.of \notin PerCamera => given.cameras = {}
           /\ use.of = "self" => role = "ADMIN" \/ given.self
           /\ use.of = "own" => given.self
           /\ use.of = "named" => given.cameras = {r.named} /\ r.named \in ApiCameras
           /\ use.of = "owner" => given.cameras = {r.owner} \cap ApiCameras
           /\ use.of = "match" => given.cameras = {r.named} /\ r.named \in ApiCameras
           /\ use.of = "visible" => given.cameras = Routes!ScopeCameras(use.what)
           /\ use.of \in {"filtered", "narrowed"} =>
                IF r.named = Routes!NoCamera THEN given.cameras = Routes!ScopeCameras(use.what)
                ELSE /\ given.cameras \subseteq {r.named} \cap ApiCameras
                     /\ given.cameras # {} => Routes!ScopeCan(r.named, use.what)
<1>1. r.valid
  BY DEF Routes!Handle, Routes!Refused
<1>2. CASE r.route.use.of = "nothing"
  BY <1>1, <1>2 DEF Routes!Handle, Routes!Gives, PerCamera
<1>3. CASE r.route.use.of = "own"
  BY <1>1, <1>3 DEF Routes!Handle, Routes!Gives, PerCamera
<1>4. CASE r.route.use.of = "self"
  BY <1>1, <1>4 DEF Routes!Handle, Routes!Gives, Routes!Refused, PerCamera
<1>5. CASE r.route.use.of = "named"
  BY <1>1, <1>5 DEF Routes!Handle, Routes!Gives, Routes!Refused, PerCamera
<1>6. CASE r.route.use.of = "owner"
  BY <1>1, <1>6 DEF Routes!Handle, Routes!Gives, PerCamera
<1>7. CASE r.route.use.of = "match"
  BY <1>1, <1>7 DEF Routes!Handle, Routes!Gives, Routes!Refused, PerCamera
<1>8. CASE r.route.use.of = "visible"
  BY <1>1, <1>8 DEF Routes!Handle, Routes!Gives, PerCamera
<1>9. CASE r.route.use.of = "filtered"
  BY <1>1, <1>9 DEF Routes!Handle, Routes!Gives, Routes!Refused, PerCamera
<1>10. CASE r.route.use.of = "narrowed"
  BY <1>1, <1>10 DEF Routes!Handle, Routes!Gives, Routes!ScopeCameras, PerCamera
<1>11. QED
  BY <1>2, <1>3, <1>4, <1>5, <1>6, <1>7, <1>8, <1>9, <1>10 DEF PerCamera

(* What the two guards say once they are passed. *)
LEMMA GuardsSay ==
    ASSUME NEW r, NEW route, r.route = route, AsksForWhatItUses(route),
           Routes!GateStatus(route.gate, r) = "pass",
           Routes!EnforceStatus(route.access, r) = "pass"
    PROVE  /\ route.use.what = "config" => role = "ADMIN"
           /\ r.credential = "cookie" => route.gate.auth \in {"open", "cookie"}
           /\ route.access.kind = "camera" => Routes!ScopeCan(r.named, route.access.right)
           /\ route.access.kind \in {"resource", "stream"} =>
                Routes!ScopeCan(r.owner, route.access.right) \/ role = "ADMIN"
<1>1. /\ route.use.what = "config" => role = "ADMIN"
      /\ r.credential = "cookie" => route.gate.auth \in {"open", "cookie"}
  BY DEF Routes!GateStatus, AsksForWhatItUses
<1>2. /\ route.access.kind = "camera" => Routes!ScopeCan(r.named, route.access.right)
      /\ route.access.kind \in {"resource", "stream"} =>
           Routes!ScopeCan(r.owner, route.access.right) \/ role = "ADMIN"
  BY DEF Routes!EnforceStatus
<1>3. QED
  BY <1>1, <1>2

LEMMA RequestsNameTheirRoute ==
    ASSUME NEW route, NEW r \in Routes!Requests(route)
    PROVE  r.route = route
BY DEF Routes!Requests

LEMMA AdminsMayAll ==
    ASSUME role = "ADMIN", NEW c, NEW right \in Routes!Rights
    PROVE  Routes!Entitled(c, right)
BY DEF Routes!Entitled

(* The invariant of access is enough for the three properties. *)
LEMMA AccessFollows ==
    ASSUME Routes!AccessInv
    PROVE  Routes!AccessIsEarned /\ Routes!ListsAreExact /\ Routes!FeedAgreesWithList
<1>1. role \in Routes!Roles
  BY DEF Routes!AccessInv
<1>2. ASSUME response.status = "ok"
      PROVE  Routes!AccessIsEarned /\ Routes!ListsAreExact
  <2>1. PICK route \in Routes!Routes : asked \in Routes!Requests(route)
                                       /\ response = Routes!Serve(asked)
    BY <1>2 DEF Routes!AccessInv, Routes!Refused
  <2>2. asked.route = route /\ AsksForWhatItUses(route)
        /\ (route.gate.auth = "cookie" => route \in Routes!MediaRoutes)
    BY <2>1, RequestsNameTheirRoute, RoutesAskForWhatTheyUse
  <2>3. /\ Routes!GateStatus(route.gate, asked) = "pass"
        /\ Routes!EnforceStatus(route.access, asked) = "pass"
        /\ response = Routes!Handle(asked)
    BY <1>2, <2>1, <2>2, GuardsPassed
  <2>4. /\ route.use.what = "config" => role = "ADMIN"
        /\ asked.credential = "cookie" => route.gate.auth \in {"open", "cookie"}
        /\ route.access.kind = "camera" => Routes!ScopeCan(asked.named, route.access.right)
        /\ route.access.kind \in {"resource", "stream"} =>
             Routes!ScopeCan(asked.owner, route.access.right) \/ role = "ADMIN"
    BY <2>2, <2>3, GuardsSay
  <2>5. route.use.of \in PerCamera \union {"nothing", "own", "self"}
    BY <2>2 DEF AsksForWhatItUses
  <2>6. /\ response.what = route.use.what
        /\ route.use.of \notin PerCamera => response.cameras = {}
        /\ route.use.of = "self" => role = "ADMIN" \/ response.self
        /\ route.use.of = "own" => response.self
        /\ route.use.of = "named" => response.cameras = {asked.named} /\ asked.named \in ApiCameras
        /\ route.use.of = "owner" => response.cameras = {asked.owner} \cap ApiCameras
        /\ route.use.of = "match" => response.cameras = {asked.named} /\ asked.named \in ApiCameras
        /\ route.use.of = "visible" => response.cameras = Routes!ScopeCameras(route.use.what)
        /\ route.use.of \in {"filtered", "narrowed"} =>
             IF asked.named = Routes!NoCamera
             THEN response.cameras = Routes!ScopeCameras(route.use.what)
             ELSE /\ response.cameras \subseteq {asked.named} \cap ApiCameras
                  /\ response.cameras # {} => Routes!ScopeCan(asked.named, route.use.what)
    BY <1>2, <2>2, <2>3, <2>5, HandlerGives
  <2>7. \A c \in response.cameras : Routes!Entitled(c, response.what)
    <3> SUFFICES ASSUME NEW c \in response.cameras, route.use.of \in PerCamera
                 PROVE  Routes!Entitled(c, route.use.what)
      BY <2>6
    <3>1. route.use.what \in Routes!Rights
      BY <2>2 DEF AsksForWhatItUses
    <3>2. CASE role = "ADMIN"
      BY <3>1, <3>2, AdminsMayAll
    <3>3. CASE role # "ADMIN" /\ route.use.of \in {"named", "match", "owner"}
      <4>1. c \in ApiCameras /\ Routes!ScopeCan(c, route.use.what)
        BY <2>2, <2>4, <2>6, <3>3 DEF AsksForWhatItUses
      <4>2. QED
        BY <1>1, <3>1, <4>1, ScopeIsThePolicy
    <3>4. CASE route.use.of \in {"visible", "filtered", "narrowed"}
      <4>1. c \in ApiCameras /\ Routes!ScopeCan(c, route.use.what)
        BY <2>6, <3>4 DEF Routes!ScopeCameras
      <4>2. QED
        BY <1>1, <3>1, <4>1, ScopeIsThePolicy
    <3>5. QED
      BY <3>2, <3>3, <3>4 DEF PerCamera
  <2>8. Routes!AccessIsEarned
    <3>1. response.what = "config" => role = "ADMIN"
      BY <2>4, <2>6
    <3>2. response.what = "account" => role = "ADMIN" \/ response.self
      BY <2>2, <2>6 DEF AsksForWhatItUses
    <3>3. asked.credential = "cookie" =>
            asked.route \in Routes!MediaRoutes \/ asked.route.gate.auth = "open"
      BY <2>2, <2>4
    <3>4. QED
      BY <2>7, <3>1, <3>2, <3>3 DEF Routes!AccessIsEarned
  <2>9. Routes!ListsAreExact
    <3> SUFFICES ASSUME route.access.kind = "list",
                        route.use.of = "visible" \/ asked.named = Routes!NoCamera
                 PROVE  response.cameras
                          = {c \in ApiCameras : Routes!Entitled(c, response.what)}
      BY <2>2 DEF Routes!ListsAreExact
    <3>1. route.use.of \in {"visible", "filtered", "narrowed"} /\ route.use.what \in Routes!Rights
      BY <2>2 DEF AsksForWhatItUses, PerCamera
    <3>2. response.cameras = Routes!ScopeCameras(route.use.what)
      BY <2>6, <3>1
    <3>3. QED
      BY <1>1, <2>6, <3>1, <3>2, ScopeHoldsTheEntitled
  <2>10. QED
    BY <2>8, <2>9
<1>3. Routes!FeedAgreesWithList
  <2>1. SUFFICES ASSUME NEW e \in Routes!Events
                 PROVE  Routes!CanSee(e) <=> Routes!EventListed(e)
    BY DEF Routes!FeedAgreesWithList
  <2>2. CASE e.camera \in ApiCameras /\ e.site = NoSite
    BY <2>2, RoutesAssumption DEF Routes!CanSee, Routes!EventListed
  <2>3. CASE e.camera = Routes!NoCamera /\ e.site \in ApiSites
    <3>1. (Routes!CamerasAt(e.site) \cap Routes!ScopeCameras("view") # {})
            <=> e.site \in {siteOf[c] : c \in Routes!ScopeCameras("view")} \cap ApiSites
      BY <2>3 DEF Routes!CamerasAt, Routes!ScopeCameras
    <3>2. QED
      BY <2>3, <3>1 DEF Routes!CanSee, Routes!EventListed
  <2>4. QED
    BY <2>1, <2>2, <2>3 DEF Routes!Events
<1>4. QED
  BY <1>2, <1>3 DEF Routes!AccessIsEarned, Routes!ListsAreExact

(* The invariant of access holds while its part of the server moves. *)
THEOREM AccessConsistent == Spec => [](part = "routes" => Routes!AccessInv)
<1>1. Init => (part = "routes" => Routes!AccessInv)
  BY AccessStarts DEF Init
<1>2. (part = "routes" => Routes!AccessInv) /\ [Next]_vars
        => (part = "routes" => Routes!AccessInv)'
  <2>1. SUFFICES ASSUME part = "routes" => Routes!AccessInv, [Next]_vars, part' = "routes"
                 PROVE  Routes!AccessInv'
    OBVIOUS
  <2>2. part = "routes" /\ [Routes!AccessNext]_routesVars
    BY <2>1 DEF Next, vars
  <2>3. QED
    BY <2>1, <2>2, AccessStep
<1>3. QED
  BY <1>1, <1>2, PTL DEF Spec

(* Whatever is granted and wherever cameras move, nobody is given data of a camera, or moves or
   exports it, without the right on that very camera, lists give all of it and no more, and the
   feed of events agrees with the list. *)
THEOREM AccessStaysExact == Spec => []AccessIsExact
<1>1. (part = "routes" => Routes!AccessInv) => AccessIsExact
  BY AccessFollows DEF AccessIsExact
<1>2. QED
  BY <1>1, AccessConsistent, PTL

-------------------------------------------------------------------------------
(* The archive and its restore *)

RestoreModes == {"skip-existing", "overwrite"}

LEMMA RestoreFacts ==
    /\ Restores!Tables = {"site", "user", "camera", "permission"} /\ Restores!Ids = {1, 2}
    /\ MaxWrites \in Nat /\ \A t \in Restores!Tables : None \notin Restores!Values(t)
BY RestoresAssumption DEF Restores!Tables, Restores!Ids

(* Rows of the tables: what is in them, and what they refer to. *)
LEMMA RowOf ==
    ASSUME NEW d, Restores!IsDatabase(d), NEW t \in Restores!Tables, NEW id \in Restores!Ids
    PROVE  d[t][id] \in Restores!Values(t) \union {None}
BY DEF Restores!IsDatabase, Restores!Content

LEMMA ReferencesOf ==
    ASSUME NEW t \in Restores!Tables, NEW value \in Restores!Values(t),
           NEW r \in Restores!References(t, value)
    PROVE  /\ r[1] \in {"site", "user"} /\ r[2] \in Restores!Ids /\ r = <<r[1], r[2]>>
           /\ t \in {"camera", "permission"} /\ (t = "camera" => r[1] = "site")
<1>1. CASE t = "camera"
  <2>1. value.site \in Restores!Ids \union {None}
    BY <1>1 DEF Restores!Values
  <2>2. value.site # None /\ r = <<"site", value.site>>
    BY <1>1 DEF Restores!References
  <2>3. QED
    BY <1>1, <2>1, <2>2
<1>2. CASE t = "permission"
  <2>1. value.user \in Restores!Ids /\ value.site \in Restores!Ids
    BY <1>2 DEF Restores!Values
  <2>2. r = <<"user", value.user>> \/ r = <<"site", value.site>>
    BY <1>2 DEF Restores!References
  <2>3. QED
    BY <1>2, <2>1, <2>2
<1>3. CASE t \notin {"camera", "permission"}
  BY <1>3 DEF Restores!References
<1>4. QED
  BY <1>1, <1>2, <1>3

LEMMA PutFacts ==
    ASSUME NEW d, Restores!IsDatabase(d), NEW t \in Restores!Tables, NEW id \in Restores!Ids,
           NEW value \in Restores!Values(t) \union {None}
    PROVE  /\ Restores!IsDatabase(Restores!Put(d, t, id, value))
           /\ \A u \in Restores!Tables : \A i \in Restores!Ids :
                Restores!Put(d, t, id, value)[u][i] = IF u = t /\ i = id THEN value ELSE d[u][i]
<1>1. PICK s : s = [d[t] EXCEPT ![id] = value]
  OBVIOUS
<1>2. /\ d = [u \in Restores!Tables |-> d[u]] /\ DOMAIN d = Restores!Tables
      /\ \A u \in Restores!Tables : d[u] \in Restores!Content(u)
  BY DEF Restores!IsDatabase
<1>3. s \in Restores!Content(t) /\ \A i \in Restores!Ids : s[i] = IF i = id THEN value ELSE d[t][i]
  BY <1>1, <1>2 DEF Restores!Content
<1>4. PICK e : e = Restores!Put(d, t, id, value)
  OBVIOUS
<1>5. e = [u \in Restores!Tables |-> IF u = t THEN s ELSE d[u]]
  BY <1>1, <1>2, <1>4 DEF Restores!Put
<1>6. e = [u \in Restores!Tables |-> e[u]]
      /\ \A u \in Restores!Tables : e[u] = IF u = t THEN s ELSE d[u]
  BY <1>5
<1>7. QED
  BY <1>2, <1>3, <1>4, <1>6 DEF Restores!IsDatabase

(* A row that the constraints accept leaves the others accepted. *)
LEMMA PutKeeps ==
    ASSUME NEW d, Restores!IsDatabase(d), Restores!Kept(d), NEW t \in Restores!Tables,
           NEW id \in Restores!Ids, NEW value \in Restores!Values(t),
           Restores!Accepts(d, t, id, value)
    PROVE  Restores!Kept(Restores!Put(d, t, id, value))
<1>1. PICK e : e = Restores!Put(d, t, id, value)
  OBVIOUS
<1>2. \A u \in Restores!Tables : \A i \in Restores!Ids :
        e[u][i] = IF u = t /\ i = id THEN value ELSE d[u][i]
  BY <1>1, PutFacts
<1>3. value # None
  BY RestoreFacts
<1>4. ASSUME NEW u \in Restores!Tables, NEW i \in Restores!Ids, e[u][i] # None
      PROVE  Restores!KeyIsFree(e, u, i, e[u][i])
  <2>1. SUFFICES ASSUME NEW other \in Restores!Ids, other # i, e[u][other] # None
                 PROVE  Restores!Unique(u, e[u][other]) # Restores!Unique(u, e[u][i])
    BY DEF Restores!KeyIsFree, Restores!HasKey
  <2>2. CASE u = t /\ i = id
    <3>1. e[u][i] = value /\ e[u][other] = d[t][other]
      BY <1>2, <2>1, <2>2
    <3>2. QED
      BY <2>1, <2>2, <3>1 DEF Restores!Accepts, Restores!KeyIsFree, Restores!HasKey
  <2>3. CASE u = t /\ other = id
    <3>1. e[u][other] = value /\ e[u][i] = d[t][i]
      BY <1>2, <2>1, <2>3
    <3>2. QED
      BY <1>4, <2>1, <2>3, <3>1 DEF Restores!Accepts, Restores!KeyIsFree, Restores!HasKey
  <2>4. CASE u # t \/ (i # id /\ other # id)
    <3>1. e[u][other] = d[u][other] /\ e[u][i] = d[u][i]
      BY <1>2, <2>4
    <3>2. QED
      BY <1>4, <2>1, <3>1 DEF Restores!Kept, Restores!Accepts, Restores!KeyIsFree, Restores!HasKey
  <2>5. QED
    BY <2>2, <2>3, <2>4
<1>5. ASSUME NEW u \in Restores!Tables, NEW i \in Restores!Ids, e[u][i] # None
      PROVE  Restores!ReferencesExist(e, u, e[u][i])
  <2>1. e[u][i] \in Restores!Values(u)
    BY <1>2, <1>5, RowOf
  <2>2. Restores!ReferencesExist(d, u, e[u][i])
    BY <1>2, <1>5 DEF Restores!Kept, Restores!Accepts
  <2>3. ASSUME NEW r \in Restores!References(u, e[u][i])
        PROVE  e[r[1]][r[2]] # None
    <3>1. r[1] \in Restores!Tables /\ r[2] \in Restores!Ids
      BY <2>1, <2>3, ReferencesOf, RestoreFacts
    <3>2. d[r[1]][r[2]] # None
      BY <2>2, <2>3 DEF Restores!ReferencesExist
    <3>3. QED
      BY <1>2, <1>3, <3>1, <3>2
  <2>4. QED
    BY <2>3 DEF Restores!ReferencesExist
<1>6. QED
  BY <1>1, <1>4, <1>5 DEF Restores!Kept, Restores!Accepts

(* A row that is deleted takes with it the permissions that refer to it. *)
LEMMA DeleteKeeps ==
    ASSUME Restores!IsDatabase(db), Restores!Kept(db), NEW t \in Restores!Tables,
           NEW id \in Restores!Ids, Restores!Delete(t, id)
    PROVE  Restores!IsDatabase(db') /\ Restores!Kept(db')
<1>1. PICK e : e = db'
  OBVIOUS
<1>2. e = Restores!Deleted(db, t, id)
      /\ \A c \in Restores!Ids : ~Restores!Refers(db, "camera", c, <<t, id>>)
  BY <1>1 DEF Restores!Delete
<1>3. \A u \in Restores!Tables : \A i \in Restores!Ids :
        e[u][i] = IF \/ u = t /\ i = id
                     \/ u = "permission" /\ Restores!Refers(db, u, i, <<t, id>>)
                  THEN None ELSE db[u][i]
  BY <1>2 DEF Restores!Deleted
<1>4. Restores!IsDatabase(e)
  <2>1. e = [u \in Restores!Tables |-> e[u]]
    BY <1>2 DEF Restores!Deleted
  <2>2. ASSUME NEW u \in Restores!Tables
        PROVE  e[u] \in Restores!Content(u)
    <3>1. e[u] = [i \in Restores!Ids |-> e[u][i]]
      BY <1>2 DEF Restores!Deleted
    <3>2. \A i \in Restores!Ids : e[u][i] \in Restores!Values(u) \union {None}
      BY <1>3, RowOf
    <3>3. QED
      BY <3>1, <3>2 DEF Restores!Content
  <2>3. QED
    BY <2>1, <2>2 DEF Restores!IsDatabase
<1>5. ASSUME NEW u \in Restores!Tables, NEW i \in Restores!Ids, e[u][i] # None
      PROVE  Restores!Accepts(e, u, i, e[u][i])
  <2>1. e[u][i] = db[u][i]
    BY <1>3, <1>5
  <2>2. Restores!Accepts(db, u, i, e[u][i])
    BY <1>5, <2>1 DEF Restores!Kept
  <2>3. Restores!KeyIsFree(e, u, i, e[u][i])
    <3>1. \A other \in Restores!Ids : e[u][other] # None => e[u][other] = db[u][other]
      BY <1>3
    <3>2. QED
      BY <2>2, <3>1 DEF Restores!Accepts, Restores!KeyIsFree, Restores!HasKey
  <2>4. ASSUME NEW r \in Restores!References(u, e[u][i])
        PROVE  e[r[1]][r[2]] # None
    <3>1. e[u][i] \in Restores!Values(u)
      BY <1>5, <2>1, RowOf
    <3>2. /\ r[1] \in {"site", "user"} /\ r[2] \in Restores!Ids /\ r = <<r[1], r[2]>>
          /\ u \in {"camera", "permission"} /\ r[1] \in Restores!Tables /\ r[1] # "permission"
      BY <2>4, <3>1, ReferencesOf, RestoreFacts
    <3>3. db[r[1]][r[2]] # None
      BY <2>2, <2>4 DEF Restores!Accepts, Restores!ReferencesExist
    <3>4. ~(r[1] = t /\ r[2] = id)
      <4>1. SUFFICES ASSUME r = <<t, id>>
                     PROVE  FALSE
        BY <3>2
      <4>2. Restores!Refers(db, u, i, <<t, id>>)
        BY <1>5, <2>1, <2>4, <4>1 DEF Restores!Refers
      <4>3. QED
        BY <1>2, <1>3, <1>5, <3>2, <4>2
    <3>5. QED
      BY <1>3, <3>2, <3>3, <3>4
  <2>5. QED
    BY <2>3, <2>4 DEF Restores!Accepts, Restores!ReferencesExist
<1>6. QED
  BY <1>1, <1>4, <1>5 DEF Restores!Kept

(* How far a transaction is once it has come to some of the records: each row is as it was or
   as in the archive, those it came to are brought back, and if a statement has failed, the
   archive does not agree with itself or a row of it clashes with one of the system. *)
Brought(mode, d, t, id) ==
    IF mode = "overwrite" THEN d[t][id] = archive[t][id]
    ELSE /\ db[t][id] # None => d[t][id] = db[t][id]
         /\ Restores!Exists(d, t, id, archive[t][id])
Undisputed == Restores!Kept(archive) /\ ~Restores!Clash(db, Restores!Tables)
RestoredSoFar(mode, tx, come) ==
    /\ tx = [rows |-> tx.rows, failed |-> tx.failed] /\ tx.failed \in BOOLEAN
    /\ Restores!IsDatabase(tx.rows) /\ Restores!Kept(tx.rows)
    /\ \A t \in Restores!Tables : \A id \in Restores!Ids :
         /\ tx.rows[t][id] \in {db[t][id], archive[t][id]}
         /\ <<t, id>> \notin come => tx.rows[t][id] = db[t][id]
         /\ <<t, id>> \in come /\ archive[t][id] # None /\ ~tx.failed =>
              Brought(mode, tx.rows, t, id) /\ (Undisputed => tx.rows[t][id] # None)
    /\ tx.failed => ~Undisputed

(* No other row of the transaction has what is unique to a record, if the archive is
   undisputed. *)
LEMMA KeyOfRecordIsFree ==
    ASSUME NEW mode, NEW tx, NEW come, RestoredSoFar(mode, tx, come), Undisputed,
           NEW t \in Restores!Tables, NEW id \in Restores!Ids, archive[t][id] # None
    PROVE  Restores!KeyIsFree(tx.rows, t, id, archive[t][id])
<1>1. SUFFICES ASSUME NEW other \in Restores!Ids, other # id,
                      Restores!HasKey(tx.rows, t, other, archive[t][id])
               PROVE  FALSE
  BY DEF Restores!KeyIsFree
<1>2. tx.rows[t][other] \in {db[t][other], archive[t][other]}
  BY DEF RestoredSoFar
<1>3. CASE tx.rows[t][other] = db[t][other]
  <2>1. Restores!HasKey(db, t, other, archive[t][id])
    BY <1>1, <1>3 DEF Restores!HasKey
  <2>2. QED
    BY <1>1, <2>1 DEF Undisputed, Restores!Clash
<1>4. CASE tx.rows[t][other] = archive[t][other]
  <2>1. Restores!HasKey(archive, t, other, archive[t][id])
    BY <1>1, <1>4 DEF Restores!HasKey
  <2>2. QED
    BY <1>1, <2>1 DEF Undisputed, Restores!Kept, Restores!Accepts, Restores!KeyIsFree
<1>5. QED
  BY <1>2, <1>3, <1>4

(* One more record, of a table whose references it has come to. *)
LEMMA RestoreGoesOn ==
    ASSUME Restores!IsDatabase(db), Restores!IsDatabase(archive), NEW mode \in RestoreModes,
           NEW t \in Restores!Tables, NEW id \in Restores!Ids, NEW tx, NEW come,
           RestoredSoFar(mode, tx, come), <<t, id>> \notin come,
           \A value \in Restores!Values(t) : Restores!References(t, value) \subseteq come,
           NEW after, after = Restores!RestoreFrom(mode, t, id, tx)
    PROVE  RestoredSoFar(mode, after, come \union {<<t, id>>})
<1>1. PICK value : value = archive[t][id]
  OBVIOUS
<1>2. value # None => value \in Restores!Values(t)
  BY <1>1, RowOf
<1>3. /\ tx = [rows |-> tx.rows, failed |-> tx.failed] /\ tx.failed \in BOOLEAN
      /\ Restores!IsDatabase(tx.rows) /\ Restores!Kept(tx.rows)
      /\ tx.rows[t][id] = db[t][id] /\ (tx.failed => ~Undisputed)
      /\ \A u \in Restores!Tables : \A i \in Restores!Ids :
           tx.rows[u][i] \in {db[u][i], archive[u][i]}
  BY DEF RestoredSoFar
<1>4. \A u, i : <<u, i>> \in come \union {<<t, id>>} <=> <<u, i>> \in come \/ (u = t /\ i = id)
  OBVIOUS
<1>5. \A d : [tx EXCEPT !.rows = d] = [rows |-> d, failed |-> tx.failed]
  BY <1>3
<1>6. \A b : [tx EXCEPT !.failed = b] = [rows |-> tx.rows, failed |-> b]
  BY <1>3
<1>7. after = IF value = None \/ tx.failed
                 \/ (mode = "skip-existing" /\ Restores!Exists(tx.rows, t, id, value)) THEN tx
              ELSE IF Restores!Accepts(tx.rows, t, id, value)
              THEN [rows |-> Restores!Put(tx.rows, t, id, value), failed |-> tx.failed]
              ELSE [rows |-> tx.rows, failed |-> TRUE]
  BY <1>1, <1>5, <1>6 DEF Restores!RestoreFrom, Restores!RestoreRecord
<1>8. Undisputed /\ value # None => Restores!KeyIsFree(tx.rows, t, id, value)
  BY <1>1, KeyOfRecordIsFree
<1>9. CASE value = None \/ tx.failed
  <2>1. after = tx
    BY <1>7, <1>9
  <2>2. QED
    BY <1>1, <1>4, <1>9, <2>1 DEF RestoredSoFar
<1>10. CASE /\ value # None /\ ~tx.failed
            /\ mode = "skip-existing" /\ Restores!Exists(tx.rows, t, id, value)
  <2>1. after = tx
    BY <1>7, <1>10
  <2>2. Brought(mode, tx.rows, t, id)
    BY <1>1, <1>3, <1>10 DEF Brought
  <2>3. Undisputed => tx.rows[t][id] # None
    <3>1. SUFFICES ASSUME Undisputed, tx.rows[t][id] = None
                   PROVE  FALSE
      OBVIOUS
    <3>2. PICK other \in Restores!Ids : Restores!HasKey(tx.rows, t, other, value)
      BY <1>10, <3>1 DEF Restores!Exists
    <3>3. other # id
      BY <3>1, <3>2 DEF Restores!HasKey
    <3>4. QED
      BY <1>8, <1>10, <3>1, <3>2, <3>3 DEF Restores!KeyIsFree
  <2>4. QED
    BY <1>1, <1>4, <2>1, <2>2, <2>3 DEF RestoredSoFar
<1>11. CASE /\ value # None /\ ~tx.failed /\ Restores!Accepts(tx.rows, t, id, value)
            /\ ~(mode = "skip-existing" /\ Restores!Exists(tx.rows, t, id, value))
  <2>1. PICK put : put = Restores!Put(tx.rows, t, id, value)
    OBVIOUS
  <2>2. after = [rows |-> put, failed |-> FALSE]
    BY <1>3, <1>7, <1>11, <2>1
  <2>3. /\ Restores!IsDatabase(put)
        /\ \A u \in Restores!Tables : \A i \in Restores!Ids :
             put[u][i] = IF u = t /\ i = id THEN value ELSE tx.rows[u][i]
    BY <1>2, <1>3, <1>11, <2>1, PutFacts
  <2>4. Restores!Kept(put)
    BY <1>2, <1>3, <1>11, <2>1, PutKeeps
  <2>5. mode = "skip-existing" => tx.rows[t][id] = None
    BY <1>11 DEF Restores!Exists
  <2>6. Brought(mode, put, t, id)
    BY <1>1, <1>3, <1>11, <2>3, <2>5 DEF Brought, Restores!Exists, RestoreModes
  <2>7. ASSUME NEW u \in Restores!Tables, NEW i \in Restores!Ids, ~(u = t /\ i = id),
               Brought(mode, tx.rows, u, i)
        PROVE  Brought(mode, put, u, i)
    <3>1. put[u][i] = tx.rows[u][i]
      BY <2>3, <2>7
    <3>2. CASE mode = "overwrite"
      BY <2>7, <3>1, <3>2 DEF Brought
    <3>3. CASE mode # "overwrite"
      <4>1. \A other \in Restores!Ids : tx.rows[u][other] # None => put[u][other] = tx.rows[u][other]
        BY <2>3, <2>5, <3>3 DEF RestoreModes
      <4>2. Restores!Exists(put, u, i, archive[u][i])
        BY <2>7, <3>1, <3>3, <4>1 DEF Brought, Restores!Exists, Restores!HasKey
      <4>3. QED
        BY <2>7, <3>1, <3>3, <4>2 DEF Brought
    <3>4. QED
      BY <3>2, <3>3
  <2>8. after.rows = put /\ after.failed = FALSE
    BY <2>2
  <2>9. ASSUME NEW u \in Restores!Tables, NEW i \in Restores!Ids
        PROVE  /\ put[u][i] \in {db[u][i], archive[u][i]}
               /\ <<u, i>> \notin come \union {<<t, id>>} => put[u][i] = db[u][i]
               /\ <<u, i>> \in come \union {<<t, id>>} /\ archive[u][i] # None =>
                    Brought(mode, put, u, i) /\ (Undisputed => put[u][i] # None)
    <3>1. CASE u = t /\ i = id
      BY <1>1, <1>4, <1>11, <2>3, <2>6, <3>1
    <3>2. CASE ~(u = t /\ i = id)
      <4>1. put[u][i] = tx.rows[u][i]
        BY <2>3, <3>2
      <4>2. QED
        BY <1>4, <1>11, <2>7, <3>2, <4>1 DEF RestoredSoFar
    <3>3. QED
      BY <3>1, <3>2
  <2>10. QED
    BY <2>2, <2>3, <2>4, <2>8, <2>9 DEF RestoredSoFar
<1>12. CASE /\ value # None /\ ~tx.failed /\ ~Restores!Accepts(tx.rows, t, id, value)
            /\ ~(mode = "skip-existing" /\ Restores!Exists(tx.rows, t, id, value))
  <2>1. after = [rows |-> tx.rows, failed |-> TRUE] /\ after.rows = tx.rows /\ after.failed
    BY <1>7, <1>12
  <2>2. ~Undisputed
    <3>1. SUFFICES ASSUME Undisputed
                   PROVE  Restores!ReferencesExist(tx.rows, t, value)
      BY <1>8, <1>12 DEF Restores!Accepts
    <3>2. SUFFICES ASSUME NEW r \in Restores!References(t, value)
                   PROVE  tx.rows[r[1]][r[2]] # None
      BY DEF Restores!ReferencesExist
    <3>3. /\ r[1] \in Restores!Tables /\ r[2] \in Restores!Ids /\ r = <<r[1], r[2]>>
          /\ r \in come
      BY <1>2, <1>12, <3>2, ReferencesOf, RestoreFacts
    <3>4. archive[r[1]][r[2]] # None
      BY <1>1, <1>12, <3>1, <3>2
         DEF Undisputed, Restores!Kept, Restores!Accepts, Restores!ReferencesExist
    <3>5. QED
      BY <1>12, <3>1, <3>3, <3>4 DEF RestoredSoFar
  <2>3. QED
    BY <1>3, <1>4, <2>1, <2>2 DEF RestoredSoFar
<1>13. QED
  BY <1>9, <1>10, <1>11, <1>12

(* What a transaction leaves: every row of the archive if none of its statements failed, and one
   fails only if two rows of the archive do not agree or one clashes with a row of the system. *)
LEMMA TransactionFacts ==
    ASSUME Restores!IsDatabase(db), Restores!IsDatabase(archive), Restores!Kept(db),
           NEW mode \in RestoreModes
    PROVE  \E come : /\ RestoredSoFar(mode, Restores!Transaction(mode), come)
                     /\ \A t \in Restores!Tables : \A id \in Restores!Ids : <<t, id>> \in come
<1> DEFINE Array(t, tx) == Restores!RestoreModelArray(mode, t, tx)
           Refs(t, come) ==
             \A value \in Restores!Values(t) : Restores!References(t, value) \subseteq come
<1>1. ASSUME NEW t \in Restores!Tables, NEW tx, NEW come, RestoredSoFar(mode, tx, come),
             Refs(t, come), <<t, 1>> \notin come, <<t, 2>> \notin come
      PROVE  RestoredSoFar(mode, Array(t, tx), come \union {<<t, 1>>, <<t, 2>>})
  <2>1. PICK one : one = Restores!RestoreFrom(mode, t, 1, tx)
    OBVIOUS
  <2>2. 1 \in Restores!Ids /\ 2 \in Restores!Ids
    BY RestoreFacts
  <2>3. RestoredSoFar(mode, one, come \union {<<t, 1>>})
    BY <1>1, <2>1, <2>2, RestoreGoesOn
  <2>4. PICK both : both = Restores!RestoreFrom(mode, t, 2, one)
    OBVIOUS
  <2>5. <<t, 2>> \notin come \union {<<t, 1>>} /\ Refs(t, come \union {<<t, 1>>})
    BY <1>1
  <2>6. RestoredSoFar(mode, both, (come \union {<<t, 1>>}) \union {<<t, 2>>})
    BY <2>2, <2>3, <2>4, <2>5, RestoreGoesOn
  <2>7. (come \union {<<t, 1>>}) \union {<<t, 2>>} = come \union {<<t, 1>>, <<t, 2>>}
    OBVIOUS
  <2>8. Array(t, tx) = both
    BY <2>1, <2>4 DEF Restores!RestoreModelArray
  <2>9. QED
    BY <2>6, <2>7, <2>8
<1>2. ASSUME NEW t \in {"site", "user"}, NEW come
      PROVE  Refs(t, come)
  <2>1. \A value : Restores!References(t, value) = {}
    BY <1>2 DEF Restores!References
  <2>2. QED
    BY <2>1
<1>3. \A come : <<"site", 1>> \in come /\ <<"site", 2>> \in come => Refs("camera", come)
  <2>1. SUFFICES ASSUME NEW come, <<"site", 1>> \in come, <<"site", 2>> \in come,
                        NEW value \in Restores!Values("camera"),
                        NEW r \in Restores!References("camera", value)
                 PROVE  r \in come
    OBVIOUS
  <2>2. r[1] = "site" /\ r[2] \in Restores!Ids /\ r = <<r[1], r[2]>>
    BY <2>1, ReferencesOf, RestoreFacts
  <2>3. QED
    BY <2>1, <2>2, RestoreFacts
<1>4. ASSUME NEW come, <<"site", 1>> \in come, <<"site", 2>> \in come,
             <<"user", 1>> \in come, <<"user", 2>> \in come
      PROVE  Refs("permission", come)
  <2>1. SUFFICES ASSUME NEW value \in Restores!Values("permission"),
                        NEW r \in Restores!References("permission", value)
                 PROVE  r \in come
    OBVIOUS
  <2>2. r[1] \in {"site", "user"} /\ r[2] \in Restores!Ids /\ r = <<r[1], r[2]>>
    BY <2>1, ReferencesOf, RestoreFacts
  <2>3. QED
    BY <1>4, <2>2, RestoreFacts
<1> HIDE DEF Refs, Array
<1>5. RestoredSoFar(mode, Restores!Opened, {})
  <2>1. PICK opened : opened = [rows |-> db, failed |-> FALSE]
    OBVIOUS
  <2>2. RestoredSoFar(mode, opened, {})
    BY <2>1 DEF RestoredSoFar
  <2>3. QED
    BY <2>1, <2>2 DEF Restores!Opened
<1>6. PICK tx1 : tx1 = Array("site", Restores!Opened)
  OBVIOUS
<1>7. PICK tx2 : tx2 = Array("user", tx1)
  OBVIOUS
<1>8. PICK tx3 : tx3 = Array("camera", tx2)
  OBVIOUS
<1>9. PICK tx4 : tx4 = Array("permission", tx3)
  OBVIOUS
<1>10. RestoredSoFar(mode, tx1, {} \union {<<"site", 1>>, <<"site", 2>>})
  BY <1>1, <1>2, <1>5, <1>6, RestoreFacts
<1>11. PICK come1 : come1 = {} \union {<<"site", 1>>, <<"site", 2>>}
  OBVIOUS
<1>12. PICK come2 : come2 = come1 \union {<<"user", 1>>, <<"user", 2>>}
  OBVIOUS
<1>13. PICK come3 : come3 = come2 \union {<<"camera", 1>>, <<"camera", 2>>}
  OBVIOUS
<1>14. PICK come4 : come4 = come3 \union {<<"permission", 1>>, <<"permission", 2>>}
  OBVIOUS
<1>15. RestoredSoFar(mode, tx2, come2)
  <2>1. <<"user", 1>> \notin come1 /\ <<"user", 2>> \notin come1
    BY <1>11
  <2>2. QED
    BY <1>1, <1>2, <1>7, <1>10, <1>11, <1>12, <2>1, RestoreFacts
<1>16. RestoredSoFar(mode, tx3, come3)
  <2>1. <<"camera", 1>> \notin come2 /\ <<"camera", 2>> \notin come2
    BY <1>11, <1>12
  <2>2. Refs("camera", come2)
    BY <1>3, <1>11, <1>12
  <2>3. QED
    BY <1>1, <1>8, <1>13, <1>15, <2>1, <2>2, RestoreFacts
<1>17. RestoredSoFar(mode, tx4, come4)
  <2>1. <<"permission", 1>> \notin come3 /\ <<"permission", 2>> \notin come3
    BY <1>11, <1>12, <1>13
  <2>2. Refs("permission", come3)
    BY <1>4, <1>11, <1>12, <1>13
  <2>3. QED
    BY <1>1, <1>9, <1>14, <1>16, <2>1, <2>2, RestoreFacts
<1>18. Restores!Transaction(mode) = tx4
  BY <1>6, <1>7, <1>8, <1>9 DEF Restores!Transaction, Array
<1>19. \A t \in Restores!Tables : \A id \in Restores!Ids : <<t, id>> \in come4
  BY <1>11, <1>12, <1>13, <1>14, RestoreFacts
<1>20. QED
  BY <1>17, <1>18, <1>19

(* The rows of a system that was set up. *)
LEMMA FreshIsKept ==
    ASSUME NEW name \in Usernames, NEW site \in Usernames \union {None}, NEW id \in Restores!Ids
    PROVE  /\ Restores!IsDatabase(Restores!Fresh(name, site, id))
           /\ Restores!Kept(Restores!Fresh(name, site, id))
<1>1. PICK d : d = Restores!Fresh(name, site, id)
  OBVIOUS
<1>2. \A t \in Restores!Tables : \A i \in Restores!Ids :
        d[t][i] = IF t = "user" /\ i = id THEN name ELSE IF t = "site" /\ i = id THEN site ELSE None
  BY <1>1 DEF Restores!Fresh
<1>3. Restores!IsDatabase(d)
  <2>1. d = [t \in Restores!Tables |-> d[t]]
    BY <1>1 DEF Restores!Fresh
  <2>2. ASSUME NEW t \in Restores!Tables
        PROVE  d[t] \in Restores!Content(t)
    <3>1. d[t] = [i \in Restores!Ids |-> d[t][i]]
      BY <1>1 DEF Restores!Fresh
    <3>2. \A i \in Restores!Ids : d[t][i] \in Restores!Values(t) \union {None}
      BY <1>2 DEF Restores!Values
    <3>3. QED
      BY <3>1, <3>2 DEF Restores!Content
  <2>3. QED
    BY <2>1, <2>2 DEF Restores!IsDatabase
<1>4. ASSUME NEW t \in Restores!Tables, NEW i \in Restores!Ids, d[t][i] # None
      PROVE  Restores!Accepts(d, t, i, d[t][i])
  <2>1. t \in {"site", "user"} /\ i = id /\ \A other \in Restores!Ids \ {i} : d[t][other] = None
    BY <1>2, <1>4
  <2>2. QED
    BY <2>1 DEF Restores!Accepts, Restores!KeyIsFree, Restores!HasKey, Restores!ReferencesExist,
       Restores!References
<1>5. QED
  BY <1>1, <1>3, <1>4 DEF Restores!Kept

LEMMA RestoresStart == Restores!RestoreInit => Restores!RestoreInv
<1> SUFFICES ASSUME Restores!RestoreInit
             PROVE  Restores!RestoreInv
  OBVIOUS
<1>1. PICK name \in Usernames, site \in Usernames \union {None} :
        db = Restores!Fresh(name, site, 1)
  BY DEF Restores!RestoreInit
<1>2. Restores!IsDatabase(db) /\ Restores!Kept(db)
  BY <1>1, FreshIsKept, RestoreFacts
<1>3. 0 \in 0..MaxWrites /\ idsGiven \in [Restores!Tables -> SUBSET Restores!Ids]
  BY RestoreFacts DEF Restores!RestoreInit
<1>4. QED
  BY <1>2, <1>3 DEF Restores!RestoreInit, Restores!RestoreInv, Restores!RestoreTypeOK

(* A restore answers as it should, and leaves rows that the constraints accept. *)
LEMMA RestoreIsRight ==
    ASSUME Restores!RestoreInv, NEW mode \in RestoreModes, Restores!Restore(mode)
    PROVE  /\ Restores!IsDatabase(db') /\ Restores!Kept(db')
           /\ restore'.ok \in BOOLEAN
           /\ Restores!AnswerOfRestore
<1>1. /\ Restores!IsDatabase(archive) /\ Restores!IsDatabase(db) /\ Restores!Kept(db)
      /\ (~torn => Restores!Kept(archive)) /\ torn \in BOOLEAN
  BY DEF Restores!RestoreInv, Restores!RestoreTypeOK, Restores!Restore
<1>2. PICK after : after = Restores!Transaction(mode)
  OBVIOUS
<1>3. PICK come : /\ RestoredSoFar(mode, after, come)
                  /\ \A t \in Restores!Tables : \A id \in Restores!Ids : <<t, id>> \in come
  BY <1>1, <1>2, TransactionFacts
<1>4. /\ db' = IF after.failed THEN db ELSE after.rows
      /\ restore' = [mode |-> mode, before |-> db, ok |-> ~after.failed]
  BY <1>2 DEF Restores!Restore, Restores!Answered
<1>5. PICK ok : ok = ~after.failed
  OBVIOUS
<1>6. restore'.mode = mode /\ restore'.before = db /\ restore'.ok = ok
  BY <1>4, <1>5
<1>7. /\ after.failed \in BOOLEAN /\ Restores!IsDatabase(after.rows) /\ Restores!Kept(after.rows)
      /\ (after.failed => ~Undisputed)
      /\ ~after.failed => \A t \in Restores!Tables : \A id \in Restores!Ids :
            archive[t][id] # None => Brought(mode, after.rows, t, id)
  BY <1>3 DEF RestoredSoFar
<1>8. PICK next : next = db'
  OBVIOUS
<1>9. Restores!AnswerOfRestore
  <2>1. CASE after.failed
    <3>1. db' = db /\ ~restore'.ok /\ (torn \/ Restores!Clash(db, Restores!Tables))
      BY <1>1, <1>4, <1>5, <1>6, <1>7, <2>1 DEF Undisputed
    <3>2. QED
      BY <1>6, <3>1 DEF Restores!AnswerOfRestore
  <2>2. CASE ~after.failed
    <3>1. next = after.rows /\ restore'.ok
      BY <1>4, <1>5, <1>6, <1>8, <2>2
    <3>2. \A t \in Restores!Tables : \A id \in Restores!Ids : archive[t][id] # None =>
            IF mode = "overwrite" THEN next[t][id] = archive[t][id]
            ELSE /\ db[t][id] # None => next[t][id] = db[t][id]
                 /\ Restores!Exists(next, t, id, archive[t][id])
      BY <1>7, <2>2, <3>1 DEF Brought
    <3>3. QED
      BY <1>6, <1>8, <3>1, <3>2 DEF Restores!AnswerOfRestore
  <2>3. QED
    BY <2>1, <2>2
<1>10. Restores!IsDatabase(next) /\ Restores!Kept(next)
  BY <1>1, <1>4, <1>7, <1>8
<1>11. QED
  BY <1>5, <1>6, <1>8, <1>9, <1>10

LEMMA RestoresStep ==
    ASSUME Restores!RestoreInv, [Restores!RestoreNext]_restoresVars
    PROVE  Restores!RestoreInv'
<1> DEFINE Whole(d) == Restores!IsDatabase(d) /\ Restores!Kept(d)
           Partly(d) == /\ d = [t \in Restores!Tables |-> d[t]]
                        /\ \A t \in Restores!Tables : d[t] \in Restores!Content(t) \union {None}
<1>1. /\ Whole(db) /\ idsGiven \in [Restores!Tables -> SUBSET Restores!Ids]
      /\ reading # None => /\ Partly(reading) /\ archive = None
                           /\ ~torn => \A t \in Restores!Tables : reading[t] \in {None, db[t]}
      /\ archive # None => Restores!IsDatabase(archive) /\ (~torn => Restores!Kept(archive))
      /\ torn \in BOOLEAN /\ writes \in 0..MaxWrites
      /\ restore # None => restore.ok \in BOOLEAN
  BY DEF Restores!RestoreInv, Restores!RestoreTypeOK
<1>2. MaxWrites \in Nat
  BY RestoreFacts
(* Any step keeps the invariant that keeps its parts, for what they become. *)
<1>a. ASSUME NEW db2, db2 = db', NEW reading2, reading2 = reading', NEW archive2,
             archive2 = archive', Whole(db2),
             idsGiven' \in [Restores!Tables -> SUBSET Restores!Ids],
             reading2 # None =>
                /\ Partly(reading2) /\ archive2 = None
                /\ ~torn' => \A t \in Restores!Tables : reading2[t] \in {None, db2[t]},
             archive2 # None => Restores!IsDatabase(archive2) /\ (~torn' => Restores!Kept(archive2)),
             torn' \in BOOLEAN, writes' \in 0..MaxWrites,
             restore' # None => restore'.ok \in BOOLEAN
      PROVE  Restores!RestoreInv'
  BY <1>a DEF Restores!RestoreInv, Restores!RestoreTypeOK
<1>3. CASE UNCHANGED restoresVars
  <2>1. UNCHANGED <<db, idsGiven, reading, archive, torn, restore, writes>>
    BY <1>3 DEF restoresVars
  <2>2. PICK db2, reading2, archive2 : db2 = db /\ reading2 = reading /\ archive2 = archive
    OBVIOUS
  <2> HIDE DEF Whole, Partly
  <2>3. Whole(db2) /\ (reading2 # None => Partly(reading2))
    BY <1>1, <2>2
  <2>4. QED
    BY <1>1, <1>a, <2>1, <2>2, <2>3
<1>4. CASE Restores!Write
  <2>1. PICK t \in Restores!Tables : \E id \in Restores!Ids :
          \/ Restores!Delete(t, id)
          \/ \E value \in Restores!Values(t) :
                Restores!Add(t, id, value) \/ Restores!Change(t, id, value)
    BY <1>4 DEF Restores!Write
  <2>2. PICK id \in Restores!Ids :
          \/ Restores!Delete(t, id)
          \/ \E value \in Restores!Values(t) :
                Restores!Add(t, id, value) \/ Restores!Change(t, id, value)
    BY <2>1
  <2>3. PICK db2 : db2 = db'
    OBVIOUS
  <2>4. Whole(db2) /\ idsGiven' \in [Restores!Tables -> SUBSET Restores!Ids]
    <3>1. CASE Restores!Delete(t, id)
      BY <1>1, <2>3, <3>1, DeleteKeeps DEF Restores!Delete
    <3>2. ASSUME NEW value \in Restores!Values(t),
                 Restores!Add(t, id, value) \/ Restores!Change(t, id, value)
          PROVE  Whole(db2) /\ idsGiven' \in [Restores!Tables -> SUBSET Restores!Ids]
      <4>1. Restores!Accepts(db, t, id, value) /\ db2 = Restores!Put(db, t, id, value)
            /\ idsGiven' \in {idsGiven, [idsGiven EXCEPT ![t] = @ \union {id}]}
        BY <2>3, <3>2 DEF Restores!Add, Restores!Change
      <4>2. Restores!IsDatabase(db2)
        BY <1>1, <4>1, PutFacts
      <4>3. Restores!Kept(db2)
        BY <1>1, <4>1, PutKeeps
      <4>4. QED
        BY <1>1, <4>1, <4>2, <4>3
    <3>3. QED
      BY <2>2, <3>1, <3>2
  <2>5. /\ writes < MaxWrites /\ writes' = writes + 1 /\ torn' = (torn \/ reading # None)
        /\ UNCHANGED <<reading, archive, restore>>
    BY <1>4 DEF Restores!Write
  <2>6. writes' \in 0..MaxWrites
    BY <1>1, <1>2, <2>5
  <2>7. torn' \in BOOLEAN /\ (~torn' => ~torn /\ reading = None)
    BY <1>1, <2>5
  <2>8. PICK reading2, archive2 : reading2 = reading /\ archive2 = archive
    OBVIOUS
  <2> HIDE DEF Whole, Partly
  <2>9. QED
    BY <1>1, <1>a, <2>3, <2>4, <2>5, <2>6, <2>7, <2>8
<1>5. CASE Restores!BeginBackup
  <2>1. /\ reading' = [t \in Restores!Tables |-> None] /\ ~torn' /\ archive = None
        /\ torn' \in BOOLEAN /\ UNCHANGED <<db, idsGiven, archive, restore, writes>>
    BY <1>5 DEF Restores!BeginBackup
  <2>2. PICK db2, reading2, archive2 :
          db2 = db /\ archive2 = archive /\ reading2 = [t \in Restores!Tables |-> None]
    OBVIOUS
  <2>3. Partly(reading2) /\ \A t \in Restores!Tables : reading2[t] = None
    BY <2>2
  <2> HIDE DEF Whole, Partly
  <2>4. QED
    BY <1>1, <1>a, <2>1, <2>2, <2>3
<1>6. ASSUME NEW t \in Restores!Tables, Restores!FindMany(t)
      PROVE  Restores!RestoreInv'
  <2>1. /\ reading # None /\ reading' = [reading EXCEPT ![t] = db[t]]
        /\ UNCHANGED <<db, idsGiven, archive, torn, restore, writes>>
    BY <1>6 DEF Restores!FindMany
  <2>2. PICK db2, reading2, archive2 : db2 = db /\ archive2 = archive /\ reading2 = reading'
    OBVIOUS
  <2>3. DOMAIN reading = Restores!Tables /\ db[t] \in Restores!Content(t)
    BY <1>1, <2>1 DEF Restores!IsDatabase
  <2>4. reading2 = [u \in Restores!Tables |-> IF u = t THEN db[t] ELSE reading[u]]
    BY <2>1, <2>2, <2>3
  <2>5. Partly(reading2) /\ \A u \in Restores!Tables : reading2[u] \in {reading[u], db[u]}
    BY <1>1, <2>1, <2>3, <2>4
  <2> HIDE DEF Whole, Partly
  <2>6. QED
    BY <1>1, <1>a, <2>1, <2>2, <2>5
<1>7. CASE Restores!BuildArchive
  <2>1. /\ reading # None /\ \A t \in Restores!Tables : reading[t] # None
        /\ archive' = reading /\ reading' = None
        /\ UNCHANGED <<db, idsGiven, torn, restore, writes>>
    BY <1>7 DEF Restores!BuildArchive
  <2>2. PICK db2, archive2 : db2 = db /\ archive2 = reading
    OBVIOUS
  <2>3. Restores!IsDatabase(archive2)
    BY <1>1, <2>1, <2>2 DEF Restores!IsDatabase
  <2>4. ~torn => archive2 = db2
    BY <1>1, <2>1, <2>2, <2>3 DEF Restores!IsDatabase
  <2>5. ~torn => Restores!Kept(archive2)
    BY <1>1, <2>2, <2>4
  <2> HIDE DEF Whole, Partly
  <2>6. QED
    BY <1>1, <1>a, <2>1, <2>2, <2>3, <2>5
<1>8. CASE Restores!Reinstall
  <2>1. PICK name \in Usernames, site \in Usernames \union {None} :
          db' = Restores!Fresh(name, site, 2)
    BY <1>8 DEF Restores!Reinstall
  <2>2. PICK db2, reading2, archive2 :
          db2 = Restores!Fresh(name, site, 2) /\ reading2 = reading /\ archive2 = archive
    OBVIOUS
  <2>3. Whole(db2)
    BY <2>2, FreshIsKept, RestoreFacts
  <2>4. /\ archive # None /\ UNCHANGED <<reading, archive, torn, restore, writes>>
        /\ idsGiven' \in [Restores!Tables -> SUBSET Restores!Ids]
    BY <1>1, <1>8 DEF Restores!Reinstall
  <2> HIDE DEF Whole, Partly
  <2>5. QED
    BY <1>1, <1>a, <2>1, <2>2, <2>3, <2>4
<1>9. ASSUME NEW mode \in RestoreModes, Restores!Restore(mode)
      PROVE  Restores!RestoreInv'
  <2>1. PICK db2, reading2, archive2 : db2 = db' /\ reading2 = reading /\ archive2 = archive
    OBVIOUS
  <2>2. Restores!IsDatabase(db') /\ Restores!Kept(db') /\ restore'.ok \in BOOLEAN
    BY <1>9, RestoreIsRight
  <2>3. Whole(db2)
    BY <2>1, <2>2
  <2>4. archive # None /\ UNCHANGED <<idsGiven, reading, archive, torn, writes>>
    BY <1>9 DEF Restores!Restore
  <2> HIDE DEF Whole, Partly
  <2>5. QED
    BY <1>1, <1>a, <2>1, <2>2, <2>3, <2>4
<1>10. QED
  BY <1>3, <1>4, <1>5, <1>6, <1>7, <1>8, <1>9 DEF Restores!RestoreNext, RestoreModes

(* The invariant of archives and restores holds while their part of the server moves. *)
THEOREM RestoresConsistent == Spec => [](part = "restores" => Restores!RestoreInv)
<1>1. Init => (part = "restores" => Restores!RestoreInv)
  BY RestoresStart DEF Init
<1>2. (part = "restores" => Restores!RestoreInv) /\ [Next]_vars
        => (part = "restores" => Restores!RestoreInv)'
  <2>1. SUFFICES ASSUME part = "restores" => Restores!RestoreInv, [Next]_vars, part' = "restores"
                 PROVE  Restores!RestoreInv'
    OBVIOUS
  <2>2. part = "restores" /\ [Restores!RestoreNext]_restoresVars
    BY <2>1 DEF Next, vars
  <2>3. QED
    BY <2>1, <2>2, RestoresStep
<1>3. QED
  BY <1>1, <1>2, PTL DEF Spec

(* A restore that is answered with success has brought back every row of the archive; one that
   is refused has changed nothing, and was refused because the archive is torn or because a
   name, a path or a grant of it is by now that of another row. *)
THEOREM RestoresAnswerRight == Spec => RestoreAnswered
<1>1. (part = "restores" => Restores!RestoreInv) /\ [Next]_vars
        => [part = "restores" => Restores!AnswerOfRestore]_vars
  <2>1. SUFFICES ASSUME part = "restores" => Restores!RestoreInv, Next, part = "restores"
                 PROVE  Restores!AnswerOfRestore
    OBVIOUS
  <2>2. Restores!RestoreInv /\ Restores!RestoreNext
    BY <2>1 DEF Next
  <2>3. ASSUME NEW mode \in RestoreModes, Restores!Restore(mode)
        PROVE  Restores!AnswerOfRestore
    BY <2>2, <2>3, RestoreIsRight
  <2>4. CASE restore' = restore
    BY <2>4 DEF Restores!AnswerOfRestore
  <2>5. QED
    BY <2>2, <2>3, <2>4 DEF Restores!RestoreNext, Restores!Write, Restores!BeginBackup,
       Restores!FindMany, Restores!BuildArchive, Restores!Reinstall, RestoreModes
<1>2. QED
  BY <1>1, RestoresConsistent, PTL DEF Spec, RestoreAnswered
=================================================================================
