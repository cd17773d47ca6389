-------------------------- MODULE CameraHealthProofs --------------------------
(***************************************************************************)
(* Theorems about CameraHealth, for any number of cameras and sites, with  *)
(* or without a host to probe, and any number of moves and restarts.       *)
(***************************************************************************)
EXTENDS CameraHealth, FiniteSetTheorems, TLAPS

(* One more sample: nextCameraStatus keeps a memory in order, and a change of status is
   buffered for announcement unless it is the first sight of a healthy camera. *)
LEMMA SampleFacts ==
    ASSUME NEW c \in Cameras, NEW m \in Memories, NEW sample \in Samples(c), Earned(m)
    PROVE  LET next == NextMemory(c, m, sample)
               change == Transition(m.status, next.status)
           IN  /\ next \in Memories
               /\ Earned(next)
               /\ next.net # "NOT_APPLICABLE" => c \in Probed
               /\ change \in Failing \cup {"ONLINE", "none"}
               /\ change # "none" => change = next.status
               /\ change = "none" => \/ next.status = m.status
                                     \/ m.status = "UNKNOWN" /\ next.status = "ONLINE"
<1> USE HealthAssumption DEF Memories, Statuses, Failing, Confirmed, Never
<1> DEFINE next == NextMemory(c, m, sample)
<1>1. sample \in {"healthy", "poor", "unreachable"} /\ (sample = "unreachable" => c \in Probed)
  BY DEF Samples
<1>2. /\ NextStatus(m, sample) \in Statuses
      /\ NextOfflineFor(m, sample) \in Never..OfflineAfter
      /\ OneMore(m.failures) \in 0..Confirmed
      /\ NetworkCheck(c, sample) \in {"NOT_APPLICABLE", "PASSED", "FAILED"}
      /\ NetworkCheck(c, sample) # "NOT_APPLICABLE" <=> c \in Probed
      /\ NetworkCheck(c, sample) = "FAILED" <=> sample = "unreachable"
  BY <1>1 DEF NextStatus, NextOfflineFor, OneMore, NetworkCheck
<1>3. next \in Memories /\ next.status = NextStatus(m, sample)
  BY <1>2 DEF NextMemory
<1>4. Earned(next)
  <2>1. next.status \in Failing <=> next.failures = Confirmed
    BY <1>1 DEF NextMemory, NextStatus, OneMore, Earned
  <2>2. next.offlineFor # Never <=> next.net = "FAILED"
    BY <1>1, <1>2 DEF NextMemory, NextOfflineFor
  <2>3. next.status = "OFFLINE" => next.offlineFor >= OfflineAfter
    BY <1>1 DEF NextMemory, NextStatus, NextOfflineFor, OneMore, Earned
  <2> QED  BY <2>1, <2>2, <2>3 DEF Earned
<1>5. next.net # "NOT_APPLICABLE" => c \in Probed
  BY <1>2 DEF NextMemory
<1>6. /\ Transition(m.status, next.status) \in {next.status, "none"}
      /\ Transition(m.status, next.status) = "none" =>
            \/ next.status = m.status
            \/ m.status = "UNKNOWN" /\ next.status = "ONLINE"
  BY <1>3 DEF Transition
<1>7. Transition(m.status, next.status) # "UNKNOWN"
  BY <1>1, <1>3 DEF Transition, NextStatus
<1> QED  BY <1>3, <1>4, <1>5, <1>6, <1>7

(* A memory that grows older keeps everything but the time the camera is unreachable. *)
LEMMA OlderFacts ==
    ASSUME NEW m \in Memories \cup {NoMemory}, Earned(m)
    PROVE  /\ Older(m) \in Memories \cup {NoMemory}
           /\ Older(m) = NoMemory <=> m = NoMemory
           /\ Older(m).status = m.status /\ Older(m).net = m.net
           /\ Earned(Older(m))
<1> USE HealthAssumption DEF Memories, Statuses, Failing, Confirmed, Never, NoMemory
<1>1. CASE m = NoMemory
  BY <1>1 DEF Older, Earned
<1>2. CASE m \in Memories
  <2>1. Older(m) \in Memories  BY <1>2 DEF Older
  <2>2. Older(m).status = m.status /\ Older(m).net = m.net  BY DEF Older
  <2>3. Earned(Older(m))  BY <1>2 DEF Older, Earned
  <2> QED  BY <1>2, <2>1, <2>2, <2>3
<1> QED  BY <1>1, <1>2

-------------------------------------------------------------------------------
(* Each step preserves the invariant. *)

Inv == TypeOK /\ HealthInv

(* What the proofs below use of the constants of the state space *)
LEMMA NoMemoryFacts ==
    /\ NoMemory \notin Memories
    /\ NoMemory.status \notin Failing /\ NoMemory.net = "NOT_APPLICABLE"
    /\ Earned(NoMemory) /\ Earned(InitialMemory)
    /\ InitialMemory \in Memories /\ InitialMemory # NoMemory
    /\ InitialMemory.status = "UNKNOWN" /\ InitialMemory.net = "NOT_APPLICABLE"
BY HealthAssumption
   DEF NoMemory, InitialMemory, Memories, Statuses, Failing, Earned, Confirmed, Never

LEMMA AddCameraPreserves ==
    ASSUME Inv, NEW c \in Cameras, NEW s \in Places, AddCamera(c, s)
    PROVE  Inv'
<1> USE NoMemoryFacts, HealthAssumption DEF Inv, HealthInv, TypeOK, cycleVars, historyVars
<1>1. TypeOK'
  BY DEF AddCamera, Places, Statuses
<1>2. MemoryInv'
  BY DEF AddCamera, MemoryInv
<1>3. CycleInv'
  BY DEF AddCamera, CycleInv, Resurfacing, LinkOf
<1>4. RowInv'
  BY DEF AddCamera, RowInv
<1>5. AnnouncementInv'
  BY DEF AddCamera, AnnouncementInv, RowInv, Failing
<1>6. OnlyListedIsKnown'
  BY DEF AddCamera, OnlyListedIsKnown, CycleInv
<1>7. SilenceInv'
  BY DEF AddCamera, SilenceInv, Silent
<1> QED  BY <1>1, <1>2, <1>3, <1>4, <1>5, <1>6, <1>7

LEMMA MoveCameraPreserves ==
    ASSUME Inv, NEW c \in Cameras, NEW s \in Places, MoveCamera(c, s)
    PROVE  Inv'
<1> USE NoMemoryFacts, HealthAssumption DEF Inv, HealthInv, TypeOK, cycleVars, historyVars
<1>1. TypeOK'
  BY DEF MoveCamera, Places, Statuses
<1>2. MemoryInv'
  BY DEF MoveCamera, MemoryInv
<1>3. CycleInv'
  BY DEF MoveCamera, CycleInv, Resurfacing, LinkOf
<1>4. RowInv'
  BY DEF MoveCamera, RowInv
<1>5. AnnouncementInv'
  BY DEF MoveCamera, AnnouncementInv, RowInv, Failing
<1>6. OnlyListedIsKnown'
  BY DEF MoveCamera, OnlyListedIsKnown, CycleInv
<1>7. SilenceInv'
  BY DEF MoveCamera, SilenceInv, Silent
<1> QED  BY <1>1, <1>2, <1>3, <1>4, <1>5, <1>6, <1>7

LEMMA DeleteRowPreserves ==
    ASSUME Inv, NEW c \in Cameras, DeleteRow(c)
    PROVE  Inv'
<1> USE NoMemoryFacts, HealthAssumption DEF Inv, HealthInv, TypeOK, cycleVars, historyVars
<1>1. TypeOK'
  BY DEF DeleteRow, Places, Statuses
<1>2. MemoryInv'
  BY DEF DeleteRow, MemoryInv
<1>3. CycleInv'
  BY DEF DeleteRow, CycleInv, Resurfacing, LinkOf
<1>4. RowInv'
  BY DEF DeleteRow, RowInv
<1>5. AnnouncementInv'
  BY DEF DeleteRow, AnnouncementInv, RowInv, Failing
<1>6. OnlyListedIsKnown'
  BY DEF DeleteRow, OnlyListedIsKnown, CycleInv
<1>7. SilenceInv'
  BY DEF DeleteRow, SilenceInv, Silent
<1> QED  BY <1>1, <1>2, <1>3, <1>4, <1>5, <1>6, <1>7

LEMMA CameraDeletedPreserves ==
    ASSUME Inv, NEW c \in Cameras, CameraDeleted(c)
    PROVE  Inv'
<1> USE NoMemoryFacts, HealthAssumption DEF Inv, HealthInv, TypeOK, cycleVars, historyVars
<1>1. TypeOK'
  BY DEF CameraDeleted, Places, Statuses
<1>2. MemoryInv'
  BY DEF CameraDeleted, MemoryInv
<1>3. CycleInv'
  BY DEF CameraDeleted, CycleInv, Resurfacing, LinkOf
<1>4. RowInv'
  BY DEF CameraDeleted, RowInv
<1>5. AnnouncementInv'
  BY DEF CameraDeleted, AnnouncementInv, RowInv, Failing
<1>6. OnlyListedIsKnown'
  BY DEF CameraDeleted, OnlyListedIsKnown, CycleInv
<1>7. SilenceInv'
  BY DEF CameraDeleted, SilenceInv, Silent
<1> QED  BY <1>1, <1>2, <1>3, <1>4, <1>5, <1>6, <1>7

LEMMA SkippedPollPreserves ==
    ASSUME Inv, SkippedPoll
    PROVE  Inv'
<1> USE NoMemoryFacts, HealthAssumption DEF Inv, HealthInv, TypeOK, cycleVars, historyVars
<1>a. \A d \in Cameras :
        /\ Older(mem[d]) \in Memories \cup {NoMemory}
        /\ Older(mem[d]) = NoMemory <=> mem[d] = NoMemory
        /\ Older(mem[d]).status = mem[d].status /\ Older(mem[d]).net = mem[d].net
        /\ Earned(Older(mem[d]))
  BY OlderFacts DEF MemoryInv
<1>1. TypeOK'
  BY <1>a DEF SkippedPoll, Places
<1>2. MemoryInv'
  BY <1>a DEF SkippedPoll, MemoryInv
<1>3. CycleInv'
  BY DEF SkippedPoll, CycleInv, Resurfacing, LinkOf
<1>4. RowInv'
  BY <1>a DEF SkippedPoll, RowInv
<1>5. AnnouncementInv'
  BY <1>a DEF SkippedPoll, AnnouncementInv, RowInv, CycleInv
<1>6. OnlyListedIsKnown'
  BY <1>a DEF SkippedPoll, OnlyListedIsKnown
<1>7. SilenceInv'
  <2> SUFFICES ASSUME NEW s \in Sites, Silent(s)', phase = "finishing"  PROVE link[s] # "UP"
    BY DEF SkippedPoll, SilenceInv
  <2>1. listed' = listed /\ \A d \in Cameras :
            mem'[d] # NoMemory /\ mem'[d].net = "FAILED" =>
                mem[d] # NoMemory /\ mem[d].net = "FAILED"
    BY <1>a DEF SkippedPoll
  <2>2. Silent(s)
    BY <2>1 DEF Silent
  <2> QED  BY <2>2 DEF SilenceInv
<1> QED  BY <1>1, <1>2, <1>3, <1>4, <1>5, <1>6, <1>7

LEMMA StartCyclePreserves ==
    ASSUME Inv, StartCycle
    PROVE  Inv'
<1> USE NoMemoryFacts, HealthAssumption DEF Inv, HealthInv, TypeOK, cycleVars, historyVars
<1>a. \A d \in Cameras :
        /\ Older(mem[d]) \in Memories \cup {NoMemory}
        /\ Older(mem[d]) = NoMemory <=> mem[d] = NoMemory
        /\ Older(mem[d]).status = mem[d].status /\ Older(mem[d]).net = mem[d].net
        /\ Earned(Older(mem[d]))
  BY OlderFacts DEF MemoryInv
<1>1. TypeOK'
  BY <1>a DEF StartCycle, Places
<1>2. MemoryInv'
  BY <1>a DEF StartCycle, MemoryInv
<1>3. CycleInv'
  BY <1>a DEF StartCycle, CycleInv, RowInv, Resurfacing, LinkOf, Places
<1>4. RowInv'
  BY <1>a DEF StartCycle, RowInv
<1>5. AnnouncementInv'
  BY <1>a DEF StartCycle, AnnouncementInv, RowInv, CycleInv
<1>6. OnlyListedIsKnown'
  BY <1>a DEF StartCycle, OnlyListedIsKnown, Places
<1>7. SilenceInv'
  BY DEF StartCycle, SilenceInv, Silent
<1> QED  BY <1>1, <1>2, <1>3, <1>4, <1>5, <1>6, <1>7

LEMMA CheckStartPreserves ==
    ASSUME Inv, NEW c \in Cameras, CheckStart(c)
    PROVE  Inv'
<1> USE NoMemoryFacts, HealthAssumption DEF Inv, HealthInv, TypeOK, cycleVars, historyVars
<1>1. TypeOK'
  BY DEF CheckStart, Places, Statuses
<1>2. MemoryInv'
  BY DEF CheckStart, MemoryInv
<1>3. CycleInv'
  BY DEF CheckStart, CycleInv, Resurfacing, LinkOf
<1>4. RowInv'
  BY DEF CheckStart, RowInv
<1>5. AnnouncementInv'
  BY DEF CheckStart, AnnouncementInv, CycleInv, RowInv, Failing
<1>6. OnlyListedIsKnown'
  BY DEF CheckStart, OnlyListedIsKnown, CycleInv
<1>7. SilenceInv'
  BY DEF CheckStart, SilenceInv, Silent
<1> QED  BY <1>1, <1>2, <1>3, <1>4, <1>5, <1>6, <1>7

LEMMA CheckEndPreserves ==
    ASSUME Inv, NEW c \in Cameras, CheckEnd(c)
    PROVE  Inv'
<1> USE NoMemoryFacts, HealthAssumption DEF Inv, HealthInv, TypeOK, cycleVars, historyVars
<1>a. PICK sample \in Samples(c) :
        /\ mem' = [mem EXCEPT ![c] = IF mem[c] = NoMemory THEN NoMemory
                                     ELSE NextMemory(c, held[c], sample)]
        /\ pending' = [pending EXCEPT ![c] =
                          Transition(held[c].status, NextMemory(c, held[c], sample).status)]
  BY DEF CheckEnd
<1> DEFINE next == NextMemory(c, held[c], sample)
           change == Transition(held[c].status, next.status)
<1>b. /\ next \in Memories /\ Earned(next)
      /\ next.net # "NOT_APPLICABLE" => c \in Probed
      /\ change \in Failing \cup {"ONLINE", "none"}
      /\ change # "none" => change = next.status
      /\ change = "none" => \/ next.status = held[c].status
                            \/ held[c].status = "UNKNOWN" /\ next.status = "ONLINE"
  BY <1>a, SampleFacts DEF MemoryInv
<1> HIDE DEF next, change
<1>c. /\ mem' = [mem EXCEPT ![c] = IF mem[c] = NoMemory THEN NoMemory ELSE next]
      /\ pending' = [pending EXCEPT ![c] = change]
  BY <1>a DEF next, change
<1>d. pending[c] = "none" /\ mem[c] \in {NoMemory, held[c]} /\ listed[c] # NotListed
  BY DEF CheckEnd, CycleInv, MemoryInv
<1>1. TypeOK'
  BY <1>b, <1>c, <1>d DEF CheckEnd, Statuses, Failing
<1>2. MemoryInv'
  BY <1>b, <1>c, <1>d DEF CheckEnd, MemoryInv
<1>3. CycleInv'
  BY <1>b, <1>c, <1>d DEF CheckEnd, CycleInv, Resurfacing, LinkOf, Failing
<1>4. RowInv'
  BY <1>b, <1>c, <1>d DEF CheckEnd, RowInv, CycleInv
<1>5. AnnouncementInv'
  BY <1>b, <1>c, <1>d DEF CheckEnd, AnnouncementInv, RowInv, Failing
<1>6. OnlyListedIsKnown'
  BY DEF CheckEnd, OnlyListedIsKnown, CycleInv
<1>7. SilenceInv'
  BY DEF CheckEnd, SilenceInv, Silent
<1> QED  BY <1>1, <1>2, <1>3, <1>4, <1>5, <1>6, <1>7

LEMMA EvaluatePreserves ==
    ASSUME Inv, Evaluate
    PROVE  Inv'
<1> USE NoMemoryFacts, HealthAssumption DEF Inv, HealthInv, TypeOK, cycleVars, historyVars
<1>1. TypeOK'
  <2>1. \A s \in Sites : NextLink(s) \in Links
    BY DEF NextLink, Links
  <2>2. \A s \in Sites : SiteTransition(s) \in {"none", "site.offline", "site.online"}
    BY DEF SiteTransition
  <2> QED  BY <2>1, <2>2 DEF Evaluate
<1>2. MemoryInv'
  BY DEF Evaluate, MemoryInv
<1>3. CycleInv'
  <2>1. \A s \in Sites : AllUnreachable(s) => Sampled(s) # {}
    <3> SUFFICES ASSUME NEW s \in Sites, AllUnreachable(s), Sampled(s) = {}  PROVE FALSE
      OBVIOUS
    <3>1. Cardinality(Sampled(s)) = 0
      BY FS_EmptySet
    <3>2. MinCameras \in Nat /\ MinCameras > 0
      OBVIOUS
    <3> QED  BY <3>1, <3>2 DEF AllUnreachable
  <2>2. \A s \in Sites :
        /\ SiteTransition(s) = "site.online" => NextLink(s) # "DOWN"
        /\ NextLink(s) = "DOWN" /\ link[s] # "DOWN" => SiteTransition(s) = "site.offline"
    BY <2>1 DEF SiteTransition, NextLink
  <2> QED  BY <2>2 DEF Evaluate, CycleInv
<1>4. RowInv'
  BY DEF Evaluate, RowInv
<1>5. AnnouncementInv'
  BY DEF Evaluate, AnnouncementInv, RowInv, Failing
<1>6. OnlyListedIsKnown'
  BY DEF Evaluate, OnlyListedIsKnown, CycleInv
<1>7. SilenceInv'
  <2> SUFFICES ASSUME NEW s \in Sites, Silent(s)'  PROVE NextLink(s) # "UP"
    BY DEF Evaluate, SilenceInv
  <2>1. Silent(s)
    BY DEF Evaluate, Silent
  <2>2. Sampled(s) = {c \in Probed : listed[c] = s}
    BY <2>1 DEF Silent, Sampled, MemoryInv
  <2>3. AllUnreachable(s)
    BY <2>1, <2>2 DEF Silent, AllUnreachable
  <2> QED  BY <2>3 DEF NextLink
<1> QED  BY <1>1, <1>2, <1>3, <1>4, <1>5, <1>6, <1>7

LEMMA AnnounceDownPreserves ==
    ASSUME Inv, NEW s \in Sites, AnnounceDown(s)
    PROVE  Inv'
<1> USE NoMemoryFacts, HealthAssumption DEF Inv, HealthInv, TypeOK, cycleVars, historyVars
<1>1. TypeOK'
  BY DEF AnnounceDown, Places, Statuses
<1>2. MemoryInv'
  BY DEF AnnounceDown, MemoryInv
<1>3. CycleInv'
  BY DEF AnnounceDown, CycleInv, Resurfacing, LinkOf
<1>4. RowInv'
  BY DEF AnnounceDown, RowInv
<1>5. AnnouncementInv'
  BY DEF AnnounceDown, AnnouncementInv, RowInv, Failing
<1>6. OnlyListedIsKnown'
  BY DEF AnnounceDown, OnlyListedIsKnown, CycleInv
<1>7. SilenceInv'
  BY DEF AnnounceDown, SilenceInv, Silent
<1> QED  BY <1>1, <1>2, <1>3, <1>4, <1>5, <1>6, <1>7

LEMMA ResurfacePreserves ==
    ASSUME Inv, NEW c \in Cameras, Resurface(c)
    PROVE  Inv'
<1> USE NoMemoryFacts, HealthAssumption DEF Inv, HealthInv, TypeOK, cycleVars, historyVars
<1>1. TypeOK'
  BY DEF Resurface, Alerted, Places, Failing
<1>2. MemoryInv'
  BY DEF Resurface, MemoryInv
<1>3. CycleInv'
  BY DEF Resurface, CycleInv, Resurfacing, LinkOf
<1>4. RowInv'
  BY DEF Resurface, Alerted, RowInv, Failing
<1>5. AnnouncementInv'
  BY DEF Resurface, Alerted, AnnouncementInv, RowInv, Failing
<1>6. OnlyListedIsKnown'
  BY DEF Resurface, OnlyListedIsKnown, CycleInv
<1>7. SilenceInv'
  BY DEF Resurface, SilenceInv, Silent
<1> QED  BY <1>1, <1>2, <1>3, <1>4, <1>5, <1>6, <1>7

LEMMA EmitPreserves ==
    ASSUME Inv, NEW c \in Cameras, Emit(c)
    PROVE  Inv'
<1> USE NoMemoryFacts, HealthAssumption DEF Inv, HealthInv, TypeOK, cycleVars, historyVars
<1>1. TypeOK'
  BY DEF Emit, Alerted, Attributed, CycleInv, Places, Statuses, Failing
<1>2. MemoryInv'
  BY DEF Emit, MemoryInv
<1>3. CycleInv'
  BY DEF Emit, CycleInv, Resurfacing, LinkOf
<1>4. RowInv'
  BY DEF Emit, Alerted, RowInv
<1>5. AnnouncementInv'
  BY DEF Emit, Alerted, Attributed, AnnouncementInv, RowInv, CycleInv, Failing, Statuses
<1>6. OnlyListedIsKnown'
  BY DEF Emit, OnlyListedIsKnown, CycleInv
<1>7. SilenceInv'
  BY DEF Emit, SilenceInv, Silent
<1> QED  BY <1>1, <1>2, <1>3, <1>4, <1>5, <1>6, <1>7

LEMMA AnnounceUpPreserves ==
    ASSUME Inv, NEW s \in Sites, AnnounceUp(s)
    PROVE  Inv'
<1> USE NoMemoryFacts, HealthAssumption DEF Inv, HealthInv, TypeOK, cycleVars, historyVars
<1>1. TypeOK'
  BY DEF AnnounceUp, Places, Statuses
<1>2. MemoryInv'
  BY DEF AnnounceUp, MemoryInv
<1>3. CycleInv'
  BY DEF AnnounceUp, CycleInv, Resurfacing, LinkOf
<1>4. RowInv'
  BY DEF AnnounceUp, RowInv
<1>5. AnnouncementInv'
  BY DEF AnnounceUp, AnnouncementInv, RowInv, Failing
<1>6. OnlyListedIsKnown'
  BY DEF AnnounceUp, OnlyListedIsKnown, CycleInv
<1>7. SilenceInv'
  BY DEF AnnounceUp, SilenceInv, Silent
<1> QED  BY <1>1, <1>2, <1>3, <1>4, <1>5, <1>6, <1>7

LEMMA EndCyclePreserves ==
    ASSUME Inv, EndCycle
    PROVE  Inv'
<1> USE NoMemoryFacts, HealthAssumption DEF Inv, HealthInv, TypeOK, cycleVars, historyVars
<1>1. TypeOK'
  BY DEF EndCycle, Places, Statuses
<1>2. MemoryInv'
  BY DEF EndCycle, MemoryInv
<1>3. CycleInv'
  BY DEF EndCycle, CycleInv, Resurfacing, LinkOf, NoneResurfacing, NonePending
<1>4. RowInv'
  BY DEF EndCycle, RowInv
<1>5. AnnouncementInv'
  BY DEF EndCycle, AnnouncementInv, RowInv, Failing
<1>6. OnlyListedIsKnown'
  BY DEF EndCycle, OnlyListedIsKnown, CycleInv
<1>7. SilenceInv'
  BY DEF EndCycle, SilenceInv, Silent
<1> QED  BY <1>1, <1>2, <1>3, <1>4, <1>5, <1>6, <1>7

-------------------------------------------------------------------------------
(* Theorems *)

(* The inductive invariant: whatever is checked, moved, removed or interrupted, memories,
   buffered transitions, covers and site links fit together in every phase of a cycle. *)
THEOREM HealthCorrect == Spec => [](TypeOK /\ HealthInv)
<1>1. Init => Inv
  <2> SUFFICES ASSUME Init  PROVE Inv
    OBVIOUS
  <2> USE NoMemoryFacts, HealthAssumption DEF Init
  <2>1. TypeOK
    <3>1. /\ alert \in [Cameras -> Failing \cup {"fine"}]
          /\ told \in [Sites -> {"up", "down"}]
          /\ row \in [Cameras -> {"none", "present", "deleting", "deleted"}]
      BY DEF Failing
    <3> QED  BY <3>1 DEF TypeOK, Places, Links
  <2>2. MemoryInv /\ CycleInv /\ RowInv
    BY DEF MemoryInv, CycleInv, RowInv, Resurfacing
  <2>3. AnnouncementInv /\ OnlyListedIsKnown /\ SilenceInv
    BY DEF AnnouncementInv, OnlyListedIsKnown, SilenceInv
  <2> QED  BY <2>1, <2>2, <2>3 DEF Inv, HealthInv
<1>2. Inv /\ [Next]_vars => Inv'
  <2> SUFFICES ASSUME Inv, [Next]_vars  PROVE Inv'
    OBVIOUS
  <2>1. CASE Cycle
    BY <2>1, StartCyclePreserves, CheckStartPreserves, CheckEndPreserves, EvaluatePreserves,
       AnnounceDownPreserves, AnnounceUpPreserves, ResurfacePreserves, EmitPreserves,
       EndCyclePreserves DEF Cycle
  <2>2. CASE SkippedPoll
    BY <2>2, SkippedPollPreserves
  <2>3. ASSUME NEW c \in Cameras, NEW s \in Places, AddCamera(c, s) \/ MoveCamera(c, s)
        PROVE  Inv'
    BY <2>3, AddCameraPreserves, MoveCameraPreserves
  <2>4. ASSUME NEW c \in Cameras, DeleteRow(c) \/ CameraDeleted(c)
        PROVE  Inv'
    BY <2>4, DeleteRowPreserves, CameraDeletedPreserves
  <2>5. CASE UNCHANGED vars
    BY <2>5 DEF vars, Inv, TypeOK, HealthInv, MemoryInv, CycleInv, RowInv, AnnouncementInv,
                OnlyListedIsKnown, SilenceInv, Silent, Resurfacing, LinkOf, Earned
  <2> QED  BY <2>1, <2>2, <2>3, <2>4, <2>5 DEF Next
<1> QED  BY <1>1, <1>2, PTL DEF Spec, Inv

(* The state of the health monitor keeps its type, in every cycle. *)
THEOREM TypeCorrect == Spec => []TypeOK
BY HealthCorrect, PTL

(* nextCameraStatus: no camera is DEGRADED before the second bad sample in a row, nor
   OFFLINE before its probes have failed for OFFLINE_AFTER_MS without an answer. *)
THEOREM StatusesAreEarned == Spec => []StatusIsEarned
<1>1. HealthInv => StatusIsEarned
  BY DEF HealthInv, MemoryInv, StatusIsEarned
<1> QED  BY <1>1, HealthCorrect, PTL

(* finishCycle: between two cycles every failing camera has been announced, by an alert
   that states its present status or by the outage of a site. *)
THEOREM FailuresAreAnnounced == Spec => []FailingIsAnnounced
<1>1. TypeOK /\ HealthInv => FailingIsAnnounced
  <2> SUFFICES ASSUME TypeOK, HealthInv, phase = "idle", NEW c \in Cameras,
                      mem[c].status \in Failing, alert[c] # mem[c].status
               PROVE  Covered(c)
    BY DEF FailingIsAnnounced
  <2>1. pending[c] = "none" /\ ~Resurfacing(c)
    BY DEF HealthInv, CycleInv, TypeOK
  <2>2. suppressed[c] # NoSite
    BY <2>1 DEF HealthInv, AnnouncementInv, Failing
  <2>3. suppressed[c] \in Sites /\ link[suppressed[c]] \in {"SUSPECTED", "DOWN"}
    BY <2>1, <2>2 DEF Resurfacing, LinkOf, TypeOK, Places, Links
  <2>4. link[suppressed[c]] = "DOWN" => told[suppressed[c]] = "down"
    BY <2>3 DEF HealthInv, CycleInv
  <2> QED  BY <2>2, <2>3, <2>4 DEF Covered, LinkOf
<1> QED  BY <1>1, HealthCorrect, PTL

(* checkCamera and finishCycle: between two cycles no camera that is back is still reported
   as failing, but by a former process. *)
THEOREM RecoveriesAreAnnounced == Spec => []RecoveryIsAnnounced
<1>1. TypeOK /\ HealthInv => RecoveryIsAnnounced
  BY DEF RecoveryIsAnnounced, TypeOK, HealthInv, AnnouncementInv, CycleInv, Failing
<1> QED  BY <1>1, HealthCorrect, PTL

(* pollAllCameras: the prune at the start of a cycle and the late steps of the cycle before
   leave nothing of a camera that is gone. *)
THEOREM NothingIsLeftBehind == Spec => []OnlyListedIsKnown
<1>1. HealthInv => OnlyListedIsKnown
  BY DEF HealthInv
<1> QED  BY <1>1, HealthCorrect, PTL

(* finishCycle: while all cameras of a site are silent, none of them raises an alert of its
   own. *)
THEOREM OneAlertForASite == Spec => SilentSiteIsOneAlert
<1> DEFINE Quiet == \A c \in Cameras :
        /\ alert'[c] # alert[c] /\ alert'[c] \in Failing
        /\ listed[c] \in Sites
        /\ suppressed[c] \in {NoSite, listed[c]}
        => ~Silent(listed[c])
<1>1. TypeOK /\ HealthInv /\ [Next]_vars => [Quiet]_vars
  <2> SUFFICES ASSUME TypeOK, HealthInv, Next, NEW d \in Cameras,
                      alert'[d] # alert[d], alert'[d] \in Failing, listed[d] \in Sites,
                      suppressed[d] \in {NoSite, listed[d]}, Silent(listed[d])
               PROVE  FALSE
    OBVIOUS
  <2>1. PICK c \in Cameras : CameraDeleted(c) \/ Resurface(c) \/ Emit(c)
    BY DEF Next, Cycle, StartCycle, CheckStart, CheckEnd, Evaluate, AnnounceDown, AnnounceUp,
           EndCycle, AddCamera, MoveCamera, DeleteRow, SkippedPoll, historyVars
  <2>2. ~CameraDeleted(c)
    BY DEF CameraDeleted, TypeOK, Failing
  <2>3. /\ c = d /\ phase = "finishing"
        /\ Resurface(c) \/ (Emit(c) /\ ~Attributed(c) /\ pending[c] \in Failing)
    BY <2>1, <2>2 DEF Resurface, Emit, Alerted, TypeOK, Failing
  <2>4. link[listed[d]] # "UP"
    BY <2>3 DEF HealthInv, SilenceInv
  <2>5. LinkOf(listed[d]) # "UP"
    BY <2>4, HealthAssumption DEF LinkOf
  <2>6. ~Resurface(c)
    BY <2>3, <2>5 DEF Resurface, Resurfacing
  <2> QED  BY <2>3, <2>5, <2>6 DEF Attributed
<1> QED  BY <1>1, HealthCorrect, PTL DEF Spec, SilentSiteIsOneAlert
===============================================================================
