----------------------------- MODULE CameraHealth -----------------------------
(***************************************************************************)
(* The health monitor (health/camera-health.service.ts, camera-status.ts,  *)
(* site-outage.ts).  A poll cycle checks every camera, then judges the     *)
(* link of every site, and only then announces what changed: a camera that *)
(* fails while its whole site is silent is covered by the alert of the     *)
(* site, and is announced by itself if the site turns out to be up.        *)
(*                                                                         *)
(* Cameras are added, moved and removed and the timer fires between any    *)
(* two awaits of a cycle.  The process may end at any moment: Init stands  *)
(* for every restart.  Time is counted in firings of the poll timer        *)
(* (15 s).  A check takes less than that: its probe gives up after 2.5 s   *)
(* and each request to MediaMTX after 3 s.                                 *)
(***************************************************************************)
EXTENDS Integers, FiniteSets

CONSTANTS
    Cameras, Sites, NoSite,
    Probed,         \* the cameras with a host to probe
    MaxChecks,      \* MAX_CONCURRENT_CAMERA_CHECKS
    MinCameras,     \* MIN_CAMERAS_FOR_SITE_OUTAGE
    OfflineAfter,   \* OFFLINE_AFTER_MS, in poll intervals
    FormerAlerts, FormerNews,   \* what alerts of former processes may have said
    MaxMoves        \* bound on the moves of cameras between sites

NotListed == "not listed"

ASSUME HealthAssumption ==
    /\ NoSite \notin Sites /\ NotListed \notin Sites \cup {NoSite}
    /\ IsFiniteSet(Cameras) /\ Probed \subseteq Cameras
    /\ {MaxChecks, MinCameras, OfflineAfter} \subseteq Nat \ {0}
    /\ FormerAlerts \subseteq {"DEGRADED", "OFFLINE"} /\ FormerNews \subseteq {"down"}
    /\ MaxMoves \in Nat

VARIABLES
    row,        \* the row of each camera; "deleting" until camera.deleted is out
    site,       \* the site column of each row
    mem,        \* cameraStates, NoMemory when there is no entry
    phase,      \* of the poll cycle
    listed,     \* the site of each camera the cycle is about, as it was listed
    check,      \* the check of each of them
    held,       \* the state object a check under way works on
    pending,    \* pendingTransitions: the new status of each camera, or "none"
    link,       \* the state of each site's link, "UP" for one without an entry
    news,       \* the site transitions of this cycle still to be announced
    suppressed, \* siteSuppressed: the site whose outage covers the camera
    moves,
    alert,      \* history: what the last alert about the camera itself said
    told,       \* history: what the last alert about the site said
    stale       \* history: the cameras whose last alert a former process sent

cycleVars == <<phase, listed, check, held, pending, news>>
historyVars == <<alert, told, stale>>
vars == <<row, site, mem, phase, listed, check, held, pending, link, news, suppressed,
          moves, alert, told, stale>>

Failing == {"DEGRADED", "OFFLINE"}
Statuses == Failing \cup {"UNKNOWN", "ONLINE"}
Links == {"UP", "SUSPECTED", "DOWN"}
Places == Sites \cup {NoSite}

(* The number of consecutive failures matters up to the second one. *)
Confirmed == 2
Never == -1
Memories == [status : Statuses, failures : 0..Confirmed, offlineFor : Never..OfflineAfter,
             net : {"NOT_APPLICABLE", "PASSED", "FAILED"}]
NoMemory == [status |-> "NONE", failures |-> 0, offlineFor |-> Never, net |-> "NOT_APPLICABLE"]
InitialMemory ==
    [status |-> "UNKNOWN", failures |-> 0, offlineFor |-> Never, net |-> "NOT_APPLICABLE"]

TypeOK ==
    /\ row \in [Cameras -> {"none", "present", "deleting", "deleted"}]
    /\ site \in [Cameras -> Places]
    /\ mem \in [Cameras -> Memories \cup {NoMemory}]
    /\ phase \in {"idle", "checking", "finishing"}
    /\ listed \in [Cameras -> Places \cup {NotListed}]
    /\ check \in [Cameras -> {"none", "todo", "busy", "done"}]
    /\ held \in [Cameras -> Memories]
    /\ pending \in [Cameras -> Statuses \cup {"none"}]
    /\ link \in [Sites -> Links]
    /\ news \in [Sites -> {"none", "site.offline", "site.online"}]
    /\ suppressed \in [Cameras -> Places]
    /\ moves \in 0..MaxMoves
    /\ alert \in [Cameras -> Failing \cup {"fine"}]
    /\ told \in [Sites -> {"up", "down"}]
    /\ stale \subseteq Cameras

(* The process starts, for the first time or again: rows and the alerts already sent are
   what former processes left, and what those knew is gone with their memory. *)
Init ==
    /\ row \in [Cameras -> {"none", "present"}]
    /\ site \in [Cameras -> Places]
    /\ \A c \in Cameras : row[c] = "none" => site[c] = NoSite
    /\ mem = [c \in Cameras |-> NoMemory]
    /\ phase = "idle"
    /\ listed = [c \in Cameras |-> NotListed]
    /\ check = [c \in Cameras |-> "none"]
    /\ held = [c \in Cameras |-> InitialMemory]
    /\ pending = [c \in Cameras |-> "none"]
    /\ link = [s \in Sites |-> "UP"]
    /\ news = [s \in Sites |-> "none"]
    /\ suppressed = [c \in Cameras |-> NoSite]
    /\ moves = 0
    /\ alert \in [Cameras -> FormerAlerts \cup {"fine"}]
    /\ \A c \in Cameras : row[c] = "none" => alert[c] = "fine"
    /\ told \in [Sites -> FormerNews \cup {"up"}]
    /\ stale = {c \in Cameras : alert[c] # "fine"}

-------------------------------------------------------------------------------
(* The camera rows *)

AddCamera(c, s) ==
    /\ row[c] = "none"
    /\ row' = [row EXCEPT ![c] = "present"]
    /\ site' = [site EXCEPT ![c] = s]
    /\ UNCHANGED <<mem, link, suppressed, moves, cycleVars, historyVars>>

MoveCamera(c, s) ==
    /\ row[c] = "present" /\ site[c] # s
    /\ moves < MaxMoves
    /\ moves' = moves + 1
    /\ site' = [site EXCEPT ![c] = s]
    /\ UNCHANGED <<row, mem, link, suppressed, cycleVars, historyVars>>

(* The row goes first; camera.deleted follows when the media paths are torn down. *)
DeleteRow(c) ==
    /\ row[c] = "present"
    /\ row' = [row EXCEPT ![c] = "deleting"]
    /\ site' = [site EXCEPT ![c] = NoSite]
    /\ UNCHANGED <<mem, link, suppressed, moves, cycleVars, historyVars>>

(* The alerts sent about the camera are of no interest any more: their history ends. *)
CameraDeleted(c) ==
    /\ row[c] = "deleting"
    /\ row' = [row EXCEPT ![c] = "deleted"]
    /\ mem' = [mem EXCEPT ![c] = NoMemory]
    /\ alert' = [alert EXCEPT ![c] = "fine"]
    /\ stale' = stale \ {c}
    /\ UNCHANGED <<site, link, suppressed, moves, cycleVars, told>>

-------------------------------------------------------------------------------
(* The checks of a cycle *)

Older(m) ==
    [status |-> m.status, failures |-> m.failures, net |-> m.net,
     offlineFor |-> IF m.offlineFor \in 0..(OfflineAfter - 1)
                    THEN m.offlineFor + 1 ELSE m.offlineFor]

(* The timer fires while a cycle is under way: isPolling excludes a second one. *)
SkippedPoll ==
    /\ phase # "idle"
    /\ \A c \in Cameras : check[c] # "busy"
    /\ mem' = [c \in Cameras |-> Older(mem[c])]
    /\ mem' # mem
    /\ UNCHANGED <<row, site, link, suppressed, moves, cycleVars, historyVars>>

(* The timer fires: one interval at least after the start of the last cycle.  What is
   known of cameras that are not listed is pruned. *)
StartCycle ==
    /\ phase = "idle"
    /\ phase' = "checking"
    /\ listed' = [c \in Cameras |-> IF row[c] = "present" THEN site[c] ELSE NotListed]
    /\ check' = [c \in Cameras |-> IF row[c] = "present" THEN "todo" ELSE "none"]
    /\ mem' = [c \in Cameras |-> IF row[c] = "present" THEN Older(mem[c]) ELSE NoMemory]
    /\ suppressed' = [c \in Cameras |-> IF row[c] = "present" THEN suppressed[c] ELSE NoSite]
    /\ UNCHANGED <<row, site, held, pending, link, news, moves, historyVars>>

(* One sample of a camera: fully healthy; reachable (or not checkable) but slow, not
   streaming or starved; or unreachable. *)
Samples(c) == {"healthy", "poor"} \cup (IF c \in Probed THEN {"unreachable"} ELSE {})

NetworkCheck(c, sample) ==
    IF c \notin Probed THEN "NOT_APPLICABLE"
    ELSE IF sample = "unreachable" THEN "FAILED" ELSE "PASSED"

OneMore(n) == IF n < Confirmed THEN n + 1 ELSE n

NextStatus(m, sample) ==
    CASE sample = "healthy" -> "ONLINE"
      [] sample # "healthy" /\ OneMore(m.failures) < Confirmed -> m.status
      [] sample = "poor" /\ OneMore(m.failures) = Confirmed -> "DEGRADED"
      [] OTHER -> IF m.offlineFor >= OfflineAfter THEN "OFFLINE" ELSE "DEGRADED"

NextOfflineFor(m, sample) ==
    IF sample # "unreachable" THEN Never
    ELSE IF m.offlineFor = Never THEN 0 ELSE m.offlineFor

(* nextCameraStatus: the memory of camera c after one more sample *)
NextMemory(c, m, sample) ==
    [status |-> NextStatus(m, sample),
     failures |-> IF sample = "healthy" THEN 0 ELSE OneMore(m.failures),
     offlineFor |-> NextOfflineFor(m, sample),
     net |-> NetworkCheck(c, sample)]

CheckStart(c) ==
    /\ phase = "checking" /\ check[c] = "todo"
    /\ Cardinality({d \in Cameras : check[d] = "busy"}) < MaxChecks
    /\ check' = [check EXCEPT ![c] = "busy"]
    /\ mem' = [mem EXCEPT ![c] = IF mem[c] = NoMemory THEN InitialMemory ELSE mem[c]]
    /\ held' = [held EXCEPT ![c] = mem'[c]]
    /\ UNCHANGED <<row, site, phase, listed, pending, link, news, suppressed, moves,
                   historyVars>>

(* Mutant: every recovery is taken for the discovery of a camera at boot. *)
TransitionNeverOnline(old, new) ==
    IF new = old \/ new = "ONLINE" THEN "none" ELSE new

(* The first time a camera is seen online is no recovery. *)
Transition(old, new) ==
    IF new = old \/ (old = "UNKNOWN" /\ new = "ONLINE") THEN "none" ELSE new

(* An entry removed meanwhile is not put back: only the object of the check changes. *)
CheckEnd(c) ==
    /\ phase = "checking" /\ check[c] = "busy"
    /\ \E sample \in Samples(c) :
        LET next == NextMemory(c, held[c], sample) IN
        /\ mem' = [mem EXCEPT ![c] = IF mem[c] = NoMemory THEN NoMemory ELSE next]
        /\ pending' = [pending EXCEPT ![c] = Transition(held[c].status, next.status)]
    /\ check' = [check EXCEPT ![c] = "done"]
    /\ held' = [held EXCEPT ![c] = InitialMemory]
    /\ UNCHANGED <<row, site, phase, listed, link, news, suppressed, moves, historyVars>>

-------------------------------------------------------------------------------
(* The site evaluation: SiteOutageDetector *)

Sampled(s) == {c \in Cameras : /\ listed[c] = s
                               /\ mem[c] # NoMemory
                               /\ mem[c].net # "NOT_APPLICABLE"}

AllUnreachable(s) ==
    /\ Cardinality(Sampled(s)) >= MinCameras
    /\ \A c \in Sampled(s) : mem[c].net = "FAILED"

AllOffline(s) == AllUnreachable(s) /\ \A c \in Sampled(s) : mem[c].status = "OFFLINE"

(* A site without cameras to probe is forgotten, which reads as "UP". *)
NextLink(s) ==
    IF ~AllUnreachable(s) THEN "UP"
    ELSE IF link[s] = "DOWN" \/ AllOffline(s) THEN "DOWN" ELSE "SUSPECTED"

SiteTransition(s) ==
    CASE Sampled(s) = {} -> "none"
      [] Sampled(s) # {} /\ NextLink(s) = "DOWN" /\ link[s] # "DOWN" -> "site.offline"
      [] Sampled(s) # {} /\ NextLink(s) # "DOWN" /\ link[s] = "DOWN" -> "site.online"
      [] OTHER -> "none"

Evaluate ==
    /\ phase = "checking"
    /\ \A c \in Cameras : check[c] \in {"none", "done"}
    /\ phase' = "finishing"
    /\ check' = [c \in Cameras |-> "none"]
    /\ link' = [s \in Sites |-> NextLink(s)]
    /\ news' = [s \in Sites |-> SiteTransition(s)]
    /\ UNCHANGED <<row, site, mem, listed, held, pending, suppressed, moves, historyVars>>

-------------------------------------------------------------------------------
(* The announcements of a cycle, in the order of finishCycle *)

LinkOf(s) == IF s = NoSite THEN "UP" ELSE link[s]

NoneDown == \A s \in Sites : news[s] # "site.offline"
Resurfacing(c) == suppressed[c] # NoSite /\ LinkOf(suppressed[c]) = "UP"
NoneResurfacing == \A c \in Cameras : ~Resurfacing(c)
NonePending == \A c \in Cameras : pending[c] = "none"

AnnounceDown(s) ==
    /\ phase = "finishing" /\ news[s] = "site.offline"
    /\ told' = [told EXCEPT ![s] = "down"]
    /\ news' = [news EXCEPT ![s] = "none"]
    /\ UNCHANGED <<row, site, mem, phase, listed, check, held, pending, link, suppressed,
                   moves, alert, stale>>

(* An alert about the camera itself *)
Alerted(c, status) ==
    /\ alert' = [alert EXCEPT ![c] = IF status = "ONLINE" THEN "fine" ELSE status]
    /\ stale' = stale \ {c}

(* Mutant: the cover is dropped without the alert it stood for. *)
ResurfaceSilently(c) ==
    /\ phase = "finishing" /\ NoneDown
    /\ Resurfacing(c)
    /\ suppressed' = [suppressed EXCEPT ![c] = NoSite]
    /\ UNCHANGED <<row, site, mem, phase, listed, check, held, pending, link, news,
                   moves, historyVars>>

(* The site is up after all, or forgotten: a camera still failing gets its own alert. *)
Resurface(c) ==
    /\ phase = "finishing" /\ NoneDown
    /\ Resurfacing(c)
    /\ suppressed' = [suppressed EXCEPT ![c] = NoSite]
    /\ IF pending[c] = "none" /\ mem[c].status \in Failing
       THEN Alerted(c, mem[c].status)
       ELSE UNCHANGED <<alert, stale>>
    /\ UNCHANGED <<row, site, mem, phase, listed, check, held, pending, link, news,
                   moves, told>>

(* Mutant: only a confirmed outage covers its cameras. *)
AttributedToDown(c) ==
    pending[c] \in Failing /\ listed[c] \in Sites /\ LinkOf(listed[c]) = "DOWN"

Attributed(c) ==
    pending[c] \in Failing /\ listed[c] \in Sites /\ LinkOf(listed[c]) # "UP"

(* A transition tagged with siteOutage alerts nobody (alert-policy.ts). *)
Emit(c) ==
    /\ phase = "finishing" /\ NoneDown /\ NoneResurfacing
    /\ pending[c] # "none"
    /\ suppressed' = [suppressed EXCEPT ![c] = IF Attributed(c) THEN listed[c] ELSE NoSite]
    /\ IF Attributed(c) THEN UNCHANGED <<alert, stale>> ELSE Alerted(c, pending[c])
    /\ pending' = [pending EXCEPT ![c] = "none"]
    /\ UNCHANGED <<row, site, mem, phase, listed, check, held, link, news, moves, told>>

AnnounceUp(s) ==
    /\ phase = "finishing" /\ NoneDown /\ NoneResurfacing /\ NonePending
    /\ news[s] = "site.online"
    /\ told' = [told EXCEPT ![s] = "up"]
    /\ news' = [news EXCEPT ![s] = "none"]
    /\ UNCHANGED <<row, site, mem, phase, listed, check, held, pending, link, suppressed,
                   moves, alert, stale>>

EndCycle ==
    /\ phase = "finishing" /\ NoneResurfacing /\ NonePending
    /\ \A s \in Sites : news[s] = "none"
    /\ phase' = "idle"
    /\ listed' = [c \in Cameras |-> NotListed]
    /\ UNCHANGED <<row, site, mem, check, held, pending, link, news, suppressed, moves,
                   historyVars>>

-------------------------------------------------------------------------------
Cycle ==
    \/ StartCycle
    \/ \E c \in Cameras : CheckStart(c) \/ CheckEnd(c)
    \/ Evaluate
    \/ \E s \in Sites : AnnounceDown(s) \/ AnnounceUp(s)
    \/ \E c \in Cameras : Resurface(c) \/ Emit(c)
    \/ EndCycle

Next ==
    \/ Cycle
    \/ \E c \in Cameras, s \in Places : AddCamera(c, s) \/ MoveCamera(c, s)
    \/ \E c \in Cameras : DeleteRow(c) \/ CameraDeleted(c)
    \/ SkippedPoll

Spec == Init /\ [][Next]_vars

(* The interval timer starts cycles again and again, every await of a cycle ends (probes
   and requests time out, emitEvent does not reject), removals run to their end. *)
FairSpec ==
    /\ Spec
    /\ WF_vars(Cycle)
    /\ \A c \in Cameras : WF_vars(CameraDeleted(c))

-------------------------------------------------------------------------------
(* Properties *)

(* DEGRADED and OFFLINE take two bad samples in a row, and OFFLINE takes a camera whose
   probes have all failed for OfflineAfter: any answer in between starts the wait again. *)
Earned(m) ==
    /\ m.status \in Failing <=> m.failures = Confirmed
    /\ m.offlineFor # Never <=> m.net = "FAILED"
    /\ m.status = "OFFLINE" => m.offlineFor >= OfflineAfter
StatusIsEarned == \A c \in Cameras : mem[c] # NoMemory => Earned(mem[c])

(* The camera is failing and the outage of a site that covers it is suspected, or is
   confirmed and announced. *)
Covered(c) ==
    /\ suppressed[c] # NoSite
    /\ \/ LinkOf(suppressed[c]) = "SUSPECTED"
       \/ LinkOf(suppressed[c]) = "DOWN" /\ told[suppressed[c]] = "down"

(* Between two cycles the operators know of every failing camera: its last alert states
   its present status, or a site outage covers it.  No order of checks, suspicions that
   come to nothing, moves and removals makes an alert disappear. *)
FailingIsAnnounced ==
    phase = "idle" => \A c \in Cameras :
        mem[c].status \in Failing => alert[c] = mem[c].status \/ Covered(c)

(* Between two cycles a camera that is back is not reported as failing by its last alert,
   unless that alert was sent by a former process. *)
RecoveryIsAnnounced ==
    phase = "idle" => \A c \in Cameras :
        row[c] = "present" /\ mem[c].status \in {"ONLINE", "UNKNOWN"} =>
            alert[c] = "fine" \/ c \in stale

(* The cameras of site s are as many as an outage takes, and the last probe of every one
   has failed. *)
Silent(s) ==
    LET here == {c \in Probed : listed[c] = s} IN
    /\ Cardinality(here) >= MinCameras
    /\ \A c \in here : mem[c] # NoMemory /\ mem[c].net = "FAILED"

(* No camera of a site that is silent altogether gets an alert of its own; a camera that
   was moved there while the outage of another site covered it may. *)
SilentSiteIsOneAlert ==
    [][\A c \in Cameras :
        /\ alert'[c] # alert[c] /\ alert'[c] \in Failing
        /\ listed[c] \in Sites
        /\ suppressed[c] \in {NoSite, listed[c]}
        => ~Silent(listed[c])]_vars

(* A camera that stays unreachable is reported OFFLINE in the end, by an alert of its own
   or by that of a site. *)
UnreachableIsReported ==
    \A c \in Cameras :
        <>[](row[c] = "present" /\ mem[c].net = "FAILED") =>
            <>[](\/ alert[c] = "OFFLINE"
                 \/ suppressed[c] # NoSite /\ told[suppressed[c]] = "down")

(* From the start of a cycle on, nothing is kept of a camera the cycle did not find, even
   if a cycle before it checked, announced and covered the camera after camera.deleted. *)
OnlyListedIsKnown ==
    phase # "idle" => \A c \in Cameras :
        listed[c] = NotListed => mem[c] = NoMemory /\ suppressed[c] = NoSite

-------------------------------------------------------------------------------
(* The inductive invariant *)

(* The memories, and the objects of the checks under way *)
MemoryInv ==
    \A c \in Cameras :
        /\ Earned(mem[c]) /\ Earned(held[c])
        /\ mem[c].net # "NOT_APPLICABLE" => c \in Probed
        /\ check[c] = "busy" => mem[c] \in {NoMemory, held[c]}

(* Checks, transitions and site news belong to phases of the cycle. *)
CycleInv ==
    /\ \A c \in Cameras :
        /\ check[c] # "none" => phase = "checking" /\ listed[c] # NotListed
        /\ pending[c] # "none" => phase = "finishing" \/ check[c] = "done"
        /\ pending[c] # "none" => pending[c] # "UNKNOWN" /\ listed[c] # NotListed
        /\ phase # "finishing" => ~Resurfacing(c)
    /\ \A s \in Sites :
        /\ news[s] # "none" => phase = "finishing"
        /\ news[s] = "site.online" => link[s] # "DOWN"
        /\ link[s] = "DOWN" => told[s] = "down" \/ news[s] = "site.offline"

(* Nothing is known of a camera before it is added, and a camera that is there does not
   lose the memory a check has made. *)
RowInv ==
    \A c \in Cameras :
        /\ row[c] = "none" => /\ alert[c] = "fine" /\ mem[c] = NoMemory
                              /\ check[c] = "none" /\ pending[c] = "none"
        /\ row[c] = "present" /\ (check[c] \in {"busy", "done"} \/ pending[c] # "none")
            => mem[c] # NoMemory

(* What has been announced, or will be before the cycle ends *)
AnnouncementInv ==
    \A c \in Cameras :
        /\ pending[c] # "none" /\ mem[c] # NoMemory => pending[c] = mem[c].status
        /\ mem[c].status \in Failing =>
            alert[c] = mem[c].status \/ pending[c] = mem[c].status \/ suppressed[c] # NoSite
        /\ row[c] = "present" /\ mem[c].status \notin Failing =>
            alert[c] = "fine" \/ c \in stale \/ pending[c] = "ONLINE"

(* A site that is silent at its evaluation is at least suspected for the whole cycle. *)
SilenceInv ==
    phase = "finishing" => \A s \in Sites : Silent(s) => link[s] # "UP"

HealthInv ==
    /\ MemoryInv
    /\ CycleInv
    /\ RowInv
    /\ AnnouncementInv
    /\ OnlyListedIsKnown
    /\ SilenceInv

-------------------------------------------------------------------------------
(* What the code's comments and documents say, and the code does not do *)

(* site-outage.ts: a site is "back UP as soon as any of them answers again": site.online
   is announced for a camera that has answered. *)
BackMeansAnswered ==
    [][\A s \in Sites :
        news[s] # "site.online" /\ news'[s] = "site.online" =>
            \E c \in Sampled(s) : mem[c].net = "PASSED"]_vars

(* camera.service.ts: "Deletion is not an outage: listeners stop watching the camera on
   camera.deleted": no alert about a camera follows its camera.deleted. *)
DeletionIsNoOutage ==
    [][\A c \in Cameras : row[c] = "deleted" => alert'[c] \in {alert[c], "fine"}]_vars

(* README.md: one alert when a site is unreachable, "and another when the site is back":
   the alert does not stay for ever while a camera of the site answers. *)
ReturnIsAnnounced ==
    \A s \in Sites :
        <>[](\E c \in Cameras :
                row[c] = "present" /\ site[c] = s /\ mem[c].net = "PASSED")
            => <>(told[s] = "up")
===============================================================================
