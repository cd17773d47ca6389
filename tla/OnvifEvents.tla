------------------------------ MODULE OnvifEvents ------------------------------
(***************************************************************************)
(* The ONVIF listener (events/onvif-events.service.ts) and one camera: the *)
(* subscription object, the poll timer of the camera, and the poll cycles  *)
(* under way, which interleave with subscribing and unsubscribing at every *)
(* SOAP request.                                                           *)
(*                                                                         *)
(* A cycle keeps the object it began with, while the timer belongs to the  *)
(* camera: a cycle of a dropped subscription still arms the timer of the   *)
(* next one.                                                               *)
(***************************************************************************)
EXTENDS Naturals

CONSTANTS
    Cycles,         \* bound: poll cycles under way at a time
    MaxSubs,        \* bound: subscription objects in a behaviour
    MaxFaults       \* bound: outages, reboots of the camera, restarts of the process

VARIABLES
    row,        \* the camera in the database: "none", "listed", "deleted"
    handler,    \* onAvailable: "idle", or what it knows of the camera by now
    listing,    \* the list of start() is still to be walked
    watched,    \* the object in subscriptions, 0 for none
    subs,       \* the objects: active, and subscriptionUrl with its lifetime
    made,       \* objects made so far
    timer,      \* an entry of pollTimeouts that has not fired
    cycle,      \* the poll cycles
    reachable,  \* whether the camera answers
    onvifFaults

onvifVars == <<row, handler, listing, watched, subs, made, timer, cycle, reachable, onvifFaults>>

(* "lapsed": the camera has forgotten the pull point, which the object does not know. *)
Urls == {"none", "fresh", "due", "lapsed"}
NoSub == [active |-> FALSE, url |-> "none"]
NoCycle == [at |-> "idle", sub |-> 0, url |-> "none"]

OnvifTypeOK ==
    /\ row \in {"none", "listed", "deleted"}
    /\ handler \in {"idle", "added", "online", "found"}
    /\ listing \in BOOLEAN /\ timer \in BOOLEAN /\ reachable \in BOOLEAN
    /\ made \in 0..MaxSubs /\ watched \in 0..made
    /\ subs \in [1..MaxSubs -> [active : BOOLEAN, url : Urls]]
    /\ cycle \in [Cycles -> [at : {"idle", "create", "renew", "pull", "process"},
                             sub : 0..MaxSubs, url : Urls]]

OnvifInit ==
    /\ row \in {"none", "listed"} /\ handler = "idle" /\ listing = TRUE
    /\ watched = 0 /\ made = 0 /\ timer = FALSE
    /\ subs = [s \in 1..MaxSubs |-> NoSub]
    /\ cycle = [c \in Cycles |-> NoCycle]
    /\ reachable \in BOOLEAN /\ onvifFaults = 0

-------------------------------------------------------------------------------
(* Subscribing *)

(* The old object as unsubscribeCamera leaves it: its pull point is given back. *)
Dropped(s) ==
    IF watched = 0 THEN s
    ELSE [s EXCEPT ![watched] = [active |-> FALSE,
                                 url |-> IF @.url = "none" THEN "none" ELSE "lapsed"]]

UnsubscribeCamera ==
    /\ timer' = FALSE
    /\ watched' = 0
    /\ subs' = Dropped(subs)

SubscribeCamera ==
    /\ made < MaxSubs
    /\ made' = made + 1
    /\ watched' = made + 1
    /\ subs' = [Dropped(subs) EXCEPT ![made + 1] = [active |-> TRUE, url |-> "none"]]
    /\ timer' = TRUE

(* camera.added and camera.online start a handler, which looks the camera up. *)
OnAvailable ==
    /\ handler = "idle" /\ made < MaxSubs
    /\ \/ row = "none" /\ row' = "listed" /\ handler' = "added"
       \/ row = "listed" /\ reachable /\ handler' = "online" /\ UNCHANGED row
    /\ UNCHANGED <<listing, watched, subs, made, timer, cycle, reachable, onvifFaults>>

(* A camera that is not found is subscribed all the same from the metadata of *)
(* camera.added; camera.online carries none.                                  *)
ResolveCamera ==
    /\ handler \in {"added", "online"}
    /\ handler' = IF row = "listed" \/ handler = "added" THEN "found" ELSE "idle"
    /\ UNCHANGED <<row, listing, watched, subs, made, timer, cycle, reachable, onvifFaults>>

SubscribeFound ==
    /\ handler = "found"
    /\ SubscribeCamera
    /\ handler' = "idle"
    /\ UNCHANGED <<row, listing, cycle, reachable, onvifFaults>>

(* start(): cameras that exist already, unless an event came first. *)
SubscribeListed ==
    /\ listing
    /\ listing' = FALSE
    /\ IF row = "listed" /\ watched = 0 THEN SubscribeCamera
       ELSE UNCHANGED <<watched, subs, made, timer>>
    /\ UNCHANGED <<row, handler, cycle, reachable, onvifFaults>>

OnOffline ==
    /\ row = "listed" /\ ~reachable /\ watched # 0
    /\ UnsubscribeCamera
    /\ UNCHANGED <<row, handler, listing, made, cycle, reachable, onvifFaults>>

(* The camera is removed, then camera.deleted is announced. *)
OnDeleted ==
    /\ row = "listed"
    /\ row' = "deleted"
    /\ UnsubscribeCamera
    /\ UNCHANGED <<handler, listing, made, cycle, reachable, onvifFaults>>

-------------------------------------------------------------------------------
(* A poll cycle *)

Set(c, at) == cycle' = [cycle EXCEPT ![c].at = at]
Rest(c) == cycle' = [cycle EXCEPT ![c] = NoCycle]

(* What a cycle does first with the URL it finds.  It cannot tell a lapsed    *)
(* URL: it renews it or pulls from it, as its own termination time says.      *)
FirstSteps(url) ==
    CASE url = "none" -> {"create"}
      [] url = "fresh" -> {"pull"}
      [] url = "due" -> {"renew"}
      [] url = "lapsed" -> {"renew", "pull"}

PollOnce(c) ==
    /\ timer /\ cycle[c].at = "idle"
    /\ timer' = FALSE
    /\ IF watched = 0 THEN UNCHANGED cycle
       ELSE \E at \in FirstSteps(subs[watched].url) :
              cycle' = [cycle EXCEPT ![c] = [at |-> at, sub |-> watched,
                                             url |-> subs[watched].url]]
    /\ UNCHANGED <<row, handler, listing, watched, subs, made, reachable, onvifFaults>>

(* Mutant: the subscription URL survives the error. *)
PollFailsKeepsUrl(c) ==
    /\ timer' = (timer \/ watched # 0)
    /\ Rest(c)
    /\ UNCHANGED <<row, handler, listing, watched, subs, made, reachable, onvifFaults>>

(* The catch of pollOnce, with scheduleReconnect. *)
PollFails(c) ==
    /\ subs' = [subs EXCEPT ![cycle[c].sub].url = "none"]
    /\ timer' = (timer \/ watched # 0)
    /\ Rest(c)
    /\ UNCHANGED <<row, handler, listing, watched, made, reachable, onvifFaults>>

(* A pull point is there; the cycle ends when its object was dropped meanwhile. *)
Ensured(c) ==
    /\ subs' = [subs EXCEPT ![cycle[c].sub].url = "fresh"]
    /\ IF subs[cycle[c].sub].active
       THEN cycle' = [cycle EXCEPT ![c].at = "pull", ![c].url = "fresh"]
       ELSE Rest(c)
    /\ UNCHANGED <<row, handler, listing, watched, made, timer, reachable, onvifFaults>>

InitiatePullPointSubscription(c) ==
    /\ cycle[c].at = "create"
    /\ IF reachable THEN Ensured(c) ELSE PollFails(c)

RenewSubscription(c) ==
    /\ cycle[c].at = "renew"
    /\ \/ reachable /\ subs[cycle[c].sub].url \in {"fresh", "due"} /\ Ensured(c)
       \/ /\ ~(reachable /\ subs[cycle[c].sub].url \in {"fresh", "due"})
          /\ Set(c, "create")
          /\ UNCHANGED <<row, handler, listing, watched, subs, made, timer, reachable, onvifFaults>>

PullSucceeds(c) ==
    /\ cycle[c].at = "pull" /\ reachable
    /\ cycle[c].url \in {"fresh", "due"}
    /\ Set(c, "process")
    /\ UNCHANGED <<row, handler, listing, watched, subs, made, timer, reachable, onvifFaults>>

PullFails(c) ==
    /\ cycle[c].at = "pull"
    /\ ~reachable \/ cycle[c].url \notin {"fresh", "due"} \/ subs[cycle[c].sub].url = "lapsed"
    /\ PollFails(c)

(* The events are emitted, if the camera is still watched, and the timer is   *)
(* armed, whichever object this cycle began with.                             *)
ProcessEvents(c) ==
    /\ cycle[c].at = "process"
    /\ timer' = TRUE
    /\ Rest(c)
    /\ UNCHANGED <<row, handler, listing, watched, subs, made, reachable, onvifFaults>>

-------------------------------------------------------------------------------
(* The camera and the process *)

(* Time passes: a pull point that is not renewed lapses. *)
Ages(s) ==
    /\ subs[s].url \in {"fresh", "due"}
    /\ subs' = [subs EXCEPT ![s].url = IF @ = "fresh" THEN "due" ELSE "lapsed"]
    /\ subs[s].url = "due" => ~reachable \/ s # watched
    /\ UNCHANGED <<row, handler, listing, watched, made, timer, cycle, reachable, onvifFaults>>

Fault == onvifFaults < MaxFaults /\ onvifFaults' = onvifFaults + 1

GoesDark ==
    /\ Fault /\ reachable
    /\ reachable' = FALSE
    /\ UNCHANGED <<row, handler, listing, watched, subs, made, timer, cycle>>

ComesBack ==
    /\ ~reachable
    /\ reachable' = TRUE
    /\ UNCHANGED <<row, handler, listing, watched, subs, made, timer, cycle, onvifFaults>>

Reboots ==
    /\ Fault
    /\ subs' = [s \in 1..MaxSubs |->
                  [subs[s] EXCEPT !.url = IF @ = "none" THEN "none" ELSE "lapsed"]]
    /\ UNCHANGED <<row, handler, listing, watched, made, timer, cycle, reachable>>

Restart ==
    /\ Fault
    /\ handler' = "idle" /\ listing' = TRUE /\ watched' = 0 /\ timer' = FALSE
    /\ subs' = [s \in 1..MaxSubs |-> NoSub]
    /\ cycle' = [c \in Cycles |-> NoCycle]
    /\ UNCHANGED <<row, made, reachable>>

CycleStep(c) ==
    \/ InitiatePullPointSubscription(c) \/ RenewSubscription(c)
    \/ PullSucceeds(c) \/ PullFails(c) \/ ProcessEvents(c)

OnvifNext ==
    \/ OnAvailable \/ ResolveCamera \/ SubscribeFound \/ SubscribeListed
    \/ OnOffline \/ OnDeleted
    \/ \E c \in Cycles : PollOnce(c) \/ CycleStep(c)
    \/ \E s \in 1..MaxSubs : Ages(s)
    \/ GoesDark \/ ComesBack \/ Reboots \/ Restart

(* Timers fire and requests end, by an answer or by HTTP_TIMEOUT_MS. *)
OnvifFairness ==
    /\ \A c \in Cycles : WF_onvifVars(CycleStep(c))
    /\ WF_onvifVars(\E c \in Cycles : PollOnce(c))

OnvifSpec == OnvifInit /\ [][OnvifNext]_onvifVars /\ OnvifFairness

-------------------------------------------------------------------------------
(* Properties *)

(***************************************************************************)
(* A subscribed camera is being polled: the timer of the camera is armed,  *)
(* or a cycle of this very subscription is under way and will arm it.      *)
(* pollOnce and scheduleReconnect return without arming anything when the  *)
(* subscription has changed under them, so an order of events in which the *)
(* last of them gives up would leave the camera silently without motion.   *)
(***************************************************************************)
ActiveIsPolled ==
    watched # 0 =>
      \/ timer
      \/ \E c \in Cycles : cycle[c].at # "idle" /\ cycle[c].sub = watched

(***************************************************************************)
(* A camera that stays reachable and subscribed is heard again and again,  *)
(* whatever became of its pull points before: "re-polling a lapsed         *)
(* subscription URL would never recover" (comment of pollOnce).            *)
(***************************************************************************)
EventsResume ==
    <>[](reachable /\ watched # 0) => []<>(\E c \in Cycles : cycle[c].at = "process")

(***************************************************************************)
(* "listeners stop watching the camera on camera.deleted" (removeCamera).  *)
(* Violated: a handler that looked the camera up before its removal        *)
(* subscribes it afterwards, and nothing unsubscribes it again.            *)
(***************************************************************************)
DeletedIsUnsubscribed == row = "deleted" => watched = 0

(***************************************************************************)
(* Not more than one cycle polls a subscription.  Violated: the cycle of   *)
(* the dropped object arms the timer while the cycle of the new one pulls, *)
(* and from then on there are two.                                         *)
(***************************************************************************)
OnePollAtATime ==
    \A c, d \in Cycles : cycle[c].at # "idle" /\ cycle[d].at # "idle" /\ c # d =>
        cycle[c].sub # cycle[d].sub

===============================================================================
