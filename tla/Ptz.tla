----------------------------------- MODULE Ptz -----------------------------------
(***************************************************************************)
(* Moving a camera (ptz/ptz.service.ts behind ptz.routes.ts, the commands  *)
(* of cameras/onvif.provider.ts) from the overlay of the console           *)
(* (PtzControlsOverlay.tsx).  A press starts a continuous move, a release  *)
(* stops it, and the server arms a watchdog that stops it when no release  *)
(* comes.  Moves, stops and watchdogs await the database and the camera,   *)
(* and overtake each other at every await.                                 *)
(*                                                                         *)
(* The presets of the camera are counted; their tokens and names, the      *)
(* speed of a move and the direction that is shown are left out.           *)
(***************************************************************************)
EXTENDS Naturals, Sequences, FiniteSets, Functions

CONSTANTS Slots,         \* bound on the requests under way
          Timers,        \* bound on the watchdogs under way
          MaxPresets,    \* bound on the presets of the camera
          MaxPtzFaults,  \* bound on failures and restarts
          None

VARIABLES moving,        \* the camera is in a continuous move
          saved,         \* the presets it has
          call,          \* what each request and each watchdog is doing
          watchdog,      \* activeWatchdogs of the camera
          view,          \* the overlay
          isMoving, presets, isTourActive, tourIndex,
          ptzFaults

ptzVars == <<moving, saved, call, watchdog, view, isMoving, presets, isTourActive, tourIndex,
             ptzFaults>>
overlayVars == <<view, isMoving, presets, isTourActive, tourIndex>>
tourVars == <<presets, isTourActive, tourIndex>>

Kinds == {"move", "stop", "watchdog", "list", "goto", "save", "remove"}
Steps == {"sent", "pending", "params", "command", "answer"}

Calls == [kind : Kinds, step : Steps, heard : BOOLEAN, data : 0..MaxPresets]

PtzTypeOK ==
    /\ moving \in BOOLEAN /\ saved \in 0..MaxPresets
    /\ \A p \in Slots \union Timers : call[p] \in Calls \union {None}
    /\ watchdog \in Timers \union {None}
    /\ view \in {"hidden", "shown", "crashed"} /\ isMoving \in BOOLEAN
    /\ presets \in 0..MaxPresets /\ isTourActive \in BOOLEAN /\ tourIndex \in 0..MaxPresets
    /\ ptzFaults \in 0..MaxPtzFaults

PtzInit ==
    /\ moving = FALSE /\ saved \in 0..MaxPresets
    /\ call = [p \in Slots \union Timers |-> None] /\ watchdog = None
    /\ view = "hidden" /\ isMoving = FALSE
    /\ presets = 0 /\ isTourActive = FALSE /\ tourIndex = 0
    /\ ptzFaults = 0

Doing(kind, step, heard) == [kind |-> kind, step |-> step, heard |-> heard, data |-> 0]
At(p, step) == call[p] # None /\ call[p].step = step
Goes(calls, p, step) == [calls EXCEPT ![p].step = step]
Over(calls, p) == [calls EXCEPT ![p] = None]

(* Sending: one request, or the two of a step of the tour, to free slots, whichever. *)
Free(calls, S) == {s \in S : calls[s] = None}
Sends(calls, kinds) ==
    LET ways == Injection(DOMAIN kinds, Free(calls, Slots))
        way == CHOOSE w \in ways : TRUE
        sent(kind) == Doing(kind, "sent", kind \in {"list", "save"})
    IN  /\ ways # {}
        /\ call' = [p \in DOMAIN calls |->
              IF \E i \in DOMAIN kinds : way[i] = p
              THEN sent(kinds[CHOOSE i \in DOMAIN kinds : way[i] = p]) ELSE calls[p]]

-------------------------------------------------------------------------------
(* The overlay. *)
Shown == view = "shown"

(* The overlay is mounted, and asks for the presets. *)
OpenOverlay ==
    /\ view = "hidden" /\ view' = "shown"
    /\ isMoving' = FALSE /\ presets' = 0 /\ isTourActive' = FALSE /\ tourIndex' = 0
    /\ Sends(call, <<"list">>)
    /\ UNCHANGED <<moving, saved, watchdog, ptzFaults>>

(* It is closed, with a key or a button down or not: nothing is sent, and no answer is heard. *)
OnClose ==
    /\ Shown /\ view' = "hidden"
    /\ call' = [p \in DOMAIN call |-> IF call[p] = None THEN None ELSE [call[p] EXCEPT !.heard = FALSE]]
    /\ UNCHANGED <<moving, saved, watchdog, isMoving, tourVars, ptzFaults>>

(* A press, or the repetition of a key that is held. *)
SendMove ==
    /\ Shown /\ isMoving' = TRUE
    /\ Sends(call, <<"move">>)
    /\ UNCHANGED <<moving, saved, watchdog, view, tourVars, ptzFaults>>

(* A release, or the pointer leaves the button. *)
SendStop ==
    /\ Shown /\ isMoving /\ isMoving' = FALSE
    /\ Sends(call, <<"stop">>)
    /\ UNCHANGED <<moving, saved, watchdog, view, tourVars, ptzFaults>>

GotoPreset ==
    /\ Shown /\ presets > 0
    /\ Sends(call, <<"goto">>)
    /\ UNCHANGED <<moving, saved, watchdog, overlayVars, ptzFaults>>

SavePreset ==
    /\ Shown /\ Sends(call, <<"save">>)
    /\ UNCHANGED <<moving, saved, watchdog, overlayVars, ptzFaults>>

(* The effect of the tour, after a change of what it depends on: it goes to the current
   preset, and there may be none under its index. *)
TourEffect(calls, active, index, count) ==
    IF active /\ count > 0
    THEN IF index < count THEN Sends(calls, <<"goto">>) /\ UNCHANGED view
         ELSE view' = "crashed" /\ call' = calls
    ELSE call' = calls /\ UNCHANGED view

ToggleTour ==
    /\ Shown /\ presets > 1
    /\ isTourActive' = ~isTourActive
    /\ TourEffect(call, isTourActive', tourIndex, presets)
    /\ UNCHANGED <<moving, saved, watchdog, isMoving, presets, tourIndex, ptzFaults>>

(* The interval of the tour goes to the next preset; so does the effect of the new index. *)
TourStep ==
    /\ Shown /\ isTourActive /\ presets > 0
    /\ tourIndex' = (tourIndex + 1) % presets
    /\ Sends(call, IF tourIndex' = tourIndex THEN <<"goto">> ELSE <<"goto", "goto">>)
    /\ UNCHANGED <<moving, saved, watchdog, view, isMoving, presets, isTourActive, ptzFaults>>

-------------------------------------------------------------------------------
(* The service. *)

(* clearWatchdog: a watchdog that has fired is only forgotten. *)
ClearWatchdog(calls) ==
    IF watchdog # None /\ calls[watchdog] # None /\ calls[watchdog].step = "pending"
    THEN Over(calls, watchdog) ELSE calls

(* A request reaches its handler; stop clears the watchdog before anything else. *)
Arrives(p) ==
    /\ At(p, "sent")
    /\ LET calls == Goes(call, p, "params")
       IN  IF call[p].kind = "stop" THEN call' = ClearWatchdog(calls) /\ watchdog' = None
           ELSE call' = calls /\ UNCHANGED watchdog
    /\ UNCHANGED <<moving, saved, overlayVars, ptzFaults>>

(* The row of the camera is read; move clears the watchdog after that. *)
GetConnectionParams(p) ==
    /\ At(p, "params")
    /\ LET calls == Goes(call, p, "command")
       IN  IF call[p].kind = "move" THEN call' = ClearWatchdog(calls) /\ watchdog' = None
           ELSE call' = calls /\ UNCHANGED watchdog
    /\ UNCHANGED <<moving, saved, overlayVars, ptzFaults>>

(* What a command does at the camera. *)
Takes(kind) ==
    CASE kind = "move" -> moving' = TRUE /\ UNCHANGED saved
      [] kind \in {"stop", "watchdog"} -> moving' = FALSE /\ UNCHANGED saved
      [] kind = "goto" -> moving' \in {moving, FALSE} /\ UNCHANGED saved
      [] kind = "list" -> UNCHANGED <<moving, saved>>
      [] kind = "save" -> saved < MaxPresets /\ saved' = saved + 1 /\ UNCHANGED moving
      [] kind = "remove" -> saved > 0 /\ saved' = saved - 1 /\ UNCHANGED moving

Command(p) ==
    /\ At(p, "command") /\ Takes(call[p].kind)
    /\ call' = [call EXCEPT ![p].step = "answer", ![p].data = IF call[p].kind = "list" THEN saved ELSE 0]
    /\ UNCHANGED <<watchdog, overlayVars, ptzFaults>>

(* Mutant: the watchdog that is over clears the timer it finds, too. *)
FinallyClears(p) ==
    /\ At(p, "answer") /\ call[p].kind = "watchdog"
    /\ call' = ClearWatchdog(Over(call, p)) /\ watchdog' = None
    /\ UNCHANGED <<moving, saved, overlayVars, ptzFaults>>

(* The watchdog is over, and forgets the timer of the camera, its own or a later one. *)
Finally(p) ==
    /\ At(p, "answer") /\ call[p].kind = "watchdog"
    /\ call' = Over(call, p) /\ watchdog' = None
    /\ UNCHANGED <<moving, saved, overlayVars, ptzFaults>>

(* A move is answered, and its watchdog armed; a timer that is still there is not cleared. *)
Moved(p) ==
    /\ At(p, "answer") /\ call[p].kind = "move"
    /\ Free(call, Timers) # {}
    /\ LET t == CHOOSE free \in Free(call, Timers) : TRUE
       IN  watchdog' = t /\ call' = [Over(call, p) EXCEPT ![t] = Doing("watchdog", "pending", FALSE)]
    /\ UNCHANGED <<moving, saved, overlayVars, ptzFaults>>

Fires(t) ==
    /\ At(t, "pending")
    /\ call' = ClearWatchdog(Goes(call, t, "params")) /\ watchdog' = None
    /\ UNCHANGED <<moving, saved, overlayVars, ptzFaults>>

(* The other answers: a list is shown, and a preset that was saved asks for a new one. *)
Answered(p) ==
    /\ At(p, "answer") /\ call[p].kind \notin {"move", "watchdog"}
    /\ LET heard == call[p].heard /\ Shown
           calls == Over(call, p)
       IN  CASE call[p].kind = "list" /\ heard ->
                  /\ presets' = call[p].data
                  /\ TourEffect(calls, isTourActive, tourIndex, presets')
             [] call[p].kind = "save" /\ heard -> Sends(calls, <<"list">>) /\ UNCHANGED <<view, presets>>
             [] OTHER -> call' = calls /\ UNCHANGED <<view, presets>>
    /\ UNCHANGED <<moving, saved, watchdog, isMoving, isTourActive, tourIndex, ptzFaults>>

(* The row cannot be read or is gone, or the camera is not reached, or its answer is lost.
   The request ends, and so does a watchdog. *)
Fails(p) ==
    /\ ptzFaults < MaxPtzFaults /\ ptzFaults' = ptzFaults + 1
    /\ \/ (At(p, "params") \/ At(p, "command")) /\ UNCHANGED <<moving, saved>>
       \/ At(p, "command") /\ Takes(call[p].kind)
    /\ call' = Over(call, p)
    /\ watchdog' = IF call[p].kind = "watchdog" THEN None ELSE watchdog
    /\ UNCHANGED overlayVars

(* The camera ends a move by itself: it is sent a timeout of 2 seconds, and may keep to it. *)
CameraStops ==
    /\ moving /\ moving' = FALSE
    /\ UNCHANGED <<saved, call, watchdog, overlayVars, ptzFaults>>

(* Another administrator removes a preset. *)
RemovePreset ==
    /\ saved > 0 /\ Sends(call, <<"remove">>)
    /\ UNCHANGED <<moving, saved, watchdog, overlayVars, ptzFaults>>

(* The process ends, with its timers and the requests it was serving. *)
Restart ==
    /\ ptzFaults < MaxPtzFaults /\ ptzFaults' = ptzFaults + 1
    /\ call' = [p \in DOMAIN call |-> IF At(p, "sent") THEN call[p] ELSE None] /\ watchdog' = None
    /\ UNCHANGED <<moving, saved, overlayVars>>

PtzNext ==
    \/ OpenOverlay \/ OnClose \/ SendMove \/ SendStop \/ GotoPreset \/ SavePreset
    \/ ToggleTour \/ TourStep \/ CameraStops \/ RemovePreset \/ Restart
    \/ \E p \in Slots : Arrives(p) \/ Moved(p) \/ Answered(p)
    \/ \E p \in Slots \union Timers : GetConnectionParams(p) \/ Command(p) \/ Fails(p)
    \/ \E t \in Timers : Fires(t) \/ Finally(t)

PtzSpec == PtzInit /\ [][PtzNext]_ptzVars

-------------------------------------------------------------------------------
(* A move is watched: a watchdog is armed or stopping it, or the server is serving a
   request that will stop it or arm the next one. *)
Watched ==
    \E p \in DOMAIN call :
        /\ call[p] # None
        /\ \/ call[p].kind = "watchdog"
           \/ call[p].kind \in {"move", "stop"} /\ call[p].step # "sent"

(* However moves, stops and watchdogs overtake each other, and though a watchdog that ends
   forgets the timer of a later move: while nothing fails, no camera moves unwatched. *)
MovesAreWatched == moving /\ ptzFaults = 0 => Watched

(* The inductive invariant behind it.  A watchdog or a stop that has given its command no
   longer watches: what moves after that is watched by the move itself, which arms a timer
   when it is answered, and who clears a timer is about to stop or to move. *)
Watches(p) ==
    /\ call[p] # None
    /\ \/ call[p].kind = "watchdog" /\ call[p].step # "answer"
       \/ call[p].kind = "move" /\ call[p].step # "sent"
       \/ call[p].kind = "stop" /\ call[p].step \in {"params", "command"}
PtzShape ==
    /\ call \in [Slots \union Timers -> Calls \union {None}]
    /\ saved \in 0..MaxPresets /\ ptzFaults \in Nat
    /\ \A p \in Slots \union Timers : At(p, "pending") => call[p].kind = "watchdog"
WatchInv ==
    /\ PtzShape
    /\ moving /\ ptzFaults = 0 => \E p \in Slots \union Timers : Watches(p)

-------------------------------------------------------------------------------
(* What goes wrong. *)

(* .planning/research/SUMMARY.md:45: the server enforces "a 1500ms auto-stop timer on all
   continuous motion vectors".  A second move clears the watchdog of the first and fails, and
   only the timeout the camera was sent is left. *)
EveryMoveIsWatched == moving => Watched

(* A timer that runs is one a stop can clear: of two moves under way at once only the
   second one's is, and the first stops the camera in the middle of a later move. *)
TimersAreKept == \A t \in Timers : At(t, "pending") => watchdog = t

(* The tour has a preset to go to: when another administrator has removed some, the list
   that follows a save is shorter than its index. *)
TourHasPreset == view # "crashed"
================================================================================
