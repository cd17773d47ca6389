------------------------------- MODULE LivePlayer -------------------------------
(***************************************************************************)
(* The live player of the console (components/WhepHlsPlayer.tsx): two      *)
(* layers, one shown while the other loads; WebRTC through connectWhep     *)
(* (utils/whep-client.ts) and HLS when that fails.  What a connection, a   *)
(* playlist check or a timer does on return depends on what was loaded     *)
(* into its layer in the meantime.                                         *)
(***************************************************************************)
EXTENDS Naturals, FiniteSets

CONSTANTS
    Urls,           \* streams the player may be asked for
    MaxWants,       \* bound: changes of the stream that is asked for
    MaxReconnects,  \* bound: clicks on reconnect
    MaxFaults       \* bound: connections, playlists and streams that fail

VARIABLES
    mounted, wanted,
    active,         \* activeLayer
    layer,          \* per layer: loadId, mode, tearingDown, session, source, played,
                    \* and whether ICE failed before there was a session
    sequence,       \* loadSequenceRef
    pending,        \* connectWhep calls and playlist checks under way
    teardown,       \* the layer teardownTimerRef will clean, or none
    status, hadPlayback, current,
    open,           \* sessions of connections that came back and no DELETE was sent for, by load
    orphans,        \* loads whose POST was accepted although connectWhep failed
    wants, reconnects, faults

playerVars == <<mounted, wanted, active, layer, sequence, pending, teardown, status,
                hadPlayback, current, open, orphans, wants, reconnects, faults>>

Layers == {0, 1}
NoLayer == 2
NoUrl == "none"
NoSession == 0
NoSource == [kind |-> "none", url |-> NoUrl]
EmptyLayer == [loadId |-> 0, mode |-> "webrtc", tearingDown |-> FALSE,
               session |-> NoSession, source |-> NoSource, played |-> FALSE,
               iceFailed |-> FALSE]

Ghosts == <<wants, reconnects, faults>>
Shown == <<active, status, hadPlayback, current>>

(* loadStreamIntoLayer up to its await. *)
LoadStreamIntoLayer(l, url, initial) ==
    /\ sequence' = sequence + 1
    /\ layer' = [layer EXCEPT ![l] = [EmptyLayer EXCEPT !.loadId = sequence + 1]]
    /\ open' = open \ {layer[l].session}
    /\ pending' = pending \cup {[call |-> "whep", layer |-> l, id |-> sequence + 1, url |-> url]}
    /\ status' = IF initial THEN "connecting" ELSE status

(* loadHlsIntoLayer up to its await; a new load, or the fallback of one.  Two checks of one
   playlist under one number are one call. *)
LoadHlsIntoLayer(l, url, id, rest, failed) ==
    /\ sequence' = IF id > sequence THEN id ELSE sequence
    /\ layer' = [layer EXCEPT ![l] = [EmptyLayer EXCEPT !.loadId = id, !.mode = "hls",
                                                        !.iceFailed = failed]]
    /\ open' = open \ {layer[l].session}
    /\ pending' = rest \cup {[call |-> "hls", layer |-> l, id |-> id, url |-> url]}

PlayerInit ==
    /\ mounted = TRUE /\ wanted \in Urls
    /\ active = 0 /\ status = "connecting" /\ hadPlayback = FALSE /\ current = NoUrl
    /\ layer = [l \in Layers |-> IF l = 0 THEN [EmptyLayer EXCEPT !.loadId = 1] ELSE EmptyLayer]
    /\ sequence = 1
    /\ pending = {[call |-> "whep", layer |-> 0, id |-> 1, url |-> wanted]}
    /\ teardown = NoLayer /\ open = {} /\ orphans = {}
    /\ wants = 0 /\ reconnects = 0 /\ faults = 0

-------------------------------------------------------------------------------
(* The effect of new URLs, and the button *)

Want(url) ==
    /\ mounted /\ wants < MaxWants /\ url # wanted
    /\ wanted' = url /\ wants' = wants + 1
    /\ IF current = url THEN UNCHANGED <<layer, sequence, pending, teardown, status, open>>
       ELSE LET first == ~hadPlayback /\ current = NoUrl IN
            /\ teardown' = NoLayer
            /\ LoadStreamIntoLayer(IF first THEN 0 ELSE 1 - active, url, first)
    /\ UNCHANGED <<mounted, active, hadPlayback, current, orphans, reconnects, faults>>

HandleReconnect ==
    /\ mounted /\ reconnects < MaxReconnects
    /\ reconnects' = reconnects + 1
    /\ LoadStreamIntoLayer(1 - active, wanted, ~hadPlayback)
    /\ UNCHANGED <<mounted, wanted, active, teardown, hadPlayback, current, orphans, wants, faults>>

-------------------------------------------------------------------------------
(* What comes back *)

IsCurrent(p) == mounted /\ layer[p.layer].loadId = p.id

(* The element is given the stream; srcObject wins over a playlist in src.  A stream whose
   ICE has failed already calls nobody back any more and never plays. *)
TakesSession(p) ==
    /\ layer' = [layer EXCEPT
                    ![p.layer].session = p.id, ![p.layer].played = FALSE,
                    ![p.layer].source = [kind |-> IF layer[p.layer].iceFailed THEN "dead" ELSE "webrtc",
                                         url |-> p.url]]
    /\ open' = open \cup {p.id}

(* Mutant: the layer takes the session whatever was loaded into it since. *)
ConnectWhepAlways(p) ==
    /\ p.call = "whep"
    /\ pending' = pending \ {p}
    /\ TakesSession(p)
    /\ UNCHANGED <<mounted, wanted, sequence, teardown, orphans, Shown, Ghosts>>

ConnectWhepReturns(p) ==
    /\ p.call = "whep"
    /\ pending' = pending \ {p}
    /\ IF IsCurrent(p) THEN TakesSession(p)
       ELSE UNCHANGED <<layer, open>>      \* the session is closed at once
    /\ UNCHANGED <<mounted, wanted, sequence, teardown, orphans, Shown, Ghosts>>

(* Mutant: a connection that fails is given up without a fallback. *)
ConnectWhepGivesUp(p) ==
    /\ p.call = "whep" /\ faults < MaxFaults
    /\ faults' = faults + 1
    /\ pending' = pending \ {p}
    /\ orphans' \in {orphans, orphans \cup {p.id}}
    /\ UNCHANGED <<mounted, wanted, layer, sequence, open, teardown, Shown, wants, reconnects>>

(* connectWhep fails: the POST was refused or timed out, or it was accepted and its answer
   could not be read or applied.  Only the peer connection is closed then; the session the
   server made is not deleted. *)
ConnectWhepFails(p) ==
    /\ p.call = "whep" /\ faults < MaxFaults
    /\ faults' = faults + 1
    /\ orphans' \in {orphans, orphans \cup {p.id}}
    /\ IF IsCurrent(p) THEN LoadHlsIntoLayer(p.layer, p.url, p.id, pending \ {p}, FALSE)
       ELSE pending' = pending \ {p} /\ UNCHANGED <<layer, sequence, open>>
    /\ UNCHANGED <<mounted, wanted, teardown, Shown, wants, reconnects>>

(* The ICE state becomes failed or disconnected. *)
IceFails(l) ==
    /\ faults < MaxFaults /\ faults' = faults + 1
    /\ mounted /\ layer[l].session # NoSession /\ layer[l].session = layer[l].loadId
    /\ layer[l].source.kind = "webrtc"
    /\ LoadHlsIntoLayer(l, layer[l].source.url, layer[l].loadId, pending, FALSE)
    /\ UNCHANGED <<mounted, wanted, teardown, orphans, Shown, wants, reconnects>>

(* It does so before connectWhep has returned: HLS is loaded under the number of the load,
   which the session will pass as its own when it comes.  "disconnected" may be followed by
   another state, "failed" by none. *)
IceFailsEarly(p) ==
    /\ faults < MaxFaults /\ faults' = faults + 1
    /\ p.call = "whep" /\ IsCurrent(p) /\ ~layer[p.layer].iceFailed
    /\ \E failed \in BOOLEAN : LoadHlsIntoLayer(p.layer, p.url, p.id, pending, failed)
    /\ UNCHANGED <<mounted, wanted, teardown, orphans, Shown, wants, reconnects>>

PlaylistIsThere(p) ==
    /\ p.call = "hls"
    /\ pending' = pending \ {p}
    /\ layer' = IF IsCurrent(p) /\ layer[p.layer].session = NoSession
                THEN [layer EXCEPT ![p.layer].source = [kind |-> "hls", url |-> p.url]] ELSE layer
    /\ UNCHANGED <<mounted, wanted, sequence, teardown, open, orphans, Shown, Ghosts>>

PlaylistFails(p) ==
    /\ p.call = "hls" /\ faults < MaxFaults
    /\ faults' = faults + 1
    /\ pending' = pending \ {p}
    /\ status' = IF IsCurrent(p) THEN "error" ELSE status
    /\ UNCHANGED <<mounted, wanted, layer, sequence, teardown, open, orphans, active,
                   hadPlayback, current, wants, reconnects>>

(* onPlayingTrigger and onHlsPlaying; the latter remembers no WHEP URL, so the *)
(* stream that is playing is never taken for the one that is asked for.        *)
Plays(l) ==
    /\ mounted /\ layer[l].source.kind \in {"webrtc", "hls"} /\ ~layer[l].played
    /\ layer' = [layer EXCEPT ![l].played = TRUE]
    /\ hadPlayback' = TRUE
    /\ current' = IF layer[l].source.kind = "webrtc" THEN layer[l].source.url ELSE "hls"
    /\ status' = "connected"
    /\ active' = l
    /\ teardown' = IF active = l THEN teardown ELSE active
    /\ UNCHANGED <<mounted, wanted, sequence, pending, open, orphans, Ghosts>>

(* handleLayerError: the element cannot play what it was given; hls.js reports its own
   fatal errors, to the same effect. *)
HandleLayerError(l) ==
    /\ mounted /\ layer[l].source # NoSource /\ ~layer[l].tearingDown
    /\ faults < MaxFaults /\ faults' = faults + 1
    /\ IF layer[l].mode = "webrtc"
       THEN LoadHlsIntoLayer(l, wanted, sequence + 1, pending, FALSE) /\ UNCHANGED status
       ELSE status' = "error" /\ UNCHANGED <<layer, sequence, open, pending>>
    /\ UNCHANGED <<mounted, wanted, teardown, orphans, active, hadPlayback, current, wants,
                   reconnects>>

(* cleanSession, of the layer that was left 350 ms ago. *)
Cleaned(l, id) == [EmptyLayer EXCEPT !.loadId = id, !.tearingDown = TRUE, !.mode = layer[l].mode]

TeardownTimer ==
    /\ mounted /\ teardown # NoLayer
    /\ sequence' = sequence + 1
    /\ layer' = [layer EXCEPT ![teardown] = Cleaned(teardown, sequence + 1)]
    /\ open' = open \ {layer[teardown].session}
    /\ teardown' = NoLayer
    /\ UNCHANGED <<mounted, wanted, pending, orphans, Shown, Ghosts>>

Unmount ==
    /\ mounted /\ mounted' = FALSE
    /\ sequence' = sequence + 2
    /\ layer' = [l \in Layers |-> Cleaned(l, sequence + 1 + l)]
    /\ open' = open \ {layer[l].session : l \in Layers}
    /\ teardown' = NoLayer
    /\ UNCHANGED <<wanted, pending, orphans, Shown, Ghosts>>

Returns(p) == ConnectWhepReturns(p) \/ PlaylistIsThere(p)
Fails(p) == ConnectWhepFails(p) \/ PlaylistFails(p)

PlayerNext ==
    \/ \E url \in Urls : Want(url)
    \/ HandleReconnect \/ TeardownTimer \/ Unmount
    \/ \E p \in pending : Returns(p) \/ Fails(p) \/ IceFailsEarly(p)
    \/ \E l \in Layers : IceFails(l) \/ Plays(l) \/ HandleLayerError(l)

PlayerFairness ==
    /\ WF_playerVars(\E p \in pending : Returns(p))
    /\ WF_playerVars(TeardownTimer)
    /\ \A l \in Layers : WF_playerVars(Plays(l))

PlayerSpec == PlayerInit /\ [][PlayerNext]_playerVars /\ PlayerFairness

-------------------------------------------------------------------------------
(* Properties *)

(***************************************************************************)
(* Every session of a connection that came back, and that nobody asked the *)
(* server to delete yet, is held by the layer that plays it, so whatever   *)
(* cleans the layer closes it: a connection that returns to a layer that   *)
(* was loaded again, or to an unmounted player, leaves none behind         *)
(* ("closing session to prevent leak"), nor does one that returns to a     *)
(* layer that fell back to HLS while it was under way.                     *)
(***************************************************************************)
SessionsAreHeld ==
    /\ open = {layer[l].session : l \in Layers} \ {NoSession}
    /\ ~mounted => open = {}

(***************************************************************************)
(* Nothing at all is left at the server by a player that is gone.          *)
(* Violated: connectWhep learns where its session is and then fails to     *)
(* read or to apply the answer; it closes the peer connection and throws,  *)
(* without the DELETE.                                                     *)
(***************************************************************************)
NothingIsLeft == ~mounted => open \cup orphans = {}

(***************************************************************************)
(* The timer that cleans the layer that was left never cleans the one that *)
(* is shown, however switches, reconnects and fallbacks follow each other. *)
(***************************************************************************)
ShownIsKept == mounted => teardown # active

(***************************************************************************)
(* The inductive invariant behind both.  No two loads have the same        *)
(* number: a number that is handed out is new, and a fallback to HLS keeps *)
(* that of its own layer.  So a layer that has a session got it from the   *)
(* load it still carries, and no connection of that load is under way any  *)
(* more that would put a second session over the first.                    *)
(***************************************************************************)
LoadedUrls == Urls \cup {NoUrl}
LayerStates == [loadId : Nat, mode : {"webrtc", "hls"}, tearingDown : BOOLEAN,
                session : Nat, played : BOOLEAN, iceFailed : BOOLEAN,
                source : [kind : {"none", "webrtc", "dead", "hls"}, url : LoadedUrls]]
Calls == [call : {"whep", "hls"}, layer : Layers, id : Nat \ {0}, url : LoadedUrls]
PlayerTypeOK ==
    /\ mounted \in BOOLEAN /\ wanted \in Urls /\ active \in Layers
    /\ layer \in [Layers -> LayerStates]
    /\ sequence \in Nat
    /\ pending \subseteq Calls
    /\ teardown \in Layers \cup {NoLayer}

LoadsAreNumbered ==
    /\ \A l \in Layers : layer[l].loadId <= sequence
    /\ \A p \in pending : p.id <= sequence
    /\ layer[0].loadId # layer[1].loadId
    /\ \A p, q \in pending : p.call = "whep" /\ q.call = "whep" /\ p.id = q.id => p = q

OneSessionPerLoad ==
    /\ \A l \in Layers : layer[l].session \in {NoSession, layer[l].loadId}
    /\ \A p \in pending :
          p.call = "whep" /\ layer[p.layer].loadId = p.id => layer[p.layer].session = NoSession

PlayerInv == PlayerTypeOK /\ LoadsAreNumbered /\ OneSessionPerLoad /\ SessionsAreHeld /\ ShownIsKept

(***************************************************************************)
(* The player comes to rest with a picture on the layer it shows, or with  *)
(* the failure on the screen, unless a layer was given a stream whose ICE  *)
(* had failed before connectWhep returned.                                 *)
(***************************************************************************)
AtRest == ~mounted \/ status = "error" \/ (status = "connected" /\ layer[active].played)

PlayerSettles == <>[](AtRest \/ \E l \in Layers : layer[l].source.kind = "dead")

(***************************************************************************)
(* ... and with such a stream too.  Violated: the guard after connectWhep  *)
(* asks for the number of the load, which the fallback kept; the dead      *)
(* stream is put over the HLS picture and nothing reports its failure.     *)
(***************************************************************************)
PlayerAlwaysSettles == <>[]AtRest

(***************************************************************************)
(* The picture at rest is the one that is asked for.  Violated by a switch *)
(* there and back: the first stream still plays, so the effect returns     *)
(* early and leaves the load of the second one under way, which is shown   *)
(* when it arrives.                                                        *)
(***************************************************************************)
ShowsWhatIsWanted == <>[](~mounted \/ status = "error" \/ layer[active].source.url = wanted)

===============================================================================
