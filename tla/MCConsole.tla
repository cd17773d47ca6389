-------------------------------- MODULE MCConsole --------------------------------
(***************************************************************************)
(* Parts of the console that share no state: the live player, synchronous  *)
(* playback, the session of the browser, the editor of motion zones, and   *)
(* the websocket feed of events between the server and the console.        *)
(* A behaviour is one of one part (see MCServer); the fairness of a part   *)
(* is the one its module states, for the part that moves.                  *)
(***************************************************************************)
EXTENDS Naturals, FiniteSets

CONSTANTS
    Urls, MaxWants, MaxReconnects, MaxStreamFaults,
    Cameras, Footage, End, Chunk, MaxCameras, MaxSeeks, MaxChanges, MaxTileFaults,
    LastToken, MaxRequests, MaxAnswerFaults,
    MaxZones, Slots, MinVertices, MaxVertices, MaxActs, MaxEditorFaults, None

VARIABLES
    part,
    mounted, wanted, active, layer, sequence, pending, teardown, status, hadPlayback,
    current, open, orphans, wants, reconnects, streamFaults,
    target, playing, selected, tile, buffering, fetches, seeks, changes, tileFaults,
    token, user, lists, valid, issued, passwordChange, requests, answerFaults,
    rows, created, isOpen, zones, selectedZoneId, editorMode, drawingPoints, draggingVertex,
    testPoint, testResult, call, acts, editorFaults,
    granted, client, peer, feed, loads, network, feedFaults, grants

Player == INSTANCE LivePlayer WITH MaxFaults <- MaxStreamFaults, faults <- streamFaults
Playback == INSTANCE PlaybackSync WITH MaxFaults <- MaxTileFaults, faults <- tileFaults
Browser == INSTANCE ConsoleSession WITH MaxFaults <- MaxAnswerFaults, faults <- answerFaults
Editor == INSTANCE ZoneEditor
Feed == INSTANCE EventFeed WITH
    Sockets <- {1, 2}, MaxBuffer <- 0, MaxFaults <- 1, MaxGrants <- 1, faults <- feedFaults

playerVars == <<mounted, wanted, active, layer, sequence, pending, teardown, status,
                hadPlayback, current, open, orphans, wants, reconnects, streamFaults>>
playbackVars == <<target, playing, selected, tile, buffering, fetches, seeks, changes,
                  tileFaults>>
browserVars == <<token, user, lists, valid, issued, passwordChange, requests, answerFaults>>
editorVars == <<rows, created, isOpen, zones, selectedZoneId, editorMode, drawingPoints,
                draggingVertex, testPoint, testResult, call, acts, editorFaults>>
feedVars == <<granted, client, peer, feed, loads, network, feedFaults, grants>>
vars == <<part, playerVars, playbackVars, browserVars, editorVars, feedVars>>

(* Camera 1 has a gap between two spans, camera 2 begins late. *)
MCFootage == [c \in Cameras |->
    [t \in 0..End |-> IF c = 1 THEN (IF t < End - 1 THEN 1 ELSE IF t = End THEN 2 ELSE 0)
                      ELSE (IF t = 0 THEN 0 ELSE 1)]]

Playing == part \in {"player", "unlucky"}

(* A part that is not chosen stays in one of its initial states. *)
Init ==
    /\ part \in {"player", "unlucky", "playback", "browser", "editor", "feed"}
    /\ Player!PlayerInit /\ Playback!PlaybackInit /\ Browser!SessionInit /\ Editor!EditorInit
    /\ Feed!FeedInit

Next ==
    /\ UNCHANGED part
    /\ IF Playing THEN Player!PlayerNext ELSE UNCHANGED playerVars
    /\ IF part = "playback" THEN Playback!PlaybackNext ELSE UNCHANGED playbackVars
    /\ IF part = "browser" THEN Browser!ConsoleNext ELSE UNCHANGED browserVars
    /\ IF part = "editor" THEN Editor!EditorNext ELSE UNCHANGED editorVars
    /\ IF part = "feed" THEN Feed!FeedNext ELSE UNCHANGED feedVars

PlayerFairness ==
    /\ WF_playerVars(Playing /\ \E p \in pending : Player!Returns(p))
    /\ WF_playerVars(Playing /\ Player!TeardownTimer)
    /\ \A l \in {0, 1} : WF_playerVars(Playing /\ Player!Plays(l))

PlaybackFairness ==
    /\ WF_playbackVars(part = "playback" /\ Playback!Tick)
    /\ WF_playbackVars(part = "playback" /\ \E f \in fetches : Playback!FetchAnswers(f))
    /\ \A c \in Cameras : WF_playbackVars(part = "playback" /\ Playback!CanPlay(c))

BrowserFairness ==
    /\ SF_browserVars(part = "browser" /\ Browser!Poll)
    /\ WF_browserVars(part = "browser" /\ Browser!PasswordChanged)
    /\ \A t \in 1..LastToken, k \in {"me", "data"},
          A \in {{Browser!Asked}, Browser!Fair \cup Browser!Faulty} :
         WF_browserVars(/\ part = "browser"
                        /\ \E r \in Browser!RequestsOf(t, k, A) : Browser!RequestStep(r))

EditorFairness ==
    \A s \in Slots :
        /\ WF_editorVars(part = "editor" /\ Editor!Serve(s))
        /\ WF_editorVars(part = "editor" /\ Editor!Receive(s))

FeedFairness ==
    /\ WF_feedVars(part = "feed" /\ Feed!ReconnectTimer)
    /\ WF_feedVars(part = "feed" /\ Feed!CheckHeartbeats)
    /\ SF_feedVars(part = "feed" /\ Feed!Broadcast({1, 2}))
    /\ WF_feedVars(part = "feed" /\ Feed!NetworkReturns)
    /\ \A s \in {1, 2} :
         /\ WF_feedVars(part = "feed" /\ (Feed!OnOpen(s) \/ Feed!OnClose(s)))
         /\ WF_feedVars(part = "feed" /\ (Feed!Upgrade(s) \/ Feed!HandleUpgrade(s)))
         /\ WF_feedVars(part = "feed" /\ Feed!ResolverReads(s))
         /\ WF_feedVars(part = "feed" /\ Feed!ResolverAnswers(s))
         /\ WF_feedVars(part = "feed" /\ Feed!Deliver(s))
         /\ WF_feedVars(part = "feed" /\ Feed!Pong(s))

Fairness ==
    /\ PlayerFairness /\ PlaybackFairness /\ BrowserFairness /\ EditorFairness
    /\ FeedFairness

Spec == Init /\ [][Next]_vars /\ Fairness

(* What the run explores of it: one player meets one fault, the other switches once, does not
   reconnect and meets them all, so that HLS fails after WebRTC has.  Theorems are about Spec. *)
BoundedInit == Init /\ (~Playing => wanted = CHOOSE url \in Urls : TRUE)
BoundedNext ==
    /\ Next
    /\ part = "player" => streamFaults' <= 1
    /\ part = "unlucky" => wants' <= 1 /\ reconnects' = 0

BoundedSpec == BoundedInit /\ [][BoundedNext]_vars /\ Fairness

(* What is shown: LivePlayer and PlaybackSync. *)
SessionsAreHeld == Player!SessionsAreHeld
PlayerSettles == Playing => Player!PlayerSettles
ClockRuns == part = "playback" => Playback!ClockRuns

(* Who is signed in: ConsoleSession.  A session ends when its token is dead, and only then or
   by an answer that failed. *)
OnlyDeadSessionsEnd == [][Browser!AnswerEndsDead]_browserVars
DeadSessionsEnd == part = "browser" => Browser!DeadSessionsEnd
SessionsEndWithTheirToken == OnlyDeadSessionsEnd /\ DeadSessionsEnd

(* What is drawn: ZoneEditor. *)
EditorSettles == part = "editor" => Editor!EditorSettles

(* What is announced: EventFeed. *)
FeedConverges == part = "feed" => Feed!FeedConverges
================================================================================
