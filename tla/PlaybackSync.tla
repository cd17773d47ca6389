------------------------------ MODULE PlaybackSync ------------------------------
(***************************************************************************)
(* Synchronous playback of several cameras: the master clock and its stall *)
(* lock (client/src/context/PlaybackSyncContext.tsx) and the tiles, which  *)
(* fetch a stream per stretch of footage (client/src/pages/                *)
(* PlaybackPage.tsx, SynchronizedCameraTile).                              *)
(***************************************************************************)
EXTENDS Naturals, FiniteSets

CONSTANTS
    Cameras,
    Footage,        \* for each camera, the number of the span at each time, 0 in a gap
    End, Chunk,     \* last time; duration of a stream
    MaxCameras,     \* decode budget
    MaxSeeks, MaxChanges, MaxFaults     \* bounds: seeks; play, pause and selections; failures

VARIABLES
    target, playing, selected,
    tile,           \* per camera: fetchSeq, the stream (start and span), whether it can play,
                    \* and whether its element could not load or decode it
    buffering,      \* playerStates: cameras that hold the stall lock
    fetches,        \* answers under way; those of an unmounted tile have sequence 0
    seeks, changes, faults

playbackVars == <<target, playing, selected, tile, buffering, fetches, seeks, changes, faults>>

NoStream == [start |-> 0, span |-> 0]
NewTile == [seq |-> 0, stream |-> NoStream, canPlay |-> FALSE, failed |-> FALSE]
Span(c, t) == Footage[c][t]

-------------------------------------------------------------------------------
(* The effect of a tile when the playhead has moved *)

Covers(stream, c, t) ==
    stream.span = Span(c, t) /\ stream.start <= t /\ t <= stream.start + Chunk

Fetches(c, t) == Span(c, t) # 0 /\ ~Covers(tile[c].stream, c, t)

TileAt(c, t) ==
    CASE Span(c, t) = 0 -> [NewTile EXCEPT !.seq = tile[c].seq]
      [] Fetches(c, t) -> [tile[c] EXCEPT !.seq = @ + 1]
      [] OTHER -> tile[c]

MoveTo(t) ==
    /\ target' = t
    /\ tile' = [c \in Cameras |-> IF c \in selected THEN TileAt(c, t) ELSE tile[c]]
    /\ fetches' = fetches \cup {[camera |-> c, seq |-> tile[c].seq + 1, time |-> t] :
                                   c \in {d \in selected : Fetches(d, t)}}
    /\ buffering' = (buffering \ {c \in selected : Span(c, t) = 0})
                      \cup {c \in selected : Fetches(c, t)}

Bounds == <<seeks, changes, faults>>

PlaybackInit ==
    /\ target = 0 /\ playing = FALSE /\ selected = {}
    /\ tile = [c \in Cameras |-> NewTile]
    /\ buffering = {} /\ fetches = {}
    /\ seeks = 0 /\ changes = 0 /\ faults = 0

(* isBuffering: one selected camera is enough to stop the clock. *)
StallLocked == buffering \cap selected # {}

Tick ==
    /\ playing /\ ~StallLocked /\ target < End
    /\ MoveTo(target + 1)
    /\ UNCHANGED <<playing, selected, Bounds>>

SeekToTimestamp ==
    /\ seeks < MaxSeeks /\ seeks' = seeks + 1
    /\ \E t \in 0..End : t # target /\ MoveTo(t)
    /\ UNCHANGED <<playing, selected, changes, faults>>

TogglePlay ==
    /\ changes < MaxChanges /\ changes' = changes + 1
    /\ playing' = ~playing
    /\ UNCHANGED <<target, selected, tile, buffering, fetches, seeks, faults>>

-------------------------------------------------------------------------------
(* Selecting and deselecting a camera mounts and unmounts its tile *)

Select(c) ==
    /\ c \notin selected /\ Cardinality(selected) < MaxCameras
    /\ changes < MaxChanges /\ changes' = changes + 1
    /\ selected' = selected \cup {c}
    /\ LET asks == Span(c, target) # 0 IN
         /\ tile' = [tile EXCEPT ![c] = [NewTile EXCEPT !.seq = IF asks THEN 1 ELSE 0]]
         /\ fetches' = fetches \cup
              IF asks THEN {[camera |-> c, seq |-> 1, time |-> target]} ELSE {}
         /\ buffering' = IF asks THEN buffering \cup {c} ELSE buffering \ {c}
    /\ UNCHANGED <<target, playing, seeks, faults>>

Deselect(c) ==
    /\ c \in selected
    /\ changes < MaxChanges /\ changes' = changes + 1
    /\ selected' = selected \ {c}
    /\ buffering' = buffering \ {c}
    /\ tile' = [tile EXCEPT ![c] = NewTile]
    /\ fetches' = {f \in fetches : f.camera # c} \cup
                  {[f EXCEPT !.seq = 0] : f \in {g \in fetches : g.camera = c /\ g.seq = tile[c].seq}}
    /\ UNCHANGED <<target, playing, seeks, faults>>

-------------------------------------------------------------------------------
(* Answers and the video elements *)

IsLatest(f) == f.camera \in selected /\ f.seq # 0 /\ f.seq = tile[f.camera].seq

FetchAnswers(f) ==
    /\ fetches' = fetches \ {f}
    /\ tile' = IF IsLatest(f)
               THEN [tile EXCEPT ![f.camera].stream = [start |-> f.time, span |-> Span(f.camera, f.time)],
                                 ![f.camera].canPlay = FALSE, ![f.camera].failed = FALSE]
               ELSE tile
    /\ UNCHANGED <<target, playing, selected, buffering, Bounds>>

(* The latest fetch of a tile gives its lock back, one of an unmounted tile, too. *)
FetchFails(f) ==
    /\ faults < MaxFaults /\ faults' = faults + 1
    /\ fetches' = fetches \ {f}
    /\ buffering' = IF IsLatest(f) \/ f.seq = 0 THEN buffering \ {f.camera} ELSE buffering
    /\ UNCHANGED <<target, playing, selected, tile, seeks, changes>>

Rendered(c) == c \in selected /\ Span(c, target) # 0 /\ tile[c].stream # NoStream

Loading(c) == Rendered(c) /\ ~tile[c].canPlay /\ ~tile[c].failed

(* Mutant: the lock is not given back. *)
CanPlayQuietly(c) ==
    /\ Loading(c)
    /\ tile' = [tile EXCEPT ![c].canPlay = TRUE]
    /\ UNCHANGED <<target, playing, selected, buffering, fetches, Bounds>>

CanPlay(c) ==
    /\ Loading(c)
    /\ tile' = [tile EXCEPT ![c].canPlay = TRUE]
    /\ buffering' = buffering \ {c}
    /\ UNCHANGED <<target, playing, selected, fetches, Bounds>>

Waiting(c) ==
    /\ Rendered(c) /\ tile[c].canPlay
    /\ faults < MaxFaults /\ faults' = faults + 1
    /\ tile' = [tile EXCEPT ![c].canPlay = FALSE]
    /\ buffering' = buffering \cup {c}
    /\ UNCHANGED <<target, playing, selected, fetches, seeks, changes>>

(* The video cannot be loaded or decoded: the element has no onError, so the lock the tile
   took for it stays. *)
MediaFails(c) ==
    /\ Loading(c)
    /\ faults < MaxFaults /\ faults' = faults + 1
    /\ tile' = [tile EXCEPT ![c].failed = TRUE]
    /\ UNCHANGED <<target, playing, selected, buffering, fetches, seeks, changes>>

PlaybackNext ==
    \/ Tick \/ SeekToTimestamp \/ TogglePlay
    \/ \E c \in Cameras : Select(c) \/ Deselect(c) \/ CanPlay(c) \/ Waiting(c) \/ MediaFails(c)
    \/ \E f \in fetches : FetchAnswers(f) \/ FetchFails(f)

(* An element that has not failed says in the end that it can play. *)
PlaybackFairness ==
    /\ WF_playbackVars(Tick)
    /\ WF_playbackVars(\E f \in fetches : FetchAnswers(f))
    /\ \A c \in Cameras : WF_playbackVars(CanPlay(c))

PlaybackSpec == PlaybackInit /\ [][PlaybackNext]_playbackVars /\ PlaybackFairness

-------------------------------------------------------------------------------
(* Properties *)

(***************************************************************************)
(* Whoever holds the stall lock can still give it back: the answer of the  *)
(* latest fetch is under way, or a video is loading; or the video has      *)
(* failed, and keeps it.  A tile takes the lock in one effect and gives it *)
(* back in five places.                                                    *)
(***************************************************************************)
LockIsReturned == \A c \in buffering \cap selected :
    \/ \E f \in fetches : f.camera = c /\ IsLatest(f)
    \/ Rendered(c) /\ ~tile[c].canPlay

(***************************************************************************)
(* While it plays, the clock gets to the end, through gaps and span after  *)
(* span, whatever fetch fails and whatever video stalls, unless a video    *)
(* that is selected could not be loaded and holds the stall lock: until it *)
(* is deselected, or the playhead leaves its stream, that one stops all.   *)
(***************************************************************************)
StoppedByMedia == \E c \in selected : tile[c].failed /\ c \in buffering

ClockRuns == []<>(~playing \/ target = End \/ StoppedByMedia)

(***************************************************************************)
(* ... and then too.  Violated: a media error fires no canplay, and there  *)
(* is no handler that would take it for the end of the wait.               *)
(***************************************************************************)
ClockAlwaysRuns == []<>(~playing \/ target = End)

(***************************************************************************)
(* A tile at rest shows the playhead.  Violated by a seek away and back    *)
(* while paused: the way back needs no fetch, so the answer of the first   *)
(* one is not superseded and replaces the stream that covers the playhead. *)
(***************************************************************************)
RestsAtPlayhead ==
    fetches = {} /\ ~playing =>
      \A c \in selected : Rendered(c) => Covers(tile[c].stream, c, target)

===============================================================================
