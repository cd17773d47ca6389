----------------------------- MODULE SegmentIngest -----------------------------
(***************************************************************************)
(* Segment ingest and the motion buffer of one camera                      *)
(* (recordings/segment-ingest.ts, and the subscriptions of                 *)
(* recordings/recording-engine.ts): the scan that catalogues finished      *)
(* files, the handler that keeps footage near motion, and the expiry of    *)
(* what no motion kept.                                                    *)
(*                                                                         *)
(* Time is discrete; one unit is one segment.  File s covers the interval  *)
(* from s - 1 to s.  The scan is single-flight, the motion handlers are    *)
(* not, and both may be overtaken at every await.                          *)
(***************************************************************************)
EXTENDS Integers, FiniteSets, FiniteSetsExt

CONSTANTS
    LastFile,       \* bound on the files MediaMTX writes
    MaxTime,        \* bound on time
    Handlers,       \* concurrent calls of onMotion
    PreBuffer, PostBuffer, LateMotionGrace, QuietPeriod,
    Latency,        \* how long a call of onMotion may take
    StatFails,      \* whether stat may fail on a file that exists
    MaxFaults,      \* bound on rejections of the database
    MaxCrashes,     \* bound on restarts
    Modes           \* recording modes the camera may be set to

Segments == 1 .. LastFile

ASSUME IngestAssumption ==
    /\ LastFile \in Nat \ {0} /\ MaxTime \in Nat /\ LastFile <= MaxTime
    /\ {PreBuffer, PostBuffer, LateMotionGrace, QuietPeriod} \subseteq Nat
    /\ Latency \in Nat /\ Latency <= LateMotionGrace
    /\ StatFails \in BOOLEAN
    /\ MaxFaults \in Nat /\ MaxCrashes \in Nat
    /\ Modes \subseteq {"MOTION_ONLY", "CONTINUOUS"} /\ Modes # {}

VARIABLES
    now,
    recorded,   \* files MediaMTX has started
    deleted,    \* files the expiry has deleted
    row,        \* status of the catalog row, "NONE" without one
    tier,
    motions,    \* receive times of the persisted motion.detected events
    mode,       \* the camera's recording mode
    watermark,  \* newest handled start time; "unset" when not in memory
    scan,       \* the index tick
    keep,       \* the calls of onMotion
    announced,  \* history: segments recording.segment_created was emitted for
    unsaid,     \* history: segments whose announcement a rejection or a restart cut off
    faults, crashes,
    promised    \* history: segments that motion came near in time to be kept

vars == <<now, recorded, deleted, row, tier, motions, mode, watermark, scan, keep,
          announced, unsaid, faults, crashes, promised>>
catalog == <<row, tier>>
world == <<now, recorded, mode, faults, crashes>>

Unset == -1
NotRead == "unread"

IdleScan == [at |-> "idle", names |-> {}, newest |-> 0, seg |-> 0, mode |-> NotRead,
             status |-> "NONE", near |-> FALSE, expiring |-> {}]
IdleCall == [at |-> "idle", motion |-> 0, todo |-> {}, seg |-> 0]

Scans ==
    [at : {"idle", "files", "query", "create", "announce", "expire", "expiring"},
     names : SUBSET Segments, newest : 0 .. LastFile, seg : 0 .. LastFile,
     mode : Modes \cup {NotRead}, status : {"NONE", "AVAILABLE", "QUARANTINED"},
     near : BOOLEAN, expiring : SUBSET Segments]
Calls ==
    [at : {"idle", "list", "keep", "announce", "promote"}, motion : 0 .. MaxTime,
     todo : SUBSET Segments, seg : 0 .. LastFile]

TypeOK ==
    /\ now \in 0 .. MaxTime
    /\ recorded \subseteq Segments /\ deleted \subseteq recorded
    /\ row \in [Segments -> {"NONE", "AVAILABLE", "BUFFERED", "QUARANTINED"}]
    /\ tier \in [Segments -> {"CONTINUOUS", "EVENT", "INCIDENT"}]
    /\ motions \subseteq 0 .. MaxTime
    /\ mode \in Modes
    /\ watermark \in {Unset} \cup 0 .. LastFile
    /\ scan \in Scans /\ keep \in [Handlers -> Calls]
    /\ announced \subseteq Segments /\ unsaid \subseteq Segments
    /\ faults \in 0 .. MaxFaults /\ crashes \in 0 .. MaxCrashes
    /\ promised \subseteq Segments

Init ==
    /\ now = 0
    /\ recorded = {1}
    /\ deleted = {}
    /\ row = [s \in Segments |-> "NONE"]
    /\ tier = [s \in Segments |-> "CONTINUOUS"]
    /\ motions = {}
    /\ mode \in Modes
    /\ watermark = Unset
    /\ scan = IdleScan
    /\ keep = [h \in Handlers |-> IdleCall]
    /\ announced = {} /\ unsaid = {}
    /\ faults = 0 /\ crashes = 0
    /\ promised = {}

-------------------------------------------------------------------------------
(* Segment times. *)

StartTime(s) == s - 1
EndTime(s) == s
LastWrite(s) == IF now < EndTime(s) THEN now ELSE EndTime(s)

Newest(S) == IF S = {} THEN 0 ELSE Max(S)
Rows(status) == {s \in Segments : row[s] = status}
Catalogued == {s \in Segments : row[s] # "NONE"}

(* isNearMotion, from the segment: the database bounds are inclusive. *)
NearMotion(s) ==
    \E m \in motions : StartTime(s) - PostBuffer <= m /\ m <= EndTime(s) + PreBuffer

(* findRecordingsInRange, from the motion: the bounds are strict. *)
InMotionWindow(s, m) == StartTime(s) < m + PostBuffer /\ EndTime(s) > m - PreBuffer

-------------------------------------------------------------------------------
(* scanCamera and catalogueFile. *)

(* The rest of the scan: the next file, or the motion buffer. *)
Proceed(names) ==
    IF names = {} THEN [IdleScan EXCEPT !.at = "expire"]
    ELSE [scan EXCEPT !.at = "files", !.names = names, !.seg = 0,
                      !.status = "NONE", !.near = FALSE]

(* readdir, then the watermark: a cache of the newest catalog row. *)
StartScan ==
    LET names == recorded \ deleted
        mark  == IF watermark = Unset THEN Newest(Catalogued) ELSE watermark
        todo  == {s \in names : StartTime(s) > StartTime(mark)}
    IN  /\ scan.at = "idle"
        /\ watermark' = mark
        /\ scan' = IF todo = {} THEN [IdleScan EXCEPT !.at = "expire"]
                   ELSE [IdleScan EXCEPT !.at = "files", !.names = todo,
                                         !.newest = Newest(names)]
        /\ UNCHANGED <<world, catalog, deleted, motions, keep, announced, unsaid, promised>>

StillWritten(s) == s = scan.newest /\ now - LastWrite(s) < QuietPeriod

(* The mode is read for the first file only. *)
ModeOfScan == IF scan.mode = NotRead THEN mode ELSE scan.mode

(* stat; the newest file ends the scan while it may still be written. *)
Examine ==
    LET s == Min(scan.names)
    IN  /\ scan.at = "files"
        /\ IF StillWritten(s)
           THEN scan' = Proceed({}) /\ UNCHANGED watermark
           ELSE IF row[s] # "NONE"
           THEN scan' = Proceed(scan.names \ {s}) /\ watermark' = s
           ELSE /\ UNCHANGED watermark
                /\ \E status \in {"AVAILABLE", "QUARANTINED"} :
                     scan' = [scan EXCEPT
                                !.at = IF status = "AVAILABLE" THEN "query" ELSE "create",
                                !.names = @ \ {s}, !.seg = s, !.status = status,
                                !.mode = ModeOfScan]
        /\ UNCHANGED <<world, catalog, deleted, motions, keep, announced, unsaid, promised>>

(* Every rejection of stat is taken for "Removed between readdir and stat". *)
SkipUnreadable ==
    /\ scan.at = "files"
    /\ StatFails
    /\ scan' = Proceed(scan.names \ {Min(scan.names)})
    /\ UNCHANGED <<world, catalog, deleted, motions, watermark, keep, announced, unsaid, promised>>

(* So is every rejection of the validator's stat, and the watermark moves on. *)
SkipInvalid ==
    LET s == Min(scan.names)
    IN  /\ scan.at = "files"
        /\ StatFails
        /\ ~StillWritten(s) /\ row[s] = "NONE"
        /\ watermark' = s
        /\ scan' = IF scan.names = {s} THEN Proceed({})
                   ELSE [Proceed(scan.names \ {s}) EXCEPT !.mode = ModeOfScan]
        /\ UNCHANGED <<world, catalog, deleted, motions, keep, announced, unsaid, promised>>

QueryMotion ==
    /\ scan.at = "query"
    /\ scan' = [scan EXCEPT !.at = "create", !.near = NearMotion(scan.seg)]
    /\ UNCHANGED <<world, catalog, deleted, motions, watermark, keep, announced, unsaid, promised>>

Fate ==
    IF scan.status = "QUARANTINED" THEN "QUARANTINED"
    ELSE IF scan.mode = "MOTION_ONLY" /\ ~scan.near THEN "BUFFERED" ELSE "AVAILABLE"

(* createRecording; the watermark moves when catalogueFile returns. *)
CreateRow ==
    LET s == scan.seg
    IN  /\ scan.at = "create"
        /\ row' = [row EXCEPT ![s] = Fate]
        /\ tier' = [tier EXCEPT ![s] = IF scan.near THEN "EVENT" ELSE "CONTINUOUS"]
        /\ IF Fate = "AVAILABLE"
           THEN scan' = [scan EXCEPT !.at = "announce"] /\ UNCHANGED watermark
           ELSE scan' = Proceed(scan.names) /\ watermark' = s
        /\ UNCHANGED <<world, deleted, motions, keep, announced, unsaid, promised>>

(* Mutant: the watermark passes the file. *)
PassFailedRow ==
    /\ scan.at = "create"
    /\ faults < MaxFaults
    /\ faults' = faults + 1
    /\ scan' = Proceed({})
    /\ watermark' = scan.seg
    /\ UNCHANGED <<now, recorded, mode, crashes, catalog, deleted, motions,
                   keep, announced, unsaid, promised>>

(* A rejected query, or a rejected createRecording, ends this camera's scan with the
   watermark where it was; scan() goes on with the motion buffer. *)
CatalogueFails ==
    /\ scan.at \in {"files", "query", "create"}
    /\ faults < MaxFaults
    /\ faults' = faults + 1
    /\ scan' = Proceed({})
    /\ UNCHANGED <<now, recorded, mode, crashes, catalog, deleted, motions, watermark,
                   keep, announced, unsaid, promised>>

(* The scan has the camera at hand, and emitEvent never rejects: it catches a failed
   insertion of the event and the errors of its subscribers. *)
Announce ==
    /\ scan.at = "announce"
    /\ announced' = announced \cup {scan.seg}
    /\ watermark' = scan.seg
    /\ scan' = Proceed(scan.names)
    /\ UNCHANGED <<world, catalog, deleted, motions, keep, unsaid, promised>>

-------------------------------------------------------------------------------
(* expireBufferedSegments.  The cutoff and the list are read once. *)

(* Mutant: the grace for late motion is forgotten. *)
CutoffWithoutGrace == now - PreBuffer

Cutoff == now - (PreBuffer + LateMotionGrace)

ListExpired ==
    /\ scan.at = "expire"
    /\ scan' = [scan EXCEPT !.at = "expiring",
                            !.expiring = {s \in Rows("BUFFERED") : EndTime(s) < Cutoff}]
    /\ UNCHANGED <<world, catalog, deleted, motions, watermark, keep, announced, unsaid, promised>>

(* deleteSegment, whatever has become of the row since (RecordingCatalog has the steps). *)
Expire(s) ==
    /\ scan.at = "expiring"
    /\ s \in scan.expiring
    /\ row' = [row EXCEPT ![s] = "NONE"]
    /\ deleted' = deleted \cup {s}
    /\ scan' = [scan EXCEPT !.expiring = @ \ {s}]
    /\ UNCHANGED <<world, tier, motions, watermark, keep, announced, unsaid, promised>>

EndScan ==
    /\ scan.at = "expiring"
    /\ scan.expiring = {}
    /\ scan' = IdleScan
    /\ UNCHANGED <<world, catalog, deleted, motions, watermark, keep, announced, unsaid, promised>>

-------------------------------------------------------------------------------
(* onMotion. *)

SetCall(h, call) == keep' = [keep EXCEPT ![h] = call]

(* Ingest has not yet asked for motion near s, or has put it in the buffer. *)
StillKeepable(s) ==
    \/ row[s] = "BUFFERED"
    \/ row[s] = "NONE" /\ s \notin deleted /\ ~(scan.at = "create" /\ scan.seg = s)

(* The event is persisted, then delivered to the engine's subscriber. *)
DetectMotion(h) ==
    /\ keep[h].at = "idle"
    /\ now \notin motions
    /\ motions' = motions \cup {now}
    /\ SetCall(h, [IdleCall EXCEPT !.at = "list", !.motion = now])
    /\ promised' = promised \cup {s \in Segments : InMotionWindow(s, now) /\ StillKeepable(s)}
    /\ UNCHANGED <<world, catalog, deleted, watermark, scan, announced, unsaid>>

ListBuffered(h) ==
    /\ keep[h].at = "list"
    /\ SetCall(h, [keep[h] EXCEPT
                     !.at = "keep",
                     !.todo = {s \in Rows("BUFFERED") : InMotionWindow(s, keep[h].motion)}])
    /\ UNCHANGED <<world, catalog, deleted, motions, watermark, scan, announced, unsaid, promised>>

(* Mutant: a kept segment is not announced. *)
KeepQuietly(h, s) ==
    /\ keep[h].at = "keep"
    /\ s \in keep[h].todo
    /\ SetCall(h, [keep[h] EXCEPT !.todo = @ \ {s}])
    /\ IF row[s] = "NONE" THEN UNCHANGED catalog
       ELSE /\ row' = [row EXCEPT ![s] = "AVAILABLE"]
            /\ tier' = [tier EXCEPT ![s] = "EVENT"]
    /\ UNCHANGED <<world, deleted, motions, watermark, scan, announced, unsaid, promised>>

(* The tier and the status of a row that may be gone by now. *)
KeepSegment(h, s) ==
    /\ keep[h].at = "keep"
    /\ s \in keep[h].todo
    /\ IF row[s] = "NONE"
       THEN /\ SetCall(h, [keep[h] EXCEPT !.todo = @ \ {s}])
            /\ UNCHANGED catalog
       ELSE /\ row' = [row EXCEPT ![s] = "AVAILABLE"]
            /\ tier' = [tier EXCEPT ![s] = "EVENT"]
            /\ SetCall(h, [keep[h] EXCEPT !.todo = @ \ {s}, !.at = "announce", !.seg = s])
    /\ UNCHANGED <<world, deleted, motions, watermark, scan, announced, unsaid, promised>>

(* emitSegmentCreated has no camera at hand here and looks it up before it emits. *)
AnnounceKept(h) ==
    /\ keep[h].at = "announce"
    /\ announced' = announced \cup {keep[h].seg}
    /\ SetCall(h, [keep[h] EXCEPT !.at = "keep", !.seg = 0])
    /\ UNCHANGED <<world, catalog, deleted, motions, watermark, scan, unsaid, promised>>

(* AVAILABLE segments near the motion that were CONTINUOUS when they were read. *)
ListAvailable(h) ==
    /\ keep[h].at = "keep"
    /\ keep[h].todo = {}
    /\ SetCall(h, [keep[h] EXCEPT
                     !.at = "promote",
                     !.todo = {s \in Rows("AVAILABLE") :
                                 InMotionWindow(s, keep[h].motion) /\ tier[s] = "CONTINUOUS"}])
    /\ UNCHANGED <<world, catalog, deleted, motions, watermark, scan, announced, unsaid, promised>>

Promote(h, s) ==
    /\ keep[h].at = "promote"
    /\ s \in keep[h].todo
    /\ tier' = [tier EXCEPT ![s] = IF row[s] = "NONE" THEN @ ELSE "EVENT"]
    /\ SetCall(h, [keep[h] EXCEPT !.todo = @ \ {s}])
    /\ UNCHANGED <<world, row, deleted, motions, watermark, scan, announced, unsaid, promised>>

(* A call that has yet to read the buffer, or has s on its list, will keep s. *)
WillKeep(h, s) ==
    /\ InMotionWindow(s, keep[h].motion)
    /\ \/ keep[h].at = "list"
       \/ keep[h].at \in {"keep", "announce"} /\ s \in keep[h].todo

(* Any await of onMotion may reject, the lookup of the camera in emitSegmentCreated
   among them; the bus reports it and the call is over.  Whatever the call had yet to
   do is not done: the kept segment is not announced, the others are not kept, and one
   may be left with its tier raised and still in the buffer. *)
MotionFails(h) ==
    /\ keep[h].at \in {"list", "keep", "announce", "promote"}
    /\ faults < MaxFaults
    /\ faults' = faults + 1
    /\ \/ UNCHANGED tier
       \/ /\ keep[h].at = "keep"
          /\ \E s \in keep[h].todo \cap Catalogued : tier' = [tier EXCEPT ![s] = "EVENT"]
    /\ unsaid' = IF keep[h].at = "announce" THEN unsaid \cup {keep[h].seg} ELSE unsaid
    /\ promised' = {s \in promised :
                      row[s] = "BUFFERED" => \E g \in Handlers \ {h} : WillKeep(g, s)}
    /\ SetCall(h, IdleCall)
    /\ UNCHANGED <<now, recorded, mode, crashes, row, deleted, motions, watermark, scan,
                   announced>>

EndMotion(h) ==
    /\ keep[h].at = "promote"
    /\ keep[h].todo = {}
    /\ SetCall(h, IdleCall)
    /\ UNCHANGED <<world, catalog, deleted, motions, watermark, scan, announced, unsaid, promised>>

-------------------------------------------------------------------------------
(* Everything else. *)

(* createIncident raises the tier of the rows in its window, one update each. *)
RaiseToIncident(s) ==
    /\ row[s] # "NONE" /\ tier[s] # "INCIDENT"
    /\ tier' = [tier EXCEPT ![s] = "INCIDENT"]
    /\ UNCHANGED <<world, row, deleted, motions, watermark, scan, keep, announced, unsaid, promised>>

SetMode(m) ==
    /\ m # mode
    /\ mode' = m
    /\ UNCHANGED <<now, recorded, faults, crashes, catalog, deleted, motions, watermark,
                   scan, keep, announced, unsaid, promised>>

(* A unit of time: MediaMTX closes the open file and, if the stream is up, starts
   the next.  A call of onMotion does not outlast Latency. *)
PassTime ==
    /\ now < MaxTime
    /\ \A h \in Handlers : keep[h].at # "idle" => now < keep[h].motion + Latency
    /\ now' = now + 1
    /\ \/ UNCHANGED recorded
       \/ now' < LastFile /\ recorded' = recorded \cup {now' + 1}
    /\ UNCHANGED <<mode, faults, crashes, catalog, deleted, motions, watermark, scan,
                   keep, announced, unsaid, promised>>

(* The segments that are AVAILABLE and about to be announced. *)
Announcing ==
    {s \in Segments : \/ scan.at = "announce" /\ scan.seg = s
                      \/ \E h \in Handlers : keep[h].at = "announce" /\ keep[h].seg = s}

Crash ==
    /\ crashes < MaxCrashes
    /\ crashes' = crashes + 1
    /\ watermark' = Unset
    /\ scan' = IdleScan
    /\ keep' = [h \in Handlers |-> IdleCall]
    /\ unsaid' = unsaid \cup Announcing
    /\ promised' = promised \ Rows("BUFFERED")
    /\ UNCHANGED <<now, recorded, mode, faults, catalog, deleted, motions, announced>>

ScanStep ==
    \/ StartScan \/ Examine \/ SkipUnreadable \/ SkipInvalid
    \/ QueryMotion \/ CreateRow \/ CatalogueFails \/ Announce
    \/ ListExpired \/ (\E s \in Segments : Expire(s)) \/ EndScan

MotionStep(h) ==
    \/ ListBuffered(h) \/ (\E s \in Segments : KeepSegment(h, s)) \/ AnnounceKept(h)
    \/ ListAvailable(h) \/ (\E s \in Segments : Promote(h, s)) \/ EndMotion(h)

Next ==
    \/ ScanStep
    \/ \E h \in Handlers : DetectMotion(h) \/ MotionStep(h) \/ MotionFails(h)
    \/ \E s \in Segments : RaiseToIncident(s)
    \/ \E m \in Modes : SetMode(m)
    \/ PassTime
    \/ Crash

(* setInterval repeats the scan, awaited calls settle, and time passes. *)
Fairness ==
    /\ WF_vars(ScanStep)
    /\ \A h \in Handlers : WF_vars(MotionStep(h))
    /\ WF_vars(PassTime)

Spec == Init /\ [][Next]_vars
FairSpec == Spec /\ Fairness

-------------------------------------------------------------------------------
(* Properties. *)

(* segment-ingest.ts:198: a file MediaMTX is still writing is never catalogued, so
   no row ends before its footage does. *)
OnlyFinishedFiles == \A s \in Segments : row[s] # "NONE" => now >= EndTime(s)

(* segment-ingest.ts:51: "the newest row is a restart-safe resume point and no file
   is ever left on disk uncatalogued": a file without a row is still ahead of the
   watermark, or of the one the next scan will read from the catalog. *)
NoFileIsSkipped ==
    \A s \in recorded \ deleted :
        row[s] = "NONE" =>
            /\ \A t \in Catalogued : t < s
            /\ watermark < s

(* CONTEXT.md:30 and segment-ingest.ts:52: footage that motion came near while it was
   buffered, or before ingest asked for motion near it, is never expired, however the
   calls of onMotion, the scan and the expiry interleave, unless the process or the
   last call that was to keep it ended first. *)
PromisedIsKept == promised \cap deleted = {}

(* ARCHITECTURE.md:93: recording.segment_created is emitted for every AVAILABLE
   segment, by the scan that catalogued it or by a call of onMotion that kept it.  What
   may go unannounced is exactly what is named in unsaid: the one segment a rejected
   lookup of its camera (segment-ingest.ts:308) or a restart caught between its row and
   its event; no other failure of the scan or of a call loses an announcement. *)
AvailableIsAnnounced == Rows("AVAILABLE") \subseteq announced \cup unsaid \cup Announcing

(* ARCHITECTURE.md:117: every finished file gets its catalog row, and segments
   written while the app was down are picked up, crashes and database errors
   permitting. *)
EveryFileIsCatalogued ==
    \A s \in Segments : s \in recorded ~> row[s] # "NONE" \/ s \in deleted

-------------------------------------------------------------------------------
(* The inductive invariant behind the safety properties. *)

HasFile == scan.at \in {"query", "create", "announce"}
Scanning == scan.at = "files" \/ HasFile

(* A scan only looks at files that exist, in a row it alone creates; expiry is the
   last thing it does, with a cutoff that time has only moved on. *)
ScanInv ==
    /\ Scanning => scan.names \subseteq recorded \ deleted
    /\ scan.at = "files" => scan.names # {}
    /\ HasFile => scan.seg \in recorded \ deleted
    /\ scan.at \in {"query", "create"} => row[scan.seg] = "NONE"
    /\ scan.at = "announce" => row[scan.seg] # "NONE"
    /\ scan.expiring # {} => scan.at = "expiring"
    /\ scan.expiring \subseteq recorded
    /\ \A s \in scan.expiring : EndTime(s) < Cutoff

FileInv ==
    /\ recorded \subseteq 1 .. now + 1
    /\ Catalogued \subseteq recorded \ deleted

CallInv ==
    \A h \in Handlers :
        /\ keep[h].at # "idle" => keep[h].motion <= now /\ now <= keep[h].motion + Latency
        /\ keep[h].at = "announce" => keep[h].seg \in Segments

(* What was promised is on its way out of the buffer, or its motion is known to
   whoever decides about its row. *)
PromiseInv ==
    \A s \in promised :
        /\ s \notin deleted /\ s \notin scan.expiring
        /\ row[s] = "BUFFERED" => \E h \in Handlers : WillKeep(h, s)
        /\ row[s] = "NONE" =>
              /\ NearMotion(s)
              /\ scan.at = "create" /\ scan.seg = s => scan.near \/ scan.status = "QUARANTINED"

IngestInv == TypeOK /\ ScanInv /\ FileInv /\ CallInv /\ PromiseInv /\ AvailableIsAnnounced

(* A file that is read is finished: it is not the newest, or it has been quiet. *)
FinishedInv ==
    /\ OnlyFinishedFiles
    /\ scan.at \in {"query", "create"} => EndTime(scan.seg) <= now
    /\ Scanning => /\ scan.newest \in recorded
                   /\ \A s \in scan.names : s <= scan.newest

(* Files are catalogued in order: those without a row are ahead of the scan. *)
Uncatalogued == {s \in recorded \ deleted : row[s] = "NONE"}
OrderInv ==
    /\ NoFileIsSkipped
    /\ watermark <= now + 1
    /\ scan.at = "files" =>
          \A s \in Uncatalogued : s \in scan.names \/ \A n \in scan.names : n < s
    /\ HasFile =>
          /\ \A n \in scan.names : scan.seg < n
          /\ \A s \in Uncatalogued \ {scan.seg} :
                scan.seg < s /\ (s \in scan.names \/ \A n \in scan.names : n < s)

-------------------------------------------------------------------------------
(* What the documents say and the code does not do. *)

(* ARCHITECTURE.md:93, with no failure in between. *)
EveryAvailableIsAnnounced == Rows("AVAILABLE") \subseteq announced \cup Announcing

(* CONTEXT.md:30: segments "are kept when motion is detected nearby". *)
NearMotionIsKept == \A m \in motions, s \in deleted : ~InMotionWindow(s, m)

(* ARCHITECTURE.md:189: footage of an incident is elevated to the INCIDENT tier; a
   motion handler does not take it down again. *)
IncidentTierStays == [][\A s \in Segments : tier[s] = "INCIDENT" => tier'[s] = "INCIDENT"]_vars
===============================================================================
