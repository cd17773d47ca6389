-------------------------- MODULE SegmentIngestProofs --------------------------
(***************************************************************************)
(* Theorems about SegmentIngest, for any number of files, calls of         *)
(* onMotion, failed insertions and restarts, and any buffers and graces.   *)
(***************************************************************************)
EXTENDS SegmentIngest, WellFoundedInduction, TLAPS

-------------------------------------------------------------------------------
(* The constants, and the least and the greatest of a set of segments *)

LEMMA ConstantFacts ==
    /\ LastFile \in Nat /\ MaxTime \in Nat /\ LastFile <= MaxTime
    /\ PreBuffer \in Nat /\ PostBuffer \in Nat /\ LateMotionGrace \in Nat
    /\ QuietPeriod \in Nat /\ Latency \in Nat /\ Latency <= LateMotionGrace
    /\ MaxFaults \in Nat /\ MaxCrashes \in Nat
BY IngestAssumption

LEMMA LeastNumber ==
    ASSUME NEW S \in SUBSET Nat, S # {}
    PROVE  \E x \in S : \A y \in S : x <= y
<1>1. PICK x \in S : \A y \in S : ~ (<<y, x>> \in OpToRel(<, Nat))
  BY NatLessThanWellFounded, WFMin
<1>2. \A y \in S : ~ (y < x)
  BY <1>1 DEF OpToRel
<1> QED  BY <1>2

LEMMA LeastSegment ==
    ASSUME NEW S \in SUBSET Segments, S # {}
    PROVE  Min(S) \in S /\ \A s \in S : Min(S) <= s
<1>1. \E x \in S : \A y \in S : x <= y
  BY LeastNumber, ConstantFacts DEF Segments
<1> QED  BY <1>1 DEF Min

LEMMA NewestSegment ==
    ASSUME NEW S \in SUBSET Segments
    PROVE  /\ Newest(S) \in 0 .. LastFile
           /\ S # {} => Newest(S) \in S
           /\ \A s \in S : s <= Newest(S)
<1>1. CASE S = {}
  BY <1>1, ConstantFacts DEF Newest
<1>2. CASE S # {}
  <2> DEFINE below == {LastFile - s : s \in S}
  <2>1. below \subseteq Nat /\ below # {}
    <3>1. \A s \in S : LastFile - s \in Nat
      BY ConstantFacts DEF Segments
    <3> QED  BY <1>2, <3>1
  <2>2. PICK x \in below : \A y \in below : x <= y
    BY <2>1, LeastNumber
  <2>3. PICK s \in S : x = LastFile - s
    BY <2>2
  <2>4. \A t \in S : t <= s
    <3>1. \A t \in S : LastFile - s <= LastFile - t
      BY <2>2, <2>3
    <3> QED  BY <3>1, ConstantFacts DEF Segments
  <2>5. Max(S) \in S /\ \A t \in S : t <= Max(S)
    BY <2>4 DEF Max
  <2>6. Max(S) \in Segments
    BY <2>5
  <2> QED  BY <1>2, <2>5, <2>6, ConstantFacts DEF Newest, Segments
<1> QED  BY <1>1, <1>2

(* Motion that the motion handler finds near a segment is near it for ingest as well. *)
LEMMA WindowIsNear ==
    ASSUME NEW s \in Segments, NEW m \in motions, m \in Nat, InMotionWindow(s, m)
    PROVE  NearMotion(s)
BY ConstantFacts DEF InMotionWindow, NearMotion, StartTime, EndTime, Segments

-------------------------------------------------------------------------------
(* Types *)

Resting == [at : {"files", "expire"}, names : SUBSET Segments, newest : 0 .. LastFile,
            seg : 0 .. LastFile, mode : Modes \cup {NotRead}, status : {"NONE"},
            near : BOOLEAN, expiring : SUBSET Segments]

LEMMA ProceedFacts ==
    ASSUME NEW names \in SUBSET Segments, scan \in Scans
    PROVE  /\ Proceed(names) \in Resting
           /\ Proceed(names).names = names
           /\ Proceed(names).at = IF names = {} THEN "expire" ELSE "files"
           /\ names # {} => /\ Proceed(names).newest = scan.newest
                            /\ Proceed(names).expiring = scan.expiring
           /\ names = {} => Proceed(names).expiring = {}
<1> USE DEF Proceed, IdleScan, Resting, Scans
<1>0. 0 \in 0 .. LastFile
  BY ConstantFacts
<1>1. CASE names = {}
  BY <1>0, <1>1
<1>2. CASE names # {}
  BY <1>0, <1>2
<1> QED  BY <1>1, <1>2

LEMMA InitType == Init => TypeOK
BY IngestAssumption DEF Init, TypeOK, Scans, Calls, IdleScan, IdleCall, Unset, Segments

LEMMA TypeStep ==
    ASSUME TypeOK, ScanInv, CallInv, Next
    PROVE  TypeOK'
<1> USE DEF TypeOK, world, catalog
<1>0. /\ 0 \in 0 .. LastFile /\ IdleScan \in Scans /\ IdleCall \in Calls
      /\ \A s \in Segments : s \in Nat /\ s \in 0 .. LastFile
  BY ConstantFacts DEF Scans, Calls, IdleScan, IdleCall, Segments
<1>1. \A names \in SUBSET Segments : Proceed(names) \in Scans
  BY ProceedFacts DEF Resting, Scans
<1>2. \A S \in SUBSET Segments : Newest(S) \in 0 .. LastFile
  BY NewestSegment
<1>3. scan.names # {} => Min(scan.names) \in scan.names /\ Min(scan.names) \in Segments
  BY LeastSegment DEF Scans
<1>4. CASE StartScan
  <2> DEFINE names == recorded \ deleted
             mark == IF watermark = Unset THEN Newest(Catalogued) ELSE watermark
             todo == {s \in names : StartTime(s) > StartTime(mark)}
  <2>1. names \in SUBSET Segments /\ todo \in SUBSET Segments /\ Newest(names) \in 0 .. LastFile
    BY <1>2
  <2>2. mark \in {Unset} \cup 0 .. LastFile
    BY <1>2 DEF Catalogued
  <2>3. scan' \in Scans
    BY <1>0, <1>4, <2>1 DEF StartScan, Scans, IdleScan
  <2> QED  BY <1>4, <2>2, <2>3 DEF StartScan
<1>5. CASE Examine
  <2> DEFINE s == Min(scan.names)
  <2>1. s \in Segments /\ s \in 0 .. LastFile /\ scan.names \ {s} \in SUBSET Segments
    BY <1>0, <1>3, <1>5 DEF Examine, ScanInv, Scans
  <2>2. watermark' \in {Unset} \cup 0 .. LastFile
    BY <1>5, <2>1 DEF Examine
  <2>3. scan' \in Scans
    <3>1. CASE scan' = Proceed({}) \/ scan' = Proceed(scan.names \ {s})
      BY <1>1, <2>1, <3>1
    <3>2. ASSUME NEW status \in {"AVAILABLE", "QUARANTINED"},
                 scan' = [scan EXCEPT !.at = IF status = "AVAILABLE" THEN "query" ELSE "create",
                                      !.names = @ \ {s}, !.seg = s, !.status = status,
                                      !.mode = ModeOfScan]
          PROVE  scan' \in Scans
      BY <2>1, <3>2 DEF Scans, ModeOfScan
    <3> QED  BY <1>5, <3>1, <3>2 DEF Examine
  <2> QED  BY <1>5, <2>2, <2>3 DEF Examine
<1>6. CASE SkipUnreadable
  BY <1>1, <1>6 DEF SkipUnreadable, Scans
<1>7. CASE SkipInvalid
  <2> DEFINE s == Min(scan.names)
  <2>1. s \in Segments /\ s \in 0 .. LastFile /\ scan.names \ {s} \in SUBSET Segments
    BY <1>0, <1>3, <1>7 DEF SkipInvalid, ScanInv, Scans
  <2>2. Proceed({}) \in Scans /\ [Proceed(scan.names \ {s}) EXCEPT !.mode = ModeOfScan] \in Scans
    BY <1>1, <2>1 DEF Scans, ModeOfScan
  <2> QED  BY <1>7, <2>1, <2>2 DEF SkipInvalid
<1>8. CASE QueryMotion
  BY <1>8 DEF QueryMotion, Scans, NearMotion
<1>9. CASE CreateRow
  BY <1>1, <1>9 DEF CreateRow, Scans, Fate
<1>10. CASE CatalogueFails
  BY <1>1, <1>10, ConstantFacts DEF CatalogueFails, Scans
<1>11. CASE Announce
  BY <1>1, <1>11 DEF Announce, Scans, ScanInv, HasFile
<1>12. CASE ListExpired
  BY <1>12 DEF ListExpired, Scans, Rows
<1>13. ASSUME NEW s \in Segments, Expire(s)  PROVE  TypeOK'
  BY <1>13 DEF Expire, Scans, ScanInv
<1>14. CASE EndScan
  BY <1>0, <1>14 DEF EndScan
<1>15. ASSUME NEW h \in Handlers, DetectMotion(h)  PROVE  TypeOK'
  BY <1>0, <1>15 DEF DetectMotion, SetCall, Calls, IdleCall
<1>16. ASSUME NEW h \in Handlers, MotionStep(h)  PROVE  TypeOK'
  <2>1. CASE ListBuffered(h)
    BY <2>1 DEF ListBuffered, SetCall, Calls, Rows
  <2>2. ASSUME NEW s \in Segments, KeepSegment(h, s)  PROVE  TypeOK'
    <3>1. CASE row[s] = "NONE"
      BY <2>2, <3>1 DEF KeepSegment, SetCall, Calls
    <3>2. CASE row[s] # "NONE"
      <4>0. [keep[h] EXCEPT !.todo = @ \ {s}, !.at = "announce", !.seg = s] \in Calls
        BY <1>0 DEF Calls
      <4>1. keep' \in [Handlers -> Calls]
        BY <2>2, <3>2, <4>0 DEF KeepSegment, SetCall
      <4>2. row' \in [Segments -> {"NONE", "AVAILABLE", "BUFFERED", "QUARANTINED"}]
        BY <2>2, <3>2 DEF KeepSegment
      <4>3. tier' \in [Segments -> {"CONTINUOUS", "EVENT", "INCIDENT"}]
        BY <2>2, <3>2 DEF KeepSegment
      <4> QED  BY <2>2, <4>1, <4>2, <4>3 DEF KeepSegment
    <3> QED  BY <3>1, <3>2
  <2>3. CASE AnnounceKept(h)
    <3>1. keep' \in [Handlers -> Calls]
      BY <1>0, <2>3 DEF AnnounceKept, SetCall, Calls
    <3>2. announced' \subseteq Segments
      BY <2>3 DEF AnnounceKept, CallInv
    <3> QED  BY <2>3, <3>1, <3>2 DEF AnnounceKept
  <2>4. CASE ListAvailable(h)
    BY <2>4 DEF ListAvailable, SetCall, Calls, Rows
  <2>5. ASSUME NEW s \in Segments, Promote(h, s)  PROVE  TypeOK'
    BY <2>5 DEF Promote, SetCall, Calls
  <2>6. CASE EndMotion(h)
    BY <1>0, <2>6 DEF EndMotion, SetCall
  <2> QED  BY <1>16, <2>1, <2>2, <2>3, <2>4, <2>5, <2>6 DEF MotionStep
<1>21. ASSUME NEW h \in Handlers, MotionFails(h)  PROVE  TypeOK'
  <2>1. keep' \in [Handlers -> Calls]
    BY <1>0, <1>21 DEF MotionFails, SetCall
  <2>2. tier' \in [Segments -> {"CONTINUOUS", "EVENT", "INCIDENT"}]
    BY <1>21 DEF MotionFails
  <2>3. unsaid' \subseteq Segments /\ promised' \subseteq Segments
    BY <1>21 DEF MotionFails, CallInv
  <2>4. faults' \in 0 .. MaxFaults
    BY <1>21, ConstantFacts DEF MotionFails
  <2> QED  BY <1>21, <2>1, <2>2, <2>3, <2>4 DEF MotionFails
<1>17. ASSUME NEW s \in Segments, RaiseToIncident(s)  PROVE  TypeOK'
  BY <1>17 DEF RaiseToIncident
<1>18. ASSUME NEW m \in Modes, SetMode(m)  PROVE  TypeOK'
  BY <1>18 DEF SetMode
<1>19. CASE PassTime
  <2>1. now' \in 0 .. MaxTime /\ now' \in Nat
    BY <1>19, ConstantFacts DEF PassTime
  <2>2. recorded' \subseteq Segments /\ recorded \subseteq recorded'
    <3>1. recorded' = recorded \/ (now' < LastFile /\ recorded' = recorded \cup {now' + 1})
      BY <1>19 DEF PassTime
    <3>2. \A n \in Nat : n < LastFile => n + 1 \in Segments
      BY ConstantFacts DEF Segments
    <3> QED  BY <2>1, <3>1, <3>2
  <2>3. UNCHANGED <<mode, faults, crashes, row, tier, deleted, motions, watermark, scan,
                    keep, announced, unsaid, promised>>
    BY <1>19 DEF PassTime
  <2> QED  BY <2>1, <2>2, <2>3
<1>20. CASE Crash
  <2>1. keep' \in [Handlers -> Calls] /\ scan' \in Scans /\ watermark' \in {Unset} \cup 0 .. LastFile
    BY <1>0, <1>20 DEF Crash
  <2>2. announced' \subseteq Segments /\ unsaid' \subseteq Segments /\ promised' \subseteq Segments
    BY <1>20 DEF Crash, Announcing
  <2>3. crashes' \in 0 .. MaxCrashes
    BY <1>20, ConstantFacts DEF Crash
  <2>4. /\ now' = now /\ recorded' = recorded /\ mode' = mode /\ faults' = faults
        /\ row' = row /\ tier' = tier /\ deleted' = deleted /\ motions' = motions
    BY <1>20 DEF Crash
  <2> QED  BY <2>1, <2>2, <2>3, <2>4
<1> QED
  BY <1>4, <1>5, <1>6, <1>7, <1>8, <1>9, <1>10, <1>11, <1>12, <1>13, <1>14, <1>15,
     <1>16, <1>17, <1>18, <1>19, <1>20, <1>21 DEF Next, ScanStep

-------------------------------------------------------------------------------
(* What the steps have in common *)

(* The steps that are not the scan's: no row comes or goes, and what was read
   stays as it was. *)
LEMMA OtherSteps ==
    ASSUME TypeOK, Next, ~ScanStep, ~Crash
    PROVE  /\ UNCHANGED <<scan, deleted, watermark>>
           /\ recorded \subseteq recorded' /\ now <= now' /\ now' <= now + 1
           /\ \A s \in Segments : row'[s] = "NONE" <=> row[s] = "NONE"
           /\ ~PassTime => UNCHANGED <<now, recorded>>
<1> USE DEF world, catalog
<1>0. now \in Nat
  BY ConstantFacts DEF TypeOK
<1>1. ASSUME NEW h \in Handlers, DetectMotion(h)
      PROVE  UNCHANGED <<scan, deleted, watermark, recorded, now, row>>
  BY <1>1 DEF DetectMotion
<1>2. ASSUME NEW h \in Handlers, MotionStep(h)
      PROVE  /\ UNCHANGED <<scan, deleted, watermark, recorded, now>>
             /\ \A s \in Segments : row'[s] = "NONE" <=> row[s] = "NONE"
  <2>1. ASSUME NEW s \in Segments, KeepSegment(h, s)
        PROVE  /\ UNCHANGED <<scan, deleted, watermark, recorded, now>>
               /\ \A t \in Segments : row'[t] = "NONE" <=> row[t] = "NONE"
    BY <2>1 DEF KeepSegment, TypeOK
  <2>2. CASE ~ \E s \in Segments : KeepSegment(h, s)
    BY <1>2, <2>2 DEF MotionStep, ListBuffered, AnnounceKept, ListAvailable, Promote, EndMotion
  <2> QED  BY <2>1, <2>2
<1>7. ASSUME NEW h \in Handlers, MotionFails(h)
      PROVE  UNCHANGED <<scan, deleted, watermark, recorded, now, row>>
  BY <1>7 DEF MotionFails
<1>3. ASSUME NEW s \in Segments, RaiseToIncident(s)
      PROVE  UNCHANGED <<scan, deleted, watermark, recorded, now, row>>
  BY <1>3 DEF RaiseToIncident
<1>4. ASSUME NEW m \in Modes, SetMode(m)
      PROVE  UNCHANGED <<scan, deleted, watermark, recorded, now, row>>
  BY <1>4 DEF SetMode
<1>5. CASE PassTime
  BY <1>0, <1>5 DEF PassTime
<1>6. CASE ~PassTime
  BY <1>0, <1>1, <1>2, <1>3, <1>4, <1>6, <1>7 DEF Next
<1> QED  BY <1>5, <1>6

(* A scan that looks at files expires nothing. *)
LEMMA NothingExpiring ==
    ASSUME TypeOK, ScanInv, scan.at # "expiring"
    PROVE  scan.expiring = {}
BY DEF ScanInv

-------------------------------------------------------------------------------
(* The scan, the files and the calls *)

LEMMA ScanInvStep ==
    ASSUME TypeOK, ScanInv, FileInv, Next
    PROVE  ScanInv'
<1> USE DEF world, catalog
<1>0. /\ scan \in Scans /\ now \in Nat
      /\ recorded \subseteq Segments /\ deleted \subseteq recorded
      /\ \A s \in Segments : s \in Nat
  BY ConstantFacts DEF TypeOK, Segments
<1>1. scan.names # {} => Min(scan.names) \in scan.names /\ Min(scan.names) \in Segments
  BY <1>0, LeastSegment DEF Scans
<1>2. ASSUME NEW names \in SUBSET (recorded \ deleted), scan.at # "expiring",
             scan'.at = Proceed(names).at, scan'.names = Proceed(names).names,
             scan'.expiring = Proceed(names).expiring,
             UNCHANGED <<recorded, deleted, now>>
      PROVE  ScanInv'
  <2>1. scan.expiring = {}
    BY <1>2, NothingExpiring
  <2>2. Proceed(names).expiring = {} /\ Proceed(names).names = names
        /\ Proceed(names).at = IF names = {} THEN "expire" ELSE "files"
    BY <1>0, <2>1, ProceedFacts
  <2> QED  BY <1>2, <2>2 DEF ScanInv, Scanning, HasFile
<1>3. CASE StartScan
  BY <1>3 DEF StartScan, ScanInv, Scanning, HasFile, IdleScan
<1>4. CASE Examine
  <2> DEFINE s == Min(scan.names)
  <2>1. s \in recorded \ deleted /\ scan.names \subseteq recorded \ deleted /\ scan.expiring = {}
    BY <1>1, <1>4, NothingExpiring DEF Examine, ScanInv, Scanning
  <2>2. CASE scan' = Proceed({}) \/ scan' = Proceed(scan.names \ {s})
    BY <1>2, <1>4, <2>1, <2>2 DEF Examine
  <2>3. ASSUME NEW status \in {"AVAILABLE", "QUARANTINED"}, row[s] = "NONE",
               scan' = [scan EXCEPT !.at = IF status = "AVAILABLE" THEN "query" ELSE "create",
                                    !.names = @ \ {s}, !.seg = s, !.status = status,
                                    !.mode = ModeOfScan]
        PROVE  ScanInv'
    <3>1. /\ scan'.at \in {"query", "create"} /\ scan'.seg = s
          /\ scan'.names = scan.names \ {s} /\ scan'.expiring = {}
      BY <1>0, <2>1, <2>3 DEF Scans
    <3>2. UNCHANGED <<recorded, deleted, now, row>>
      BY <1>4 DEF Examine
    <3> QED  BY <2>1, <2>3, <3>1, <3>2 DEF ScanInv, Scanning, HasFile
  <2> QED  BY <1>4, <2>2, <2>3 DEF Examine
<1>5. CASE SkipUnreadable
  BY <1>2, <1>5 DEF SkipUnreadable, ScanInv, Scanning
<1>6. CASE SkipInvalid
  <2> DEFINE s == Min(scan.names)
  <2>1. scan.names \subseteq recorded \ deleted
    BY <1>6 DEF SkipInvalid, ScanInv, Scanning
  <2>2. CASE scan.names = {s}
    BY <1>2, <1>6, <2>2 DEF SkipInvalid
  <2>3. CASE scan.names # {s}
    <3>1. Proceed(scan.names \ {s}) \in Scans
      BY <1>0, <2>1, ProceedFacts DEF Resting, Scans
    <3>2. /\ scan'.at = Proceed(scan.names \ {s}).at
          /\ scan'.names = Proceed(scan.names \ {s}).names
          /\ scan'.expiring = Proceed(scan.names \ {s}).expiring
      BY <1>6, <2>3, <3>1 DEF SkipInvalid, Scans
    <3> QED  BY <1>2, <1>6, <2>1, <3>2 DEF SkipInvalid
  <2> QED  BY <2>2, <2>3
<1>7. CASE QueryMotion
  <2>1. /\ scan'.at = "create" /\ scan'.seg = scan.seg /\ scan'.names = scan.names
        /\ scan'.expiring = {}
    BY <1>0, <1>7, NothingExpiring DEF QueryMotion, Scans
  <2> QED  BY <1>7, <2>1 DEF QueryMotion, ScanInv, Scanning, HasFile
<1>8. CASE CreateRow
  <2>1. CASE Fate = "AVAILABLE"
    <3>1. /\ scan'.at = "announce" /\ scan'.seg = scan.seg /\ scan'.names = scan.names
          /\ scan'.expiring = {}
      BY <1>0, <1>8, <2>1, NothingExpiring DEF CreateRow, Scans
    <3>2. row'[scan.seg] # "NONE"
      BY <1>0, <1>8, <2>1 DEF CreateRow, ScanInv, HasFile, TypeOK
    <3> QED  BY <1>8, <3>1, <3>2 DEF CreateRow, ScanInv, Scanning, HasFile
  <2>2. CASE Fate # "AVAILABLE"
    BY <1>2, <1>8, <2>2 DEF CreateRow, ScanInv, Scanning, HasFile
  <2> QED  BY <2>1, <2>2
<1>9. CASE CatalogueFails
  BY <1>2, <1>9 DEF CatalogueFails
<1>10. CASE Announce
  BY <1>2, <1>10 DEF Announce, ScanInv, Scanning, HasFile
<1>11. CASE ListExpired
  <2>1. /\ scan'.at = "expiring"
        /\ scan'.expiring = {s \in Rows("BUFFERED") : EndTime(s) < Cutoff}
    BY <1>0, <1>11 DEF ListExpired, Scans
  <2>2. Rows("BUFFERED") \subseteq recorded
    BY DEF FileInv, Rows, Catalogued
  <2> QED  BY <1>11, <2>1, <2>2 DEF ListExpired, ScanInv, Scanning, HasFile, Cutoff
<1>12. ASSUME NEW s \in Segments, Expire(s)  PROVE  ScanInv'
  <2>1. scan'.at = "expiring" /\ scan'.expiring = scan.expiring \ {s}
    BY <1>0, <1>12 DEF Expire, Scans
  <2> QED  BY <1>12, <2>1 DEF Expire, ScanInv, Scanning, HasFile, Cutoff
<1>13. CASE EndScan
  BY <1>13 DEF EndScan, IdleScan, ScanInv, Scanning, HasFile
<1>14. CASE Crash
  BY <1>14 DEF Crash, IdleScan, ScanInv, Scanning, HasFile
<1>15. CASE ~ScanStep /\ ~Crash
  <2>1. /\ UNCHANGED <<scan, deleted>> /\ recorded \subseteq recorded' /\ now <= now'
        /\ \A s \in Segments : row'[s] = "NONE" <=> row[s] = "NONE"
    BY <1>15, OtherSteps
  <2>2. now' \in Nat
    BY ConstantFacts, <1>0, <1>15, OtherSteps DEF Next, PassTime
  <2>3. \A s \in scan'.expiring : EndTime(s) < Cutoff'
    BY <1>0, <2>1, <2>2, ConstantFacts DEF ScanInv, Scans, EndTime, Cutoff
  <2>4. HasFile => scan.seg \in Segments
    BY <1>0 DEF ScanInv
  <2> QED  BY <2>1, <2>3, <2>4 DEF ScanInv, Scanning, HasFile
<1> QED
  BY <1>3, <1>4, <1>5, <1>6, <1>7, <1>8, <1>9, <1>10, <1>11, <1>12, <1>13, <1>14, <1>15
     DEF ScanStep

LEMMA FileInvStep ==
    ASSUME TypeOK, ScanInv, FileInv, Next
    PROVE  FileInv'
<1> USE DEF world, catalog
<1>0. now \in Nat /\ recorded \subseteq Segments /\ deleted \subseteq recorded
  BY ConstantFacts DEF TypeOK
<1>1. ASSUME UNCHANGED <<recorded, deleted, now, row>>  PROVE  FileInv'
  BY <1>1 DEF FileInv, Catalogued
<1>2. CASE CreateRow
  BY <1>2, <1>0 DEF CreateRow, ScanInv, HasFile, FileInv, Catalogued, TypeOK
<1>3. ASSUME NEW s \in Segments, Expire(s)  PROVE  FileInv'
  BY <1>3, <1>0 DEF Expire, FileInv, Catalogued, TypeOK
<1>4. CASE StartScan \/ Examine \/ SkipUnreadable \/ SkipInvalid \/ QueryMotion
           \/ CatalogueFails \/ Announce \/ ListExpired \/ EndScan
  BY <1>1, <1>4 DEF StartScan, Examine, SkipUnreadable, SkipInvalid, QueryMotion,
     CatalogueFails, Announce, ListExpired, EndScan
<1>5. CASE Crash
  BY <1>1, <1>5 DEF Crash
<1>6. CASE ~ScanStep /\ ~Crash
  <2>1. /\ UNCHANGED deleted /\ recorded \subseteq recorded'
        /\ \A s \in Segments : row'[s] = "NONE" <=> row[s] = "NONE"
    BY <1>6, OtherSteps
  <2>2. Catalogued' \subseteq recorded' \ deleted'
    BY <2>1 DEF FileInv, Catalogued
  <2>3. recorded' \subseteq 1 .. now' + 1
    <3>1. CASE PassTime
      <4>1. now' = now + 1 /\ recorded' \subseteq recorded \cup {now + 1 + 1}
        BY <3>1 DEF PassTime
      <4> QED  BY <1>0, <4>1 DEF FileInv
    <3>2. CASE ~PassTime
      BY <1>6, <3>2, OtherSteps DEF FileInv
    <3> QED  BY <3>1, <3>2
  <2> QED  BY <2>2, <2>3 DEF FileInv
<1> QED  BY <1>2, <1>3, <1>4, <1>5, <1>6 DEF ScanStep

LEMMA CallInvStep ==
    ASSUME TypeOK, CallInv, Next
    PROVE  CallInv'
<1> USE DEF world, catalog
<1>0. now \in Nat /\ keep \in [Handlers -> Calls]
  BY ConstantFacts DEF TypeOK
<1>1. ASSUME UNCHANGED <<keep, now>>  PROVE  CallInv'
  BY <1>1 DEF CallInv
<1>2. CASE ScanStep
  BY <1>1, <1>2 DEF ScanStep, StartScan, Examine, SkipUnreadable, SkipInvalid, QueryMotion,
     CreateRow, CatalogueFails, Announce, ListExpired, Expire, EndScan
<1>3. ASSUME NEW h \in Handlers, DetectMotion(h)  PROVE  CallInv'
  <2>1. keep' = [keep EXCEPT ![h] = [IdleCall EXCEPT !.at = "list", !.motion = now]]
    BY <1>3 DEF DetectMotion, SetCall
  <2>2. keep'[h].at = "list" /\ keep'[h].motion = now
    BY <1>0, <2>1 DEF IdleCall
  <2>3. now' = now
    BY <1>3 DEF DetectMotion
  <2> QED  BY <1>0, <2>1, <2>2, <2>3, ConstantFacts DEF CallInv
<1>4. ASSUME NEW h \in Handlers, MotionStep(h)  PROVE  CallInv'
  <2>0. now' = now
    BY <1>4 DEF MotionStep, ListBuffered, KeepSegment, AnnounceKept, ListAvailable, Promote, EndMotion
  <2>1. ASSUME NEW call, keep' = [keep EXCEPT ![h] = call],
               call.at # "idle" => keep[h].at # "idle" /\ call.motion = keep[h].motion,
               call.at = "announce" => call.seg \in Segments
        PROVE  CallInv'
    BY <1>0, <2>0, <2>1 DEF CallInv
  <2>2. keep[h] \in Calls
    BY <1>0
  <2>3. ASSUME NEW s \in Segments, KeepSegment(h, s)  PROVE  CallInv'
    <3>1. CASE row[s] = "NONE"
      BY <2>1, <2>2, <2>3, <3>1 DEF KeepSegment, SetCall, Calls
    <3>2. CASE row[s] # "NONE"
      BY <2>1, <2>2, <2>3, <3>2 DEF KeepSegment, SetCall, Calls
    <3> QED  BY <3>1, <3>2
  <2>4. CASE ListBuffered(h)
    BY <2>1, <2>2, <2>4 DEF ListBuffered, SetCall, Calls
  <2>5. CASE AnnounceKept(h)
    BY <2>1, <2>2, <2>5 DEF AnnounceKept, SetCall, Calls
  <2>6. CASE ListAvailable(h)
    BY <2>1, <2>2, <2>6 DEF ListAvailable, SetCall, Calls
  <2>7. ASSUME NEW s \in Segments, Promote(h, s)  PROVE  CallInv'
    BY <2>1, <2>2, <2>7 DEF Promote, SetCall, Calls
  <2>8. CASE EndMotion(h)
    BY <2>1, <2>8 DEF EndMotion, SetCall, IdleCall
  <2> QED  BY <1>4, <2>3, <2>4, <2>5, <2>6, <2>7, <2>8 DEF MotionStep
<1>9. ASSUME NEW h \in Handlers, MotionFails(h)  PROVE  CallInv'
  <2>1. keep' = [keep EXCEPT ![h] = IdleCall] /\ now' = now
    BY <1>9 DEF MotionFails, SetCall
  <2> QED  BY <1>0, <2>1 DEF CallInv, IdleCall
<1>5. ASSUME NEW s \in Segments, RaiseToIncident(s)  PROVE  CallInv'
  BY <1>1, <1>5 DEF RaiseToIncident
<1>6. ASSUME NEW m \in Modes, SetMode(m)  PROVE  CallInv'
  BY <1>1, <1>6 DEF SetMode
<1>7. CASE PassTime
  <2>1. /\ now' = now + 1 /\ keep' = keep
        /\ \A h \in Handlers : keep[h].at # "idle" => now < keep[h].motion + Latency
    BY <1>7 DEF PassTime
  <2>2. \A h \in Handlers : keep[h].motion \in Nat
    BY <1>0, ConstantFacts DEF Calls
  <2> QED  BY <1>0, <2>1, <2>2, ConstantFacts DEF CallInv
<1>8. CASE Crash
  BY <1>8 DEF Crash, CallInv, IdleCall
<1> QED  BY <1>2, <1>3, <1>4, <1>5, <1>6, <1>7, <1>8, <1>9 DEF Next

-------------------------------------------------------------------------------
(* What was promised *)

(* Time does not outrun a call of onMotion: footage it will keep is not yet due. *)
LEMMA WillKeepIsNotDue ==
    ASSUME TypeOK, CallInv, NEW h \in Handlers, NEW s \in Segments, WillKeep(h, s)
    PROVE  ~(EndTime(s) < Cutoff)
<1>1. keep[h].motion \in Nat /\ now \in Nat
  BY ConstantFacts DEF TypeOK, Calls
<1>2. now <= keep[h].motion + Latency
  BY DEF CallInv, WillKeep
<1>3. EndTime(s) > keep[h].motion - PreBuffer /\ EndTime(s) \in Nat
  BY DEF WillKeep, InMotionWindow, EndTime, Segments
<1> QED  BY <1>1, <1>2, <1>3, ConstantFacts DEF Cutoff

LEMMA PromiseByScan ==
    ASSUME TypeOK, ScanInv, FileInv, CallInv, PromiseInv, ScanStep
    PROVE  PromiseInv'
<1> USE DEF world, catalog
<1>0. scan \in Scans /\ promised \subseteq Segments
  BY DEF TypeOK
<1>1. ASSUME UNCHANGED <<row, deleted, motions, keep, promised>>,
             scan'.expiring \subseteq scan.expiring, scan'.at # "create"
      PROVE  PromiseInv'
  BY <1>1 DEF PromiseInv, WillKeep, NearMotion
<1>2. ASSUME NEW names \in SUBSET Segments, scan.at # "expiring"
      PROVE  Proceed(names).expiring = {} /\ Proceed(names).at # "create"
  BY <1>0, <1>2, NothingExpiring, ProceedFacts
<1>3. scan.at = "files" => scan.names \ {Min(scan.names)} \in SUBSET Segments
  BY <1>0 DEF Scans
<1>4. CASE StartScan
  BY <1>1, <1>4 DEF StartScan, IdleScan
<1>5. CASE Examine
  <2> DEFINE s == Min(scan.names)
  <2>1. CASE scan' = Proceed({}) \/ scan' = Proceed(scan.names \ {s})
    BY <1>1, <1>2, <1>3, <1>5, <2>1 DEF Examine
  <2>2. ASSUME NEW status \in {"AVAILABLE", "QUARANTINED"},
               scan' = [scan EXCEPT !.at = IF status = "AVAILABLE" THEN "query" ELSE "create",
                                    !.names = @ \ {s}, !.seg = s, !.status = status,
                                    !.mode = ModeOfScan]
        PROVE  PromiseInv'
    <3>1. /\ scan'.at = "create" => scan'.status = "QUARANTINED"
          /\ scan'.expiring = scan.expiring
      BY <1>0, <2>2 DEF Scans
    <3>2. UNCHANGED <<row, deleted, motions, keep, promised>>
      BY <1>5 DEF Examine
    <3> QED  BY <3>1, <3>2 DEF PromiseInv, WillKeep, NearMotion
  <2> QED  BY <1>5, <2>1, <2>2 DEF Examine
<1>6. CASE SkipUnreadable
  BY <1>1, <1>2, <1>3, <1>6 DEF SkipUnreadable
<1>7. CASE SkipInvalid
  <2> DEFINE rest == Proceed(scan.names \ {Min(scan.names)})
  <2>1. rest \in Scans /\ Proceed({}) \in Scans
    BY <1>0, <1>3, <1>7, ProceedFacts DEF Resting, Scans, SkipInvalid
  <2>2. /\ scan'.at = rest.at \/ scan'.at = Proceed({}).at
        /\ scan'.expiring = rest.expiring \/ scan'.expiring = Proceed({}).expiring
    BY <1>7, <2>1 DEF SkipInvalid, Scans
  <2>3. scan'.at # "create" /\ scan'.expiring = {}
    BY <1>2, <1>3, <1>7, <2>2 DEF SkipInvalid
  <2> QED  BY <1>1, <1>7, <2>3 DEF SkipInvalid
<1>8. CASE QueryMotion
  <2>1. /\ scan'.at = "create" /\ scan'.seg = scan.seg /\ scan'.near = NearMotion(scan.seg)
        /\ scan'.expiring = scan.expiring
    BY <1>0, <1>8 DEF QueryMotion, Scans
  <2>2. UNCHANGED <<row, deleted, motions, keep, promised>>
    BY <1>8 DEF QueryMotion
  <2> QED  BY <2>1, <2>2 DEF PromiseInv, WillKeep, NearMotion
<1>9. CASE CreateRow
  <2> DEFINE t == scan.seg
  <2>1. t \in Segments /\ row[t] = "NONE" /\ scan.names \in SUBSET Segments
    BY <1>0, <1>9 DEF CreateRow, ScanInv, HasFile, Scanning, TypeOK, Scans
  <2>2. t \in promised => Fate # "BUFFERED"
    BY <1>9, <2>1 DEF CreateRow, PromiseInv, Fate
  <2>3. /\ \A s \in Segments : row'[s] = IF s = t THEN Fate ELSE row[s]
        /\ Fate # "NONE"
    BY <1>9, <2>1 DEF CreateRow, TypeOK, Fate
  <2>4. scan'.expiring = {} /\ scan'.at # "create"
    <3>1. CASE Fate = "AVAILABLE"
      BY <1>0, <1>9, <3>1, NothingExpiring DEF CreateRow, Scans
    <3>2. CASE Fate # "AVAILABLE"
      BY <1>2, <1>9, <2>1, <3>2 DEF CreateRow
    <3> QED  BY <3>1, <3>2
  <2>5. UNCHANGED <<deleted, motions, keep, promised>>
    BY <1>9 DEF CreateRow
  <2> QED  BY <1>0, <2>1, <2>2, <2>3, <2>4, <2>5 DEF PromiseInv, WillKeep, NearMotion
<1>10. CASE CatalogueFails
  BY <1>1, <1>2, <1>10 DEF CatalogueFails
<1>11. CASE Announce
  <2>1. scan.names \in SUBSET Segments
    BY <1>0 DEF Scans
  <2> QED  BY <1>1, <1>2, <1>11, <2>1 DEF Announce
<1>12. CASE ListExpired
  <2>1. /\ scan'.at = "expiring"
        /\ scan'.expiring = {s \in Rows("BUFFERED") : EndTime(s) < Cutoff}
    BY <1>0, <1>12 DEF ListExpired, Scans
  <2>2. \A s \in promised : row[s] = "BUFFERED" => ~(EndTime(s) < Cutoff)
    BY <1>0, WillKeepIsNotDue DEF PromiseInv
  <2>3. \A s \in promised : s \notin scan'.expiring
    BY <2>1, <2>2 DEF Rows
  <2> QED  BY <1>12, <2>1, <2>3 DEF ListExpired, PromiseInv, WillKeep, NearMotion
<1>13. ASSUME NEW t \in Segments, Expire(t)  PROVE  PromiseInv'
  <2>1. scan'.at = "expiring" /\ scan'.expiring \subseteq scan.expiring
    BY <1>0, <1>13 DEF Expire, Scans
  <2>2. t \notin promised /\ deleted' = deleted \cup {t}
    BY <1>13 DEF Expire, PromiseInv
  <2>3. \A s \in promised : row'[s] = row[s]
    BY <1>0, <1>13, <2>2 DEF Expire, TypeOK
  <2>4. UNCHANGED <<motions, keep, promised>>
    BY <1>13 DEF Expire
  <2> QED  BY <2>1, <2>2, <2>3, <2>4 DEF PromiseInv, WillKeep, NearMotion
<1>14. CASE EndScan
  BY <1>1, <1>14 DEF EndScan, IdleScan
<1> QED
  BY <1>4, <1>5, <1>6, <1>7, <1>8, <1>9, <1>10, <1>11, <1>12, <1>13, <1>14 DEF ScanStep

LEMMA PromiseByMotion ==
    ASSUME TypeOK, ScanInv, FileInv, CallInv, PromiseInv,
           NEW h \in Handlers, DetectMotion(h) \/ MotionStep(h)
    PROVE  PromiseInv'
<1> USE DEF world, catalog
<1>0. /\ keep \in [Handlers -> Calls] /\ keep[h] \in Calls
      /\ promised \subseteq Segments /\ now \in Nat
      /\ row \in [Segments -> {"NONE", "AVAILABLE", "BUFFERED", "QUARANTINED"}]
  BY ConstantFacts DEF TypeOK
<1>1. CASE DetectMotion(h)
  <2> DEFINE new == {s \in Segments : InMotionWindow(s, now) /\ StillKeepable(s)}
  <2>1. /\ UNCHANGED <<row, deleted, scan, now>>
        /\ promised' = promised \cup new /\ motions' = motions \cup {now}
        /\ keep[h].at = "idle"
    BY <1>1 DEF DetectMotion
  <2>2. keep'[h].at = "list" /\ keep'[h].motion = now
    BY <1>0, <1>1 DEF DetectMotion, SetCall, IdleCall
  <2>3. \A g \in Handlers \ {h} : keep'[g] = keep[g]
    BY <1>0, <1>1 DEF DetectMotion, SetCall
  <2>4. ASSUME NEW s \in promised
        PROVE  /\ s \notin deleted' /\ s \notin scan'.expiring
               /\ row'[s] = "BUFFERED" => \E g \in Handlers : WillKeep(g, s)'
               /\ row'[s] = "NONE" =>
                     /\ NearMotion(s)'
                     /\ scan'.at = "create" /\ scan'.seg = s =>
                           scan'.near \/ scan'.status = "QUARANTINED"
    <3>1. \A g \in Handlers : WillKeep(g, s) => g # h /\ WillKeep(g, s)'
      BY <2>1, <2>3 DEF WillKeep
    <3>2. NearMotion(s) => NearMotion(s)'
      BY <2>1 DEF NearMotion
    <3> QED  BY <2>1, <3>1, <3>2 DEF PromiseInv
  <2>5. ASSUME NEW s \in new
        PROVE  /\ s \notin deleted' /\ s \notin scan'.expiring
               /\ row'[s] = "BUFFERED" => WillKeep(h, s)'
               /\ row'[s] = "NONE" => NearMotion(s)' /\ ~(scan'.at = "create" /\ scan'.seg = s)
    <3>1. s \in Segments /\ InMotionWindow(s, now) /\ StillKeepable(s)
      OBVIOUS
    <3>2. s \notin deleted
      BY <3>1 DEF StillKeepable, FileInv, Catalogued
    <3>3. ~(EndTime(s) < Cutoff)
      BY <1>0, <3>1, ConstantFacts DEF InMotionWindow, EndTime, Cutoff, Segments
    <3>4. s \notin scan.expiring
      BY <3>3 DEF ScanInv
    <3>5. WillKeep(h, s)'
      BY <2>2, <3>1 DEF WillKeep, InMotionWindow
    <3>6. NearMotion(s)'
      <4>1. StartTime(s) - PostBuffer <= now /\ now <= EndTime(s) + PreBuffer
        BY <1>0, <3>1, ConstantFacts DEF InMotionWindow, StartTime, EndTime, Segments
      <4>2. now \in motions'
        BY <2>1
      <4> QED  BY <4>1, <4>2 DEF NearMotion
    <3>7. row[s] = "NONE" => ~(scan.at = "create" /\ scan.seg = s)
      BY <3>1 DEF StillKeepable
    <3> QED  BY <2>1, <3>2, <3>4, <3>5, <3>6, <3>7
  <2> QED  BY <2>1, <2>4, <2>5 DEF PromiseInv
<1>2. ASSUME UNCHANGED <<deleted, motions, scan, promised>>,
             \A g \in Handlers \ {h} : keep'[g] = keep[g],
             \A s \in Segments : row'[s] = "NONE" <=> row[s] = "NONE",
             \A s \in Segments : row'[s] = "BUFFERED" =>
                 row[s] = "BUFFERED" /\ (WillKeep(h, s) => WillKeep(h, s)')
      PROVE  PromiseInv'
  <2>1. ASSUME NEW s \in promised, row'[s] = "BUFFERED"
        PROVE  \E g \in Handlers : WillKeep(g, s)'
    <3>1. PICK g \in Handlers : WillKeep(g, s)
      BY <1>0, <1>2, <2>1 DEF PromiseInv
    <3>2. CASE g = h
      BY <1>0, <1>2, <2>1, <3>1, <3>2
    <3>3. CASE g # h
      BY <1>2, <3>1, <3>3 DEF WillKeep
    <3> QED  BY <3>2, <3>3
  <2> QED  BY <1>0, <1>2, <2>1 DEF PromiseInv, NearMotion
<1>3. CASE ListBuffered(h)
  <2> DEFINE list == {s \in Rows("BUFFERED") : InMotionWindow(s, keep[h].motion)}
  <2>1. keep'[h].at = "keep" /\ keep'[h].motion = keep[h].motion /\ keep'[h].todo = list
    BY <1>0, <1>3 DEF ListBuffered, SetCall, Calls
  <2>2. \A g \in Handlers \ {h} : keep'[g] = keep[g]
    BY <1>0, <1>3 DEF ListBuffered, SetCall
  <2>3. \A s \in Segments : row[s] = "BUFFERED" => (WillKeep(h, s) => WillKeep(h, s)')
    BY <2>1 DEF WillKeep, InMotionWindow, Rows
  <2> QED  BY <1>2, <1>3, <2>2, <2>3 DEF ListBuffered
<1>4. ASSUME NEW t \in Segments, KeepSegment(h, t)  PROVE  PromiseInv'
  <2>1. /\ keep'[h].motion = keep[h].motion /\ keep'[h].todo = keep[h].todo \ {t}
        /\ keep'[h].at \in {"keep", "announce"} /\ keep[h].at = "keep"
    <3>1. CASE keep'[h] = [keep[h] EXCEPT !.todo = @ \ {t}]
      BY <1>0, <1>4, <3>1 DEF KeepSegment, Calls
    <3>2. CASE keep'[h] = [keep[h] EXCEPT !.todo = @ \ {t}, !.at = "announce", !.seg = t]
      BY <1>0, <1>4, <3>2 DEF KeepSegment, Calls
    <3> QED  BY <1>0, <1>4, <3>1, <3>2 DEF KeepSegment, SetCall
  <2>2. \A g \in Handlers \ {h} : keep'[g] = keep[g]
    BY <1>0, <1>4 DEF KeepSegment, SetCall
  <2>3. /\ \A s \in Segments \ {t} : row'[s] = row[s]
        /\ row'[t] # "BUFFERED"
        /\ row'[t] = "NONE" <=> row[t] = "NONE"
    BY <1>0, <1>4 DEF KeepSegment
  <2>4. \A s \in Segments \ {t} : WillKeep(h, s) => WillKeep(h, s)'
    BY <2>1 DEF WillKeep, InMotionWindow
  <2>5. UNCHANGED <<deleted, motions, scan, promised>>
    BY <1>4 DEF KeepSegment
  <2> QED  BY <1>2, <2>2, <2>3, <2>4, <2>5
<1>5. CASE AnnounceKept(h)
  <2>1. /\ keep'[h].motion = keep[h].motion /\ keep'[h].todo = keep[h].todo
        /\ keep'[h].at = "keep" /\ keep[h].at = "announce"
    BY <1>0, <1>5 DEF AnnounceKept, SetCall, Calls
  <2>2. \A g \in Handlers \ {h} : keep'[g] = keep[g]
    BY <1>0, <1>5 DEF AnnounceKept, SetCall
  <2>3. \A s \in Segments : WillKeep(h, s) => WillKeep(h, s)'
    BY <2>1 DEF WillKeep, InMotionWindow
  <2> QED  BY <1>2, <1>5, <2>2, <2>3 DEF AnnounceKept
<1>6. CASE ListAvailable(h) \/ (\E t \in Segments : Promote(h, t)) \/ EndMotion(h)
  <2>1. \A g \in Handlers \ {h} : keep'[g] = keep[g]
    BY <1>0, <1>6 DEF ListAvailable, Promote, EndMotion, SetCall
  <2>2. \A s \in Segments : ~WillKeep(h, s)
    BY <1>6 DEF ListAvailable, Promote, EndMotion, WillKeep
  <2>3. UNCHANGED <<row, deleted, motions, scan, promised>>
    BY <1>6 DEF ListAvailable, Promote, EndMotion
  <2> QED  BY <1>2, <2>1, <2>2, <2>3
<1> QED  BY <1>1, <1>3, <1>4, <1>5, <1>6 DEF MotionStep

LEMMA PromiseInvStep ==
    ASSUME TypeOK, ScanInv, FileInv, CallInv, PromiseInv, Next
    PROVE  PromiseInv'
<1> USE DEF world, catalog
<1>1. ASSUME UNCHANGED <<row, deleted, motions, scan, keep, promised>>  PROVE  PromiseInv'
  BY <1>1 DEF PromiseInv, WillKeep, NearMotion
<1>2. ASSUME NEW s \in Segments, RaiseToIncident(s)  PROVE  PromiseInv'
  BY <1>1, <1>2 DEF RaiseToIncident
<1>3. ASSUME NEW m \in Modes, SetMode(m)  PROVE  PromiseInv'
  BY <1>1, <1>3 DEF SetMode
<1>4. CASE PassTime
  BY <1>1, <1>4 DEF PassTime
<1>5. CASE Crash
  <2>1. /\ UNCHANGED <<row, deleted, motions>> /\ promised' = promised \ Rows("BUFFERED")
        /\ scan'.at = "idle" /\ scan'.expiring = {}
    BY <1>5 DEF Crash, IdleScan
  <2>2. \A s \in promised' : row'[s] # "BUFFERED" /\ s \in promised
    BY <2>1 DEF Rows, TypeOK
  <2> QED  BY <2>1, <2>2 DEF PromiseInv, NearMotion
<1>6. ASSUME NEW h \in Handlers, MotionFails(h)  PROVE  PromiseInv'
  <2>1. /\ UNCHANGED <<row, deleted, motions, scan>>
        /\ \A s \in promised' :
              /\ s \in promised
              /\ row[s] = "BUFFERED" => \E g \in Handlers \ {h} : WillKeep(g, s)
    BY <1>6 DEF MotionFails
  <2>2. \A g \in Handlers \ {h} : keep'[g] = keep[g]
    BY <1>6 DEF MotionFails, SetCall, TypeOK
  <2>3. \A g \in Handlers \ {h} : \A s \in Segments : WillKeep(g, s) => WillKeep(g, s)'
    BY <2>2 DEF WillKeep
  <2>4. promised \subseteq Segments
    BY DEF TypeOK
  <2>5. ASSUME NEW s \in promised', row'[s] = "BUFFERED"
        PROVE  \E g \in Handlers : WillKeep(g, s)'
    BY <2>1, <2>3, <2>4, <2>5
  <2> QED  BY <2>1, <2>5 DEF PromiseInv, NearMotion
<1> QED  BY <1>2, <1>3, <1>4, <1>5, <1>6, PromiseByScan, PromiseByMotion DEF Next

-------------------------------------------------------------------------------
(* What was announced *)

LEMMA AnnouncedStep ==
    ASSUME TypeOK, ScanInv, AvailableIsAnnounced, Next
    PROVE  AvailableIsAnnounced'
<1> USE DEF world, catalog
<1>0. /\ scan \in Scans /\ keep \in [Handlers -> Calls]
      /\ row \in [Segments -> {"NONE", "AVAILABLE", "BUFFERED", "QUARANTINED"}]
  BY DEF TypeOK
<1>1. ASSUME \A s \in Segments : row'[s] = "AVAILABLE" => row[s] = "AVAILABLE",
             announced \subseteq announced', UNCHANGED <<keep, unsaid>>,
             scan.at = "announce" => UNCHANGED scan \/ scan.seg \in announced'
      PROVE  AvailableIsAnnounced'
  BY <1>1 DEF AvailableIsAnnounced, Announcing, Rows
<1>2. CASE StartScan \/ Examine \/ SkipUnreadable \/ SkipInvalid \/ QueryMotion
           \/ CatalogueFails \/ Announce \/ ListExpired \/ EndScan
  BY <1>1, <1>2 DEF StartScan, Examine, SkipUnreadable, SkipInvalid, QueryMotion,
     CatalogueFails, Announce, ListExpired, EndScan
<1>3. CASE CreateRow
  <2>1. Fate = "AVAILABLE" => scan'.at = "announce" /\ scan'.seg = scan.seg
    BY <1>0, <1>3 DEF CreateRow, Scans
  <2>2. \A s \in Segments : row'[s] = "AVAILABLE" =>
            row[s] = "AVAILABLE" \/ (s = scan.seg /\ Fate = "AVAILABLE")
    BY <1>0, <1>3 DEF CreateRow
  <2> QED  BY <1>3, <2>1, <2>2 DEF CreateRow, AvailableIsAnnounced, Announcing, Rows
<1>4. ASSUME NEW s \in Segments, Expire(s)  PROVE  AvailableIsAnnounced'
  BY <1>0, <1>1, <1>4 DEF Expire
<1>5. ASSUME NEW h \in Handlers, UNCHANGED scan,
             \A g \in Handlers \ {h} : keep'[g] = keep[g],
             announced \subseteq announced', unsaid \subseteq unsaid',
             keep[h].at = "announce" => keep[h].seg \in announced' \cup unsaid',
             \A s \in Segments : row'[s] = "AVAILABLE" =>
                 row[s] = "AVAILABLE" \/ (keep'[h].at = "announce" /\ keep'[h].seg = s)
      PROVE  AvailableIsAnnounced'
  BY <1>5 DEF AvailableIsAnnounced, Announcing, Rows
<1>6. ASSUME NEW h \in Handlers, DetectMotion(h)  PROVE  AvailableIsAnnounced'
  BY <1>0, <1>5, <1>6 DEF DetectMotion, SetCall
<1>7. ASSUME NEW h \in Handlers, MotionStep(h)  PROVE  AvailableIsAnnounced'
  <2>1. CASE ListBuffered(h)
    BY <1>0, <1>5, <2>1 DEF ListBuffered, SetCall
  <2>2. ASSUME NEW t \in Segments, KeepSegment(h, t)  PROVE  AvailableIsAnnounced'
    <3>1. CASE row[t] = "NONE"
      BY <1>0, <1>5, <2>2, <3>1 DEF KeepSegment, SetCall
    <3>2. CASE row[t] # "NONE"
      <4>0. keep'[h] = [keep[h] EXCEPT !.todo = @ \ {t}, !.at = "announce", !.seg = t]
        BY <1>0, <2>2, <3>2 DEF KeepSegment, SetCall
      <4>1. keep'[h].at = "announce" /\ keep'[h].seg = t
        BY <1>0, <4>0 DEF Calls
      <4>2. \A s \in Segments : row'[s] = "AVAILABLE" => row[s] = "AVAILABLE" \/ s = t
        BY <1>0, <2>2, <3>2 DEF KeepSegment
      <4>3. \A g \in Handlers \ {h} : keep'[g] = keep[g]
        BY <1>0, <2>2, <3>2 DEF KeepSegment, SetCall
      <4> QED  BY <1>5, <2>2, <4>1, <4>2, <4>3 DEF KeepSegment
    <3> QED  BY <3>1, <3>2
  <2>3. CASE AnnounceKept(h)
    BY <1>0, <1>5, <2>3 DEF AnnounceKept, SetCall
  <2>4. CASE ListAvailable(h)
    BY <1>0, <1>5, <2>4 DEF ListAvailable, SetCall
  <2>5. ASSUME NEW t \in Segments, Promote(h, t)  PROVE  AvailableIsAnnounced'
    BY <1>0, <1>5, <2>5 DEF Promote, SetCall
  <2>6. CASE EndMotion(h)
    BY <1>0, <1>5, <2>6 DEF EndMotion, SetCall
  <2> QED  BY <1>7, <2>1, <2>2, <2>3, <2>4, <2>5, <2>6 DEF MotionStep
<1>12. ASSUME NEW h \in Handlers, MotionFails(h)  PROVE  AvailableIsAnnounced'
  BY <1>0, <1>5, <1>12 DEF MotionFails, SetCall
<1>8. ASSUME NEW s \in Segments, RaiseToIncident(s)  PROVE  AvailableIsAnnounced'
  BY <1>1, <1>8 DEF RaiseToIncident
<1>9. ASSUME NEW m \in Modes, SetMode(m)  PROVE  AvailableIsAnnounced'
  BY <1>1, <1>9 DEF SetMode
<1>10. CASE PassTime
  BY <1>1, <1>10 DEF PassTime
<1>11. CASE Crash
  BY <1>11 DEF Crash, AvailableIsAnnounced, Announcing, Rows
<1> QED
  BY <1>2, <1>3, <1>4, <1>6, <1>7, <1>8, <1>9, <1>10, <1>11, <1>12 DEF Next, ScanStep

-------------------------------------------------------------------------------
(* Finished files *)

LEMMA FinishedStep ==
    ASSUME QuietPeriod > 0, TypeOK, ScanInv, FileInv, FinishedInv, Next
    PROVE  FinishedInv'
<1> USE DEF world, catalog
<1>0. /\ scan \in Scans /\ now \in Nat /\ recorded \subseteq Segments
      /\ deleted \subseteq recorded /\ row \in [Segments -> {"NONE", "AVAILABLE", "BUFFERED", "QUARANTINED"}]
      /\ \A s \in Segments : s \in Nat
  BY ConstantFacts DEF TypeOK, Segments
<1>1. ASSUME UNCHANGED <<now, recorded>>,
             \A s \in Segments : row'[s] # "NONE" => row[s] # "NONE",
             scan'.at \notin {"query", "create"},
             Scanning' => Scanning /\ scan'.newest = scan.newest /\ scan'.names \subseteq scan.names
      PROVE  FinishedInv'
  BY <1>1 DEF FinishedInv, OnlyFinishedFiles
<1>2. ASSUME NEW names \in SUBSET Segments, names \subseteq scan.names, Scanning,
             UNCHANGED <<now, recorded, row>>,
             scan' = Proceed(names)
      PROVE  FinishedInv'
  <2>1. scan'.at \in {"files", "expire"} /\ scan'.names = names
        /\ (names # {} => scan'.newest = scan.newest)
        /\ (names = {} => scan'.at = "expire")
    BY <1>0, <1>2, ProceedFacts
  <2> QED  BY <1>1, <1>2, <2>1 DEF Scanning, HasFile
<1>3. CASE StartScan
  <2> DEFINE names == recorded \ deleted
  <2>1. CASE scan' = [IdleScan EXCEPT !.at = "expire"]
    BY <1>1, <1>3, <2>1 DEF StartScan, IdleScan, Scanning, HasFile
  <2>2. ASSUME NEW todo \in SUBSET names, todo # {},
               scan' = [IdleScan EXCEPT !.at = "files", !.names = todo, !.newest = Newest(names)]
        PROVE  FinishedInv'
    <3>1. scan'.at = "files" /\ scan'.names = todo /\ scan'.newest = Newest(names)
      BY <2>2 DEF IdleScan
    <3>2. names \in SUBSET Segments /\ names # {}
      BY <1>0, <2>2
    <3>3. Newest(names) \in names /\ \A s \in names : s <= Newest(names)
      BY <3>2, NewestSegment
    <3> QED  BY <1>3, <2>2, <3>1, <3>3 DEF StartScan, FinishedInv, OnlyFinishedFiles, Scanning, HasFile
  <2> QED  BY <1>3, <2>1, <2>2 DEF StartScan
<1>4. CASE Examine
  <2> DEFINE s == Min(scan.names)
  <2>0. /\ scan.names # {} /\ scan.names \in SUBSET Segments /\ Scanning
        /\ scan.names \ {s} \in SUBSET Segments
        /\ UNCHANGED <<now, recorded, row>>
    BY <1>0, <1>4 DEF Examine, ScanInv, Scans, Scanning
  <2>1. s \in scan.names /\ s \in Segments
    BY <2>0, LeastSegment
  <2>2. CASE scan' = Proceed({}) \/ scan' = Proceed(scan.names \ {s})
    BY <1>2, <2>0, <2>2
  <2>3. ASSUME ~StillWritten(s), NEW status \in {"AVAILABLE", "QUARANTINED"},
               scan' = [scan EXCEPT !.at = IF status = "AVAILABLE" THEN "query" ELSE "create",
                                    !.names = @ \ {s}, !.seg = s, !.status = status,
                                    !.mode = ModeOfScan]
        PROVE  FinishedInv'
    <3>1. scan'.seg = s /\ scan'.newest = scan.newest /\ scan'.names \subseteq scan.names
      BY <1>0, <2>3 DEF Scans
    <3>2. EndTime(s) <= now
      <4>1. s <= scan.newest /\ scan.newest \in recorded
        BY <2>0, <2>1 DEF FinishedInv
      <4>2. scan.newest \in Nat /\ scan.newest <= now + 1
        <5>1. scan.newest \in 1 .. now + 1 /\ scan.newest \in Segments
          BY <1>0, <4>1 DEF FileInv
        <5> QED  BY <1>0, <5>1
      <4>3. CASE s # scan.newest
        BY <1>0, <2>1, <4>1, <4>2, <4>3 DEF EndTime
      <4>4. CASE s = scan.newest
        <5>1. ~(now - LastWrite(s) < QuietPeriod)
          BY <2>3, <4>4 DEF StillWritten
        <5> QED  BY <1>0, <2>1, <5>1, ConstantFacts DEF LastWrite, EndTime
      <4> QED  BY <4>3, <4>4
    <3> QED  BY <2>0, <3>1, <3>2 DEF FinishedInv, OnlyFinishedFiles, Scanning, HasFile
  <2> QED  BY <1>4, <2>2, <2>3 DEF Examine
<1>5. CASE SkipUnreadable
  BY <1>2, <1>0, <1>5 DEF SkipUnreadable, Scanning, Scans
<1>6. CASE SkipInvalid
  <2> DEFINE rest == scan.names \ {Min(scan.names)}
  <2>1. rest \in SUBSET Segments /\ rest \subseteq scan.names /\ Scanning
    BY <1>0, <1>6 DEF SkipInvalid, Scans, Scanning
  <2>2. CASE scan.names = {Min(scan.names)}
    BY <1>2, <1>6, <2>1, <2>2 DEF SkipInvalid
  <2>3. CASE scan.names # {Min(scan.names)}
    <3>1. scan' = [Proceed(rest) EXCEPT !.mode = ModeOfScan] /\ Proceed(rest) \in Resting
      BY <1>0, <1>6, <2>1, <2>3, ProceedFacts DEF SkipInvalid
    <3>2. /\ scan'.at = Proceed(rest).at /\ scan'.names = Proceed(rest).names
          /\ scan'.newest = Proceed(rest).newest
      BY <3>1 DEF Resting
    <3>3. scan'.at \notin {"query", "create"}
          /\ (Scanning' => scan'.newest = scan.newest /\ scan'.names \subseteq scan.names)
      BY <1>0, <2>1, <3>2, ProceedFacts DEF Scanning, HasFile
    <3> QED  BY <1>1, <1>6, <2>1, <3>3 DEF SkipInvalid
  <2> QED  BY <2>2, <2>3
<1>7. CASE QueryMotion
  <2>1. /\ scan'.at = "create" /\ scan'.seg = scan.seg /\ scan'.names = scan.names
        /\ scan'.newest = scan.newest
    BY <1>0, <1>7 DEF QueryMotion, Scans
  <2> QED  BY <1>7, <2>1 DEF QueryMotion, FinishedInv, OnlyFinishedFiles, Scanning, HasFile
<1>8. CASE CreateRow
  <2>1. /\ \A s \in Segments : row'[s] # "NONE" => row[s] # "NONE" \/ s = scan.seg
        /\ EndTime(scan.seg) <= now
    BY <1>0, <1>8 DEF CreateRow, FinishedInv
  <2>2. OnlyFinishedFiles'
    BY <1>8, <2>1 DEF CreateRow, FinishedInv, OnlyFinishedFiles
  <2>3. scan'.at \notin {"query", "create"}
        /\ (Scanning' => scan'.newest = scan.newest /\ scan'.names \subseteq scan.names)
    <3>1. CASE Fate = "AVAILABLE"
      BY <1>0, <1>8, <3>1 DEF CreateRow, Scans
    <3>2. CASE Fate # "AVAILABLE"
      <4>1. scan' = Proceed(scan.names) /\ scan.names \in SUBSET Segments
        BY <1>0, <1>8, <3>2 DEF CreateRow, Scans
      <4> QED  BY <1>0, <4>1, ProceedFacts DEF Scanning, HasFile
    <3> QED  BY <3>1, <3>2
  <2> QED  BY <1>8, <2>2, <2>3 DEF CreateRow, FinishedInv, Scanning, HasFile
<1>9. CASE CatalogueFails
  BY <1>2, <1>9 DEF CatalogueFails, Scanning, HasFile
<1>10. CASE Announce
  BY <1>2, <1>0, <1>10 DEF Announce, Scanning, HasFile, Scans
<1>11. CASE ListExpired
  BY <1>0, <1>1, <1>11 DEF ListExpired, Scanning, HasFile, Scans
<1>12. ASSUME NEW s \in Segments, Expire(s)  PROVE  FinishedInv'
  <2>1. scan'.at = "expiring"
    BY <1>0, <1>12 DEF Expire, Scans
  <2> QED  BY <1>0, <1>1, <1>12, <2>1 DEF Expire, Scanning, HasFile
<1>13. CASE EndScan
  BY <1>1, <1>13 DEF EndScan, IdleScan, Scanning, HasFile
<1>14. CASE Crash
  BY <1>1, <1>14 DEF Crash, IdleScan, Scanning, HasFile
<1>15. CASE ~ScanStep /\ ~Crash
  <2>1. /\ UNCHANGED scan /\ recorded \subseteq recorded' /\ now <= now' /\ now' <= now + 1
        /\ \A s \in Segments : row'[s] = "NONE" <=> row[s] = "NONE"
    BY <1>15, OtherSteps
  <2>2. now' \in Nat
    BY <1>0, <1>15, OtherSteps DEF PassTime
  <2>3. OnlyFinishedFiles'
    BY <1>0, <2>1, <2>2 DEF FinishedInv, OnlyFinishedFiles, EndTime
  <2>4. scan.at \in {"query", "create"} => EndTime(scan.seg) <= now'
    <3>1. scan.seg \in Nat
      BY <1>0, ConstantFacts DEF Scans
    <3> QED  BY <1>0, <2>1, <2>2, <3>1 DEF FinishedInv, EndTime
  <2> QED  BY <2>1, <2>3, <2>4 DEF FinishedInv, Scanning, HasFile
<1> QED
  BY <1>3, <1>4, <1>5, <1>6, <1>7, <1>8, <1>9, <1>10, <1>11, <1>12, <1>13, <1>14, <1>15
     DEF ScanStep

-------------------------------------------------------------------------------
(* Files are catalogued in order *)

LEMMA OrderByScan ==
    ASSUME ~StatFails, TypeOK, ScanInv, FileInv, OrderInv, ScanStep
    PROVE  OrderInv'
<1> USE DEF world, catalog
<1>0. /\ scan \in Scans /\ now \in Nat /\ recorded \subseteq Segments
      /\ deleted \subseteq recorded
      /\ row \in [Segments -> {"NONE", "AVAILABLE", "BUFFERED", "QUARANTINED"}]
      /\ \A s \in Segments : s \in Nat
      /\ watermark \in Int
  BY ConstantFacts DEF TypeOK, Segments, Unset
<1>1. ASSUME UNCHANGED <<now, recorded, deleted, row, watermark>>,
             scan'.at \in {"idle", "expire", "expiring"}
      PROVE  OrderInv'
  BY <1>1 DEF OrderInv, NoFileIsSkipped, Catalogued, Uncatalogued, HasFile
<1>2. Proceed({}).at = "expire"
  BY <1>0, ProceedFacts
<1>3. CASE StartScan
  <2> DEFINE names == recorded \ deleted
             mark == IF watermark = Unset THEN Newest(Catalogued) ELSE watermark
             todo == {s \in names : StartTime(s) > StartTime(mark)}
  <2>0. /\ UNCHANGED <<now, recorded, deleted, row>> /\ watermark' = mark
        /\ scan' = IF todo = {} THEN [IdleScan EXCEPT !.at = "expire"]
                   ELSE [IdleScan EXCEPT !.at = "files", !.names = todo, !.newest = Newest(names)]
    BY <1>3 DEF StartScan
  <2>1. /\ Newest(Catalogued) \in 0 .. LastFile
        /\ Catalogued # {} => Newest(Catalogued) \in Catalogued
        /\ Catalogued = {} => Newest(Catalogued) = 0
    BY NewestSegment DEF Catalogued, Newest
  <2>2. mark \in Int /\ mark <= now + 1
    <3>1. Newest(Catalogued) <= now + 1
      BY <1>0, <2>1 DEF FileInv
    <3> QED  BY <1>0, <2>1, <3>1, ConstantFacts DEF OrderInv
  <2>3. \A s \in Uncatalogued : mark < s
    <3>1. \A s \in Uncatalogued : s \in Segments /\ s > 0
      BY <1>0 DEF Uncatalogued, Segments
    <3>2. \A s \in Uncatalogued : watermark < s /\ \A t \in Catalogued : t < s
      BY DEF OrderInv, NoFileIsSkipped, Uncatalogued
    <3> QED  BY <2>1, <3>1, <3>2
  <2>4. Uncatalogued \subseteq todo
    <3>1. \A s \in Uncatalogued : s \in names /\ s \in Int
      BY <1>0 DEF Uncatalogued
    <3> QED  BY <2>2, <2>3, <3>1 DEF StartTime
  <2>5. NoFileIsSkipped' /\ watermark' <= now' + 1
    BY <2>0, <2>2, <2>3 DEF OrderInv, NoFileIsSkipped, Uncatalogued, Catalogued
  <2>6. scan'.at \in {"files", "expire"} /\ (scan'.at = "files" => scan'.names = todo)
    BY <2>0 DEF IdleScan
  <2> QED  BY <2>0, <2>4, <2>5, <2>6 DEF OrderInv, Uncatalogued, HasFile
<1>4. CASE Examine
  <2> DEFINE s == Min(scan.names)
  <2>0. /\ scan.at = "files" /\ scan.names # {} /\ scan.names \in SUBSET Segments
        /\ scan.names \subseteq recorded
        /\ UNCHANGED <<now, recorded, deleted, row>>
    BY <1>0, <1>4 DEF Examine, ScanInv, Scans, Scanning
  <2>1. s \in scan.names /\ s \in Segments /\ s \in Nat /\ \A n \in scan.names : n \in Nat /\ s <= n
    BY <1>0, <2>0, LeastSegment
  <2>2. \A u \in Uncatalogued : u \in Nat /\ (u \in scan.names \/ \A n \in scan.names : n < u)
    BY <1>0, <2>0 DEF OrderInv, Uncatalogued
  <2>3. \A u \in Uncatalogued \ {s} : s < u
    BY <2>1, <2>2
  <2>4. CASE StillWritten(s)
    BY <1>1, <1>2, <1>4, <2>0, <2>4 DEF Examine
  <2>5. CASE ~StillWritten(s) /\ row[s] # "NONE"
    <3>1. scan' = Proceed(scan.names \ {s}) /\ watermark' = s
      BY <1>4, <2>5 DEF Examine
    <3>2. scan'.at \in {"files", "expire"} /\ scan'.names = scan.names \ {s}
      BY <1>0, <2>0, <3>1, ProceedFacts
    <3>3. s \notin Uncatalogued /\ s <= now + 1
      BY <2>0, <2>1, <2>5, <1>0 DEF Uncatalogued, FileInv
    <3>4. NoFileIsSkipped' /\ watermark' <= now' + 1
      BY <2>0, <2>3, <3>1, <3>3 DEF OrderInv, NoFileIsSkipped, Uncatalogued, Catalogued
    <3> QED  BY <2>0, <2>2, <3>2, <3>3, <3>4 DEF OrderInv, Uncatalogued, HasFile
  <2>6. CASE ~StillWritten(s) /\ row[s] = "NONE"
    <3>1. UNCHANGED watermark
      BY <1>4, <2>6 DEF Examine
    <3>2. PICK status \in {"AVAILABLE", "QUARANTINED"} :
             scan' = [scan EXCEPT !.at = IF status = "AVAILABLE" THEN "query" ELSE "create",
                                  !.names = @ \ {s}, !.seg = s, !.status = status,
                                  !.mode = ModeOfScan]
      BY <1>4, <2>6 DEF Examine
    <3>3. /\ scan'.at \in {"query", "create"} /\ scan'.seg = s
          /\ scan'.names = scan.names \ {s}
      BY <1>0, <3>2 DEF Scans
    <3>4. \A n \in scan'.names : s < n
      BY <2>1, <3>3
    <3>5. NoFileIsSkipped' /\ watermark' <= now' + 1
      BY <2>0, <3>1 DEF OrderInv, NoFileIsSkipped, Catalogued
    <3>6. Uncatalogued' = Uncatalogued
      BY <2>0 DEF Uncatalogued
    <3> QED  BY <2>2, <2>3, <3>3, <3>4, <3>5, <3>6 DEF OrderInv, HasFile
  <2> QED  BY <2>4, <2>5, <2>6
<1>5. CASE SkipUnreadable \/ SkipInvalid
  BY <1>5 DEF SkipUnreadable, SkipInvalid
<1>6. CASE QueryMotion
  <2>1. /\ scan'.at = "create" /\ scan'.seg = scan.seg /\ scan'.names = scan.names
    BY <1>0, <1>6 DEF QueryMotion, Scans
  <2> QED
    BY <1>6, <2>1 DEF QueryMotion, OrderInv, NoFileIsSkipped, Catalogued, Uncatalogued, HasFile
<1>7. CASE CreateRow \/ Announce
  <2> DEFINE t == scan.seg
  <2>0. /\ scan.at \in {"create", "announce"} /\ t \in Segments /\ t \in recorded
        /\ scan.names \in SUBSET Segments
        /\ UNCHANGED <<now, recorded, deleted>>
    BY <1>0, <1>7 DEF CreateRow, Announce, ScanInv, HasFile, Scans
  <2>1. /\ t \notin Uncatalogued'
        /\ \A s \in Segments \ {t} : row'[s] = row[s]
    BY <1>0, <1>7, <2>0 DEF CreateRow, Announce, Uncatalogued, Fate, ScanInv, HasFile
  <2>2. Uncatalogued' \subseteq Uncatalogued \ {t} /\ Catalogued' \subseteq Catalogued \cup {t}
    BY <1>0, <2>0, <2>1 DEF Uncatalogued, Catalogued
  <2>3. \A s \in Uncatalogued' : t < s /\ (s \in scan.names \/ \A n \in scan.names : n < s)
    BY <2>0, <2>2 DEF OrderInv, HasFile
  <2>4. watermark' \in {watermark, t} /\ watermark' <= now' + 1
    BY <1>0, <1>7, <2>0 DEF CreateRow, Announce, FileInv, OrderInv
  <2>5. NoFileIsSkipped'
    BY <2>0, <2>2, <2>3, <2>4 DEF OrderInv, NoFileIsSkipped, Uncatalogued
  <2>6. /\ scan'.names = scan.names
        /\ scan'.at \in {"files", "expire"} \/ (scan'.at = "announce" /\ scan'.seg = t)
    <3>1. CASE scan' = Proceed(scan.names)
      BY <1>0, <2>0, <3>1, ProceedFacts
    <3>2. CASE scan' = [scan EXCEPT !.at = "announce"]
      BY <1>0, <3>2 DEF Scans
    <3> QED  BY <1>7, <3>1, <3>2 DEF CreateRow, Announce
  <2>7. \A n \in scan.names : t < n
    BY <2>0 DEF OrderInv, HasFile
  <2> QED  BY <2>3, <2>4, <2>5, <2>6, <2>7 DEF OrderInv, HasFile
<1>8. CASE CatalogueFails
  BY <1>1, <1>2, <1>8 DEF CatalogueFails
<1>9. CASE ListExpired
  BY <1>0, <1>1, <1>9 DEF ListExpired, Scans
<1>10. ASSUME NEW t \in Segments, Expire(t)  PROVE  OrderInv'
  <2>1. /\ scan'.at = "expiring" /\ UNCHANGED <<now, recorded, watermark>>
        /\ deleted' = deleted \cup {t}
        /\ \A s \in Segments : row'[s] = IF s = t THEN "NONE" ELSE row[s]
    BY <1>0, <1>10 DEF Expire, Scans
  <2>2. Catalogued' \subseteq Catalogued
    BY <2>1 DEF Catalogued
  <2> QED  BY <1>0, <2>1, <2>2 DEF OrderInv, NoFileIsSkipped, HasFile
<1>11. CASE EndScan
  BY <1>1, <1>11 DEF EndScan, IdleScan
<1> QED
  BY <1>3, <1>4, <1>5, <1>6, <1>7, <1>8, <1>9, <1>10, <1>11 DEF ScanStep

LEMMA OrderStep ==
    ASSUME ~StatFails, TypeOK, ScanInv, FileInv, OrderInv, Next
    PROVE  OrderInv'
<1> USE DEF world, catalog
<1>0. /\ scan \in Scans /\ now \in Nat /\ recorded \subseteq Segments
      /\ deleted \subseteq recorded /\ watermark \in Int
      /\ \A s \in Segments : s \in Nat
  BY ConstantFacts DEF TypeOK, Segments, Unset
<1>1. CASE ScanStep
  BY <1>1, OrderByScan
<1>2. CASE Crash
  <2>1. UNCHANGED <<now, recorded, deleted, row>> /\ watermark' = -1 /\ scan'.at = "idle"
    BY <1>2 DEF Crash, IdleScan, Unset
  <2>2. \A s \in Segments : -1 < s
    BY <1>0
  <2> QED  BY <1>0, <2>1, <2>2 DEF OrderInv, NoFileIsSkipped, Catalogued, HasFile
<1>3. CASE ~ScanStep /\ ~Crash
  <2>1. /\ UNCHANGED <<scan, deleted, watermark>> /\ recorded \subseteq recorded'
        /\ now <= now' /\ now' <= now + 1
        /\ \A s \in Segments : row'[s] = "NONE" <=> row[s] = "NONE"
        /\ ~PassTime => UNCHANGED <<now, recorded>>
    BY <1>3, OtherSteps
  <2>2. Catalogued' = Catalogued
    BY <2>1 DEF Catalogued
  <2>3. \A s \in recorded' \ recorded : s = now + 2
    BY <1>0, <2>1 DEF PassTime
  <2>4. ASSUME NEW s \in recorded' \ recorded
        PROVE  /\ \A t \in recorded : t < s
               /\ watermark < s
    BY <1>0, <2>3 DEF FileInv, OrderInv
  <2>5. Uncatalogued' \subseteq Uncatalogued \cup (recorded' \ recorded)
    BY <2>1 DEF Uncatalogued, TypeOK
  <2>6. NoFileIsSkipped'
    <3>1. ASSUME NEW s \in recorded' \ deleted', row'[s] = "NONE"
          PROVE  (\A t \in Catalogued : t < s) /\ watermark < s
      <4>1. CASE s \in recorded
        BY <1>0, <2>1, <3>1, <4>1 DEF OrderInv, NoFileIsSkipped
      <4>2. CASE s \notin recorded
        BY <2>4, <4>2 DEF FileInv
      <4> QED  BY <4>1, <4>2
    <3> QED  BY <2>1, <2>2, <3>1 DEF NoFileIsSkipped
  <2>7. watermark' <= now' + 1
    <3>1. now' \in Nat
      BY <1>0, <2>1 DEF PassTime
    <3> QED  BY <1>0, <2>1, <3>1 DEF OrderInv
  <2>8. Scanning => scan.names \subseteq recorded /\ (HasFile => scan.seg \in recorded)
    BY DEF ScanInv
  <2>9. \A s \in recorded' \ recorded : \A n \in recorded : n < s
    BY <2>4
  <2> QED
    BY <2>1, <2>5, <2>6, <2>7, <2>8, <2>9 DEF OrderInv, Scanning, HasFile
<1> QED  BY <1>1, <1>2, <1>3

-------------------------------------------------------------------------------
(* The theorems *)

LEMMA InitInv == Init => IngestInv /\ FinishedInv /\ OrderInv
<1> SUFFICES ASSUME Init  PROVE  IngestInv /\ FinishedInv /\ OrderInv
  OBVIOUS
<1>1. /\ now = 0 /\ recorded = {1} /\ deleted = {} /\ scan = IdleScan /\ promised = {}
      /\ keep = [h \in Handlers |-> IdleCall] /\ watermark = -1
      /\ \A s \in Segments : row[s] = "NONE"
  BY DEF Init, Unset
<1>2. Catalogued = {} /\ Rows("AVAILABLE") = {}
  BY <1>1 DEF Catalogued, Rows
<1>3. TypeOK
  BY InitType
<1>4. ScanInv
  BY <1>1 DEF ScanInv, IdleScan, Scanning, HasFile
<1>5. FileInv
  BY <1>1, <1>2 DEF FileInv
<1>6. CallInv /\ PromiseInv
  BY <1>1 DEF CallInv, IdleCall, PromiseInv
<1>7. AvailableIsAnnounced
  BY <1>2 DEF AvailableIsAnnounced
<1>8. FinishedInv
  BY <1>1 DEF FinishedInv, OnlyFinishedFiles, IdleScan, Scanning, HasFile
<1>9. OrderInv
  BY <1>1, <1>2 DEF OrderInv, NoFileIsSkipped, IdleScan, HasFile
<1> QED  BY <1>3, <1>4, <1>5, <1>6, <1>7, <1>8, <1>9 DEF IngestInv

LEMMA StutterKeeps ==
    ASSUME UNCHANGED vars
    PROVE  /\ IngestInv => IngestInv'
           /\ FinishedInv => FinishedInv'
           /\ OrderInv => OrderInv'
<1> USE DEF vars
<1>1. TypeOK => TypeOK'
  BY DEF TypeOK
<1>2. (ScanInv => ScanInv') /\ (FileInv => FileInv') /\ (CallInv => CallInv')
  BY DEF ScanInv, FileInv, CallInv, Scanning, HasFile, Cutoff, Catalogued
<1>3. (PromiseInv => PromiseInv') /\ (AvailableIsAnnounced => AvailableIsAnnounced')
  BY DEF PromiseInv, WillKeep, NearMotion, AvailableIsAnnounced, Announcing, Rows
<1>4. FinishedInv => FinishedInv'
  BY DEF FinishedInv, OnlyFinishedFiles, Scanning, HasFile
<1>5. OrderInv => OrderInv'
  BY DEF OrderInv, NoFileIsSkipped, Uncatalogued, Catalogued, HasFile
<1> QED  BY <1>1, <1>2, <1>3, <1>4, <1>5 DEF IngestInv

LEMMA IngestStep == IngestInv /\ [Next]_vars => IngestInv'
<1> SUFFICES ASSUME IngestInv, Next  PROVE  IngestInv'
  BY StutterKeeps
<1> QED
  BY TypeStep, ScanInvStep, FileInvStep, CallInvStep, PromiseInvStep, AnnouncedStep DEF IngestInv

(* The scan, the files, the calls of onMotion, the promises and the announcements stay
   consistent with each other. *)
THEOREM IngestIsConsistent == Spec => []IngestInv
<1>1. Init => IngestInv
  BY InitInv
<1> QED  BY <1>1, IngestStep, PTL DEF Spec

(* Types. *)
THEOREM TypeCorrect == Spec => []TypeOK
<1>1. IngestInv => TypeOK
  BY DEF IngestInv
<1> QED  BY <1>1, IngestIsConsistent, PTL

(* segment-ingest.ts:52 (onMotion against expireBufferedSegments): footage that motion
   came near in time is not deleted, for any number of calls that interleave with the
   scan, as long as a call does not outlast the grace for late motion. *)
THEOREM KeptFootage == Spec => []PromisedIsKept
<1>1. IngestInv => PromisedIsKept
  BY DEF IngestInv, PromiseInv, PromisedIsKept
<1> QED  BY <1>1, IngestIsConsistent, PTL

(* recording.segment_created (catalogueFile, onMotion, emitSegmentCreated): no segment
   becomes AVAILABLE unannounced, but for the one that a rejected lookup of its camera
   or a restart catches between its row and its event. *)
THEOREM Announced == Spec => []AvailableIsAnnounced
<1>1. IngestInv => AvailableIsAnnounced
  BY DEF IngestInv
<1> QED  BY <1>1, IngestIsConsistent, PTL

(* segment-ingest.ts:198 (STABLE_AFTER_MS): with any quiet period at all, a row is only
   created for a file that is finished. *)
THEOREM FinishedFiles == QuietPeriod > 0 /\ Spec => []OnlyFinishedFiles
<1> SUFFICES ASSUME QuietPeriod > 0  PROVE  Spec => []OnlyFinishedFiles
  OBVIOUS
<1>1. Init => FinishedInv
  BY InitInv
<1>2. IngestInv /\ FinishedInv /\ [Next]_vars => FinishedInv'
  BY FinishedStep, StutterKeeps DEF IngestInv
<1>3. FinishedInv => OnlyFinishedFiles
  BY DEF FinishedInv
<1> QED  BY <1>1, <1>2, <1>3, IngestIsConsistent, PTL DEF Spec

(* segment-ingest.ts:51 (the watermark): when stat does not fail on a file that exists,
   the scan passes no file over, whatever fails or restarts between two scans. *)
THEOREM NothingSkipped == ~StatFails /\ Spec => []NoFileIsSkipped
<1> SUFFICES ASSUME ~StatFails  PROVE  Spec => []NoFileIsSkipped
  OBVIOUS
<1>1. Init => OrderInv
  BY InitInv
<1>2. IngestInv /\ OrderInv /\ [Next]_vars => OrderInv'
  BY OrderStep, StutterKeeps DEF IngestInv
<1>3. OrderInv => NoFileIsSkipped
  BY DEF OrderInv
<1> QED  BY <1>1, <1>2, <1>3, IngestIsConsistent, PTL DEF Spec
===============================================================================
