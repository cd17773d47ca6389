------------------------------ MODULE MotionZones ------------------------------
(***************************************************************************)
(* The motion zones of one camera (zones/motion-zone.service.ts), the      *)
(* cache the spatial filter keeps of them (zones/spatial-motion-filter.ts) *)
(* and the ONVIF events it lets through (events/onvif-events.service.ts).  *)
(*                                                                         *)
(* The cache is filled by whoever lists or changes the zones and by nobody *)
(* else: a process that has just started filters nothing.  When the        *)
(* database refuses, the zones this process has written take the place of  *)
(* the rows, for the answer and for the cache; a change it refuses is      *)
(* answered as done all the same.                                          *)
(*                                                                         *)
(* Coordinates are integers: the frame is a grid whose cells are 2 wide,   *)
(* so that a centroid is a point with odd coordinates.                     *)
(***************************************************************************)
EXTENDS Integers, Sequences, FiniteSets

CONSTANTS Zones,         \* ids a zone may be given
          Requests,      \* bound: requests served at the same time
          Polygons, Cells,
          MaxChanges,    \* bound: requests that change the zones
          MaxDbFaults,   \* bound: statements the database refuses
          MaxBoots,      \* bound: restarts
          None

VARIABLES rows,          \* the table: a zone of each id, or None
          memoryZones,   \* the zones this process has written
          cameraZonesCache,  \* what the filter holds, None when nobody has filled it
          request,       \* the request being served
          fresh,         \* history: the requests whose list no change of the table has overtaken
          doubt,         \* history: the list in the filter is not of the table, or older than
                         \* the last change of it
          changes, dbFaults, boots

zonesVars == <<rows, memoryZones, cameraZonesCache, request, fresh, doubt, changes, dbFaults, boots>>

ZoneTypes == {"INCLUSION", "EXCLUSION"}
Zone == [id : Zones, zoneType : ZoneTypes, enabled : BOOLEAN, coordinates : Polygons]
Kinds == {"list", "create", "update", "delete"}
Steps == {"find", "write", "list", "set"}

ZonesTypeOK ==
    /\ \A z \in Zones : rows[z] \in Zone \union {None} /\ memoryZones[z] \in Zone \union {None}
    /\ cameraZonesCache = None \/ cameraZonesCache \subseteq Zone
    /\ \A r \in Requests : request[r] # None =>
          request[r].kind \in Kinds /\ request[r].step \in Steps
    /\ fresh \subseteq Requests /\ doubt \in BOOLEAN
    /\ changes \in 0..MaxChanges /\ dbFaults \in 0..MaxDbFaults /\ boots \in 0..MaxBoots

NoZones == [z \in Zones |-> None]
ZonesInit ==
    /\ rows = NoZones /\ memoryZones = NoZones /\ cameraZonesCache = None
    /\ request = [r \in Requests |-> None]
    /\ fresh = {} /\ doubt = FALSE
    /\ changes = 0 /\ dbFaults = 0 /\ boots = 0

ZonesOf(table) == {table[z] : z \in Zones} \ {None}
Quiet == \A r \in Requests : request[r] = None

(* Ray casting: how many edges a ray to the right of the point crosses. *)
Crosses(point, a, b) ==
    /\ (a[2] > point[2]) # (b[2] > point[2])
    /\ IF b[2] > a[2] THEN (point[1] - a[1]) * (b[2] - a[2]) < (b[1] - a[1]) * (point[2] - a[2])
       ELSE (point[1] - a[1]) * (b[2] - a[2]) > (b[1] - a[1]) * (point[2] - a[2])

Following(i, polygon) == polygon[(i % Len(polygon)) + 1]
IsPointInPolygon(point, polygon) ==
    Cardinality({i \in DOMAIN polygon : Crosses(point, polygon[i], Following(i, polygon))}) % 2 = 1

Matched(point, zones, type) ==
    {z \in zones : z.enabled /\ z.zoneType = type /\ IsPointInPolygon(point, z.coordinates)}

EvaluateMotionPoint(point, zones) ==
    /\ Matched(point, zones, "EXCLUSION") = {}
    /\ \/ \A z \in zones : z.enabled => z.zoneType = "EXCLUSION"
       \/ Matched(point, zones, "INCLUSION") # {}

EvaluateCellGrid(activeCells, zones) == \E cell \in activeCells : EvaluateMotionPoint(cell, zones)

GetCameraZones == IF cameraZonesCache = None THEN {} ELSE cameraZonesCache

(* processEvents: an event is sent on without coordinates, or when they pass. *)
Emitted(active) ==
    active = {} \/ GetCameraZones = {} \/ EvaluateCellGrid(active, GetCameraZones)

(* A request arrives. *)
Begin(r, kind, step, zone, change) ==
    /\ request[r] = None
    /\ IF kind = "list" THEN UNCHANGED changes ELSE changes < MaxChanges /\ changes' = changes + 1
    /\ request' = [request EXCEPT ![r] =
           [kind |-> kind, step |-> step, zone |-> zone, change |-> change, got |-> None]]
    /\ UNCHANGED <<rows, cameraZonesCache, fresh, doubt, dbFaults, boots>>

ListZones(r) == Begin(r, "list", "list", None, None) /\ UNCHANGED memoryZones

(* createZone keeps the zone in memory before it asks the database. *)
CreateZone(r, zone) ==
    /\ rows[zone.id] = None /\ memoryZones[zone.id] = None
    /\ ~\E q \in Requests : request[q] # None /\ request[q].zone = zone.id
    /\ Begin(r, "create", "write", zone.id, zone)
    /\ memoryZones' = [memoryZones EXCEPT ![zone.id] = zone]

UpdateZone(r, z, change) == Begin(r, "update", "find", z, change) /\ UNCHANGED memoryZones
DeleteZone(r, z) == Begin(r, "delete", "find", z, None) /\ UNCHANGED memoryZones

At(r, step) == request[r] # None /\ request[r].step = step
Goes(r, step, got) == request' = [request EXCEPT ![r].step = step, ![r].got = got]
Ends(r) == request' = [request EXCEPT ![r] = None]

(* A statement is answered, or refused while the bound lasts. *)
Answers == UNCHANGED dbFaults
Refuses == dbFaults < MaxDbFaults /\ dbFaults' = dbFaults + 1

(* getZone, and what the handler does with it before its next statement: a zone that is
   not there ends the request; an update is made of the zone that was read. *)
Apply(zone, change) == [zone EXCEPT ![change.field] = change.newValue]
GetZone(r) ==
    LET z == request[r].zone
        kind == request[r].kind
    IN  /\ At(r, "find")
        /\ \E found \in {rows[z], memoryZones[z]} :
              /\ \/ Answers /\ found = rows[z]
                 \/ Refuses /\ found = memoryZones[z]
              /\ IF found = None
                 THEN Ends(r) /\ UNCHANGED memoryZones
                 ELSE LET updated == IF kind = "delete" THEN None ELSE Apply(found, request[r].change)
                      IN  /\ Goes(r, "write", updated)
                          /\ memoryZones' = [memoryZones EXCEPT ![z] = updated]
        /\ UNCHANGED <<rows, cameraZonesCache, fresh, doubt, changes, boots>>

(* The statement that changes the row; every failure of it is swallowed. *)
Changed(r) ==
    LET z == request[r].zone
        kind == request[r].kind
        row == IF kind = "create" THEN request[r].change ELSE request[r].got
    IN  IF kind # "create" /\ rows[z] = None THEN rows ELSE [rows EXCEPT ![z] = row]

(* Whatever the other requests have read is older than a table that has changed. *)
Overtaken(r) == IF Changed(r) = rows THEN fresh ELSE {}

(* Mutant: the filter is left as it was when the change is made. *)
WriteWithoutRefresh(r) ==
    /\ At(r, "write")
    /\ Answers /\ rows' = Changed(r) /\ fresh' = Overtaken(r)
    /\ Ends(r)
    /\ UNCHANGED <<memoryZones, cameraZonesCache, doubt, changes, boots>>

Write(r) ==
    /\ At(r, "write")
    /\ \/ Answers /\ rows' = Changed(r) /\ fresh' = Overtaken(r)
       \/ Refuses /\ UNCHANGED <<rows, fresh>>
    /\ Goes(r, "list", None)
    /\ UNCHANGED <<memoryZones, cameraZonesCache, doubt, changes, boots>>

(* listZones: the table is read, and the answer is put in the cache when it comes; a
   table that cannot be read is replaced by the memory, at once.  refreshCameraCache puts
   the same answer there once more right after. *)
FindMany(r) ==
    /\ At(r, "list")
    /\ Answers /\ Goes(r, "set", ZonesOf(rows)) /\ fresh' = fresh \union {r}
    /\ UNCHANGED <<rows, memoryZones, cameraZonesCache, doubt, changes, boots>>

SetCameraZones(r) ==
    /\ At(r, "set")
    /\ cameraZonesCache' = request[r].got /\ doubt' = (r \notin fresh)
    /\ Ends(r) /\ fresh' = fresh \ {r}
    /\ UNCHANGED <<rows, memoryZones, changes, dbFaults, boots>>

InMemoryFallback(r) ==
    /\ At(r, "list")
    /\ Refuses /\ cameraZonesCache' = ZonesOf(memoryZones) /\ doubt' = TRUE
    /\ Ends(r)
    /\ UNCHANGED <<rows, memoryZones, fresh, changes, boots>>

(* The process starts again: its memory, its cache and its requests are gone. *)
Restart ==
    /\ boots < MaxBoots /\ boots' = boots + 1
    /\ memoryZones' = NoZones /\ cameraZonesCache' = None /\ fresh' = {} /\ doubt' = FALSE
    /\ request' = [r \in Requests |-> None]
    /\ UNCHANGED <<rows, changes, dbFaults>>

Changes == [field : {"enabled"}, newValue : BOOLEAN] \union [field : {"coordinates"}, newValue : Polygons]
ZonesNext ==
    \/ Restart
    \/ \E r \in Requests :
          \/ ListZones(r) \/ GetZone(r) \/ Write(r) \/ FindMany(r) \/ SetCameraZones(r)
          \/ InMemoryFallback(r)
          \/ \E zone \in Zone : CreateZone(r, zone)
          \/ \E z \in Zones : DeleteZone(r, z) \/ \E change \in Changes : UpdateZone(r, z, change)

ZonesSpec == ZonesInit /\ [][ZonesNext]_zonesVars

(* Strictly inside a convex polygon: on the same side of every edge. *)
Side(point, a, b) == (b[1] - a[1]) * (point[2] - a[2]) - (b[2] - a[2]) * (point[1] - a[1])
Inside(point, polygon) ==
    LET sides == {Side(point, polygon[i], Following(i, polygon)) : i \in DOMAIN polygon}
    IN  (\A s \in sides : s > 0) \/ (\A s \in sides : s < 0)

(* The truth table of the filter: whatever event comes next, its motion is suppressed
   exactly when the camera said where it was and every active cell is inside an enabled
   exclusion or outside every one of the enabled inclusions there are. *)
VerdictsFollowTheTable ==
    LET enabled == {z \in GetCameraZones : z.enabled}
        inclusions == {z \in enabled : z.zoneType = "INCLUSION"}
        Blocked(cell) ==
            \/ \E z \in enabled \ inclusions : Inside(cell, z.coordinates)
            \/ inclusions # {} /\ \A z \in inclusions : ~Inside(cell, z.coordinates)
    IN  \A active \in SUBSET Cells :
            ~Emitted(active) <=> active # {} /\ \A cell \in active : Blocked(cell)

(* Once nothing is being served the filter holds the zones of the table: every change of the
   table is followed by a list of it that reaches the filter, whatever else is served
   meanwhile.  Excepted are a list that was read before the change and arrives after the
   one that was read behind it, a table that could not be read, and a process in which
   nobody has listed the zones since it started.  Of what was answered this says nothing:
   a change the database refuses is answered as done and leaves the old zones in the table
   and in the filter (WritesAreKept below). *)
FilterIsCurrent == Quiet /\ ~doubt /\ cameraZonesCache # None => cameraZonesCache = ZonesOf(rows)

(* The inductive invariant behind both.  A request whose answer no change has overtaken brings
   what the table holds; until its list is there, only a request that has written may have
   left the filter behind the table. *)
Served == [kind : Kinds, step : Steps, zone : Zones \union {None},
           change : Zone \union Changes \union {None},
           got : {None} \union Zone \union SUBSET Zone]
ServedRight(call) ==
    /\ call = [kind |-> call.kind, step |-> call.step, zone |-> call.zone, change |-> call.change,
               got |-> call.got]
    /\ call.kind \in Kinds /\ call.step \in Steps
    /\ call.step = "find" => call.kind \in {"update", "delete"}
    /\ call.zone \in IF call.kind = "list" THEN {None} ELSE Zones
    /\ call.change \in CASE call.kind = "create" -> Zone [] call.kind = "update" -> Changes
                         [] OTHER -> {None}
    /\ call.got \in CASE call.step = "set" -> SUBSET Zone
                      [] call.step = "write" /\ call.kind # "create" -> Zone \union {None}
                      [] OTHER -> {None}

ZonesInv ==
    /\ rows \in [Zones -> Zone \union {None}] /\ memoryZones \in [Zones -> Zone \union {None}]
    /\ cameraZonesCache \in {None} \union SUBSET Zone
    /\ DOMAIN request = Requests /\ \A r \in Requests : request[r] # None => ServedRight(request[r])
    /\ fresh \subseteq Requests
    /\ \A r \in fresh : At(r, "set") /\ request[r].got = ZonesOf(rows)
    /\ ~doubt /\ cameraZonesCache # None =>
          \/ cameraZonesCache = ZonesOf(rows)
          \/ \E r \in Requests : request[r] # None /\ request[r].step \in {"list", "set"}

(* What does not hold.  The comment on setCameraZones promises that changes take effect on the
   events that follow: whoever else is listing and whenever the process was started. *)
ChangesTakeEffect == Quiet => GetCameraZones = ZonesOf(rows)

(* What was answered as done is in the table: every catch of the service swallows a refused
   statement, and the memory it falls back to is asked only while the table cannot be. *)
WritesAreKept == Quiet /\ boots = 0 => rows = memoryZones
================================================================================
