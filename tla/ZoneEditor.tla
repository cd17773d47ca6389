------------------------------- MODULE ZoneEditor -------------------------------
(***************************************************************************)
(* The editor of a camera's motion zones                                   *)
(* (client/src/components/MotionZoneEditorModal.tsx).  Its fetchZones      *)
(* depends on the selected zone, so every change of the selection is a new *)
(* fetchZones, and the effect that depends on fetchZones asks for the list *)
(* again and drops what is being drawn or tested.                          *)
(*                                                                         *)
(* Zones are numbered in the order they are created, which is the order of *)
(* the list.  The type, the name and the place of a zone are left out: the *)
(* shape counts how often it was moved.                                    *)
(***************************************************************************)
EXTENDS Naturals, FiniteSets

CONSTANTS MaxZones,      \* bound: zones ever created
          Slots,         \* bound: requests in flight
          MinVertices, MaxVertices,
          MaxActs,       \* bound: what the user does
          MaxEditorFaults,  \* bound: requests that fail
          None

VARIABLES rows, created,     \* the server's zones, and how many were ever created
          isOpen,
          zones, selectedZoneId, editorMode, drawingPoints, draggingVertex,
          testPoint, testResult,
          call,              \* what each slot has asked
          acts, editorFaults

editorVars == <<rows, created, isOpen, zones, selectedZoneId, editorMode, drawingPoints,
                draggingVertex, testPoint, testResult, call, acts, editorFaults>>
drawingVars == <<editorMode, drawingPoints, testPoint, testResult>>
shownVars == <<zones, selectedZoneId, draggingVertex, drawingVars>>
serverVars == <<rows, created, editorFaults>>

ZoneIds == 1..MaxZones
OrNone(S) == S \union {None}
Row == [enabled : BOOLEAN, shape : 0..MaxActs]
NoTable == [z \in {} |-> None]
Modes == {"SELECT", "DRAW", "TEST_POINT"}
Kinds == {"list", "create", "put", "delete", "test"}

EditorTypeOK ==
    /\ DOMAIN rows \subseteq ZoneIds /\ \A z \in DOMAIN rows : rows[z] \in Row
    /\ DOMAIN zones \subseteq ZoneIds /\ \A z \in DOMAIN zones : zones[z] \in Row
    /\ created \in 0..MaxZones /\ isOpen \in BOOLEAN
    /\ selectedZoneId \in OrNone(ZoneIds) /\ editorMode \in Modes
    /\ drawingPoints \in 0..MaxVertices /\ draggingVertex \in BOOLEAN
    /\ testPoint \in OrNone(1..MaxActs) /\ testResult \in OrNone(1..MaxActs)
    /\ \A s \in Slots : call[s] # None => call[s].kind \in Kinds
    /\ acts \in 0..MaxActs /\ editorFaults \in 0..MaxEditorFaults

EditorInit ==
    /\ rows = NoTable /\ created = 0 /\ isOpen = FALSE
    /\ zones = NoTable /\ selectedZoneId = None /\ editorMode = "SELECT" /\ drawingPoints = 0
    /\ draggingVertex = FALSE /\ testPoint = None /\ testResult = None
    /\ call = [s \in Slots |-> None]
    /\ acts = 0 /\ editorFaults = 0

(* A request, with the selection its handler closed over. *)
Call(kind, zone, value) ==
    [kind |-> kind, zone |-> zone, value |-> value, selected |-> selectedZoneId, answer |-> "asked",
     data |-> None]

(* The requests after some of them are over and others are sent. *)
Sends(over, sent) ==
    LET free == {s \in Slots : call[s] = None} \union over
    IN  /\ Cardinality(free) >= Cardinality(sent)
        /\ \E place \in [sent -> free] :
              /\ \A c, d \in sent : place[c] = place[d] => c = d
              /\ call' = [s \in Slots |->
                    IF \E c \in sent : place[c] = s THEN CHOOSE c \in sent : place[c] = s
                    ELSE IF s \in over THEN None ELSE call[s]]

Act == acts < MaxActs /\ acts' = acts + 1
InEditor == isOpen /\ Act

(* Mutant: fetchZones is not memoised, and every render has another. *)
FetchIsNew(selected) == TRUE

(* Whether the render that follows has another fetchZones, and runs the effect again. *)
FetchChanged(selected) == selected # selectedZoneId

(* The state is set, and the effect follows when fetchZones has changed: it overrides the
   mode and the drawing the handler has just set.  Its request closes over the new selection. *)
Render(over, sent, selected, table, mode, points, test, result) ==
    /\ selectedZoneId' = selected /\ zones' = table
    /\ IF FetchChanged(selected)
       THEN /\ editorMode' = "SELECT" /\ drawingPoints' = 0 /\ testPoint' = None /\ testResult' = None
            /\ Sends(over, sent \union {[Call("list", None, None) EXCEPT !.selected = selected]})
       ELSE /\ editorMode' = mode /\ drawingPoints' = points /\ testPoint' = test /\ testResult' = result
            /\ Sends(over, sent)

Shows(over, sent, selected, table) ==
    Render(over, sent, selected, table, editorMode, drawingPoints, testPoint, testResult)

(* The editor is mounted when it opens, and everything in it is new. *)
OpenEditor ==
    /\ ~isOpen /\ Act /\ isOpen' = TRUE
    /\ zones' = NoTable /\ selectedZoneId' = None /\ draggingVertex' = FALSE
    /\ editorMode' = "SELECT" /\ drawingPoints' = 0 /\ testPoint' = None /\ testResult' = None
    /\ Sends({}, {[Call("list", None, None) EXCEPT !.selected = None]})
    /\ UNCHANGED serverVars

(* The answers of an editor that was closed are for nobody; what they asked still happens. *)
OnClose ==
    /\ InEditor /\ isOpen' = FALSE
    /\ call' = [s \in Slots |-> IF call[s] = None \/ call[s].answer # "asked" THEN None
                                ELSE [call[s] EXCEPT !.answer = "closed"]]
    /\ UNCHANGED <<shownVars, serverVars>>

FetchZones == InEditor /\ Sends({}, {Call("list", None, None)}) /\ UNCHANGED <<isOpen, shownVars, serverVars>>

(* The buttons of the toolbar; those that draw also drop the selection. *)
ChooseMode(mode) ==
    /\ InEditor
    /\ Render({}, {}, IF mode = "DRAW" THEN None ELSE selectedZoneId, zones, mode, 0,
              IF mode = "TEST_POINT" THEN None ELSE testPoint,
              IF mode = "TEST_POINT" THEN None ELSE testResult)
    /\ UNCHANGED <<isOpen, draggingVertex, serverVars>>

(* A click on the canvas, which may be close to the first vertex. *)
AddVertex ==
    /\ InEditor /\ editorMode = "DRAW" /\ drawingPoints < MaxVertices
    /\ drawingPoints' = drawingPoints + 1
    /\ UNCHANGED <<isOpen, zones, selectedZoneId, draggingVertex, editorMode, testPoint, testResult,
                   call, serverVars>>

FinalizeNewZone ==
    /\ InEditor /\ editorMode = "DRAW" /\ drawingPoints >= MinVertices
    /\ created + Cardinality({s \in Slots : call[s] # None /\ call[s].kind = "create"}) < MaxZones
    /\ Sends({}, {Call("create", None, None)})
    /\ UNCHANGED <<isOpen, shownVars, serverVars>>

TestClick ==
    /\ InEditor /\ editorMode = "TEST_POINT"
    /\ testPoint' = acts + 1
    /\ Sends({}, {Call("test", None, acts + 1)})
    /\ UNCHANGED <<isOpen, zones, selectedZoneId, draggingVertex, editorMode, drawingPoints, testResult,
                   serverVars>>

(* A zone is selected in the list, or on the canvas, which also ends drawing. *)
SelectZone(z) ==
    /\ InEditor /\ z \in DOMAIN zones
    /\ \E mode \in {editorMode, "SELECT"} :
          Render({}, {}, z, zones, mode, drawingPoints, testPoint, testResult)
    /\ UNCHANGED <<isOpen, draggingVertex, serverVars>>

Selected == selectedZoneId \in DOMAIN zones
VertexDown ==
    /\ InEditor /\ editorMode = "SELECT" /\ Selected /\ ~draggingVertex
    /\ draggingVertex' = TRUE
    /\ UNCHANGED <<isOpen, zones, selectedZoneId, drawingVars, call, serverVars>>

VertexMove ==
    /\ InEditor /\ draggingVertex /\ Selected
    /\ zones' = [zones EXCEPT ![selectedZoneId].shape = acts + 1]
    /\ UNCHANGED <<isOpen, selectedZoneId, draggingVertex, drawingVars, call, serverVars>>

(* The whole polygon is saved; without a selection the drag goes on. *)
VertexUp ==
    /\ InEditor /\ draggingVertex /\ selectedZoneId # None
    /\ draggingVertex' = FALSE
    /\ Sends({}, IF Selected THEN {Call("put", selectedZoneId,
                                   [field |-> "shape", is |-> zones[selectedZoneId].shape])} ELSE {})
    /\ UNCHANGED <<isOpen, zones, selectedZoneId, drawingVars, serverVars>>

HandleToggleZoneEnabled(z) ==
    /\ InEditor /\ z \in DOMAIN zones
    /\ zones' = [zones EXCEPT ![z].enabled = ~@]
    /\ Sends({}, {Call("put", z, [field |-> "enabled", is |-> ~zones[z].enabled])})
    /\ UNCHANGED <<isOpen, selectedZoneId, draggingVertex, drawingVars, serverVars>>

HandleDeleteZone(z) ==
    /\ InEditor /\ z \in DOMAIN zones
    /\ Sends({}, {Call("delete", z, None)})
    /\ UNCHANGED <<isOpen, shownVars, serverVars>>

(* The server answers; an answer to a closed editor goes to nobody. *)
Pending(s) == call[s] # None /\ call[s].answer \in {"asked", "closed"}
Answered(s, answer, data) ==
    call' = [call EXCEPT ![s] = IF @.answer = "closed" THEN None
                                ELSE [@ EXCEPT !.answer = answer, !.data = data]]
Serve(s) ==
    LET c == call[s]
    IN  /\ Pending(s)
        /\ CASE c.kind \in {"list", "test"} ->
                  /\ Answered(s, "ok", IF c.kind = "list" THEN rows ELSE c.value)
                  /\ UNCHANGED <<rows, created>>
             [] c.kind = "create" ->
                  /\ created < MaxZones /\ created' = created + 1
                  /\ rows' = [z \in DOMAIN rows \union {created + 1} |->
                                 IF z = created + 1 THEN [enabled |-> TRUE, shape |-> 0] ELSE rows[z]]
                  /\ Answered(s, "ok", created + 1)
             [] c.kind \in {"put", "delete"} /\ c.zone \notin DOMAIN rows ->
                  Answered(s, "refused", None) /\ UNCHANGED <<rows, created>>
             [] c.kind = "put" /\ c.zone \in DOMAIN rows ->
                  /\ rows' = [rows EXCEPT ![c.zone] = IF c.value.field = "shape"
                                 THEN [@ EXCEPT !.shape = c.value.is] ELSE [@ EXCEPT !.enabled = c.value.is]]
                  /\ Answered(s, "ok", None) /\ UNCHANGED created
             [] c.kind = "delete" /\ c.zone \in DOMAIN rows ->
                  /\ rows' = [z \in DOMAIN rows \ {c.zone} |-> rows[z]]
                  /\ Answered(s, "ok", None) /\ UNCHANGED created
        /\ UNCHANGED <<isOpen, shownVars, acts, editorFaults>>

(* The server refuses, or is not reached. *)
Fails(s) ==
    /\ Pending(s) /\ editorFaults < MaxEditorFaults /\ editorFaults' = editorFaults + 1
    /\ \E answer \in {"refused", "lost"} : Answered(s, answer, None)
    /\ UNCHANGED <<rows, created, isOpen, shownVars, acts>>

(* fetchZones: the list is shown, and its first zone selected when none was selected by the
   render that asked. *)
FirstOf(table) == CHOOSE z \in DOMAIN table : \A y \in DOMAIN table : z <= y
Listed(s, c) ==
    IF c.answer # "ok" THEN Shows({s}, {}, selectedZoneId, zones)
    ELSE Shows({s}, {}, IF c.selected = None /\ DOMAIN c.data # {} THEN FirstOf(c.data)
                        ELSE selectedZoneId, c.data)

Saved(s, c) ==
    IF c.answer # "ok" THEN Shows({s}, {}, selectedZoneId, zones)
    ELSE Render({s}, {}, c.data,
                [z \in DOMAIN zones \union {c.data} |->
                    IF z = c.data THEN [enabled |-> TRUE, shape |-> 0] ELSE zones[z]],
                "SELECT", 0, testPoint, testResult)

Removed(s, c) ==
    IF c.answer # "ok" THEN Shows({s}, {}, selectedZoneId, zones)
    ELSE Shows({s}, {}, IF c.selected = c.zone THEN None ELSE selectedZoneId,
               [z \in DOMAIN zones \ {c.zone} |-> zones[z]])

(* A refused update is not noticed; a lost toggle asks for the list again, with the
   fetchZones of the render that was clicked and so with the selection of then. *)
Updated(s, c) ==
    Shows({s},
          IF c.answer = "lost" /\ c.value.field = "enabled"
          THEN {[Call("list", None, None) EXCEPT !.selected = c.selected]} ELSE {},
          selectedZoneId, zones)

Tested(s, c) ==
    Render({s}, {}, selectedZoneId, zones, editorMode, drawingPoints, testPoint,
           IF c.answer = "ok" THEN c.data ELSE testResult)

Receive(s) ==
    LET c == call[s]
    IN  /\ c # None /\ c.answer \in {"ok", "refused", "lost"}
        /\ CASE c.kind = "list" -> Listed(s, c)
             [] c.kind = "create" -> Saved(s, c)
             [] c.kind = "delete" -> Removed(s, c)
             [] c.kind = "put" -> Updated(s, c)
             [] c.kind = "test" -> Tested(s, c)
        /\ UNCHANGED <<isOpen, draggingVertex, acts, serverVars>>

EditorNext ==
    \/ OpenEditor \/ OnClose \/ FetchZones
    \/ \E mode \in Modes : ChooseMode(mode)
    \/ AddVertex \/ FinalizeNewZone \/ TestClick
    \/ \E z \in ZoneIds : SelectZone(z) \/ HandleToggleZoneEnabled(z) \/ HandleDeleteZone(z)
    \/ VertexDown \/ VertexMove \/ VertexUp
    \/ \E s \in Slots : Serve(s) \/ Fails(s) \/ Receive(s)

(* The server answers, and React runs the handlers of the answers. *)
EditorFairness == \A s \in Slots : WF_editorVars(Serve(s)) /\ WF_editorVars(Receive(s))

EditorSpec == EditorInit /\ [][EditorNext]_editorVars /\ EditorFairness

(* When the user stops, so does the editor: the selection a list makes asks for one more
   list, which makes no other selection. *)
EditorSettles == <>[](\A s \in Slots : call[s] = None)

(* The vertices of a drawing are dropped by the user, by its own saving, or never. *)
DrawingIsTheUsers ==
    [][drawingPoints' < drawingPoints =>
         \/ acts' # acts
         \/ \E s \in Slots : call[s] # None /\ call[s].kind = "create" /\ call[s].answer = "ok"]_editorVars

(* By hand: one drawing makes one zone; the result that is shown is of the point that is
   shown; with nothing in flight and no fault the editor shows what is saved. *)
OneZonePerDrawing ==
    \A s, t \in Slots : call[s] # None /\ call[t] # None /\ call[s].kind = "create"
                        /\ call[t].kind = "create" => s = t
ResultIsOfPoint == testResult # None => testResult = testPoint
ShownIsSaved == isOpen /\ editorFaults = 0 /\ ~draggingVertex /\ (\A s \in Slots : call[s] = None)
                   => zones = rows
================================================================================
