-------------------------------- MODULE UserRights --------------------------------
(***************************************************************************)
(* Accounts and the rights of operators, as an administrator edits them    *)
(* (client/src/components/UserManagementModal.tsx) and the server keeps    *)
(* them (users/auth.service.ts).  The window of the editor is closed by    *)
(* rendering nothing: what it knows stays, and its requests go on.  A save *)
(* is two requests, for the grants of cameras and for those of sites.      *)
(*                                                                         *)
(* One camera and one site, and one right on each, stand for the matrix,   *)
(* so a request of a save is one write.  The matrix may have no entry for  *)
(* them: nothing was loaded yet, or the camera is newer than the load.     *)
(* Passwords and sessions are those of Sessions; VIEWER stands for the     *)
(* roles that are granted nothing.                                         *)
(***************************************************************************)
EXTENDS Naturals, FiniteSets

CONSTANTS Accounts,          \* the accounts but the administrator's own
          Slots,             \* bound on the requests under way
          MaxRightsActs,     \* bound on what the administrators do
          MaxRightsFaults,   \* bound on requests that fail
          None

VARIABLES role, granted,     \* the server's accounts, and their grants
          isOpen, users, selectedUser, permissions, isSaving,
          call,              \* what each slot has asked
          whose,             \* history: whose rights the matrix shows
          saved,             \* history: what the save of an account was to leave it when Save
                             \* was clicked, unless a request failed or others wrote since
          rightsActs, rightsFaults

rightsVars == <<role, granted, isOpen, users, selectedUser, permissions, isSaving, call, whose, saved,
                rightsActs, rightsFaults>>
accountVars == <<role, granted>>
shownVars == <<isOpen, users, selectedUser, permissions, isSaving, whose>>

Roles == {"OPERATOR", "VIEWER"}
Lists == [Accounts -> Roles \union {"none"}]
Halves == {"camera", "site"}
Rights == [Halves -> BOOLEAN]
NoRights == [h \in Halves |-> FALSE]
(* What the matrix holds: an entry that is on or off, none, or one that a click has made
   where there was none, which lacks the id of its camera. *)
Entries == {"on", "off", "absent", "unnamed"}
Shown == [Halves -> Entries]
Unloaded == [h \in Halves |-> "absent"]
Kinds == {"list", "loadCamera", "loadSite", "saveCamera", "saveSite", "role", "delete", "create"}
Answers == {"asked", "ok", "refused", "lost"}

RightsTypeOK ==
    /\ role \in Lists /\ granted \in [Accounts -> Rights]
    /\ isOpen \in BOOLEAN /\ users \in Lists /\ isSaving \in BOOLEAN
    /\ selectedUser = None \/ selectedUser \in [id : Accounts, role : Roles]
    /\ permissions \in Shown /\ whose \in [Halves -> Accounts \union {None}]
    /\ \A s \in Slots : call[s] # None => call[s].kind \in Kinds /\ call[s].answer \in Answers
    /\ saved \in [Accounts -> Rights \union {None}]
    /\ rightsActs \in 0..MaxRightsActs /\ rightsFaults \in 0..MaxRightsFaults

RightsInit ==
    /\ role \in Lists
    /\ granted \in {g \in [Accounts -> Rights] : \A a \in Accounts : role[a] = "none" => g[a] = NoRights}
    /\ isOpen = FALSE /\ users = [a \in Accounts |-> "none"] /\ isSaving = FALSE
    /\ selectedUser = None /\ permissions = Unloaded
    /\ call = [s \in Slots |-> None] /\ whose = [h \in Halves |-> None]
    /\ saved = [a \in Accounts |-> None]
    /\ rightsActs = 0 /\ rightsFaults = 0

(* Requests: the calls after one of them is over, or none is, and another is sent. *)
Asked(kind, account, data) == [kind |-> kind, account |-> account, data |-> data, answer |-> "asked"]
Over(s) == [call EXCEPT ![s] = None]
Free(calls) == {s \in Slots : calls[s] = None}
Sends(calls, request) ==
    Free(calls) # {} /\ call' = [calls EXCEPT ![CHOOSE s \in Free(calls) : TRUE] = request]

-------------------------------------------------------------------------------
(* The administrator *)
Act == rightsActs < MaxRightsActs /\ rightsActs' = rightsActs + 1
InEditor == isOpen /\ Act
Selected(r) == selectedUser # None /\ selectedUser.role = r

OpenEditor ==
    /\ ~isOpen /\ Act /\ isOpen' = TRUE
    /\ Sends(call, Asked("list", None, None))
    /\ UNCHANGED <<accountVars, users, selectedUser, permissions, isSaving, whose, saved, rightsFaults>>

OnClose ==
    /\ InEditor /\ isOpen' = FALSE
    /\ UNCHANGED <<accountVars, users, selectedUser, permissions, isSaving, call, whose, saved,
                   rightsFaults>>

(* The rights of an operator are asked for; until they come, the matrix stays as it is. *)
LoadPermissions(a) ==
    /\ InEditor /\ users[a] # "none"
    /\ selectedUser' = [id |-> a, role |-> users[a]]
    /\ IF users[a] = "OPERATOR" THEN Sends(call, Asked("loadCamera", a, None)) ELSE UNCHANGED call
    /\ UNCHANGED <<accountVars, isOpen, users, permissions, isSaving, whose, saved, rightsFaults>>

(* A click on a box.  The boxes of an entry that is absent are empty. *)
Toggled(h, entry) ==
    CASE entry = "off" -> "on"
      [] entry = "absent" -> IF h = "camera" THEN "unnamed" ELSE "on"
      [] entry = "on" -> "off"
      [] OTHER -> entry
TogglePermission(h) ==
    /\ InEditor /\ Selected("OPERATOR")
    /\ permissions' = [permissions EXCEPT ![h] = Toggled(h, @)]
    /\ UNCHANGED <<accountVars, isOpen, users, selectedUser, isSaving, call, whose, saved, rightsFaults>>

(* Mutant: the button is not disabled while a save is under way. *)
MaySaveAgain == Selected("OPERATOR")

(* What a save makes of a grant: cameras are written one by one, and the one that is not in
   the list keeps its grant; the list of sites replaces their grants. *)
Written(h, entry, grant) == IF h = "camera" /\ entry = "absent" THEN grant ELSE entry = "on"
Outcome(a) == [h \in Halves |-> Written(h, permissions[h], granted[a][h])]

(* The save takes the matrix to the account that is selected, whatever comes meanwhile. *)
MaySave == Selected("OPERATOR") /\ ~isSaving
SavePermissions ==
    /\ InEditor /\ MaySave
    /\ isSaving' = TRUE
    /\ saved' = [saved EXCEPT ![selectedUser.id] = Outcome(selectedUser.id)]
    /\ Sends(call, Asked("saveCamera", selectedUser.id, permissions))
    /\ UNCHANGED <<accountVars, isOpen, users, selectedUser, permissions, whose, rightsFaults>>

(* accountAction: another role, or the end of the account. *)
ChangeAccount(kind, r) ==
    /\ InEditor /\ selectedUser # None
    /\ Sends(call, Asked(kind, selectedUser.id, r))
    /\ UNCHANGED <<accountVars, shownVars, saved, rightsFaults>>

CreateUser(a, r) ==
    /\ InEditor /\ role[a] = "none"
    /\ Sends(call, Asked("create", a, r))
    /\ UNCHANGED <<accountVars, shownVars, saved, rightsFaults>>

-------------------------------------------------------------------------------
(* The server *)

(* What it does with a request, and whether it accepts it: the database refuses a grant
   without the id of a camera. *)
Accepts(c) ==
    CASE c.kind = "create" -> role[c.account] = "none"
      [] c.kind = "saveCamera" -> role[c.account] # "none" /\ c.data["camera"] # "unnamed"
      [] c.kind \in {"saveSite", "role", "delete"} -> role[c.account] # "none"
      [] OTHER -> TRUE
Does(c) ==
    CASE c.kind \in {"create", "role"} ->
           role' = [role EXCEPT ![c.account] = c.data] /\ UNCHANGED granted
      [] c.kind = "delete" ->
           /\ role' = [role EXCEPT ![c.account] = "none"]
           /\ granted' = [granted EXCEPT ![c.account] = NoRights]
      [] c.kind \in {"saveCamera", "saveSite"} ->
           LET h == IF c.kind = "saveSite" THEN "site" ELSE "camera"
           IN  granted' = [granted EXCEPT ![c.account][h] = Written(h, c.data[h], @)] /\ UNCHANGED role
      [] OTHER -> UNCHANGED accountVars
Told(c) ==
    CASE c.kind = "list" -> role
      [] c.kind = "loadCamera" -> granted[c.account]["camera"]
      [] c.kind = "loadSite" -> granted[c.account]["site"]
      [] OTHER -> c.data

Unsettled(c, kinds) == IF c.kind \in kinds THEN [saved EXCEPT ![c.account] = None] ELSE saved
Saves == {"saveCamera", "saveSite"}

Serve(s) ==
    /\ call[s] # None /\ call[s].answer = "asked"
    /\ IF Accepts(call[s])
       THEN /\ Does(call[s]) /\ saved' = Unsettled(call[s], {"delete"})
            /\ call' = [call EXCEPT ![s] = [@ EXCEPT !.answer = "ok", !.data = Told(call[s])]]
       ELSE /\ call' = [call EXCEPT ![s].answer = "refused"] /\ saved' = Unsettled(call[s], Saves)
            /\ UNCHANGED accountVars
    /\ UNCHANGED <<shownVars, rightsActs, rightsFaults>>

(* The server fails with a request, or its answer does not arrive, done or not. *)
FailRequest(s) ==
    /\ call[s] # None /\ call[s].answer = "asked"
    /\ rightsFaults < MaxRightsFaults /\ rightsFaults' = rightsFaults + 1
    /\ \E answer \in {"refused", "lost"} :
          /\ call' = [call EXCEPT ![s].answer = answer]
          /\ UNCHANGED accountVars \/ (answer = "lost" /\ Accepts(call[s]) /\ Does(call[s]))
    /\ saved' = Unsettled(call[s], Saves \union {"delete"})
    /\ UNCHANGED <<shownVars, rightsActs>>

(* Another administrator sets a grant. *)
OthersGrant(a, h) ==
    /\ Act /\ role[a] # "none"
    /\ granted' = [granted EXCEPT ![a][h] = ~@]
    /\ saved' = [saved EXCEPT ![a] = None]
    /\ UNCHANGED <<role, shownVars, call, rightsFaults>>

-------------------------------------------------------------------------------
(* What the editor makes of an answer, also when its window is closed. *)
Answered(s, kind) == call[s] # None /\ call[s].kind = kind /\ call[s].answer # "asked"
OnAnswer == UNCHANGED <<accountVars, isOpen, saved, rightsActs, rightsFaults>>

ReceiveList(s) ==
    /\ Answered(s, "list") /\ call' = Over(s)
    /\ users' = IF call[s].answer = "ok" THEN call[s].data ELSE users
    /\ UNCHANGED <<selectedUser, permissions, isSaving, whose>> /\ OnAnswer

(* The matrix shows the rights that came, whoever is selected by now, and none when they
   were refused; the sites are asked for after the cameras. *)
Entry(c) == IF c.answer = "ok" /\ c.data THEN "on" ELSE "off"
ReceiveRights(s, h) ==
    /\ Answered(s, IF h = "site" THEN "loadSite" ELSE "loadCamera")
    /\ IF call[s].answer = "lost" THEN UNCHANGED <<permissions, whose>>
       ELSE /\ permissions' = [permissions EXCEPT ![h] = Entry(call[s])]
            /\ whose' = [whose EXCEPT ![h] = call[s].account]
    /\ IF h = "site" \/ call[s].answer = "lost" THEN call' = Over(s)
       ELSE Sends(Over(s), Asked("loadSite", call[s].account, None))
    /\ UNCHANGED <<users, selectedUser, isSaving>> /\ OnAnswer

ReceiveSave(s, h) ==
    /\ Answered(s, IF h = "site" THEN "saveSite" ELSE "saveCamera")
    /\ IF h = "camera" /\ call[s].answer = "ok"
       THEN Sends(Over(s), Asked("saveSite", call[s].account, call[s].data)) /\ UNCHANGED isSaving
       ELSE call' = Over(s) /\ isSaving' = FALSE
    /\ UNCHANGED <<users, selectedUser, permissions, whose>> /\ OnAnswer

(* The account whose role was changed is selected again, with its new role; when one was
   deleted, none is.  The list follows. *)
ReceiveAccount(s) ==
    /\ \E kind \in {"role", "delete", "create"} : Answered(s, kind)
    /\ IF call[s].answer = "ok"
       THEN /\ Sends(Over(s), Asked("list", None, None))
            /\ selectedUser' = CASE call[s].kind = "role" -> [id |-> call[s].account, role |-> call[s].data]
                                 [] call[s].kind = "delete" -> None
                                 [] OTHER -> selectedUser
       ELSE call' = Over(s) /\ UNCHANGED selectedUser
    /\ UNCHANGED <<users, permissions, isSaving, whose>> /\ OnAnswer

-------------------------------------------------------------------------------
RightsNext ==
    \/ OpenEditor \/ OnClose \/ SavePermissions
    \/ \E a \in Accounts : LoadPermissions(a) \/ \E r \in Roles : CreateUser(a, r)
    \/ \E h \in Halves : TogglePermission(h) \/ \E a \in Accounts : OthersGrant(a, h)
    \/ ChangeAccount("delete", None) \/ \E r \in Roles : ChangeAccount("role", r)
    \/ \E s \in Slots :
         \/ Serve(s) \/ FailRequest(s) \/ ReceiveList(s) \/ ReceiveAccount(s)
         \/ \E h \in Halves : ReceiveRights(s, h) \/ ReceiveSave(s, h)

RightsSpec == RightsInit /\ [][RightsNext]_rightsVars

-------------------------------------------------------------------------------
(* A save is whole.  Once it has ended without an error, and until somebody else writes, the
   account has exactly what the matrix asked for under its name when Save was clicked: of
   sites what was shown, of cameras what was shown too, or, where the matrix had no entry,
   what the account had.  No other save, load, selection or change of a role comes between
   the two requests of a save. *)
SavesAreWhole ==
    ~isSaving => \A a \in Accounts : saved[a] # None => granted[a] = saved[a]

(* The inductive invariant behind it: a save is under way exactly while isSaving, and there
   is one at a time; unless it was given up, the half that is done is in the grants as it was
   to be, and the other one will be. *)
SaveCalls == [kind : Saves, account : Accounts, data : Shown, answer : Answers]
Saving(s) == call[s] # None /\ call[s].kind \in Saves
CallShape(c) ==
    c # None => /\ DOMAIN c = {"kind", "account", "data", "answer"}
                /\ c.kind \in Saves => c \in SaveCalls
                /\ c.kind = "role" => c.account \in Accounts
RightsShape ==
    /\ DOMAIN call = Slots /\ \A s \in Slots : CallShape(call[s])
    /\ granted \in [Accounts -> Rights] /\ saved \in [Accounts -> Rights \union {None}]
    /\ permissions \in Shown /\ isSaving \in BOOLEAN
    /\ selectedUser = None \/ selectedUser.id \in Accounts
OneSave ==
    /\ isSaving <=> \E s \in Slots : Saving(s)
    /\ \A s, t \in Slots : Saving(s) /\ Saving(t) => s = t
(* What a save has done once it was accepted. *)
Half(c) == IF c.kind = "saveSite" THEN "site" ELSE "camera"
HalfIsDone(c, h) == IF h = Half(c) THEN c.answer = "ok" ELSE h = "camera"
Leaves(c, h) == IF HalfIsDone(c, h) THEN granted[c.account][h]
                ELSE Written(h, c.data[h], granted[c.account][h])
SavesWhatWasAsked(c) ==
    saved[c.account] # None =>
        /\ c.answer \in {"asked", "ok"}
        /\ \A h \in Halves : Leaves(c, h) = saved[c.account][h]
SaveIsUnderWay ==
    /\ \A s \in Slots : Saving(s) => SavesWhatWasAsked(call[s])
    /\ \A a \in Accounts : saved[a] # None =>
          granted[a] = saved[a] \/ \E s \in Slots : Saving(s) /\ call[s].account = a
RightsInv == RightsShape /\ OneSave /\ SaveIsUnderWay

(* .planning/phases/08-operator-role-granular-rbac/08-02-PLAN.md:88: "When selecting an
   OPERATOR, renders a camera permission matrix: Fetches all cameras and user's
   permissions".  Once every answer is there, the matrix of an operator does not show the
   rights of another account, for a save to give them to this one.  It does: answers of a
   former selection come late, and a viewer made an operator has the matrix that is there. *)
MatrixIsOfTheSelected ==
    (\A s \in Slots : call[s] = None) /\ rightsFaults = 0 /\ Selected("OPERATOR")
        => \A h \in Halves : whose[h] \in {selectedUser.id, None}

(* What does not hold: that a save gives an account what the boxes show.  Before its rights
   were loaded they are all empty, and Save may be clicked: it is answered well and leaves
   the grants of cameras as they were (setUserPermissions changes only those listed), and
   takes those of sites away. *)
SavesGiveWhatIsShown ==
    isOpen /\ MaySave /\ permissions["camera"] # "unnamed"
        => \A h \in Halves : Outcome(selectedUser.id)[h] = (permissions[h] = "on")
===================================================================================
