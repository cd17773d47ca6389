----------------------------- MODULE BackupRestore -----------------------------
(***************************************************************************)
(* The archive of the configuration and its restore                        *)
(* (system/backup.service.ts).  createBackup reads the tables side by side *)
(* and outside a transaction, while administrators go on writing; a        *)
(* restore is one PostgreSQL transaction, in which the first statement     *)
(* that fails makes every later one fail and the commit undo everything,   *)
(* although the code catches the error of each record and goes on.         *)
(*                                                                         *)
(* Four of the ten tables stand for all: a site and a user refer to        *)
(* nothing, a camera to a site or to none, a permission to a user and a    *)
(* site (the grants of cameras are alike).  Of a row only what is unique   *)
(* and what refers to other rows is kept: the name of a site, of a user,   *)
(* the media path of a camera, the pair of a permission.                   *)
(***************************************************************************)
EXTENDS Naturals, FiniteSets

CONSTANTS Names,      \* names of sites and users, media paths
          MaxWrites,  \* bound: changes by administrators
          None

VARIABLES db,         \* the rows of each table, by id
          idsGiven,      \* the ids each table has ever given to a row
          reading,    \* what createBackup has read: a table, or None
          archive,    \* the finished archive, or None
          torn,       \* a row changed between two reads of that archive
          restore,    \* the last restore: its mode, what it met, its answer
          writes

restoreVars == <<db, idsGiven, reading, archive, torn, restore, writes>>

Tables == {"site", "user", "camera", "permission"}
Ids == {1, 2}
Values(t) == CASE t = "camera" -> [path : Names, site : Ids \union {None}]
               [] t = "permission" -> [user : Ids, site : Ids]
               [] OTHER -> Names
(* The columns no two rows share, and the rows a row refers to. *)
Unique(t, value) == IF t = "camera" THEN value.path ELSE value
References(t, value) ==
    CASE t = "camera" -> IF value.site = None THEN {} ELSE {<<"site", value.site>>}
      [] t = "permission" -> {<<"user", value.user>>, <<"site", value.site>>}
      [] OTHER -> {}

Content(t) == [Ids -> Values(t) \union {None}]
IsDatabase(d) == d = [t \in Tables |-> d[t]] /\ \A t \in Tables : d[t] \in Content(t)

RestoreTypeOK ==
    /\ IsDatabase(db) /\ idsGiven \in [Tables -> SUBSET Ids]
    /\ reading # None => /\ reading = [t \in Tables |-> reading[t]]
                         /\ \A t \in Tables : reading[t] \in Content(t) \union {None}
    /\ archive # None => IsDatabase(archive)
    /\ torn \in BOOLEAN /\ writes \in 0..MaxWrites
    /\ restore # None => restore.ok \in BOOLEAN

(* What the constraints of the database let a row of id with this value meet. *)
HasKey(d, t, id, value) == d[t][id] # None /\ Unique(t, d[t][id]) = Unique(t, value)
KeyIsFree(d, t, id, value) == \A other \in Ids \ {id} : ~HasKey(d, t, other, value)
ReferencesExist(d, t, value) == \A r \in References(t, value) : d[r[1]][r[2]] # None
Accepts(d, t, id, value) == KeyIsFree(d, t, id, value) /\ ReferencesExist(d, t, value)
Put(d, t, id, value) == [d EXCEPT ![t][id] = value]

Refers(d, t, id, row) == d[t][id] # None /\ row \in References(t, d[t][id])
(* A user or a site goes with the permissions that refer to it. *)
Deleted(d, t, id) ==
    [u \in Tables |-> [i \in Ids |->
        IF (u = t /\ i = id) \/ (u = "permission" /\ Refers(d, u, i, <<t, id>>)) THEN None
        ELSE d[u][i]]]

(* A system that was set up has its administrator, and a site if one was named. *)
Fresh(name, site, id) ==
    [t \in Tables |-> [i \in Ids |->
        CASE t = "user" /\ i = id -> name [] t = "site" /\ i = id -> site [] OTHER -> None]]

RestoreInit ==
    /\ \E name \in Names, site \in Names \union {None} : db = Fresh(name, site, 1)
    /\ idsGiven = [t \in Tables |-> IF t \in {"user", "site"} THEN {1} ELSE {}]
    /\ reading = None /\ archive = None /\ torn = FALSE /\ restore = None /\ writes = 0

(* An administrator adds a row, which has an id of its own, also where one with the same
   name, or the same grant, was deleted. *)
Add(t, id, value) ==
    /\ id \notin idsGiven[t] /\ Accepts(db, t, id, value)
    /\ db' = Put(db, t, id, value) /\ idsGiven' = [idsGiven EXCEPT ![t] = @ \union {id}]

(* Sites are renamed, and cameras moved to another site; their paths stay. *)
Change(t, id, value) ==
    /\ t \in {"site", "camera"} /\ db[t][id] \notin {None, value} /\ Accepts(db, t, id, value)
    /\ t = "camera" => Unique(t, value) = Unique(t, db[t][id])
    /\ db' = Put(db, t, id, value) /\ UNCHANGED idsGiven

(* A site that cameras are at is kept. *)
Delete(t, id) ==
    /\ db[t][id] # None
    /\ \A c \in Ids : ~Refers(db, "camera", c, <<t, id>>)
    /\ db' = Deleted(db, t, id) /\ UNCHANGED idsGiven

Write ==
    /\ restore = None /\ writes < MaxWrites /\ writes' = writes + 1
    /\ \E t \in Tables : \E id \in Ids :
         Delete(t, id) \/ \E value \in Values(t) : Add(t, id, value) \/ Change(t, id, value)
    /\ torn' = (torn \/ reading # None)
    /\ UNCHANGED <<reading, archive, restore>>

(* createBackup starts its queries; they read each table when they come to it. *)
BeginBackup ==
    /\ reading = None /\ archive = None
    /\ reading' = [t \in Tables |-> None] /\ torn' = FALSE
    /\ UNCHANGED <<db, idsGiven, archive, restore, writes>>

FindMany(t) ==
    /\ reading # None /\ reading[t] = None
    /\ reading' = [reading EXCEPT ![t] = db[t]]
    /\ UNCHANGED <<db, idsGiven, archive, torn, restore, writes>>

(* All have answered: manifest, checksum and archive are built from them. *)
BuildArchive ==
    /\ reading # None /\ \A t \in Tables : reading[t] # None
    /\ archive' = reading /\ reading' = None
    /\ UNCHANGED <<db, idsGiven, torn, restore, writes>>

(* A new appliance, with the administrator of its set-up, takes over the archive. *)
Reinstall ==
    /\ archive # None /\ restore = None
    /\ 2 \notin idsGiven["user"] \union idsGiven["site"]
    /\ \E name \in Names, site \in Names \union {None} : db' = Fresh(name, site, 2)
    /\ idsGiven' = [idsGiven EXCEPT !["user"] = Ids, !["site"] = Ids]
    /\ UNCHANGED <<reading, archive, torn, restore, writes>>

(* Skip-existing looks a user up by id or name and a camera by id or path, a row of the other
   tables by id only. *)
Exists(d, t, id, value) ==
    \/ d[t][id] # None
    \/ t \in {"user", "camera"} /\ \E other \in Ids : HasKey(d, t, other, value)

(* One record within the transaction: after a failure nothing is accepted. *)
RestoreRecord(mode, t, id, value, tx) ==
    IF tx.failed \/ (mode = "skip-existing" /\ Exists(tx.rows, t, id, value)) THEN tx
    ELSE IF Accepts(tx.rows, t, id, value) THEN [tx EXCEPT !.rows = Put(tx.rows, t, id, value)]
    ELSE [tx EXCEPT !.failed = TRUE]

(* restoreModelArray: the records of a table, one after the other. *)
RestoreFrom(mode, t, id, tx) ==
    IF archive[t][id] = None THEN tx ELSE RestoreRecord(mode, t, id, archive[t][id], tx)
RestoreModelArray(mode, t, tx) == RestoreFrom(mode, t, 2, RestoreFrom(mode, t, 1, tx))

Opened == [rows |-> db, failed |-> FALSE]

(* Mutant: cameras first. *)
CamerasFirst(mode) ==
    LET cameras == RestoreModelArray(mode, "camera", Opened)
        sites == RestoreModelArray(mode, "site", cameras)
        users == RestoreModelArray(mode, "user", sites)
    IN  RestoreModelArray(mode, "permission", users)

(* restoreBackup comes to a table after those its records refer to. *)
Transaction(mode) ==
    LET sites == RestoreModelArray(mode, "site", Opened)
        users == RestoreModelArray(mode, "user", sites)
        cameras == RestoreModelArray(mode, "camera", users)
    IN  RestoreModelArray(mode, "permission", cameras)

Answered(mode, ok) ==
    restore' = [mode |-> mode, before |-> db, ok |-> ok]

(* The commit of a transaction with a failed statement undoes it, and the caught
   errors are thrown after it. *)
Restore(mode) ==
    /\ archive # None
    /\ LET tx == Transaction(mode)
       IN  /\ db' = IF tx.failed THEN db ELSE tx.rows
           /\ Answered(mode, ~tx.failed)
    /\ UNCHANGED <<idsGiven, reading, archive, torn, writes>>

RestoreNext ==
    \/ Write \/ BeginBackup \/ (\E t \in Tables : FindMany(t)) \/ BuildArchive \/ Reinstall
    \/ \E mode \in {"skip-existing", "overwrite"} : restore = None /\ Restore(mode)

RestoreSpec == RestoreInit /\ [][RestoreNext]_restoreVars

(* What is unique to a row of the archive belongs to another row of the system. *)
Clash(before, tables) ==
    \E t \in tables : \E id, other \in Ids :
        id # other /\ archive[t][id] # None /\ HasKey(before, t, other, archive[t][id])

(* A restore brings back every row of the archive and, when it skips, changes none that
   was there; one that is refused changes nothing; and an archive no write went through
   while it was taken is refused only if a name, a path or a grant of it is by now that of
   another row, as that of a site or a grant that was taken away and given again. *)
AnswerOfRestore == restore = None /\ restore' # None =>
    LET before == restore'.before
        mode == restore'.mode
    IN  /\ IF restore'.ok
           THEN \A t \in Tables : \A id \in Ids : archive[t][id] # None =>
                  IF mode = "overwrite" THEN db'[t][id] = archive[t][id]
                  ELSE /\ before[t][id] # None => db'[t][id] = before[t][id]
                       /\ Exists(db', t, id, archive[t][id])
           ELSE db' = before
        /\ restore'.ok \/ torn \/ Clash(before, Tables)
RestoreAnswered == [][AnswerOfRestore]_restoreVars

(* What it rests on: every row of the system is one that the constraints accept, and so
   is every row of an archive that no write went through while it was taken. *)
Kept(d) == \A t \in Tables : \A id \in Ids : d[t][id] # None => Accepts(d, t, id, d[t][id])

RestoreInv ==
    /\ RestoreTypeOK
    /\ Kept(db)
    /\ reading # None => archive = None /\ (~torn => \A t \in Tables : reading[t] \in {None, db[t]})
    /\ archive # None /\ ~torn => Kept(archive)

(* By hand: an archive can be restored whatever was written while it was taken; it can be
   restored on a new appliance whatever its administrator is called; and it can be restored
   whatever grants were taken away and given again since. *)
ArchivesRestore == [][restore = None /\ restore' # None =>
                        restore'.ok \/ Clash(restore'.before, Tables)]_restoreVars
NewApplianceRestores == [][restore = None /\ restore' # None =>
                             restore'.ok \/ torn \/ Clash(restore'.before, Tables \ {"user"})]_restoreVars
GrantedAgainRestores == [][restore = None /\ restore' # None =>
                             restore'.ok \/ torn \/ Clash(restore'.before, Tables \ {"permission"})]_restoreVars
================================================================================
