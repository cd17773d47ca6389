---------------------------- MODULE BackupScheduler ----------------------------
(***************************************************************************)
(* The daily backups the appliance keeps (system/backup-scheduler.ts).     *)
(* Every hour, and at the start of the process, a tick lists the archives; *)
(* when the newest is a day old it writes another beside them under a      *)
(* partial name, renames it, and prunes all but the newest Keep.  A tick   *)
(* does not wait for the one before, and the process may die between any   *)
(* two steps.  The files stand newest first, as the dates in their names   *)
(* order them; ages count in hours and stop at Day.                        *)
(***************************************************************************)
EXTENDS Naturals, Sequences, SequencesExt, FiniteSets

CONSTANTS Ticks,     \* ticks whose work may overlap
          Keep,      \* BACKUP_RETENTION_COUNT, at least 1
          Day,       \* hours after which a backup is due, at least 1
          MaxBackupFaults,  \* bound: queries, writes and renames that fail, and crashes
          NoTick

VARIABLES up,        \* the process runs
          files,     \* the names in use, with what is under them and who holds them
          tick,      \* where each tick is
          slow,      \* the ticks that were still at work when the next one came
          backupFaults

backupVars == <<up, files, tick, slow, backupFaults>>

Contents == {"none", "torn", "whole"}
(* age: hours since the moment in the name; temp: the partial file; archive: the file
   of the name; owner: the tick that writes it; seen: ticks that hold it in their list. *)
File == [age : 0..Day, temp : Contents, archive : Contents, owner : Ticks \union {NoTick},
         seen : SUBSET Ticks]
Steps == {"idle", "list", "stat", "create", "write", "rename", "prune", "pruneStat", "rm"}

BackupTypeOK ==
    /\ up \in BOOLEAN
    /\ files \in Seq(File)
    /\ tick \in [Ticks -> Steps] /\ slow \subseteq Ticks
    /\ backupFaults \in 0..MaxBackupFaults

BackupInit ==
    /\ up = FALSE /\ files = <<>>
    /\ tick = [t \in Ticks |-> "idle"] /\ slow = {} /\ backupFaults = 0

(* A name nobody needs any more is gone. *)
Tidied(s) == SelectSeq(s, LAMBDA f : f.temp # "none" \/ f.archive # "none"
                                       \/ f.owner # NoTick \/ f.seen # {})
ForAll(Change(_)) == files' = Tidied([i \in DOMAIN files |-> Change(files[i])])
ForOwn(t, Change(_)) == ForAll(LAMBDA f : IF f.owner = t THEN Change(f) ELSE f)
Dropped(f, T) == [f EXCEPT !.owner = IF @ \in T THEN NoTick ELSE @, !.seen = @ \ T]

Goto(t, step) == tick' = [tick EXCEPT ![t] = step]
Ends(t) == Goto(t, "idle") /\ slow' = slow \ {t} /\ ForAll(LAMBDA f : Dropped(f, {t}))

(* start: the first tick, and the timer of the ones that follow. *)
Start(t) ==
    /\ ~up /\ up' = TRUE
    /\ Goto(t, "list")
    /\ UNCHANGED <<files, slow, backupFaults>>

(* An hour passes and the timer fires, whether the last tick is done or not.  A tick
   that outlasts its hour is done within the next one. *)
Hour(t) ==
    /\ up /\ tick[t] = "idle" /\ slow = {}
    /\ slow' = {u \in Ticks : tick[u] # "idle"}
    /\ ForAll(LAMBDA f : IF f.age < Day THEN [f EXCEPT !.age = @ + 1] ELSE f)
    /\ Goto(t, "list")
    /\ UNCHANGED <<up, backupFaults>>

(* readdir filtered by FILE_PATTERN: a partial file is no backup. *)
IsListed(f) == f.archive # "none"

(* list, in runIfDue and in prune: the names are read, then every file. *)
ReadDir(t) ==
    /\ tick[t] \in {"list", "prune"}
    /\ ForAll(LAMBDA f : IF IsListed(f) THEN [f EXCEPT !.seen = @ \union {t}] ELSE f)
    /\ Goto(t, IF tick[t] = "list" THEN "stat" ELSE "pruneStat")
    /\ UNCHANGED <<up, slow, backupFaults>>

Seen(t) == {i \in DOMAIN files : t \in files[i].seen}
AllThere(t) == \A i \in Seen(t) : files[i].archive # "none"

(* stat fails on a file another tick has pruned meanwhile, and ends the tick. *)
StatFails(t) ==
    /\ tick[t] \in {"stat", "pruneStat"} /\ ~AllThere(t)
    /\ Ends(t)
    /\ UNCHANGED <<up, backupFaults>>

(* The newest of the list is a day old, or there is none. *)
IsDue(t) == \A i \in Seen(t) : (\A j \in Seen(t) : i <= j) => files[i].age >= Day

NotDue(t) ==
    /\ tick[t] = "stat" /\ AllThere(t) /\ ~IsDue(t)
    /\ Ends(t)
    /\ UNCHANGED <<up, backupFaults>>

(* runIfDue starts a backup, whose name is the moment of the tick. *)
RunIfDue(t) ==
    /\ tick[t] = "stat" /\ AllThere(t) /\ IsDue(t)
    /\ LET name == [age |-> 0, temp |-> "none", archive |-> "none", owner |-> t, seen |-> {}]
       IN  files' = <<name>> \o [i \in DOMAIN files |-> Dropped(files[i], {t})]
    /\ Goto(t, "create")
    /\ UNCHANGED <<up, slow, backupFaults>>

(* createBackup has the archive in memory; the write to the partial file begins. *)
BeginWrite(t) ==
    /\ tick[t] = "create"
    /\ ForOwn(t, LAMBDA f : [f EXCEPT !.temp = "torn"])
    /\ Goto(t, "write")
    /\ UNCHANGED <<up, slow, backupFaults>>

EndWrite(t) ==
    /\ tick[t] = "write"
    /\ ForOwn(t, LAMBDA f : [f EXCEPT !.temp = "whole"])
    /\ Goto(t, "rename")
    /\ UNCHANGED <<up, slow, backupFaults>>

Rename(t) ==
    /\ tick[t] = "rename"
    /\ ForOwn(t, LAMBDA f : [f EXCEPT !.archive = f.temp, !.temp = "none", !.owner = NoTick])
    /\ Goto(t, "prune")
    /\ UNCHANGED <<up, slow, backupFaults>>

(* A query, the write (a full disk) or the rename fails: the tick ends with a
   warning, and what the partial file holds stays. *)
BackupFails(t) ==
    /\ tick[t] \in {"create", "write", "rename"} /\ backupFaults < MaxBackupFaults
    /\ backupFaults' = backupFaults + 1
    /\ Ends(t)
    /\ UNCHANGED up

(* Mutant: the list is oldest first. *)
SurplusOfOldestFirst(t) == {i \in Seen(t) : Cardinality({j \in Seen(t) : j > i}) >= Keep}

(* prune keeps the newest Keep of the list. *)
Surplus(t) == {i \in Seen(t) : Cardinality({j \in Seen(t) : j < i}) >= Keep}

Prune(t) ==
    /\ tick[t] = "pruneStat" /\ AllThere(t)
    /\ files' = [i \in DOMAIN files |->
                   IF i \in Surplus(t) THEN files[i] ELSE Dropped(files[i], {t})]
    /\ Goto(t, "rm")
    /\ UNCHANGED <<up, slow, backupFaults>>

(* One rm of the loop, newest first; with force a file that is gone is no error. *)
RemoveOld(t) ==
    /\ tick[t] = "rm"
    /\ IF Seen(t) = {} THEN Ends(t)
       ELSE LET next == CHOOSE i \in Seen(t) : \A j \in Seen(t) : i <= j
            IN  /\ files' = Tidied([files EXCEPT ![next].archive = "none", ![next].seen = @ \ {t}])
                /\ UNCHANGED <<tick, slow>>
    /\ UNCHANGED <<up, backupFaults>>

Dies ==
    /\ up /\ backupFaults < MaxBackupFaults
    /\ up' = FALSE /\ backupFaults' = backupFaults + 1
    /\ tick' = [t \in Ticks |-> "idle"] /\ slow' = {}
    /\ ForAll(LAMBDA f : Dropped(f, Ticks))

TickStep(t) ==
    \/ ReadDir(t) \/ StatFails(t) \/ NotDue(t) \/ RunIfDue(t)
    \/ BeginWrite(t) \/ EndWrite(t) \/ Rename(t) \/ Prune(t) \/ RemoveOld(t)

BackupNext ==
    \/ \E t \in Ticks : Start(t) \/ Hour(t) \/ TickStep(t) \/ BackupFails(t)
    \/ Dies

(* The queries and file operations of a tick return, hours pass, and the
   container is restarted when it has died. *)
BackupSpec ==
    /\ BackupInit /\ [][BackupNext]_backupVars
    /\ WF_backupVars(\E t \in Ticks : Start(t) \/ Hour(t))
    /\ \A t \in Ticks : WF_backupVars(TickStep(t))

(* Every archive the appliance lists, offers for download or counts as the newest was
   written to its end, whatever died or failed and whichever ticks overlapped. *)
ListedIsWhole == \A i \in DOMAIN files : files[i].archive # "torn"

(* Again and again an hour begins with a backup less than a day old in place: neither
   the left-over of a crash nor the prune of an overlapping tick keeps the appliance
   without one. *)
Fresh == \E i \in DOMAIN files : files[i].archive = "whole" /\ files[i].age < Day
BackupsStayFresh == []<><<Fresh /\ \E t \in Ticks : Hour(t)>>_backupVars

(* By hand: a partial file of a crash or a failed write is removed some day. *)
PartialsGo ==
    [](<>(\A i \in DOMAIN files : files[i].temp = "none"))
================================================================================
