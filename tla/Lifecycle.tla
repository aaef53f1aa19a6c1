------------------------------ MODULE Lifecycle ------------------------------
(***************************************************************************)
(* The process that serves (dcalcon serve), its worker, and the commands   *)
(* dcalcon backup and dcalcon restore, on one database file.               *)
(*                                                                         *)
(* The server opens the file, migrates it, creates the first account and   *)
(* only then takes the runtime lock.  Restore looks at the lock, gives it  *)
(* up again, copies the snapshot beside the file and renames twice.  Every *)
(* process may die between two steps; then the -wal file may stay with     *)
(* commits that the file does not have.                                    *)
(*                                                                         *)
(* db (module ImportantDates) is the database of the server as it sees it. *)
(***************************************************************************)
EXTENDS ImportantDates, Sequences

CONSTANTS
  Keep,       \* Backup.Keep
  MaxBackups, \* bound on snapshots ever taken
  MaxStarts,  \* bound on starts of the server
  MaxRestores \* bound on runs of dcalcon restore

ASSUME KeepAssumption == Keep \in Nat \ {0}
ASSUME LimitAssumption == MaxBackups \in Nat /\ MaxStarts \in Nat /\ MaxRestores \in Nat

VARIABLES
  disk,     \* the files: dest (the database), aside (.pre-restore), wal
  backups,  \* the snapshots in the directory, oldest first
  taken,    \* how many snapshots were taken
  due,      \* the worker's lastBackup is an interval ago, or unset
  sv,       \* the server
  starts,   \* how often it was started
  rs,       \* dcalcon restore
  restores, \* how often it was started
  owed,     \* history: the database that a restore has begun to replace,
            \* until somebody opens the new one
  promised  \* history: the snapshot of a completed restore, likewise

files == <<disk, backups>>
vars == <<dateVars, files, taken, due, sv, starts, rs, restores, owed, promised>>

Down == [pc |-> "down", on |-> "dest", raced |-> FALSE]
Done == [pc |-> "done", src |-> None]

Init ==
  /\ InitDates
  /\ disk = [dest |-> None, aside |-> None, wal |-> None]
  /\ backups = <<>> /\ taken = 0 /\ due = FALSE
  /\ sv = Down /\ starts = 0
  /\ rs = Done /\ restores = 0
  /\ owed = None /\ promised = None

-----------------------------------------------------------------------------
(* The server.                                                             *)

server == <<dateVars, sv, due, starts>>
command == <<rs, restores>>

(* What the file on has after the server has written d to it.  A file that *)
(* was unlinked while it was open is on no disk.                           *)
Written(d) == IF sv.on = "gone" THEN disk ELSE [disk EXCEPT ![sv.on] = d]

(* What a process finds that opens the file: the commits in a -wal file    *)
(* count, which with a database it does not belong to makes the old one    *)
(* again (or a malformed one, and the process ends at once).  A file that  *)
(* is not there is created.                                                *)
Found == IF disk.dest = None THEN Blank ELSE IF disk.wal = None THEN disk.dest ELSE disk.wal

Open ==
  /\ sv.pc = "down" /\ starts < MaxStarts
  /\ db' = Found
  /\ disk' = [disk EXCEPT !.dest = Found]
  /\ sv' = [pc |-> "bootstrap", on |-> "dest", raced |-> rs.pc # "done"]
  /\ starts' = starts + 1
  /\ owed' = None
  /\ UNCHANGED <<wk, year, changes, promised, backups, taken, due, command>>

(* The first account, in a database that has none.                         *)
Admin ==
  /\ sv.pc = "bootstrap"
  /\ sv' = [sv EXCEPT !.pc = "lock"]
  /\ db' = [db EXCEPT !.user = TRUE]
  /\ disk' = Written(db')
  /\ promised' = None
  /\ UNCHANGED <<wk, year, changes, backups, taken, due, starts, command, owed>>

HoldRuntimeLock ==
  /\ sv.pc = "lock" /\ rs.pc # "locked"
  /\ sv' = [sv EXCEPT !.pc = "up"]
  /\ due' = TRUE
  /\ UNCHANGED <<dateVars, files, taken, starts, command, owed, promised>>

(* The process ends: left is the -wal it leaves.                           *)
Ends(left) ==
  /\ sv' = Down /\ wk' = Idle /\ db' = Blank /\ due' = FALSE
  /\ disk' = [disk EXCEPT !.wal = left]
  /\ promised' = IF sv.pc = "bootstrap" THEN None ELSE promised
  /\ UNCHANGED <<year, changes, backups, taken, starts, command, owed>>

(* A signal ends Listen, and the lock is given up before the store is      *)
(* closed.  Nobody waits for the worker, nor for requests after 8 seconds. *)
Shutdown ==
  /\ sv.pc = "up"
  /\ sv' = [sv EXCEPT !.pc = "closing"]
  /\ UNCHANGED <<dateVars, files, taken, due, starts, command, owed, promised>>

Close == sv.pc = "closing" /\ Ends(None)

(* It is killed, or leaves by os.Exit, as it does when the lock is held,   *)
(* or with a connection in use.                                            *)
Crash ==
  /\ sv.pc # "down"
  /\ \E left \in {None, db} : Ends(left)

(* Requests and the worker.                                                *)
Writes(A) ==
  /\ A
  /\ disk' = Written(db')
  /\ UNCHANGED <<backups, taken, due, sv, starts, command, owed, promised>>

Serving(A) == sv.pc = "up" /\ Writes(A)

(* Those that nobody waits for.                                            *)
Draining == sv.pc = "closing" /\ (Writes(UserRequest) \/ (wk.pc # "idle" /\ Writes(Sync)))

Calendar ==
  /\ NewYear
  /\ UNCHANGED <<files, taken, due, sv, starts, command, owed, promised>>

-----------------------------------------------------------------------------
(* Snapshots.                                                              *)

(* PruneBackups: names are times, so the oldest are the first.             *)
PruneBackups(s) == IF Len(s) <= Keep THEN s ELSE SubSeq(s, Len(s) - Keep + 1, Len(s))

(* The end of a tick.  Backup may fail; then it is tried on the next one.  *)
maybeBackup ==
  /\ sv.pc = "up" /\ wk.pc = "backup"
  /\ \/ /\ due /\ taken < MaxBackups
        /\ backups' = PruneBackups(Append(backups, db))
        /\ taken' = taken + 1 /\ due' = FALSE
     \/ UNCHANGED <<backups, taken, due>>
  /\ wk' = Idle
  /\ UNCHANGED <<db, year, changes, disk, sv, starts, command, owed, promised>>

IntervalOver ==
  /\ sv.pc = "up" /\ ~due
  /\ due' = TRUE
  /\ UNCHANGED <<dateVars, files, taken, sv, starts, command, owed, promised>>

(* dcalcon backup opens the file like the server, without a lock, and      *)
(* prunes nothing.                                                         *)
BackupCommand ==
  /\ taken < MaxBackups
  /\ LET d == IF sv.pc = "down" \/ sv.on # "dest" THEN Found ELSE db IN
       /\ backups' = Append(backups, d)
       /\ disk' = [disk EXCEPT !.dest = d, !.wal = IF sv.pc = "down" THEN None ELSE @]
  /\ taken' = taken + 1
  /\ owed' = None /\ promised' = None
  /\ UNCHANGED <<server, command>>

-----------------------------------------------------------------------------
(* dcalcon restore.                                                        *)

Go(pc) == rs' = [rs EXCEPT !.pc = pc]
Elsewhere == UNCHANGED <<dateVars, backups, taken, due, starts, restores>>

(* Mutant: the lock is not looked at.                                      *)
RestoreAnyway(src) ==
  /\ rs.pc = "done" /\ restores < MaxRestores
  /\ rs' = [pc |-> "copied", src |-> src]
  /\ restores' = restores + 1
  /\ owed' = IF disk.dest = None THEN owed ELSE IF sv.pc = "down" /\ disk.wal = None THEN disk.dest ELSE None
  /\ promised' = None
  /\ UNCHANGED <<dateVars, files, taken, due, sv, starts>>

(* ErrIfRuntimeLocked, of the snapshot src: the lock is taken exclusively, *)
(* unless there is no file to lock.                                        *)
Restore(src) ==
  /\ rs.pc = "done" /\ restores < MaxRestores
  /\ disk.dest # None => sv.pc # "up"
  /\ rs' = [pc |-> IF disk.dest = None THEN "copied" ELSE "locked", src |-> src]
  /\ restores' = restores + 1
  /\ owed' = IF disk.dest = None THEN owed ELSE IF sv.pc = "down" /\ disk.wal = None THEN disk.dest ELSE None
  /\ promised' = None
  /\ sv' = [sv EXCEPT !.raced = sv.pc # "down"]
  /\ UNCHANGED <<dateVars, files, taken, due, starts>>

(* The lock is given up, and the snapshot copied beside the database.      *)
CopyFile ==
  /\ rs.pc = "locked"
  /\ Go("copied")
  /\ Elsewhere /\ UNCHANGED <<disk, sv, owed, promised>>

(* Mutant: the database is removed.                                        *)
RemoveOld ==
  /\ rs.pc = "copied"
  /\ Go("moved")
  /\ disk' = [disk EXCEPT !.dest = None]
  /\ sv' = IF sv.pc = "down" THEN sv ELSE [sv EXCEPT !.on = "gone"]
  /\ Elsewhere /\ UNCHANGED <<owed, promised>>

(* The database is renamed over what an earlier restore has moved aside.   *)
MoveAside ==
  /\ rs.pc = "copied"
  /\ Go("moved")
  /\ IF disk.dest = None THEN UNCHANGED <<disk, sv>>
     ELSE /\ disk' = [disk EXCEPT !.dest = None, !.aside = disk.dest]
          /\ sv' = IF sv.pc = "down" THEN sv
                   ELSE [sv EXCEPT !.on = IF @ = "dest" THEN "aside" ELSE "gone"]
  /\ Elsewhere /\ UNCHANGED <<owed, promised>>

MoveIn ==
  /\ rs.pc = "moved"
  /\ rs' = Done
  /\ disk' = [disk EXCEPT !.dest = rs.src]
  /\ sv' = IF sv.pc # "down" /\ sv.on = "dest" THEN [sv EXCEPT !.on = "gone"] ELSE sv
  /\ promised' = rs.src
  /\ Elsewhere /\ UNCHANGED owed

(* A step of it fails, or it is killed.                                    *)
RestoreDies ==
  /\ rs.pc # "done"
  /\ rs' = Done
  /\ Elsewhere /\ UNCHANGED <<disk, sv, owed, promised>>

-----------------------------------------------------------------------------
Next ==
  \/ Open \/ Admin \/ HoldRuntimeLock \/ Shutdown \/ Close \/ Crash
  \/ Draining \/ Serving(UserRequest) \/ Serving(Sync) \/ Serving(SyncFails) \/ Calendar
  \/ maybeBackup \/ IntervalOver \/ BackupCommand
  \/ \E i \in DOMAIN backups : Restore(backups[i])
  \/ CopyFile \/ MoveAside \/ MoveIn \/ RestoreDies

(* The ticker goes on.  Failures are bounded, so they end at some time.    *)
Spec == Init /\ [][Next]_vars /\ WF_vars(Serving(Sync) \/ maybeBackup)

-----------------------------------------------------------------------------
(* Properties.                                                             *)

(* Tables, files and processes have their types.                           *)
TypeOK ==
  /\ DatesTypeOK
  /\ disk \in [dest : Db \cup {None}, aside : Db \cup {None}, wal : Db \cup {None}]
  /\ backups \in Seq(Db) /\ Len(backups) <= taken /\ taken \in 0..MaxBackups
  /\ due \in BOOLEAN /\ starts \in 0..MaxStarts /\ restores \in 0..MaxRestores
  /\ sv \in [pc : {"down", "bootstrap", "lock", "up", "closing"}, on : {"dest", "aside", "gone"},
             raced : BOOLEAN]
  /\ rs \in [pc : {"done", "locked", "copied", "moved"}, src : Db \cup {None}]
  /\ owed \in Db \cup {None} /\ promised \in Db \cup {None}

(* "Refused while a process holds the runtime lock" (doc/SECURITY.md): no  *)
(* server works on a database that restore has moved away, but one that    *)
(* was starting while restore looked at the lock, or has started since.    *)
ServesDest == sv.pc = "up" /\ sv.on # "dest" => sv.raced

Opened == IF sv.pc # "down" /\ sv.on = "dest" THEN db ELSE disk.dest

(* "replaces the database; it does not merge": after a restore that has    *)
(* completed the next server finds the snapshot, unless the server before  *)
(* has died and left a -wal file; and wherever a restore dies, the         *)
(* database it was to replace is still there, in its place or aside.       *)
RestoreReplaces ==
  /\ promised # None /\ disk.wal = None => Opened = promised
  /\ owed # None => owed \in {disk.dest, disk.aside}

(* When the server stays up, the entries of Important Dates come to agree  *)
(* with the contacts and the settings, whatever was restored, edited or    *)
(* switched in between, and stay so.                                       *)
Converges == <>[](sv.pc = "up") => <>[]Converged
=============================================================================
