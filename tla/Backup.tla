-------------------------------- MODULE Backup --------------------------------
(***************************************************************************)
(* backend/backup.py: BackupManager and the loop of schedule_backups.      *)
(*                                                                         *)
(* Backups are files named by the second create_backup began in, with      *)
(* "_pre-restore" for the safety backup of a restore; cleanup relies on    *)
(* names sorting by time.  Calls run on threads of their own (the loop,    *)
(* scripts, an operator's shell), nothing locks the directory, and each    *)
(* step of a call is one action: the file appears when its connection is   *)
(* opened, SQLite copies the whole database in one transaction, restore    *)
(* copies a file over the database.  What the database holds is a member   *)
(* of Content; whatever else writes it is the action Write.                *)
(*                                                                         *)
(* An operator XMutant is X with a plausible bug; no action uses it.       *)
(***************************************************************************)
EXTENDS Database, Integers, FiniteSets

CONSTANTS
  Content,  \* what the database may hold
  Job,      \* the threads that call the manager
  Second,   \* the seconds there are, the bound on the clock
  Keep,     \* the backups cleanup keeps
  NoFile,   \* no file of that name
  Empty     \* a file just created, which reads as an empty database

ASSUME KeepAssumption == Keep \in Nat \ {0}

ASSUME SecondAssumption == Second \subseteq Nat /\ 0 \in Second

ASSUME ContentAssumption ==
  NoFile \notin Content \cup {Empty, Torn}

VARIABLES
  clock,  \* the current second
  files,  \* the backup directory
  job,    \* the call each thread is in
  clash,  \* history: a creation took the name of another one
  failed  \* history: a creation failed and removed its file

directoryVars == <<clock, files, job, clash, failed>>

bvars == <<db, directoryVars>>

------------------------------------------------------------------------------
(* Data *)

Name == [at : Second, safety : BOOLEAN]

\* The order of sorted(): "..._120000.db" before "..._120000_pre-restore.db".
Older(m, n) == m.at < n.at \/ (m.at = n.at /\ ~m.safety /\ n.safety)

Stored == {n \in Name : files[n] # NoFile}

Newer(n) == {m \in Stored : Older(n, m)}

NoName == [at |-> 0, safety |-> FALSE]

Image == Content \cup {Empty, Torn}

\* name: the file the call creates; chosen: the file restore was given;
\* doomed: what cleanup has still to remove; late: the database changed
\* after the file got its copy (history).
IdleJob ==
  [pc |-> "idle", name |-> NoName, chosen |-> NoName, doomed |-> {}, late |-> FALSE]

JobState ==
  [pc : {"idle", "open", "copy", "restore", "remove"},
   name : Name, chosen : Name, doomed : SUBSET Name, late : BOOLEAN]

\* The state of a call is one of JobState, and the directory maps names to images.
BackupTypeOK ==
  /\ db \in Image
  /\ clock \in Second
  /\ files \in [Name -> Image \cup {NoFile}]
  /\ job \in [Job -> JobState]
  /\ clash \in BOOLEAN
  /\ failed \in BOOLEAN

At(j, pc) == job[j].pc = pc

\* A file of this name is there, being made, or what a restore relies on.
Taken(n) ==
  \/ files[n] # NoFile
  \/ \E j \in Job : job[j].pc \in {"open", "copy", "restore"} /\ job[j].name = n

\* The database may have changed: calls that hold a copy of it are late.
Noticed(j) == [job[j] EXCEPT !.late = @ \/ db' # db]

------------------------------------------------------------------------------
(* create_backup and restore_backup *)

\* The name is made of the clock before anything is opened.
Begin(j, safety, chosen) ==
  LET n == [at |-> clock, safety |-> safety]
  IN  /\ At(j, "idle")
      /\ job' = [job EXCEPT ![j] = [IdleJob EXCEPT !.pc = "open", !.name = n, !.chosen = chosen]]
      /\ clash' = (clash \/ Taken(n))
      /\ UNCHANGED <<db, clock, files, failed>>

Create(j) == Begin(j, FALSE, NoName)

\* The existence check, and the safety backup begins.
Restore(j, chosen) == chosen \in Stored /\ Begin(j, TRUE, chosen)

\* A bug: a restore does not wait for its safety backup.
OpenMutant(j) ==
  /\ At(j, "open")
  /\ files' = [files EXCEPT ![job[j].name] = IF @ = NoFile THEN Empty ELSE @]
  /\ job' = [job EXCEPT ![j].pc = IF job[j].name.safety THEN "restore" ELSE "copy"]
  /\ UNCHANGED <<db, clock, clash, failed>>

\* sqlite3.connect creates the file.
Open(j) ==
  /\ At(j, "open")
  /\ files' = [files EXCEPT ![job[j].name] = IF @ = NoFile THEN Empty ELSE @]
  /\ job' = [job EXCEPT ![j].pc = "copy"]
  /\ UNCHANGED <<db, clock, clash, failed>>

\* The safety backup of a restore is followed by the copy over the database.
Copied(j) ==
  IF job[j].name.safety THEN [job[j] EXCEPT !.pc = "restore", !.late = FALSE] ELSE IdleJob

\* source.backup: one transaction reads all of the database.
Copy(j) ==
  /\ At(j, "copy")
  /\ files' = [files EXCEPT ![job[j].name] = db]
  /\ job' = [job EXCEPT ![j] = Copied(j)]
  /\ UNCHANGED <<db, clock, clash, failed>>

\* Any error while opening or copying: the file of that name is removed,
\* whoever made it, and the exception ends the restore too.
CreateFails(j) ==
  /\ At(j, "open") \/ At(j, "copy")
  /\ files' = [files EXCEPT ![job[j].name] = NoFile]
  /\ failed' = (failed \/ files[job[j].name] # NoFile)
  /\ job' = [job EXCEPT ![j] = IdleJob]
  /\ UNCHANGED <<db, clock, clash>>

\* shutil.copy2 over the database file; it raises if cleanup took the chosen
\* file, leaves a short file if the disk fills, and a reader sees a mixture if
\* a connection of the server keeps the old WAL alive.
Overwrite(j) ==
  /\ At(j, "restore")
  /\ \/ files[job[j].chosen] = NoFile /\ db' = db
     \/ files[job[j].chosen] # NoFile /\ db' \in {files[job[j].chosen], Torn}
  /\ job' = [i \in Job |-> IF i = j THEN IdleJob ELSE Noticed(i)]
  /\ UNCHANGED <<clock, files, clash, failed>>

------------------------------------------------------------------------------
(* cleanup_old_backups *)

\* A bug: one backup too few is kept.
SurplusMutant == {n \in Stored : Cardinality(Newer(n)) >= Keep - 1}

Surplus == {n \in Stored : Cardinality(Newer(n)) >= Keep}

List(j) ==
  /\ At(j, "idle")
  /\ Surplus # {}
  /\ job' = [job EXCEPT ![j] = [IdleJob EXCEPT !.pc = "remove", !.doomed = Surplus]]
  /\ UNCHANGED <<db, clock, files, clash, failed>>

\* A file that cannot be removed, or is gone, is logged and skipped.
Remove(j, n) ==
  /\ At(j, "remove")
  /\ n \in job[j].doomed
  /\ \A m \in job[j].doomed : ~Older(m, n)
  /\ files' \in {files, [files EXCEPT ![n] = NoFile]}
  /\ job' = [job EXCEPT ![j] =
               IF @.doomed = {n} THEN IdleJob ELSE [@ EXCEPT !.doomed = job[j].doomed \ {n}]]
  /\ UNCHANGED <<db, clock, clash, failed>>

------------------------------------------------------------------------------
(* The rest of the world *)

Tick == clock + 1 \in Second /\ clock' = clock + 1 /\ UNCHANGED <<db, files, job, clash, failed>>

\* The process of a call ends between two of its steps; a copy over the
\* database may be cut short.
Crash(j) ==
  /\ ~At(j, "idle")
  /\ db' = db \/ (At(j, "restore") /\ db' = Torn)
  /\ job' = [i \in Job |-> IF i = j THEN IdleJob ELSE Noticed(i)]
  /\ UNCHANGED <<clock, files, clash, failed>>

\* What a step of the server that may write the database does to the calls.
Seen ==
  /\ job' = [j \in Job |-> Noticed(j)]
  /\ UNCHANGED <<clock, files, clash, failed>>

Write == \E c \in Content : db' = c /\ Seen

JobStep(j) ==
  \/ Create(j)
  \/ \E n \in Name : Restore(j, n)
  \/ Open(j)
  \/ Copy(j)
  \/ CreateFails(j)
  \/ Overwrite(j)
  \/ List(j)
  \/ \E n \in Name : Remove(j, n)
  \/ Crash(j)

DirectoryInit ==
  /\ clock = 0
  /\ files = [n \in Name |-> NoFile]
  /\ job = [j \in Job |-> IdleJob]
  /\ clash = FALSE
  /\ failed = FALSE

BackupInit == db \in Content /\ DirectoryInit

BackupNext == Write \/ Tick \/ \E j \in Job : JobStep(j)

BackupSpec == BackupInit /\ [][BackupNext]_bvars

------------------------------------------------------------------------------
(* Properties *)

\* What a restore is about to overwrite is in its safety backup, unless the
\* database changed after that backup, another call took its name in the same
\* second, or cleanup removed it.
RestoreIsSafe ==
  \A j \in Job : (At(j, "restore") /\ ~job[j].late /\ ~clash)
                   => files[job[j].name] \in {db, NoFile}

\* Rotation removes a file only when Keep newer ones are there, whatever other
\* calls did since it listed the directory, unless a creation failed meanwhile:
\* its file counted as one of the newer.
RotationKeepsNewest ==
  failed \/ \A j \in Job : \A n \in job[j].doomed : Cardinality(Newer(n)) >= Keep

\* What the code promises less of.  restore_backup makes "a safety backup of the
\* current DB before restoring": two restores within one second share its name.
SafetyIsKept ==
  [][\A n \in Name : (n.safety /\ files[n] \notin {NoFile, Empty}) => files'[n] \in {files[n], NoFile}]_bvars

\* The handler that means to "clean up partial backup" removes only that.
OnlyPartialRemoved ==
  [][\A j \in Job : (At(j, "open") /\ job'[j].pc = "idle")
        => files[job[j].name] \in {NoFile, files'[job[j].name]}]_bvars
===============================================================================
