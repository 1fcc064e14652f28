--------------------------- MODULE WorkspaceManager ---------------------------
(***************************************************************************)
(* backend/workspace_manager.py behind its endpoints in main.py: it makes, *)
(* renames, deletes and switches the directories under WORKSPACE_ROOT and  *)
(* keeps the table recent_workspaces.  What it does to the disk blocks the *)
(* event loop, a clone for up to two minutes in which the threads of tasks *)
(* go on; its write of the table comes after an await, and errors of the   *)
(* database are only logged.                                               *)
(***************************************************************************)
EXTENDS Repository

CONSTANTS Slot  \* the requests that can be under way

VARIABLES
  recent,   \* the table
  waiting,  \* the requests that clone or wait for it
  managed,  \* history: workspaces made, renamed to or switched to
  missed    \* history: those whose row failed to be written, or was removed
            \* by a delete of an older workspace of that name

managerVars == <<recent, waiting, managed, missed>>

------------------------------------------------------------------------------

NoWait == [row |-> "none", name |-> None]

\* The request goes on to write, or remove, the row of name n.
Waits(s, row, n) ==
  /\ waiting[s] = NoWait
  /\ waiting' = [waiting EXCEPT ![s] = [row |-> row, name |-> n]]

\* create_workspace: mkdir, and a clone if it was given a repository.
CreateWorkspace(s, n) ==
  /\ disk[n] = None
  /\ disk' = [disk EXCEPT ![n] = EmptyDir]
  /\ \/ Waits(s, "touch", n) /\ managed' = managed \cup {n}
     \/ Waits(s, "clone", n) /\ UNCHANGED managed
  /\ UNCHANGED <<remote, recent, missed>>

Creating(s) == waiting[s].row \in {"clone", "unpack"}

\* The clone of s is over, whatever came of it, and d is what it leaves.
Made(s, d) ==
  /\ disk' = [disk EXCEPT ![waiting[s].name] = d]
  /\ waiting' = [waiting EXCEPT ![s].row = "touch"]
  /\ managed' = managed \cup {waiting[s].name}

\* git clone begins in a directory without files, or fails.
CloneInto(s) ==
  LET d == disk[waiting[s].name]
  IN  /\ waiting[s].row = "clone"
      /\ \/ /\ d = EmptyDir
            /\ disk' = [disk EXCEPT ![waiting[s].name] = Begun]
            /\ waiting' = [waiting EXCEPT ![s].row = "unpack"]
            /\ UNCHANGED managed
         \/ Made(s, d)
      /\ UNCHANGED <<remote, recent, missed>>

\* It is done, it fails and clears the directory, or it runs into its timeout, an
\* exception that leaves the directory and no row.  A task may have moved its own
\* clone there meanwhile.
CloneOver(s) ==
  LET d == disk[waiting[s].name]
  IN  /\ waiting[s].row = "unpack"
      /\ \/ Made(s, IF Partial(d) THEN Cloned(d.unstaged) ELSE d)
         \/ Made(s, EmptyDir)
         \/ waiting' = [waiting EXCEPT ![s] = NoWait] /\ UNCHANGED <<disk, managed>>
      /\ UNCHANGED <<remote, recent, missed>>

\* A bug: the row of the old name is touched.
RenameMutant(s, m, n) ==
  /\ disk[m] # None /\ disk[n] = None
  /\ disk' = [disk EXCEPT ![n] = disk[m], ![m] = None]
  /\ Waits(s, "touch", m)
  /\ managed' = (managed \ {m}) \cup {n}
  /\ UNCHANGED <<remote, recent, missed>>

\* rename_workspace: the row of the old name stays.
Rename(s, m, n) ==
  /\ disk[m] # None /\ disk[n] = None
  /\ disk' = [disk EXCEPT ![n] = disk[m], ![m] = None]
  /\ Waits(s, "touch", n)
  /\ managed' = (managed \ {m}) \cup {n}
  /\ UNCHANGED <<remote, recent, missed>>

\* delete_workspace
DeleteWorkspace(s, n) ==
  /\ disk[n] # None
  /\ disk' = [disk EXCEPT ![n] = None]
  /\ Waits(s, "remove", n)
  /\ managed' = managed \ {n}
  /\ missed' = missed \ {n}
  /\ UNCHANGED <<remote, recent>>

\* switch_workspace
Switch(s, n) ==
  /\ disk[n] # None
  /\ Waits(s, "touch", n)
  /\ managed' = managed \cup {n}
  /\ UNCHANGED <<disk, remote, recent, missed>>

\* _touch_recent, and the end of a delete.
WriteRecent(s) ==
  LET n == waiting[s].name
  IN  /\ waiting[s] # NoWait
      /\ waiting' = [waiting EXCEPT ![s] = NoWait]
      /\ \/ /\ waiting[s].row = "touch"
            /\ recent' = recent \cup {n}
            /\ missed' = missed \ {n}
         \/ /\ waiting[s].row = "remove"
            /\ recent' = recent \ {n}
            /\ missed' = IF n \in managed THEN missed \cup {n} ELSE missed
         \/ /\ ~Creating(s)
            /\ UNCHANGED recent  \* the database failed
            /\ missed' = missed \cup {n}
      /\ UNCHANGED <<disk, remote, managed>>

\* recent_workspaces: rows whose directory is there.
Shown == {n \in recent : disk[n] # None}

ManagerInit ==
  /\ recent = {}
  /\ waiting = [s \in Slot |-> NoWait]
  /\ managed = {}
  /\ missed = {}

ManagerRequest ==
  \E s \in Slot, n \in Name :
    \/ CreateWorkspace(s, n)
    \/ \E m \in Name : Rename(s, m, n)
    \/ DeleteWorkspace(s, n)
    \/ Switch(s, n)

------------------------------------------------------------------------------
(* Properties *)

\* Every workspace the manager made, renamed to or switched to is shown among
\* the recent ones when no request is at work on it, unless its row failed to
\* be written or an older delete of that name came late.
RecentsFollow ==
  \A n \in managed :
    (n \notin missed /\ \A s \in Slot : waiting[s].name # n) => n \in Shown

\* What the code promises less of: delete_workspace is to "Remove from recents"
\* the workspace it deleted, not a new one of the same name.
NewWorkspaceIsShown ==
  [][\A s \in Slot : \A n \in Name :
       (waiting[s] = [row |-> "remove", name |-> n] /\ waiting'[s] = NoWait /\ n \in managed)
         => (n \in recent => n \in recent')]_<<disk, remote, managerVars>>
===============================================================================
