------------------------------ MODULE Workspaces ------------------------------
(***************************************************************************)
(* Tasks, the workspace manager and the sessions on one disk: a directory  *)
(* is deleted, renamed or made while a task works in it.                   *)
(***************************************************************************)
EXTENDS TaskGit, WorkspaceManager, Sessions

CONSTANTS
  MaxCalls,   \* bounds the requests, the git tools of tasks and the crashes
  MaxStarts,  \* bounds the starts of tasks
  MaxVisits   \* bounds the requests for sessions

ASSUME MaxAssumption == {MaxCalls, MaxStarts, MaxVisits} \subseteq Nat

VARIABLES
  made,     \* how many of the first there were,
  started,  \* of the second
  visited   \* and of the third

counters == <<made, started, visited>>

wvars == <<disk, remote, taskVars, managerVars, sessionVars, counters>>

------------------------------------------------------------------------------

\* Endpoints run on the event loop, which a commit endpoint blocks, and a clone.
LoopFree == committing = Nobody /\ \A s \in Slot : ~Creating(s)

Counted == made < MaxCalls /\ made' = made + 1 /\ UNCHANGED <<started, visited>>

CountedStart == started < MaxStarts /\ started' = started + 1 /\ UNCHANGED <<made, visited>>

CountedVisit == visited < MaxVisits /\ visited' = visited + 1 /\ UNCHANGED <<made, started>>

Uncounted == UNCHANGED counters

OfThreads ==
  /\ \/ \E t \in Task : ThreadStep(t) /\ Uncounted
     \/ CountedStart /\ \E t \in Task : Start(t)
  /\ UNCHANGED <<managerVars, sessionVars>>

OfGit ==
  /\ \/ Counted /\ \E t \in Task, tool \in BOOLEAN : (tool \/ LoopFree) /\ GitCall(t, tool)
     \/ CommitEnds /\ Uncounted
     \/ \E b \in Branch : MergePull(b) /\ Uncounted
  /\ UNCHANGED <<managerVars, sessionVars>>

OfManager ==
  /\ \/ LoopFree /\ Counted /\ ManagerRequest
     \/ LoopFree /\ Uncounted /\ \E s \in Slot : WriteRecent(s)
     \/ Uncounted /\ \E s \in Slot : CloneInto(s) \/ CloneOver(s)
  /\ task' = Watched(task, Nobody)
  /\ UNCHANGED <<committing, pulls, sessionVars>>

OfSessions ==
  /\ LoopFree
  /\ \/ CountedVisit /\ SessionsRequest
     \/ Uncounted /\ SessionsStep
  /\ UNCHANGED <<disk, remote, taskVars, managerVars>>

\* The rows that were to be written are not.
Crash ==
  /\ Counted
  /\ TasksCrash
  /\ waiting' = [s \in Slot |-> NoWait]
  /\ missed' = missed \cup {waiting[s].name : s \in {i \in Slot : waiting[i].row = "touch"}}
  /\ visit' = [v \in Visit |-> NoVisit]
  /\ UNCHANGED <<recent, managed, sessions, inserted>>

Init ==
  /\ disk = [n \in Name |-> None]
  /\ remote = [b \in {Main} |-> {}]
  /\ made = 0 /\ started = 0 /\ visited = 0
  /\ TaskGitInit
  /\ ManagerInit
  /\ SessionsInit

Next == OfThreads \/ OfGit \/ OfManager \/ OfSessions \/ Crash

Spec == Init /\ [][Next]_wvars

------------------------------------------------------------------------------
(* Properties *)

\* A clone that fails clears its directory.
Cleared ==
  \/ \E u \in Task : Doing(u, "unpack") /\ disk'[Root[u]] = EmptyDir
  \/ \E s \in Slot : waiting[s].row = "unpack" /\ disk'[waiting[s].name] = EmptyDir

\* A tool or a command of u takes edits of t away, or had written over them
\* while they were staged.
TakenBy(u, t) ==
  LET d == Here(u)
  IN  /\ Opened(u) /\ d # None
      /\ \/ disk'[Root[u]] \in Stripped(d)
         \/ \E b \in DOMAIN d.commits : remote' = Pushed(d, b)
         \/ t \in d.over
         \/ Ready(d) /\ disk'[Root[u]] = Discarded(d, t)

\* No step loses a task's work but the deletion of its directory, a clone that
\* fails, one that is moved over a directory without a repository or over one
\* that another set-up cloned meanwhile, and a discard, a tool or a command that
\* takes just that away.  Nothing else the set-up, the finalize, the git tools
\* and endpoints or the manager do in a directory that others work in does.
WorkIsKept ==
  [][\A t \in Task :
       (Somewhere(t) /\ ~Somewhere(t)')
         => \/ \E n \in Name : disk[n] # None /\ disk'[n] = None
            \/ Cleared
            \/ \E u \in Task : Doing(u, "move") /\ (task[u].raced \/ ~HasGit(Here(u)))
            \/ \E u \in Task : TakenBy(u, t)]_<<disk, remote, task>>
===============================================================================
