---------------------------- MODULE MCWorkspaces ----------------------------
(* Workspaces for TLC: two tasks of one repository.  The requests of one    *)
(* behaviour are for git, for the manager or for sessions; the threads go   *)
(* on beside the first two.                                                 *)
EXTENDS Workspaces, TLC

CONSTANTS t1, t2, home, other, ownA, ownB

VARIABLE about  \* what the behaviour has requests for

MCInit == Init /\ about \in {"git", "manager", "sessions"}

MCNext ==
  /\ \/ about \in {"git", "manager"} /\ OfThreads
     \/ about = "git" /\ OfGit
     \/ about = "manager" /\ OfManager
     \/ about = "sessions" /\ OfSessions
     \/ Crash
  /\ UNCHANGED about

MCSpec == MCInit /\ [][MCNext]_<<wvars, about>>

MCRoot == [t \in Task |-> home]

MCOwn == (t1 :> ownA) @@ (t2 :> ownB)

\* The two tasks, each with its branch, and the requests.
Symmetry ==
  {(t1 :> t2) @@ (t2 :> t1) @@ (ownA :> ownB) @@ (ownB :> ownA)}
    \cup Permutations(Slot) \cup Permutations(Visit)
=============================================================================
