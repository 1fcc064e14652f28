----------------------------- MODULE MCAgentTask -----------------------------
(* AgentTask for TLC: a bounded number of crashes and of operator requests. *)
(* The fairness is that of running threads: each goes on, every command is  *)
(* over at its timeout at the latest.  A thread that a serverless platform  *)
(* may freeze is promised nothing.                                          *)
EXTENDS AgentTask, TLC

CONSTANTS
  MaxCrashes,  \* bound on the crashes
  MaxRequests  \* bound on the requests handlers take up and on the re-queues

VARIABLES crashes, requests

mcVars == <<vars, crashes, requests>>

MCInit == Init /\ crashes = 0 /\ requests = 0

Started == \E q \in Request : request[q] = NoRequest /\ request'[q] # NoRequest

DispatchedAgain == Dispatch /\ \E r \in Run : ~At(r, "unused")

MCNext ==
  \/ /\ Running /\ UNCHANGED crashes
     /\ requests' = requests + (IF Started \/ DispatchedAgain THEN 1 ELSE 0)
     /\ requests' <= MaxRequests
  \/ crashes < MaxCrashes /\ Crash /\ crashes' = crashes + 1 /\ UNCHANGED requests

MCSpec == MCInit /\ [][MCNext]_mcVars

MCFairSpec ==
  MCSpec /\ \A r \in Run : WF_mcVars(~Frozen(r) /\ ThreadStep(r) /\ UNCHANGED <<crashes, requests>>)

MCSymmetry == Permutations(Run) \cup Permutations(Request)
==============================================================================
