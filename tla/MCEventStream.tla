---------------------------- MODULE MCEventStream ----------------------------
(* EventStream for TLC: a bounded number of events.  The fairness is that   *)
(* of running threads and coroutines: a publication in progress ends, an    *)
(* open stream sends what is in its queue, and the agent's last event comes *)
EXTENDS EventStream, TLC

CONSTANTS
  MaxEvents,  \* bound on the events published
  Errors      \* may the agent publish an error event in the middle of a task

MayPublish(p, k) ==
  /\ Len(published) < MaxEvents
  /\ k = "error" => Errors
  /\ Publish(p, k)

MCNext ==
  \/ \E p \in Publisher, k \in Kind : MayPublish(p, k)
  \/ \E p \in Publisher : Publishing(p)
  \/ \E s \in Stream : Subscribe(s) \/ Handling(s) \/ Disconnect(s)

MCSpec == Init /\ [][MCNext]_vars

MCFairSpec ==
  /\ MCSpec
  /\ \A p \in Publisher : WF_vars(Publishing(p))
  /\ \A s \in Stream : WF_vars(Handling(s))
==============================================================================
