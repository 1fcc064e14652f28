-------------------------- MODULE MCProviderManager ---------------------------
(* ProviderManager for TLC: the environment prefers local and has no key; a  *)
(* user prefers mistral, whose adapter is lenient, and has a key for it.     *)
(* Beside the endpoints a behaviour has steps of agents or of calls.         *)
EXTENDS ProviderManager

VARIABLE beside  \* which of them

MCInit == Init /\ beside \in {"agents", "calls"}

MCNext ==
  /\ \/ Endpoint
     \/ beside = "agents" /\ \E a \in Agent : AgentStep(a)
     \/ beside = "calls" /\ \E c \in Caller : CallStep(c)
  /\ UNCHANGED beside

MCSpec == MCInit /\ [][MCNext]_<<vars, beside>>

MCOrder == <<"local", "mistral">>
MCPreferred == [server |-> "local", user |-> "mistral"]
MCKeys == [server |-> {}, user |-> {"mistral"}]
MCOwner == [a \in Agent |-> "user"]
MCFallback == <<>>
==============================================================================
