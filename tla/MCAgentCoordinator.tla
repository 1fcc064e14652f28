------------------------- MODULE MCAgentCoordinator --------------------------
(***************************************************************************)
(* AgentCoordinator for TLC: every role has its agent, as importing the    *)
(* seven agent modules registers them.                                     *)
(***************************************************************************)
EXTENDS AgentCoordinator

MCRegistered == Role
==============================================================================
