------------------------------ MODULE ServerData ------------------------------
(***************************************************************************)
(* Requests and backups on one database: a backup is taken, restored or    *)
(* rotated between the steps of any request.                               *)
(***************************************************************************)
EXTENDS Accounts, Backup

\* What Backup copies is the tables of Accounts; a file just created reads as a
\* database without rows.
ASSUME ServerDataAssumption ==
  /\ Content = Tables
  /\ Empty = EmptyTables

svars == <<avars, directoryVars>>

------------------------------------------------------------------------------

Request == AccountsNext /\ Seen

\* What a step of a backup thread does to the requests: a database that was torn
\* or restored does not have the rows they wrote.
Shaken ==
  IF db' = db THEN call
  ELSE Noted([c \in Call |-> IF Doing(c, "set_up") THEN call[c] ELSE [call[c] EXCEPT !.alone = FALSE]])

\* A call of the manager counts as one of the calls of the behaviour.
Maintenance(j) ==
  /\ At(j, "idle") => made < MaxCalls
  /\ made' = IF At(j, "idle") THEN made + 1 ELSE made
  /\ JobStep(j)
  /\ call' = Shaken
  /\ UNCHANGED <<authSecret, session, environ>>

Init == AccountsInit /\ DirectoryInit

Next ==
  \/ Request
  \/ \E j \in Job : Maintenance(j)
  \/ Tick /\ UNCHANGED processVars

Spec == Init /\ [][Next]_svars

------------------------------------------------------------------------------
(* Properties *)

\* ConnectionCoherent of Accounts also across restored databases that can be
\* read: a backup taken in the middle of a connect brings its torn state back,
\* and a restore in the middle of one tears it.
ConnectionsCoherent == db # Torn => ConnectionCoherent
===============================================================================
