------------------------------- MODULE Sessions -------------------------------
(***************************************************************************)
(* backend/sessions.py behind its endpoints in main.py: rows that bind a   *)
(* repository to a workspace.  The create endpoint looks for an active     *)
(* session of the repository and, in a second call of the database,        *)
(* touches what it found or inserts a row; others run between.             *)
(***************************************************************************)
EXTENDS Naturals, Sequences, SequencesExt

CONSTANTS
  Visit,        \* the create requests that can be under way
  Project,      \* repositories
  MaxSessions   \* bounds the rows ever made

ASSUME MaxSessionsAssumption == MaxSessions \in Nat

VARIABLES
  sessions,  \* the rows, by last_active, the oldest first
  visit,     \* the create requests
  inserted   \* rows ever made

sessionVars == <<sessions, visit, inserted>>

------------------------------------------------------------------------------

\* beside: the active sessions of the repository this one was made or restored
\* beside, as far as its request could know no better (history).
Row == [id : Nat, repo : Project, state : {"active", "closed"}, beside : SUBSET Nat]

\* appeared: what became active since the request looked (history).
NoVisit == [pc |-> "idle", repo |-> "", found |-> 0, appeared |-> {}]

Rows == {sessions[i] : i \in DOMAIN sessions}

ActiveOf(repo) == {r \in Rows : r.repo = repo /\ r.state = "active"}

Ids(rows) == {r.id : r \in rows}

\* Where the rows of repo are, and the active ones among them.
Of(repo) == {i \in DOMAIN sessions : sessions[i].repo = repo}

ActiveAt(repo) == {i \in Of(repo) : sessions[i].state = "active"}

Newest(at) == CHOOSE i \in at : \A j \in at : j <= i

\* A bug: the newest session, if it is active.
FindActiveMutant(repo) ==
  IF Of(repo) = {} \/ Newest(Of(repo)) \notin ActiveAt(repo) THEN 0 ELSE sessions[Newest(Of(repo))].id

\* find_active_for_repo: the newest active session, 0 for none.
FindActive(repo) == IF ActiveAt(repo) = {} THEN 0 ELSE sessions[Newest(ActiveAt(repo))].id

\* touch_session moves the row to the end.
Touched(i, row) == Append(RemoveAt(sessions, i), row)

\* Requests that have looked see none of what becomes active now.
Appears(repo, id) ==
  [v \in Visit |-> IF visit[v].pc = "insert" /\ visit[v].repo = repo
                   THEN [visit[v] EXCEPT !.appeared = @ \cup {id}] ELSE visit[v]]

\* api_sessions_create
Look(v, repo) ==
  LET id == FindActive(repo)
  IN  /\ visit[v].pc = "idle"
      /\ visit' = [visit EXCEPT ![v] = [NoVisit EXCEPT !.pc = IF id = 0 THEN "insert" ELSE "touch",
                                                       !.repo = repo, !.found = id]]
      /\ UNCHANGED <<sessions, inserted>>

Insert(v) ==
  LET repo == visit[v].repo
      row == [id |-> inserted + 1, repo |-> repo, state |-> "active", beside |-> visit[v].appeared]
  IN  /\ visit[v].pc = "insert"
      /\ sessions' = Append(sessions, row)
      /\ inserted' = inserted + 1
      /\ visit' = [Appears(repo, row.id) EXCEPT ![v] = NoVisit]

\* The touch of what was found then: its state stays what it has become; without
\* the row it does nothing.
Reuse(v) ==
  /\ visit[v].pc = "touch"
  /\ \/ \E i \in DOMAIN sessions : /\ sessions[i].id = visit[v].found
                                   /\ sessions' = Touched(i, sessions[i])
     \/ (\A r \in Rows : r.id # visit[v].found) /\ UNCHANGED sessions
  /\ visit' = [visit EXCEPT ![v] = NoVisit]
  /\ UNCHANGED inserted

\* api_sessions_restore looks at no other session; 404 without the row.
RestoreSession(i) ==
  LET row == sessions[i]
      others == Ids(ActiveOf(row.repo)) \ {row.id}
  IN  /\ sessions' = Touched(i, [row EXCEPT !.state = "active", !.beside = others])
      /\ visit' = Appears(row.repo, row.id)
      /\ UNCHANGED inserted

\* api_sessions_close
CloseSession(i) ==
  /\ sessions' = Touched(i, [sessions[i] EXCEPT !.state = "closed"])
  /\ UNCHANGED <<visit, inserted>>

\* api_sessions_delete
DeleteSession(i) ==
  /\ sessions' = RemoveAt(sessions, i)
  /\ UNCHANGED <<visit, inserted>>

SessionsInit ==
  /\ sessions = <<>>
  /\ visit = [v \in Visit |-> NoVisit]
  /\ inserted = 0

\* A request that begins, and the rest of one.
SessionsRequest ==
  \/ \E v \in Visit, repo \in Project : inserted < MaxSessions /\ Look(v, repo)
  \/ \E i \in DOMAIN sessions : RestoreSession(i) \/ CloseSession(i) \/ DeleteSession(i)

SessionsStep == \E v \in Visit : Insert(v) \/ Reuse(v)

SessionsNext == SessionsRequest \/ SessionsStep

SessionsSpec == SessionsInit /\ [][SessionsNext]_sessionVars

------------------------------------------------------------------------------
(* Properties *)

\* A repository has two active sessions only if one was restored beside the
\* other, or the other became active after its create request had looked.
OneActivePerRepo ==
  \A repo \in Project : \A r, s \in ActiveOf(repo) :
    r.id # s.id => r.id \in s.beside \/ s.id \in r.beside

\* What the endpoint's comment says, "If an active session for this repo
\* already exists, reuse it".
ActiveIsReused ==
  \A repo \in Project : \A r, s \in ActiveOf(repo) : r.id = s.id
===============================================================================
