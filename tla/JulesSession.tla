----------------------------- MODULE JulesSession -----------------------------
(***************************************************************************)
(* JulesProvider of backend/ai_provider.py, which turns Google's           *)
(* asynchronous Jules API into synchronous calls: a call creates a remote  *)
(* session, polls it until it ends or the deadline passes, approves the    *)
(* plan it may ask to have approved, and collects its result.              *)
(*                                                                         *)
(* Every request goes through _request, which repeats it when no usable    *)
(* answer came.  The server may have received such a request all the same, *)
(* and may act on it at any later time: the model keeps it on the wire.    *)
(*                                                                         *)
(* The Jules server is external and modelled from how the code uses it.    *)
(* Calls share nothing but the diagnostics, counters that nothing depends  *)
(* on and that are left out.                                               *)
(*                                                                         *)
(* An operator XMutant is X with a plausible bug; no action uses it.       *)
(***************************************************************************)
EXTENDS Integers, Sequences

CONSTANTS
  Call,       \* the calls of plan, edit, generate, stream_chat, ...
  MaxRetries  \* max_retries

ASSUME RetriesAssumption == MaxRetries \in Nat

VARIABLES
  at,        \* where each call is
  editing,   \* the calls of edit
  attempt,   \* attempt, of the request each call is at
  own,       \* number of the session each call knows, or 0
  expired,   \* the calls whose polling deadline has passed
  remote,    \* the sessions the server has made for each call
  creates,   \* POST /sessions of each call still on the wire
  approvals, \* calls of which a POST :approvePlan is still on the wire
  late       \* history: requests each call sent after its deadline

placeVars == <<at, attempt, late>>
serverVars == <<remote, creates, approvals>>
julesVars == <<at, editing, attempt, own, expired, remote, creates, approvals, late>>

------------------------------------------------------------------------------
(* Data *)

State == {"planning", "awaiting", "working", "completed", "failed"}

Terminal == {"completed", "failed"}

\* Where a call is: before it, at a request, asleep between two polls, ended.
Requesting == {"create", "get", "approve", "edits", "text"}
Polling == {"get", "approve", "sleep"}
Ended == {"returned", "raised"}
Place == {"idle", "sleep"} \cup Requesting \cup Ended

JulesTypeOK ==
  /\ at \in [Call -> Place]
  /\ editing \subseteq Call
  /\ attempt \in [Call -> 0..MaxRetries]
  /\ own \in [Call -> Nat]
  /\ expired \subseteq Call
  /\ remote \in [Call -> Seq(State)]
  /\ creates \in [Call -> Nat]
  /\ approvals \subseteq Call
  /\ late \in [Call -> Nat]

Known(c) == remote[c][own[c]]

------------------------------------------------------------------------------
(* The call's side *)

\* A request sent by c is late when the deadline has passed.
CountLate(c) ==
  late' = IF c \in expired THEN [late EXCEPT ![c] = @ + 1] ELSE late

\* c's next request, or its end: a request starts with its first attempt.
Goto(c, place) ==
  /\ at' = [at EXCEPT ![c] = place]
  /\ attempt' = [attempt EXCEPT ![c] = 0]
  /\ IF place \in Requesting THEN CountLate(c) ELSE UNCHANGED late

Begin(c) ==
  /\ at[c] = "idle"
  /\ at' = [at EXCEPT ![c] = "create"]
  /\ editing' \in {editing, editing \cup {c}}
  /\ UNCHANGED <<attempt, own, expired, serverVars, late>>

\* What AIError does to the caller of _request: only _approve_plan's catches.
Fail(c) == Goto(c, IF at[c] = "approve" THEN "sleep" ELSE "raised")

AgainMutant(c) == UNCHANGED <<at, attempt>> /\ CountLate(c)

Again(c) ==
  /\ attempt' = [attempt EXCEPT ![c] = @ + 1]
  /\ CountLate(c)
  /\ UNCHANGED at

MayRetry(c) == attempt[c] < MaxRetries

\* A timeout, a broken connection, 429 or 5xx: the request may be on its way.
Lost(c) ==
  /\ at[c] \in Requesting
  /\ IF MayRetry(c) THEN Again(c) ELSE Fail(c)
  /\ creates' = IF at[c] = "create" THEN [creates EXCEPT ![c] = @ + 1] ELSE creates
  /\ approvals' = IF at[c] = "approve" THEN approvals \cup {c} ELSE approvals
  /\ UNCHANGED <<editing, own, expired, remote>>

\* Any other error status: the server has done nothing.
Refused(c) ==
  /\ at[c] \in Requesting
  /\ Fail(c)
  /\ UNCHANGED <<editing, own, expired, serverVars>>

\* The server's side of the two requests that change something there.
Opened(c) == [remote EXCEPT ![c] = Append(@, "planning")]

PlanApproved(c) ==
  IF own[c] \in DOMAIN remote[c] /\ Known(c) = "awaiting"
    THEN [remote EXCEPT ![c][own[c]] = "working"]
    ELSE remote

\* The server has done what it was asked, but its answer is no JSON, or names
\* no session: an error that no caller catches.
Garbled(c) ==
  /\ at[c] \in Requesting
  /\ Goto(c, "raised")
  /\ remote' = CASE at[c] = "create" -> Opened(c)
                 [] at[c] = "approve" -> PlanApproved(c)
                 [] OTHER -> remote
  /\ UNCHANGED <<editing, own, expired, creates, approvals>>

Created(c) ==
  /\ at[c] = "create"
  /\ remote' = Opened(c)
  /\ own' = [own EXCEPT ![c] = Len(remote[c]) + 1]
  /\ Goto(c, "get")
  /\ UNCHANGED <<editing, expired, creates, approvals>>

AfterPollMutant(c, s) ==
  CASE s = "awaiting" -> "approve"
    [] s = "planning" -> "sleep"
    [] OTHER -> IF c \in editing THEN "edits" ELSE "text"

\* What _poll_to_terminal and its caller do next, in state s of the session.
AfterPoll(c, s) ==
  CASE s = "awaiting" -> "approve"
    [] s \in Terminal -> IF c \in editing THEN "edits" ELSE "text"
    [] OTHER -> "sleep"

Got(c) ==
  /\ at[c] = "get"
  /\ Goto(c, AfterPoll(c, Known(c)))
  /\ UNCHANGED <<editing, own, expired, serverVars>>

Approved(c) ==
  /\ at[c] = "approve"
  /\ remote' = PlanApproved(c)
  /\ Goto(c, "sleep")
  /\ UNCHANGED <<editing, own, expired, creates, approvals>>

WakeMutant(c) ==
  /\ at[c] = "sleep"
  /\ at' = [at EXCEPT ![c] = "get"]
  /\ expired' = expired \ {c}
  /\ late' = [late EXCEPT ![c] = 0]
  /\ UNCHANGED <<editing, attempt, own, serverVars>>

WakeLateMutant(c) ==
  /\ at[c] = "sleep"
  /\ Goto(c, "get")
  /\ UNCHANGED <<editing, own, expired, serverVars>>

\* The head of the polling loop, the only place that looks at the deadline.
Wake(c) ==
  /\ at[c] = "sleep"
  /\ Goto(c, IF c \in expired THEN "raised" ELSE "get")
  /\ UNCHANGED <<editing, own, expired, serverVars>>

\* A session without edits is asked once more, for the text.
Collected(c) ==
  /\ \/ at[c] = "edits" /\ Goto(c, "text")
     \/ at[c] \in {"edits", "text"} /\ Goto(c, "returned")
  /\ UNCHANGED <<editing, own, expired, serverVars>>

\* The deadline is at least 30 seconds away when the loop is entered.
Expire(c) ==
  /\ at[c] \in Polling
  /\ c \notin expired
  /\ expired' = expired \cup {c}
  /\ UNCHANGED <<placeVars, editing, own, serverVars>>

Step(c) ==
  \/ Begin(c) \/ Lost(c) \/ Refused(c) \/ Garbled(c)
  \/ Created(c) \/ Got(c) \/ Approved(c) \/ Wake(c) \/ Collected(c)

------------------------------------------------------------------------------
(* The server *)

\* A session plans, may ask for approval, works, and ends one way or the other.
Follows(s) ==
  CASE s = "planning" -> {"awaiting", "working", "failed"}
    [] s = "awaiting" -> {"completed", "failed"}
    [] s = "working" -> {"awaiting", "completed", "failed"}
    [] OTHER -> {}

Proceed(c) ==
  /\ \E i \in DOMAIN remote[c] : \E s \in Follows(remote[c][i]) :
       remote' = [remote EXCEPT ![c][i] = s]
  /\ UNCHANGED <<placeVars, editing, own, expired, creates, approvals>>

\* A request without an answer takes effect after all; there may be several
\* approvals, and more than one changes nothing.
LateCreate(c) ==
  /\ creates[c] > 0
  /\ creates' = [creates EXCEPT ![c] = @ - 1]
  /\ remote' = Opened(c)
  /\ UNCHANGED <<placeVars, editing, own, expired, approvals>>

LateApproval(c) ==
  /\ c \in approvals
  /\ approvals' \in {approvals, approvals \ {c}}
  /\ remote' = PlanApproved(c)
  /\ UNCHANGED <<placeVars, editing, own, expired, creates>>

ServerStep(c) == Proceed(c) \/ LateCreate(c) \/ LateApproval(c)

------------------------------------------------------------------------------
JulesInit ==
  /\ at = [c \in Call |-> "idle"]
  /\ editing = {}
  /\ attempt = [c \in Call |-> 0]
  /\ own = [c \in Call |-> 0]
  /\ expired = {}
  /\ remote = [c \in Call |-> <<>>]
  /\ creates = [c \in Call |-> 0]
  /\ approvals = {}
  /\ late = [c \in Call |-> 0]

JulesNext == \E c \in Call : Step(c) \/ Expire(c) \/ ServerStep(c)

JulesSpec == JulesInit /\ [][JulesNext]_julesVars

\* A thread goes on, a request ends by its timeout, and time passes; the
\* server owes nothing.
FairSpec == JulesSpec /\ \A c \in Call : WF_julesVars(Step(c)) /\ WF_julesVars(Expire(c))

------------------------------------------------------------------------------
(* Properties *)

\* A call that returns a result has polled the session its own POST opened to
\* its end: the result is of a session that will not change any more.
ResultIsFinal ==
  \A c \in Call :
    at[c] = "returned" => own[c] \in DOMAIN remote[c] /\ Known(c) \in Terminal

\* A call leaves at most one session per attempt on the server, now or later.
SessionsBounded ==
  \A c \in Call : Len(remote[c]) + creates[c] <= MaxRetries + 1

\* A call outlives its deadline by a bounded number of requests: those of the
\* poll it is in, and of the collection if that poll finds the session ended.
LateRequestsBounded == \A c \in Call : late[c] <= 3 * MaxRetries + 2

\* No call waits for ever, neither for a human to approve a plan nor for a
\* session or a server that does not answer.
CallsEnd == \A c \in Call : at[c] = "create" ~> at[c] \in Ended

------------------------------------------------------------------------------
(* Promises that the code does not keep *)

\* "each synchronous call creates a short-lived Jules session".
OneSessionPerCall == \A c \in Call : Len(remote[c]) <= 1

\* What an answer of generate says: Jules completed the session.
ResultMeansCompleted ==
  \A c \in Call : at[c] = "returned" => Known(c) = "completed"
==============================================================================
