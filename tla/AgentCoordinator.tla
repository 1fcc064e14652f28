-------------------------- MODULE AgentCoordinator ---------------------------
(***************************************************************************)
(* The multi-agent path of a task: AgentCoordinator.execute of             *)
(* agents/coordinator.py, the seven agents it dispatches to, and           *)
(* _run_via_coordinator and run of backend/agent.py, which turn its result *)
(* into the task's status.                                                 *)
(*                                                                         *)
(* An agent is what it does to the shared context and to the workspace,    *)
(* the outcome it reports and its next_agent hint.  A file is a Python     *)
(* file that compiles or does not; what the model writes, and what the     *)
(* project's own tests say, is anything.                                   *)
(*                                                                         *)
(* An operator XMutant is X with a plausible bug; no action uses it.       *)
(***************************************************************************)
EXTENDS Integers

CONSTANTS
  File,           \* the files of the workspace
  Registered,     \* the roles the registry has an agent for
  MaxIterations,  \* MAX_ITERATIONS (30 in the code)
  MaxFixRounds,   \* MAX_FIX_ROUNDS (2 in the code)
  NoRole          \* a next_agent of None

Role == {"planner", "repository", "coding", "terminal", "testing", "review", "git"}

ASSUME RoleAssumption == Registered \subseteq Role /\ NoRole \notin Role
ASSUME BudgetAssumption == MaxIterations \in Nat /\ MaxFixRounds \in Nat

VARIABLES
  pc,          \* where execute is
  state,       \* self.state
  hint,        \* last_result.next_agent
  iterations,
  fixRounds,   \* self.fix_rounds
  result,      \* how execute ended
  status,      \* the task's status
  cancel,      \* rt.cancel
  relevant,    \* ctx.relevant_files
  edits,       \* ctx.edits
  broken,      \* the files that do not compile
  changed,     \* the files git has changes of
  tested,      \* history: has the testing agent passed the workspace as it is
  reviewed,    \* history: the files reviewed since they were last written
  committed    \* history: the files committed

loopVars == <<pc, state, hint, iterations, fixRounds, result>>
fileVars == <<relevant, edits, broken, changed>>
historyVars == <<tested, reviewed, committed>>
vars == <<loopVars, status, cancel, fileVars, historyVars>>

------------------------------------------------------------------------------
(* Data *)

CoordinatorState ==
  {"init", "planning", "repository", "coding", "terminal", "testing", "review",
   "git", "done", "failed"}

\* _STATE_AGENT, read by _role_to_state.
StateOf == [planner |-> "planning", repository |-> "repository",
            coding |-> "coding", terminal |-> "terminal", testing |-> "testing",
            review |-> "review", git |-> "git"]

AgentOf(s) == CHOOSE r \in Role : StateOf[r] = s

NextOnSuccess ==
  [init |-> "planning", planning |-> "repository", repository |-> "coding",
   coding |-> "terminal", terminal |-> "testing", testing |-> "review",
   review |-> "git", git |-> "done"]

Result == {"none", "done", "failed", "cancelled", "exhausted"}

TypeOK ==
  /\ pc \in {"loop", "dispatched", "handling", "returned", "ended"}
  /\ state \in CoordinatorState
  /\ hint \in Role \cup {NoRole}
  /\ iterations \in Nat /\ fixRounds \in 0..MaxFixRounds
  /\ result \in Result
  /\ status \in {"running", "success", "failed", "cancelled"}
  /\ cancel \in BOOLEAN
  /\ relevant \subseteq File /\ edits \subseteq File
  /\ broken \subseteq File /\ changed \subseteq File
  /\ tested \in BOOLEAN
  /\ reviewed \subseteq File /\ committed \subseteq File

------------------------------------------------------------------------------
(* execute *)

Return(r) == result' = r /\ pc' = "returned"

\* The head of the loop: cancelled, out of iterations, or the next state.
Cancelled ==
  /\ pc = "loop" /\ cancel
  /\ Return("cancelled")
  /\ UNCHANGED <<state, hint, iterations, fixRounds, status, cancel, fileVars,
                 historyVars>>

Exhausted ==
  /\ pc = "loop" /\ ~cancel
  /\ iterations >= MaxIterations
  /\ Return("exhausted")
  /\ UNCHANGED <<state, hint, iterations, fixRounds, status, cancel, fileVars,
                 historyVars>>

\* _next_state: the hint of the last result, else the linear progression.
NextState == IF hint # NoRole THEN StateOf[hint] ELSE NextOnSuccess[state]

Advance ==
  /\ pc = "loop" /\ ~cancel
  /\ iterations < MaxIterations
  /\ iterations' = iterations + 1
  /\ state' = NextState
  /\ IF state' = "done" THEN Return("done")
     ELSE IF AgentOf(state') \in Registered
          THEN pc' = "dispatched" /\ UNCHANGED result
          ELSE Return("failed")
  /\ UNCHANGED <<hint, fixRounds, status, cancel, fileVars, historyVars>>

\* The agent's result was a success.
Success(h) ==
  /\ hint' = h
  /\ pc' = "loop"
  /\ UNCHANGED <<state, fixRounds, iterations, result>>

Recoverable == state \in {"testing", "review", "coding", "terminal"}

FailureUncountedMutant ==
  IF Recoverable /\ fixRounds < MaxFixRounds
  THEN /\ state' = "coding" /\ hint' = "coding" /\ pc' = "loop"
       /\ UNCHANGED <<iterations, result, fixRounds>>
  ELSE /\ state' = "failed"
       /\ Return("failed")
       /\ UNCHANGED <<hint, fixRounds, iterations>>

FailureForgottenMutant ==
  IF Recoverable /\ fixRounds < MaxFixRounds
  THEN /\ fixRounds' = fixRounds + 1
       /\ hint' = NoRole /\ pc' = "loop"
       /\ UNCHANGED <<iterations, result, state>>
  ELSE /\ state' = "failed"
       /\ Return("failed")
       /\ UNCHANGED <<hint, fixRounds, iterations>>

\* It was a failure: back to coding within the budget, else the end.
Failure ==
  IF Recoverable /\ fixRounds < MaxFixRounds
  THEN /\ fixRounds' = fixRounds + 1
       /\ state' = "coding" /\ hint' = "coding" /\ pc' = "loop"
       /\ UNCHANGED <<iterations, result>>
  ELSE /\ state' = "failed"
       /\ Return("failed")
       /\ UNCHANGED <<hint, fixRounds, iterations>>

------------------------------------------------------------------------------
(* The agents: BaseAgent.run, then handle *)

Run ==
  /\ pc = "dispatched"
  /\ IF cancel THEN Failure
     ELSE pc' = "handling" /\ UNCHANGED <<state, hint, iterations, fixRounds, result>>
  /\ UNCHANGED <<status, cancel, fileVars, historyVars>>

Handling(s) == pc = "handling" /\ state = s /\ UNCHANGED <<status, cancel>>

\* handle raises before it has done anything.
Raise ==
  /\ pc = "handling"
  /\ Failure
  /\ UNCHANGED <<status, cancel, fileVars, historyVars>>

Plan ==
  /\ Handling("planning")
  /\ Success("repository")
  /\ UNCHANGED <<fileVars, historyVars>>

Repository ==
  /\ Handling("repository")
  /\ relevant' \in SUBSET File
  /\ Success("coding")
  /\ UNCHANGED <<edits, broken, changed, historyVars>>

\* The files of E are written, those of B so that they do not compile; an
\* edit that is not as expected raises in the middle, before ctx.edits is set.
Coding ==
  /\ Handling("coding")
  /\ \E E \in SUBSET File :
       /\ \E B \in SUBSET E : broken' = (broken \ E) \cup B
       /\ changed' = changed \cup E
       /\ tested' = (tested /\ E = {})
       /\ reviewed' = reviewed \ E
       /\ \/ edits' = E /\ Success("terminal")
          \/ UNCHANGED edits /\ Failure
  /\ UNCHANGED <<relevant, committed>>

\* Compile the files of ctx.edits, or nothing when the workspace cannot be
\* listed: nothing to do, or stopped by a cancel, is a success; a command that
\* is refused, killed or not over in time a failure.
Terminal ==
  /\ Handling("terminal")
  /\ \E C \in {{}, edits} :
       \/ (C \cap broken = {} \/ cancel) /\ Success("testing")
       \/ C # {} /\ Failure
  /\ UNCHANGED <<fileVars, historyVars>>

\* The project's own command, if it has one, says anything.
Testing ==
  /\ Handling("testing")
  /\ \/ Success("review") /\ tested' = TRUE
     \/ Failure /\ UNCHANGED tested
  /\ UNCHANGED <<fileVars, reviewed, committed>>

ToReviewMutant == relevant

\* The files of the last edits, or the relevant ones if there are none.
ToReview == IF edits = {} THEN relevant ELSE edits

\* Each is compiled, up to a cancel; one that does not compile is an error.
Review ==
  /\ Handling("review")
  /\ \E S \in SUBSET ToReview :
       /\ S = ToReview \/ cancel
       /\ reviewed' = reviewed \cup S
       /\ IF S \cap broken = {} THEN Success("git") ELSE Failure
  /\ UNCHANGED <<fileVars, tested, committed>>

\* No repository or nothing changed; a commit of everything, after which a push
\* may time out, which raises; or git fails before it.
Git ==
  /\ Handling("git")
  /\ \/ Success(NoRole) /\ UNCHANGED <<changed, committed>>
     \/ /\ changed # {}
        /\ committed' = committed \cup changed
        /\ changed' = {}
        /\ Success(NoRole) \/ Failure
     \/ changed # {} /\ Failure /\ UNCHANGED <<changed, committed>>
  /\ UNCHANGED <<relevant, edits, broken, tested, reviewed>>

------------------------------------------------------------------------------
(* Around execute *)

\* _run_via_coordinator raises unless the result is a success; run() makes a
\* status of that, and of the flag.
Conclude ==
  /\ pc = "returned"
  /\ pc' = "ended"
  /\ status' = IF result # "done" THEN "failed"
               ELSE IF cancel THEN "cancelled" ELSE "success"
  /\ UNCHANGED <<state, hint, iterations, fixRounds, result, cancel, fileVars,
                 historyVars>>

\* cancel_task.
Cancel ==
  /\ ~cancel /\ pc # "ended"
  /\ cancel' = TRUE
  /\ UNCHANGED <<loopVars, status, fileVars, historyVars>>

\* A workspace without uncommitted changes; any of its files may be broken.
Init ==
  /\ pc = "loop" /\ state = "init" /\ hint = NoRole
  /\ iterations = 0 /\ fixRounds = 0 /\ result = "none"
  /\ status = "running" /\ cancel = FALSE
  /\ relevant = {} /\ edits = {} /\ broken \in SUBSET File /\ changed = {}
  /\ tested = FALSE /\ reviewed = {} /\ committed = {}

Next ==
  \/ Cancelled \/ Exhausted \/ Advance
  \/ Run \/ Raise
  \/ Plan \/ Repository \/ Coding \/ Terminal \/ Testing \/ Review \/ Git
  \/ Conclude \/ Cancel

Spec == Init /\ [][Next]_vars

------------------------------------------------------------------------------
(* Properties *)

\* Only work that the testing agent has passed, as it is, is committed: no
\* hint, failure, fix round or cancel leads to the git agent around it.
CommitIsTested == [][committed' # committed => tested]_vars

\* A success means what it says: the workspace is as the testing agent passed
\* it, and the last edits were reviewed and compile.
DoneIsVerified ==
  result = "done" => tested /\ edits \subseteq reviewed /\ edits \cap broken = {}

\* The iterations are bounded by the fix rounds alone, whatever the agents hint:
\* a cap of 4 * MaxFixRounds + 8 would end no run by itself.
BudgetSuffices == pc = "loop" => iterations < 4 * fixRounds + 8

------------------------------------------------------------------------------
(* Promises that the code does not keep *)

\* What review_agent.py's header says: the generated code is reviewed before
\* commit.
CommitIsReviewed == [][committed' \ committed \subseteq reviewed]_vars

\* What _run_via_coordinator's docstring says of rt.cancel: cancellation still
\* works.  A run that was stopped by the cancel ends as cancelled.
CancelledEndsCancelled ==
  pc = "ended" /\ result = "cancelled" => status = "cancelled"
==============================================================================
