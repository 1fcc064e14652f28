----------------------- MODULE AgentCoordinatorProofs ------------------------
(***************************************************************************)
(* Theorems about AgentCoordinator, for every set of files, every registry *)
(* and every pair of budgets.                                              *)
(*                                                                         *)
(* The inductive invariant follows the rank of a state, its place on the   *)
(* happy path.  Every success goes up by one and costs one iteration, a    *)
(* failure goes back to coding, four ranks below review at most, and costs *)
(* a fix round; and nothing gets above testing but by a success of the     *)
(* testing agent.                                                          *)
(***************************************************************************)
EXTENDS AgentCoordinator, TLAPS

AgentState == {"planning", "repository", "coding", "terminal", "testing",
               "review", "git"}

Rank == [init |-> 0, planning |-> 1, repository |-> 2, coding |-> 3,
         terminal |-> 4, testing |-> 5, review |-> 6, git |-> 7, done |-> 8,
         failed |-> 8]

Working == pc \in {"dispatched", "handling"}

Routed ==
  /\ result # "none" => pc \in {"returned", "ended"}
  /\ pc = "loop" /\ hint = NoRole => state \in {"init", "git"}
  /\ Working => state \in AgentState

Budgeted ==
  /\ pc = "loop" => iterations < 4 * fixRounds + Rank[NextState]
  /\ Working => iterations <= 4 * fixRounds + Rank[state]
  /\ MaxIterations >= 4 * MaxFixRounds + 8 => result # "exhausted"

Verified == edits \subseteq reviewed /\ edits \cap broken = {}

TestedAhead ==
  /\ pc = "loop" /\ NextState \in {"review", "git", "done"} => tested
  /\ Working /\ state \in {"review", "git"} => tested

ReviewedAhead ==
  /\ pc = "loop" /\ NextState \in {"git", "done"} => cancel \/ Verified
  /\ Working /\ state = "git" => cancel \/ Verified

IInv == TypeOK /\ Routed /\ Budgeted /\ TestedAhead /\ ReviewedAhead
             /\ DoneIsVerified

------------------------------------------------------------------------------

\* The role a hint names runs in the state of its name, so that what a hint
\* leads to is a state of an agent.
LEMMA HintsLeadToAgents ==
  ASSUME NEW h \in Role
  PROVE  StateOf[h] \in AgentState /\ Rank[StateOf[h]] \in 1..7
BY DEF Role, StateOf, AgentState, Rank

\* A success at a state hints at the next rank, and git at none: the routing
\* and the budget are kept.
LEMMA SuccessKeeps ==
  ASSUME TypeOK, Routed, Budgeted, pc = "handling",
         NEW h \in Role \cup {NoRole}, Success(h),
         IF h = NoRole THEN state = "git"
                       ELSE Rank[StateOf[h]] = Rank[state] + 1
  PROVE  /\ Routed' /\ Budgeted'
         /\ pc' = "loop"
         /\ NextState' = IF h = NoRole THEN "done" ELSE StateOf[h]
<1>1. /\ hint' = h /\ pc' = "loop" /\ state' = state
      /\ fixRounds' = fixRounds /\ iterations' = iterations /\ result' = result
  BY DEF Success
<1>2. /\ pc' = "loop"
      /\ NextState' = IF h = NoRole THEN "done" ELSE StateOf[h]
  BY <1>1 DEF NextState, NextOnSuccess
<1>3. result = "none"
  BY DEF Routed
<1>4. Routed'
  BY <1>1, <1>3 DEF Routed, Working
<1>5. iterations <= 4 * fixRounds + Rank[state] /\ iterations \in Nat
      /\ fixRounds \in Nat /\ Rank[state] \in Nat
  BY BudgetAssumption DEF Budgeted, Working, TypeOK, CoordinatorState, Rank
<1>6. Rank[NextState'] = Rank[state] + 1
  BY <1>2 DEF Rank
<1>7. Budgeted'
  BY <1>1, <1>2, <1>3, <1>5, <1>6 DEF Budgeted, Working
<1>8. QED
  BY <1>2, <1>4, <1>7

\* A failure within the fix budget leads to coding, the others to the end.
LEMMA FailureKeeps ==
  ASSUME TypeOK, Routed, Budgeted, Working, Failure
  PROVE  /\ Routed' /\ Budgeted'
         /\ pc' = "loop" => NextState' = "coding"
         /\ ~Working' /\ result' # "done"
         /\ /\ pc' \in {"loop", "returned"} /\ state' \in CoordinatorState
            /\ hint' \in Role \cup {NoRole} /\ iterations' = iterations
            /\ fixRounds' \in 0..MaxFixRounds /\ result' \in Result
<1>1. result = "none" /\ iterations \in Nat /\ fixRounds \in 0..MaxFixRounds
      /\ iterations <= 4 * fixRounds + Rank[state] /\ hint \in Role \cup {NoRole}
  BY DEF Routed, Working, Budgeted, TypeOK
<1>2. CASE Recoverable /\ fixRounds < MaxFixRounds
  <2>1. /\ fixRounds' = fixRounds + 1 /\ state' = "coding" /\ hint' = "coding"
        /\ pc' = "loop" /\ iterations' = iterations /\ result' = result
    BY <1>2 DEF Failure
  <2>2. NextState' = "coding" /\ hint' # NoRole
    BY <2>1, RoleAssumption DEF NextState, StateOf, Role
  <2>3. Rank[state] <= 6 /\ Rank[state] \in Nat /\ Rank["coding"] = 3
    BY <1>2 DEF Recoverable, Rank
  <2>4. iterations' < 4 * fixRounds' + Rank[NextState']
    BY <1>1, <2>1, <2>2, <2>3, BudgetAssumption
  <2>5. Routed' /\ Budgeted'
    BY <1>1, <2>1, <2>2, <2>4 DEF Routed, Budgeted, Working
  <2>6. fixRounds' \in 0..MaxFixRounds
    BY <1>1, <1>2, <2>1, BudgetAssumption
  <2>7. QED
    BY <1>1, <2>1, <2>2, <2>5, <2>6 DEF Working, CoordinatorState, Role, Result
<1>3. CASE ~(Recoverable /\ fixRounds < MaxFixRounds)
  <2>1. /\ state' = "failed" /\ result' = "failed" /\ pc' = "returned"
        /\ hint' = hint /\ fixRounds' = fixRounds /\ iterations' = iterations
    BY <1>3 DEF Failure, Return
  <2>2. QED
    BY <1>1, <2>1 DEF Routed, Budgeted, Working, CoordinatorState,
                      Result
<1>4. QED
  BY <1>2, <1>3

\* The routing part of TypeOK after a success.
LEMMA SuccessTyped ==
  ASSUME TypeOK, NEW h \in Role \cup {NoRole}, Success(h)
  PROVE  /\ pc' = "loop" /\ state' \in CoordinatorState
         /\ hint' \in Role \cup {NoRole} /\ iterations' \in Nat
         /\ fixRounds' \in 0..MaxFixRounds /\ result' \in Result
BY DEF Success, TypeOK

\* What the loop goes to next is above init.
LEMMA NextRank ==
  ASSUME TypeOK, Routed, pc = "loop"
  PROVE  Rank[NextState] \in 1..8
<1>1. CASE hint # NoRole
  <2>1. NextState = StateOf[hint] /\ hint \in Role
    BY <1>1 DEF NextState, TypeOK
  <2>2. QED
    BY <2>1, HintsLeadToAgents
<1>2. CASE hint = NoRole
  <2>1. NextState = NextOnSuccess[state] /\ state \in {"init", "git"}
    BY <1>2 DEF NextState, Routed
  <2>2. QED
    BY <2>1 DEF NextOnSuccess, Rank
<1>3. QED
  BY <1>1, <1>2

\* A run starts within the invariant.
LEMMA InitIInv == Init => IInv
<1> SUFFICES ASSUME Init PROVE IInv
  OBVIOUS
<1>1. NextState = "planning"
  BY DEF Init, NextState, NextOnSuccess
<1>2. TypeOK
  <2>1. fixRounds \in 0..MaxFixRounds /\ iterations \in Nat
    BY BudgetAssumption DEF Init
  <2>2. /\ pc = "loop" /\ state \in CoordinatorState /\ hint = NoRole
        /\ result \in Result /\ status = "running" /\ cancel \in BOOLEAN
        /\ tested \in BOOLEAN
    BY DEF Init, CoordinatorState, Result
  <2>3. /\ relevant \subseteq File /\ edits \subseteq File /\ broken \subseteq File
        /\ changed \subseteq File /\ reviewed \subseteq File
        /\ committed \subseteq File
    BY DEF Init
  <2>4. QED
    BY <2>1, <2>2, <2>3 DEF TypeOK
<1>3. Routed /\ Budgeted
  BY <1>1 DEF Init, Routed, Budgeted, Working, Rank
<1>4. TestedAhead /\ ReviewedAhead /\ DoneIsVerified
  BY <1>1 DEF Init, TestedAhead, ReviewedAhead, DoneIsVerified, Working
<1>5. QED
  BY <1>2, <1>3, <1>4 DEF IInv

\* Every step keeps the invariant.
LEMMA NextIInv == IInv /\ [Next]_vars => IInv'
<1> SUFFICES ASSUME IInv, [Next]_vars PROVE IInv'
  OBVIOUS
<1> USE DEF IInv
<1>1. CASE Cancelled
  <2>1. TypeOK'
    BY <1>1 DEF Cancelled, Return, TypeOK, Result, fileVars, historyVars
  <2>2. QED
    BY <1>1, <2>1 DEF Cancelled, Return, Routed, Budgeted, TestedAhead,
         ReviewedAhead, DoneIsVerified, Working, fileVars, historyVars
<1>2. CASE Exhausted
  <2>1. TypeOK'
    BY <1>2 DEF Exhausted, Return, TypeOK, Result, fileVars, historyVars
  <2>2. Rank[NextState] \in 1..8
    BY <1>2, NextRank DEF Exhausted
  <2>3. iterations < 4 * fixRounds + 8 /\ iterations >= MaxIterations
        /\ iterations \in Nat /\ fixRounds \in 0..MaxFixRounds
    <3>1. iterations \in Nat /\ fixRounds \in 0..MaxFixRounds
      BY DEF TypeOK
    <3>2. iterations < 4 * fixRounds + Rank[NextState] /\ iterations >= MaxIterations
      BY <1>2 DEF Exhausted, Budgeted
    <3>3. QED
      BY <2>2, <3>1, <3>2, BudgetAssumption
  <2>4. ~(MaxIterations >= 4 * MaxFixRounds + 8)
    BY <2>3, BudgetAssumption
  <2>5. Routed' /\ TestedAhead' /\ ReviewedAhead' /\ DoneIsVerified'
    BY <1>2 DEF Exhausted, Return, Routed, TestedAhead, ReviewedAhead,
         DoneIsVerified, Working, fileVars, historyVars
  <2>6. Budgeted'
    BY <1>2, <2>4 DEF Exhausted, Return, Budgeted, Working
  <2>7. QED
    BY <2>1, <2>5, <2>6
<1>3. CASE Advance
  <2>1. state' = NextState /\ iterations' = iterations + 1 /\ result = "none"
        /\ UNCHANGED <<hint, fixRounds, status, cancel, relevant, edits, broken,
                       changed, tested, reviewed, committed>>
    BY <1>3 DEF Advance, fileVars, historyVars, Routed
  <2>2. state' \in AgentState \cup {"done"}
    BY <1>3, <2>1, HintsLeadToAgents
       DEF Advance, TypeOK, NextState, NextOnSuccess, Routed, AgentState
  <2>3. \/ pc' = "returned" /\ result' = "done" /\ state' = "done"
        \/ pc' = "returned" /\ result' = "failed"
        \/ pc' = "dispatched" /\ result' = "none" /\ state' # "done"
    BY <1>3, <2>1 DEF Advance, Return
  <2>4. TypeOK'
    BY <2>1, <2>2, <2>3 DEF TypeOK, AgentState, CoordinatorState, Result
  <2>5. Routed' /\ TestedAhead' /\ ReviewedAhead'
    BY <1>3, <2>1, <2>2, <2>3
       DEF Advance, Routed, TestedAhead, ReviewedAhead, Working, Verified
  <2>6. Budgeted'
    <3>1. iterations' <= 4 * fixRounds + Rank[state']
      <4>1. Rank[state'] \in Nat /\ iterations \in Nat /\ fixRounds \in Nat
        BY <2>2, BudgetAssumption DEF AgentState, Rank, TypeOK
      <4>2. QED
        BY <1>3, <2>1, <4>1 DEF Advance, Budgeted
    <3>2. QED
      BY <2>1, <2>3, <3>1 DEF Budgeted, Working
  <2>7. DoneIsVerified'
    BY <1>3, <2>1, <2>3
       DEF Advance, DoneIsVerified, TestedAhead, ReviewedAhead, Verified
  <2>8. QED
    BY <2>4, <2>5, <2>6, <2>7
<1>4. CASE Run
  <2>1. UNCHANGED <<status, cancel, relevant, edits, broken, changed, tested,
                    reviewed, committed>>
    BY <1>4 DEF Run, fileVars, historyVars
  <2>2. CASE cancel
    <3>1. Failure /\ Working
      BY <1>4, <2>2 DEF Run, Working
    <3>2. TypeOK'
      BY <2>1, <3>1, FailureKeeps DEF TypeOK
    <3>3. QED
      BY <2>1, <3>1, <3>2, FailureKeeps DEF TestedAhead, ReviewedAhead, DoneIsVerified
  <2>3. CASE ~cancel
    <3>1. pc' = "handling" /\ UNCHANGED <<state, hint, iterations, fixRounds, result>>
      BY <1>4, <2>3 DEF Run
    <3>2. TypeOK'
      BY <2>1, <3>1 DEF TypeOK
    <3>3. QED
      BY <1>4, <2>1, <3>1, <3>2 DEF Run, Routed, Budgeted, TestedAhead,
           ReviewedAhead, DoneIsVerified, Working, Verified
  <2>4. QED
    BY <2>2, <2>3
<1>5. CASE Raise
  <2>1. Failure /\ Working
    BY <1>5 DEF Raise, Working
  <2>2. UNCHANGED <<status, cancel, relevant, edits, broken, changed, tested,
                    reviewed, committed>>
    BY <1>5 DEF Raise, fileVars, historyVars
  <2>3. TypeOK'
    BY <2>1, <2>2, FailureKeeps DEF TypeOK
  <2>4. QED
    BY <2>1, <2>2, <2>3, FailureKeeps DEF TestedAhead, ReviewedAhead, DoneIsVerified
<1>6. CASE Plan
  <2>1. pc = "handling" /\ state = "planning" /\ Success("repository")
        /\ UNCHANGED <<status, cancel, relevant, edits, broken, changed, tested,
                       reviewed, committed>>
    BY <1>6 DEF Plan, Handling, fileVars, historyVars
  <2>2. TypeOK'
    BY <2>1, SuccessTyped DEF TypeOK, Role
  <2>3. Routed' /\ Budgeted' /\ pc' = "loop" /\ NextState' = "repository"
    BY <2>1, SuccessKeeps, RoleAssumption DEF Rank, StateOf, Role
  <2>4. QED
    BY <2>1, <2>2, <2>3
       DEF TestedAhead, ReviewedAhead, DoneIsVerified, Working, Success
<1>7. CASE Repository
  <2>1. pc = "handling" /\ state = "repository" /\ Success("coding")
        /\ relevant' \in SUBSET File
        /\ UNCHANGED <<status, cancel, edits, broken, changed, tested, reviewed,
                       committed>>
    BY <1>7 DEF Repository, Handling, historyVars
  <2>2. TypeOK'
    BY <2>1, SuccessTyped DEF TypeOK, Role
  <2>3. Routed' /\ Budgeted' /\ pc' = "loop" /\ NextState' = "coding"
    BY <2>1, SuccessKeeps, RoleAssumption DEF Rank, StateOf, Role
  <2>4. QED
    BY <2>1, <2>2, <2>3
       DEF TestedAhead, ReviewedAhead, DoneIsVerified, Working, Success
<1>8. CASE Coding
  <2>1. pc = "handling" /\ state = "coding"
        /\ UNCHANGED <<status, cancel, relevant, committed>>
    BY <1>8 DEF Coding, Handling
  <2>2. PICK E \in SUBSET File :
          /\ \E B \in SUBSET E : broken' = (broken \ E) \cup B
          /\ changed' = changed \cup E
          /\ tested' = (tested /\ E = {})
          /\ reviewed' = reviewed \ E
          /\ \/ edits' = E /\ Success("terminal")
             \/ UNCHANGED edits /\ Failure
    BY <1>8 DEF Coding
  <2>3. /\ broken' \subseteq File /\ changed' \subseteq File
        /\ tested' \in BOOLEAN /\ reviewed' \subseteq File /\ edits' \subseteq File
    BY <2>2 DEF TypeOK
  <2>4. result = "none"
    BY <2>1 DEF Routed
  <2>5. CASE Success("terminal")
    <3>1. TypeOK'
      BY <2>1, <2>3, <2>5, SuccessTyped DEF TypeOK, Role
    <3>2. Routed' /\ Budgeted' /\ pc' = "loop" /\ NextState' = "terminal"
      BY <2>1, <2>5, SuccessKeeps, RoleAssumption DEF Rank, StateOf, Role
    <3>3. QED
      BY <2>4, <2>5, <3>1, <3>2
         DEF TestedAhead, ReviewedAhead, DoneIsVerified, Working, Success
  <2>6. CASE Failure
    <3>1. Working
      BY <2>1 DEF Working
    <3>2. TypeOK'
      BY <2>1, <2>3, <2>6, <3>1, FailureKeeps DEF TypeOK
    <3>3. QED
      BY <2>6, <3>1, <3>2, FailureKeeps DEF TestedAhead, ReviewedAhead, DoneIsVerified
  <2>7. QED
    BY <2>2, <2>5, <2>6
<1>9. CASE Terminal
  <2>1. pc = "handling" /\ state = "terminal"
        /\ (Success("testing") \/ Failure)
        /\ UNCHANGED <<status, cancel, relevant, edits, broken, changed, tested,
                       reviewed, committed>>
    BY <1>9 DEF Terminal, Handling, fileVars, historyVars
  <2>2. CASE Success("testing")
    <3>1. TypeOK'
      BY <2>1, <2>2, SuccessTyped DEF TypeOK, Role
    <3>2. Routed' /\ Budgeted' /\ pc' = "loop" /\ NextState' = "testing"
      BY <2>1, <2>2, SuccessKeeps, RoleAssumption DEF Rank, StateOf, Role
    <3>3. QED
      BY <2>1, <2>2, <3>1, <3>2
         DEF TestedAhead, ReviewedAhead, DoneIsVerified, Working, Success
  <2>3. CASE Failure
    <3>1. Working
      BY <2>1 DEF Working
    <3>2. TypeOK'
      BY <2>1, <2>3, <3>1, FailureKeeps DEF TypeOK
    <3>3. QED
      BY <2>1, <2>3, <3>1, <3>2, FailureKeeps
         DEF TestedAhead, ReviewedAhead, DoneIsVerified
  <2>4. QED
    BY <2>1, <2>2, <2>3
<1>10. CASE Testing
  <2>1. pc = "handling" /\ state = "testing"
        /\ UNCHANGED <<status, cancel, relevant, edits, broken, changed, reviewed,
                       committed>>
        /\ \/ Success("review") /\ tested' = TRUE
           \/ Failure /\ tested' = tested
    BY <1>10 DEF Testing, Handling, fileVars
  <2>2. CASE Success("review") /\ tested' = TRUE
    <3>1. TypeOK'
      BY <2>1, <2>2, SuccessTyped DEF TypeOK, Role
    <3>2. Routed' /\ Budgeted' /\ pc' = "loop" /\ NextState' = "review"
      BY <2>1, <2>2, SuccessKeeps, RoleAssumption DEF Rank, StateOf, Role
    <3>3. QED
      BY <2>1, <2>2, <3>1, <3>2
         DEF TestedAhead, ReviewedAhead, DoneIsVerified, Working, Success
  <2>3. CASE Failure /\ tested' = tested
    <3>1. Working
      BY <2>1 DEF Working
    <3>2. TypeOK'
      BY <2>1, <2>3, <3>1, FailureKeeps DEF TypeOK
    <3>3. QED
      BY <2>1, <2>3, <3>1, <3>2, FailureKeeps
         DEF TestedAhead, ReviewedAhead, DoneIsVerified
  <2>4. QED
    BY <2>1, <2>2, <2>3
<1>11. CASE Review
  <2>1. pc = "handling" /\ state = "review"
        /\ UNCHANGED <<status, cancel, relevant, edits, broken, changed, tested,
                       committed>>
    BY <1>11 DEF Review, Handling, fileVars
  <2>2. PICK S \in SUBSET ToReview :
          /\ S = ToReview \/ cancel
          /\ reviewed' = reviewed \cup S
          /\ IF S \cap broken = {} THEN Success("git") ELSE Failure
    BY <1>11 DEF Review
  <2>3. reviewed' \subseteq File
    BY <2>2 DEF ToReview, TypeOK
  <2>4. tested /\ result = "none"
    BY <2>1 DEF TestedAhead, Working, Routed
  <2>5. CASE S \cap broken = {}
    <3>1. Success("git")
      BY <2>2, <2>5
    <3>2. TypeOK'
      BY <2>1, <2>3, <3>1, SuccessTyped DEF TypeOK, Role
    <3>3. Routed' /\ Budgeted' /\ pc' = "loop" /\ NextState' = "git"
      BY <2>1, <3>1, SuccessKeeps, RoleAssumption DEF Rank, StateOf, Role
    <3>4. cancel \/ (edits \subseteq S /\ edits \cap broken = {})
      BY <2>2, <2>5 DEF ToReview
    <3>5. (cancel \/ Verified)'
      BY <2>1, <2>2, <3>4 DEF Verified
    <3>6. QED
      BY <2>1, <2>4, <3>1, <3>2, <3>3, <3>5
         DEF TestedAhead, ReviewedAhead, DoneIsVerified, Working, Success
  <2>6. CASE S \cap broken # {}
    <3>1. Failure /\ Working
      BY <2>1, <2>2, <2>6 DEF Working
    <3>2. TypeOK'
      BY <2>1, <2>3, <3>1, FailureKeeps DEF TypeOK
    <3>3. QED
      BY <3>1, <3>2, FailureKeeps DEF TestedAhead, ReviewedAhead, DoneIsVerified
  <2>7. QED
    BY <2>5, <2>6
<1>12. CASE Git
  <2>1. pc = "handling" /\ state = "git"
        /\ UNCHANGED <<status, cancel, relevant, edits, broken, tested, reviewed>>
        /\ (Success(NoRole) \/ Failure)
        /\ changed' \subseteq File /\ committed' \subseteq File
    BY <1>12 DEF Git, Handling, TypeOK
  <2>2. tested /\ result = "none" /\ (cancel \/ Verified)
    BY <2>1 DEF TestedAhead, ReviewedAhead, Working, Routed
  <2>3. CASE Success(NoRole)
    <3>1. TypeOK'
      BY <2>1, <2>3, SuccessTyped DEF TypeOK
    <3>2. Routed' /\ Budgeted' /\ pc' = "loop" /\ NextState' = "done"
      BY <2>1, <2>3, SuccessKeeps
    <3>3. QED
      BY <2>1, <2>2, <2>3, <3>1, <3>2
         DEF TestedAhead, ReviewedAhead, DoneIsVerified, Working, Success, Verified
  <2>4. CASE Failure
    <3>1. Working
      BY <2>1 DEF Working
    <3>2. TypeOK'
      BY <2>1, <2>4, <3>1, FailureKeeps DEF TypeOK
    <3>3. QED
      BY <2>4, <3>1, <3>2, FailureKeeps DEF TestedAhead, ReviewedAhead, DoneIsVerified
  <2>5. QED
    BY <2>1, <2>3, <2>4
<1>13. CASE Conclude
  <2>1. TypeOK'
    BY <1>13 DEF Conclude, TypeOK, fileVars, historyVars
  <2>2. QED
    BY <1>13, <2>1 DEF Conclude, Routed, Budgeted, TestedAhead, ReviewedAhead,
         DoneIsVerified, Working, fileVars, historyVars
<1>14. CASE Cancel
  <2>1. cancel' = TRUE
        /\ UNCHANGED <<pc, state, hint, iterations, fixRounds, result, status,
                       relevant, edits, broken, changed, tested, reviewed, committed>>
    BY <1>14 DEF Cancel, loopVars, fileVars, historyVars
  <2>2. NextState' = NextState
    BY <2>1 DEF NextState
  <2>3. TypeOK'
    BY <2>1 DEF TypeOK
  <2>4. QED
    BY <2>1, <2>2, <2>3 DEF Routed, Budgeted, TestedAhead, ReviewedAhead,
         DoneIsVerified, Working
<1>15. CASE UNCHANGED vars
  <2>1. NextState' = NextState
    BY <1>15 DEF vars, loopVars, NextState
  <2>2. TypeOK'
    BY <1>15 DEF vars, loopVars, fileVars, historyVars, TypeOK
  <2>3. QED
    BY <1>15, <2>1, <2>2 DEF vars, loopVars, fileVars, historyVars, Routed,
         Budgeted, TestedAhead, ReviewedAhead, DoneIsVerified, Working, Verified
<1>16. QED
  BY <1>1, <1>2, <1>3, <1>4, <1>5, <1>6, <1>7, <1>8, <1>9, <1>10, <1>11, <1>12,
     <1>13, <1>14, <1>15 DEF Next

LEMMA Invariance == Spec => []IInv
BY InitIInv, NextIInv, PTL DEF Spec

------------------------------------------------------------------------------

\* The variables of the coordinator and the agents keep their types: in
\* particular there are never more fix rounds than MAX_FIX_ROUNDS.
THEOREM TypeCorrect == Spec => []TypeOK
BY Invariance, PTL DEF IInv

\* Whatever the agents hint, fail or raise, an execution makes no more than
\* four iterations for every fix round and eight for the path.
THEOREM IterationsBounded == Spec => []BudgetSuffices
<1>1. IInv => BudgetSuffices
  <2> SUFFICES ASSUME IInv, pc = "loop" PROVE iterations < 4 * fixRounds + 8
    BY DEF BudgetSuffices
  <2>1. Rank[NextState] \in 1..8
    BY NextRank DEF IInv
  <2>2. iterations \in Nat /\ fixRounds \in Nat
        /\ iterations < 4 * fixRounds + Rank[NextState]
    BY BudgetAssumption DEF IInv, TypeOK, Budgeted
  <2>3. QED
    BY <2>1, <2>2
<1>2. QED
  BY <1>1, Invariance, PTL

\* So the iteration cap ends no run when it leaves room for the fix rounds, as
\* the code's 30 and 2 do.
THEOREM CapNeverNeeded ==
  ASSUME MaxIterations >= 4 * MaxFixRounds + 8
  PROVE  Spec => [](result # "exhausted")
<1>1. IInv => result # "exhausted"
  BY DEF IInv, Budgeted
<1>2. QED
  BY <1>1, Invariance, PTL

\* A success is a success of the workspace as it stands: tested, the last
\* edits reviewed and without a file that does not compile.
THEOREM SuccessIsVerified == Spec => []DoneIsVerified
BY Invariance, PTL DEF IInv

\* Only the git agent commits, and it is reached only when the testing agent
\* has passed the workspace as it is.
THEOREM OnlyTestedWorkIsCommitted == Spec => CommitIsTested
<1>1. IInv /\ [Next]_vars => [committed' # committed => tested]_vars
  <2> SUFFICES ASSUME IInv, [Next]_vars, committed' # committed PROVE tested
    OBVIOUS
  <2>1. Git
    BY DEF Next, vars, historyVars, Cancelled, Exhausted, Advance, Run, Raise, Plan,
           Repository, Coding, Terminal, Testing, Review, Conclude, Cancel
  <2>2. QED
    BY <2>1 DEF IInv, TestedAhead, Git, Handling, Working
<1>2. QED
  BY <1>1, Invariance, PTL DEF Spec, CommitIsTested
==============================================================================
