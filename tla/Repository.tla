------------------------------ MODULE Repository ------------------------------
(***************************************************************************)
(* The directories under WORKSPACE_ROOT and what the git helpers of        *)
(* backend/workspace.py do to one.  Git itself is outside the repository:  *)
(* of a clone only what the callers can tell apart is kept, the branch     *)
(* HEAD is on, whose edits each branch, the index and the working tree     *)
(* hold.  All edits of one task are one member of Task: they are to the    *)
(* same files.  Each command is atomic and leaves the directory alone when *)
(* it fails; any may, when another one holds the lock of the index, and in *)
(* a directory without a finished clone all do.  The root itself is taken  *)
(* not to lie in another git repository.                                   *)
(***************************************************************************)
EXTENDS FiniteSets, Naturals

CONSTANTS
  Task,    \* tasks, and their edits
  Name,    \* names of directories
  Branch,  \* names of branches
  Main,    \* the default branch
  None     \* no directory; no branch

VARIABLES
  disk,    \* the directories
  remote   \* origin: what its branches hold

------------------------------------------------------------------------------

Branches == UNION {[B -> SUBSET Task] : B \in SUBSET Branch}

\* git is "partial" while a clone runs and after one that was killed; over are
\* the staged edits whose files were written over since, or deleted.
Directory ==
  [git : {"none", "partial", "ready"}, head : Branch, commits : Branches,
   staged : SUBSET Task, unstaged : SUBSET Task, over : SUBSET Task]

\* None is neither.
ASSUME RepositoryAssumption == Main \in Branch /\ None \notin Branch /\ None \notin Directory

NoBranches == [b \in {} |-> {}]

EmptyDir ==
  [git |-> "none", head |-> Main, commits |-> NoBranches,
   staged |-> {}, unstaged |-> {}, over |-> {}]

\* git clone --depth 1 begins and is done, with the edits S in the tree.
Begun == [EmptyDir EXCEPT !.git = "partial"]

Cloned(S) ==
  [EmptyDir EXCEPT !.git = "ready", !.commits = [b \in {Main} |-> remote[Main]], !.unstaged = S]

Partial(d) == d # None /\ d.git = "partial"

Ready(d) == d # None /\ d.git = "ready"

\* has_git_repo: there is a .git, whatever its state.
HasGit(d) == d # None /\ d.git # "none"

\* git_changed_files: empty too when git status fails.
Changed(d) == IF Ready(d) THEN d.staged \cup d.unstaged ELSE {}

\* Everything a directory holds of the edits.
Held(d) ==
  IF d = None THEN {} ELSE d.staged \cup d.unstaged \cup UNION {d.commits[b] : b \in DOMAIN d.commits}

\* The edits two states of the files differ in.
Differ(S, T) == (S \ T) \cup (T \ S)

\* A bug: git checkout -f.
CheckedOutMutant(d, b) == [d EXCEPT !.head = b, !.staged = {}, !.unstaged = {}]

\* git checkout: what is not committed comes along.
CheckedOut(d, b) == [d EXCEPT !.head = b]

\* It refuses to overwrite a changed file.
CheckoutWorks(d, b) ==
  Ready(d) /\ b \in DOMAIN d.commits /\ Changed(d) \cap Differ(d.commits[d.head], d.commits[b]) = {}

\* create_branch, and git_checkout with create.
CreateWorks(d, b) == Ready(d) /\ b \notin DOMAIN d.commits

Branched(d, b) ==
  [d EXCEPT !.head = b,
            !.commits = [c \in DOMAIN d.commits \cup {b} |->
                           IF c = b THEN d.commits[d.head] ELSE d.commits[c]]]

\* The edits the files have, committed ones aside.
InFiles(d) == (d.staged \ d.over) \cup d.unstaged

\* git_add_all: the index gets what the files have.
Added(d) ==
  IF Ready(d) THEN [d EXCEPT !.staged = InFiles(d), !.unstaged = {}, !.over = {}] ELSE d

\* git_stage_file and git_unstage_file, for the files of t.
Staged(d, t) ==
  [d EXCEPT !.staged = (@ \ {t}) \cup (InFiles(d) \cap {t}), !.unstaged = @ \ {t}, !.over = @ \ {t}]

Unstaged(d, t) ==
  [d EXCEPT !.unstaged = @ \cup (InFiles(d) \cap {t}), !.staged = @ \ {t}, !.over = @ \ {t}]

\* git_discard_file: back to what is in the index.
Discarded(d, t) == [d EXCEPT !.unstaged = @ \ {t}, !.over = @ \ {t}]

\* A tool writes over the files of t, or deletes them: the index still has what
\* was staged.
Overwritten(d, t) == [d EXCEPT !.unstaged = @ \ {t}, !.over = @ \cup (d.staged \cap {t})]

\* What a command may take from d, one part at a time: edits from the index, from
\* a branch or from the files, or a branch.
Stripped(d) ==
  {Overwritten(d, t) : t \in Task}
    \cup {[d EXCEPT !.staged = @ \ {t}, !.over = @ \ {t}] : t \in Task}
    \cup {[d EXCEPT !.commits[b] = @ \ {t}] : b \in DOMAIN d.commits, t \in Task}
    \cup {[d EXCEPT !.commits = [c \in DOMAIN d.commits \ {b} |-> d.commits[c]]] :
             b \in DOMAIN d.commits \ {d.head}}

\* git_commit: with nothing staged it fails.
CommitWorks(d) == Ready(d) /\ d.staged # {}

Committed(d) == [d EXCEPT !.commits[d.head] = @ \cup d.staged, !.staged = {}, !.over = {}]

\* git_push, never forced.
PushWorks(d, b) ==
  /\ Ready(d) /\ b \in DOMAIN d.commits
  /\ b \in DOMAIN remote => remote[b] \subseteq d.commits[b]

Pushed(d, b) ==
  [c \in DOMAIN remote \cup {b} |-> IF c = b THEN d.commits[b] ELSE remote[c]]

\* git pull --ff-only of the branch HEAD is on.
PullWorks(d) ==
  /\ Ready(d) /\ d.head \in DOMAIN remote
  /\ d.commits[d.head] \subseteq remote[d.head]
  /\ Changed(d) \cap (remote[d.head] \ d.commits[d.head]) = {}

Pulled(d) == [d EXCEPT !.commits[d.head] = remote[d.head]]
===============================================================================
