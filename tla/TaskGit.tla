------------------------------- MODULE TaskGit --------------------------------
(***************************************************************************)
(* A task's repository: the set-up of Agent._loop (Workspace or            *)
(* GitHubAPIWorkspace, clone_or_pull of github.py), the tools that edit    *)
(* files and call git, Agent._git_finalize, and the endpoints of main.py   *)
(* that check out, branch, stage, commit, push and open a pull request.    *)
(*                                                                         *)
(* Tasks of one repository share its directory.  Each runs on a thread;    *)
(* every git command is a process and other threads go on between two of   *)
(* them.  An endpoint blocks the event loop: no other endpoint runs, but   *)
(* the threads do.  The runtime of a task, with the branch the endpoints   *)
(* push, stays after the run; a crash takes it and leaves the directory.   *)
(* The way without a git binary (dulwich) is left out.                     *)
(***************************************************************************)
EXTENDS Repository

CONSTANTS
  Root,     \* the directory of each task
  Own,      \* the branch pk-ninja/<id> of each task
  Nobody    \* no task

ASSUME TaskGitAssumption ==
  /\ Root \in [Task -> Name]
  /\ Own \in [Task -> Branch]
  /\ \A t \in Task : Own[t] # Main
  /\ Nobody \notin Task

VARIABLES
  task,        \* the tasks
  committing,  \* the task whose commit endpoint has staged and not committed
  pulls        \* open pull requests, by head branch

taskVars == <<task, committing, pulls>>

------------------------------------------------------------------------------

\* branch is rt.branch; pushed: the last finalize said it pushed.  History:
\* mine, the task had changes when it began to finalize; steady, its checkout
\* and its git add worked, nobody else moved HEAD or took the task's edits out
\* of its hands meanwhile, and no command took them off origin afterwards;
\* raced, the directory got its repository during the set-up.
NoTask ==
  [pc |-> "idle", branch |-> None, pushed |-> FALSE,
   mine |-> FALSE, steady |-> FALSE, raced |-> FALSE]

Doing(t, pc) == task[t].pc = pc

Here(t) == disk[Root[t]]

Now(t, d) == disk' = [disk EXCEPT ![Root[t]] = d]

Finalising(r) == r.pc \in {"branch", "switch", "add", "commit", "push"}

Cloning(r) == r.pc \in {"clone", "unpack", "move"}

\* The edits of t are where a finalize that is at pc takes them from, or its
\* branch has them.
InHand(t, pc, d) ==
  \/ Own[t] \in DOMAIN d.commits /\ t \in d.commits[Own[t]]
  \/ pc \in {"branch", "switch", "add"} /\ t \in InFiles(d)
  \/ pc = "commit" /\ t \in d.staged

\* HEAD is where it was and the edits of t are still in hand.
Undisturbed(t) ==
  LET d == Here(t)
      e == disk'[Root[t]]
      pc == task[t].pc
  IN  Ready(d) /\ Ready(e) /\ e.head = d.head /\ (InHand(t, pc, d) => InHand(t, pc, e))

\* The history of the tasks other than the one that acts.
Watched(tasks, actor) ==
  [t \in Task |->
     IF t = actor THEN tasks[t]
     ELSE [tasks[t] EXCEPT
             !.steady = @ /\ (Finalising(tasks[t]) => Undisturbed(t)),
             !.raced = @ \/ (Cloning(tasks[t]) /\ HasGit(disk'[Root[t]]) /\ ~HasGit(Here(t)))]]

\* A step of the thread of t: its record becomes r.
Steps(t, r) == task' = Watched([task EXCEPT ![t] = [r EXCEPT !.raced = @ /\ Cloning(r)]], t)

Goes(t, pc) == Steps(t, [task[t] EXCEPT !.pc = pc])

\* The end of a run, with what finalize said; only that and rt.branch matter then.
Ends(t, pushed) ==
  Steps(t, [task[t] EXCEPT !.pc = "done", !.pushed = pushed,
                           !.mine = @ /\ pushed, !.steady = @ /\ pushed])

------------------------------------------------------------------------------
(* Set-up *)

\* Agent.run and the workspace, which makes its directory.  With a token and a
\* reachable GitHub it is the API's, and nothing is cloned.
Start(t) ==
  /\ Doing(t, "idle") \/ Doing(t, "done")
  /\ IF Here(t) = None THEN Now(t, EmptyDir) ELSE UNCHANGED disk
  /\ \/ Steps(t, [NoTask EXCEPT !.pc = "check"])
     \/ Steps(t, [NoTask EXCEPT !.pc = "work"])
  /\ UNCHANGED <<remote, committing, pulls>>

\* clone_or_pull looks for a repository; GitHub may be out of reach.
Check(t) ==
  /\ Doing(t, "check")
  /\ UNCHANGED <<disk, remote, committing, pulls>>
  /\ \/ Goes(t, IF HasGit(Here(t)) THEN "fetched" ELSE "clone")
     \/ HasGit(Here(t)) /\ Goes(t, "work")

\* After the fetch: git checkout of the default branch, whatever comes of it.
CheckoutDefault(t) ==
  /\ Doing(t, "fetched")
  /\ \/ CheckoutWorks(Here(t), Main) /\ Now(t, CheckedOut(Here(t), Main))
     \/ UNCHANGED disk
  /\ Goes(t, "pull")
  /\ UNCHANGED <<remote, committing, pulls>>

\* A pull that works or fails: the task goes on.
Pull(t) ==
  /\ Doing(t, "pull")
  /\ \/ PullWorks(Here(t)) /\ Now(t, Pulled(Here(t)))
     \/ UNCHANGED disk
  /\ Goes(t, "work")
  /\ UNCHANGED <<remote, committing, pulls>>

\* git clone into the directory, which must be empty; files that a task in API
\* mode has fetched are enough that it is not.
Clone(t) ==
  /\ Doing(t, "clone")
  /\ \/ Here(t) \in {None, EmptyDir} /\ Now(t, Begun) /\ Goes(t, "unpack")
     \/ Here(t) # None /\ UNCHANGED disk /\ Goes(t, "move")
  /\ UNCHANGED <<remote, committing, pulls>>

\* It ends: done, failed (git then clears the directory, whoever wrote to it
\* meanwhile), or killed at its timeout, an exception that fails the run.
CloneEnds(t) ==
  LET d == Here(t)
  IN  /\ Doing(t, "unpack")
      /\ \/ Partial(d) /\ Now(t, Cloned(d.unstaged)) /\ Goes(t, "work")
         \/ d # None /\ Now(t, EmptyDir) /\ Goes(t, "work")
         \/ ~Partial(d) /\ UNCHANGED disk /\ Goes(t, "work")
         \/ UNCHANGED disk /\ Ends(t, FALSE)
      /\ UNCHANGED <<remote, committing, pulls>>

\* A clone in a directory beside it is moved over it item by item, .git and
\* the files the repository has too; or it failed.
MoveIn(t) ==
  /\ Doing(t, "move")
  /\ \/ UNCHANGED disk
     \/ \E left \in SUBSET (IF Here(t) = None THEN {} ELSE InFiles(Here(t))) : Now(t, Cloned(left))
  /\ Goes(t, "work")
  /\ UNCHANGED <<remote, committing, pulls>>

------------------------------------------------------------------------------
(* The tools of the agent and the endpoints.  Both call the same helpers on   *)
(* the workspace of t; a tool is a step of its thread, an endpoint is not.    *)

\* write_file makes the directory if it is gone.  What else the file had is
\* Overwrite's.
Edit(t) ==
  LET d == IF Here(t) = None THEN EmptyDir ELSE Here(t)
  IN  /\ Doing(t, "work")
      /\ Now(t, [d EXCEPT !.unstaged = @ \cup {t}])
      /\ Goes(t, "work")
      /\ UNCHANGED <<remote, committing, pulls>>

\* The runtime of t has a workspace.
Opened(t) == ~Doing(t, "idle")

\* A tool of the thread of t, or an endpoint; rt.branch becomes b.
Called(t, b, tool) ==
  /\ IF tool THEN Doing(t, "work") ELSE Opened(t) /\ committing = Nobody
  /\ task' = Watched([task EXCEPT ![t].branch = b], IF tool THEN t ELSE Nobody)

\* A tool of t writes over a file that u edited, or deletes it.  So does a
\* read_file of a task in API mode, whose file was not there when it began to
\* fetch it.
Overwrite(t, u) ==
  /\ Here(t) # None
  /\ Overwritten(Here(t), u) # Here(t)
  /\ Now(t, Overwritten(Here(t), u))
  /\ Called(t, task[t].branch, TRUE)
  /\ UNCHANGED <<remote, committing, pulls>>

\* git_checkout: rt.branch follows a checkout that worked.
GitCheckout(t, b, create, tool) ==
  LET d == Here(t)
  IN  /\ IF create THEN CreateWorks(d, b) ELSE CheckoutWorks(d, b)
      /\ Now(t, IF create THEN Branched(d, b) ELSE CheckedOut(d, b))
      /\ Called(t, b, tool)
      /\ UNCHANGED <<remote, committing, pulls>>

\* api_git_branch: rt.branch is set whether or not the branch was made.
GitBranch(t, b) ==
  LET d == Here(t)
  IN  /\ \/ CreateWorks(d, b) /\ Now(t, Branched(d, b))
         \/ UNCHANGED disk
      /\ Called(t, b, FALSE)
      /\ UNCHANGED <<remote, committing, pulls>>

\* stage, unstage and discard of a file that u edited.
GitFile(t, u, tool) ==
  LET d == Here(t)
  IN  /\ Ready(d)
      /\ \E e \in {Staged(d, u), Unstaged(d, u)} \cup (IF tool THEN {} ELSE {Discarded(d, u)}) :
           e # d /\ Now(t, e)
      /\ Called(t, task[t].branch, tool)
      /\ UNCHANGED <<remote, committing, pulls>>

\* The tool git_commit commits what is staged ...
GitCommit(t) ==
  /\ CommitWorks(Here(t))
  /\ Now(t, Committed(Here(t)))
  /\ Called(t, task[t].branch, TRUE)
  /\ UNCHANGED <<remote, committing, pulls>>

\* ... and api_git_commit stages everything first.
CommitAdds(t) ==
  /\ Now(t, Added(Here(t))) \/ UNCHANGED disk
  /\ Called(t, task[t].branch, FALSE)
  /\ committing' = t
  /\ UNCHANGED <<remote, pulls>>

CommitEnds ==
  LET d == disk[Root[committing]]
  IN  /\ committing # Nobody
      /\ \/ CommitWorks(d) /\ Now(committing, Committed(d))
         \/ UNCHANGED disk
      /\ task' = Watched(task, Nobody)
      /\ committing' = Nobody
      /\ UNCHANGED <<remote, pulls>>

\* git_push of rt.branch; the tool pushes the current branch without one, the
\* endpoint answers 400.
GitPush(t, tool) ==
  LET b == IF task[t].branch = None THEN Here(t).head ELSE task[t].branch
  IN  /\ task[t].branch # None \/ tool
      /\ PushWorks(Here(t), b)
      /\ remote' = Pushed(Here(t), b)
      /\ UNCHANGED disk
      /\ Called(t, task[t].branch, tool)
      /\ UNCHANGED <<committing, pulls>>

\* Origin has the work of t on its branch.
OnOrigin(t) == Own[t] \in DOMAIN remote /\ t \in remote[Own[t]]

\* run_command, of an agent or of the terminal of a task.  What tools and
\* endpoints do too is theirs; here it takes edits or a branch away, or it is a
\* git push --force.
RunCommand(t, tool) ==
  LET d == Here(t)
      tasks == Watched(task, IF tool THEN t ELSE Nobody)
  IN  /\ IF tool THEN Doing(t, "work") ELSE Opened(t)
      /\ d # None
      /\ \/ (\E e \in Stripped(d) \ {d} : Now(t, e)) /\ UNCHANGED remote
         \/ /\ \E b \in DOMAIN d.commits : remote' = Pushed(d, b)
            /\ remote' # remote /\ UNCHANGED disk
      /\ task' = [u \in Task |-> [tasks[u] EXCEPT !.steady = @ /\ (OnOrigin(u) => OnOrigin(u)')]]
      /\ UNCHANGED <<committing, pulls>>

\* create_pull_request: of the branch HEAD is on, not of rt.branch; GitHub
\* wants a branch it has.  It is merged outside.
OpenPull(t) ==
  /\ Ready(Here(t))
  /\ Here(t).head \in DOMAIN remote \ {Main}
  /\ pulls' = pulls \cup {Here(t).head}
  /\ UNCHANGED disk
  /\ Called(t, task[t].branch, FALSE)
  /\ UNCHANGED <<remote, committing>>

MergePull(b) ==
  /\ b \in pulls
  /\ remote' = [remote EXCEPT ![Main] = @ \cup remote[b]]
  /\ pulls' = pulls \ {b}
  /\ UNCHANGED <<disk, task, committing>>

------------------------------------------------------------------------------
(* _git_finalize *)

\* The run ends without it: cancelled, failed, or it had no such step.
Finish(t) ==
  /\ Doing(t, "work")
  /\ UNCHANGED <<disk, remote, committing, pulls>>
  /\ Ends(t, FALSE)

\* Without a finished clone there are no changes either: the work stays where it
\* is, as does that of a task in GitHub API mode without a clone.
Finalize(t) ==
  /\ Doing(t, "work")
  /\ UNCHANGED <<disk, remote, committing, pulls>>
  /\ IF Changed(Here(t)) = {} THEN Ends(t, FALSE)
     ELSE Steps(t, [task[t] EXCEPT !.pc = "branch", !.mine = t \in InFiles(Here(t)), !.steady = TRUE])

\* checkout -b, when there is no such branch yet ...
BranchOff(t) ==
  LET d == Here(t)
      b == Own[t]
  IN  /\ Doing(t, "branch")
      /\ \/ /\ CreateWorks(d, b) /\ Now(t, Branched(d, b))
            /\ Steps(t, [task[t] EXCEPT !.pc = "add", !.branch = b])
         \/ UNCHANGED disk /\ Goes(t, "switch")
      /\ UNCHANGED <<remote, committing, pulls>>

\* ... else checkout, whose result is not looked at.
SwitchTo(t) ==
  LET d == Here(t)
      b == Own[t]
      add == [task[t] EXCEPT !.pc = "add", !.branch = b]
  IN  /\ Doing(t, "switch")
      /\ \/ CheckoutWorks(d, b) /\ Now(t, CheckedOut(d, b)) /\ Steps(t, add)
         \/ UNCHANGED disk /\ Steps(t, [add EXCEPT !.steady = FALSE])
      /\ UNCHANGED <<remote, committing, pulls>>

\* git add -A, whose result is not looked at either.
Add(t) ==
  /\ Doing(t, "add")
  /\ \/ Ready(Here(t)) /\ Now(t, Added(Here(t))) /\ Goes(t, "commit")
     \/ UNCHANGED disk /\ Steps(t, [task[t] EXCEPT !.pc = "commit", !.steady = FALSE])
  /\ UNCHANGED <<remote, committing, pulls>>

\* A bug: nor is that of the commit.
CommitMutant(t) ==
  /\ Doing(t, "commit")
  /\ \/ CommitWorks(Here(t)) /\ Now(t, Committed(Here(t))) /\ Goes(t, "push")
     \/ UNCHANGED disk /\ Goes(t, "push")
  /\ UNCHANGED <<remote, committing, pulls>>

Commit(t) ==
  /\ Doing(t, "commit")
  /\ \/ /\ CommitWorks(Here(t)) /\ Now(t, Committed(Here(t)))
        /\ Goes(t, "push") \/ Ends(t, FALSE)  \* no token or repository configured
     \/ UNCHANGED disk /\ Ends(t, FALSE)
  /\ UNCHANGED <<remote, committing, pulls>>

\* git_push without a branch: the one HEAD is on.
Push(t) ==
  LET d == Here(t)
  IN  /\ Doing(t, "push")
      /\ UNCHANGED <<disk, committing, pulls>>
      /\ \/ PushWorks(d, d.head) /\ remote' = Pushed(d, d.head) /\ Ends(t, TRUE)
         \/ UNCHANGED remote /\ Ends(t, FALSE)

------------------------------------------------------------------------------

\* The server dies: no runtime is left; what a thread's git was doing stops.
TasksCrash ==
  /\ task' = [t \in Task |-> NoTask]
  /\ committing' = Nobody
  /\ UNCHANGED <<disk, remote, pulls>>

TaskGitInit ==
  /\ task = [t \in Task |-> NoTask]
  /\ committing = Nobody
  /\ pulls = {}

\* Steps of a task's thread.
ThreadStep(t) ==
  \/ Check(t) \/ CheckoutDefault(t) \/ Pull(t) \/ Clone(t) \/ CloneEnds(t) \/ MoveIn(t)
  \/ Edit(t) \/ Finish(t) \/ Finalize(t) \/ BranchOff(t) \/ SwitchTo(t) \/ Add(t) \/ Commit(t) \/ Push(t)

\* Tools of the agent, or endpoints.
GitCall(t, tool) ==
  \/ \E b \in Branch, create \in BOOLEAN : GitCheckout(t, b, create, tool)
  \/ \E u \in Task : GitFile(t, u, tool)
  \/ GitPush(t, tool) \/ RunCommand(t, tool)
  \/ tool /\ (GitCommit(t) \/ \E u \in Task : Overwrite(t, u))
  \/ ~tool /\ (CommitAdds(t) \/ OpenPull(t) \/ \E b \in Branch : GitBranch(t, b))

------------------------------------------------------------------------------
(* Properties *)

\* A finalize that says it pushed the branch of its task pushed the task's work
\* to it, unless its checkout or its git add failed, another thread or an endpoint
\* moved HEAD or took the edits back or elsewhere meanwhile, or a forced push has
\* taken them off origin since.
PushedAsTold ==
  \A t \in Task : (task[t].pushed /\ task[t].steady /\ task[t].mine) => OnOrigin(t)

\* The edits of t are somewhere.
Somewhere(t) ==
  \/ \E n \in Name : t \in Held(disk[n])
  \/ \E b \in DOMAIN remote : t \in remote[b]

\* What the code promises less of.  README.md: "Each task gets its own
\* directory"; here a task's branch is its own.
OwnWorkOnly ==
  \A t \in Task : Own[t] \in DOMAIN remote => remote[Own[t]] \subseteq {t}

\* "Pushed branch", it says, when the task had changes: they are pushed.
PushedIsTheWork == \A t \in Task : (task[t].pushed /\ task[t].mine) => OnOrigin(t)

\* "Created branch", says _git_finalize, and commits and pushes: never the
\* default branch.
DefaultIsSpared ==
  [][\A t \in Task : Doing(t, "push") => remote'[Main] = remote[Main]]_<<remote, task>>

\* After a failed clone the run is "Continuing in local-only mode. The agent
\* can still run tasks": that work is there for the next run.
LocalWorkIsKept ==
  [][\A t \in Task : (t \in Held(Here(t)) /\ \E u \in Task : Doing(u, "move") /\ task'[u].pc = "work")
        => Somewhere(t)']_<<disk, task>>
===============================================================================
