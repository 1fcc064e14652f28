---- MODULE WorkspacesProofs ----
(* Proofs about Workspaces: the directories, the remote, the runs of the tasks, *)
(* the table of recent workspaces and the sessions, with every step of each.   *)
(* The inductive invariant is WorkspacesInv, which says of each part what the  *)
(* properties need of it: DiskInv and RemoteInv of what git keeps, TasksInv of *)
(* a finalize that nobody disturbed, ManagerInv of a workspace no request is   *)
(* at work on, SessionsInv of two active sessions of one repository.           *)
EXTENDS Workspaces, SequenceTheorems, FiniteSetTheorems, WellFoundedInduction, TLAPS

-------------------------------------------------------------------------------
(* Directories. *)

\* In a directory without a finished clone nothing is staged or committed.
Sound(d) ==
  d # None =>
    /\ d \in Directory
    /\ Ready(d) => d.head \in DOMAIN d.commits
    /\ ~Ready(d) => d.staged = {} /\ d.commits = NoBranches

Solid(e) == e # None /\ Sound(e)

LEMMA BranchesAre ==
  ASSUME NEW f
  PROVE  f \in Branches <=> DOMAIN f \subseteq Branch /\ f \in [DOMAIN f -> SUBSET Task]
<1>1. ASSUME f \in Branches
      PROVE  DOMAIN f \subseteq Branch /\ f \in [DOMAIN f -> SUBSET Task]
  <2>1. PICK B \in SUBSET Branch : f \in [B -> SUBSET Task]
    BY <1>1 DEF Branches
  <2> QED
    BY <2>1
<1>2. ASSUME DOMAIN f \subseteq Branch, f \in [DOMAIN f -> SUBSET Task]
      PROVE  f \in Branches
  BY <1>2 DEF Branches
<1> QED
  BY <1>1, <1>2

LEMMA DirectoryIs ==
  ASSUME NEW d \in Directory
  PROVE  /\ d.git \in {"none", "partial", "ready"} /\ d.head \in Branch
         /\ d.commits \in Branches
         /\ DOMAIN d.commits \subseteq Branch
         /\ \A b \in DOMAIN d.commits : d.commits[b] \subseteq Task
         /\ d.staged \subseteq Task /\ d.unstaged \subseteq Task /\ d.over \subseteq Task
         /\ d # None
<1>1. d.commits \in Branches /\ d.head \in Branch /\ d.git \in {"none", "partial", "ready"}
      /\ d.staged \subseteq Task /\ d.unstaged \subseteq Task /\ d.over \subseteq Task
  BY DEF Directory
<1>2. d # None
  BY RepositoryAssumption
<1> HIDE DEF Branches
<1>3. DOMAIN d.commits \subseteq Branch /\ d.commits \in [DOMAIN d.commits -> SUBSET Task]
  BY <1>1, BranchesAre
<1> QED
  BY <1>1, <1>2, <1>3

LEMMA EmptyIsSound ==
  ASSUME NEW g \in {"none", "partial"}
  PROVE  LET e == [EmptyDir EXCEPT !.git = g]
         IN  e \in Directory /\ Sound(e) /\ ~Ready(e) /\ e # None
<1> DEFINE e == [EmptyDir EXCEPT !.git = g]
<1>1. NoBranches \in Branches
  BY BranchesAre DEF NoBranches
<1>2. e = [git |-> g, head |-> Main, commits |-> NoBranches, staged |-> {}, unstaged |-> {}, over |-> {}]
  BY DEF EmptyDir
<1> HIDE DEF e
<1>3. e \in Directory
  BY <1>1, <1>2, RepositoryAssumption DEF Directory
<1>4. e # None /\ e.git = g /\ e.staged = {} /\ e.commits = NoBranches
  BY <1>2, <1>3, RepositoryAssumption
<1>5. Sound(e) /\ ~Ready(e)
  BY <1>3, <1>4 DEF Sound, Ready
<1> QED
  BY <1>3, <1>4, <1>5 DEF e

LEMMA EmptyDirIs == EmptyDir \in Directory /\ Sound(EmptyDir) /\ ~Ready(EmptyDir) /\ EmptyDir # None
<1>1. EmptyDir = [EmptyDir EXCEPT !.git = "none"]
  BY DEF EmptyDir
<1> QED
  BY <1>1, EmptyIsSound

LEMMA BegunIs == Solid(Begun) /\ ~Ready(Begun)
BY EmptyIsSound DEF Begun, Solid

\* A clone in which S is changed and not committed.
LEMMA ClonedIsSound ==
  ASSUME remote \in Branches, Main \in DOMAIN remote, NEW S \in SUBSET Task
  PROVE  /\ Cloned(S) \in Directory /\ Solid(Cloned(S)) /\ Ready(Cloned(S))
         /\ Cloned(S).head = Main /\ Cloned(S).unstaged = S
<1> DEFINE c == [b \in {Main} |-> remote[Main]]
<1>1. remote[Main] \subseteq Task
  BY BranchesAre
<1>2. c \in Branches
  BY <1>1, BranchesAre, RepositoryAssumption
<1>3. DOMAIN c = {Main}
  OBVIOUS
<1> DEFINE e == [git |-> "ready", head |-> Main, commits |-> c, staged |-> {}, unstaged |-> S, over |-> {}]
<1>4. Cloned(S) = e
  <2>1. EmptyDir = [git |-> "none", head |-> Main, commits |-> NoBranches,
                    staged |-> {}, unstaged |-> {}, over |-> {}]
    BY DEF EmptyDir
  <2>2. Cloned(S) = [EmptyDir EXCEPT !.git = "ready", !.commits = c, !.unstaged = S]
    BY DEF Cloned
  <2> HIDE DEF c
  <2> QED
    BY <2>1, <2>2
<1> HIDE DEF c
<1>5. e \in Directory /\ e.git = "ready" /\ e.head = Main /\ e.commits = c /\ e.unstaged = S
  BY <1>2, RepositoryAssumption DEF Directory
<1> HIDE DEF e
<1>6. e # None
  BY <1>5, RepositoryAssumption
<1>7. Solid(e) /\ Ready(e)
  BY <1>3, <1>5, <1>6 DEF Solid, Sound, Ready
<1> QED
  BY <1>4, <1>5, <1>7

LEMMA CheckoutMoves ==
  ASSUME NEW d, Sound(d), NEW b \in Branch, CheckoutWorks(d, b)
  PROVE  LET e == CheckedOut(d, b)
         IN  /\ Solid(e) /\ Held(e) = Held(d) /\ Ready(e) /\ e.head = b
             /\ e.commits = d.commits /\ e.staged = d.staged /\ e.unstaged = d.unstaged /\ e.over = d.over
<1> DEFINE e == CheckedOut(d, b)
<1>1. d \in Directory /\ d # None /\ d.git = "ready" /\ b \in DOMAIN d.commits
  BY DEF Sound, CheckoutWorks, Ready
<1>2. e \in Directory
  BY <1>1 DEF CheckedOut, Directory
<1>3. /\ e.git = "ready" /\ e.head = b /\ e.commits = d.commits
      /\ e.staged = d.staged /\ e.unstaged = d.unstaged /\ e.over = d.over
  BY <1>1 DEF CheckedOut, Directory
<1>4. e # None
  BY <1>2, RepositoryAssumption
<1> HIDE DEF e
<1>5. Held(e) = Held(d)
  BY <1>1, <1>3, <1>4 DEF Held
<1>6. Solid(e) /\ Ready(e)
  BY <1>1, <1>2, <1>3, <1>4 DEF Solid, Sound, Ready
<1> QED
  BY <1>3, <1>5, <1>6 DEF e

LEMMA BranchMoves ==
  ASSUME NEW d, Sound(d), NEW b \in Branch, CreateWorks(d, b)
  PROVE  LET e == Branched(d, b)
         IN  /\ Solid(e) /\ Held(d) \subseteq Held(e)
             /\ Ready(e) /\ e.head = b /\ e.staged = d.staged /\ e.unstaged = d.unstaged /\ e.over = d.over
             /\ b \in DOMAIN e.commits /\ e.commits[b] = d.commits[d.head]
<1> DEFINE e == Branched(d, b)
           c == [x \in DOMAIN d.commits \cup {b} |-> IF x = b THEN d.commits[d.head] ELSE d.commits[x]]
<1>1. d \in Directory /\ d # None /\ d.git = "ready" /\ b \notin DOMAIN d.commits /\ d.head \in DOMAIN d.commits
  BY DEF Sound, CreateWorks, Ready
<1>2. c \in Branches
  BY <1>1, DirectoryIs, BranchesAre
<1>3. DOMAIN c = DOMAIN d.commits \cup {b} /\ c[b] = d.commits[d.head] /\ \A x \in DOMAIN d.commits : c[x] = d.commits[x]
  BY <1>1
<1> HIDE DEF c
<1>4. e = [d EXCEPT !.head = b, !.commits = c]
  BY DEF Branched, c
<1>5. e \in Directory
  BY <1>1, <1>2, <1>4 DEF Directory
<1>6. /\ e.git = "ready" /\ e.head = b /\ e.commits = c
      /\ e.staged = d.staged /\ e.unstaged = d.unstaged /\ e.over = d.over
  BY <1>1, <1>4 DEF Directory
<1>7. e # None
  BY <1>5, RepositoryAssumption
<1> HIDE DEF e
<1>8. Held(d) \subseteq Held(e)
  BY <1>1, <1>3, <1>6, <1>7 DEF Held
<1>9. Solid(e) /\ Ready(e)
  BY <1>1, <1>3, <1>5, <1>6, <1>7 DEF Solid, Sound, Ready
<1> QED
  BY <1>3, <1>6, <1>8, <1>9 DEF e

\* What is staged and what is not change, and nothing else.
LEMMA StagingMoves ==
  ASSUME NEW d, Sound(d), Ready(d), NEW e \in Directory,
         e.git = d.git, e.head = d.head, e.commits = d.commits
  PROVE  /\ Solid(e) /\ Ready(e)
         /\ \A t \in Held(d) : t \in Held(e) \/ t \in (d.staged \cup d.unstaged) \ (e.staged \cup e.unstaged)
<1>1. d \in Directory /\ d # None /\ d.git = "ready" /\ d.head \in DOMAIN d.commits
  BY DEF Sound, Ready
<1>2. e # None
  BY RepositoryAssumption
<1>3. \A t \in Held(d) : t \in Held(e) \/ t \in (d.staged \cup d.unstaged) \ (e.staged \cup e.unstaged)
  BY <1>1, <1>2 DEF Held
<1>4. Solid(e) /\ Ready(e)
  BY <1>1, <1>2 DEF Solid, Sound, Ready
<1> QED
  BY <1>3, <1>4

LEMMA AddMoves ==
  ASSUME NEW d, Sound(d), Ready(d)
  PROVE  LET e == Added(d)
         IN  /\ Solid(e) /\ Held(d) \subseteq Held(e) \cup d.over
             /\ Ready(e) /\ e.head = d.head /\ e.commits = d.commits /\ e.staged = InFiles(d)
<1> DEFINE e == Added(d)
<1>1. d \in Directory /\ InFiles(d) = (d.staged \ d.over) \cup d.unstaged
  BY DEF Sound, Ready, InFiles
<1>2. e = [d EXCEPT !.staged = InFiles(d), !.unstaged = {}, !.over = {}]
  BY DEF Added
<1> HIDE DEF e
<1>3. /\ e \in Directory /\ e.git = d.git /\ e.head = d.head /\ e.commits = d.commits
      /\ e.staged = InFiles(d)
  BY <1>1, <1>2 DEF Directory
<1>4. /\ Solid(e) /\ Ready(e)
      /\ \A t \in Held(d) : t \in Held(e) \/ t \in (d.staged \cup d.unstaged) \ (e.staged \cup e.unstaged)
  BY <1>3, StagingMoves
<1> QED
  BY <1>1, <1>3, <1>4 DEF e

LEMMA FileMoves ==
  ASSUME NEW d, Sound(d), Ready(d), NEW u \in Task,
         NEW e \in {Staged(d, u), Unstaged(d, u), Discarded(d, u)}
  PROVE  /\ Solid(e)
         /\ \A t \in Held(d) : t \in Held(e) \/ t \in d.over \/ (t = u /\ e = Discarded(d, u))
<1>1. d \in Directory /\ InFiles(d) = (d.staged \ d.over) \cup d.unstaged
  BY DEF Sound, Ready, InFiles
<1>2. /\ e \in Directory /\ e.git = d.git /\ e.head = d.head /\ e.commits = d.commits
      /\ \/ (d.staged \cup d.unstaged) \ (e.staged \cup e.unstaged) \subseteq d.over
         \/ (d.staged \cup d.unstaged) \ (e.staged \cup e.unstaged) \subseteq {u} /\ e = Discarded(d, u)
  <2>1. CASE e = Staged(d, u)
    <3>1. e = [d EXCEPT !.staged = (@ \ {u}) \cup (InFiles(d) \cap {u}), !.unstaged = @ \ {u}, !.over = @ \ {u}]
      BY <2>1 DEF Staged
    <3>2. /\ e \in Directory /\ e.git = d.git /\ e.head = d.head /\ e.commits = d.commits
          /\ e.staged = (d.staged \ {u}) \cup (InFiles(d) \cap {u}) /\ e.unstaged = d.unstaged \ {u}
      BY <1>1, <3>1 DEF Directory
    <3> QED
      BY <1>1, <3>2
  <2>2. CASE e = Unstaged(d, u)
    <3>1. e = [d EXCEPT !.unstaged = @ \cup (InFiles(d) \cap {u}), !.staged = @ \ {u}, !.over = @ \ {u}]
      BY <2>2 DEF Unstaged
    <3>2. /\ e \in Directory /\ e.git = d.git /\ e.head = d.head /\ e.commits = d.commits
          /\ e.unstaged = d.unstaged \cup (InFiles(d) \cap {u}) /\ e.staged = d.staged \ {u}
      BY <1>1, <3>1 DEF Directory
    <3> QED
      BY <1>1, <3>2
  <2>3. CASE e = Discarded(d, u)
    <3>1. e = [d EXCEPT !.unstaged = @ \ {u}, !.over = @ \ {u}]
      BY <2>3 DEF Discarded
    <3>2. /\ e \in Directory /\ e.git = d.git /\ e.head = d.head /\ e.commits = d.commits
          /\ e.staged = d.staged /\ e.unstaged = d.unstaged \ {u}
      BY <1>1, <3>1 DEF Directory
    <3> QED
      BY <2>3, <3>2
  <2> QED
    BY <2>1, <2>2, <2>3
<1>3. /\ Solid(e)
      /\ \A t \in Held(d) : t \in Held(e) \/ t \in (d.staged \cup d.unstaged) \ (e.staged \cup e.unstaged)
  BY <1>2, StagingMoves
<1> QED
  BY <1>2, <1>3

\* What a tool writes over, and what a command takes.
LEMMA OverMoves ==
  ASSUME NEW d \in Directory, Sound(d), NEW t \in Task
  PROVE  Solid(Overwritten(d, t))
<1> DEFINE e == Overwritten(d, t)
<1>1. e = [d EXCEPT !.unstaged = @ \ {t}, !.over = @ \cup (d.staged \cap {t})]
  BY DEF Overwritten
<1> HIDE DEF e
<1>2. e \in Directory /\ e.git = d.git /\ e.head = d.head /\ e.commits = d.commits /\ e.staged = d.staged
  BY <1>1 DEF Directory
<1>3. d # None /\ e # None
  BY <1>2, RepositoryAssumption
<1>4. Solid(e)
  BY <1>2, <1>3 DEF Solid, Sound, Ready
<1> QED
  BY <1>4 DEF e

\* The parts of Stripped.
OffFiles(d) == {Overwritten(d, t) : t \in Task}

OffIndex(d) == {[d EXCEPT !.staged = @ \ {t}, !.over = @ \ {t}] : t \in Task}

OffBranch(d) == {[d EXCEPT !.commits[b] = @ \ {t}] : b \in DOMAIN d.commits, t \in Task}

LessBranch(d) ==
  {[d EXCEPT !.commits = [c \in DOMAIN d.commits \ {b} |-> d.commits[c]]] :
     b \in DOMAIN d.commits \ {d.head}}

LEMMA StrippedIs ==
  ASSUME NEW d
  PROVE  Stripped(d) = OffFiles(d) \cup OffIndex(d) \cup OffBranch(d) \cup LessBranch(d)
  BY DEF Stripped, OffFiles, OffIndex, OffBranch, LessBranch

LEMMA OverwrittenIs ==
  ASSUME NEW d, NEW t \in Task
  PROVE  Overwritten(d, t) \in Stripped(d)
<1>1. Overwritten(d, t) \in OffFiles(d)
  BY DEF OffFiles
<1> QED
  BY <1>1, StrippedIs

LEMMA StripMoves ==
  ASSUME NEW d \in Directory, Sound(d), NEW e \in Stripped(d)
  PROVE  Solid(e)
<1>1. d # None /\ DOMAIN NoBranches = {}
  BY RepositoryAssumption DEF NoBranches
<1>2. ASSUME NEW c \in Branches, NEW f, f = [d EXCEPT !.commits = c],
             Ready(d), d.head \in DOMAIN c
      PROVE  Solid(f)
  <2>1. f \in Directory /\ f.git = d.git /\ f.head = d.head /\ f.commits = c
    BY <1>2 DEF Directory
  <2>2. f # None
    BY <2>1, RepositoryAssumption
  <2> QED
    BY <1>1, <1>2, <2>1, <2>2 DEF Solid, Sound, Ready
<1>3. \A t \in Task : Solid(Overwritten(d, t))
  BY OverMoves
<1>4. ASSUME NEW t \in Task, e = [d EXCEPT !.staged = @ \ {t}, !.over = @ \ {t}]
      PROVE  Solid(e)
  <2>1. /\ e \in Directory /\ e.git = d.git /\ e.head = d.head /\ e.commits = d.commits
        /\ e.staged = d.staged \ {t}
    BY <1>4 DEF Directory
  <2>2. e # None
    BY <2>1, RepositoryAssumption
  <2> QED
    BY <1>1, <2>1, <2>2 DEF Solid, Sound, Ready
<1>5. ASSUME NEW t \in Task, NEW b \in DOMAIN d.commits, e = [d EXCEPT !.commits[b] = @ \ {t}]
      PROVE  Solid(e)
  <2>1. PICK c : c = [d.commits EXCEPT ![b] = d.commits[b] \ {t}]
    OBVIOUS
  <2>2. c \in Branches /\ DOMAIN c = DOMAIN d.commits
    BY <2>1, DirectoryIs, BranchesAre
  <2>3. e = [d EXCEPT !.commits = c]
    BY <1>5, <2>1 DEF Directory
  <2>4. Ready(d) /\ d.head \in DOMAIN d.commits
    BY <1>1, <1>5 DEF Sound
  <2> QED
    BY <1>2, <2>2, <2>3, <2>4
<1>6. ASSUME NEW b \in DOMAIN d.commits \ {d.head},
             e = [d EXCEPT !.commits = [x \in DOMAIN d.commits \ {b} |-> d.commits[x]]]
      PROVE  Solid(e)
  <2>1. PICK c : c = [x \in DOMAIN d.commits \ {b} |-> d.commits[x]]
    OBVIOUS
  <2>2. c \in Branches /\ DOMAIN c = DOMAIN d.commits \ {b}
    BY <2>1, DirectoryIs, BranchesAre
  <2>3. e = [d EXCEPT !.commits = c]
    BY <1>6, <2>1
  <2>4. Ready(d) /\ d.head \in DOMAIN d.commits
    BY <1>1, <1>6 DEF Sound
  <2> QED
    BY <1>2, <2>2, <2>3, <2>4
<1>7. e \in OffFiles(d) \/ e \in OffIndex(d) \/ e \in OffBranch(d) \/ e \in LessBranch(d)
  BY StrippedIs
<1>8. CASE e \in OffFiles(d)
  BY <1>3, <1>8 DEF OffFiles
<1>9. CASE e \in OffIndex(d)
  BY <1>4, <1>9 DEF OffIndex
<1>10. CASE e \in OffBranch(d)
  BY <1>5, <1>10 DEF OffBranch
<1>11. CASE e \in LessBranch(d)
  BY <1>6, <1>11 DEF LessBranch
<1> QED
  BY <1>7, <1>8, <1>9, <1>10, <1>11

\* On the branch HEAD is on X is committed now, S is staged and O written over.
Onto(d, X, S, O) == [d EXCEPT !.commits = [d.commits EXCEPT ![d.head] = X], !.staged = S, !.over = O]

LEMMA OntoMoves ==
  ASSUME NEW d, Sound(d), Ready(d), NEW X \in SUBSET Task, NEW S \in SUBSET Task, NEW O \in SUBSET Task,
         d.commits[d.head] \subseteq X, d.staged \subseteq X \cup S
  PROVE  LET e == Onto(d, X, S, O)
         IN  /\ Solid(e) /\ Held(d) \subseteq Held(e) /\ Ready(e) /\ e.head = d.head
             /\ e.commits[d.head] = X
<1> DEFINE c == [d.commits EXCEPT ![d.head] = X]
           e == Onto(d, X, S, O)
<1>1. d \in Directory /\ d # None /\ d.git = "ready" /\ d.head \in DOMAIN d.commits
  BY DEF Sound, Ready
<1>2. c \in Branches
  BY <1>1, DirectoryIs, BranchesAre
<1>3. /\ DOMAIN c = DOMAIN d.commits /\ c[d.head] = X
      /\ \A b \in DOMAIN d.commits : b # d.head => c[b] = d.commits[b]
  BY <1>1
<1> HIDE DEF c
<1>4. e = [d EXCEPT !.commits = c, !.staged = S, !.over = O]
  BY DEF c, Onto
<1> HIDE DEF e
<1>5. e \in Directory
  BY <1>1, <1>2, <1>4 DEF Directory
<1>6. e.git = "ready" /\ e.head = d.head /\ e.commits = c /\ e.staged = S /\ e.unstaged = d.unstaged
  BY <1>1, <1>4 DEF Directory
<1>7. e # None
  BY <1>5, RepositoryAssumption
<1>8. Solid(e) /\ Ready(e)
  BY <1>1, <1>3, <1>5, <1>6, <1>7 DEF Solid, Sound, Ready
<1>9. \A b \in DOMAIN d.commits : d.commits[b] \subseteq e.commits[b] /\ b \in DOMAIN e.commits
  BY <1>1, <1>3, <1>6
<1>10. d.staged \subseteq e.staged \cup e.commits[d.head]
  BY <1>3, <1>6
<1>11. Held(d) \subseteq Held(e)
  BY <1>1, <1>3, <1>6, <1>7, <1>9, <1>10 DEF Held
<1> QED
  BY <1>3, <1>6, <1>8, <1>11 DEF e

LEMMA CommitMoves ==
  ASSUME NEW d, Sound(d), CommitWorks(d)
  PROVE  LET e == Committed(d)
         IN  /\ Solid(e) /\ Held(d) \subseteq Held(e) /\ Ready(e) /\ e.head = d.head
             /\ e.commits[d.head] = d.commits[d.head] \cup d.staged
<1> DEFINE X == d.commits[d.head] \cup d.staged
<1>1. d \in Directory /\ Ready(d) /\ d.head \in DOMAIN d.commits
  BY DEF Sound, Ready, CommitWorks
<1>2. Committed(d) = Onto(d, X, {}, {})
  <2>1. Committed(d) = [d EXCEPT !.commits = [d.commits EXCEPT ![d.head] = X], !.staged = {}, !.over = {}]
    BY <1>1 DEF Committed, Directory
  <2> QED
    BY <2>1 DEF Onto
<1>3. /\ X \in SUBSET Task /\ {} \in SUBSET Task
      /\ d.commits[d.head] \subseteq X /\ d.staged \subseteq X \cup {}
  BY <1>1, DirectoryIs
<1>4. X = d.commits[d.head] \cup d.staged
  OBVIOUS
<1> HIDE DEF X
<1>5. \A Z, Y \in SUBSET Task :
        d.commits[d.head] \subseteq Z /\ d.staged \subseteq Z \cup Y =>
          /\ Solid(Onto(d, Z, Y, Y)) /\ Held(d) \subseteq Held(Onto(d, Z, Y, Y))
          /\ Ready(Onto(d, Z, Y, Y)) /\ Onto(d, Z, Y, Y).head = d.head
          /\ Onto(d, Z, Y, Y).commits[d.head] = Z
  BY <1>1, OntoMoves
<1>6. /\ Solid(Onto(d, X, {}, {})) /\ Held(d) \subseteq Held(Onto(d, X, {}, {}))
      /\ Ready(Onto(d, X, {}, {})) /\ Onto(d, X, {}, {}).head = d.head
      /\ Onto(d, X, {}, {}).commits[d.head] = X
  BY <1>3, <1>5
<1> QED
  BY <1>2, <1>4, <1>6

LEMMA PullMoves ==
  ASSUME NEW d, Sound(d), PullWorks(d), remote \in Branches
  PROVE  Solid(Pulled(d)) /\ Held(d) \subseteq Held(Pulled(d))
<1>1. d \in Directory /\ Ready(d) /\ d.head \in DOMAIN d.commits /\ d.head \in DOMAIN remote
  BY DEF Sound, Ready, PullWorks
<1>2. Pulled(d) = Onto(d, remote[d.head], d.staged, d.over)
  <2>1. Pulled(d) = [d EXCEPT !.commits = [d.commits EXCEPT ![d.head] = remote[d.head]],
                               !.staged = d.staged, !.over = d.over]
    BY <1>1 DEF Pulled, Directory
  <2> QED
    BY <2>1 DEF Onto
<1>3. remote[d.head] \in SUBSET Task /\ d.staged \in SUBSET Task /\ d.over \in SUBSET Task
  BY <1>1, DirectoryIs, BranchesAre
<1>4. d.commits[d.head] \subseteq remote[d.head]
  BY DEF PullWorks
<1> QED
  BY <1>1, <1>2, <1>3, <1>4, OntoMoves

LEMMA EditMoves ==
  ASSUME NEW d \in Directory, Sound(d), NEW t \in Task
  PROVE  LET e == [d EXCEPT !.unstaged = @ \cup {t}]
         IN  Solid(e) /\ Held(d) \subseteq Held(e)
<1> DEFINE e == [d EXCEPT !.unstaged = @ \cup {t}]
<1>1. /\ e \in Directory /\ e.git = d.git /\ e.head = d.head /\ e.commits = d.commits
      /\ e.staged = d.staged /\ d.unstaged \subseteq e.unstaged
  BY DEF Directory
<1> HIDE DEF e
<1>2. d # None /\ e # None
  BY <1>1, RepositoryAssumption
<1>3. Held(d) \subseteq Held(e)
  BY <1>1, <1>2 DEF Held
<1>4. Solid(e)
  BY <1>1, <1>2 DEF Solid, Sound, Ready
<1> QED
  BY <1>3, <1>4 DEF e

DiskInv ==
  /\ disk \in [Name -> Directory \cup {None}]
  /\ \A n \in Name : Sound(disk[n])

RemoteInv == remote \in Branches /\ Main \in DOMAIN remote

Stage ==
  {"idle", "done", "check", "work", "fetched", "clone", "pull", "unpack", "move",
   "branch", "switch", "add", "commit", "push"}

TaskState ==
  [pc : Stage, branch : Branch \cup {None}, pushed : BOOLEAN, mine : BOOLEAN,
   steady : BOOLEAN, raced : BOOLEAN]

\* A finalize that nobody disturbed has its task's edits in its hands, from its
\* look at the changes to the push.
TaskAgrees(t) ==
  LET d == Here(t)
      r == task[t]
  IN  /\ r.pushed => r.pc = "done"
      /\ r.pc \in {"clone", "move"} /\ ~r.raced => ~HasGit(d)
      /\ r.mine /\ r.steady =>
           /\ Finalising(r) => Ready(d) /\ InHand(t, r.pc, d)
           /\ r.pc \in {"add", "commit", "push"} => d.head = Own[t]
           /\ r.pushed => OnOrigin(t)

TasksInv ==
  /\ task \in [Task -> TaskState]
  /\ committing \in Task \cup {Nobody}
  /\ pulls \subseteq DOMAIN remote
  /\ \A t \in Task : TaskAgrees(t)

(* Steps, and what they leave of the directories and of the remote. *)

DirStep ==
  /\ disk' \in [Name -> Directory \cup {None}]
  /\ \A n \in Name : Sound(disk'[n])

NoneGone == \A n \in Name : disk[n] # None => disk'[n] # None

RemoteGrows == \A b \in DOMAIN remote : b \in DOMAIN remote' /\ remote[b] \subseteq remote'[b]

\* What u told is still true.
OriginKept(u) == task'[u].steady /\ OnOrigin(u) => OnOrigin(u)'

LEMMA GrowsKeeps == RemoteGrows => \A u \in Task : OriginKept(u)
BY DEF RemoteGrows, OriginKept, OnOrigin

\* The record of a task that does not act.
Watches(u) ==
  /\ task'[u].pc = task[u].pc
  /\ task'[u].pushed = task[u].pushed
  /\ task'[u].mine = task[u].mine
  /\ task'[u].steady => task[u].steady /\ (Finalising(task[u]) => Undisturbed(u))
  /\ ~task'[u].raced => /\ ~task[u].raced
                        /\ Cloning(task[u]) /\ HasGit(disk'[Root[u]]) => HasGit(Here(u))

LEMMA RootIs == ASSUME NEW t \in Task PROVE Root[t] \in Name /\ Own[t] \in Branch /\ Own[t] # Main
BY TaskGitAssumption

LEMMA TaskStateIs ==
  ASSUME NEW r \in TaskState
  PROVE  /\ r.pc \in Stage /\ r.branch \in Branch \cup {None}
         /\ r.pushed \in BOOLEAN /\ r.mine \in BOOLEAN /\ r.steady \in BOOLEAN /\ r.raced \in BOOLEAN
BY DEF TaskState

LEMMA HereIs ==
  ASSUME DiskInv, NEW t \in Task
  PROVE  Here(t) \in Directory \cup {None} /\ Sound(Here(t)) /\ (Here(t) # None => Here(t) \in Directory)
BY RootIs DEF DiskInv, Here

LEMMA NowMoves ==
  ASSUME DiskInv, NEW t \in Task, NEW e, Now(t, e), Solid(e)
  PROVE  DirStep /\ NoneGone /\ disk'[Root[t]] = e /\ \A n \in Name \ {Root[t]} : disk'[n] = disk[n]
<1>1. e \in Directory /\ e # None
  BY DEF Solid, Sound
<1>2. Root[t] \in Name
  BY RootIs
<1>3. disk'[Root[t]] = e /\ \A n \in Name \ {Root[t]} : disk'[n] = disk[n]
  BY <1>2 DEF Now, DiskInv
<1>4. disk' \in [Name -> Directory \cup {None}]
  BY <1>1, <1>2 DEF Now, DiskInv
<1>5. \A n \in Name : Sound(disk'[n])
  BY <1>3 DEF DiskInv, Solid
<1>6. NoneGone
  BY <1>1, <1>3 DEF NoneGone
<1> QED
  BY <1>3, <1>4, <1>5, <1>6 DEF DirStep

LEMMA DiskStays ==
  ASSUME DiskInv, UNCHANGED disk
  PROVE  DirStep /\ NoneGone
BY DEF DiskInv, DirStep, NoneGone

LEMMA WatchedMeans ==
  ASSUME NEW tasks \in [Task -> TaskState], NEW actor
  PROVE  LET w == Watched(tasks, actor)
         IN  /\ w \in [Task -> TaskState]
             /\ \A u \in Task : u = actor => w[u] = tasks[u]
             /\ \A u \in Task : u # actor =>
                  /\ w[u].pc = tasks[u].pc /\ w[u].pushed = tasks[u].pushed
                  /\ w[u].mine = tasks[u].mine
                  /\ w[u].steady => tasks[u].steady /\ (Finalising(tasks[u]) => Undisturbed(u))
                  /\ ~w[u].raced => /\ ~tasks[u].raced
                                    /\ Cloning(tasks[u]) /\ HasGit(disk'[Root[u]]) => HasGit(Here(u))
<1> DEFINE w == Watched(tasks, actor)
<1>1. ASSUME NEW u \in Task
      PROVE  /\ w[u] \in TaskState
             /\ u = actor => w[u] = tasks[u]
             /\ u # actor =>
                  /\ w[u].pc = tasks[u].pc /\ w[u].pushed = tasks[u].pushed
                  /\ w[u].mine = tasks[u].mine
                  /\ w[u].steady => tasks[u].steady /\ (Finalising(tasks[u]) => Undisturbed(u))
                  /\ ~w[u].raced => /\ ~tasks[u].raced
                                    /\ Cloning(tasks[u]) /\ HasGit(disk'[Root[u]]) => HasGit(Here(u))
  <2> DEFINE X == Finalising(tasks[u]) => Undisturbed(u)
             Y == Cloning(tasks[u]) /\ HasGit(disk'[Root[u]]) /\ ~HasGit(Here(u))
  <2>1. tasks[u] \in TaskState
    OBVIOUS
  <2>2. CASE u = actor
    BY <2>1, <2>2 DEF Watched
  <2>3. CASE u # actor
    <3>1. w[u] = [tasks[u] EXCEPT !.steady = @ /\ X, !.raced = @ \/ Y]
      BY <2>3 DEF Watched
    <3> HIDE DEF X, Y
    <3>2. /\ w[u] \in TaskState /\ w[u].pc = tasks[u].pc /\ w[u].pushed = tasks[u].pushed
          /\ w[u].mine = tasks[u].mine
          /\ w[u].steady => tasks[u].steady /\ X
          /\ ~w[u].raced => ~tasks[u].raced /\ ~Y
      BY <2>1, <3>1 DEF TaskState
    <3> QED
      BY <2>3, <3>2 DEF X, Y
  <2> QED
    BY <2>2, <2>3
<1>2. w = [u \in Task |-> w[u]]
  BY DEF Watched
<1> HIDE DEF w
<1>3. w \in [Task -> TaskState]
  BY <1>1, <1>2
<1>4. \A u \in Task : u = actor => w[u] = tasks[u]
  BY <1>1
<1>5. ASSUME NEW u \in Task, u # actor
      PROVE  /\ w[u].pc = tasks[u].pc /\ w[u].pushed = tasks[u].pushed
             /\ w[u].mine = tasks[u].mine
             /\ w[u].steady => tasks[u].steady /\ (Finalising(tasks[u]) => Undisturbed(u))
             /\ ~w[u].raced => /\ ~tasks[u].raced
                               /\ Cloning(tasks[u]) /\ HasGit(disk'[Root[u]]) => HasGit(Here(u))
  BY <1>1, <1>5
<1> QED
  BY <1>3, <1>4, <1>5 DEF w

-------------------------------------------------------------------------------
(* The steps of a task. *)

\* A step of the thread of t, whose record becomes r.
LEMMA StepsMean ==
  ASSUME task \in [Task -> TaskState], NEW t \in Task, NEW r \in TaskState, Steps(t, r)
  PROVE  /\ task' \in [Task -> TaskState]
         /\ task'[t].pc = r.pc /\ task'[t].pushed = r.pushed /\ task'[t].mine = r.mine
         /\ task'[t].steady = r.steady
         /\ ~task'[t].raced => ~r.raced \/ ~Cloning(r)
         /\ \A u \in Task \ {t} : Watches(u)
<1>1. PICK q : q = [r EXCEPT !.raced = @ /\ Cloning(r)] /\ task' = Watched([task EXCEPT ![t] = q], t)
  BY DEF Steps
<1>2. /\ q \in TaskState /\ q.pc = r.pc /\ q.pushed = r.pushed /\ q.mine = r.mine
      /\ q.steady = r.steady /\ (~q.raced => ~r.raced \/ ~Cloning(r))
  BY <1>1 DEF TaskState
<1>3. PICK tasks : tasks = [task EXCEPT ![t] = q]
  OBVIOUS
<1>4. tasks \in [Task -> TaskState] /\ tasks[t] = q /\ \A u \in Task \ {t} : tasks[u] = task[u]
  BY <1>2, <1>3
<1>5. task' = Watched(tasks, t)
  BY <1>1, <1>3
<1>6. /\ task' \in [Task -> TaskState] /\ task'[t] = q
      /\ \A u \in Task \ {t} : Watches(u)
  BY <1>4, <1>5, WatchedMeans DEF Watches
<1> QED
  BY <1>2, <1>6

\* The thread of t goes on, or its run ends.
LEMMA GoesOn ==
  ASSUME task \in [Task -> TaskState], NEW t \in Task, NEW pc \in Stage, Goes(t, pc)
  PROVE  /\ task' \in [Task -> TaskState]
         /\ task'[t].pc = pc /\ task'[t].pushed = task[t].pushed
         /\ task'[t].mine = task[t].mine /\ task'[t].steady = task[t].steady
         /\ ~task'[t].raced => ~task[t].raced \/ pc \notin {"clone", "unpack", "move"}
         /\ \A u \in Task \ {t} : Watches(u)
<1>1. PICK r : r = [task[t] EXCEPT !.pc = pc] /\ Steps(t, r)
  BY DEF Goes
<1>2. task[t] \in TaskState
  OBVIOUS
<1>3. /\ r \in TaskState /\ r.pc = pc /\ r.pushed = task[t].pushed /\ r.mine = task[t].mine
      /\ r.steady = task[t].steady /\ r.raced = task[t].raced
  BY <1>1, <1>2 DEF TaskState
<1> QED
  BY <1>1, <1>3, StepsMean DEF Cloning

LEMMA RunEnds ==
  ASSUME task \in [Task -> TaskState], NEW t \in Task, NEW p \in BOOLEAN, Ends(t, p)
  PROVE  /\ task' \in [Task -> TaskState]
         /\ task'[t].pc = "done" /\ task'[t].pushed = p
         /\ task'[t].mine = (task[t].mine /\ p)
         /\ task'[t].steady = (task[t].steady /\ p)
         /\ \A u \in Task \ {t} : Watches(u)
<1>1. PICK r : /\ r = [task[t] EXCEPT !.pc = "done", !.pushed = p, !.mine = @ /\ p, !.steady = @ /\ p]
               /\ Steps(t, r)
  BY DEF Ends
<1>2. task[t] \in TaskState
  OBVIOUS
<1>3. /\ r \in TaskState /\ r.pc = "done" /\ r.pushed = p /\ r.mine = (task[t].mine /\ p)
      /\ r.steady = (task[t].steady /\ p)
  BY <1>1, <1>2 DEF TaskState, Stage
<1> QED
  BY <1>1, <1>3, StepsMean

\* A tool or an endpoint: only the branch of t changes.
LEMMA CallMeans ==
  ASSUME task \in [Task -> TaskState], NEW t \in Task, NEW b \in Branch \cup {None},
         NEW tool \in BOOLEAN, Called(t, b, tool)
  PROVE  /\ task' \in [Task -> TaskState]
         /\ \A u \in Task : \/ Watches(u)
                            \/ /\ u = t /\ task[u].pc = "work" /\ task'[u].pc = "work"
                               /\ task'[u].pushed = task[u].pushed
<1>1. PICK q : /\ q = [task[t] EXCEPT !.branch = b]
               /\ task' = Watched([task EXCEPT ![t] = q], IF tool THEN t ELSE Nobody)
  BY DEF Called
<1>2. task[t] \in TaskState
  OBVIOUS
<1>3. /\ q \in TaskState /\ q.pc = task[t].pc /\ q.pushed = task[t].pushed /\ q.mine = task[t].mine
      /\ q.steady = task[t].steady /\ q.raced = task[t].raced
  BY <1>1, <1>2 DEF TaskState
<1>4. PICK tasks : tasks = [task EXCEPT ![t] = q]
  OBVIOUS
<1>5. tasks \in [Task -> TaskState] /\ tasks[t] = q /\ \A u \in Task \ {t} : tasks[u] = task[u]
  BY <1>3, <1>4
<1>6. \A u \in Task : /\ tasks[u].pc = task[u].pc /\ tasks[u].pushed = task[u].pushed
                       /\ tasks[u].mine = task[u].mine /\ tasks[u].steady = task[u].steady
                       /\ tasks[u].raced = task[u].raced
  BY <1>3, <1>5
<1>7. \A u \in Task : Finalising(tasks[u]) = Finalising(task[u]) /\ Cloning(tasks[u]) = Cloning(task[u])
  BY <1>6 DEF Finalising, Cloning
<1>8. PICK actor : actor = (IF tool THEN t ELSE Nobody) /\ task' = Watched(tasks, actor)
  BY <1>1, <1>4
<1>9. /\ task' \in [Task -> TaskState]
      /\ \A u \in Task : u # actor => Watches(u)
      /\ \A u \in Task : u = actor => task'[u] = tasks[u]
  BY <1>5, <1>6, <1>7, <1>8, WatchedMeans DEF Watches
<1>10. CASE tool
  <2>1. task[t].pc = "work"
    BY <1>10 DEF Called, Doing
  <2> QED
    BY <1>6, <1>8, <1>9, <1>10, <2>1
<1>11. CASE ~tool
  <2>1. \A u \in Task : u # actor
    BY <1>8, <1>11, TaskGitAssumption
  <2> QED
    BY <1>9, <2>1
<1> QED
  BY <1>10, <1>11

LEMMA NobodyActs ==
  ASSUME task \in [Task -> TaskState], task' = Watched(task, Nobody)
  PROVE  task' \in [Task -> TaskState] /\ \A u \in Task : Watches(u)
<1>1. \A u \in Task : u # Nobody
  BY TaskGitAssumption
<1> QED
  BY <1>1, WatchedMeans DEF Watches

(* What others do leaves what the invariant says of a task that does not act.  *)

LEMMA WatchedAgrees ==
  ASSUME NEW u \in Task, TaskAgrees(u), Watches(u), OriginKept(u)
  PROVE  TaskAgrees(u)'
<1> DEFINE d == Here(u)
           e == disk'[Root[u]]
           r == task[u]
           q == task'[u]
<1>1. /\ q.pc = r.pc /\ q.pushed = r.pushed /\ q.mine = r.mine
      /\ q.steady => r.steady /\ (Finalising(r) => Undisturbed(u))
      /\ ~q.raced => ~r.raced /\ (Cloning(r) /\ HasGit(e) => HasGit(d))
  BY DEF Watches
<1>2. /\ r.pushed => r.pc = "done"
      /\ r.pc \in {"clone", "move"} /\ ~r.raced => ~HasGit(d)
      /\ r.mine /\ r.steady =>
           /\ Finalising(r) => Ready(d) /\ InHand(u, r.pc, d)
           /\ r.pc \in {"add", "commit", "push"} => d.head = Own[u]
           /\ r.pushed => OnOrigin(u)
  BY DEF TaskAgrees
<1>3. q.pc \in {"clone", "move"} /\ ~q.raced => ~HasGit(e)
  BY <1>1, <1>2 DEF Cloning
<1>4. Finalising(q) = Finalising(r) /\ (r.pc \in {"add", "commit", "push"} => Finalising(r))
  BY <1>1 DEF Finalising
<1>5. ASSUME q.mine, q.steady
      PROVE  /\ Finalising(q) => Ready(e) /\ InHand(u, q.pc, e)
             /\ q.pc \in {"add", "commit", "push"} => e.head = Own[u]
             /\ q.pushed => OnOrigin(u)'
  <2>1. Finalising(r) => Ready(e) /\ e.head = d.head /\ (InHand(u, r.pc, d) => InHand(u, r.pc, e))
    BY <1>1, <1>5 DEF Undisturbed
  <2>2. InHand(u, q.pc, e) = InHand(u, r.pc, e)
    BY <1>1
  <2>3. q.pushed => OnOrigin(u)'
    BY <1>1, <1>2, <1>5 DEF OriginKept
  <2> QED
    BY <1>1, <1>2, <1>4, <1>5, <2>1, <2>2, <2>3
<1>6. q.pushed => q.pc = "done"
  BY <1>1, <1>2
<1> QED
  BY <1>3, <1>5, <1>6 DEF TaskAgrees, Here

\* Neither finalizing nor cloning, and nothing is said to be pushed.
LEMMA PlainAgrees ==
  ASSUME NEW t \in Task, ~task'[t].pushed,
         task'[t].pc \in {"idle", "done", "check", "work", "fetched", "pull", "unpack"}
  PROVE  TaskAgrees(t)'
BY DEF TaskAgrees, Finalising

LEMMA CloneAgrees ==
  ASSUME NEW t \in Task, ~task'[t].pushed, task'[t].pc \in {"clone", "move"},
         ~task'[t].raced => ~HasGit(Here(t)')
  PROVE  TaskAgrees(t)'
BY DEF TaskAgrees, Finalising

\* What every step of a task has: of each other task, or of each task that was
\* only watched, the invariant follows from WatchedAgrees.
TaskEffect ==
  /\ DirStep /\ NoneGone
  /\ task' \in [Task -> TaskState]
  /\ \A u \in Task : Watches(u) \/ TaskAgrees(u)'

LEMMA PushedIs ==
  ASSUME RemoteInv, NEW d, Sound(d), Ready(d), NEW b \in DOMAIN d.commits, remote' = Pushed(d, b)
  PROVE  /\ RemoteInv' /\ DOMAIN remote' = DOMAIN remote \cup {b}
         /\ \A c \in DOMAIN remote' : remote'[c] = IF c = b THEN d.commits[b] ELSE remote[c]
<1>1. d \in Directory /\ d.commits[b] \subseteq Task /\ b \in Branch
  BY DirectoryIs DEF Ready, Sound
<1>2. DOMAIN remote \subseteq Branch /\ remote \in [DOMAIN remote -> SUBSET Task]
  BY BranchesAre DEF RemoteInv
<1>3. DOMAIN remote' = DOMAIN remote \cup {b}
  BY DEF Pushed
<1>4. \A c \in DOMAIN remote' : remote'[c] = IF c = b THEN d.commits[b] ELSE remote[c]
  BY DEF Pushed
<1>5. remote' \in [DOMAIN remote' -> SUBSET Task]
  <2>1. \A c \in DOMAIN remote' : remote'[c] \in SUBSET Task
    BY <1>1, <1>2, <1>3, <1>4
  <2>2. remote' = [c \in DOMAIN remote' |-> remote'[c]]
    BY DEF Pushed
  <2> QED
    BY <2>1, <2>2
<1>6. remote' \in Branches
  BY <1>1, <1>2, <1>3, <1>5, BranchesAre
<1> QED
  BY <1>3, <1>4, <1>6 DEF RemoteInv

LEMMA PushGrows ==
  ASSUME RemoteInv, NEW d, Sound(d), NEW b, PushWorks(d, b), remote' = Pushed(d, b)
  PROVE  /\ RemoteInv' /\ RemoteGrows
         /\ b \in DOMAIN remote' /\ remote'[b] = d.commits[b]
<1>1. Ready(d) /\ b \in DOMAIN d.commits
  BY DEF PushWorks
<1>2. /\ RemoteInv' /\ DOMAIN remote' = DOMAIN remote \cup {b}
      /\ \A c \in DOMAIN remote' : remote'[c] = IF c = b THEN d.commits[b] ELSE remote[c]
  BY <1>1, PushedIs
<1> QED
  BY <1>2 DEF RemoteGrows, PushWorks

LEMMA CheckEffect ==
  ASSUME DiskInv, TasksInv, NEW t \in Task, Check(t)
  PROVE  TaskEffect
<1>1. /\ task \in [Task -> TaskState] /\ ~task[t].pushed /\ UNCHANGED disk
  BY DEF Check, Doing, TasksInv, TaskAgrees
<1>2. DirStep /\ NoneGone
  BY <1>1, DiskStays
<1>3. ASSUME NEW pc \in {"fetched", "work"}, Goes(t, pc)
      PROVE  TaskEffect
  <2>1. pc \in Stage
    BY DEF Stage
  <2> QED
    BY <1>1, <1>2, <1>3, <2>1, GoesOn, PlainAgrees DEF TaskEffect
<1>4. ASSUME Goes(t, "clone"), ~HasGit(Here(t))
      PROVE  TaskEffect
  <2>1. "clone" \in Stage /\ ~HasGit(Here(t)')
    BY <1>1, <1>4 DEF Stage, Here
  <2> QED
    BY <1>1, <1>2, <1>4, <2>1, GoesOn, CloneAgrees DEF TaskEffect
<1> QED
  BY <1>3, <1>4 DEF Check

LEMMA DefaultEffect ==
  ASSUME DiskInv, TasksInv, NEW t \in Task, CheckoutDefault(t)
  PROVE  TaskEffect
<1>1. /\ task \in [Task -> TaskState] /\ ~task[t].pushed /\ "pull" \in Stage /\ Goes(t, "pull")
  BY DEF CheckoutDefault, Doing, TasksInv, TaskAgrees, Stage
<1>2. DirStep /\ NoneGone
  <2>1. CASE CheckoutWorks(Here(t), Main) /\ Now(t, CheckedOut(Here(t), Main))
    BY <2>1, HereIs, CheckoutMoves, NowMoves, RepositoryAssumption
  <2>2. CASE UNCHANGED disk
    BY <2>2, DiskStays
  <2> QED
    BY <2>1, <2>2 DEF CheckoutDefault
<1> QED
  BY <1>1, <1>2, GoesOn, PlainAgrees DEF TaskEffect

LEMMA PullEffect ==
  ASSUME DiskInv, RemoteInv, TasksInv, NEW t \in Task, Pull(t)
  PROVE  TaskEffect
<1>1. /\ task \in [Task -> TaskState] /\ ~task[t].pushed /\ "work" \in Stage /\ Goes(t, "work")
  BY DEF Pull, Doing, TasksInv, TaskAgrees, Stage
<1>2. DirStep /\ NoneGone
  <2>1. CASE PullWorks(Here(t)) /\ Now(t, Pulled(Here(t)))
    BY <2>1, HereIs, PullMoves, NowMoves DEF RemoteInv
  <2>2. CASE UNCHANGED disk
    BY <2>2, DiskStays
  <2> QED
    BY <2>1, <2>2 DEF Pull
<1> QED
  BY <1>1, <1>2, GoesOn, PlainAgrees DEF TaskEffect

LEMMA CloneEffect ==
  ASSUME DiskInv, TasksInv, NEW t \in Task, Clone(t)
  PROVE  TaskEffect
<1>1. /\ task \in [Task -> TaskState] /\ ~task[t].pushed /\ {"unpack", "move"} \subseteq Stage
      /\ task[t].pc = "clone" /\ (~task[t].raced => ~HasGit(Here(t)))
  BY DEF Clone, Doing, TasksInv, TaskAgrees, Stage
<1>2. CASE Now(t, Begun) /\ Goes(t, "unpack")
  <2>1. DirStep /\ NoneGone
    BY <1>2, BegunIs, NowMoves
  <2> QED
    BY <1>1, <1>2, <2>1, GoesOn, PlainAgrees DEF TaskEffect
<1>3. CASE UNCHANGED disk /\ Goes(t, "move")
  <2>1. DirStep /\ NoneGone
    BY <1>3, DiskStays
  <2>2. Here(t)' = Here(t)
    BY <1>3 DEF Here
  <2> QED
    BY <1>1, <1>3, <2>1, <2>2, GoesOn, CloneAgrees DEF TaskEffect
<1> QED
  BY <1>2, <1>3 DEF Clone

LEMMA CloneEndsEffect ==
  ASSUME DiskInv, RemoteInv, TasksInv, NEW t \in Task, CloneEnds(t)
  PROVE  TaskEffect
<1>1. /\ task \in [Task -> TaskState] /\ ~task[t].pushed /\ "work" \in Stage
  BY DEF CloneEnds, Doing, TasksInv, TaskAgrees, Stage
<1>2. DirStep /\ NoneGone
  <2>1. CASE Partial(Here(t)) /\ Now(t, Cloned(Here(t).unstaged))
    <3>1. Here(t).unstaged \subseteq Task
      BY <2>1, HereIs, DirectoryIs DEF Partial
    <3>2. Solid(Cloned(Here(t).unstaged))
      BY <3>1, ClonedIsSound DEF RemoteInv
    <3> QED
      BY <2>1, <3>2, NowMoves
  <2>2. CASE Now(t, EmptyDir)
    BY <2>2, EmptyDirIs, NowMoves DEF Solid
  <2>3. CASE UNCHANGED disk
    BY <2>3, DiskStays
  <2> QED
    BY <2>1, <2>2, <2>3 DEF CloneEnds
<1>3. Goes(t, "work") \/ Ends(t, FALSE)
  BY DEF CloneEnds
<1> QED
  BY <1>1, <1>2, <1>3, GoesOn, RunEnds, PlainAgrees DEF TaskEffect

LEMMA MoveInEffect ==
  ASSUME DiskInv, RemoteInv, TasksInv, NEW t \in Task, MoveIn(t)
  PROVE  TaskEffect
<1>1. /\ task \in [Task -> TaskState] /\ ~task[t].pushed /\ "work" \in Stage /\ Goes(t, "work")
  BY DEF MoveIn, Doing, TasksInv, TaskAgrees, Stage
<1>2. DirStep /\ NoneGone
  <2>1. CASE UNCHANGED disk
    BY <2>1, DiskStays
  <2>2. ASSUME NEW left \in SUBSET (IF Here(t) = None THEN {} ELSE InFiles(Here(t))), Now(t, Cloned(left))
        PROVE  DirStep /\ NoneGone
    <3>1. left \in SUBSET Task
      BY <2>2, HereIs, DirectoryIs DEF InFiles
    <3>2. Solid(Cloned(left))
      BY <3>1, ClonedIsSound DEF RemoteInv
    <3> QED
      BY <2>2, <3>2, NowMoves
  <2> QED
    BY <2>1, <2>2 DEF MoveIn
<1> QED
  BY <1>1, <1>2, GoesOn, PlainAgrees DEF TaskEffect

LEMMA EditEffect ==
  ASSUME DiskInv, TasksInv, NEW t \in Task, Edit(t)
  PROVE  TaskEffect
<1>1. /\ task \in [Task -> TaskState] /\ ~task[t].pushed /\ "work" \in Stage /\ Goes(t, "work")
  BY DEF Edit, Doing, TasksInv, TaskAgrees, Stage
<1>2. PICK d : d = IF Here(t) = None THEN EmptyDir ELSE Here(t)
  OBVIOUS
<1>3. PICK e : e = [d EXCEPT !.unstaged = @ \cup {t}] /\ Now(t, e)
  BY <1>2 DEF Edit
<1>4. d \in Directory /\ Sound(d) /\ (Here(t) # None => Here(t) = d)
  BY <1>2, HereIs, EmptyDirIs
<1>5. Solid(e)
  BY <1>3, <1>4, EditMoves
<1> QED
  BY <1>1, <1>3, <1>5, NowMoves, GoesOn, PlainAgrees DEF TaskEffect

LEMMA StartEffect ==
  ASSUME DiskInv, TasksInv, NEW t \in Task, Start(t)
  PROVE  TaskEffect
<1>1. DirStep /\ NoneGone
  <2>1. CASE Here(t) = None /\ Now(t, EmptyDir)
    BY <2>1, EmptyDirIs, NowMoves DEF Solid
  <2>2. CASE UNCHANGED disk
    BY <2>2, DiskStays
  <2> QED
    BY <2>1, <2>2 DEF Start
<1>2. PICK r : /\ r = [NoTask EXCEPT !.pc = "check"] \/ r = [NoTask EXCEPT !.pc = "work"]
               /\ Steps(t, r)
  BY DEF Start
<1>3. r \in TaskState /\ r.pc \in {"check", "work"} /\ ~r.pushed
  BY <1>2 DEF NoTask, TaskState, Stage
<1>4. task \in [Task -> TaskState]
  BY DEF TasksInv
<1> QED
  BY <1>1, <1>2, <1>3, <1>4, StepsMean, PlainAgrees DEF TaskEffect

LEMMA FinishEffect ==
  ASSUME DiskInv, TasksInv, NEW t \in Task, Finish(t)
  PROVE  TaskEffect
<1>1. task \in [Task -> TaskState] /\ UNCHANGED disk /\ Ends(t, FALSE)
  BY DEF Finish, TasksInv
<1> QED
  BY <1>1, DiskStays, RunEnds, PlainAgrees DEF TaskEffect

-------------------------------------------------------------------------------
(* Finalize. *)

\* Of a task between its look at the changes and the push.
LEMMA OnItsBranch ==
  ASSUME NEW t \in Task, NEW pc \in {"branch", "switch", "add", "commit", "push"},
         task'[t].pc = pc, ~task'[t].pushed,
         NEW e, e = disk'[Root[t]],
         task'[t].mine /\ task'[t].steady =>
           Ready(e) /\ InHand(t, pc, e) /\ (pc \in {"add", "commit", "push"} => e.head = Own[t])
  PROVE  TaskAgrees(t)'
<1>1. e = Here(t)'
  BY DEF Here
<1>2. InHand(t, pc, e) = InHand(t, task[t].pc, Here(t))'
  BY <1>1
<1>3. Ready(e) = Ready(Here(t))'
  BY <1>1
<1> QED
  BY <1>1, <1>2, <1>3 DEF TaskAgrees

LEMMA FinalizeEffect ==
  ASSUME DiskInv, TasksInv, NEW t \in Task, Finalize(t)
  PROVE  TaskEffect
<1>1. /\ task \in [Task -> TaskState] /\ task[t] \in TaskState /\ ~task[t].pushed
      /\ UNCHANGED disk /\ Here(t)' = Here(t)
  BY DEF Finalize, Doing, TasksInv, TaskAgrees, Here
<1>2. DirStep /\ NoneGone
  BY <1>1, DiskStays
<1>3. CASE Ends(t, FALSE)
  BY <1>1, <1>2, <1>3, RunEnds, PlainAgrees DEF TaskEffect
<1>4. CASE Changed(Here(t)) # {} /\ ~Ends(t, FALSE)
  <2> DEFINE m == t \in InFiles(Here(t))
  <2>1. PICK r : /\ r = [task[t] EXCEPT !.pc = "branch", !.mine = m, !.steady = TRUE]
                 /\ Steps(t, r)
    BY <1>4 DEF Finalize
  <2>2. /\ r \in TaskState /\ r.pc = "branch" /\ ~r.pushed
        /\ r.mine => t \in InFiles(Here(t))
    <3>1. m \in BOOLEAN
      OBVIOUS
    <3> HIDE DEF m
    <3>2. r \in TaskState /\ r.pc = "branch" /\ ~r.pushed /\ r.mine = m
      BY <1>1, <2>1, <3>1 DEF TaskState, Stage
    <3> QED
      BY <3>2 DEF m
  <2>3. Ready(Here(t)) /\ (t \in InFiles(Here(t)) => InHand(t, "branch", Here(t)))
    BY <1>4 DEF Changed, InHand
  <2>4. /\ task' \in [Task -> TaskState] /\ task'[t].pc = "branch" /\ ~task'[t].pushed
        /\ task'[t].mine => t \in InFiles(Here(t))
        /\ \A u \in Task \ {t} : Watches(u)
    BY <1>1, <2>1, <2>2, StepsMean
  <2>5. Here(t)' = disk'[Root[t]]
    BY DEF Here
  <2>6. TaskAgrees(t)'
    BY <1>1, <2>3, <2>4, <2>5, OnItsBranch
  <2> QED
    BY <1>2, <2>4, <2>6 DEF TaskEffect
<1> QED
  BY <1>3, <1>4 DEF Finalize

LEMMA BranchOffEffect ==
  ASSUME DiskInv, TasksInv, NEW t \in Task, BranchOff(t)
  PROVE  TaskEffect
<1> DEFINE d == Here(t)
           b == Own[t]
<1>1. /\ task \in [Task -> TaskState] /\ task[t] \in TaskState /\ ~task[t].pushed
      /\ task[t].mine /\ task[t].steady => Ready(d) /\ InHand(t, "branch", d)
      /\ Sound(d) /\ b \in Branch /\ {"switch", "add"} \subseteq Stage
  BY HereIs, RootIs DEF BranchOff, Doing, TasksInv, TaskAgrees, Finalising, Stage
<1>2. CASE /\ CreateWorks(d, b) /\ Now(t, Branched(d, b))
           /\ Steps(t, [task[t] EXCEPT !.pc = "add", !.branch = b])
  <2>1. PICK e : e = Branched(d, b)
    OBVIOUS
  <2>2. Solid(e) /\ Ready(e) /\ e.head = b /\ InFiles(e) = InFiles(d)
    BY <1>1, <1>2, <2>1, BranchMoves DEF InFiles
  <2>3. DirStep /\ NoneGone /\ disk'[Root[t]] = e
    BY <1>2, <2>1, <2>2, NowMoves
  <2>4. PICK r : r = [task[t] EXCEPT !.pc = "add", !.branch = b] /\ Steps(t, r)
    BY <1>2
  <2>5. r \in TaskState /\ r.pc = "add" /\ ~r.pushed /\ r.mine = task[t].mine /\ r.steady = task[t].steady
    BY <1>1, <2>4 DEF TaskState
  <2>6. /\ task' \in [Task -> TaskState] /\ task'[t].pc = "add" /\ ~task'[t].pushed
        /\ task'[t].mine = task[t].mine /\ task'[t].steady = task[t].steady
        /\ \A u \in Task \ {t} : Watches(u)
    BY <1>1, <2>4, <2>5, StepsMean
  <2>7. InHand(t, "branch", d) => InHand(t, "add", e)
    BY <1>2, <2>2 DEF InHand, CreateWorks
  <2>8. TaskAgrees(t)'
    BY <1>1, <2>2, <2>3, <2>6, <2>7, OnItsBranch
  <2> QED
    BY <2>3, <2>6, <2>8 DEF TaskEffect
<1>3. CASE UNCHANGED disk /\ Goes(t, "switch")
  <2>1. DirStep /\ NoneGone /\ disk'[Root[t]] = d
    BY <1>3, DiskStays DEF Here
  <2>2. InHand(t, "branch", d) => InHand(t, "switch", d)
    BY DEF InHand
  <2>3. TaskAgrees(t)'
    BY <1>1, <1>3, <2>1, <2>2, GoesOn, OnItsBranch
  <2> QED
    BY <1>1, <1>3, <2>1, <2>3, GoesOn DEF TaskEffect
<1> QED
  BY <1>2, <1>3 DEF BranchOff

LEMMA SwitchToEffect ==
  ASSUME DiskInv, TasksInv, NEW t \in Task, SwitchTo(t)
  PROVE  TaskEffect
<1> DEFINE d == Here(t)
           b == Own[t]
<1>1. /\ task \in [Task -> TaskState] /\ task[t] \in TaskState /\ ~task[t].pushed
      /\ task[t].mine /\ task[t].steady => Ready(d) /\ InHand(t, "switch", d)
      /\ Sound(d) /\ b \in Branch /\ "add" \in Stage
  BY HereIs, RootIs DEF SwitchTo, Doing, TasksInv, TaskAgrees, Finalising, Stage
<1>2. PICK add : add = [task[t] EXCEPT !.pc = "add", !.branch = b]
  OBVIOUS
<1>3. add \in TaskState /\ add.pc = "add" /\ ~add.pushed /\ add.mine = task[t].mine /\ add.steady = task[t].steady
  BY <1>1, <1>2 DEF TaskState
<1>4. CASE CheckoutWorks(d, b) /\ Now(t, CheckedOut(d, b)) /\ Steps(t, add)
  <2>1. PICK e : e = CheckedOut(d, b)
    OBVIOUS
  <2>2. Solid(e) /\ Ready(e) /\ e.head = b /\ e.commits = d.commits /\ InFiles(e) = InFiles(d)
    BY <1>1, <1>4, <2>1, CheckoutMoves DEF InFiles
  <2>3. DirStep /\ NoneGone /\ disk'[Root[t]] = e
    BY <1>4, <2>1, <2>2, NowMoves
  <2>4. /\ task' \in [Task -> TaskState] /\ task'[t].pc = "add" /\ ~task'[t].pushed
        /\ task'[t].mine = task[t].mine /\ task'[t].steady = task[t].steady
        /\ \A u \in Task \ {t} : Watches(u)
    BY <1>1, <1>3, <1>4, StepsMean
  <2>5. InHand(t, "switch", d) => InHand(t, "add", e)
    BY <2>2 DEF InHand
  <2>6. TaskAgrees(t)'
    BY <1>1, <2>2, <2>3, <2>4, <2>5, OnItsBranch
  <2> QED
    BY <2>3, <2>4, <2>6 DEF TaskEffect
<1>5. CASE UNCHANGED disk /\ Steps(t, [add EXCEPT !.steady = FALSE])
  <2>1. PICK r : r = [add EXCEPT !.steady = FALSE] /\ Steps(t, r)
    BY <1>5
  <2>2. r \in TaskState /\ r.pc = "add" /\ ~r.pushed /\ ~r.steady
    BY <1>3, <2>1 DEF TaskState
  <2>3. /\ task' \in [Task -> TaskState] /\ task'[t].pc = "add" /\ ~task'[t].pushed /\ ~task'[t].steady
        /\ \A u \in Task \ {t} : Watches(u)
    BY <1>1, <2>1, <2>2, StepsMean
  <2>4. TaskAgrees(t)'
    BY <2>3 DEF TaskAgrees, Finalising
  <2> QED
    BY <1>5, <2>3, <2>4, DiskStays DEF TaskEffect
<1>6. \/ CheckoutWorks(d, b) /\ Now(t, CheckedOut(d, b)) /\ Steps(t, add)
      \/ UNCHANGED disk /\ Steps(t, [add EXCEPT !.steady = FALSE])
  BY <1>2 DEF SwitchTo
<1> QED
  BY <1>4, <1>5, <1>6

LEMMA AddEffect ==
  ASSUME DiskInv, TasksInv, NEW t \in Task, Add(t)
  PROVE  TaskEffect
<1> DEFINE d == Here(t)
           b == Own[t]
<1>1. /\ task \in [Task -> TaskState] /\ task[t] \in TaskState /\ ~task[t].pushed
      /\ task[t].mine /\ task[t].steady => Ready(d) /\ d.head = b /\ InHand(t, "add", d)
      /\ Sound(d) /\ "commit" \in Stage
  BY HereIs DEF Add, Doing, TasksInv, TaskAgrees, Finalising, Stage
<1>2. CASE Ready(d) /\ Now(t, Added(d)) /\ Goes(t, "commit")
  <2>1. PICK e : e = Added(d)
    OBVIOUS
  <2>2. Solid(e) /\ Ready(e) /\ e.head = d.head /\ e.commits = d.commits /\ e.staged = InFiles(d)
    BY <1>1, <1>2, <2>1, AddMoves
  <2>3. DirStep /\ NoneGone /\ disk'[Root[t]] = e
    BY <1>2, <2>1, <2>2, NowMoves
  <2>4. InHand(t, "add", d) => InHand(t, "commit", e)
    BY <2>2 DEF InHand
  <2>5. TaskAgrees(t)'
    BY <1>1, <1>2, <2>2, <2>3, <2>4, GoesOn, OnItsBranch
  <2> QED
    BY <1>1, <1>2, <2>3, <2>5, GoesOn DEF TaskEffect
<1>3. CASE UNCHANGED disk /\ Steps(t, [task[t] EXCEPT !.pc = "commit", !.steady = FALSE])
  <2>1. PICK r : r = [task[t] EXCEPT !.pc = "commit", !.steady = FALSE] /\ Steps(t, r)
    BY <1>3
  <2>2. r \in TaskState /\ r.pc = "commit" /\ ~r.pushed /\ ~r.steady
    BY <1>1, <2>1 DEF TaskState
  <2>3. /\ task' \in [Task -> TaskState] /\ task'[t].pc = "commit" /\ ~task'[t].pushed /\ ~task'[t].steady
        /\ \A u \in Task \ {t} : Watches(u)
    BY <1>1, <2>1, <2>2, StepsMean
  <2>4. TaskAgrees(t)'
    BY <2>3 DEF TaskAgrees, Finalising
  <2> QED
    BY <1>3, <2>3, <2>4, DiskStays DEF TaskEffect
<1> QED
  BY <1>2, <1>3 DEF Add

LEMMA CommitEffect ==
  ASSUME DiskInv, TasksInv, NEW t \in Task, Commit(t)
  PROVE  TaskEffect
<1> DEFINE d == Here(t)
           b == Own[t]
<1>1. /\ task \in [Task -> TaskState] /\ ~task[t].pushed
      /\ task[t].mine /\ task[t].steady =>
           Ready(d) /\ d.head = b /\ InHand(t, "commit", d)
      /\ Sound(d) /\ "push" \in Stage
  BY HereIs DEF Commit, Doing, TasksInv, TaskAgrees, Finalising, Stage
<1>2. CASE CommitWorks(d) /\ Now(t, Committed(d)) /\ (Goes(t, "push") \/ Ends(t, FALSE))
  <2>1. PICK e : e = Committed(d)
    OBVIOUS
  <2>2. Solid(e) /\ Ready(e) /\ e.head = d.head /\ e.commits[d.head] = d.commits[d.head] \cup d.staged
    BY <1>1, <1>2, <2>1, CommitMoves
  <2>3. DirStep /\ NoneGone /\ disk'[Root[t]] = e
    BY <1>2, <2>1, <2>2, NowMoves
  <2>4. CASE Goes(t, "push")
    <3>1. e.head \in DOMAIN e.commits
      BY <2>2 DEF Solid, Sound
    <3>2. d.head = b /\ InHand(t, "commit", d) => InHand(t, "push", e)
      BY <2>2, <3>1 DEF InHand
    <3>3. TaskAgrees(t)'
      BY <1>1, <2>2, <2>3, <2>4, <3>2, GoesOn, OnItsBranch
    <3> QED
      BY <1>1, <2>3, <2>4, <3>3, GoesOn DEF TaskEffect
  <2>5. CASE Ends(t, FALSE)
    BY <1>1, <2>3, <2>5, RunEnds, PlainAgrees DEF TaskEffect
  <2> QED
    BY <1>2, <2>4, <2>5
<1>3. CASE UNCHANGED disk /\ Ends(t, FALSE)
  BY <1>1, <1>3, DiskStays, RunEnds, PlainAgrees DEF TaskEffect
<1> QED
  BY <1>2, <1>3 DEF Commit

LEMMA PushEffect ==
  ASSUME DiskInv, RemoteInv, TasksInv, NEW t \in Task, Push(t)
  PROVE  TaskEffect /\ RemoteInv' /\ RemoteGrows
<1> DEFINE d == Here(t)
           b == Own[t]
<1>1. /\ task \in [Task -> TaskState] /\ task[t] \in TaskState
      /\ task[t].mine /\ task[t].steady => d.head = b /\ InHand(t, "push", d)
      /\ Sound(d) /\ UNCHANGED disk
  BY HereIs DEF Push, Doing, TasksInv, TaskAgrees, Finalising
<1>2. CASE PushWorks(d, d.head) /\ remote' = Pushed(d, d.head) /\ Ends(t, TRUE)
  <2>1. d.head \in Branch
    BY <1>1, <1>2, DirectoryIs DEF PushWorks, Ready, Sound
  <2>2. /\ RemoteInv' /\ RemoteGrows
        /\ d.head \in DOMAIN remote' /\ remote'[d.head] = d.commits[d.head]
    BY <1>1, <1>2, <2>1, PushGrows
  <2>3. /\ task' \in [Task -> TaskState]
        /\ task'[t].pc = "done" /\ task'[t].mine = task[t].mine /\ task'[t].steady = task[t].steady
        /\ \A u \in Task \ {t} : Watches(u)
    BY <1>1, <1>2, RunEnds DEF TaskState
  <2>4. task'[t].mine /\ task'[t].steady => OnOrigin(t)'
    BY <1>1, <2>2, <2>3 DEF InHand, OnOrigin
  <2>5. TaskAgrees(t)'
    BY <2>3, <2>4 DEF TaskAgrees, Finalising
  <2> QED
    BY <1>1, <2>2, <2>3, <2>5, DiskStays DEF TaskEffect
<1>3. CASE UNCHANGED remote /\ Ends(t, FALSE)
  <2>1. RemoteInv' /\ RemoteGrows
    BY <1>3 DEF RemoteInv, RemoteGrows
  <2> QED
    BY <1>1, <1>3, <2>1, DiskStays, RunEnds, PlainAgrees DEF TaskEffect
<1> QED
  BY <1>2, <1>3 DEF Push

LEMMA ThreadEffect ==
  ASSUME DiskInv, RemoteInv, TasksInv, NEW t \in Task, ThreadStep(t)
  PROVE  TaskEffect /\ RemoteInv' /\ RemoteGrows /\ UNCHANGED <<committing, pulls>>
<1>1. CASE Push(t)
  BY <1>1, PushEffect DEF Push
<1>2. CASE ~Push(t)
  <2>1. TaskEffect
    BY <1>2, CheckEffect, DefaultEffect, PullEffect, CloneEffect, CloneEndsEffect, MoveInEffect, EditEffect,
       FinishEffect, FinalizeEffect, BranchOffEffect, SwitchToEffect, AddEffect, CommitEffect DEF ThreadStep
  <2>2. UNCHANGED <<remote, committing, pulls>>
    BY <1>2 DEF ThreadStep, Check, CheckoutDefault, Pull, Clone, CloneEnds, MoveIn, Edit, Finish, Finalize,
       BranchOff, SwitchTo, Add, Commit
  <2>3. RemoteInv' /\ RemoteGrows
    BY <2>2 DEF RemoteInv, RemoteGrows
  <2> QED
    BY <2>1, <2>2, <2>3
<1> QED
  BY <1>1, <1>2

LEMMA CheckoutEffect ==
  ASSUME DiskInv, TasksInv, NEW t \in Task, NEW b \in Branch, NEW create \in BOOLEAN, NEW tool \in BOOLEAN,
         GitCheckout(t, b, create, tool)
  PROVE  DirStep /\ NoneGone
<1>1. Sound(Here(t))
  BY HereIs
<1>2. CASE create
  <2>1. CreateWorks(Here(t), b) /\ Now(t, Branched(Here(t), b))
    BY <1>2 DEF GitCheckout
  <2>2. Solid(Branched(Here(t), b))
    BY <1>1, <2>1, BranchMoves
  <2> QED
    BY <2>1, <2>2, NowMoves
<1>3. CASE ~create
  <2>1. CheckoutWorks(Here(t), b) /\ Now(t, CheckedOut(Here(t), b))
    BY <1>3 DEF GitCheckout
  <2>2. Solid(CheckedOut(Here(t), b))
    BY <1>1, <2>1, CheckoutMoves
  <2> QED
    BY <2>1, <2>2, NowMoves
<1> QED
  BY <1>2, <1>3

LEMMA BranchEffect ==
  ASSUME DiskInv, NEW t \in Task, NEW b \in Branch, GitBranch(t, b)
  PROVE  DirStep /\ NoneGone
<1>1. Sound(Here(t))
  BY HereIs
<1>2. CASE CreateWorks(Here(t), b) /\ Now(t, Branched(Here(t), b))
  <2>1. Solid(Branched(Here(t), b))
    BY <1>1, <1>2, BranchMoves
  <2> QED
    BY <1>2, <2>1, NowMoves
<1>3. CASE UNCHANGED disk
  BY <1>3, DiskStays
<1> QED
  BY <1>2, <1>3 DEF GitBranch

LEMMA FileEffect ==
  ASSUME DiskInv, NEW t \in Task, NEW u \in Task, NEW tool \in BOOLEAN, GitFile(t, u, tool)
  PROVE  DirStep /\ NoneGone
<1>1. PICK e \in {Staged(Here(t), u), Unstaged(Here(t), u), Discarded(Here(t), u)} : Now(t, e)
  BY DEF GitFile
<1>2. Sound(Here(t)) /\ Ready(Here(t))
  BY HereIs DEF GitFile
<1>3. Solid(e)
  BY <1>2, FileMoves
<1> QED
  BY <1>1, <1>3, NowMoves

LEMMA ToolCommitEffect ==
  ASSUME DiskInv, NEW t \in Task, CommitWorks(Here(t)), Now(t, Committed(Here(t)))
  PROVE  DirStep /\ NoneGone
<1>1. Solid(Committed(Here(t)))
  BY HereIs, CommitMoves
<1> QED
  BY <1>1, NowMoves

LEMMA CommitAddsEffect ==
  ASSUME DiskInv, NEW t \in Task, CommitAdds(t)
  PROVE  DirStep /\ NoneGone
<1>1. CASE Now(t, Added(Here(t))) /\ Ready(Here(t))
  BY <1>1, HereIs, AddMoves, NowMoves
<1>2. CASE Now(t, Added(Here(t))) /\ ~Ready(Here(t))
  <2>1. Now(t, Here(t))
    BY <1>2 DEF Added
  <2>2. disk' = disk
    BY <2>1, RootIs DEF Now, Here, DiskInv
  <2> QED
    BY <2>2, DiskStays
<1>3. CASE UNCHANGED disk
  BY <1>3, DiskStays
<1> QED
  BY <1>1, <1>2, <1>3 DEF CommitAdds

LEMMA OverwriteEffect ==
  ASSUME DiskInv, NEW t \in Task, NEW u \in Task, Overwrite(t, u)
  PROVE  DirStep /\ NoneGone
BY HereIs, OverMoves, NowMoves DEF Overwrite

LEMMA GitPushEffect ==
  ASSUME DiskInv, RemoteInv, TasksInv, NEW t \in Task, NEW tool \in BOOLEAN, GitPush(t, tool)
  PROVE  DirStep /\ NoneGone /\ RemoteInv' /\ RemoteGrows
<1>1. PICK b : /\ b = IF task[t].branch = None THEN Here(t).head ELSE task[t].branch
               /\ PushWorks(Here(t), b) /\ remote' = Pushed(Here(t), b)
  BY DEF GitPush
<1>2. Sound(Here(t)) /\ UNCHANGED disk
  BY HereIs DEF GitPush
<1>3. b \in Branch
  <2>1. Here(t).head \in Branch
    BY <1>1, <1>2, DirectoryIs DEF PushWorks, Ready, Sound
  <2>2. task[t].branch \in Branch \cup {None}
    BY DEF TasksInv, TaskState
  <2> QED
    BY <1>1, <2>1, <2>2
<1> QED
  BY <1>1, <1>2, <1>3, DiskStays, PushGrows

LEMMA RunCommandEffect ==
  ASSUME DiskInv, RemoteInv, TasksInv, NEW t \in Task, NEW tool \in BOOLEAN, RunCommand(t, tool)
  PROVE  /\ TaskEffect /\ RemoteInv' /\ \A u \in Task : OriginKept(u)
         /\ DOMAIN remote \subseteq DOMAIN remote'
<1> DEFINE d == Here(t)
<1>1. d \in Directory /\ Sound(d) /\ d # None /\ task \in [Task -> TaskState]
  BY HereIs DEF RunCommand, TasksInv
<1>2. DirStep /\ NoneGone
  <2>1. ASSUME NEW e \in Stripped(d), Now(t, e)
        PROVE  DirStep /\ NoneGone
    BY <1>1, <2>1, StripMoves, NowMoves
  <2> QED
    BY <2>1, DiskStays DEF RunCommand
<1>3. RemoteInv' /\ DOMAIN remote \subseteq DOMAIN remote'
  <2>1. ASSUME NEW b \in DOMAIN d.commits, remote' = Pushed(d, b)
        PROVE  RemoteInv' /\ DOMAIN remote \subseteq DOMAIN remote'
    <3>1. Ready(d)
      BY <1>1, <2>1 DEF Sound, NoBranches
    <3> QED
      BY <1>1, <2>1, <3>1, PushedIs
  <2>2. UNCHANGED remote => RemoteInv' /\ DOMAIN remote \subseteq DOMAIN remote'
    BY DEF RemoteInv
  <2> QED
    BY <2>1, <2>2 DEF RunCommand
<1>4. PICK actor, tasks :
        /\ actor = (IF tool THEN t ELSE Nobody) /\ tasks = Watched(task, actor)
        /\ task' = [u \in Task |-> [tasks[u] EXCEPT !.steady = @ /\ (OnOrigin(u) => OnOrigin(u)')]]
  BY DEF RunCommand
<1>5. /\ tasks \in [Task -> TaskState]
      /\ \A u \in Task : u = actor => tasks[u] = task[u]
      /\ \A u \in Task : u # actor =>
           /\ tasks[u].pc = task[u].pc /\ tasks[u].pushed = task[u].pushed
           /\ tasks[u].mine = task[u].mine
           /\ tasks[u].steady => task[u].steady /\ (Finalising(task[u]) => Undisturbed(u))
           /\ ~tasks[u].raced => /\ ~task[u].raced
                                 /\ Cloning(task[u]) /\ HasGit(disk'[Root[u]]) => HasGit(Here(u))
  BY <1>1, <1>4, WatchedMeans
<1>6. ASSUME NEW u \in Task
      PROVE  /\ task'[u] \in TaskState /\ task'[u].pc = tasks[u].pc /\ task'[u].pushed = tasks[u].pushed
             /\ task'[u].mine = tasks[u].mine /\ task'[u].raced = tasks[u].raced
             /\ task'[u].steady => tasks[u].steady /\ (OnOrigin(u) => OnOrigin(u)')
  <2> DEFINE K == OnOrigin(u) => OnOrigin(u)'
  <2>1. task'[u] = [tasks[u] EXCEPT !.steady = @ /\ K] /\ tasks[u] \in TaskState
    BY <1>4, <1>5
  <2>2. K \in BOOLEAN
    OBVIOUS
  <2> HIDE DEF K
  <2>3. /\ task'[u] \in TaskState /\ task'[u].pc = tasks[u].pc /\ task'[u].pushed = tasks[u].pushed
        /\ task'[u].mine = tasks[u].mine /\ task'[u].raced = tasks[u].raced
        /\ task'[u].steady => tasks[u].steady /\ K
    BY <2>1, <2>2 DEF TaskState
  <2> QED
    BY <2>3 DEF K
<1>7. task' \in [Task -> TaskState]
  <2>1. task' = [u \in Task |-> task'[u]]
    BY <1>4
  <2> QED
    BY <1>6, <2>1
<1>8. \A u \in Task : u # actor => Watches(u)
  BY <1>5, <1>6 DEF Watches
<1>9. \A u \in Task : u = actor => TaskAgrees(u)'
  <2>1. ASSUME NEW u \in Task, u = actor
        PROVE  TaskAgrees(u)'
    <3>1. u = t /\ task[u].pc = "work"
      BY <1>4, <2>1, TaskGitAssumption DEF RunCommand, Doing
    <3>2. ~task[u].pushed
      BY <3>1 DEF TasksInv, TaskAgrees
    <3>3. task'[u].pc = "work" /\ ~task'[u].pushed
      BY <1>5, <1>6, <2>1, <3>1, <3>2
    <3> QED
      BY <3>3, PlainAgrees
  <2> QED
    BY <2>1
<1>10. \A u \in Task : OriginKept(u)
  BY <1>6 DEF OriginKept
<1> QED
  BY <1>2, <1>3, <1>7, <1>8, <1>9, <1>10 DEF TaskEffect

\* A tool or an endpoint.
LEMMA CallEffect ==
  ASSUME DiskInv, RemoteInv, TasksInv, NEW t \in Task, NEW tool \in BOOLEAN, GitCall(t, tool)
  PROVE  /\ TaskEffect /\ RemoteInv' /\ \A u \in Task : OriginKept(u)
         /\ committing' \in Task \cup {Nobody} /\ pulls' \subseteq DOMAIN remote'
<1>1. /\ task \in [Task -> TaskState] /\ task[t] \in TaskState /\ committing \in Task \cup {Nobody}
      /\ pulls \subseteq DOMAIN remote /\ \A u \in Task : task[u].pc = "work" => ~task[u].pushed
      /\ task[t].branch \in Branch \cup {None}
  BY DEF TasksInv, TaskAgrees, TaskState
<1>2. ASSUME NEW b \in Branch \cup {None}, Called(t, b, tool), DirStep, NoneGone
      PROVE  TaskEffect
  <2>1. /\ task' \in [Task -> TaskState]
        /\ \A u \in Task : \/ Watches(u)
                           \/ u = t /\ task[u].pc = "work" /\ task'[u].pc = "work" /\ task'[u].pushed = task[u].pushed
    BY <1>1, <1>2, CallMeans
  <2>2. \A u \in Task : Watches(u) \/ TaskAgrees(u)'
    BY <1>1, <2>1, PlainAgrees
  <2> QED
    BY <1>2, <2>1, <2>2 DEF TaskEffect
<1>3. UNCHANGED remote => RemoteInv' /\ RemoteGrows
  BY DEF RemoteInv, RemoteGrows
<1>4. RemoteGrows => pulls \subseteq DOMAIN remote'
  BY <1>1 DEF RemoteGrows
<1>5. ASSUME NEW b \in Branch, NEW create \in BOOLEAN, GitCheckout(t, b, create, tool)
      PROVE  DirStep /\ NoneGone /\ Called(t, b, tool) /\ UNCHANGED <<remote, committing, pulls>>
  BY <1>5, CheckoutEffect DEF GitCheckout
<1>6. ASSUME NEW u \in Task, GitFile(t, u, tool)
      PROVE  DirStep /\ NoneGone /\ Called(t, task[t].branch, tool) /\ UNCHANGED <<remote, committing, pulls>>
  BY <1>6, FileEffect DEF GitFile
<1>7. ASSUME GitPush(t, tool)
      PROVE  /\ DirStep /\ NoneGone /\ RemoteInv' /\ RemoteGrows
             /\ Called(t, task[t].branch, tool) /\ UNCHANGED <<committing, pulls>>
  BY <1>7, GitPushEffect DEF GitPush
<1>8. ASSUME tool, GitCommit(t)
      PROVE  DirStep /\ NoneGone /\ Called(t, task[t].branch, tool) /\ UNCHANGED <<remote, committing, pulls>>
  BY <1>8, ToolCommitEffect DEF GitCommit
<1>9. ASSUME ~tool, CommitAdds(t)
      PROVE  /\ DirStep /\ NoneGone /\ Called(t, task[t].branch, tool) /\ UNCHANGED <<remote, pulls>>
             /\ committing' \in Task
  BY <1>9, CommitAddsEffect DEF CommitAdds
<1>10. ASSUME ~tool, OpenPull(t)
       PROVE  /\ DirStep /\ NoneGone /\ Called(t, task[t].branch, tool) /\ UNCHANGED <<remote, committing>>
              /\ pulls' \subseteq DOMAIN remote'
  BY <1>1, <1>10, DiskStays DEF OpenPull
<1>11. ASSUME ~tool, NEW b \in Branch, GitBranch(t, b)
       PROVE  DirStep /\ NoneGone /\ Called(t, b, tool) /\ UNCHANGED <<remote, committing, pulls>>
  BY <1>11, BranchEffect DEF GitBranch
<1>12. ASSUME tool, NEW u \in Task, Overwrite(t, u)
       PROVE  DirStep /\ NoneGone /\ Called(t, task[t].branch, tool) /\ UNCHANGED <<remote, committing, pulls>>
  BY <1>12, OverwriteEffect DEF Overwrite
<1>13. CASE RunCommand(t, tool)
  BY <1>1, <1>13, RunCommandEffect DEF RunCommand
<1>14. ASSUME ~RunCommand(t, tool)
       PROVE  \E b \in Branch \cup {None} :
         /\ DirStep /\ NoneGone /\ Called(t, b, tool) /\ RemoteInv' /\ RemoteGrows
         /\ committing' \in Task \cup {Nobody} /\ pulls' \subseteq DOMAIN remote'
  <2>1. CASE \E b \in Branch, create \in BOOLEAN : GitCheckout(t, b, create, tool)
    BY <1>1, <1>3, <1>4, <1>5, <2>1
  <2>2. CASE \E u \in Task : GitFile(t, u, tool)
    BY <1>1, <1>3, <1>4, <1>6, <2>2
  <2>3. CASE GitPush(t, tool)
    BY <1>1, <1>4, <1>7, <2>3
  <2>4. CASE tool /\ GitCommit(t)
    BY <1>1, <1>3, <1>4, <1>8, <2>4
  <2>5. CASE ~tool /\ CommitAdds(t)
    BY <1>1, <1>3, <1>4, <1>9, <2>5
  <2>6. CASE ~tool /\ OpenPull(t)
    BY <1>1, <1>3, <1>10, <2>6
  <2>7. CASE ~tool /\ \E b \in Branch : GitBranch(t, b)
    BY <1>1, <1>3, <1>4, <1>11, <2>7
  <2>8. CASE tool /\ \E u \in Task : Overwrite(t, u)
    BY <1>1, <1>3, <1>4, <1>12, <2>8
  <2> QED
    BY <1>14, <2>1, <2>2, <2>3, <2>4, <2>5, <2>6, <2>7, <2>8 DEF GitCall
<1> QED
  BY <1>2, <1>13, <1>14, GrowsKeeps

LEMMA CommitEndsEffect ==
  ASSUME DiskInv, TasksInv, CommitEnds
  PROVE  TaskEffect
<1>1. committing \in Task /\ task \in [Task -> TaskState] /\ task' = Watched(task, Nobody)
  BY DEF CommitEnds, TasksInv
<1>2. DirStep /\ NoneGone
  <2>1. CASE CommitWorks(Here(committing)) /\ Now(committing, Committed(Here(committing)))
    BY <1>1, <2>1, ToolCommitEffect
  <2>2. CASE UNCHANGED disk
    BY <2>2, DiskStays
  <2> QED
    BY <2>1, <2>2 DEF CommitEnds, Here
<1> QED
  BY <1>1, <1>2, NobodyActs DEF TaskEffect

LEMMA MergeEffect ==
  ASSUME DiskInv, RemoteInv, TasksInv, NEW b \in Branch, MergePull(b)
  PROVE  TaskEffect /\ RemoteInv' /\ RemoteGrows /\ pulls' \subseteq DOMAIN remote'
<1>1. /\ b \in DOMAIN remote /\ pulls \subseteq DOMAIN remote
      /\ remote' = [remote EXCEPT ![Main] = @ \cup remote[b]]
      /\ pulls' = pulls \ {b} /\ UNCHANGED <<disk, task>> /\ task \in [Task -> TaskState]
  BY DEF MergePull, TasksInv
<1>2. DOMAIN remote \subseteq Branch /\ remote \in [DOMAIN remote -> SUBSET Task] /\ Main \in DOMAIN remote
  BY BranchesAre DEF RemoteInv
<1>3. /\ DOMAIN remote' = DOMAIN remote
      /\ remote' \in [DOMAIN remote -> SUBSET Task]
      /\ \A c \in DOMAIN remote : remote[c] \subseteq remote'[c]
  BY <1>1, <1>2
<1>4. RemoteInv' /\ RemoteGrows
  BY <1>2, <1>3, BranchesAre DEF RemoteInv, RemoteGrows
<1>5. ASSUME NEW u \in Task
      PROVE  TaskAgrees(u)'
  <2>1. TaskAgrees(u) /\ task'[u] = task[u] /\ Here(u)' = Here(u)
    BY <1>1 DEF TasksInv, Here
  <2>2. OnOrigin(u) => OnOrigin(u)'
    BY <1>4 DEF RemoteGrows, OnOrigin
  <2> QED
    BY <2>1, <2>2 DEF TaskAgrees
<1> QED
  BY <1>1, <1>3, <1>4, <1>5, DiskStays DEF TaskEffect

LEMMA TasksStay ==
  ASSUME TasksInv, TaskEffect, RemoteInv', \A u \in Task : OriginKept(u),
         committing' \in Task \cup {Nobody}, pulls' \subseteq DOMAIN remote'
  PROVE  DiskInv' /\ RemoteInv' /\ TasksInv'
<1>1. DiskInv'
  BY DEF TaskEffect, DirStep, DiskInv
<1>2. \A u \in Task : TaskAgrees(u)'
  BY WatchedAgrees DEF TaskEffect, TasksInv
<1> QED
  BY <1>1, <1>2 DEF TasksInv, TaskEffect

\* A step of the threads, of git or of GitHub leaves the invariant of the tasks,
\* and every directory there is.
LEMMA OfThreadsStep ==
  ASSUME DiskInv, RemoteInv, TasksInv, OfThreads
  PROVE  DiskInv' /\ RemoteInv' /\ TasksInv' /\ NoneGone
<1>1. pulls \subseteq DOMAIN remote /\ committing \in Task \cup {Nobody}
  BY DEF TasksInv
<1>2. CASE \E t \in Task : ThreadStep(t)
  BY <1>1, <1>2, ThreadEffect, TasksStay, GrowsKeeps DEF TaskEffect, RemoteGrows
<1>3. CASE \E t \in Task : Start(t)
  <2>1. PICK t \in Task : Start(t)
    BY <1>3
  <2>2. UNCHANGED <<remote, committing, pulls>>
    BY <2>1 DEF Start
  <2>3. RemoteInv' /\ RemoteGrows
    BY <2>2 DEF RemoteInv, RemoteGrows
  <2> QED
    BY <1>1, <2>1, <2>2, <2>3, StartEffect, TasksStay, GrowsKeeps DEF TaskEffect
<1> QED
  BY <1>2, <1>3 DEF OfThreads

LEMMA OfGitStep ==
  ASSUME DiskInv, RemoteInv, TasksInv, OfGit
  PROVE  DiskInv' /\ RemoteInv' /\ TasksInv' /\ NoneGone
<1>1. pulls \subseteq DOMAIN remote /\ committing \in Task \cup {Nobody}
  BY DEF TasksInv
<1>2. CASE CommitEnds
  <2>1. committing' \in Task \cup {Nobody} /\ UNCHANGED <<remote, pulls>>
    BY <1>2 DEF CommitEnds
  <2>2. RemoteInv' /\ RemoteGrows
    BY <2>1 DEF RemoteInv, RemoteGrows
  <2> QED
    BY <1>1, <1>2, <2>1, <2>2, CommitEndsEffect, TasksStay, GrowsKeeps DEF TaskEffect
<1>3. CASE \E b \in Branch : MergePull(b)
  BY <1>1, <1>3, MergeEffect, TasksStay, GrowsKeeps DEF TaskEffect, MergePull
<1>4. CASE \E t \in Task, tool \in BOOLEAN : GitCall(t, tool)
  BY <1>4, CallEffect, TasksStay DEF TaskEffect
<1> QED
  BY <1>2, <1>3, <1>4 DEF OfGit

-------------------------------------------------------------------------------
(* The manager. *)

Waiting == [row : {"none", "clone", "unpack", "touch", "remove"}, name : Name \cup {None}]

Touching(n) == [row |-> "touch", name |-> n]

\* What the manager handled has a directory and a row, or is about to have one.
Recorded(n) ==
  /\ disk[n] # None
  /\ n \notin missed /\ (\A s \in Slot : waiting[s] # Touching(n)) => n \in recent

\* The manager deletes nothing while a request of its own clones.
ManagerInv ==
  /\ managed \subseteq Name
  /\ waiting \in [Slot -> Waiting]
  /\ \A s \in Slot : waiting[s] # NoWait => waiting[s].row # "none" /\ waiting[s].name \in Name
  /\ \A s \in Slot : Creating(s) => disk[waiting[s].name] # None
  /\ \A n \in managed : Recorded(n)

LEMMA WaitMeans ==
  ASSUME ManagerInv, NEW s \in Slot, NEW row \in {"clone", "touch", "remove"}, NEW n \in Name, Waits(s, row, n)
  PROVE  /\ waiting' \in [Slot -> Waiting]
         /\ \A i \in Slot : waiting'[i] # NoWait => waiting'[i].row # "none" /\ waiting'[i].name \in Name
         /\ \A k \in Name : (\A i \in Slot : waiting'[i] # Touching(k)) => (\A i \in Slot : waiting[i] # Touching(k))
         /\ row = "touch" => waiting'[s] = Touching(n)
         /\ \A i \in Slot : Creating(i)' => Creating(i) \/ (waiting'[i].name = n /\ row = "clone")
<1>1. PICK w : w = [row |-> row, name |-> n] /\ waiting' = [waiting EXCEPT ![s] = w]
  BY DEF Waits
<1>2. w \in Waiting /\ w.row = row /\ w.name = n
  BY <1>1 DEF Waiting
<1>3. waiting'[s] = w /\ \A i \in Slot \ {s} : waiting'[i] = waiting[i]
  BY <1>1 DEF ManagerInv
<1>4. waiting[s] = NoWait /\ \A k \in Name : NoWait # Touching(k)
  BY DEF Waits, NoWait, Touching
<1>5. waiting' \in [Slot -> Waiting]
  BY <1>1, <1>2 DEF ManagerInv
<1>6. \A i \in Slot : Creating(i)' => Creating(i) \/ (waiting'[i].name = n /\ row = "clone")
  BY <1>2, <1>3 DEF Creating
<1> QED
  BY <1>1, <1>2, <1>3, <1>4, <1>5, <1>6 DEF ManagerInv, Touching

\* A directory is put in the place of name n, or taken from it.
LEMMA PutMoves ==
  ASSUME DiskInv, NEW n \in Name, NEW d, Solid(d) \/ d = None, disk' = [disk EXCEPT ![n] = d]
  PROVE  DirStep /\ disk'[n] = d /\ \A k \in Name \ {n} : disk'[k] = disk[k]
<1>1. d \in Directory \cup {None} /\ Sound(d)
  BY DEF Solid, Sound
<1>2. disk' \in [Name -> Directory \cup {None}]
  BY <1>1 DEF DiskInv
<1>3. disk'[n] = d /\ \A k \in Name \ {n} : disk'[k] = disk[k]
  BY DEF DiskInv
<1> QED
  BY <1>1, <1>2, <1>3 DEF DirStep, DiskInv

\* A request of the manager leaves the invariant of the tasks.
LEMMA ManagerMoves ==
  ASSUME DiskInv, NEW s \in Slot, NEW n \in Name,
         \/ CreateWorkspace(s, n)
         \/ \E m \in Name : Rename(s, m, n)
         \/ DeleteWorkspace(s, n)
         \/ Switch(s, n)
  PROVE  DirStep /\ UNCHANGED remote
<1>1. CASE CreateWorkspace(s, n)
  BY <1>1, EmptyDirIs, PutMoves DEF CreateWorkspace, Solid
<1>2. ASSUME NEW m \in Name, Rename(s, m, n)
      PROVE  DirStep /\ UNCHANGED remote
  <2>1. /\ disk[m] # None /\ disk[n] = None /\ UNCHANGED remote
        /\ disk' = [disk EXCEPT ![n] = disk[m], ![m] = None]
    BY <1>2 DEF Rename
  <2>2. disk' \in [Name -> Directory \cup {None}]
    BY <2>1 DEF DiskInv
  <2>3. disk'[n] = disk[m] /\ disk'[m] = None /\ \A k \in Name \ {n, m} : disk'[k] = disk[k]
    BY <2>1 DEF DiskInv
  <2>4. \A k \in Name : Sound(disk'[k])
    BY <2>3 DEF DiskInv, Sound
  <2> QED
    BY <2>1, <2>2, <2>4 DEF DirStep
<1>3. CASE DeleteWorkspace(s, n)
  BY <1>3, PutMoves DEF DeleteWorkspace
<1>4. CASE Switch(s, n)
  BY <1>4, DiskStays DEF Switch
<1> QED
  BY <1>1, <1>2, <1>3, <1>4

\* The clone of request s goes on, or it is over and its row is touched next.
LEMMA CloneRecorded ==
  ASSUME ManagerInv, NoneGone, NEW s \in Slot, Creating(s), UNCHANGED <<recent, missed>>,
         NEW w \in Waiting, waiting' = [waiting EXCEPT ![s] = w],
         w # NoWait => w.row # "none" /\ w.name = waiting[s].name,
         \/ UNCHANGED managed
         \/ managed' = managed \cup {waiting[s].name} /\ w = Touching(waiting[s].name)
  PROVE  ManagerInv'
<1>1. PICK n : n = waiting[s].name
  OBVIOUS
<1>2. n \in Name /\ disk[n] # None
  BY <1>1 DEF ManagerInv, Creating, NoWait
<1>3. waiting' \in [Slot -> Waiting] /\ waiting'[s] = w /\ \A i \in Slot \ {s} : waiting'[i] = waiting[i]
  BY DEF ManagerInv
<1>4. \A k \in Name : waiting[s] # Touching(k)
  BY DEF Creating, Touching
<1>5. ASSUME NEW k \in managed
      PROVE  Recorded(k)'
  <2>1. k \in Name /\ Recorded(k)
    BY DEF ManagerInv
  <2>2. disk'[k] # None
    BY <2>1 DEF Recorded, NoneGone
  <2>3. (\A i \in Slot : waiting'[i] # Touching(k)) => (\A i \in Slot : waiting[i] # Touching(k))
    BY <1>3, <1>4, <2>1
  <2> QED
    BY <2>1, <2>2, <2>3 DEF Recorded, Touching
<1>6. w = Touching(n) => Recorded(n)'
  BY <1>2, <1>3 DEF Recorded, NoneGone, Touching
<1>7. \A i \in Slot : waiting'[i] # NoWait => waiting'[i].row # "none" /\ waiting'[i].name \in Name
  BY <1>1, <1>2, <1>3 DEF ManagerInv
<1>8. ASSUME NEW i \in Slot, Creating(i)'
      PROVE  disk'[waiting'[i].name] # None
  <2>1. CASE i = s
    BY <1>1, <1>2, <1>3, <1>8, <2>1 DEF Creating, NoWait, NoneGone
  <2>2. CASE i # s
    BY <1>3, <1>8, <2>2 DEF Creating, ManagerInv, NoneGone, NoWait
  <2> QED
    BY <2>1, <2>2
<1>9. managed' \subseteq Name /\ \A k \in managed' : Recorded(k)'
  BY <1>1, <1>2, <1>5, <1>6 DEF ManagerInv
<1> QED
  BY <1>3, <1>7, <1>8, <1>9 DEF ManagerInv

\* A clone of the manager leaves the invariants, and every directory there is.
LEMMA CloneMoves ==
  ASSUME DiskInv, RemoteInv, ManagerInv, NEW s \in Slot, CloneInto(s) \/ CloneOver(s)
  PROVE  DirStep /\ UNCHANGED remote /\ ManagerInv'
<1>1. PICK n, d : n = waiting[s].name /\ d = disk[n]
  OBVIOUS
<1>2. /\ Creating(s) /\ waiting[s] \in Waiting /\ UNCHANGED <<remote, recent, missed>>
      /\ n \in Name /\ d \in Directory /\ Solid(d)
  BY <1>1 DEF CloneInto, CloneOver, Creating, ManagerInv, NoWait, DiskInv, Solid
<1>3. ASSUME NEW e, Solid(e), disk' = [disk EXCEPT ![n] = e]
      PROVE  DirStep /\ NoneGone
  BY <1>2, <1>3, PutMoves DEF NoneGone, Solid
<1>4. ASSUME NEW row \in {"unpack", "touch"}
      PROVE  /\ [waiting[s] EXCEPT !.row = row] = [row |-> row, name |-> n]
             /\ [row |-> row, name |-> n] \in Waiting
  BY <1>1, <1>2 DEF Waiting
<1>5. ASSUME NEW e, Solid(e), Made(s, e)
      PROVE  DirStep /\ UNCHANGED remote /\ ManagerInv'
  <2>1. waiting' = [waiting EXCEPT ![s] = Touching(n)] /\ Touching(n) \in Waiting
    <3>1. waiting' = [waiting EXCEPT ![s] = [waiting[s] EXCEPT !.row = "touch"]]
      BY <1>5 DEF Made
    <3> QED
      BY <1>4, <3>1 DEF Touching
  <2>2. Touching(n).row # "none" /\ Touching(n).name = n
    BY DEF Touching
  <2>3. DirStep /\ NoneGone
    BY <1>1, <1>3, <1>5 DEF Made
  <2>4. managed' = managed \cup {n}
    BY <1>1, <1>5 DEF Made
  <2> QED
    BY <1>1, <1>2, <2>1, <2>2, <2>3, <2>4, CloneRecorded
<1>6. CASE disk' = [disk EXCEPT ![n] = Begun] /\ waiting' = [waiting EXCEPT ![s].row = "unpack"] /\ UNCHANGED managed
  <2>1. PICK w : w = [row |-> "unpack", name |-> n]
    OBVIOUS
  <2>2. waiting' = [waiting EXCEPT ![s] = w] /\ w \in Waiting /\ w.row # "none" /\ w.name = n
    <3>1. waiting' = [waiting EXCEPT ![s] = [waiting[s] EXCEPT !.row = "unpack"]]
      BY <1>6
    <3> QED
      BY <1>4, <2>1, <3>1
  <2>3. DirStep /\ NoneGone
    BY <1>3, <1>6, BegunIs
  <2> QED
    BY <1>1, <1>2, <1>6, <2>2, <2>3, CloneRecorded
<1>7. CASE waiting' = [waiting EXCEPT ![s] = NoWait] /\ UNCHANGED <<disk, managed>>
  <2>1. DirStep /\ NoneGone
    BY <1>7, DiskStays
  <2>2. NoWait \in Waiting
    BY DEF NoWait, Waiting
  <2> QED
    BY <1>2, <1>7, <2>1, <2>2, CloneRecorded
<1>8. CASE CloneInto(s)
  BY <1>1, <1>2, <1>5, <1>6, <1>8 DEF CloneInto
<1>9. CASE CloneOver(s)
  <2>1. PICK c : c = IF Partial(d) THEN Cloned(d.unstaged) ELSE d
    OBVIOUS
  <2>2. Solid(c) /\ Solid(EmptyDir)
    BY <1>2, <2>1, EmptyDirIs, ClonedIsSound, DirectoryIs DEF RemoteInv, Solid
  <2>3. \/ Made(s, c) \/ Made(s, EmptyDir)
        \/ waiting' = [waiting EXCEPT ![s] = NoWait] /\ UNCHANGED <<disk, managed>>
    BY <1>1, <1>9, <2>1 DEF CloneOver
  <2> QED
    BY <1>5, <1>7, <2>2, <2>3
<1> QED
  BY <1>8, <1>9

LEMMA RequestRecorded ==
  ASSUME DiskInv, ManagerInv, LoopFree, ManagerRequest
  PROVE  ManagerInv'
<1>1. PICK s \in Slot, n \in Name :
         \/ CreateWorkspace(s, n)
         \/ \E m \in Name : Rename(s, m, n)
         \/ DeleteWorkspace(s, n)
         \/ Switch(s, n)
  BY DEF ManagerRequest
<1>2. (\A k \in managed : k \in Name /\ Recorded(k)) /\ (\A i \in Slot : ~Creating(i))
  BY DEF ManagerInv, LoopFree
<1>3. ASSUME NEW row \in {"clone", "touch", "remove"}, Waits(s, row, n)
      PROVE  /\ waiting' \in [Slot -> Waiting]
             /\ \A i \in Slot : waiting'[i] # NoWait => waiting'[i].row # "none" /\ waiting'[i].name \in Name
             /\ \A k \in Name : (\A i \in Slot : waiting'[i] # Touching(k)) => (\A i \in Slot : waiting[i] # Touching(k))
             /\ row = "touch" => waiting'[s] = Touching(n)
             /\ \A i \in Slot : Creating(i)' => waiting'[i].name = n /\ row = "clone"
  BY <1>2, <1>3, WaitMeans
<1>4. ASSUME NEW row \in {"clone", "touch", "remove"}, Waits(s, row, n), UNCHANGED <<recent, missed>>,
             NEW k \in managed, disk'[k] # None
      PROVE  Recorded(k)'
  BY <1>2, <1>3, <1>4 DEF Recorded, Touching
<1>5. ASSUME Waits(s, "touch", n), disk'[n] # None
      PROVE  Recorded(n)'
  BY <1>3, <1>5 DEF Recorded, Touching
<1>6. CASE CreateWorkspace(s, n)
  <2>1. disk[n] = None /\ UNCHANGED <<recent, missed>> /\ disk' = [disk EXCEPT ![n] = EmptyDir]
    BY <1>6 DEF CreateWorkspace
  <2>2. disk'[n] # None /\ \A k \in Name \ {n} : disk'[k] = disk[k]
    BY <2>1, EmptyDirIs DEF DiskInv
  <2>3. \A k \in managed : disk'[k] # None
    BY <1>2, <2>2 DEF Recorded
  <2>4. CASE Waits(s, "touch", n) /\ managed' = managed \cup {n}
    BY <1>2, <1>3, <1>4, <1>5, <2>1, <2>2, <2>3, <2>4 DEF ManagerInv
  <2>5. CASE Waits(s, "clone", n) /\ UNCHANGED managed
    BY <1>2, <1>3, <1>4, <2>1, <2>2, <2>3, <2>5 DEF ManagerInv
  <2> QED
    BY <1>6, <2>4, <2>5 DEF CreateWorkspace
<1>7. ASSUME NEW m \in Name, Rename(s, m, n)
      PROVE  ManagerInv'
  <2>1. /\ disk[n] = None /\ disk[m] # None /\ UNCHANGED <<recent, missed>> /\ managed' = (managed \ {m}) \cup {n}
        /\ disk'[n] # None /\ (\A k \in Name \ {n, m} : disk'[k] = disk[k]) /\ Waits(s, "touch", n)
    BY <1>7 DEF Rename, DiskInv
  <2>2. \A k \in managed \ {m} : disk'[k] # None
    BY <1>2, <2>1 DEF Recorded
  <2> QED
    BY <1>2, <1>3, <1>4, <1>5, <2>1, <2>2 DEF ManagerInv
<1>8. CASE DeleteWorkspace(s, n)
  <2>1. /\ UNCHANGED recent /\ managed' = managed \ {n} /\ missed' = missed \ {n} /\ Waits(s, "remove", n)
        /\ \A k \in Name \ {n} : disk'[k] = disk[k]
    BY <1>8 DEF DeleteWorkspace, DiskInv
  <2>2. \A k \in managed \ {n} : Recorded(k)'
    BY <1>2, <1>3, <2>1 DEF Recorded, Touching
  <2> QED
    BY <1>2, <1>3, <2>1, <2>2 DEF ManagerInv
<1>9. CASE Switch(s, n)
  <2>1. /\ disk[n] # None /\ UNCHANGED <<disk, recent, missed>> /\ managed' = managed \cup {n}
        /\ Waits(s, "touch", n)
    BY <1>9 DEF Switch
  <2> QED
    BY <1>2, <1>3, <1>4, <1>5, <2>1 DEF ManagerInv, Recorded
<1> QED
  BY <1>1, <1>6, <1>7, <1>8, <1>9

LEMMA WriteRecorded ==
  ASSUME DiskInv, ManagerInv, NEW s \in Slot, WriteRecent(s)
  PROVE  ManagerInv'
<1>1. PICK n : n = waiting[s].name
  OBVIOUS
<1>2. /\ waiting[s] # NoWait /\ waiting' = [waiting EXCEPT ![s] = NoWait] /\ UNCHANGED <<disk, managed>>
      /\ \/ waiting[s].row = "touch" /\ recent' = recent \cup {n} /\ missed' = missed \ {n}
         \/ /\ waiting[s].row = "remove" /\ recent' = recent \ {n}
            /\ missed' = IF n \in managed THEN missed \cup {n} ELSE missed
         \/ UNCHANGED recent /\ missed' = missed \cup {n}
  BY <1>1 DEF WriteRecent
<1>3. \A k \in managed : k \in Name /\ Recorded(k)
  BY DEF ManagerInv
<1>4. NoWait \in Waiting
  BY DEF NoWait, Waiting
<1>5. waiting' \in [Slot -> Waiting] /\ waiting'[s] = NoWait /\ \A i \in Slot \ {s} : waiting'[i] = waiting[i]
  BY <1>2, <1>4 DEF ManagerInv
<1>6. \A k \in Name \ {n} : waiting[s] # Touching(k)
  BY <1>1 DEF Touching
<1>7. \A k \in managed \ {n} : Recorded(k)'
  BY <1>2, <1>3, <1>5, <1>6 DEF Recorded, Touching
<1>8. n \in managed => Recorded(n)'
  BY <1>2, <1>3 DEF Recorded, Touching
<1>9. \A i \in Slot : Creating(i)' => Creating(i) /\ waiting'[i] = waiting[i]
  BY <1>5 DEF Creating, NoWait
<1> QED
  BY <1>2, <1>3, <1>5, <1>7, <1>8, <1>9 DEF ManagerInv

LEMMA OfManagerStep ==
  ASSUME DiskInv, RemoteInv, TasksInv, ManagerInv, OfManager
  PROVE  DiskInv' /\ RemoteInv' /\ TasksInv' /\ ManagerInv'
<1>1. /\ task \in [Task -> TaskState] /\ task' = Watched(task, Nobody)
      /\ UNCHANGED <<committing, pulls>>
  BY DEF OfManager, TasksInv
<1>2. DirStep /\ UNCHANGED remote /\ ManagerInv'
  <2>1. CASE LoopFree /\ ManagerRequest
    <3>1. DirStep /\ UNCHANGED remote
      BY <2>1, ManagerMoves DEF ManagerRequest
    <3> QED
      BY <2>1, <3>1, RequestRecorded
  <2>2. CASE \E s \in Slot : WriteRecent(s)
    <3>1. UNCHANGED <<disk, remote>>
      BY <2>2 DEF WriteRecent
    <3> QED
      BY <2>2, <3>1, DiskStays, WriteRecorded
  <2>3. CASE \E s \in Slot : CloneInto(s) \/ CloneOver(s)
    BY <2>3, CloneMoves
  <2> QED
    BY <2>1, <2>2, <2>3 DEF OfManager
<1>3. RemoteInv' /\ RemoteGrows
  BY <1>2 DEF RemoteInv, RemoteGrows
<1>4. \A u \in Task : TaskAgrees(u)'
  BY <1>1, <1>3, NobodyActs, WatchedAgrees, GrowsKeeps DEF TasksInv
<1> QED
  BY <1>1, <1>2, <1>3, <1>4, NobodyActs DEF TasksInv, DirStep, DiskInv

\* The tasks delete no directory.
LEMMA TasksRecorded ==
  ASSUME ManagerInv, NoneGone, UNCHANGED managerVars
  PROVE  ManagerInv'
BY DEF ManagerInv, NoneGone, managerVars, Recorded, Touching, Creating, NoWait

LEMMA CrashRecorded ==
  ASSUME ManagerInv, Crash
  PROVE  ManagerInv'
<1>1. /\ UNCHANGED <<disk, recent, managed>>
      /\ waiting' = [s \in Slot |-> NoWait]
      /\ missed' = missed \cup {waiting[s].name : s \in {i \in Slot : waiting[i].row = "touch"}}
  BY DEF Crash, TasksCrash
<1>2. NoWait \in Waiting
  BY DEF NoWait, Waiting
<1>3. ASSUME NEW k \in managed
      PROVE  Recorded(k)'
  <2>1. ASSUME k \notin missed'
        PROVE  \A s \in Slot : waiting[s] # Touching(k)
    BY <1>1, <2>1 DEF Touching
  <2> QED
    BY <1>1, <2>1 DEF Recorded, ManagerInv
<1> QED
  BY <1>1, <1>2, <1>3 DEF ManagerInv, Creating, NoWait

-------------------------------------------------------------------------------
(* The sessions. *)

\* The initial segments of the naturals are finite sets, and strict inclusion of
\* finite sets is well-founded: the shortest rest is after the largest element.
LEMMA LargestExists ==
  ASSUME NEW n \in Nat, NEW C \in SUBSET (1..n), C # {}
  PROVE  \E m \in C : \A j \in C : j <= m
<1> DEFINE T == {0..(n - i) : i \in C}
<1>1. T \subseteq FiniteSubsetsOf(Nat) /\ T # {}
  <2>1. ASSUME NEW i \in C
        PROVE  0..(n - i) \in FiniteSubsetsOf(Nat)
    <3>1. n - i \in Nat
      OBVIOUS
    <3>2. IsFiniteSet(0..(n - i))
      BY <3>1, FS_Interval
    <3> QED
      BY <3>1, <3>2 DEF FiniteSubsetsOf
  <2> QED
    BY <2>1
<1>2. PICK x \in T : \A y \in T : ~(<<y, x>> \in StrictSubsetOrdering(Nat))
  <2> HIDE DEF T
  <2> QED
    BY <1>1, FS_StrictSubsetOrderingWellFounded, WFMin
<1>3. PICK m \in C : x = 0..(n - m)
  BY <1>2
<1>4. ASSUME NEW j \in C, m < j
      PROVE  FALSE
  <2>1. PICK a \in Nat, b \in Nat : a = n - j /\ b = n - m /\ a < b
    BY <1>4
  <2>2. 0..a \in SUBSET Nat /\ 0..b \in SUBSET Nat /\ 0..a \subseteq 0..b /\ b \in 0..b /\ b \notin 0..a
    BY <2>1
  <2>3. <<0..a, 0..b>> \in StrictSubsetOrdering(Nat)
    BY <2>2 DEF StrictSubsetOrdering
  <2> QED
    BY <1>2, <1>3, <2>1, <2>3
<1> QED
  BY <1>4

LEMMA AppendIs ==
  ASSUME NEW q \in Seq(Row), NEW row \in Row
  PROVE  /\ Append(q, row) \in Seq(Row)
         /\ DOMAIN q = 1..Len(q) /\ DOMAIN Append(q, row) = 1..(Len(q) + 1) /\ Len(q) \in Nat
         /\ \A k \in 1..Len(q) : Append(q, row)[k] = q[k]
         /\ Append(q, row)[Len(q) + 1] = row
BY AppendProperties, LenProperties

\* Without row i the rows after it move up one place.
Up(i, k) == IF k < i THEN k ELSE k + 1

LEMMA RemoveIs ==
  ASSUME NEW q \in Seq(Row), NEW i \in DOMAIN q
  PROVE  /\ RemoveAt(q, i) \in Seq(Row)
         /\ DOMAIN q = 1..Len(q) /\ Len(q) \in Nat \ {0} /\ i \in 1..Len(q)
         /\ DOMAIN RemoveAt(q, i) = 1..(Len(q) - 1)
         /\ \A k \in 1..(Len(q) - 1) : RemoveAt(q, i)[k] = q[Up(i, k)]
<1>1. Len(q) \in Nat /\ DOMAIN q = 1..Len(q) /\ i \in 1..Len(q) /\ Len(q) \in Nat \ {0}
  BY LenProperties
<1> DEFINE n == Len(q)
           a == SubSeq(q, 1, i - 1)
           b == SubSeq(q, i + 1, n)
<1>2. \A k \in 1..n : q[k] \in Row
  BY <1>1, ElementOfSeq
<1>3. /\ a \in Seq(Row) /\ Len(a) = i - 1
      /\ \A k \in 1..(i - 1) : a[k] = q[k]
  <2>1. 1 \in Int /\ i - 1 \in Int /\ (\A k \in 1..(i - 1) : q[k] \in Row) /\ (i - 1) - 1 + 1 = i - 1
    BY <1>1, <1>2
  <2>2. /\ a \in Seq(Row) /\ Len(a) = IF 1 <= i - 1 THEN (i - 1) - 1 + 1 ELSE 0
        /\ \A k \in 1..((i - 1) - 1 + 1) : a[k] = q[1 + k - 1]
    BY <2>1, SubSeqProperties
  <2> HIDE DEF a
  <2> QED
    BY <1>1, <2>2
<1>4. /\ b \in Seq(Row) /\ Len(b) = n - i
      /\ \A k \in 1..(n - i) : b[k] = q[i + k]
  <2>1. i + 1 \in Int /\ n \in Int /\ (\A k \in (i + 1)..n : q[k] \in Row)
    BY <1>1, <1>2
  <2>2. /\ b \in Seq(Row) /\ Len(b) = IF i + 1 <= n THEN n - (i + 1) + 1 ELSE 0
        /\ \A k \in 1..(n - (i + 1) + 1) : b[k] = q[i + 1 + k - 1]
    BY <2>1, SubSeqProperties
  <2> HIDE DEF b
  <2>3. n - (i + 1) + 1 = n - i
    BY <1>1
  <2>4. Len(b) = n - i
    BY <1>1, <2>2, <2>3
  <2>5. ASSUME NEW k \in 1..(n - i)
        PROVE  b[k] = q[i + k]
    <3>1. b[k] = q[i + 1 + k - 1]
      BY <2>2, <2>3, <2>5
    <3>2. i + 1 + k - 1 = i + k
      BY <1>1
    <3> QED
      BY <3>1, <3>2
  <2> QED
    BY <2>2, <2>4, <2>5
<1>5. RemoveAt(q, i) = a \o b
  BY DEF RemoveAt
<1> HIDE DEF a, b
<1>6. /\ a \o b \in Seq(Row) /\ Len(a \o b) = Len(a) + Len(b)
      /\ \A k \in 1..(Len(a) + Len(b)) : (a \o b)[k] = IF k <= Len(a) THEN a[k] ELSE b[k - Len(a)]
  BY <1>3, <1>4, ConcatProperties
<1>7. Len(a) + Len(b) = n - 1
  BY <1>1, <1>3, <1>4
<1>8. ASSUME NEW k \in 1..(n - 1)
      PROVE  RemoveAt(q, i)[k] = q[Up(i, k)]
  <2>1. CASE k < i
    BY <1>1, <1>3, <1>5, <1>6, <1>7, <2>1 DEF Up
  <2>2. CASE ~(k < i)
    <3>1. ~(k <= Len(a)) /\ k - Len(a) = k - i + 1 /\ k - i + 1 \in 1..(n - i) /\ i + (k - i + 1) = k + 1
      BY <1>1, <1>3, <2>2
    <3> QED
      BY <1>1, <1>4, <1>5, <1>6, <1>7, <2>2, <3>1 DEF Up
  <2> QED
    BY <2>1, <2>2
<1> QED
  BY <1>1, <1>5, <1>6, <1>7, <1>8, LenProperties

VisitState ==
  [pc : {"idle", "insert", "touch"}, repo : Project \cup {""}, found : Nat, appeared : SUBSET Nat]

ActiveRow(row, repo) == row.repo = repo /\ row.state = "active"

\* Two rows of a list: they are not both active for one repository unless one
\* was made beside the other.
Apart(r, s) ==
  /\ r.id # s.id
  /\ r.repo = s.repo /\ r.state = "active" /\ s.state = "active"
       => r.id \in s.beside \/ s.id \in r.beside

AllApart(q) == \A i, j \in DOMAIN q : i # j => Apart(q[i], q[j])

Numbered(q, n) == \A i \in DOMAIN q : 1 <= q[i].id /\ q[i].id <= n

\* A request that is about to insert knows every active session.
Knows(w, q) ==
  w.pc = "insert" => \A i \in DOMAIN q : ActiveRow(q[i], w.repo) => q[i].id \in w.appeared

SessionsInv ==
  /\ inserted \in Nat
  /\ sessions \in Seq(Row)
  /\ visit \in [Visit -> VisitState]
  /\ \A v \in Visit : visit[v].pc # "idle" => visit[v].repo \in Project
  /\ Numbered(sessions, inserted)
  /\ AllApart(sessions)
  /\ \A v \in Visit : Knows(visit[v], sessions)

LEMMA RowIs ==
  ASSUME NEW row \in Row
  PROVE  row.id \in Nat /\ row.repo \in Project /\ row.state \in {"active", "closed"} /\ row.beside \subseteq Nat
BY DEF Row

\* Removing a row.
LEMMA RemoveKeeps ==
  ASSUME NEW q \in Seq(Row), NEW i \in DOMAIN q, NEW n \in Nat, Numbered(q, n), AllApart(q)
  PROVE  /\ RemoveAt(q, i) \in Seq(Row)
         /\ Numbered(RemoveAt(q, i), n) /\ AllApart(RemoveAt(q, i))
         /\ \A k \in DOMAIN RemoveAt(q, i) : \E j \in DOMAIN q \ {i} : RemoveAt(q, i)[k] = q[j]
         /\ \A w \in VisitState : Knows(w, q) => Knows(w, RemoveAt(q, i))
<1> DEFINE p == RemoveAt(q, i)
<1>1. /\ p \in Seq(Row)
      /\ DOMAIN q = 1..Len(q) /\ Len(q) \in Nat \ {0} /\ i \in 1..Len(q)
      /\ DOMAIN p = 1..(Len(q) - 1)
      /\ \A k \in 1..(Len(q) - 1) : p[k] = q[Up(i, k)]
  BY RemoveIs
<1> HIDE DEF p
<1>2. \A k \in DOMAIN p : Up(i, k) \in DOMAIN q \ {i} /\ p[k] = q[Up(i, k)]
  BY <1>1 DEF Up
<1>3. \A k, l \in DOMAIN p : k # l => Up(i, k) # Up(i, l)
  BY <1>1 DEF Up
<1>4. Numbered(p, n)
  BY <1>2 DEF Numbered
<1>5. AllApart(p)
  BY <1>2, <1>3 DEF AllApart
<1>6. \A w \in VisitState : Knows(w, q) => Knows(w, p)
  BY <1>2 DEF Knows
<1> QED
  BY <1>1, <1>2, <1>4, <1>5, <1>6 DEF p

\* Adding a row.
LEMMA AppendKeeps ==
  ASSUME NEW q \in Seq(Row), NEW row \in Row, NEW n \in Nat, Numbered(q, n), AllApart(q),
         1 <= row.id, row.id <= n,
         \A k \in DOMAIN q : Apart(q[k], row)
  PROVE  /\ Append(q, row) \in Seq(Row)
         /\ Numbered(Append(q, row), n) /\ AllApart(Append(q, row))
         /\ \A w \in VisitState :
              Knows(w, q) /\ (ActiveRow(row, w.repo) => w.pc # "insert" \/ row.id \in w.appeared)
                => Knows(w, Append(q, row))
<1> DEFINE p == Append(q, row)
           m == Len(q) + 1
<1>1. /\ p \in Seq(Row)
      /\ DOMAIN q = 1..Len(q) /\ DOMAIN p = 1..m /\ Len(q) \in Nat
      /\ \A k \in 1..Len(q) : p[k] = q[k]
      /\ p[m] = row
  BY AppendIs
<1> HIDE DEF p
<1>2. \A k \in DOMAIN p : (k \in DOMAIN q /\ p[k] = q[k]) \/ (k = m /\ p[k] = row)
  BY <1>1
<1> HIDE DEF m
<1>3. Numbered(p, n)
  BY <1>2 DEF Numbered
<1>4. \A k \in DOMAIN q : Apart(row, q[k])
  BY DEF Apart
<1>5. AllApart(p)
  BY <1>2, <1>4 DEF AllApart
<1>6. \A w \in VisitState :
        Knows(w, q) /\ (ActiveRow(row, w.repo) => w.pc # "insert" \/ row.id \in w.appeared) => Knows(w, p)
  BY <1>2 DEF Knows
<1> QED
  BY <1>1, <1>3, <1>5, <1>6 DEF p

\* Row i, changed, becomes the last.
LEMMA TouchKeeps ==
  ASSUME sessions \in Seq(Row), NEW i \in DOMAIN sessions, NEW row \in Row, row.id = sessions[i].id,
         Numbered(sessions, inserted), inserted \in Nat, AllApart(sessions),
         \A j \in DOMAIN sessions \ {i} : Apart(sessions[j], row)
  PROVE  /\ Touched(i, row) \in Seq(Row)
         /\ Numbered(Touched(i, row), inserted) /\ AllApart(Touched(i, row))
         /\ \A w \in VisitState :
              Knows(w, sessions) /\ (ActiveRow(row, w.repo) => w.pc # "insert" \/ row.id \in w.appeared)
                => Knows(w, Touched(i, row))
<1> DEFINE p == RemoveAt(sessions, i)
<1>1. /\ p \in Seq(Row) /\ Numbered(p, inserted) /\ AllApart(p)
      /\ \A k \in DOMAIN p : \E j \in DOMAIN sessions \ {i} : p[k] = sessions[j]
      /\ \A w \in VisitState : Knows(w, sessions) => Knows(w, p)
  BY RemoveKeeps
<1> HIDE DEF p
<1>2. \A k \in DOMAIN p : Apart(p[k], row)
  BY <1>1
<1>3. 1 <= row.id /\ row.id <= inserted
  BY DEF Numbered
<1>4. /\ Append(p, row) \in Seq(Row)
      /\ Numbered(Append(p, row), inserted) /\ AllApart(Append(p, row))
      /\ \A w \in VisitState :
           Knows(w, p) /\ (ActiveRow(row, w.repo) => w.pc # "insert" \/ row.id \in w.appeared)
             => Knows(w, Append(p, row))
  BY <1>1, <1>2, <1>3, AppendKeeps
<1>5. Touched(i, row) = Append(p, row)
  BY DEF Touched, p
<1> QED
  BY <1>1, <1>4, <1>5

LEMMA NoVisitIs == NoVisit \in VisitState /\ NoVisit.pc = "idle" /\ \A q : Knows(NoVisit, q)
BY DEF NoVisit, VisitState, Knows

LEMMA AppearsMeans ==
  ASSUME visit \in [Visit -> VisitState], NEW repo \in Project, NEW id \in Nat
  PROVE  /\ Appears(repo, id) \in [Visit -> VisitState]
         /\ \A v \in Visit :
              /\ Appears(repo, id)[v].pc = visit[v].pc /\ Appears(repo, id)[v].repo = visit[v].repo
              /\ visit[v].appeared \subseteq Appears(repo, id)[v].appeared
              /\ visit[v].pc = "insert" /\ visit[v].repo = repo => id \in Appears(repo, id)[v].appeared
<1>1. ASSUME NEW v \in Visit
      PROVE  /\ Appears(repo, id)[v] \in VisitState
             /\ Appears(repo, id)[v].pc = visit[v].pc /\ Appears(repo, id)[v].repo = visit[v].repo
             /\ visit[v].appeared \subseteq Appears(repo, id)[v].appeared
             /\ visit[v].pc = "insert" /\ visit[v].repo = repo => id \in Appears(repo, id)[v].appeared
  <2>1. visit[v] \in VisitState
    OBVIOUS
  <2>2. CASE visit[v].pc = "insert" /\ visit[v].repo = repo
    <3>1. PICK x : x = visit[v]
      OBVIOUS
    <3>2. PICK w : w = [x EXCEPT !.appeared = @ \cup {id}]
      OBVIOUS
    <3>3. Appears(repo, id)[v] = w
      BY <2>2, <3>1, <3>2 DEF Appears
    <3>4. /\ w \in VisitState /\ w.pc = x.pc /\ w.repo = x.repo
          /\ w.appeared = x.appeared \cup {id}
      BY <2>1, <3>1, <3>2 DEF VisitState
    <3> HIDE DEF VisitState
    <3> QED
      BY <3>1, <3>3, <3>4
  <2>3. CASE ~(visit[v].pc = "insert" /\ visit[v].repo = repo)
    BY <2>1, <2>3 DEF Appears
  <2> QED
    BY <2>2, <2>3
<1>2. Appears(repo, id) = [v \in Visit |-> Appears(repo, id)[v]]
  BY DEF Appears
<1> QED
  BY <1>1, <1>2

\* Requests that learn of row id, which is the only one that became active.
LEMMA AppearedKnows ==
  ASSUME visit \in [Visit -> VisitState], NEW repo \in Project, NEW id \in Nat, NEW v \in Visit,
         NEW q, Knows(visit[v], q)
  PROVE  Knows(Appears(repo, id)[v], q)
BY AppearsMeans DEF Knows

LEMMA LookKeeps ==
  ASSUME SessionsInv, NEW v \in Visit, NEW repo \in Project, Look(v, repo)
  PROVE  SessionsInv'
<1>1. /\ inserted \in Nat /\ sessions \in Seq(Row) /\ visit \in [Visit -> VisitState]
      /\ UNCHANGED <<sessions, inserted>> /\ Numbered(sessions, inserted)
      /\ DOMAIN sessions = 1..Len(sessions) /\ Len(sessions) \in Nat
  BY LenProperties DEF SessionsInv, Look
<1>2. PICK id : id = FindActive(repo)
  OBVIOUS
<1>3. id \in Nat /\ (id = 0 => ActiveAt(repo) = {})
  <2>1. CASE ActiveAt(repo) = {}
    BY <1>2, <2>1 DEF FindActive
  <2>2. CASE ActiveAt(repo) # {}
    <3>1. ActiveAt(repo) \subseteq 1..Len(sessions)
      BY <1>1 DEF ActiveAt, Of
    <3>2. \E m \in ActiveAt(repo) : \A j \in ActiveAt(repo) : j <= m
      BY <1>1, <2>2, <3>1, LargestExists
    <3>3. Newest(ActiveAt(repo)) \in ActiveAt(repo)
      BY <3>2 DEF Newest
    <3>4. Newest(ActiveAt(repo)) \in DOMAIN sessions
      BY <1>1, <3>1, <3>3
    <3>5. sessions[Newest(ActiveAt(repo))] \in Row
      BY <1>1, <3>4, ElementOfSeq
    <3>6. id = sessions[Newest(ActiveAt(repo))].id
      BY <1>2, <2>2 DEF FindActive
    <3> QED
      BY <1>1, <3>4, <3>5, <3>6, RowIs DEF Numbered
  <2> QED
    BY <2>1, <2>2
<1>4. PICK w : w = [NoVisit EXCEPT !.pc = IF id = 0 THEN "insert" ELSE "touch", !.repo = repo, !.found = id]
  OBVIOUS
<1>5. /\ w \in VisitState /\ w.repo = repo /\ w.pc \in {"insert", "touch"}
      /\ w.pc = "insert" => id = 0
  BY <1>3, <1>4 DEF NoVisit, VisitState
<1>6. visit' = [visit EXCEPT ![v] = w]
  BY <1>2, <1>4 DEF Look
<1>7. visit' \in [Visit -> VisitState] /\ visit'[v] = w /\ \A u \in Visit \ {v} : visit'[u] = visit[u]
  BY <1>1, <1>5, <1>6
<1>8. Knows(w, sessions)
  <2>1. \A i \in DOMAIN sessions : ActiveRow(sessions[i], repo) => i \in ActiveAt(repo)
    BY DEF ActiveRow, ActiveAt, Of
  <2> QED
    BY <1>3, <1>5, <2>1 DEF Knows
<1> QED
  BY <1>1, <1>5, <1>7, <1>8 DEF SessionsInv

LEMMA InsertKeeps ==
  ASSUME SessionsInv, NEW v \in Visit, Insert(v)
  PROVE  SessionsInv'
<1> DEFINE repo == visit[v].repo
           w == visit[v]
<1>1. /\ inserted \in Nat /\ sessions \in Seq(Row) /\ visit \in [Visit -> VisitState]
      /\ Numbered(sessions, inserted) /\ AllApart(sessions)
      /\ w \in VisitState /\ w.pc = "insert" /\ repo \in Project /\ Knows(w, sessions)
      /\ inserted' = inserted + 1 /\ inserted + 1 \in Nat
  BY DEF SessionsInv, Insert
<1>2. PICK row : /\ row = [id |-> inserted + 1, repo |-> repo, state |-> "active", beside |-> w.appeared]
                 /\ sessions' = Append(sessions, row)
                 /\ visit' = [Appears(repo, row.id) EXCEPT ![v] = NoVisit]
  BY DEF Insert
<1>3. w.appeared \subseteq Nat
  BY <1>1 DEF VisitState
<1>4. row \in Row /\ row.id = inserted + 1 /\ row.repo = repo /\ row.beside = w.appeared
  BY <1>1, <1>2, <1>3 DEF Row
<1>5. \A k \in DOMAIN sessions : sessions[k] \in Row
  BY <1>1, ElementOfSeq
<1>6. ASSUME NEW k \in DOMAIN sessions
      PROVE  Apart(sessions[k], row)
  <2>1. sessions[k].id \in Nat /\ sessions[k].id <= inserted
    BY <1>1, <1>5, RowIs DEF Numbered
  <2>2. sessions[k].repo = repo /\ sessions[k].state = "active" => sessions[k].id \in w.appeared
    BY <1>1 DEF Knows, ActiveRow
  <2> QED
    BY <1>1, <1>4, <2>1, <2>2 DEF Apart
<1>7. Numbered(sessions, inserted + 1)
  <2>1. \A k \in DOMAIN sessions : sessions[k].id \in Nat
    BY <1>5, RowIs
  <2> QED
    BY <1>1, <2>1 DEF Numbered
<1>8. 1 <= row.id /\ row.id <= inserted + 1
  BY <1>1, <1>4
<1>9. /\ sessions' \in Seq(Row) /\ Numbered(sessions', inserted') /\ AllApart(sessions')
      /\ \A x \in VisitState :
           Knows(x, sessions) /\ (ActiveRow(row, x.repo) => x.pc # "insert" \/ row.id \in x.appeared)
             => Knows(x, sessions')
  BY <1>1, <1>2, <1>4, <1>6, <1>7, <1>8, AppendKeeps
<1>10. PICK seen : seen = Appears(repo, row.id)
  OBVIOUS
<1>11. row.id \in Nat
  BY <1>1, <1>4
<1>12. /\ seen \in [Visit -> VisitState]
       /\ \A u \in Visit : /\ seen[u].pc = visit[u].pc /\ seen[u].repo = visit[u].repo
                           /\ visit[u].pc = "insert" /\ visit[u].repo = repo => row.id \in seen[u].appeared
                           /\ Knows(seen[u], sessions)
  BY <1>1, <1>10, <1>11, AppearsMeans, AppearedKnows DEF SessionsInv
<1>13. visit' \in [Visit -> VisitState] /\ visit'[v] = NoVisit /\ \A u \in Visit \ {v} : visit'[u] = seen[u]
  BY <1>2, <1>10, <1>12, NoVisitIs
<1>14. ASSUME NEW u \in Visit
       PROVE  Knows(visit'[u], sessions')
  <2>1. CASE u = v
    BY <1>13, <2>1, NoVisitIs
  <2>2. CASE u # v
    BY <1>4, <1>9, <1>12, <1>13, <2>2 DEF ActiveRow
  <2> QED
    BY <2>1, <2>2
<1>15. \A u \in Visit : visit'[u].pc # "idle" => visit'[u].repo \in Project
  BY <1>12, <1>13, NoVisitIs DEF SessionsInv
<1> QED
  BY <1>1, <1>9, <1>13, <1>14, <1>15 DEF SessionsInv

LEMMA VisitEnds ==
  ASSUME SessionsInv, NEW v \in Visit, visit' = [visit EXCEPT ![v] = NoVisit] \/ UNCHANGED visit,
         UNCHANGED inserted, sessions' \in Seq(Row), Numbered(sessions', inserted), AllApart(sessions'),
         \A w \in VisitState : Knows(w, sessions) => Knows(w, sessions')
  PROVE  SessionsInv'
<1>1. visit \in [Visit -> VisitState]
  BY DEF SessionsInv
<1>2. /\ visit' \in [Visit -> VisitState]
      /\ \A u \in Visit : visit'[u] = visit[u] \/ visit'[u] = NoVisit
  BY <1>1, NoVisitIs
<1>3. \A u \in Visit : Knows(visit'[u], sessions') /\ (visit'[u].pc # "idle" => visit'[u].repo \in Project)
  BY <1>1, <1>2, NoVisitIs DEF SessionsInv
<1> QED
  BY <1>2, <1>3 DEF SessionsInv

LEMMA ReuseKeeps ==
  ASSUME SessionsInv, NEW v \in Visit, Reuse(v)
  PROVE  SessionsInv'
<1>1. /\ inserted \in Nat /\ sessions \in Seq(Row) /\ Numbered(sessions, inserted) /\ AllApart(sessions)
      /\ visit' = [visit EXCEPT ![v] = NoVisit] /\ UNCHANGED inserted
  BY DEF SessionsInv, Reuse
<1>2. CASE UNCHANGED sessions
  BY <1>1, <1>2, VisitEnds
<1>3. ASSUME NEW i \in DOMAIN sessions, sessions' = Touched(i, sessions[i])
      PROVE  SessionsInv'
  <2>1. sessions[i] \in Row
    BY <1>1, ElementOfSeq
  <2>2. \A j \in DOMAIN sessions \ {i} : Apart(sessions[j], sessions[i])
    BY <1>1 DEF AllApart
  <2>3. /\ sessions' \in Seq(Row) /\ Numbered(sessions', inserted) /\ AllApart(sessions')
        /\ \A w \in VisitState :
             Knows(w, sessions) /\ (ActiveRow(sessions[i], w.repo) => w.pc # "insert" \/ sessions[i].id \in w.appeared)
               => Knows(w, sessions')
    BY <1>1, <1>3, <2>1, <2>2, TouchKeeps
  <2>4. \A w \in VisitState : Knows(w, sessions) => Knows(w, sessions')
    BY <2>3 DEF Knows
  <2> QED
    BY <1>1, <2>3, <2>4, VisitEnds
<1> QED
  BY <1>2, <1>3 DEF Reuse

LEMMA RestoreKeeps ==
  ASSUME SessionsInv, NEW i \in DOMAIN sessions, RestoreSession(i)
  PROVE  SessionsInv'
<1>1. /\ inserted \in Nat /\ sessions \in Seq(Row) /\ Numbered(sessions, inserted) /\ AllApart(sessions)
      /\ visit \in [Visit -> VisitState] /\ UNCHANGED inserted
  BY DEF SessionsInv, RestoreSession
<1>2. PICK old : old = sessions[i]
  OBVIOUS
<1>3. old \in Row /\ \A k \in DOMAIN sessions : sessions[k] \in Row
  BY <1>1, <1>2, ElementOfSeq
<1>4. PICK others : others = Ids(ActiveOf(old.repo)) \ {old.id}
  OBVIOUS
<1>5. others \subseteq Nat
  <2>1. \A r \in Rows : r.id \in Nat
    BY <1>3, RowIs DEF Rows
  <2> QED
    BY <1>4, <2>1 DEF Ids, ActiveOf
<1>6. PICK row : row = [old EXCEPT !.state = "active", !.beside = others]
  OBVIOUS
<1>7. row \in Row /\ row.id = old.id /\ row.repo = old.repo /\ row.beside = others
  BY <1>3, <1>5, <1>6 DEF Row
<1>8. sessions' = Touched(i, row) /\ visit' = Appears(old.repo, old.id)
  BY <1>2, <1>4, <1>6 DEF RestoreSession
<1>9. ASSUME NEW j \in DOMAIN sessions \ {i}
      PROVE  Apart(sessions[j], row)
  <2>1. sessions[j].id # old.id
    BY <1>1, <1>2 DEF AllApart, Apart
  <2>2. sessions[j].repo = old.repo /\ sessions[j].state = "active" => sessions[j].id \in others
    BY <1>4, <2>1 DEF Ids, ActiveOf, Rows
  <2> QED
    BY <1>7, <2>1, <2>2 DEF Apart
<1>10. /\ sessions' \in Seq(Row) /\ Numbered(sessions', inserted) /\ AllApart(sessions')
       /\ \A w \in VisitState :
            Knows(w, sessions) /\ (ActiveRow(row, w.repo) => w.pc # "insert" \/ row.id \in w.appeared)
              => Knows(w, sessions')
  BY <1>1, <1>2, <1>7, <1>8, <1>9, TouchKeeps
<1>11. old.id \in Nat /\ old.repo \in Project
  BY <1>3, RowIs
<1>12. /\ visit' \in [Visit -> VisitState]
       /\ \A u \in Visit : /\ visit'[u].pc = visit[u].pc /\ visit'[u].repo = visit[u].repo
                           /\ visit[u].pc = "insert" /\ visit[u].repo = old.repo => old.id \in visit'[u].appeared
                           /\ Knows(visit'[u], sessions)
  BY <1>1, <1>8, <1>11, AppearsMeans, AppearedKnows DEF SessionsInv
<1>13. \A u \in Visit : Knows(visit'[u], sessions')
  BY <1>7, <1>10, <1>12 DEF ActiveRow
<1> QED
  BY <1>1, <1>10, <1>12, <1>13 DEF SessionsInv

LEMMA CloseKeeps ==
  ASSUME SessionsInv, NEW i \in DOMAIN sessions, CloseSession(i)
  PROVE  SessionsInv'
<1>1. /\ inserted \in Nat /\ sessions \in Seq(Row) /\ Numbered(sessions, inserted) /\ AllApart(sessions)
      /\ UNCHANGED <<visit, inserted>> /\ visit \in [Visit -> VisitState]
  BY DEF SessionsInv, CloseSession
<1>2. PICK old : old = sessions[i]
  OBVIOUS
<1>3. PICK row : row = [old EXCEPT !.state = "closed"]
  OBVIOUS
<1>4. old \in Row
  BY <1>1, <1>2, ElementOfSeq
<1>5. row \in Row /\ row.id = old.id /\ row.state = "closed"
  BY <1>3, <1>4 DEF Row
<1>6. sessions' = Touched(i, row)
  BY <1>2, <1>3 DEF CloseSession
<1>7. \A j \in DOMAIN sessions \ {i} : Apart(sessions[j], row)
  BY <1>1, <1>2, <1>5 DEF AllApart, Apart
<1>8. /\ sessions' \in Seq(Row) /\ Numbered(sessions', inserted) /\ AllApart(sessions')
      /\ \A w \in VisitState :
           Knows(w, sessions) /\ (ActiveRow(row, w.repo) => w.pc # "insert" \/ row.id \in w.appeared)
             => Knows(w, sessions')
  BY <1>1, <1>2, <1>5, <1>6, <1>7, TouchKeeps
<1>9. \A w : ~ActiveRow(row, w.repo)
  BY <1>5 DEF ActiveRow
<1> QED
  BY <1>1, <1>8, <1>9 DEF SessionsInv

LEMMA DeleteKeeps ==
  ASSUME SessionsInv, NEW i \in DOMAIN sessions, DeleteSession(i)
  PROVE  SessionsInv'
<1>1. /\ inserted \in Nat /\ sessions \in Seq(Row) /\ Numbered(sessions, inserted) /\ AllApart(sessions)
      /\ UNCHANGED <<visit, inserted>> /\ visit \in [Visit -> VisitState] /\ sessions' = RemoveAt(sessions, i)
  BY DEF SessionsInv, DeleteSession
<1>2. /\ sessions' \in Seq(Row) /\ Numbered(sessions', inserted) /\ AllApart(sessions')
      /\ \A w \in VisitState : Knows(w, sessions) => Knows(w, sessions')
  BY <1>1, RemoveKeeps
<1> QED
  BY <1>1, <1>2 DEF SessionsInv

LEMMA OfSessionsStep ==
  ASSUME SessionsInv, OfSessions
  PROVE  SessionsInv'
<1>1. CASE SessionsRequest
  BY <1>1, LookKeeps, RestoreKeeps, CloseKeeps, DeleteKeeps DEF SessionsRequest
<1>2. CASE SessionsStep
  BY <1>2, InsertKeeps, ReuseKeeps DEF SessionsStep
<1> QED
  BY <1>1, <1>2 DEF OfSessions

-------------------------------------------------------------------------------
(* The invariant. *)

WorkspacesInv == DiskInv /\ RemoteInv /\ TasksInv /\ ManagerInv /\ SessionsInv

LEMMA NoTaskIs == NoTask \in TaskState /\ NoTask.pc = "idle" /\ ~NoTask.pushed
BY DEF NoTask, TaskState, Stage

LEMMA WorkspacesInit == Init => WorkspacesInv
<1> SUFFICES ASSUME Init PROVE WorkspacesInv
  OBVIOUS
<1>1. DiskInv
  BY DEF Init, DiskInv, Sound
<1>2. RemoteInv
  <2>1. DOMAIN remote = {Main} /\ remote \in [{Main} -> SUBSET Task]
    BY DEF Init
  <2> QED
    BY <2>1, BranchesAre, RepositoryAssumption DEF RemoteInv
<1>3. TasksInv
  <2>1. task \in [Task -> TaskState] /\ \A t \in Task : task[t] = NoTask
    BY NoTaskIs DEF Init, TaskGitInit
  <2>2. \A t \in Task : TaskAgrees(t)
    BY <2>1, NoTaskIs DEF TaskAgrees, Finalising
  <2> QED
    BY <2>1, <2>2 DEF Init, TaskGitInit, TasksInv
<1>4. ManagerInv
  <2>1. NoWait \in Waiting
    BY DEF NoWait, Waiting
  <2> QED
    BY <2>1 DEF Init, ManagerInit, ManagerInv, Creating, NoWait
<1>5. SessionsInv
  <2>1. sessions = <<>> /\ DOMAIN sessions = {} /\ sessions \in Seq(Row)
    BY EmptySeq DEF Init, SessionsInit
  <2>2. visit \in [Visit -> VisitState] /\ \A v \in Visit : visit[v] = NoVisit
    BY NoVisitIs DEF Init, SessionsInit
  <2>3. Numbered(sessions, inserted) /\ AllApart(sessions)
    BY <2>1 DEF Numbered, AllApart
  <2> QED
    BY <2>1, <2>2, <2>3, NoVisitIs DEF Init, SessionsInit, SessionsInv
<1> QED
  BY <1>1, <1>2, <1>3, <1>4, <1>5 DEF WorkspacesInv

LEMMA CrashStep ==
  ASSUME WorkspacesInv, Crash
  PROVE  WorkspacesInv'
<1>1. /\ UNCHANGED <<disk, remote, pulls, sessions, inserted>> /\ committing' = Nobody
      /\ task' = [t \in Task |-> NoTask] /\ visit' = [v \in Visit |-> NoVisit]
  BY DEF Crash, TasksCrash
<1>2. DiskInv' /\ RemoteInv'
  BY <1>1 DEF WorkspacesInv, DiskInv, RemoteInv
<1>3. TasksInv'
  <2>1. task' \in [Task -> TaskState] /\ \A t \in Task : task'[t] = NoTask
    BY <1>1, NoTaskIs
  <2>2. \A t \in Task : TaskAgrees(t)'
    BY <2>1, NoTaskIs, PlainAgrees
  <2> QED
    BY <1>1, <2>1, <2>2 DEF WorkspacesInv, TasksInv
<1>4. ManagerInv'
  BY CrashRecorded DEF WorkspacesInv
<1>5. SessionsInv'
  BY <1>1, NoVisitIs DEF WorkspacesInv, SessionsInv
<1> QED
  BY <1>2, <1>3, <1>4, <1>5 DEF WorkspacesInv

LEMMA WorkspacesStep == WorkspacesInv /\ [Next]_wvars => WorkspacesInv'
<1> SUFFICES ASSUME WorkspacesInv, [Next]_wvars PROVE WorkspacesInv'
  OBVIOUS
<1> USE DEF WorkspacesInv
<1>1. CASE OfThreads \/ OfGit
  <2>1. UNCHANGED managerVars /\ UNCHANGED sessionVars
    BY <1>1 DEF OfThreads, OfGit
  <2>2. SessionsInv'
    BY <2>1 DEF sessionVars, SessionsInv
  <2> QED
    BY <1>1, <2>1, <2>2, OfThreadsStep, OfGitStep, TasksRecorded
<1>2. CASE OfManager
  <2>1. UNCHANGED sessionVars
    BY <1>2 DEF OfManager
  <2>2. SessionsInv'
    BY <2>1 DEF sessionVars, SessionsInv
  <2> QED
    BY <1>2, <2>2, OfManagerStep
<1>3. CASE OfSessions
  <2>1. UNCHANGED <<disk, remote, taskVars, managerVars>>
    BY <1>3 DEF OfSessions
  <2>2. DiskInv' /\ RemoteInv'
    BY <2>1 DEF DiskInv, RemoteInv
  <2>3. TasksInv'
    BY <2>1 DEF taskVars, TasksInv, TaskAgrees, Here, OnOrigin
  <2>4. ManagerInv'
    BY <2>1 DEF managerVars, ManagerInv, Recorded, Creating
  <2> QED
    BY <1>3, <2>2, <2>3, <2>4, OfSessionsStep
<1>4. CASE Crash
  BY <1>4, CrashStep
<1>5. CASE UNCHANGED wvars
  <2>1. DiskInv' /\ RemoteInv'
    BY <1>5 DEF wvars, DiskInv, RemoteInv
  <2>2. TasksInv'
    BY <1>5 DEF wvars, taskVars, TasksInv, TaskAgrees, Here, OnOrigin
  <2>3. ManagerInv'
    BY <1>5 DEF wvars, managerVars, ManagerInv, Recorded, Creating
  <2>4. SessionsInv'
    BY <1>5 DEF wvars, sessionVars, SessionsInv
  <2> QED
    BY <2>1, <2>2, <2>3, <2>4
<1> QED
  BY <1>1, <1>2, <1>3, <1>4, <1>5 DEF Next

(* The directories, the remote, the tasks, the table of recent workspaces and  *)
(* the sessions keep their types and what else the invariant says of them.     *)
THEOREM WorkspacesCorrect == Spec => []WorkspacesInv
BY WorkspacesInit, WorkspacesStep, PTL DEF Spec

(* A finalize that says it pushed its task's branch did push the task's work to *)
(* it, unless its checkout or its git add failed, another thread or an endpoint *)
(* moved HEAD or took the edits out of its hands, or a forced push took them    *)
(* off origin since: _git_finalize of agent.py, for any number of tasks in one  *)
(* directory, every order of their git commands and every command of an agent. *)
THEOREM PushedIsPushed == Spec => []PushedAsTold
<1>1. WorkspacesInv => PushedAsTold
  BY DEF WorkspacesInv, TasksInv, TaskAgrees, PushedAsTold
<1> QED
  BY <1>1, WorkspacesCorrect, PTL

(* A workspace that was made, renamed to or switched to is among the recent    *)
(* ones once no request is at work on it, unless writing its row failed or an  *)
(* older delete of that name came late: the requests of workspace_manager.py,  *)
(* which change the directory first, a clone in several steps, and then the    *)
(* table.                                                                      *)
THEOREM WorkspacesAreShown == Spec => []RecentsFollow
<1>1. ASSUME WorkspacesInv, NEW n \in managed, n \notin missed, \A s \in Slot : waiting[s].name # n
      PROVE  n \in Shown
  <2>1. \A s \in Slot : waiting[s] # Touching(n)
    BY <1>1 DEF Touching
  <2> QED
    BY <1>1, <2>1 DEF WorkspacesInv, ManagerInv, Recorded, Shown
<1>2. WorkspacesInv => RecentsFollow
  BY <1>1 DEF RecentsFollow
<1> QED
  BY <1>2, WorkspacesCorrect, PTL

(* Two active sessions of one repository are only there if one was restored    *)
(* beside the other or became active after the other's create had looked:      *)
(* api_sessions_create of main.py, whose look and insert are two calls.        *)
THEOREM OneSessionPerRepo == Spec => []OneActivePerRepo
<1>1. ASSUME WorkspacesInv, NEW repo \in Project, NEW r \in ActiveOf(repo), NEW s \in ActiveOf(repo), r.id # s.id
      PROVE  r.id \in s.beside \/ s.id \in r.beside
  <2>1. PICK i \in DOMAIN sessions, j \in DOMAIN sessions : r = sessions[i] /\ s = sessions[j]
    BY DEF ActiveOf, Rows
  <2>2. Apart(r, s)
    BY <1>1, <2>1 DEF WorkspacesInv, SessionsInv, AllApart
  <2> QED
    BY <2>2 DEF Apart, ActiveOf
<1>2. WorkspacesInv => OneActivePerRepo
  BY <1>1 DEF OneActivePerRepo
<1> QED
  BY <1>2, WorkspacesCorrect, PTL

-------------------------------------------------------------------------------
(* Work is not lost. *)

\* The steps that may lose the edits of t.
MayLose(t) ==
  \/ \E n \in Name : disk[n] # None /\ disk'[n] = None
  \/ Cleared
  \/ \E u \in Task : Doing(u, "move") /\ (task[u].raced \/ ~HasGit(Here(u)))
  \/ \E u \in Task : TakenBy(u, t)

LEMMA RemoteHolds ==
  ASSUME RemoteGrows, NEW t \in Task, \E b \in DOMAIN remote : t \in remote[b]
  PROVE  Somewhere(t)'
<1>1. \E b \in DOMAIN remote' : t \in remote'[b]
  BY DEF RemoteGrows
<1> QED
  BY <1>1 DEF Somewhere

LEMMA DirectoryHolds ==
  ASSUME NEW t \in Task, NEW n \in Name, NEW e, e = disk'[n], t \in Held(e)
  PROVE  Somewhere(t)'
<1>1. Held(e) = Held(disk[n])'
  BY DEF Held
<1> QED
  BY <1>1 DEF Somewhere

\* A step in the directory of u.
LEMMA NowKeeps ==
  ASSUME DiskInv, RemoteGrows, NEW u \in Task, NEW e, Now(u, e), NEW t \in Task, Somewhere(t),
         t \in Held(Here(u)) => t \in Held(e)
  PROVE  Somewhere(t)'
<1>1. Root[u] \in Name /\ disk'[Root[u]] = e /\ \A n \in Name \ {Root[u]} : disk'[n] = disk[n]
  BY RootIs DEF Now, DiskInv
<1>2. CASE \E b \in DOMAIN remote : t \in remote[b]
  BY <1>2, RemoteHolds
<1>3. ASSUME NEW n \in Name, t \in Held(disk[n])
      PROVE  Somewhere(t)'
  <2>1. t \in Held(disk'[n])
    BY <1>1, <1>3 DEF Here
  <2> QED
    BY <2>1, DirectoryHolds
<1> QED
  BY <1>2, <1>3 DEF Somewhere

LEMMA StillKeeps ==
  ASSUME RemoteGrows, UNCHANGED disk, NEW t \in Task, Somewhere(t)
  PROVE  Somewhere(t)'
<1>1. CASE \E b \in DOMAIN remote : t \in remote[b]
  BY <1>1, RemoteHolds
<1>2. ASSUME NEW n \in Name, t \in Held(disk[n])
      PROVE  Somewhere(t)'
  BY <1>2, DirectoryHolds
<1> QED
  BY <1>1, <1>2 DEF Somewhere

LEMMA HoldsNothing == Held(None) = {} /\ Held(EmptyDir) = {}
BY EmptyDirIs DEF Held, EmptyDir, NoBranches

LEMMA UnpackKeeps ==
  ASSUME remote \in Branches, Main \in DOMAIN remote, NEW d, Sound(d), Partial(d)
  PROVE  Held(d) \subseteq Held(Cloned(d.unstaged))
<1>1. d \in Directory /\ d # None /\ d.staged = {} /\ d.commits = NoBranches
  BY DEF Sound, Ready, Partial
<1>2. d.unstaged \in SUBSET Task
  BY <1>1, DirectoryIs
<1>3. Cloned(d.unstaged) # None /\ Cloned(d.unstaged).unstaged = d.unstaged
  BY <1>2, ClonedIsSound DEF Solid
<1> QED
  BY <1>1, <1>3 DEF Held, NoBranches

\* Staged edits whose files were written over are gone from the files.
LEMMA OverIsTaken ==
  ASSUME NEW u \in Task, NEW t \in Task, ~Doing(u, "idle"), Here(u) # None, t \in Here(u).over
  PROVE  MayLose(t)
BY DEF TakenBy, MayLose, Opened

\* The set-up.
LEMMA SetupKeeps ==
  ASSUME WorkspacesInv, RemoteGrows, NEW u \in Task, NEW t \in Task, Somewhere(t), ~Somewhere(t)',
         \/ Start(u) \/ Check(u) \/ CheckoutDefault(u) \/ Pull(u) \/ Clone(u) \/ CloneEnds(u) \/ MoveIn(u)
  PROVE  MayLose(t)
<1> DEFINE d == Here(u)
<1>1. DiskInv /\ remote \in Branches /\ Main \in DOMAIN remote /\ Sound(d) /\ d \in Directory \cup {None}
  BY HereIs DEF WorkspacesInv, RemoteInv
<1>2. \A e : Now(u, e) => ~(Held(d) \subseteq Held(e))
  BY <1>1, NowKeeps
<1>3. disk' # disk
  BY StillKeeps
<1>4. CASE Start(u)
  BY <1>2, <1>3, <1>4, HoldsNothing DEF Start
<1>5. CASE CheckoutDefault(u)
  BY <1>1, <1>2, <1>3, <1>5, CheckoutMoves, RepositoryAssumption DEF CheckoutDefault
<1>6. CASE Pull(u)
  BY <1>1, <1>2, <1>3, <1>6, PullMoves DEF Pull
<1>7. CASE Clone(u)
  BY <1>2, <1>3, <1>7, HoldsNothing DEF Clone
<1>8. CASE CloneEnds(u)
  <2>1. Doing(u, "unpack")
    BY <1>8 DEF CloneEnds
  <2>2. CASE Now(u, EmptyDir)
    <3>1. disk'[Root[u]] = EmptyDir
      BY <1>1, <2>2, RootIs DEF Now, DiskInv
    <3> QED
      BY <2>1, <3>1 DEF MayLose, Cleared
  <2>3. CASE Partial(d) /\ Now(u, Cloned(d.unstaged))
    BY <1>1, <1>2, <2>3, UnpackKeeps
  <2> QED
    BY <1>3, <1>8, <2>2, <2>3 DEF CloneEnds
<1>9. CASE MoveIn(u)
  BY <1>9 DEF MoveIn, Doing, MayLose, WorkspacesInv, TasksInv, TaskAgrees
<1>10. CASE Check(u)
  BY <1>3, <1>10 DEF Check
<1> QED
  BY <1>4, <1>5, <1>6, <1>7, <1>8, <1>9, <1>10

\* The edits, and _git_finalize.
LEMMA RunKeeps ==
  ASSUME WorkspacesInv, RemoteGrows, NEW u \in Task, NEW t \in Task, Somewhere(t), ~Somewhere(t)',
         \/ Edit(u) \/ Finish(u) \/ Finalize(u) \/ BranchOff(u) \/ SwitchTo(u) \/ Add(u) \/ Commit(u) \/ Push(u)
  PROVE  MayLose(t)
<1> DEFINE d == Here(u)
           b == Own[u]
<1>1. DiskInv /\ Sound(d) /\ d \in Directory \cup {None} /\ b \in Branch
  BY HereIs, RootIs DEF WorkspacesInv
<1>2. \A e : Now(u, e) => t \in Held(d) /\ t \notin Held(e)
  BY <1>1, NowKeeps
<1>3. disk' # disk
  BY StillKeeps
<1>4. ASSUME Edit(u)
      PROVE  FALSE
  <2>1. PICK c : c = IF d = None THEN EmptyDir ELSE d
    OBVIOUS
  <2>2. PICK e : e = [c EXCEPT !.unstaged = @ \cup {u}] /\ Now(u, e)
    BY <1>4, <2>1 DEF Edit
  <2>3. c \in Directory /\ Sound(c) /\ Held(d) \subseteq Held(c)
    BY <1>1, <2>1, EmptyDirIs, HoldsNothing
  <2>4. Held(c) \subseteq Held(e)
    BY <2>2, <2>3, EditMoves
  <2> QED
    BY <1>2, <2>2, <2>3, <2>4
<1>5. ASSUME BranchOff(u)
      PROVE  FALSE
  <2>1. CreateWorks(d, b) => Held(d) \subseteq Held(Branched(d, b))
    BY <1>1, BranchMoves
  <2> QED
    BY <1>2, <1>3, <1>5, <2>1 DEF BranchOff
<1>6. ASSUME SwitchTo(u)
      PROVE  FALSE
  <2>1. CheckoutWorks(d, b) => Held(d) \subseteq Held(CheckedOut(d, b))
    BY <1>1, CheckoutMoves
  <2> QED
    BY <1>2, <1>3, <1>6, <2>1 DEF SwitchTo
<1>7. CASE Add(u)
  <2>1. Ready(d) /\ Now(u, Added(d)) /\ ~Doing(u, "idle")
    BY <1>3, <1>7 DEF Add, Doing
  <2>2. Held(d) \subseteq Held(Added(d)) \cup d.over
    BY <1>1, <2>1, AddMoves
  <2>3. t \in d.over /\ d # None
    BY <1>2, <2>1, <2>2 DEF Ready
  <2> QED
    BY <2>1, <2>3, OverIsTaken
<1>8. ASSUME Commit(u)
      PROVE  FALSE
  <2>1. CommitWorks(d) => Held(d) \subseteq Held(Committed(d))
    BY <1>1, CommitMoves
  <2> QED
    BY <1>2, <1>3, <1>8, <2>1 DEF Commit
<1>9. ~(Finish(u) \/ Finalize(u) \/ Push(u))
  BY <1>3 DEF Finish, Finalize, Push
<1> QED
  BY <1>4, <1>5, <1>6, <1>7, <1>8, <1>9

\* A command.
LEMMA CommandLoses ==
  ASSUME WorkspacesInv, NEW u \in Task, NEW tool \in BOOLEAN, RunCommand(u, tool), NEW t \in Task
  PROVE  MayLose(t)
<1> DEFINE d == Here(u)
<1>1. DiskInv /\ Opened(u) /\ d # None
  BY DEF WorkspacesInv, RunCommand, Opened, Doing
<1>2. ASSUME NEW e \in Stripped(d), Now(u, e)
      PROVE  TakenBy(u, t)
  <2>1. disk'[Root[u]] = e
    BY <1>1, <1>2, RootIs DEF Now, DiskInv
  <2> QED
    BY <1>1, <1>2, <2>1 DEF TakenBy
<1>3. ASSUME NEW b \in DOMAIN d.commits, remote' = Pushed(d, b)
      PROVE  TakenBy(u, t)
  BY <1>1, <1>3 DEF TakenBy
<1> QED
  BY <1>2, <1>3 DEF RunCommand, MayLose

\* Tools and endpoints other than commands.
LEMMA CallKeeps ==
  ASSUME WorkspacesInv, RemoteGrows, NEW u \in Task, NEW tool \in BOOLEAN, GitCall(u, tool),
         NEW t \in Task, Somewhere(t), ~Somewhere(t)'
  PROVE  MayLose(t)
<1> DEFINE d == Here(u)
<1>1. DiskInv /\ Sound(d) /\ d \in Directory \cup {None}
  BY HereIs DEF WorkspacesInv
<1>2. \A e : Now(u, e) => t \in Held(d) /\ t \notin Held(e)
  BY <1>1, NowKeeps
<1>3. disk' # disk
  BY StillKeeps
<1>4. ASSUME NEW b \in Branch, NEW create \in BOOLEAN, GitCheckout(u, b, create, tool)
      PROVE  FALSE
  <2>1. CreateWorks(d, b) => Held(d) \subseteq Held(Branched(d, b))
    BY <1>1, BranchMoves
  <2>2. CheckoutWorks(d, b) => Held(d) \subseteq Held(CheckedOut(d, b))
    BY <1>1, CheckoutMoves
  <2> QED
    BY <1>2, <1>4, <2>1, <2>2 DEF GitCheckout
<1>5. ASSUME NEW b \in Branch, GitBranch(u, b)
      PROVE  FALSE
  <2>1. CreateWorks(d, b) => Held(d) \subseteq Held(Branched(d, b))
    BY <1>1, BranchMoves
  <2> QED
    BY <1>2, <1>3, <1>5, <2>1 DEF GitBranch
<1>6. ASSUME NEW x \in Task, GitFile(u, x, tool)
      PROVE  MayLose(t)
  <2>1. PICK e \in {Staged(d, x), Unstaged(d, x)} \cup (IF tool THEN {} ELSE {Discarded(d, x)}) : Now(u, e)
    BY <1>6 DEF GitFile
  <2>2. Ready(d) /\ e \in {Staged(d, x), Unstaged(d, x), Discarded(d, x)}
    BY <1>6, <2>1 DEF GitFile
  <2>3. t \in d.over \/ (t = x /\ e = Discarded(d, x))
    BY <1>1, <1>2, <2>1, <2>2, FileMoves
  <2>4. Opened(u)
    BY <1>6 DEF GitFile, Called, Opened, Doing
  <2>5. disk'[Root[u]] = e
    BY <1>1, <2>1, RootIs DEF Now, DiskInv
  <2> QED
    BY <2>2, <2>3, <2>4, <2>5 DEF MayLose, TakenBy, Ready
<1>7. CASE GitPush(u, tool) \/ OpenPull(u)
  BY <1>3, <1>7 DEF GitPush, OpenPull
<1>8. CASE GitCommit(u)
  <2>1. CommitWorks(d) => Held(d) \subseteq Held(Committed(d))
    BY <1>1, CommitMoves
  <2> QED
    BY <1>2, <1>8, <2>1 DEF GitCommit
<1>9. CASE CommitAdds(u)
  <2>1. Now(u, Added(d)) /\ Opened(u)
    BY <1>3, <1>9 DEF CommitAdds, Called, Opened, Doing
  <2>2. Ready(d)
    BY <1>2, <2>1 DEF Added
  <2>3. Held(d) \subseteq Held(Added(d)) \cup d.over
    BY <1>1, <2>2, AddMoves
  <2>4. t \in d.over /\ d # None
    BY <1>2, <2>1, <2>2, <2>3 DEF Ready
  <2> QED
    BY <2>1, <2>4, OverIsTaken DEF Opened
<1>10. ASSUME NEW x \in Task, Overwrite(u, x)
       PROVE  MayLose(t)
  <2>1. Opened(u) /\ d # None /\ Now(u, Overwritten(d, x))
    BY <1>10 DEF Overwrite, Called, Opened, Doing
  <2>2. disk'[Root[u]] = Overwritten(d, x)
    BY <1>1, <2>1, RootIs DEF Now, DiskInv
  <2>3. Overwritten(d, x) \in Stripped(d)
    BY OverwrittenIs
  <2> QED
    BY <2>1, <2>2, <2>3 DEF MayLose, TakenBy
<1>11. CASE RunCommand(u, tool)
  BY <1>11, CommandLoses
<1> QED
  BY <1>4, <1>5, <1>6, <1>7, <1>8, <1>9, <1>10, <1>11 DEF GitCall

LEMMA CommitEndsKeeps ==
  ASSUME WorkspacesInv, RemoteGrows, CommitEnds, NEW t \in Task, Somewhere(t)
  PROVE  Somewhere(t)'
<1>1. DiskInv /\ committing \in Task
  BY DEF WorkspacesInv, TasksInv, CommitEnds
<1>2. PICK d : d = Here(committing)
  OBVIOUS
<1>3. Sound(d)
  BY <1>1, <1>2, HereIs
<1>4. CASE CommitWorks(d) /\ Now(committing, Committed(d))
  <2>1. Held(d) \subseteq Held(Committed(d))
    BY <1>3, <1>4, CommitMoves
  <2> QED
    BY <1>1, <1>2, <1>4, <2>1, NowKeeps
<1>5. CASE UNCHANGED disk
  BY <1>5, StillKeeps
<1> QED
  BY <1>2, <1>4, <1>5 DEF CommitEnds, Here

\* What has a directory still has it, with its edits, but for name n.
LEMMA PutKeeps ==
  ASSUME DiskInv, RemoteGrows, NEW n \in Name, NEW d, disk' = [disk EXCEPT ![n] = d],
         NEW t \in Task, Somewhere(t), t \in Held(disk[n]) => t \in Held(d)
  PROVE  Somewhere(t)'
<1>1. disk'[n] = d /\ \A k \in Name \ {n} : disk'[k] = disk[k]
  BY DEF DiskInv
<1>2. ASSUME NEW k \in Name, t \in Held(disk[k])
      PROVE  Somewhere(t)'
  <2>1. t \in Held(disk'[k])
    BY <1>1, <1>2
  <2> QED
    BY <2>1, DirectoryHolds
<1> QED
  BY <1>2, RemoteHolds DEF Somewhere

LEMMA ManagerKeeps ==
  ASSUME WorkspacesInv, RemoteGrows, OfManager, NEW t \in Task, Somewhere(t), ~Somewhere(t)'
  PROVE  MayLose(t)
<1>1. disk' # disk
  BY StillKeeps
<1>2. DiskInv /\ ManagerInv /\ remote \in Branches /\ Main \in DOMAIN remote
  BY DEF WorkspacesInv, RemoteInv
<1>3. PICK s \in Slot, n \in Name :
         \/ CreateWorkspace(s, n)
         \/ \E m \in Name : Rename(s, m, n)
         \/ DeleteWorkspace(s, n)
         \/ CloneInto(s) /\ n = waiting[s].name
         \/ CloneOver(s) /\ n = waiting[s].name
  <2>1. \A s \in Slot : Creating(s) => waiting[s].name \in Name
    BY <1>2 DEF ManagerInv, Creating, NoWait
  <2>2. CASE ManagerRequest
    BY <1>1, <2>2 DEF ManagerRequest, Switch
  <2>3. CASE \E s \in Slot : CloneInto(s) \/ CloneOver(s)
    BY <2>1, <2>3 DEF CloneInto, CloneOver, Creating
  <2> QED
    BY <1>1, <2>2, <2>3 DEF OfManager, WriteRecent
<1>4. \A d : disk' = [disk EXCEPT ![n] = d] => t \in Held(disk[n]) /\ t \notin Held(d)
  BY <1>2, PutKeeps
<1>5. ~CreateWorkspace(s, n)
  BY <1>4, HoldsNothing DEF CreateWorkspace
<1>6. ASSUME NEW m \in Name, Rename(s, m, n)
      PROVE  MayLose(t)
  <2>1. disk[m] # None /\ disk'[m] = None
    BY <1>2, <1>6 DEF Rename, DiskInv
  <2> QED
    BY <2>1 DEF MayLose
<1>7. CASE DeleteWorkspace(s, n)
  <2>1. disk[n] # None /\ disk'[n] = None
    BY <1>2, <1>7 DEF DeleteWorkspace, DiskInv
  <2> QED
    BY <2>1 DEF MayLose
<1>8. CASE CloneInto(s) /\ n = waiting[s].name
  BY <1>1, <1>4, <1>8, HoldsNothing DEF CloneInto, Made
<1>9. CASE CloneOver(s) /\ n = waiting[s].name
  <2>1. Sound(disk[n])
    BY <1>2 DEF DiskInv
  <2>2. Partial(disk[n]) => Held(disk[n]) \subseteq Held(Cloned(disk[n].unstaged))
    BY <1>2, <2>1, UnpackKeeps
  <2>3. disk' = [disk EXCEPT ![n] = EmptyDir] /\ waiting[s].row = "unpack"
    BY <1>1, <1>4, <1>9, <2>2 DEF CloneOver, Made
  <2>4. disk'[waiting[s].name] = EmptyDir
    BY <1>2, <1>9, <2>3 DEF DiskInv
  <2> QED
    BY <2>3, <2>4 DEF MayLose, Cleared
<1> QED
  BY <1>3, <1>5, <1>6, <1>7, <1>8, <1>9

LEMMA AllRemoteGrows ==
  ASSUME WorkspacesInv, [Next]_wvars
  PROVE  RemoteGrows \/ \E u \in Task, tool \in BOOLEAN : RunCommand(u, tool)
<1>1. UNCHANGED remote => RemoteGrows
  BY DEF RemoteGrows
<1>2. DiskInv /\ RemoteInv /\ TasksInv /\ ManagerInv
  BY DEF WorkspacesInv
<1>3. CASE OfThreads
  BY <1>1, <1>2, <1>3, ThreadEffect DEF OfThreads, Start
<1>4. CASE OfGit
  <2>1. ASSUME NEW u \in Task, NEW tool \in BOOLEAN, GitCall(u, tool)
        PROVE  RemoteGrows \/ RunCommand(u, tool)
    <3>1. GitPush(u, tool) => RemoteGrows
      BY <1>2, GitPushEffect
    <3> QED
      BY <1>1, <2>1, <3>1 DEF GitCall, GitCheckout, GitFile, GitCommit, Overwrite, CommitAdds, OpenPull, GitBranch
  <2> QED
    BY <1>1, <1>2, <1>4, <2>1, MergeEffect DEF OfGit, CommitEnds
<1>5. CASE OfManager
  BY <1>1, <1>2, <1>5, ManagerMoves, CloneMoves DEF OfManager, ManagerRequest, WriteRecent
<1> QED
  BY <1>1, <1>3, <1>4, <1>5 DEF Next, OfSessions, Crash, TasksCrash, wvars

LEMMA OnlyTheseLose ==
  ASSUME WorkspacesInv, [Next]_wvars, NEW t \in Task, Somewhere(t), ~Somewhere(t)'
  PROVE  MayLose(t)
<1>1. CASE \E u \in Task, tool \in BOOLEAN : RunCommand(u, tool)
  BY <1>1, CommandLoses
<1>2. CASE RemoteGrows
  <2>1. disk' # disk
    BY <1>2, StillKeeps
  <2>2. CASE OfThreads
    <3>1. ASSUME NEW u \in Task, ThreadStep(u) \/ Start(u)
          PROVE  MayLose(t)
      BY <1>2, <3>1, SetupKeeps, RunKeeps DEF ThreadStep
    <3> QED
      BY <2>2, <3>1 DEF OfThreads
  <2>3. CASE OfGit
    BY <1>2, <2>1, <2>3, CommitEndsKeeps, CallKeeps DEF OfGit, MergePull
  <2>4. CASE OfManager
    BY <1>2, <2>4, ManagerKeeps
  <2> QED
    BY <2>1, <2>2, <2>3, <2>4 DEF Next, OfSessions, Crash, TasksCrash, wvars
<1> QED
  BY <1>1, <1>2, AllRemoteGrows

(* No step of any thread or request loses a task's edits, wherever they are,    *)
(* but the deletion of a directory, a clone of a set-up or of the manager that  *)
(* fails and clears it, a clone moved over one, and a discard, a tool or a      *)
(* command that takes just those edits away: the set-up, tools and finalize of  *)
(* agent.py and the git and workspace endpoints of main.py.                     *)
THEOREM WorkStays == Spec => WorkIsKept
<1>1. ASSUME WorkspacesInv, [Next]_wvars
      PROVE  [\A t \in Task : (Somewhere(t) /\ ~Somewhere(t)') => MayLose(t)]_<<disk, remote, task>>
  BY <1>1, OnlyTheseLose
<1> QED
  BY <1>1, WorkspacesCorrect, PTL DEF Spec, WorkIsKept, MayLose
===============================================================================
