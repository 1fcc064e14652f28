-------------------------- MODULE ServerDataProofs --------------------------
(***************************************************************************)
(* Proofs about ServerData, for any users, requests, tokens, repositories, *)
(* backup threads and seconds.  What Backup promises is proved of Backup   *)
(* alone first, and then carried over: for the backups, the requests are   *)
(* a server that writes any tables at any time.                            *)
(***************************************************************************)
EXTENDS ServerData, FiniteSetTheorems, TLAPS


LEMMA NoNameType == NoName \in Name
  BY SecondAssumption DEF NoName, Name

LEMMA IdleJobType == IdleJob \in JobState
  BY NoNameType DEF IdleJob, JobState

LEMMA NoticedType ==
  ASSUME NEW j \in Job, job \in [Job -> JobState]
  PROVE  /\ Noticed(j) \in JobState
         /\ Noticed(j).pc = job[j].pc
         /\ Noticed(j).name = job[j].name
         /\ Noticed(j).doomed = job[j].doomed
         /\ ~Noticed(j).late => ~job[j].late /\ db' = db
  BY DEF Noticed, JobState

------------------------------------------------------------------------------
(* Type correctness *)

LEMMA BeginType ==
  ASSUME BackupTypeOK, NEW j \in Job, NEW safety \in BOOLEAN, NEW chosen \in Name,
         Begin(j, safety, chosen)
  PROVE  BackupTypeOK'
<1> DEFINE n == [at |-> clock, safety |-> safety]
<1>1. n \in Name
  BY DEF BackupTypeOK, Name
<1>2. [IdleJob EXCEPT !.pc = "open", !.name = n, !.chosen = chosen] \in JobState
  BY <1>1, NoNameType DEF IdleJob, JobState
<1>3. job' \in [Job -> JobState] /\ clash' \in BOOLEAN
  BY <1>2 DEF BackupTypeOK, Begin, Taken
<1> QED
  BY <1>3 DEF BackupTypeOK, Begin

LEMMA BackupTypeInit == BackupInit => BackupTypeOK
  BY IdleJobType, SecondAssumption, ContentAssumption DEF BackupInit, DirectoryInit, BackupTypeOK, Image

LEMMA BackupTypeStep ==
  ASSUME BackupTypeOK, [BackupNext]_bvars
  PROVE  BackupTypeOK'
<1> USE DEF BackupTypeOK
<1>1. CASE Write
  BY <1>1, NoticedType DEF Write, Seen, Image
<1>2. CASE Tick
  BY <1>2 DEF Tick
<1>3. ASSUME NEW j \in Job, JobStep(j) PROVE BackupTypeOK'
  <2>1. CASE Create(j)
    BY <2>1, BeginType, NoNameType DEF Create
  <2>2. ASSUME NEW n \in Name, Restore(j, n) PROVE BackupTypeOK'
    BY <2>2, BeginType DEF Restore
  <2>3. CASE Open(j)
    <3>1. [job[j] EXCEPT !.pc = "copy"] \in JobState
      BY DEF JobState
    <3>2. job[j].name \in Name
      BY DEF JobState
    <3> QED
      BY <2>3, <3>1, <3>2 DEF Open, Image
  <2>4. CASE Copy(j)
    <3>1. Copied(j) \in JobState
      BY IdleJobType DEF Copied, JobState
    <3> QED
      BY <2>4, <3>1 DEF Copy
  <2>5. CASE CreateFails(j)
    BY <2>5, IdleJobType DEF CreateFails
  <2>6. CASE Overwrite(j)
    <3>1. job' \in [Job -> JobState]
      BY <2>6, IdleJobType, NoticedType DEF Overwrite
    <3>2. job[j].chosen \in Name
      BY DEF JobState
    <3> QED
      BY <2>6, <3>1, <3>2 DEF Overwrite, Image
  <2>7. CASE List(j)
    <3>1. [IdleJob EXCEPT !.pc = "remove", !.doomed = Surplus] \in JobState
      BY NoNameType DEF IdleJob, JobState, Surplus, Stored
    <3> QED
      BY <2>7, <3>1 DEF List
  <2>8. ASSUME NEW n \in Name, Remove(j, n) PROVE BackupTypeOK'
    <3>1. [job[j] EXCEPT !.doomed = job[j].doomed \ {n}] \in JobState
      BY DEF JobState
    <3> QED
      BY <2>8, <3>1, IdleJobType DEF Remove
  <2>9. CASE Crash(j)
    <3>1. job' \in [Job -> JobState]
      BY <2>9, IdleJobType, NoticedType DEF Crash
    <3> QED
      BY <2>9, <3>1 DEF Crash, Image
  <2> QED
    BY <1>3, <2>1, <2>2, <2>3, <2>4, <2>5, <2>6, <2>7, <2>8, <2>9 DEF JobStep
<1>4. CASE UNCHANGED bvars
  BY <1>4 DEF bvars, directoryVars
<1> QED
  BY <1>1, <1>2, <1>3, <1>4 DEF BackupNext

\* Every reachable state has the types of the variables of backup.py's directory
\* and of the calls of its manager.
THEOREM BackupTypeCorrect == BackupSpec => []BackupTypeOK
<1>1. BackupInit => BackupTypeOK
  BY BackupTypeInit
<1>2. BackupTypeOK /\ [BackupNext]_bvars => BackupTypeOK'
  BY BackupTypeStep
<1> QED
  BY <1>1, <1>2, PTL DEF BackupSpec

------------------------------------------------------------------------------
(* A restore keeps what it overwrites *)

\* The calls that rely on the file they named.
Relying(j) == job[j].pc \in {"open", "copy", "restore"}

\* No two such calls have one name, so that none writes the file of another.
NamesDistinct ==
  \A i, j \in Job : (Relying(i) /\ Relying(j) /\ job[i].name = job[j].name) => i = j

SafetyInv == BackupTypeOK /\ (clash \/ NamesDistinct) /\ RestoreIsSafe

\* The calls whose step leaves every file alone, and changes the database only
\* as every other call notices.
LEMMA Bystanders ==
  ASSUME SafetyInv, files' = files, clash' = clash,
         \A i \in Job : job'[i] = Noticed(i) \/ ~Relying(i)'
  PROVE  (clash' \/ NamesDistinct') /\ RestoreIsSafe'
<1> USE DEF SafetyInv
<1>1. \A i \in Job : Relying(i)' => /\ Relying(i)
                                    /\ job'[i].name = job[i].name
                                    /\ job'[i].pc = job[i].pc
                                    /\ ~job'[i].late => ~job[i].late /\ db' = db
  BY NoticedType DEF Relying, BackupTypeOK
<1>2. clash' \/ NamesDistinct'
  BY <1>1 DEF NamesDistinct
<1>3. RestoreIsSafe'
  <2> SUFFICES ASSUME NEW i \in Job, At(i, "restore")', ~job'[i].late, ~clash'
               PROVE  files'[job'[i].name] \in {db', NoFile}
    BY DEF RestoreIsSafe
  <2>1. Relying(i)'
    BY DEF At, Relying
  <2> QED
    BY <1>1, <2>1 DEF At, RestoreIsSafe
<1> QED
  BY <1>2, <1>3

\* A creation or the unlink of one file by a call that relies on it: no other
\* call relies on that file.
LEMMA OwnFile ==
  ASSUME SafetyInv, NEW j \in Job, Relying(j), NEW image,
         files' = [files EXCEPT ![job[j].name] = image],
         db' = db, clash' = clash,
         \A i \in Job \ {j} : job'[i] = job[i],
         Relying(j)' => job'[j].name = job[j].name,
         At(j, "restore")' => image \in {db, NoFile}
  PROVE  (clash' \/ NamesDistinct') /\ RestoreIsSafe'
<1> USE DEF SafetyInv
<1>1. clash' \/ NamesDistinct'
  BY DEF NamesDistinct, Relying
<1>2. RestoreIsSafe'
  <2> SUFFICES ASSUME NEW i \in Job, At(i, "restore")', ~job'[i].late, ~clash'
               PROVE  files'[job'[i].name] \in {db', NoFile}
    BY DEF RestoreIsSafe
  <2>1. job[j].name \in Name
    BY DEF BackupTypeOK, JobState
  <2>2. CASE i = j
    BY <2>1, <2>2 DEF At, Relying, BackupTypeOK
  <2>3. CASE i # j
    <3>1. Relying(i) /\ job[i].name # job[j].name
      BY <2>3 DEF At, Relying, NamesDistinct
    <3> QED
      BY <2>1, <2>3, <3>1 DEF At, RestoreIsSafe, BackupTypeOK
  <2> QED
    BY <2>2, <2>3
<1> QED
  BY <1>1, <1>2

LEMMA BeginSafe ==
  ASSUME SafetyInv, NEW j \in Job, NEW safety \in BOOLEAN, NEW chosen \in Name,
         Begin(j, safety, chosen)
  PROVE  (clash' \/ NamesDistinct') /\ RestoreIsSafe'
<1> DEFINE n == [at |-> clock, safety |-> safety]
<1> USE DEF SafetyInv
<1>1. /\ job'[j].name = n /\ job'[j].pc = "open"
      /\ \A i \in Job \ {j} : job'[i] = job[i]
  BY DEF Begin, BackupTypeOK, IdleJob
<1>2. clash' = (clash \/ Taken(n)) /\ files' = files /\ db' = db
  BY DEF Begin
<1>3. clash' \/ NamesDistinct'
  <2> SUFFICES ASSUME ~clash' PROVE NamesDistinct'
    OBVIOUS
  <2>1. NamesDistinct /\ ~Taken(n)
    BY <1>2
  <2>2. \A i \in Job : Relying(i) => job[i].name # n
    BY <2>1 DEF Taken, Relying
  <2> HIDE DEF n
  <2>3. \A i \in Job \ {j} : (Relying(i)' <=> Relying(i)) /\ job'[i].name = job[i].name
    BY <1>1 DEF Relying
  <2> QED
    BY <1>1, <2>1, <2>2, <2>3 DEF NamesDistinct
<1>4. RestoreIsSafe'
  BY <1>1, <1>2 DEF RestoreIsSafe, At
<1> QED
  BY <1>3, <1>4

\* Whatever restore_backup is about to overwrite is in its safety backup unless
\* the database changed since, another call took the name in the same second or
\* cleanup removed the file: for every interleaving of any number of calls.
THEOREM RestoreSafety == BackupSpec => []RestoreIsSafe
<1>1. BackupInit => SafetyInv
  <2> SUFFICES ASSUME BackupInit PROVE SafetyInv
    OBVIOUS
  <2>1. BackupTypeOK
    BY BackupTypeInit
  <2>2. \A j \in Job : job[j].pc = "idle"
    BY DEF BackupInit, DirectoryInit, IdleJob
  <2> QED
    BY <2>1, <2>2 DEF SafetyInv, NamesDistinct, Relying, RestoreIsSafe, At
<1>2. SafetyInv /\ BackupTypeOK' /\ [BackupNext]_bvars => SafetyInv'
  <2> SUFFICES ASSUME SafetyInv, BackupTypeOK', [BackupNext]_bvars
               PROVE  (clash' \/ NamesDistinct') /\ RestoreIsSafe'
    BY DEF SafetyInv
  <2>1. CASE Write
    <3>1. files' = files /\ clash' = clash /\ \A i \in Job : job'[i] = Noticed(i)
      BY <2>1 DEF Write, Seen
    <3> QED
      BY <3>1, Bystanders
  <2>2. CASE Tick
    BY <2>2 DEF Tick, SafetyInv, NamesDistinct, Relying, RestoreIsSafe, At
  <2>3. ASSUME NEW j \in Job, JobStep(j) PROVE (clash' \/ NamesDistinct') /\ RestoreIsSafe'
    <3> USE DEF SafetyInv
    <3>1. CASE Create(j)
      BY <3>1, BeginSafe, NoNameType DEF Create
    <3>2. ASSUME NEW n \in Name, Restore(j, n)
          PROVE  (clash' \/ NamesDistinct') /\ RestoreIsSafe'
      BY <3>2, BeginSafe DEF Restore
    <3>3. CASE Open(j)
      <4> DEFINE image == IF files[job[j].name] = NoFile THEN Empty ELSE files[job[j].name]
      <4>1. /\ Relying(j) /\ db' = db /\ clash' = clash
            /\ files' = [files EXCEPT ![job[j].name] = image]
        BY <3>3 DEF Open, At, Relying
      <4>2. /\ \A i \in Job \ {j} : job'[i] = job[i]
            /\ job'[j].name = job[j].name /\ job'[j].pc = "copy"
        BY <3>3 DEF Open, BackupTypeOK, JobState
      <4>3. ~At(j, "restore")'
        BY <4>2 DEF At
      <4> QED
        BY <4>1, <4>2, <4>3, OwnFile
    <3>4. CASE Copy(j)
      <4>1. /\ Relying(j) /\ db' = db /\ clash' = clash
            /\ files' = [files EXCEPT ![job[j].name] = db]
        BY <3>4 DEF Copy, At, Relying
      <4>2. \A i \in Job \ {j} : job'[i] = job[i]
        BY <3>4 DEF Copy, BackupTypeOK
      <4>3. Relying(j)' => job'[j].name = job[j].name
        BY <3>4 DEF Copy, Copied, BackupTypeOK, JobState, IdleJob, Relying
      <4> QED
        BY <4>1, <4>2, <4>3, OwnFile
    <3>5. CASE CreateFails(j)
      <4>1. /\ Relying(j) /\ db' = db /\ clash' = clash
            /\ files' = [files EXCEPT ![job[j].name] = NoFile]
        BY <3>5 DEF CreateFails, At, Relying
      <4>2. (\A i \in Job \ {j} : job'[i] = job[i]) /\ ~Relying(j)'
        BY <3>5 DEF CreateFails, BackupTypeOK, IdleJob, Relying
      <4> QED
        BY <4>1, <4>2, OwnFile
    <3>6. CASE Overwrite(j)
      <4>1. /\ files' = files /\ clash' = clash
            /\ \A i \in Job : job'[i] = Noticed(i) \/ ~Relying(i)'
        BY <3>6 DEF Overwrite, Relying, IdleJob
      <4> QED
        BY <4>1, Bystanders
    <3>7. CASE List(j)
      <4>1. /\ files' = files /\ clash' = clash /\ db' = db /\ ~Relying(j)'
            /\ \A i \in Job \ {j} : job'[i] = job[i]
        BY <3>7 DEF List, BackupTypeOK, Relying, IdleJob
      <4> QED
        BY <4>1 DEF NamesDistinct, RestoreIsSafe, At, Relying
    <3>8. ASSUME NEW n \in Name, Remove(j, n)
          PROVE  (clash' \/ NamesDistinct') /\ RestoreIsSafe'
      <4>1. /\ clash' = clash /\ db' = db
            /\ files' \in {files, [files EXCEPT ![n] = NoFile]}
        BY <3>8 DEF Remove
      <4>2. ~Relying(j)' /\ \A i \in Job \ {j} : job'[i] = job[i]
        BY <3>8 DEF Remove, BackupTypeOK, JobState, IdleJob, Relying, At
      <4>3. \A m \in Name : files'[m] \in {files[m], NoFile}
        BY <4>1 DEF BackupTypeOK
      <4>4. \A i \in Job : job[i].name \in Name
        BY DEF BackupTypeOK, JobState
      <4>5. clash' \/ NamesDistinct'
        BY <4>1, <4>2 DEF NamesDistinct, Relying
      <4>6. RestoreIsSafe'
        <5> SUFFICES ASSUME NEW i \in Job, At(i, "restore")', ~job'[i].late, ~clash'
                     PROVE  files'[job'[i].name] \in {db', NoFile}
          BY DEF RestoreIsSafe
        <5>1. i # j
          BY <4>2 DEF At, Relying
        <5>2. files[job[i].name] \in {db, NoFile}
          BY <4>1, <4>2, <5>1 DEF RestoreIsSafe, At
        <5> QED
          BY <4>1, <4>2, <4>3, <4>4, <5>1, <5>2
      <4> QED
        BY <4>5, <4>6
    <3>9. CASE Crash(j)
      <4>1. /\ files' = files /\ clash' = clash
            /\ \A i \in Job : job'[i] = Noticed(i) \/ ~Relying(i)'
        BY <3>9 DEF Crash, Relying, IdleJob
      <4> QED
        BY <4>1, Bystanders
    <3> QED
      BY <2>3, <3>1, <3>2, <3>3, <3>4, <3>5, <3>6, <3>7, <3>8, <3>9 DEF JobStep
  <2>4. CASE UNCHANGED bvars
    BY <2>4 DEF bvars, directoryVars, SafetyInv, NamesDistinct, Relying, RestoreIsSafe, At
  <2> QED
    BY <2>1, <2>2, <2>3, <2>4 DEF BackupNext
<1>3. SafetyInv => RestoreIsSafe
  BY DEF SafetyInv
<1> QED
  BY <1>1, <1>2, <1>3, BackupTypeCorrect, PTL DEF BackupSpec

------------------------------------------------------------------------------
(* Rotation keeps the newest *)

LEMMA OlderOrder ==
  ASSUME NEW l \in Name, NEW m \in Name, NEW n \in Name
  PROVE  /\ ~Older(m, m)
         /\ Older(l, m) /\ Older(m, n) => Older(l, n)
<1>1. l.at \in Nat /\ m.at \in Nat /\ n.at \in Nat
  BY SecondAssumption DEF Name
<1>2. m.at < m.at => FALSE
  BY <1>1
<1>3. ~Older(m, m)
  BY <1>2, Zenon DEF Older
<1>4. ASSUME Older(l, m), Older(m, n) PROVE Older(l, n)
  <2>1. l.at = m.at /\ m.at = n.at => FALSE
    <3>1. l.at = m.at => ~(l.at < m.at)
      BY <1>1
    <3>2. m.at = n.at => ~(m.at < n.at)
      BY <1>1
    <3> QED
      BY <1>4, <3>1, <3>2, Zenon DEF Older
  <2>2. (l.at < m.at \/ l.at = m.at) /\ (m.at < n.at \/ m.at = n.at)
    BY <1>4, Zenon DEF Older
  <2>3. l.at < n.at
    BY <1>1, <2>1, <2>2
  <2> QED
    BY <2>3, Zenon DEF Older
<1> QED
  BY <1>3, <1>4

RotationInv == BackupTypeOK /\ IsFiniteSet(Stored) /\ RotationKeepsNewest

\* A larger set of newer files is enough as well.
LEMMA MoreNewer ==
  ASSUME NEW S, NEW T, IsFiniteSet(T), S \subseteq T, Cardinality(S) >= Keep
  PROVE  Cardinality(T) >= Keep
<1>1. IsFiniteSet(S) /\ Cardinality(S) <= Cardinality(T)
  BY FS_Subset
<1>2. Cardinality(S) \in Nat /\ Cardinality(T) \in Nat
  BY <1>1, FS_CardinalityType
<1> QED
  BY <1>1, <1>2, KeepAssumption

\* The file a creation opens or fills joins the others.
LEMMA FileAdded ==
  ASSUME RotationInv, NEW n \in Name, NEW image, image # NoFile,
         files' = [files EXCEPT ![n] = image], failed' = failed,
         \A j \in Job : job'[j].doomed \subseteq job[j].doomed
  PROVE  IsFiniteSet(Stored') /\ RotationKeepsNewest'
<1> USE DEF RotationInv
<1>1. Stored' = Stored \cup {n}
  BY DEF Stored, BackupTypeOK
<1>2. IsFiniteSet(Stored')
  BY <1>1, FS_AddElement
<1>3. ASSUME NEW m PROVE Newer(m) \subseteq Newer(m)' /\ IsFiniteSet(Newer(m)')
  <2>1. Newer(m)' \subseteq Stored' /\ Newer(m) \subseteq Newer(m)'
    BY <1>1 DEF Newer
  <2> QED
    BY <1>2, <2>1, FS_Subset
<1>4. ASSUME ~failed', NEW j \in Job, NEW m \in job'[j].doomed
      PROVE  Cardinality(Newer(m)') >= Keep
  <2>1. Cardinality(Newer(m)) >= Keep
    BY <1>4 DEF RotationKeepsNewest
  <2> QED
    BY <1>3, <2>1, MoreNewer
<1> QED
  BY <1>2, <1>4 DEF RotationKeepsNewest

\* The files and what cleanups have still to remove stay.
LEMMA FilesKept ==
  ASSUME RotationInv, files' = files, failed' = failed,
         \A j \in Job : job'[j].doomed \subseteq job[j].doomed
  PROVE  IsFiniteSet(Stored') /\ RotationKeepsNewest'
<1>1. Stored' = Stored /\ \A n : Newer(n)' = Newer(n)
  BY DEF Stored, Newer
<1> QED
  BY <1>1 DEF RotationInv, RotationKeepsNewest

LEMMA FileRemoved ==
  ASSUME RotationInv, NEW j \in Job, NEW n \in Name, Remove(j, n)
  PROVE  IsFiniteSet(Stored') /\ RotationKeepsNewest'
<1> USE DEF RotationInv
<1>1. /\ failed' = failed /\ n \in job[j].doomed
      /\ \A i \in Job : job'[i].doomed \subseteq job[i].doomed
  BY DEF Remove, BackupTypeOK, JobState, IdleJob
<1>2. CASE files' = files
  BY <1>1, <1>2, FilesKept
<1>3. CASE files' = [files EXCEPT ![n] = NoFile]
  <2>1. Stored' = Stored \ {n}
    BY <1>3 DEF Stored, BackupTypeOK
  <2>2. IsFiniteSet(Stored')
    BY <2>1, FS_Subset
  <2>3. ASSUME ~failed', NEW i \in Job, NEW m \in job'[i].doomed
        PROVE  Cardinality(Newer(m)') >= Keep
    <3>1. m \in Name /\ job[i].doomed \subseteq Name
      BY <1>1, <2>3 DEF BackupTypeOK, JobState
    <3>2. Cardinality(Newer(m)) >= Keep /\ Cardinality(Newer(n)) >= Keep
      BY <1>1, <2>3 DEF RotationKeepsNewest
    <3>3. Newer(m)' = Newer(m) \ {n}
      BY <2>1 DEF Newer
    <3>4. IsFiniteSet(Newer(m)')
      <4>1. Newer(m)' \subseteq Stored'
        BY DEF Newer
      <4> QED
        BY <2>2, <4>1, FS_Subset
    <3>5. CASE n \notin Newer(m)
      BY <3>2, <3>3, <3>5
    <3>6. CASE n \in Newer(m)
      <4>1. Newer(n) \subseteq Newer(m)'
        <5> SUFFICES ASSUME NEW l \in Newer(n) PROVE l \in Newer(m) /\ l # n
          BY <3>3
        <5>1. l \in Name /\ l \in Stored /\ Older(n, l) /\ Older(m, n)
          BY <3>6 DEF Newer, Stored
        <5> QED
          BY <3>1, <5>1, OlderOrder DEF Newer
      <4> QED
        BY <3>2, <3>4, <4>1, MoreNewer
    <3> QED
      BY <3>5, <3>6
  <2> QED
    BY <2>2, <2>3 DEF RotationKeepsNewest
<1> QED
  BY <1>2, <1>3 DEF Remove

\* Rotation takes a file away only when Keep newer ones are there, whatever
\* creations, restores and other cleanups did since it listed the directory,
\* as long as no creation failed.
THEOREM RotationSafety == BackupSpec => []RotationKeepsNewest
<1>1. BackupInit => RotationInv
  <2> SUFFICES ASSUME BackupInit PROVE RotationInv
    OBVIOUS
  <2>1. BackupTypeOK
    BY BackupTypeInit
  <2>2. Stored = {}
    BY DEF BackupInit, DirectoryInit, Stored
  <2>3. \A j \in Job : job[j].doomed = {}
    BY DEF BackupInit, DirectoryInit, IdleJob
  <2> QED
    BY <2>1, <2>2, <2>3, FS_EmptySet DEF RotationInv, RotationKeepsNewest
<1>2. RotationInv /\ BackupTypeOK' /\ [BackupNext]_bvars => RotationInv'
  <2> SUFFICES ASSUME RotationInv, BackupTypeOK', [BackupNext]_bvars
               PROVE  IsFiniteSet(Stored') /\ RotationKeepsNewest'
    BY DEF RotationInv
  <2> USE DEF RotationInv
  <2>1. CASE Write
    BY <2>1, FilesKept, NoticedType DEF Write, Seen, BackupTypeOK
  <2>2. CASE Tick
    BY <2>2, FilesKept DEF Tick
  <2>3. ASSUME NEW j \in Job, JobStep(j) PROVE IsFiniteSet(Stored') /\ RotationKeepsNewest'
    <3>0. job[j].name \in Name
      BY DEF BackupTypeOK, JobState
    <3>1. ASSUME NEW safety \in BOOLEAN, NEW chosen \in Name, Begin(j, safety, chosen)
          PROVE  IsFiniteSet(Stored') /\ RotationKeepsNewest'
      <4>1. \A i \in Job : job'[i].doomed \subseteq job[i].doomed
        BY <3>1 DEF Begin, BackupTypeOK, IdleJob
      <4> QED
        BY <3>1, <4>1, FilesKept DEF Begin
    <3>2. CASE Open(j)
      <4> DEFINE image == IF files[job[j].name] = NoFile THEN Empty ELSE files[job[j].name]
      <4>1. files' = [files EXCEPT ![job[j].name] = image] /\ image # NoFile /\ failed' = failed
        BY <3>2, ContentAssumption DEF Open
      <4>2. \A i \in Job : job'[i].doomed \subseteq job[i].doomed
        BY <3>2 DEF Open, BackupTypeOK, JobState
      <4> QED
        BY <3>0, <4>1, <4>2, FileAdded
    <3>3. CASE Copy(j)
      <4>1. db # NoFile
        BY ContentAssumption DEF BackupTypeOK, Image
      <4>2. \A i \in Job : job'[i].doomed \subseteq job[i].doomed
        BY <3>3 DEF Copy, Copied, BackupTypeOK, JobState, IdleJob
      <4> QED
        BY <3>0, <3>3, <4>1, <4>2, FileAdded DEF Copy
    <3>4. CASE CreateFails(j)
      <4>1. \A i \in Job : job'[i].doomed \subseteq job[i].doomed
        BY <3>4 DEF CreateFails, BackupTypeOK, IdleJob
      <4>2. CASE files[job[j].name] = NoFile
        <5>1. files' = files /\ failed' = failed
          BY <3>0, <3>4, <4>2 DEF CreateFails, BackupTypeOK
        <5> QED
          BY <4>1, <5>1, FilesKept
      <4>3. CASE files[job[j].name] # NoFile
        <5>1. failed' /\ Stored' \subseteq Stored
          BY <3>0, <3>4, <4>3 DEF CreateFails, BackupTypeOK, Stored
        <5> QED
          BY <5>1, FS_Subset DEF RotationKeepsNewest
      <4> QED
        BY <4>2, <4>3
    <3>5. CASE Overwrite(j)
      <4>1. \A i \in Job : job'[i].doomed \subseteq job[i].doomed
        BY <3>5, NoticedType DEF Overwrite, BackupTypeOK, IdleJob
      <4> QED
        BY <3>5, <4>1, FilesKept DEF Overwrite
    <3>6. CASE List(j)
      <4>1. /\ files' = files /\ failed' = failed /\ job'[j].doomed = Surplus
            /\ \A i \in Job \ {j} : job'[i] = job[i]
        BY <3>6 DEF List, BackupTypeOK, IdleJob
      <4>2. Stored' = Stored /\ \A n : Newer(n)' = Newer(n)
        BY <4>1 DEF Stored, Newer
      <4>3. \A n \in Surplus : Cardinality(Newer(n)) >= Keep
        BY DEF Surplus
      <4> QED
        BY <4>1, <4>2, <4>3 DEF RotationKeepsNewest
    <3>7. ASSUME NEW n \in Name, Remove(j, n) PROVE IsFiniteSet(Stored') /\ RotationKeepsNewest'
      BY <3>7, FileRemoved
    <3>8. CASE Crash(j)
      <4>1. \A i \in Job : job'[i].doomed \subseteq job[i].doomed
        BY <3>8, NoticedType DEF Crash, BackupTypeOK, IdleJob
      <4> QED
        BY <3>8, <4>1, FilesKept DEF Crash
    <3> QED
      BY <2>3, <3>1, <3>2, <3>3, <3>4, <3>5, <3>6, <3>7, <3>8, NoNameType
      DEF JobStep, Create, Restore
  <2>4. CASE UNCHANGED bvars
    BY <2>4, FilesKept DEF bvars, directoryVars
  <2> QED
    BY <2>1, <2>2, <2>3, <2>4 DEF BackupNext
<1>3. RotationInv => RotationKeepsNewest
  BY DEF RotationInv
<1> QED
  BY <1>1, <1>2, <1>3, BackupTypeCorrect, PTL DEF BackupSpec

------------------------------------------------------------------------------
(* The tables and the requests *)


\* A preference of database d, or what the configuration says without one.
Pref(d, u, k) == IF k \in DOMAIN d.prefs[u] THEN d.prefs[u][k] ELSE Default[k]

LEMMA PrefRowsAre ==
  ASSUME NEW f
  PROVE  f \in PrefRows <=> DOMAIN f \subseteq PrefKey /\ f \in [DOMAIN f -> PrefValue]
  BY DEF PrefRows

LEMMA PrefType ==
  ASSUME NEW d \in Tables, NEW u \in User, NEW k \in PrefKey
  PROVE  Pref(d, u, k) \in PrefValue
<1>1. Default[k] \in PrefValue
  BY AccountsAssumption DEF Default, PrefKey, PrefValue
<1>2. d.prefs[u] \in PrefRows
  BY DEF Tables
<1> QED
  BY <1>1, <1>2, PrefRowsAre DEF Pref

LEMMA PrefsArePref ==
  ASSUME NEW u, NEW k \in PrefKey
  PROVE  Prefs(u, FALSE)[k] = Pref(db, u, k)
  BY DEF Prefs, Pref

\* A database that can be read has tables; a read of another one fails.
LEMMA FailsType ==
  ASSUME db \in Tables \cup {Torn}, NEW fails \in Fails
  PROVE  fails \in BOOLEAN /\ (~fails => db \in Tables)
  BY DEF Fails, Readable

LEMMA PrefsType ==
  ASSUME db \in Tables \cup {Torn}, NEW u \in User, NEW fails \in Fails
  PROVE  /\ \A k \in PrefKey : Prefs(u, fails)[k] \in PrefValue
         /\ Preferred(u, fails) = IF fails THEN ServerProvider ELSE Pref(db, u, "ai_provider")
         /\ Preferred(u, fails) \in PrefValue
<1>1. "ai_provider" \in PrefKey
  BY DEF PrefKey
<1>2. CASE fails
  <2>1. \A k \in PrefKey : Prefs(u, fails)[k] = Default[k] /\ Default[k] \in PrefValue
    BY <1>2, AccountsAssumption DEF Prefs, Default, PrefKey, PrefValue
  <2>2. Default["ai_provider"] = ServerProvider
    BY DEF Default
  <2> QED
    BY <1>1, <1>2, <2>1, <2>2 DEF Preferred
<1>3. CASE ~fails
  <2>1. db \in Tables
    BY <1>3, FailsType
  <2>2. \A k \in PrefKey : Prefs(u, fails)[k] = Pref(db, u, k)
    BY <1>3 DEF Prefs, Pref
  <2> QED
    BY <1>1, <1>3, <2>1, <2>2, PrefType DEF Preferred
<1> QED
  BY <1>2, <1>3

LEMMA OpenedType ==
  ASSUME NEW row \in SecretRow
  PROVE  Opened(row) \in Kind \cup Token \cup {None}
  BY DEF SecretRow, SealedRow, Opened

LEMMA SecretType ==
  ASSUME db \in Tables \cup {Torn}, NEW u \in User, NEW k \in Kind, NEW fails \in Fails
  PROVE  Secret(u, k, fails) \in Kind \cup Token \cup {None}
<1>1. CASE fails
  BY <1>1 DEF Secret
<1>2. CASE ~fails
  <2>1. db.secrets[u][k] \in SecretRow
    BY <1>2, FailsType DEF Tables
  <2> QED
    BY <1>2, <2>1, OpenedType DEF Secret
<1> QED
  BY <1>1, <1>2

LEMMA IdleCallType ==
  IdleCall \in CallState /\ IdleCall.pc = "idle" /\ IdleCall.update = NoRows
<1>1. NoRows \in PrefRows
  BY PrefRowsAre DEF NoRows
<1>2. NoBuild \in Build
  BY DEF NoBuild, Build, PrefValue
<1> QED
  BY <1>1, <1>2 DEF IdleCall, CallState

\* A call in the middle of update_settings_for_user has an update, and no other has.
Writing(r) == r.pc \in {"read", "write"}

Shape(r) ==
  /\ r.pc # "idle" => r.user \in User
  /\ IF Writing(r)
     THEN DOMAIN r.update = {"ai_provider"} \/ {"github_login", "github_owner"} \subseteq DOMAIN r.update
     ELSE r.update = NoRows

\* Noted adds to the histories and leaves the rest of every call.
LEMMA NotedCalls ==
  ASSUME NEW calls \in [Call -> CallState], NEW c \in Call, Shape(calls[c]),
         db' \in Tables \cup {Torn}
  PROVE  LET r == calls[c]
             s == Noted(calls)[c]
         IN  /\ s \in CallState
             /\ s.pc = r.pc /\ s.user = r.user /\ s.update = r.update
             /\ s.task = r.task /\ s.built = r.built /\ s.alone = r.alone
             /\ r.providers \subseteq s.providers /\ r.tokens \subseteq s.tokens
             /\ Building(r) /\ db' # Torn =>
                  db'.chosen[r.user] \in s.providers /\ Opened(db'.linked[r.user]) \in s.tokens
<1> DEFINE r == calls[c]
<1> DEFINE more == [r EXCEPT !.providers = @ \cup {db'.chosen[r.user]},
                             !.tokens = @ \cup {Opened(db'.linked[r.user])}]
<1>1. r \in CallState
  OBVIOUS
<1>2. Noted(calls)[c] = IF Building(r) /\ db' # Torn THEN more ELSE r
  BY DEF Noted
<1>3. CASE ~(Building(r) /\ db' # Torn)
  BY <1>1, <1>2, <1>3
<1>4. CASE Building(r) /\ db' # Torn
  <2>1. r.user \in User
    BY <1>4 DEF Shape, Building
  <2>2. db'.chosen[r.user] \in PrefValue /\ db'.linked[r.user] \in SecretRow
    BY <1>4, <2>1 DEF Tables
  <2>3. Opened(db'.linked[r.user]) \in Kind \cup Token \cup {None}
    BY <2>2, OpenedType
  <2> HIDE DEF r
  <2>4. more \in CallState
    BY <1>1, <2>2, <2>3 DEF CallState
  <2>5. /\ more.pc = r.pc /\ more.user = r.user /\ more.update = r.update
        /\ more.task = r.task /\ more.built = r.built /\ more.alone = r.alone
        /\ more.providers = r.providers \cup {db'.chosen[r.user]}
        /\ more.tokens = r.tokens \cup {Opened(db'.linked[r.user])}
    BY <1>1 DEF CallState
  <2> HIDE DEF more
  <2> QED
    BY <1>2, <1>4, <2>4, <2>5 DEF r
<1> QED
  BY <1>3, <1>4

LEMMA EmptyTablesType == EmptyTables \in Tables
<1>1. NoRows \in PrefRows
  BY PrefRowsAre DEF NoRows
<1>2. ServerProvider \in PrefValue /\ ServerOwner \in PrefValue
  BY AccountsAssumption DEF PrefValue
<1> QED
  BY <1>1, <1>2 DEF EmptyTables, Tables, SecretRow

Sound(calls) == calls \in [Call -> CallState] /\ \A c \in Call : Shape(calls[c])

Types == ProcessTypeOK /\ BackupTypeOK /\ Sound(call)

LEMMA ImageType ==
  ASSUME Types
  PROVE  db \in Tables \cup {Torn} /\ (Readable => db \in Tables)
  BY EmptyTablesType, ServerDataAssumption DEF Types, BackupTypeOK, Image, Readable

LEMMA SealedType ==
  ASSUME Types, NEW v \in Kind \cup Token
  PROVE  Sealed(v) \in SealedRow /\ Sealed(v) \in SecretRow /\ Sealed(v).value = v
  BY DEF Types, ProcessTypeOK, Sealed, SealedRow, SecretRow

\* What SetKey does to the tables.
LEMMA KeyRow ==
  ASSUME db \in Tables, NEW u \in User, NEW k \in Kind, NEW row \in SecretRow,
         db' = [db EXCEPT !.secrets[u][k] = row]
  PROVE  /\ db' \in Tables
         /\ db'.prefs = db.prefs /\ db'.chosen = db.chosen
         /\ db'.linked = db.linked /\ db'.bound = db.bound /\ db'.torn = db.torn
         /\ \A v \in User, i \in Kind : i # k => db'.secrets[v][i] = db.secrets[v][i]
<1> DEFINE table == [db.secrets EXCEPT ![u] = [@ EXCEPT ![k] = row]]
<1>1. db.secrets \in [User -> [Kind -> SecretRow]]
  BY DEF Tables
<1>2. db.secrets[u] \in [Kind -> SecretRow]
  BY <1>1
<1>3. table \in [User -> [Kind -> SecretRow]]
  BY <1>1, <1>2
<1>4. \A v \in User, i \in Kind : i # k => table[v][i] = db.secrets[v][i]
  BY <1>1, <1>2
<1>5. db' = [db EXCEPT !.secrets = table]
  OBVIOUS
<1> HIDE DEF table
<1>6. /\ db' \in Tables /\ db'.secrets = table
      /\ db'.prefs = db.prefs /\ db'.chosen = db.chosen
      /\ db'.linked = db.linked /\ db'.bound = db.bound /\ db'.torn = db.torn
  BY <1>3, <1>5 DEF Tables
<1> QED
  BY <1>4, <1>6

\* What Link does to the tables.
LEMMA TokenRow ==
  ASSUME db \in Tables, NEW u \in User, NEW row \in SecretRow,
         NEW owner \in PrefValue,
         db' = [db EXCEPT !.secrets[u]["github_token"] = row, !.linked[u] = row,
                          !.bound[u] = owner, !.torn[u] = TRUE]
  PROVE  /\ db' \in Tables
         /\ db'.prefs = db.prefs /\ db'.chosen = db.chosen
         /\ db'.linked[u] = row /\ db'.bound[u] = owner /\ db'.torn[u] = TRUE
         /\ db'.secrets[u]["github_token"] = row
         /\ \A v \in User \ {u} : /\ db'.secrets[v] = db.secrets[v] /\ db'.bound[v] = db.bound[v]
                                  /\ db'.linked[v] = db.linked[v] /\ db'.torn[v] = db.torn[v]
<1> DEFINE table == [db.secrets EXCEPT ![u] = [@ EXCEPT !["github_token"] = row]]
           links == [db.linked EXCEPT ![u] = row]
           binds == [db.bound EXCEPT ![u] = owner]
           tears == [db.torn EXCEPT ![u] = TRUE]
<1>1. db.secrets \in [User -> [Kind -> SecretRow]]
  BY DEF Tables
<1>2. db.secrets[u] \in [Kind -> SecretRow] /\ "github_token" \in Kind
  BY <1>1 DEF Kind
<1>3. /\ table \in [User -> [Kind -> SecretRow]]
      /\ table[u]["github_token"] = row
      /\ \A v \in User \ {u} : table[v] = db.secrets[v]
  BY <1>1, <1>2
<1>4. /\ links \in [User -> SecretRow] /\ links[u] = row
      /\ \A v \in User \ {u} : links[v] = db.linked[v]
  BY DEF Tables
<1>5. /\ tears \in [User -> BOOLEAN] /\ tears[u] = TRUE
      /\ \A v \in User \ {u} : tears[v] = db.torn[v]
  BY DEF Tables
<1>6. /\ binds \in [User -> PrefValue] /\ binds[u] = owner
      /\ \A v \in User \ {u} : binds[v] = db.bound[v]
  BY DEF Tables
<1>7. db' = [db EXCEPT !.secrets = table, !.linked = links, !.bound = binds, !.torn = tears]
  OBVIOUS
<1> HIDE DEF table, links, binds, tears
<1>8. /\ db' \in Tables /\ db'.prefs = db.prefs /\ db'.chosen = db.chosen
      /\ db'.secrets = table /\ db'.linked = links /\ db'.bound = binds /\ db'.torn = tears
  BY <1>3, <1>4, <1>5, <1>6, <1>7 DEF Tables
<1> QED
  BY <1>3, <1>4, <1>5, <1>6, <1>8

LEMMA UpsertType ==
  ASSUME NEW rows \in PrefRows, NEW update \in PrefRows
  PROVE  /\ Upsert(rows, update) \in PrefRows
         /\ DOMAIN Upsert(rows, update) = DOMAIN rows \cup DOMAIN update
         /\ \A k \in DOMAIN update : Upsert(rows, update)[k] = update[k]
         /\ \A k \in DOMAIN rows \ DOMAIN update : Upsert(rows, update)[k] = rows[k]
<1> DEFINE rs == Upsert(rows, update)
<1>1. /\ DOMAIN rows \subseteq PrefKey /\ rows \in [DOMAIN rows -> PrefValue]
      /\ DOMAIN update \subseteq PrefKey /\ update \in [DOMAIN update -> PrefValue]
  BY PrefRowsAre
<1>2. rs \in [DOMAIN rows \cup DOMAIN update -> PrefValue]
  BY <1>1 DEF Upsert
<1>3. DOMAIN rs = DOMAIN rows \cup DOMAIN update
  BY DEF Upsert
<1>4. rs \in PrefRows
  BY <1>1, <1>2, <1>3, PrefRowsAre
<1> QED
  BY <1>3, <1>4 DEF Upsert

\* What WritePrefs does to the tables.
LEMMA PrefsRow ==
  ASSUME db \in Tables, NEW u \in User, NEW update \in PrefRows, NEW tear \in BOOLEAN,
         db' = [db EXCEPT
                  !.prefs[u] = Upsert(@, update),
                  !.chosen[u] = IF "ai_provider" \in DOMAIN update
                                THEN update["ai_provider"] ELSE @,
                  !.torn[u] = tear]
  PROVE  /\ db' \in Tables
         /\ db'.secrets = db.secrets /\ db'.linked = db.linked /\ db'.bound = db.bound
         /\ db'.torn[u] = tear
         /\ \A v \in User \ {u} : /\ db'.prefs[v] = db.prefs[v]
                                  /\ db'.chosen[v] = db.chosen[v] /\ db'.torn[v] = db.torn[v]
         /\ \A k \in PrefKey : Pref(db', u, k) = IF k \in DOMAIN update THEN update[k] ELSE Pref(db, u, k)
         /\ db'.chosen[u] = IF "ai_provider" \in DOMAIN update THEN update["ai_provider"] ELSE db.chosen[u]
<1> DEFINE rows == db.prefs[u]
           value == IF "ai_provider" \in DOMAIN update THEN update["ai_provider"] ELSE db.chosen[u]
           table == [db.prefs EXCEPT ![u] = Upsert(rows, update)]
           picks == [db.chosen EXCEPT ![u] = value]
           tears == [db.torn EXCEPT ![u] = tear]
<1>1. rows \in PrefRows /\ db.chosen[u] \in PrefValue
  BY DEF Tables
<1>2. value \in PrefValue
  BY <1>1, PrefRowsAre
<1>3. /\ table \in [User -> PrefRows] /\ table[u] = Upsert(rows, update)
      /\ \A v \in User \ {u} : table[v] = db.prefs[v]
  BY <1>1, UpsertType DEF Tables
<1>4. /\ picks \in [User -> PrefValue] /\ picks[u] = value
      /\ \A v \in User \ {u} : picks[v] = db.chosen[v]
  BY <1>2 DEF Tables
<1>5. /\ tears \in [User -> BOOLEAN] /\ tears[u] = tear
      /\ \A v \in User \ {u} : tears[v] = db.torn[v]
  BY DEF Tables
<1>6. db' = [db EXCEPT !.prefs = table, !.chosen = picks, !.torn = tears]
  OBVIOUS
<1> HIDE DEF table, picks, tears
<1>7. /\ db' \in Tables /\ db'.secrets = db.secrets /\ db'.linked = db.linked /\ db'.bound = db.bound
      /\ db'.prefs = table /\ db'.chosen = picks /\ db'.torn = tears
  BY <1>3, <1>4, <1>5, <1>6 DEF Tables
<1>8. ASSUME NEW k \in PrefKey
      PROVE  Pref(db', u, k) = IF k \in DOMAIN update THEN update[k] ELSE Pref(db, u, k)
  <2>1. db'.prefs[u] = Upsert(rows, update)
    BY <1>3, <1>7
  <2> QED
    BY <2>1 DEF Pref, Upsert
<1> QED
  BY <1>3, <1>4, <1>5, <1>7, <1>8

LEMMA NotedSound ==
  ASSUME NEW calls, Sound(calls), db' \in Tables \cup {Torn}
  PROVE  Sound(Noted(calls))
<1>1. ASSUME NEW c \in Call PROVE Noted(calls)[c] \in CallState /\ Shape(Noted(calls)[c])
  BY NotedCalls DEF Sound, Shape, Writing
<1>2. Noted(calls) = [c \in Call |-> Noted(calls)[c]]
  BY DEF Noted
<1> QED
  BY <1>1, <1>2 DEF Sound

LEMMA OneCall ==
  ASSUME NEW calls, Sound(calls), NEW c \in Call, NEW r \in CallState, Shape(r)
  PROVE  Sound([calls EXCEPT ![c] = r])
  BY DEF Sound

LEMMA IdleShape == Shape(IdleCall)
  BY IdleCallType DEF Shape, Writing

\* What the steps of a request keep.
Settled == (db' = db \/ db' \in Tables) /\ ProcessTypeOK' /\ Sound(call)'

LEMMA CallIs ==
  ASSUME Types, NEW c \in Call
  PROVE  /\ call[c] \in CallState /\ Shape(call[c])
         /\ call[c].built \in Build /\ call[c].update \in PrefRows
         /\ call[c].alone \in BOOLEAN
  BY DEF Types, Sound, CallState

LEMMA SoundSettled ==
  ASSUME Types, db' = db \/ db' \in Tables, Sound(call)', made' \in Nat, UNCHANGED <<authSecret, session, environ>>
  PROVE  Settled
  BY DEF Settled, Types, ProcessTypeOK, Sound

LEMMA MadeType ==
  ASSUME Types
  PROVE  made \in Nat /\ made + 1 \in Nat
  BY DEF Types, ProcessTypeOK

LEMMA SetKeySettled ==
  ASSUME Types, NEW c \in Call, NEW u \in User, NEW k \in Kind \ {"github_token"},
         SetKey(c, u, k)
  PROVE  Settled
<1>1. PICK row \in SecretRow : db' = [db EXCEPT !.secrets[u][k] = row]
  BY SealedType DEF SetKey, SecretRow
<1>2. db' \in Tables
  BY <1>1, KeyRow, ImageType DEF SetKey
<1>3. Sound(call')
  BY <1>2, NotedSound DEF SetKey, Types
<1> QED
  BY <1>2, <1>3, SoundSettled, MadeType DEF SetKey, Starts

LEMMA BindingType ==
  ASSUME NEW t \in Token, NEW owner \in Owner \cup {None}, NEW repo \in Repo \cup {None}
  PROVE  /\ Binding(t, owner, repo) \in PrefRows
         /\ {"github_login", "github_owner"} \subseteq DOMAIN Binding(t, owner, repo)
         /\ Binding(t, owner, repo)["github_login"] = t
<1> DEFINE update == Binding(t, owner, repo)
<1>1. /\ DOMAIN update = {"github_login", "github_owner"} \cup (IF repo = None THEN {} ELSE {"github_repo"})
      /\ update["github_login"] = t
      /\ update["github_owner"] = IF owner = None THEN t ELSE owner
      /\ repo # None => update["github_repo"] = repo
  BY DEF Binding
<1>2. update = [k \in DOMAIN update |-> update[k]]
  BY DEF Binding
<1> HIDE DEF update
<1>3. \A k \in DOMAIN update : k \in PrefKey /\ update[k] \in PrefValue
  BY <1>1 DEF PrefKey, PrefValue
<1> QED
  BY <1>1, <1>2, <1>3, PrefRowsAre DEF update

LEMMA LinkSettled ==
  ASSUME Types, NEW c \in Call, NEW u \in User,
         NEW row \in SecretRow, NEW update \in PrefRows,
         {"github_login", "github_owner"} \subseteq DOMAIN update, Link(c, u, row, update)
  PROVE  Settled
<1> DEFINE others == {d \in Call : Connecting(call[d], u)}
           linking == [IdleCall EXCEPT !.pc = "read", !.user = u, !.update = update,
                                       !.alone = others = {}]
           calls == [d \in Call |-> IF d = c THEN linking
                                    ELSE IF d \in others THEN [call[d] EXCEPT !.alone = FALSE]
                                    ELSE call[d]]
<1>1. /\ db' = [db EXCEPT !.secrets[u]["github_token"] = row, !.linked[u] = row,
                          !.bound[u] = update["github_owner"], !.torn[u] = TRUE]
      /\ Readable /\ call' = Noted(calls) /\ made' = made + 1
      /\ UNCHANGED <<authSecret, session, environ>>
  BY DEF Link, Starts
<1>2. db' \in Tables
  <2>1. update["github_owner"] \in PrefValue
    BY PrefRowsAre
  <2> HIDE DEF calls
  <2> QED
    BY <1>1, <2>1, TokenRow, ImageType
<1>3. linking \in CallState /\ linking.pc = "read" /\ linking.user = u /\ linking.update = update
  BY IdleCallType DEF CallState
<1>4. Shape(linking)
  BY <1>3 DEF Shape, Writing
<1>5. ASSUME NEW d \in Call PROVE [call[d] EXCEPT !.alone = FALSE] \in CallState
                                  /\ Shape([call[d] EXCEPT !.alone = FALSE])
  BY CallIs DEF CallState, Shape, Writing
<1>6. Sound(calls)
  BY <1>3, <1>4, <1>5, CallIs DEF Sound
<1> HIDE DEF calls
<1>7. Sound(call')
  BY <1>1, <1>2, <1>6, NotedSound
<1> QED
  BY <1>1, <1>2, <1>7, SoundSettled, MadeType

LEMMA UpdateSettled ==
  ASSUME Types, NEW c \in Call, NEW u \in User, NEW p \in Provider,
         Update(c, u, p)
  PROVE  Settled
<1> DEFINE update == [k \in {"ai_provider"} |-> p]
           r == [IdleCall EXCEPT !.pc = "write", !.user = u, !.update = update]
<1>1. update \in PrefRows /\ DOMAIN update = {"ai_provider"}
  BY PrefRowsAre DEF PrefKey, PrefValue
<1>2. r \in CallState /\ r.pc = "write" /\ r.user = u /\ r.update = update
  BY <1>1, IdleCallType DEF CallState
<1>3. Shape(r)
  BY <1>1, <1>2 DEF Shape, Writing
<1>4. call' = [call EXCEPT ![c] = r] /\ UNCHANGED <<db, authSecret, session, environ>> /\ made' = made + 1
  BY DEF Update, Starts
<1> HIDE DEF r
<1>5. Sound(call')
  BY <1>2, <1>3, <1>4, OneCall DEF Types
<1> QED
  BY <1>4, <1>5, SoundSettled, MadeType

LEMMA ReadPrefsSettled ==
  ASSUME Types, NEW c \in Call, ReadPrefs(c)
  PROVE  Settled
<1> DEFINE r == [call[c] EXCEPT !.pc = "write"]
<1>1. call[c].user \in User /\ Writing(call[c])
  BY CallIs DEF ReadPrefs, Doing, Shape, Writing
<1>2. r \in CallState /\ r.pc = "write" /\ r.user = call[c].user /\ r.update = call[c].update
  BY <1>1, CallIs DEF CallState
<1>3. Shape(r)
  BY <1>1, <1>2, CallIs DEF Shape, Writing
<1>4. call' = [call EXCEPT ![c] = r] /\ UNCHANGED <<db, authSecret, session, environ, made>>
  BY DEF ReadPrefs
<1> HIDE DEF r
<1>5. Sound(call')
  BY <1>2, <1>3, <1>4, OneCall DEF Types
<1> QED
  BY <1>4, <1>5, SoundSettled, MadeType

LEMMA WritePrefsSettled ==
  ASSUME Types, NEW c \in Call, WritePrefs(c)
  PROVE  Settled
<1> DEFINE u == call[c].user
           tear == IF Connecting(call[c], u) THEN ~call[c].alone ELSE db.torn[u]
<1>1. u \in User /\ db \in Tables
  BY CallIs, ImageType DEF WritePrefs, Doing, Shape
<1>2. tear \in BOOLEAN
  BY <1>1 DEF Tables
<1>3. db' \in Tables
  BY <1>1, <1>2, CallIs, PrefsRow DEF WritePrefs
<1>4. Sound([call EXCEPT ![c] = IdleCall])
  BY IdleCallType, IdleShape, OneCall DEF Types
<1>5. Sound(call')
  BY <1>3, <1>4, NotedSound DEF WritePrefs
<1> QED
  BY <1>3, <1>5, SoundSettled, MadeType DEF WritePrefs

\* WriteFails and SetUp: a call ends.
LEMMA EndSettled ==
  ASSUME Types, NEW c \in Call, call' = [call EXCEPT ![c] = IdleCall],
         UNCHANGED <<db, authSecret, session, environ, made>>
  PROVE  Settled
<1>1. Sound(call')
  BY IdleCallType, IdleShape, OneCall DEF Types
<1> QED
  BY <1>1, SoundSettled, MadeType

\* A build begins with the preferred provider.
LEMMA AskBegins ==
  ASSUME Types, NEW c \in Call, NEW u \in User, NEW task \in BOOLEAN,
         AskProvider(c, u, task)
  PROVE  \E r \in CallState :
           /\ Shape(r) /\ r.pc = "again" /\ r.user = u /\ r.update = NoRows
           /\ \/ r.built.provider \in r.providers
              \/ Readable /\ r.built.provider = Pref(db, u, "ai_provider")
           /\ call' = Noted([call EXCEPT ![c] = r])
<1>0. PICK fails \in Fails :
        call' = Noted([call EXCEPT ![c] =
                        [IdleCall EXCEPT !.pc = "again", !.user = u, !.task = task,
                                         !.built = [NoBuild EXCEPT !.provider = Preferred(u, fails)],
                                         !.providers = Instead(ServerProvider, fails)]])
  BY DEF AskProvider
<1> DEFINE built == [NoBuild EXCEPT !.provider = Preferred(u, fails)]
           missed == Instead(ServerProvider, fails)
           r == [IdleCall EXCEPT !.pc = "again", !.user = u, !.task = task, !.built = built,
                                 !.providers = missed]
<1>1. NoBuild \in Build
  BY DEF NoBuild, Build, PrefValue
<1>2. built \in Build /\ built.provider = Preferred(u, fails)
  BY <1>1, PrefsType, ImageType DEF Build
<1>3. missed \in SUBSET PrefValue
  BY AccountsAssumption DEF Instead, PrefValue
<1>4. Preferred(u, fails) \in missed \/ (Readable /\ Preferred(u, fails) = Pref(db, u, "ai_provider"))
  BY PrefsType, ImageType DEF Instead, Fails
<1>5. call' = Noted([call EXCEPT ![c] = r])
  BY <1>0
<1> HIDE DEF built, missed
<1>6. /\ r \in CallState /\ r.pc = "again" /\ r.user = u /\ r.update = NoRows /\ r.built = built
      /\ r.providers = missed
  BY <1>2, <1>3, IdleCallType DEF CallState
<1>7. Shape(r)
  BY <1>6 DEF Shape, Writing
<1> HIDE DEF r
<1> QED
  BY <1>2, <1>4, <1>5, <1>6, <1>7

LEMMA AskProviderSettled ==
  ASSUME Types, NEW c \in Call, NEW u \in User, NEW task \in BOOLEAN,
         AskProvider(c, u, task)
  PROVE  Settled
<1>1. PICK r \in CallState : Shape(r) /\ call' = Noted([call EXCEPT ![c] = r])
  BY AskBegins
<1>2. Sound([call EXCEPT ![c] = r])
  BY <1>1, OneCall DEF Types
<1>3. UNCHANGED <<db, authSecret, session, environ>> /\ made' = made + 1
  BY DEF AskProvider, Starts
<1>4. Sound(call')
  BY <1>1, <1>2, <1>3, NotedSound, ImageType
<1> QED
  BY <1>3, <1>4, SoundSettled, MadeType

\* r is call c after a step of a build, but for what Noted adds.
Continued(r, c, pc, built, ps, ts) ==
  /\ Shape(r) /\ r.pc = pc /\ r.user = call[c].user /\ r.update = call[c].update
  /\ r.built = built /\ r.alone = call[c].alone
  /\ r.providers = call[c].providers \cup ps /\ r.tokens = call[c].tokens \cup ts
  /\ call' = Noted([call EXCEPT ![c] = r])
  /\ Sound([call EXCEPT ![c] = r])

LEMMA AskedCall ==
  ASSUME Types, NEW c \in Call, Building(call[c]),
         NEW pc \in {"own", "generic", "token", "prefs"}, NEW built \in Build,
         NEW ps \in SUBSET PrefValue, NEW ts \in SUBSET (Kind \cup Token \cup {ServerToken, None}),
         Asked(c, pc, built, ps, ts)
  PROVE  \E r \in CallState : Continued(r, c, pc, built, ps, ts)
<1> DEFINE r == [call[c] EXCEPT !.pc = pc, !.built = built, !.providers = @ \cup ps, !.tokens = @ \cup ts]
<1>1. /\ r \in CallState /\ r.pc = pc /\ r.user = call[c].user /\ r.update = call[c].update
      /\ r.built = built /\ r.alone = call[c].alone
      /\ r.providers = call[c].providers \cup ps /\ r.tokens = call[c].tokens \cup ts
  BY CallIs DEF CallState
<1>2. call' = Noted([call EXCEPT ![c] = r])
  BY DEF Asked
<1> HIDE DEF r
<1>3. Shape(r)
  BY <1>1, CallIs DEF Shape, Writing, Building
<1>4. Sound([call EXCEPT ![c] = r])
  BY <1>1, <1>3, OneCall DEF Types
<1> QED
  BY <1>1, <1>2, <1>3, <1>4 DEF Continued

LEMMA AskedSettled ==
  ASSUME Types, NEW c \in Call, Building(call[c]),
         NEW pc \in {"own", "generic", "token", "prefs"}, NEW built \in Build,
         NEW ps \in SUBSET PrefValue, NEW ts \in SUBSET (Kind \cup Token \cup {ServerToken, None}),
         Asked(c, pc, built, ps, ts)
  PROVE  Settled
<1>1. PICK r \in CallState : Continued(r, c, pc, built, ps, ts)
  BY AskedCall
<1>2. UNCHANGED <<db, authSecret, session, environ, made>>
  BY DEF Asked
<1>3. Sound(call')
  BY <1>1, <1>2, NotedSound, ImageType DEF Continued
<1> QED
  BY <1>2, <1>3, SoundSettled, MadeType

\* A step of a build reads something for the settings and goes on.
LEMMA AskBuilds ==
  ASSUME Types, NEW c \in Call,
         AskAgain(c) \/ AskOwnKey(c) \/ AskGenericKey(c) \/ AskToken(c)
  PROVE  \E pc \in {"own", "generic", "token", "prefs"}, built \in Build,
            ps \in SUBSET PrefValue, ts \in SUBSET (Kind \cup Token \cup {ServerToken, None}) :
              Asked(c, pc, built, ps, ts)
<1> DEFINE u == call[c].user
           b == call[c].built
<1>1. u \in User /\ Building(call[c]) /\ b \in Build
  BY CallIs DEF AskAgain, AskOwnKey, AskGenericKey, AskToken, Doing, Shape, Building
<1>0. {} \in SUBSET PrefValue /\ {} \in SUBSET (Kind \cup Token \cup {ServerToken, None})
  OBVIOUS
<1>2. CASE AskAgain(c)
  <2>0. PICK fails \in Fails :
          LET p == Preferred(u, fails)
          IN  Asked(c, IF p \in KeyedProvider THEN "own" ELSE "generic",
                    [b EXCEPT !.again = p], Instead(ServerProvider, fails), {})
    BY <1>2 DEF AskAgain
  <2>1. Preferred(u, fails) \in PrefValue
    BY <1>1, PrefsType, ImageType
  <2>2. [b EXCEPT !.again = Preferred(u, fails)] \in Build
    BY <1>1, <2>1 DEF Build
  <2>3. Instead(ServerProvider, fails) \in SUBSET PrefValue
    BY AccountsAssumption DEF Instead, PrefValue
  <2> QED
    BY <1>0, <2>0, <2>2, <2>3
<1>3. CASE AskOwnKey(c)
  <2>1. [b EXCEPT !.from = KindOf(b.again)] \in Build
    BY <1>1 DEF Build, KindOf, Kind
  <2>2. \/ Asked(c, "token", [b EXCEPT !.from = KindOf(b.again)], {}, {})
        \/ Asked(c, "generic", b, {}, {})
    BY <1>3 DEF AskOwnKey
  <2> QED
    BY <1>0, <1>1, <2>1, <2>2
<1>4. CASE AskGenericKey(c)
  <2>1. \A from \in {"ai_api_key", "server"} : [b EXCEPT !.from = from] \in Build
    BY <1>1 DEF Build, Kind
  <2>2. PICK from \in {"ai_api_key", "server"} : Asked(c, "token", [b EXCEPT !.from = from], {}, {})
    BY <1>4 DEF AskGenericKey
  <2> QED
    BY <1>0, <2>1, <2>2
<1>5. CASE AskToken(c)
  <2>0. PICK fails \in Fails :
          LET t == Secret(u, "github_token", fails)
          IN  Asked(c, "prefs", [b EXCEPT !.token = IF t = None THEN ServerToken ELSE t],
                    {}, Instead(None, fails))
    BY <1>5 DEF AskToken
  <2>1. "github_token" \in Kind
    BY DEF Kind
  <2>2. Secret(u, "github_token", fails) \in Kind \cup Token \cup {None}
    BY <1>1, <2>1, SecretType, ImageType
  <2>3. \A t \in Kind \cup Token \cup {ServerToken, None} : [b EXCEPT !.token = t] \in Build
    BY <1>1 DEF Build
  <2>4. Instead(None, fails) \in SUBSET (Kind \cup Token \cup {ServerToken, None})
    BY DEF Instead
  <2> QED
    BY <1>0, <2>0, <2>2, <2>3, <2>4
<1> QED
  BY <1>2, <1>3, <1>4, <1>5

LEMMA AskSettled ==
  ASSUME Types, NEW c \in Call,
         AskAgain(c) \/ AskOwnKey(c) \/ AskGenericKey(c) \/ AskToken(c)
  PROVE  Settled
<1>1. Building(call[c])
  BY DEF AskAgain, AskOwnKey, AskGenericKey, AskToken, Doing, Building
<1> QED
  BY <1>1, AskBuilds, AskedSettled

LEMMA FinishSettled ==
  ASSUME Types, NEW c \in Call, NEW fails \in Fails, Finish(c, fails)
  PROVE  Settled
<1> DEFINE u == call[c].user
           b == call[c].built
           owner == Or(Prefs(u, fails)["github_owner"], ServerOwner)
           repo == Or(Prefs(u, fails)["github_repo"], ServerRepo)
           end == [b EXCEPT !.owner = owner, !.repo = repo]
           r == [call[c] EXCEPT !.pc = "set_up", !.built = end]
<1>1. u \in User /\ b \in Build /\ call[c].update = NoRows
  BY CallIs DEF Finish, Doing, Shape, Writing
<1>2. owner \in PrefValue /\ repo \in PrefValue
  BY <1>1, PrefsType, ImageType, AccountsAssumption DEF Or, PrefKey, PrefValue
<1>3. end \in Build
  BY <1>1, <1>2 DEF Build
<1>4. r \in CallState /\ r.pc = "set_up" /\ r.user = u /\ r.update = NoRows
  BY <1>1, <1>3, CallIs DEF CallState
<1>5. Shape(r)
  BY <1>1, <1>4 DEF Shape, Writing
<1>6. r = [call[c] EXCEPT !.pc = "set_up", !.built.owner = owner, !.built.repo = repo]
  BY CallIs DEF CallState, Build
<1>7. ASSUME NEW d \in Call PROVE [call[d] EXCEPT !.alone = FALSE] \in CallState
                                  /\ Shape([call[d] EXCEPT !.alone = FALSE])
  BY CallIs DEF CallState, Shape, Writing
<1> HIDE DEF r
<1>8. ASSUME NEW d \in Call
      PROVE  call'[d] \in {IdleCall, r, [call[d] EXCEPT !.alone = FALSE], call[d]}
  BY <1>6 DEF Finish
<1>9. call' = [d \in Call |-> call'[d]]
  BY DEF Finish
<1>10. Sound(call')
  <2>1. \A d \in Call : call'[d] \in CallState /\ Shape(call'[d])
    BY <1>4, <1>5, <1>7, <1>8, IdleCallType, IdleShape, CallIs
  <2> QED
    BY <1>9, <2>1 DEF Sound
<1>11. environ' \in Kind \cup Token \cup {ServerToken, None}
  BY <1>1 DEF Finish, Mirrored, Types, ProcessTypeOK, Build
<1>12. UNCHANGED <<db, authSecret, session, made>>
  BY DEF Finish
<1> QED
  BY <1>10, <1>11, <1>12 DEF Settled, Types, ProcessTypeOK, Sound

LEMMA AccountsSettled ==
  ASSUME Types, AccountsNext
  PROVE  Settled
<1>1. ASSUME NEW c \in Call, RequestStep(c) PROVE Settled
  BY <1>1, ReadPrefsSettled, WritePrefsSettled, EndSettled, AskSettled, FinishSettled
  DEF RequestStep, WriteFails, SetUp
<1>2. ASSUME NEW c \in Call, NEW u \in User, RequestBegins(c, u) PROVE Settled
  <2>1. ASSUME NEW k \in Kind \ {"github_token"}, SetKey(c, u, k) PROVE Settled
    BY <2>1, SetKeySettled
  <2>2. ASSUME NEW t \in Token, NEW owner \in Owner \cup {None}, NEW repo \in Repo \cup {None},
               Connect(c, u, t, owner, repo)
        PROVE  Settled
    <3>1. Sealed(t) \in SecretRow
      BY SealedType
    <3>2. /\ Binding(t, owner, repo) \in PrefRows
          /\ {"github_login", "github_owner"} \subseteq DOMAIN Binding(t, owner, repo)
      BY BindingType
    <3> QED
      BY <2>2, <3>1, <3>2, LinkSettled DEF Connect
  <2>3. CASE Disconnect(c, u)
    <3>1. Unbinding \in PrefRows /\ {"github_login", "github_owner"} \subseteq DOMAIN Unbinding
      BY PrefRowsAre DEF Unbinding, PrefKey, PrefValue
    <3> QED
      BY <2>3, <3>1, LinkSettled DEF Disconnect, SecretRow
  <2>4. ASSUME NEW p \in Provider, Update(c, u, p) PROVE Settled
    BY <2>4, UpdateSettled
  <2>5. ASSUME NEW task \in BOOLEAN, AskProvider(c, u, task) PROVE Settled
    BY <2>5, AskProviderSettled
  <2> QED
    BY <1>2, <2>1, <2>2, <2>3, <2>4, <2>5 DEF RequestBegins
<1>3. ASSUME NEW u \in User, Login(u) PROVE Settled
  BY <1>3 DEF Login, SessionToken, Settled, Types, ProcessTypeOK, Sound
<1>4. ASSUME NEW secret \in AuthSecret, Restart(secret) PROVE Settled
  BY <1>4, IdleCallType, IdleShape, AccountsAssumption DEF Restart, Settled, Types, ProcessTypeOK, Sound
<1> QED
  BY <1>1, <1>2, <1>3, <1>4 DEF AccountsNext

LEMMA ShakenSound ==
  ASSUME Types, db' \in Tables \cup {Torn}
  PROVE  Sound(Shaken)
<1>1. CASE db' = db
  BY <1>1 DEF Shaken, Types
<1>2. CASE db' # db
  <2> DEFINE calls == [c \in Call |-> IF Doing(c, "set_up") THEN call[c] ELSE [call[c] EXCEPT !.alone = FALSE]]
  <2>1. ASSUME NEW c \in Call PROVE [call[c] EXCEPT !.alone = FALSE] \in CallState
                                    /\ Shape([call[c] EXCEPT !.alone = FALSE])
    BY CallIs DEF CallState, Shape, Writing
  <2>2. Sound(calls)
    BY <2>1, CallIs DEF Sound
  <2> HIDE DEF calls
  <2>3. Sound(Noted(calls))
    BY <2>2, NotedSound
  <2> QED
    BY <1>2, <2>3 DEF Shaken, calls
<1> QED
  BY <1>1, <1>2

\* A step of the server is a step of the directory of backups, whose Write is
\* whatever a request does to the database.
LEMMA TypesStep ==
  ASSUME Types, [Next]_svars
  PROVE  Types' /\ [BackupNext]_bvars
<1>1. [BackupNext]_bvars
  <2>1. CASE Request
    <3>1. (db' = db \/ db' \in Tables) /\ Seen
      BY <2>1, AccountsSettled DEF Request, Settled
    <3>2. CASE db' \in Tables
      BY <3>1, <3>2, ServerDataAssumption DEF BackupNext, Write
    <3>3. CASE db' = db
      <4>1. \A j \in Job : job[j] \in JobState
        BY DEF Types, BackupTypeOK
      <4>2. \A j \in Job : Noticed(j) = job[j]
        BY <3>3, <4>1 DEF Noticed, JobState
      <4>3. job' = job
        BY <3>1, <4>2 DEF Seen, Types, BackupTypeOK
      <4> QED
        BY <3>1, <3>3, <4>3 DEF Seen, bvars, directoryVars
    <3> QED
      BY <3>1, <3>2, <3>3
  <2>2. CASE UNCHANGED svars
    BY <2>2 DEF svars, avars, bvars
  <2> QED
    BY <2>1, <2>2 DEF Next, Maintenance, BackupNext
<1>2. BackupTypeOK'
  BY <1>1, BackupTypeStep DEF Types
<1>3. db' \in Tables \cup {Torn}
  BY <1>2, EmptyTablesType, ServerDataAssumption DEF BackupTypeOK, Image
<1>4. ProcessTypeOK' /\ Sound(call)'
  <2>1. CASE Request
    BY <2>1, AccountsSettled DEF Request, Settled
  <2>2. ASSUME NEW j \in Job, Maintenance(j) PROVE ProcessTypeOK' /\ Sound(call)'
    <3>1. Sound(call')
      BY <1>3, <2>2, ShakenSound DEF Maintenance
    <3>2. made' \in Nat /\ UNCHANGED <<authSecret, session, environ>>
      BY <2>2, MadeType DEF Maintenance
    <3> QED
      BY <3>1, <3>2 DEF Types, ProcessTypeOK, Sound
  <2>3. CASE UNCHANGED processVars
    BY <2>3 DEF processVars, Types, ProcessTypeOK, Sound
  <2> QED
    BY <2>1, <2>2, <2>3 DEF Next, svars, avars
<1> QED
  BY <1>1, <1>2, <1>4 DEF Types

LEMMA TypesInit ==
  ASSUME Init
  PROVE  Types /\ BackupInit
<1>1. db \in Tables /\ DirectoryInit
  BY EmptyTablesType DEF Init, AccountsInit
<1>2. BackupInit
  BY <1>1, ServerDataAssumption DEF BackupInit
<1>3. ProcessTypeOK /\ Sound(call)
  BY IdleCallType, IdleShape, AccountsAssumption DEF Init, AccountsInit, ProcessInit, ProcessTypeOK, Sound
<1> QED
  BY <1>2, <1>3, BackupTypeInit DEF Types

\* Requests that read and write their own rows are, for the backups, a server that
\* may write any tables at any time.
THEOREM ServerIsAWriter == Spec => BackupSpec
  BY TypesInit, TypesStep, PTL DEF Spec, BackupSpec

\* Every reachable state of the server keeps its types, and a request belongs to
\* a user from its first step to its last.
THEOREM ServerTypeCorrect == Spec => []Types
  BY TypesInit, TypesStep, PTL DEF Spec

\* What a restore overwrites is in its safety backup (RestoreIsSafe), also while
\* requests write their rows between any two steps of restore_backup.
THEOREM ServerRestoreSafety == Spec => []RestoreIsSafe
  BY ServerIsAWriter, RestoreSafety, PTL

\* cleanup_old_backups keeps the newest files (RotationKeepsNewest), also on the
\* directory of a server at work.
THEOREM ServerRotationSafety == Spec => []RotationKeepsNewest
  BY ServerIsAWriter, RotationSafety, PTL

------------------------------------------------------------------------------
(* Connections stay coherent *)

\* The account of the token row.
Account(d, u) ==
  LET row == d.secrets[u]["github_token"] IN IF row = None THEN None ELSE row.value

\* Tables whose histories are true, and whose preferences show the account of the
\* token row for every user whose connection is not torn.
Whole(d) ==
  /\ d \in Tables
  /\ \A u \in User :
       /\ d.linked[u] = d.secrets[u]["github_token"]
       /\ d.chosen[u] = Pref(d, u, "ai_provider")
       /\ ~d.torn[u] => /\ Pref(d, u, "github_login") = Account(d, u)
                        /\ Pref(d, u, "github_owner") = d.bound[u]

\* The database and every backup of it is whole, unless it is torn.
ImagesWhole ==
  /\ db # Torn => Whole(db)
  /\ \A n \in Name : files[n] \notin {NoFile, Torn} => Whole(files[n])

\* A call that is alone in changing a connection is about to write the account
\* of the token row that is there, and the owner it was linked for.
LinksAgree ==
  \A u \in User, c \in Call :
    (Connecting(call[c], u) /\ call[c].alone) =>
      /\ \A d \in Call \ {c} : ~Connecting(call[d], u)
      /\ db # Torn => /\ call[c].update["github_login"] = Account(db, u)
                      /\ call[c].update["github_owner"] = db.bound[u]

LEMMA NotConnecting ==
  ASSUME NEW r, NEW u, r.update = NoRows
  PROVE  ~Connecting(r, u)
  BY DEF Connecting, NoRows

LEMMA EmptyTablesWhole == Whole(EmptyTables)
<1>1. ASSUME NEW u \in User
      PROVE  /\ EmptyTables.linked[u] = EmptyTables.secrets[u]["github_token"]
             /\ EmptyTables.chosen[u] = Pref(EmptyTables, u, "ai_provider")
             /\ Pref(EmptyTables, u, "github_login") = Account(EmptyTables, u)
             /\ Pref(EmptyTables, u, "github_owner") = EmptyTables.bound[u]
  <2>1. \A k : Pref(EmptyTables, u, k) = Default[k]
    BY DEF EmptyTables, Pref, NoRows
  <2>2. Account(EmptyTables, u) = None
    BY DEF EmptyTables, Account, Kind
  <2>3. EmptyTables.linked[u] = None /\ EmptyTables.secrets[u]["github_token"] = None
        /\ EmptyTables.chosen[u] = ServerProvider /\ EmptyTables.bound[u] = ServerOwner
    BY DEF EmptyTables, Kind
  <2> QED
    BY <2>1, <2>2, <2>3 DEF Default
<1> QED
  BY <1>1, EmptyTablesType DEF Whole

\* A step that starts no connection and keeps the token rows of those that are
\* alone: the calls that are in the middle of one go on with what they had.
LEMMA LinksKept ==
  ASSUME LinksAgree,
         \A c \in Call, u \in User : Connecting(call'[c], u) =>
           /\ Connecting(call[c], u)
           /\ call'[c].update = call[c].update
           /\ call'[c].alone => /\ call[c].alone
                                /\ db' # Torn => /\ db # Torn /\ Account(db', u) = Account(db, u)
                                                 /\ db'.bound[u] = db.bound[u]
  PROVE  LinksAgree'
  BY DEF LinksAgree

LEMMA NotedLinks ==
  ASSUME NEW calls, Sound(calls), db' \in Tables \cup {Torn}, call' = Noted(calls), NEW c \in Call
  PROVE  /\ call'[c].pc = calls[c].pc /\ call'[c].user = calls[c].user
         /\ call'[c].update = calls[c].update /\ call'[c].alone = calls[c].alone
         /\ \A u : Connecting(call'[c], u) <=> Connecting(calls[c], u)
  BY NotedCalls DEF Sound, Connecting

\* A step of a call that no connection is changed by.
LEMMA CallerKept ==
  ASSUME LinksAgree, Types, NEW c \in Call, NEW r,
         call' = [call EXCEPT ![c] = r] \/ (Sound([call EXCEPT ![c] = r]) /\ call' = Noted([call EXCEPT ![c] = r])),
         \/ "github_login" \notin DOMAIN r.update
         \/ r.user = call[c].user /\ r.update = call[c].update /\ r.alone = call[c].alone,
         db' \in Tables \cup {Torn}, db' # Torn => db # Torn,
         \A u \in User : Account(db', u) = Account(db, u) /\ db'.bound[u] = db.bound[u]
  PROVE  LinksAgree'
<1> DEFINE calls == [call EXCEPT ![c] = r]
<1>1. ASSUME NEW d \in Call
      PROVE  /\ call'[d].user = calls[d].user /\ call'[d].update = calls[d].update
             /\ call'[d].alone = calls[d].alone
  <2>1. CASE call' = calls
    BY <2>1
  <2>2. CASE call' = Noted(calls) /\ Sound(calls)
    <3> HIDE DEF calls
    <3> QED
      BY <2>2, <1>1, NotedLinks
  <2> QED
    BY <2>1, <2>2
<1>2. calls[c] = r /\ \A d \in Call \ {c} : calls[d] = call[d]
  BY DEF Types, Sound
<1> HIDE DEF calls
<1>3. ASSUME NEW d \in Call, NEW u \in User, Connecting(call'[d], u)
      PROVE  /\ Connecting(call[d], u) /\ call'[d].update = call[d].update
             /\ call'[d].alone => call[d].alone
  <2>1. CASE d = c
    BY <1>1, <1>2, <1>3, <2>1 DEF Connecting
  <2>2. CASE d # c
    BY <1>1, <1>2, <1>3, <2>2 DEF Connecting
  <2> QED
    BY <2>1, <2>2
<1> QED
  BY <1>3, LinksKept

\* What a request that writes needs, and what every one keeps.
Coherence == Types /\ db \in Tables /\ db # Torn /\ Whole(db) /\ LinksAgree

Agreement == Types /\ (db # Torn => Whole(db)) /\ LinksAgree

Kept == (db' # Torn => Whole(db')) /\ LinksAgree'

LEMMA Writes ==
  ASSUME Agreement, Readable
  PROVE  Coherence
  BY ImageType DEF Agreement, Coherence, Readable

LEMMA SetKeyCoherent ==
  ASSUME Coherence, NEW c \in Call, NEW u \in User, NEW k \in Kind \ {"github_token"},
         SetKey(c, u, k)
  PROVE  Whole(db') /\ LinksAgree'
<1> USE DEF Coherence
<1>1. PICK row \in SecretRow : db' = [db EXCEPT !.secrets[u][k] = row]
  BY SealedType DEF SetKey, SecretRow
<1>2. "github_token" \in Kind
  BY DEF Kind
<1>3. /\ db' \in Tables
      /\ db'.prefs = db.prefs /\ db'.chosen = db.chosen
      /\ db'.linked = db.linked /\ db'.bound = db.bound /\ db'.torn = db.torn
      /\ \A v \in User : db'.secrets[v]["github_token"] = db.secrets[v]["github_token"]
  BY <1>1, <1>2, KeyRow
<1>4. \A v \in User : /\ Account(db', v) = Account(db, v) /\ db'.bound[v] = db.bound[v]
                      /\ \A i : Pref(db', v, i) = Pref(db, v, i)
  BY <1>3 DEF Account, Pref
<1>5. Whole(db')
  BY <1>3, <1>4 DEF Whole
<1>6. ASSUME NEW d \in Call, NEW v
      PROVE  /\ Connecting(call'[d], v) <=> Connecting(call[d], v)
             /\ call'[d].update = call[d].update /\ call'[d].alone = call[d].alone
  BY <1>3, NotedLinks DEF SetKey, Types
<1> QED
  BY <1>4, <1>5, <1>6, LinksKept

LEMMA LinkCoherent ==
  ASSUME Coherence, NEW c \in Call, NEW u \in User,
         NEW row \in SecretRow, NEW update \in PrefRows,
         {"github_login", "github_owner"} \subseteq DOMAIN update,
         update["github_login"] = IF row = None THEN None ELSE row.value,
         Link(c, u, row, update)
  PROVE  Whole(db') /\ LinksAgree'
<1> USE DEF Coherence
<1> DEFINE others == {d \in Call : Connecting(call[d], u)}
           linking == [IdleCall EXCEPT !.pc = "read", !.user = u, !.update = update,
                                       !.alone = others = {}]
           calls == [d \in Call |-> IF d = c THEN linking
                                    ELSE IF d \in others THEN [call[d] EXCEPT !.alone = FALSE]
                                    ELSE call[d]]
<1>0. update["github_owner"] \in PrefValue
  BY PrefRowsAre
<1>1. /\ db' = [db EXCEPT !.secrets[u]["github_token"] = row, !.linked[u] = row,
                          !.bound[u] = update["github_owner"], !.torn[u] = TRUE]
      /\ call' = Noted(calls)
  BY DEF Link
<1>2. /\ db' \in Tables
      /\ db'.prefs = db.prefs /\ db'.chosen = db.chosen
      /\ db'.linked[u] = row /\ db'.bound[u] = update["github_owner"] /\ db'.torn[u] = TRUE
      /\ db'.secrets[u]["github_token"] = row
      /\ \A v \in User \ {u} : /\ db'.secrets[v] = db.secrets[v] /\ db'.bound[v] = db.bound[v]
                               /\ db'.linked[v] = db.linked[v] /\ db'.torn[v] = db.torn[v]
  <2> HIDE DEF calls
  <2> QED
    BY <1>0, <1>1, TokenRow
<1>3. /\ \A v \in User : \A i : Pref(db', v, i) = Pref(db, v, i)
      /\ \A v \in User \ {u} : Account(db', v) = Account(db, v)
      /\ update["github_login"] = Account(db', u) /\ update["github_owner"] = db'.bound[u]
  BY <1>2 DEF Account, Pref
<1>4. Whole(db')
  BY <1>2, <1>3 DEF Whole
<1>5. linking \in CallState /\ linking.pc = "read" /\ linking.user = u /\ linking.update = update
      /\ (linking.alone => others = {})
  BY IdleCallType DEF CallState
<1>6. Shape(linking)
  BY <1>5 DEF Shape, Writing
<1>7. ASSUME NEW d \in Call PROVE [call[d] EXCEPT !.alone = FALSE] \in CallState
                                  /\ Shape([call[d] EXCEPT !.alone = FALSE])
  BY CallIs DEF CallState, Shape, Writing
<1>8. Sound(calls)
  BY <1>5, <1>6, <1>7, CallIs DEF Sound
<1>9. calls[c] = linking
  OBVIOUS
<1>10. ASSUME NEW d \in Call \ {c}
       PROVE  /\ calls[d].user = call[d].user /\ calls[d].update = call[d].update
              /\ calls[d].alone => call[d].alone /\ ~Connecting(call[d], u)
  <2>1. CASE d \in others
    BY <2>1, CallIs DEF CallState
  <2>2. CASE d \notin others
    BY <2>2
  <2> QED
    BY <2>1, <2>2
<1> HIDE DEF linking, calls
<1>11. ASSUME NEW d \in Call
       PROVE  /\ call'[d].update = calls[d].update /\ call'[d].alone = calls[d].alone
              /\ \A v : Connecting(call'[d], v) <=> Connecting(calls[d], v)
  BY <1>1, <1>2, <1>8, NotedLinks
<1>12. ASSUME NEW v \in User, NEW d \in Call, Connecting(call'[d], v), call'[d].alone
       PROVE  /\ \A e \in Call \ {d} : ~Connecting(call'[e], v)
              /\ call'[d].update["github_login"] = Account(db', v)
              /\ call'[d].update["github_owner"] = db'.bound[v]
  <2>1. CASE d = c
    <3>1. v = u /\ others = {} /\ call'[d].update = update
      BY <1>5, <1>9, <1>11, <1>12, <2>1 DEF Connecting
    <3>2. \A e \in Call \ {d} : ~Connecting(call'[e], v)
      BY <1>10, <1>11, <2>1, <3>1 DEF Connecting
    <3> QED
      BY <1>3, <3>1, <3>2
  <2>2. CASE d # c
    <3>1. Connecting(call[d], v) /\ call[d].alone /\ v # u /\ call'[d].update = call[d].update
      BY <1>10, <1>11, <1>12, <2>2 DEF Connecting
    <3>2. \A e \in Call \ {d} : ~Connecting(call[e], v)
      BY <3>1 DEF LinksAgree
    <3>3. ~Connecting(call'[c], v)
      BY <1>5, <1>9, <1>11, <3>1 DEF Connecting
    <3>4. ASSUME NEW e \in Call \ {d} PROVE ~Connecting(call'[e], v)
      <4>1. CASE e = c
        BY <3>3, <4>1
      <4>2. CASE e # c
        BY <1>10, <1>11, <3>2, <4>2 DEF Connecting
      <4> QED
        BY <4>1, <4>2
    <3>5. call[d].update["github_login"] = Account(db, v) /\ call[d].update["github_owner"] = db.bound[v]
      BY <3>1 DEF LinksAgree
    <3> QED
      BY <1>2, <1>3, <3>1, <3>4, <3>5
  <2> QED
    BY <2>1, <2>2
<1> QED
  BY <1>4, <1>12 DEF LinksAgree

LEMMA WritePrefsCoherent ==
  ASSUME Coherence, NEW c \in Call, WritePrefs(c)
  PROVE  Whole(db') /\ LinksAgree'
<1> USE DEF Coherence
<1> DEFINE u == call[c].user
           update == call[c].update
           tear == IF Connecting(call[c], u) THEN ~call[c].alone ELSE db.torn[u]
<1>1. u \in User /\ update \in PrefRows /\ call[c].alone \in BOOLEAN /\ Writing(call[c])
  BY CallIs DEF WritePrefs, Doing, Shape, Writing
<1>2. tear \in BOOLEAN
  BY <1>1 DEF Tables
<1>0. db' = [db EXCEPT
               !.prefs[u] = Upsert(@, update),
               !.chosen[u] = IF "ai_provider" \in DOMAIN update
                             THEN update["ai_provider"] ELSE @,
               !.torn[u] = tear]
  BY <1>1 DEF WritePrefs
<1>3. /\ db' \in Tables
      /\ db'.secrets = db.secrets /\ db'.linked = db.linked /\ db'.bound = db.bound
      /\ db'.torn[u] = tear
      /\ \A v \in User \ {u} : /\ db'.prefs[v] = db.prefs[v]
                               /\ db'.chosen[v] = db.chosen[v] /\ db'.torn[v] = db.torn[v]
      /\ \A k \in PrefKey : Pref(db', u, k) = IF k \in DOMAIN update THEN update[k] ELSE Pref(db, u, k)
      /\ db'.chosen[u] = IF "ai_provider" \in DOMAIN update THEN update["ai_provider"] ELSE db.chosen[u]
  <2> HIDE DEF u, update, tear
  <2> QED
    BY <1>0, <1>1, <1>2, PrefsRow
<1>4. \A v \in User : Account(db', v) = Account(db, v) /\ db'.bound[v] = db.bound[v]
  BY <1>3 DEF Account
<1>5. \A v \in User \ {u} : \A k : Pref(db', v, k) = Pref(db, v, k)
  BY <1>3 DEF Pref
<1>6. db'.chosen[u] = Pref(db', u, "ai_provider")
  <2>1. "ai_provider" \in PrefKey
    BY DEF PrefKey
  <2> QED
    BY <1>1, <1>3, <2>1 DEF Whole
<1>7. ASSUME ~db'.torn[u]
      PROVE  Pref(db', u, "github_login") = Account(db', u) /\ Pref(db', u, "github_owner") = db'.bound[u]
  <2>0. {"github_login", "github_owner"} \subseteq PrefKey
    BY DEF PrefKey
  <2>1. CASE "github_login" \in DOMAIN update
    <3>1. Connecting(call[c], u) /\ call[c].alone
      BY <1>3, <1>7, <2>1 DEF Connecting
    <3>2. update["github_login"] = Account(db, u) /\ update["github_owner"] = db.bound[u]
      BY <1>1, <3>1 DEF LinksAgree
    <3>3. {"github_login", "github_owner"} \subseteq DOMAIN update
      BY <1>1, <2>1, CallIs DEF Shape
    <3> QED
      BY <1>1, <1>3, <1>4, <2>0, <3>2, <3>3
  <2>2. CASE "github_login" \notin DOMAIN update
    <3>1. "github_owner" \notin DOMAIN update
      BY <1>1, <2>2, CallIs DEF Shape
    <3>2. ~db.torn[u]
      BY <1>3, <1>7, <2>2 DEF Connecting
    <3> QED
      BY <1>1, <1>3, <1>4, <2>0, <2>2, <3>1, <3>2 DEF Whole
  <2> QED
    BY <2>1, <2>2
<1>8. Whole(db')
  <2>1. ASSUME NEW v \in User
        PROVE  /\ db'.linked[v] = db'.secrets[v]["github_token"]
               /\ db'.chosen[v] = Pref(db', v, "ai_provider")
               /\ ~db'.torn[v] => /\ Pref(db', v, "github_login") = Account(db', v)
                                  /\ Pref(db', v, "github_owner") = db'.bound[v]
    <3>1. CASE v = u
      BY <1>3, <1>6, <1>7, <3>1 DEF Whole
    <3>2. CASE v # u
      BY <1>3, <1>4, <1>5, <3>2 DEF Whole
    <3> QED
      BY <3>1, <3>2
  <2> QED
    BY <1>3, <2>1 DEF Whole
<1>9. Sound([call EXCEPT ![c] = IdleCall])
  BY IdleCallType, IdleShape, OneCall DEF Types
<1>10. "github_login" \notin DOMAIN IdleCall.update
  BY IdleCallType DEF NoRows
<1> QED
  BY <1>3, <1>4, <1>8, <1>9, <1>10, CallerKept DEF WritePrefs

LEMMA CallerCoherent ==
  ASSUME Agreement, NEW c \in Call, NEW r \in CallState, Shape(r), db' = db,
         call' = [call EXCEPT ![c] = r] \/ call' = Noted([call EXCEPT ![c] = r]),
         \/ "github_login" \notin DOMAIN r.update
         \/ r.user = call[c].user /\ r.update = call[c].update /\ r.alone = call[c].alone
  PROVE  Kept
<1> USE DEF Agreement
<1>1. Sound([call EXCEPT ![c] = r])
  BY OneCall DEF Types
<1>2. /\ db' \in Tables \cup {Torn} /\ (db' # Torn => db # Torn) /\ (db' # Torn => Whole(db'))
      /\ \A u \in User : Account(db', u) = Account(db, u) /\ db'.bound[u] = db.bound[u]
  BY ImageType
<1>3. LinksAgree'
  BY <1>1, <1>2, CallerKept
<1> QED
  BY <1>2, <1>3 DEF Kept

LEMMA FinishCoherent ==
  ASSUME Agreement, NEW c \in Call, NEW fails \in Fails, Finish(c, fails)
  PROVE  Kept
<1> USE DEF Agreement
<1>1. db' = db
  BY DEF Finish
<1>2. call[c].update = NoRows
  BY CallIs DEF Finish, Doing, Shape, Writing
<1>3. ASSUME NEW d \in Call
      PROVE  \/ call'[d] = call[d] \/ call'[d].update = NoRows
             \/ call'[d] = [call[d] EXCEPT !.alone = FALSE]
  <2>1. CASE d = c
    <3>1. call'[c] = IdleCall \/ call'[c] = [call[c] EXCEPT !.pc = "set_up",
                          !.built.owner = Or(Prefs(call[c].user, fails)["github_owner"], ServerOwner),
                          !.built.repo = Or(Prefs(call[c].user, fails)["github_repo"], ServerRepo)]
      BY DEF Finish
    <3>2. call[c] \in CallState
      BY CallIs
    <3> QED
      BY <1>2, <2>1, <3>1, <3>2, IdleCallType DEF CallState
  <2>2. CASE d # c
    BY <2>2 DEF Finish
  <2> QED
    BY <2>1, <2>2
<1>4. ASSUME NEW d \in Call, NEW u \in User, Connecting(call'[d], u)
      PROVE  /\ Connecting(call[d], u) /\ call'[d].update = call[d].update
             /\ call'[d].alone => call[d].alone
  <2>1. call'[d] = call[d] \/ call'[d] = [call[d] EXCEPT !.alone = FALSE]
    BY <1>3, <1>4, NotConnecting
  <2>2. call[d] \in CallState
    BY CallIs
  <2> QED
    BY <1>4, <2>1, <2>2 DEF CallState, Connecting
<1> QED
  BY <1>1, <1>4, LinksKept DEF Kept

LEMMA AccountsCoherent ==
  ASSUME Agreement, AccountsNext
  PROVE  Kept
<1> USE DEF Agreement
<1>0. "github_login" \notin DOMAIN NoRows /\ "github_login" \notin DOMAIN IdleCall.update
  BY IdleCallType DEF NoRows
<1>1. ASSUME NEW c \in Call, RequestStep(c) PROVE Kept
  <2>1. CASE ReadPrefs(c)
    <3> DEFINE r == [call[c] EXCEPT !.pc = "write"]
    <3>1. call[c].user \in User /\ Writing(call[c])
      BY <2>1, CallIs DEF ReadPrefs, Doing, Shape, Writing
    <3>2. /\ r \in CallState /\ r.pc = "write" /\ r.user = call[c].user /\ r.update = call[c].update
          /\ r.alone = call[c].alone
      BY <3>1, CallIs DEF CallState
    <3>3. Shape(r)
      BY <3>1, <3>2, CallIs DEF Shape, Writing
    <3>4. call' = [call EXCEPT ![c] = r] /\ db' = db
      BY <2>1 DEF ReadPrefs
    <3> HIDE DEF r
    <3> QED
      BY <3>2, <3>3, <3>4, CallerCoherent
  <2>2. CASE WritePrefs(c)
    BY <2>2, Writes, WritePrefsCoherent DEF WritePrefs, Kept
  <2>3. CASE WriteFails(c) \/ SetUp(c)
    BY <1>0, <2>3, IdleCallType, IdleShape, CallerCoherent DEF WriteFails, SetUp
  <2>5. CASE AskAgain(c) \/ AskOwnKey(c) \/ AskGenericKey(c) \/ AskToken(c)
    <3>1. PICK pc \in {"own", "generic", "token", "prefs"}, built \in Build,
               ps \in SUBSET PrefValue, ts \in SUBSET (Kind \cup Token \cup {ServerToken, None}) :
                 Asked(c, pc, built, ps, ts)
      BY <2>5, AskBuilds
    <3>2. Building(call[c])
      BY <2>5 DEF AskAgain, AskOwnKey, AskGenericKey, AskToken, Doing, Building
    <3>3. PICK r \in CallState : Continued(r, c, pc, built, ps, ts)
      BY <3>1, <3>2, AskedCall
    <3>4. db' = db
      BY <3>1 DEF Asked
    <3> QED
      BY <3>3, <3>4, CallerCoherent DEF Continued
  <2>6. ASSUME NEW fails \in Fails, Finish(c, fails) PROVE Kept
    BY <2>6, FinishCoherent
  <2> QED
    BY <1>1, <2>1, <2>2, <2>3, <2>5, <2>6 DEF RequestStep
<1>2. ASSUME NEW c \in Call, NEW u \in User, RequestBegins(c, u) PROVE Kept
  <2>1. ASSUME NEW k \in Kind \ {"github_token"}, SetKey(c, u, k) PROVE Kept
    BY <2>1, Writes, SetKeyCoherent DEF SetKey, Kept
  <2>2. ASSUME NEW t \in Token, NEW owner \in Owner \cup {None}, NEW repo \in Repo \cup {None},
               Connect(c, u, t, owner, repo)
        PROVE  Kept
    <3>1. Sealed(t) \in SecretRow /\ Sealed(t) # None /\ Sealed(t).value = t
      BY SealedType, NoneAssumption
    <3>2. Link(c, u, Sealed(t), Binding(t, owner, repo)) /\ Readable
      BY <2>2 DEF Connect, Link
    <3> QED
      BY <3>1, <3>2, BindingType, Writes, LinkCoherent DEF Kept
  <2>3. CASE Disconnect(c, u)
    <3>1. Unbinding \in PrefRows /\ {"github_login", "github_owner"} \subseteq DOMAIN Unbinding
      BY PrefRowsAre DEF Unbinding, PrefKey, PrefValue
    <3>2. Unbinding["github_login"] = None /\ None \in SecretRow
      BY DEF Unbinding, SecretRow
    <3>3. Link(c, u, None, Unbinding) /\ Readable
      BY <2>3 DEF Disconnect, Link
    <3> QED
      BY <3>1, <3>2, <3>3, Writes, LinkCoherent DEF Kept
  <2>4. ASSUME NEW p \in Provider, Update(c, u, p) PROVE Kept
    <3> DEFINE update == [k \in {"ai_provider"} |-> p]
               r == [IdleCall EXCEPT !.pc = "write", !.user = u, !.update = update]
    <3>1. update \in PrefRows /\ DOMAIN update = {"ai_provider"}
      BY PrefRowsAre DEF PrefKey, PrefValue
    <3>2. r \in CallState /\ r.pc = "write" /\ r.user = u /\ r.update = update
      BY <3>1, IdleCallType DEF CallState
    <3>3. Shape(r) /\ "github_login" \notin DOMAIN r.update
      BY <3>1, <3>2 DEF Shape, Writing
    <3>4. call' = [call EXCEPT ![c] = r] /\ db' = db
      BY <2>4 DEF Update
    <3> HIDE DEF r
    <3> QED
      BY <3>2, <3>3, <3>4, CallerCoherent
  <2>5. ASSUME NEW task \in BOOLEAN, AskProvider(c, u, task) PROVE Kept
    <3>1. PICK r \in CallState : /\ Shape(r) /\ r.update = NoRows
                                 /\ call' = Noted([call EXCEPT ![c] = r])
      BY <2>5, AskBegins
    <3>2. db' = db
      BY <2>5 DEF AskProvider
    <3> QED
      BY <1>0, <3>1, <3>2, CallerCoherent
  <2> QED
    BY <1>2, <2>1, <2>2, <2>3, <2>4, <2>5 DEF RequestBegins
<1>3. ASSUME NEW u \in User, Login(u) PROVE Kept
  BY <1>3, LinksKept DEF Login, Kept
<1>4. ASSUME NEW secret \in AuthSecret, Restart(secret) PROVE Kept
  <2>1. \A c \in Call, u \in User : ~Connecting(call'[c], u)
    BY <1>4, IdleCallType, NotConnecting DEF Restart
  <2> QED
    BY <1>4, <2>1 DEF Restart, LinksAgree, Kept
<1> QED
  BY <1>1, <1>2, <1>3, <1>4 DEF AccountsNext

\* A call of the manager copies images and tears or removes them, no more.
LEMMA JobImages ==
  ASSUME BackupTypeOK, NEW j \in Job, JobStep(j)
  PROVE  /\ db' = db \/ db' = Torn \/ \E n \in Name : files[n] # NoFile /\ db' = files[n]
         /\ \A n \in Name : files'[n] \in {files[n], NoFile, Empty, db}
<1> USE DEF BackupTypeOK
<1>0. job[j].chosen \in Name
  BY DEF JobState
<1>1. CASE Create(j) \/ \E n \in Name : Restore(j, n)
  BY <1>1 DEF Create, Restore, Begin
<1>2. CASE Open(j)
  BY <1>2 DEF Open
<1>3. CASE Copy(j)
  BY <1>3 DEF Copy
<1>4. CASE CreateFails(j)
  BY <1>4 DEF CreateFails
<1>5. CASE Overwrite(j)
  BY <1>0, <1>5 DEF Overwrite
<1>6. CASE List(j)
  BY <1>6 DEF List
<1>7. ASSUME NEW n \in Name, Remove(j, n)
      PROVE  db' = db /\ \A m \in Name : files'[m] \in {files[m], NoFile, Empty, db}
  BY <1>7 DEF Remove
<1>8. CASE Crash(j)
  BY <1>8 DEF Crash
<1> QED
  BY <1>1, <1>2, <1>3, <1>4, <1>5, <1>6, <1>7, <1>8 DEF JobStep

ConnectionInv == Types /\ ImagesWhole /\ LinksAgree

LEMMA MaintenanceCoherent ==
  ASSUME ConnectionInv, NEW j \in Job, Maintenance(j), db' \in Tables \cup {Torn}
  PROVE  ImagesWhole' /\ LinksAgree'
<1> USE DEF ConnectionInv
<1>1. JobStep(j) /\ call' = Shaken
  BY DEF Maintenance
<1>2. /\ db' = db \/ db' = Torn \/ \E n \in Name : files[n] # NoFile /\ db' = files[n]
      /\ \A n \in Name : files'[n] \in {files[n], NoFile, Empty, db}
  BY <1>1, JobImages DEF Types
<1>3. ImagesWhole'
  BY <1>2, EmptyTablesWhole, ServerDataAssumption DEF ImagesWhole
<1>4. LinksAgree'
  <2>2. CASE db' = db
    <3>1. call' = call
      BY <1>1, <2>2 DEF Shaken
    <3> QED
      BY <2>2, <3>1 DEF LinksAgree
  <2>3. CASE db' # db
    <3> DEFINE calls == [c \in Call |-> IF Doing(c, "set_up") THEN call[c] ELSE [call[c] EXCEPT !.alone = FALSE]]
    <3>1. ASSUME NEW c \in Call PROVE [call[c] EXCEPT !.alone = FALSE] \in CallState
                                      /\ Shape([call[c] EXCEPT !.alone = FALSE])
      BY CallIs DEF CallState, Shape, Writing
    <3>2. Sound(calls)
      BY <3>1, CallIs DEF Sound
    <3>3. ASSUME NEW c \in Call PROVE ~calls[c].alone \/ calls[c].update = NoRows
      BY CallIs DEF Doing, Shape, Writing, CallState
    <3> HIDE DEF calls
    <3>4. call' = Noted(calls)
      BY <1>1, <2>3 DEF Shaken, calls
    <3>5. ASSUME NEW c \in Call, NEW u \in User PROVE ~(Connecting(call'[c], u) /\ call'[c].alone)
      BY <2>3, <3>2, <3>3, <3>4, NotedLinks, NotConnecting
    <3> QED
      BY <3>5 DEF LinksAgree
  <2> QED
    BY <2>2, <2>3
<1> QED
  BY <1>3, <1>4

LEMMA ConnectionStep ==
  ASSUME ConnectionInv, [Next]_svars
  PROVE  ConnectionInv'
<1> USE DEF ConnectionInv
<1>1. Types' /\ db' \in Tables \cup {Torn}
  BY TypesStep, EmptyTablesType, ServerDataAssumption DEF Types, BackupTypeOK, Image
<1>2. CASE Request
  <2>1. Agreement
    BY DEF Agreement, ImagesWhole
  <2>2. (db' # Torn => Whole(db')) /\ LinksAgree' /\ files' = files
    BY <1>2, <2>1, AccountsCoherent DEF Request, Seen, Kept
  <2> QED
    BY <1>1, <2>2 DEF ImagesWhole
<1>3. ASSUME NEW j \in Job, Maintenance(j) PROVE ConnectionInv'
  BY <1>1, <1>3, MaintenanceCoherent
<1>4. CASE (Tick /\ UNCHANGED processVars) \/ UNCHANGED svars
  <2>1. db' = db /\ files' = files /\ call' = call
    BY <1>4 DEF Tick, processVars, svars, avars, directoryVars
  <2> QED
    BY <1>1, <2>1 DEF ImagesWhole, LinksAgree
<1> QED
  BY <1>2, <1>3, <1>4 DEF Next

LEMMA ConnectionInit == Init => ConnectionInv
<1> SUFFICES ASSUME Init PROVE ImagesWhole /\ LinksAgree
  BY TypesInit DEF ConnectionInv
<1>1. db = EmptyTables /\ (\A n \in Name : files[n] = NoFile) /\ \A c \in Call : call[c] = IdleCall
  BY DEF Init, AccountsInit, ProcessInit, DirectoryInit
<1>2. \A c \in Call, u \in User : ~Connecting(call[c], u)
  BY <1>1, IdleCallType, NotConnecting
<1> QED
  BY <1>1, <1>2, EmptyTablesWhole DEF ImagesWhole, LinksAgree

\* The token row, the login shown for it and the owner that tasks clone from are
\* of the same connection for every user whose last connect or disconnect
\* finished and met no other one, whatever update_settings_for_user of other
\* requests, backups and restores did between the two writes of a connection.
THEOREM ConnectionsStayCoherent == Spec => []ConnectionsCoherent
<1>1. Init => ConnectionInv
  BY ConnectionInit
<1>2. ConnectionInv /\ [Next]_svars => ConnectionInv'
  BY ConnectionStep
<1>3. ConnectionInv => ConnectionsCoherent
  <2> SUFFICES ASSUME ConnectionInv, db # Torn, NEW u \in User, ~db.torn[u]
               PROVE  /\ Prefs(u, FALSE)["github_login"] = Account(db, u)
                      /\ Prefs(u, FALSE)["github_owner"] = db.bound[u]
    BY DEF ConnectionsCoherent, ConnectionCoherent, Account
  <2>1. Whole(db)
    BY DEF ConnectionInv, ImagesWhole
  <2> QED
    BY <2>1, PrefsArePref DEF Whole, PrefKey
<1> QED
  BY <1>1, <1>2, <1>3, PTL DEF Spec

------------------------------------------------------------------------------
(* A build uses what its user chose *)

\* The settings so far are of the choices noted while they were built.
FromOwn(r) ==
  /\ Building(r) \/ r.pc = "set_up" => r.built.provider \in r.providers
  /\ r.pc \in {"own", "generic"} => r.built.again \in r.providers
  /\ r.pc \in {"token", "prefs", "set_up"} =>
       r.built.from \in {KindOf(p) : p \in r.providers} \cup {"ai_api_key", "server"}
  /\ r.pc \in {"prefs", "set_up"} =>
       r.built.token \in r.tokens \/ (None \in r.tokens /\ r.built.token = ServerToken)

\* s is r with perhaps more in its histories.
Continues(r, s) ==
  /\ s.pc = r.pc /\ s.built = r.built
  /\ r.providers \subseteq s.providers /\ r.tokens \subseteq s.tokens
  /\ s.alone => r.alone

BuildsAgree == (\A c \in Call : FromOwn(call[c])) /\ OwnTokenUnlessOvertaken

LEMMA ContinuesFromOwn ==
  ASSUME NEW r, NEW s, FromOwn(r), Continues(r, s)
  PROVE  FromOwn(s)
<1>1. Building(s) <=> Building(r)
  BY DEF Building, Continues
<1> QED
  BY <1>1 DEF FromOwn, Continues

LEMMA NotBuilding ==
  ASSUME NEW r, r.pc \in {"idle", "read", "write"}
  PROVE  FromOwn(r) /\ r.pc # "set_up"
  BY DEF FromOwn, Building

\* A step that ends no build and leaves the environment.
LEMMA BuildsKept ==
  ASSUME BuildsAgree, environ' = environ,
         \A d \in Call : \/ Continues(call[d], call'[d])
                         \/ FromOwn(call'[d]) /\ call'[d].pc # "set_up"
  PROVE  BuildsAgree'
<1>1. ASSUME NEW d \in Call PROVE FromOwn(call'[d])
  BY ContinuesFromOwn DEF BuildsAgree
<1>2. ASSUME NEW d \in Call, Doing(d, "set_up")'
      PROVE  (UsedToken(d) = call[d].built.token)' \/ ~call'[d].alone \/ call'[d].built.token = None
  <2>1. Continues(call[d], call'[d])
    BY <1>2 DEF Doing
  <2>2. Doing(d, "set_up") /\ call'[d].built = call[d].built /\ (call'[d].alone => call[d].alone)
    BY <1>2, <2>1 DEF Doing, Continues
  <2>3. UsedToken(d) = call[d].built.token \/ ~call[d].alone \/ call[d].built.token = None
    BY <2>2 DEF BuildsAgree, OwnTokenUnlessOvertaken
  <2> QED
    BY <2>2, <2>3 DEF UsedToken
<1> QED
  BY <1>1, <1>2 DEF BuildsAgree, OwnTokenUnlessOvertaken

LEMMA NotedContinues ==
  ASSUME NEW calls, Sound(calls), db' \in Tables \cup {Torn}, call' = Noted(calls), NEW c \in Call
  PROVE  Continues(calls[c], call'[c])
  BY NotedCalls DEF Sound, Continues

\* A step of one call that is not its last of a build.
LEMMA CallerBuilds ==
  ASSUME Types, BuildsAgree, NEW c \in Call, NEW r \in CallState, Shape(r), db' \in Tables \cup {Torn}, environ' = environ,
         call' = [call EXCEPT ![c] = r] \/ call' = Noted([call EXCEPT ![c] = r]),
         FromOwn(call'[c]) /\ r.pc # "set_up"
  PROVE  BuildsAgree'
<1> DEFINE calls == [call EXCEPT ![c] = r]
<1>1. Sound(calls)
  BY OneCall DEF Types
<1>2. calls[c] = r /\ \A d \in Call \ {c} : calls[d] = call[d]
  BY DEF Types, Sound
<1> HIDE DEF calls
<1>3. ASSUME NEW d \in Call PROVE Continues(calls[d], call'[d])
  <2>1. CASE call' = calls
    BY <2>1 DEF Continues
  <2>2. CASE call' = Noted(calls)
    BY <1>1, <2>2, NotedContinues
  <2> QED
    BY <2>1, <2>2 DEF calls
<1>4. call'[c].pc # "set_up"
  BY <1>2, <1>3 DEF Continues
<1>5. ASSUME NEW d \in Call \ {c} PROVE Continues(call[d], call'[d])
  BY <1>2, <1>3
<1> QED
  BY <1>4, <1>5, BuildsKept

\* What is read is the user's at that moment, or the server's and noted: a step of
\* a build adds what it is made of to the histories.
LEMMA AskFromOwn ==
  ASSUME Types, db # Torn => Whole(db), BuildsAgree, NEW c \in Call,
         AskAgain(c) \/ AskOwnKey(c) \/ AskGenericKey(c) \/ AskToken(c)
  PROVE  BuildsAgree'
<1> DEFINE u == call[c].user
           b == call[c].built
           more(pc, built, ps, ts) ==
             [pc |-> pc, built |-> built, alone |-> call[c].alone,
              providers |-> call[c].providers \cup ps \cup (IF Readable THEN {db.chosen[u]} ELSE {}),
              tokens |-> call[c].tokens \cup ts \cup (IF Readable THEN {Opened(db.linked[u])} ELSE {})]
<1>1. /\ u \in User /\ Building(call[c]) /\ b \in Build /\ FromOwn(call[c]) /\ call[c] \in CallState
      /\ Shape(call[c])
  BY CallIs DEF AskAgain, AskOwnKey, AskGenericKey, AskToken, Doing, Shape, Building, BuildsAgree
<1>2. ASSUME NEW pc \in {"own", "generic", "token", "prefs"}, NEW built \in Build,
             NEW ps \in SUBSET PrefValue, NEW ts \in SUBSET (Kind \cup Token \cup {ServerToken, None}),
             Asked(c, pc, built, ps, ts), FromOwn(more(pc, built, ps, ts))
      PROVE  BuildsAgree'
  <2>0. PICK r \in CallState : Continued(r, c, pc, built, ps, ts)
    BY <1>1, <1>2, AskedCall
  <2>1. /\ Shape(r) /\ r.pc = pc /\ r.user = u /\ r.built = built /\ r.alone = call[c].alone
        /\ r.providers = call[c].providers \cup ps /\ r.tokens = call[c].tokens \cup ts
        /\ call' = Noted([call EXCEPT ![c] = r])
        /\ Sound([call EXCEPT ![c] = r])
    BY <2>0 DEF Continued
  <2>2. UNCHANGED <<db, environ>>
    BY <1>2 DEF Asked
  <2>3. [call EXCEPT ![c] = r][c] = r
    BY DEF Types, Sound
  <2>4. /\ call'[c].pc = pc /\ call'[c].built = built /\ call'[c].alone = call[c].alone
        /\ r.providers \subseteq call'[c].providers /\ r.tokens \subseteq call'[c].tokens
        /\ Readable => db.chosen[u] \in call'[c].providers /\ Opened(db.linked[u]) \in call'[c].tokens
    <3>1. Building(r) /\ db' \in Tables \cup {Torn}
      BY <2>1, <2>2, ImageType DEF Building
    <3> QED
      BY <2>1, <2>2, <2>3, <3>1, NotedCalls DEF Sound, Readable
  <2>5. Continues(more(pc, built, ps, ts), call'[c])
    BY <2>1, <2>4 DEF Continues
  <2>6. FromOwn(call'[c])
    BY <1>2, <2>5, ContinuesFromOwn
  <2>7. pc # "set_up" /\ db' \in Tables \cup {Torn}
    BY <2>2, ImageType
  <2> QED
    BY <2>1, <2>2, <2>6, <2>7, CallerBuilds
<1>3. ASSUME NEW pc, NEW built, NEW ps, NEW ts
      PROVE  /\ more(pc, built, ps, ts).pc = pc /\ more(pc, built, ps, ts).built = built
             /\ call[c].providers \cup ps \subseteq more(pc, built, ps, ts).providers
             /\ call[c].tokens \cup ts \subseteq more(pc, built, ps, ts).tokens
             /\ Readable => /\ db.chosen[u] \in more(pc, built, ps, ts).providers
                            /\ Opened(db.linked[u]) \in more(pc, built, ps, ts).tokens
  OBVIOUS
<1>4. {} \in SUBSET PrefValue /\ {} \in SUBSET (Kind \cup Token \cup {ServerToken, None})
  OBVIOUS
<1> HIDE DEF more
<1>5. CASE AskAgain(c)
  <2>0. PICK fails \in Fails :
          LET p == Preferred(u, fails)
          IN  Asked(c, IF p \in KeyedProvider THEN "own" ELSE "generic",
                    [b EXCEPT !.again = p], Instead(ServerProvider, fails), {})
    BY <1>5 DEF AskAgain
  <2> DEFINE p == Preferred(u, fails)
             built == [b EXCEPT !.again = p]
             pc == IF p \in KeyedProvider THEN "own" ELSE "generic"
             ps == Instead(ServerProvider, fails)
  <2>1. /\ p \in PrefValue /\ ps \in SUBSET PrefValue
        /\ p \in ps \/ (Readable /\ p = db.chosen[u])
    BY <1>1, PrefsType, ImageType, AccountsAssumption DEF Whole, Instead, Fails, Readable, PrefValue
  <2>2. built \in Build /\ built.again = p /\ built.provider = b.provider
    BY <1>1, <2>1 DEF Build
  <2>3. Asked(c, pc, built, ps, {}) /\ pc \in {"own", "generic"}
    BY <2>0
  <2> HIDE DEF pc, built, p, ps
  <2>4. FromOwn(more(pc, built, ps, {}))
    BY <1>1, <1>3, <2>1, <2>2, <2>3 DEF FromOwn, Building
  <2> QED
    BY <1>2, <1>4, <2>1, <2>2, <2>3, <2>4
<1>6. CASE AskOwnKey(c)
  <2> DEFINE built == [b EXCEPT !.from = KindOf(b.again)]
  <2>1. built \in Build /\ built.from = KindOf(b.again) /\ built.provider = b.provider
    BY <1>1 DEF Build, KindOf, Kind
  <2>2. b.again \in call[c].providers /\ b.provider \in call[c].providers
    BY <1>1, <1>6 DEF AskOwnKey, Doing, FromOwn
  <2>3. Asked(c, "token", built, {}, {}) \/ Asked(c, "generic", b, {}, {})
    BY <1>6 DEF AskOwnKey
  <2> HIDE DEF built
  <2>4. FromOwn(more("token", built, {}, {})) /\ FromOwn(more("generic", b, {}, {}))
    <3>1. FromOwn(more("token", built, {}, {}))
      BY <1>3, <2>1, <2>2 DEF FromOwn, Building
    <3>2. FromOwn(more("generic", b, {}, {}))
      BY <1>3, <2>2 DEF FromOwn, Building
    <3> QED
      BY <3>1, <3>2
  <2> QED
    BY <1>1, <1>2, <1>4, <2>1, <2>3, <2>4
<1>7. CASE AskGenericKey(c)
  <2>1. PICK from \in {"ai_api_key", "server"} : Asked(c, "token", [b EXCEPT !.from = from], {}, {})
    BY <1>7 DEF AskGenericKey
  <2> DEFINE built == [b EXCEPT !.from = from]
  <2>2. built \in Build /\ built.from = from /\ built.provider = b.provider
    BY <1>1 DEF Build, Kind
  <2>3. b.provider \in call[c].providers
    BY <1>1 DEF FromOwn
  <2>4. Asked(c, "token", built, {}, {})
    BY <2>1
  <2> HIDE DEF built
  <2>5. FromOwn(more("token", built, {}, {}))
    BY <1>3, <2>2, <2>3 DEF FromOwn, Building
  <2> QED
    BY <1>2, <1>4, <2>2, <2>4, <2>5
<1>8. CASE AskToken(c)
  <2>0. PICK fails \in Fails :
          LET t == Secret(u, "github_token", fails)
          IN  Asked(c, "prefs", [b EXCEPT !.token = IF t = None THEN ServerToken ELSE t],
                    {}, Instead(None, fails))
    BY <1>8 DEF AskToken
  <2> DEFINE t == Secret(u, "github_token", fails)
             token == IF t = None THEN ServerToken ELSE t
             built == [b EXCEPT !.token = token]
             ts == Instead(None, fails)
  <2>1. /\ "github_token" \in Kind /\ ts \in SUBSET (Kind \cup Token \cup {ServerToken, None})
        /\ t \in ts \/ (Readable /\ t = Opened(db.linked[u]))
    BY <1>1 DEF Secret, Whole, Kind, Instead, Fails, Readable
  <2>2. t \in Kind \cup Token \cup {None}
    BY <1>1, <2>1, SecretType, ImageType
  <2>3. token \in Kind \cup Token \cup {ServerToken, None} /\ (token = t \/ (t = None /\ token = ServerToken))
    BY <2>2
  <2>4. built \in Build /\ built.token = token /\ built.provider = b.provider /\ built.from = b.from
    BY <1>1, <2>3 DEF Build
  <2>5. /\ b.provider \in call[c].providers
        /\ b.from \in {KindOf(p) : p \in call[c].providers} \cup {"ai_api_key", "server"}
    BY <1>1, <1>8 DEF AskToken, Doing, FromOwn
  <2>6. Asked(c, "prefs", built, {}, ts)
    BY <2>0
  <2> HIDE DEF built, token, t, ts
  <2>7. FromOwn(more("prefs", built, {}, ts))
    BY <1>3, <2>1, <2>3, <2>4, <2>5 DEF FromOwn, Building
  <2> QED
    BY <1>2, <1>4, <2>1, <2>4, <2>6, <2>7
<1> QED
  BY <1>5, <1>6, <1>7, <1>8

\* A step that only adds to the histories of the calls it does not end or begin.
LEMMA NotedBuilds ==
  ASSUME Types, BuildsAgree, NEW calls, Sound(calls), db' \in Tables \cup {Torn}, environ' = environ,
         call' = Noted(calls),
         \A d \in Call : Continues(call[d], calls[d]) \/ calls[d].pc \in {"idle", "read", "write"}
  PROVE  BuildsAgree'
<1>1. ASSUME NEW d \in Call
      PROVE  Continues(call[d], call'[d]) \/ call'[d].pc \in {"idle", "read", "write"}
  <2>1. Continues(calls[d], call'[d])
    BY NotedContinues
  <2> QED
    BY <2>1 DEF Continues
<1> QED
  BY <1>1, NotBuilding, BuildsKept

LEMMA FinishFromOwn ==
  ASSUME Types, BuildsAgree, NEW c \in Call, NEW fails \in Fails, Finish(c, fails)
  PROVE  BuildsAgree'
<1> DEFINE u == call[c].user
           token == call[c].built.token
           r == [call[c] EXCEPT !.pc = "set_up",
                                !.built.owner = Or(Prefs(u, fails)["github_owner"], ServerOwner),
                                !.built.repo = Or(Prefs(u, fails)["github_repo"], ServerRepo)]
           waiting == {d \in Call \ {c} : Doing(d, "set_up")}
<1>1. call[c] \in CallState /\ call[c].built \in Build /\ call[c].pc = "prefs" /\ FromOwn(call[c])
  BY CallIs DEF Finish, Doing, BuildsAgree
<1>2. /\ r.pc = "set_up" /\ r.built.provider = call[c].built.provider /\ r.built.from = call[c].built.from
      /\ r.built.token = token /\ r.providers = call[c].providers /\ r.tokens = call[c].tokens
  BY <1>1 DEF CallState, Build
<1>3. environ' = IF token = None THEN environ ELSE token
  BY DEF Finish, Mirrored
<1>4. call'[c] = IdleCall \/ call'[c] = r
  BY DEF Finish
<1>5. ASSUME NEW d \in Call \ {c}
      PROVE  /\ Continues(call[d], call'[d])
             /\ call'[d].pc = "set_up" /\ call'[d].alone => token = None
  <2>0. call[d] \in CallState
    BY CallIs
  <2>1. CASE d \in waiting /\ token # None
    <3>1. call'[d] = [call[d] EXCEPT !.alone = FALSE]
      BY <2>1 DEF Finish
    <3> QED
      BY <2>0, <3>1 DEF CallState, Continues
  <2>2. CASE ~(d \in waiting /\ token # None)
    <3>1. call'[d] = call[d]
      BY <2>2 DEF Finish
    <3> QED
      BY <2>2, <3>1 DEF Continues, Doing
  <2> QED
    BY <2>1, <2>2
<1> HIDE DEF r, waiting
<1>6. FromOwn(r)
  BY <1>1, <1>2 DEF FromOwn, Building
<1>7. ASSUME NEW d \in Call PROVE FromOwn(call'[d])
  <2>1. FromOwn(IdleCall)
    BY IdleCallType, NotBuilding
  <2>2. CASE d = c
    BY <1>4, <1>6, <2>1, <2>2
  <2>3. CASE d # c
    BY <1>5, <2>3, ContinuesFromOwn DEF BuildsAgree
  <2> QED
    BY <2>2, <2>3
<1>8. ASSUME NEW d \in Call, call'[d].pc = "set_up", call'[d].alone, call'[d].built.token # None
      PROVE  UsedToken(d)' = call'[d].built.token
  <2>1. CASE d = c
    BY <1>2, <1>3, <1>4, <1>8, <2>1, IdleCallType DEF UsedToken
  <2>2. CASE d # c
    <3>1. environ' = environ
      BY <1>3, <1>5, <1>8, <2>2
    <3>2. call[d].pc = "set_up" /\ call[d].alone /\ call'[d].built = call[d].built
      BY <1>5, <1>8, <2>2 DEF Continues
    <3>3. UsedToken(d) = call[d].built.token
      BY <1>8, <3>2 DEF BuildsAgree, OwnTokenUnlessOvertaken, Doing
    <3> QED
      BY <3>1, <3>2, <3>3 DEF UsedToken
  <2> QED
    BY <2>1, <2>2
<1> QED
  BY <1>7, <1>8 DEF BuildsAgree, OwnTokenUnlessOvertaken, Doing

LEMMA AccountsFromOwn ==
  ASSUME Types, db # Torn => Whole(db), BuildsAgree, AccountsNext
  PROVE  BuildsAgree'
<1>0. db' \in Tables \cup {Torn} /\ Sound(call) /\ Sound(call')
  BY AccountsSettled, ImageType DEF Settled, Types, Sound
<1>1. ASSUME NEW c \in Call, RequestStep(c) PROVE BuildsAgree'
  <2>1. CASE ReadPrefs(c)
    <3>1. call[c] \in CallState /\ call[c].user \in User
      BY <2>1, CallIs DEF ReadPrefs, Doing, Shape
    <3>2. [call[c] EXCEPT !.pc = "write"].pc = "write"
      BY <3>1 DEF CallState
    <3>3. call'[c].pc = "write" /\ \A d \in Call \ {c} : call'[d] = call[d]
      BY <1>0, <2>1, <3>2 DEF ReadPrefs, Sound
    <3>4. environ' = environ /\ \A d \in Call : Continues(call[d], call'[d]) \/ call'[d].pc = "write"
      BY <2>1, <3>3 DEF ReadPrefs, Continues
    <3> QED
      BY <3>4, NotBuilding, BuildsKept
  <2>2. CASE WritePrefs(c)
    <3> DEFINE calls == [call EXCEPT ![c] = IdleCall]
    <3>1. Sound(calls)
      BY <1>0, IdleCallType, IdleShape, OneCall
    <3>2. \A d \in Call : Continues(call[d], calls[d]) \/ calls[d].pc = "idle"
      BY <1>0, IdleCallType DEF Sound, Continues
    <3>3. call' = Noted(calls) /\ environ' = environ
      BY <2>2 DEF WritePrefs
    <3> HIDE DEF calls
    <3> QED
      BY <1>0, <3>1, <3>2, <3>3, NotedBuilds
  <2>3. CASE WriteFails(c) \/ SetUp(c)
    <3>1. environ' = environ /\ \A d \in Call : Continues(call[d], call'[d]) \/ call'[d].pc = "idle"
      BY <1>0, <2>3, IdleCallType DEF WriteFails, SetUp, Sound, Continues
    <3> QED
      BY <3>1, NotBuilding, BuildsKept
  <2>4. CASE AskAgain(c) \/ AskOwnKey(c) \/ AskGenericKey(c) \/ AskToken(c)
    BY <2>4, AskFromOwn
  <2>5. ASSUME NEW fails \in Fails, Finish(c, fails) PROVE BuildsAgree'
    BY <2>5, FinishFromOwn
  <2> QED
    BY <1>1, <2>1, <2>2, <2>3, <2>4, <2>5 DEF RequestStep
<1>2. ASSUME NEW c \in Call, NEW u \in User, RequestBegins(c, u) PROVE BuildsAgree'
  <2>1. ASSUME NEW k \in Kind \ {"github_token"}, SetKey(c, u, k) PROVE BuildsAgree'
    <3>1. call' = Noted(call) /\ environ' = environ /\ \A d \in Call : Continues(call[d], call[d])
      BY <2>1 DEF SetKey, Continues
    <3> QED
      BY <1>0, <3>1, NotedBuilds
  <2>2. ASSUME NEW row, NEW update \in PrefRows,
               {"github_login", "github_owner"} \subseteq DOMAIN update, Link(c, u, row, update)
        PROVE  BuildsAgree'
    <3> DEFINE others == {d \in Call : Connecting(call[d], u)}
               linking == [IdleCall EXCEPT !.pc = "read", !.user = u, !.update = update,
                                           !.alone = others = {}]
               calls == [d \in Call |-> IF d = c THEN linking
                                        ELSE IF d \in others THEN [call[d] EXCEPT !.alone = FALSE]
                                        ELSE call[d]]
    <3>1. linking \in CallState /\ linking.pc = "read" /\ linking.user = u /\ linking.update = update
      BY <2>2, IdleCallType DEF CallState
    <3>2. Shape(linking)
      BY <2>2, <3>1 DEF Shape, Writing
    <3>3. ASSUME NEW d \in Call PROVE /\ [call[d] EXCEPT !.alone = FALSE] \in CallState
                                      /\ Shape([call[d] EXCEPT !.alone = FALSE])
                                      /\ Continues(call[d], [call[d] EXCEPT !.alone = FALSE])
                                      /\ Continues(call[d], call[d])
      BY CallIs DEF CallState, Shape, Writing, Continues
    <3> HIDE DEF linking
    <3>4. Sound(calls)
      BY <3>1, <3>2, <3>3, CallIs DEF Sound
    <3>5. \A d \in Call : Continues(call[d], calls[d]) \/ calls[d].pc = "read"
      BY <3>1, <3>3
    <3>6. call' = Noted(calls) /\ environ' = environ
      BY <2>2 DEF Link, linking
    <3> HIDE DEF calls
    <3> QED
      BY <1>0, <3>4, <3>5, <3>6, NotedBuilds
  <2>3. ASSUME NEW t \in Token, NEW owner \in Owner \cup {None}, NEW repo \in Repo \cup {None},
               Connect(c, u, t, owner, repo)
        PROVE  BuildsAgree'
    BY <2>2, <2>3, BindingType DEF Connect
  <2>4. CASE Disconnect(c, u)
    <3>1. Unbinding \in PrefRows /\ {"github_login", "github_owner"} \subseteq DOMAIN Unbinding
      BY PrefRowsAre DEF Unbinding, PrefKey, PrefValue
    <3> QED
      BY <2>2, <2>4, <3>1 DEF Disconnect
  <2>5. ASSUME NEW p \in Provider, Update(c, u, p) PROVE BuildsAgree'
    <3> DEFINE r == [IdleCall EXCEPT !.pc = "write", !.user = u,
                                     !.update = [k \in {"ai_provider"} |-> p]]
    <3>1. r.pc = "write"
      BY IdleCallType DEF CallState
    <3>2. call' = [call EXCEPT ![c] = r] /\ environ' = environ
      BY <2>5 DEF Update
    <3> HIDE DEF r
    <3>3. \A d \in Call : Continues(call[d], call'[d]) \/ call'[d].pc = "write"
      BY <1>0, <3>1, <3>2 DEF Sound, Continues
    <3> QED
      BY <3>2, <3>3, NotBuilding, BuildsKept
  <2>6. ASSUME NEW task \in BOOLEAN, AskProvider(c, u, task) PROVE BuildsAgree'
    <3>1. PICK r \in CallState : /\ Shape(r) /\ r.pc = "again" /\ r.user = u
                                 /\ \/ r.built.provider \in r.providers
                                    \/ Readable /\ r.built.provider = Pref(db, u, "ai_provider")
                                 /\ call' = Noted([call EXCEPT ![c] = r])
      BY <2>6, AskBegins
    <3>2. db' = db /\ environ' = environ /\ (Readable => Pref(db, u, "ai_provider") = db.chosen[u])
      BY <2>6 DEF AskProvider, Whole, Readable
    <3> DEFINE calls == [call EXCEPT ![c] = r]
    <3>3. Sound(calls) /\ calls[c] = r
      BY <1>0, <3>1, OneCall DEF Sound
    <3> HIDE DEF calls
    <3>4. /\ call'[c].pc = "again" /\ call'[c].built = r.built
          /\ r.providers \subseteq call'[c].providers
          /\ Readable => db.chosen[u] \in call'[c].providers
      BY <1>0, <3>1, <3>2, <3>3, NotedCalls DEF Sound, Building, Readable, calls
    <3>5. FromOwn(call'[c]) /\ r.pc # "set_up"
      BY <3>1, <3>2, <3>4 DEF FromOwn
    <3> QED
      BY <1>0, <3>1, <3>2, <3>5, CallerBuilds
  <2> QED
    BY <1>2, <2>1, <2>3, <2>4, <2>5, <2>6 DEF RequestBegins
<1>3. ASSUME NEW u \in User, Login(u) PROVE BuildsAgree'
  BY <1>3, BuildsKept DEF Login, Continues
<1>4. ASSUME NEW secret \in AuthSecret, Restart(secret) PROVE BuildsAgree'
  <2>1. \A c \in Call : call'[c].pc = "idle"
    BY <1>4, IdleCallType DEF Restart
  <2>2. \A c \in Call : FromOwn(call'[c])
    BY <2>1, NotBuilding
  <2> QED
    BY <2>1, <2>2 DEF BuildsAgree, OwnTokenUnlessOvertaken, Doing
<1> QED
  BY <1>1, <1>2, <1>3, <1>4 DEF AccountsNext

LEMMA ShakenFromOwn ==
  ASSUME Types, BuildsAgree, environ' = environ, call' = Shaken, db' \in Tables \cup {Torn}
  PROVE  BuildsAgree'
<1>2. CASE db' = db
  BY <1>2, BuildsKept DEF Shaken, Continues
<1>3. CASE db' # db
  <2> DEFINE calls == [d \in Call |-> IF Doing(d, "set_up") THEN call[d] ELSE [call[d] EXCEPT !.alone = FALSE]]
  <2>1. ASSUME NEW d \in Call PROVE /\ [call[d] EXCEPT !.alone = FALSE] \in CallState
                                    /\ Shape([call[d] EXCEPT !.alone = FALSE])
                                    /\ Continues(call[d], [call[d] EXCEPT !.alone = FALSE])
                                    /\ Continues(call[d], call[d])
    BY CallIs DEF CallState, Shape, Writing, Continues
  <2>2. Sound(calls) /\ \A d \in Call : Continues(call[d], calls[d])
    BY <2>1, CallIs DEF Sound
  <2> HIDE DEF calls
  <2>3. call' = Noted(calls)
    BY <1>3 DEF Shaken, calls
  <2> QED
    BY <2>2, <2>3, NotedBuilds
<1> QED
  BY <1>2, <1>3

LEMMA BuildsAgreeAlways == Spec => [](ConnectionInv /\ BuildsAgree)
<1>1. Init => ConnectionInv /\ BuildsAgree
  <2> SUFFICES ASSUME Init PROVE BuildsAgree
    BY ConnectionInit
  <2>1. \A c \in Call : call[c].pc = "idle"
    BY IdleCallType DEF Init, AccountsInit, ProcessInit
  <2> QED
    BY <2>1, NotBuilding DEF BuildsAgree, OwnTokenUnlessOvertaken, Doing
<1>2. (ConnectionInv /\ BuildsAgree) /\ [Next]_svars => (ConnectionInv /\ BuildsAgree)'
  <2> SUFFICES ASSUME ConnectionInv, BuildsAgree, [Next]_svars PROVE BuildsAgree'
    BY ConnectionStep
  <2>1. CASE Request
    BY <2>1, AccountsFromOwn DEF Request, ConnectionInv, ImagesWhole
  <2>2. ASSUME NEW j \in Job, Maintenance(j) PROVE BuildsAgree'
    <3>1. db' \in Tables \cup {Torn}
      BY TypesStep, EmptyTablesType, ServerDataAssumption DEF ConnectionInv, Types, BackupTypeOK, Image
    <3> QED
      BY <2>2, <3>1, ShakenFromOwn DEF Maintenance, ConnectionInv
  <2>3. CASE (Tick /\ UNCHANGED processVars) \/ UNCHANGED svars
    <3>1. environ' = environ /\ call' = call
      BY <2>3 DEF processVars, svars, avars
    <3> QED
      BY <3>1, BuildsKept DEF Continues
  <2> QED
    BY <2>1, <2>2, <2>3 DEF Next
<1> QED
  BY <1>1, <1>2, PTL DEF Spec

\* The provider, the key and the token of the settings build_user_settings hands
\* to a task are of choices its own user had made by then, or the server's where
\* the read of them failed, however the reads of the build interleave with other
\* requests, restarts, restores and a torn database.
THEOREM SettingsAreTheUsers == Spec => []BuiltFromOwnChoices
<1>1. BuildsAgree => BuiltFromOwnChoices
  BY DEF BuildsAgree, BuiltFromOwnChoices, FromOwn, Doing
<1> QED
  BY <1>1, BuildsAgreeAlways, PTL

\* A task that has a token works with its own, unless another build ended before
\* it was set up: os.environ is the only way tokens of users get mixed.
THEOREM TokensMixOnlyByOvertaking == Spec => []OwnTokenUnlessOvertaken
<1>1. BuildsAgree => OwnTokenUnlessOvertaken
  BY DEF BuildsAgree
<1> QED
  BY <1>1, BuildsAgreeAlways, PTL
===============================================================================
