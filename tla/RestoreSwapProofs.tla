--------------------------- MODULE RestoreSwapProofs ---------------------------
(* What restores promise, for any number of processes, writers and directories. *)
EXTENDS RestoreSwap, TLAPS

Vaults == Marks \cup {Old} \cup {archive.vault : archive \in Exports}
NoVault == {"unused", "gone"}
Archive == [vault : Vaults \ NoVault, events : SUBSET Events]
Directory == [vault : Vaults, built : {"empty", "files", "index"}, events : SUBSET Events,
              snapshots : SUBSET Archive]
Phases == {"idle", "stage", "files", "index", "swap", "activate", "sync", "done", "failed",
           "undo", "undo rename", "undo staging", "stuck"}
Job == [pc : Phases, archive : Archive \cup {None}, staging : Dirs \cup {None},
        old : Dirs \cup {None}]

TypeOK ==
    /\ content \in [Dirs -> Directory]
    /\ target \in Dirs \cup {None}
    /\ maintenance \in Procs \cup {None}
    /\ job \in [Procs -> Job]
    /\ opened \in [Writers -> Dirs \cup {None}]

WholeIsThere == \A d \in Dirs : Whole(d) => There(d)
TargetIsThere == target # None => There(target)

\* The name leads to a ledger and nothing else, which a writer made.
BareTarget(x) == target # None /\ target # job[x].staging /\ Bare(target) /\ There(target)

HoldsLock(x) == job[x].pc # "idle" => maintenance = x /\ job[x].archive \in Archive

StagingStands(x) ==
    /\ job[x].pc = "stage" => job[x].staging = None
    /\ job[x].pc \in {"files", "index", "swap", "activate", "sync", "undo", "undo rename",
                      "undo staging"}
          => job[x].staging \in Dirs /\ There(job[x].staging)
    /\ job[x].pc \in {"swap", "activate", "sync"} => Whole(job[x].staging)

\* Until the old vault is moved away, and once it is back.
OldStands(x) ==
    job[x].pc \in {"stage", "files", "index", "swap", "undo staging"}
       => target = job[x].old \/ BareTarget(x)

\* The vault that was there when the restore began, under its name or that of its backup.
OldIsThere(x) ==
    job[x].pc # "idle" /\ job[x].old # None => There(job[x].old) /\ job[x].old # job[x].staging

NameIsFree(x) ==
    job[x].pc \in {"activate", "undo", "undo rename"}
       => target = None \/ (BareTarget(x) /\ target # job[x].old)

NewStands(x) ==
    job[x].pc \in {"sync", "done"}
       => target = job[x].staging /\ target # None /\ Whole(target)

FailedSafely(x) ==
    job[x].pc = "failed" =>
        \/ target = job[x].old
        \/ target = job[x].staging /\ target # None /\ Whole(target)
        \/ target # None /\ Bare(target)

Restoring(x) ==
    HoldsLock(x) /\ StagingStands(x) /\ OldStands(x) /\ NameIsFree(x) /\ NewStands(x)
      /\ OldIsThere(x) /\ FailedSafely(x)

IInv == TypeOK /\ WholeIsThere /\ TargetIsThere /\ \A x \in Procs : Restoring(x)

-----------------------------------------------------------------------------

LEMMA IdleRestores == ASSUME NEW x \in Procs, job[x].pc = "idle" PROVE Restoring(x)
  BY DEF Restoring, HoldsLock, StagingStands, OldStands, NameIsFree, NewStands,
             OldIsThere, FailedSafely

LEMMA InitIInv == Init => IInv
<1> SUFFICES ASSUME Init PROVE IInv
  OBVIOUS
<1>1. target \in Dirs
  BY SomeDir DEF Init
<1>2. Unused \in Directory /\ [Unused EXCEPT !.vault = Old, !.built = "index"] \in Directory
  BY DEF Unused, Directory, Vaults, Marks
<1>3. content \in [Dirs -> Directory]
  BY <1>2 DEF Init
<1>4. Idle \in Job
  BY DEF Idle, Job, Phases
<1>5. TypeOK
  BY <1>1, <1>3, <1>4 DEF Init, TypeOK
<1>6. WholeIsThere
  BY OldIsNoMark DEF Init, WholeIsThere, Whole, There, Unused, Marks
<1>7. \A x \in Procs : Restoring(x)
  BY IdleRestores DEF Init, Idle
<1>8. TargetIsThere
  BY <1>1, OldIsNoMark DEF Init, TargetIsThere, There, Marks
<1> QED BY <1>5, <1>6, <1>7, <1>8 DEF IInv

\* Only the holder of the lock is at work.
LEMMA OthersAreIdle ==
  ASSUME IInv, NEW x \in Procs, job[x].pc # "idle", NEW y \in Procs, y # x
  PROVE  job[y].pc = "idle"
  BY DEF IInv, Restoring, HoldsLock

LEMMA FreeLockMeansIdle ==
  ASSUME IInv, maintenance = None, NEW y \in Procs
  PROVE  job[y].pc = "idle"
  BY NoneIsNothing DEF IInv, Restoring, HoldsLock

\* What one process does to its own job leaves the others idle.
LEMMA StepOfOne ==
  ASSUME IInv, NEW x \in Procs, job[x].pc # "idle" \/ maintenance = None,
         NEW j \in Job, job' = [job EXCEPT ![x] = j],
         Restoring(x)'
  PROVE  \A y \in Procs : Restoring(y)'
<1> SUFFICES ASSUME NEW y \in Procs, y # x PROVE Restoring(y)'
  OBVIOUS
<1>1. job[y].pc = "idle"
  BY OthersAreIdle, FreeLockMeansIdle
<1>2. job'[y].pc = "idle"
  BY <1>1 DEF IInv, TypeOK
<1> QED BY <1>2 DEF Restoring, HoldsLock, StagingStands, OldStands, NameIsFree, NewStands,
                    OldIsThere,
                    FailedSafely

\* Changing what a directory holds, other than removing it.
LEMMA NewDirIsFree == ASSUME Free # {} PROVE NewDir \in Dirs /\ content[NewDir] = Unused
  BY DEF Free, NewDir

LEMMA DirectoryFields ==
  ASSUME TypeOK, NEW d \in Dirs
  PROVE  /\ content[d] \in Directory
         /\ content[d].vault \in Vaults /\ content[d].events \subseteq Events
         /\ content[d].snapshots \subseteq Archive
         /\ content[d].built \in {"empty", "files", "index"}
  BY DEF TypeOK, Directory

LEMMA JobFields ==
  ASSUME TypeOK, NEW x \in Procs
  PROVE  /\ job[x] \in Job
         /\ job[x].pc \in Phases /\ job[x].archive \in Archive \cup {None}
         /\ job[x].staging \in Dirs \cup {None} /\ job[x].old \in Dirs \cup {None}
  BY DEF TypeOK, Job

LEMMA ArchivesAreArchives == ASSUME TypeOK PROVE Archives \subseteq Archive
<1>1. Exports \subseteq Archive
  BY ExportsAreArchives DEF Archive, Vaults, NoVault, Marks
<1>2. target # None => content[target].snapshots \subseteq Archive
  BY DirectoryFields DEF TypeOK
<1> QED BY <1>1, <1>2 DEF Archives

\* A step of a restore keeps the invariant when it keeps what the invariant says of its process.
LEMMA RestoreStep ==
  ASSUME IInv, NEW x \in Procs, job[x].pc # "idle" \/ maintenance = None,
         NEW j \in Job, job' = [job EXCEPT ![x] = j],
         content' \in [Dirs -> Directory], target' \in Dirs \cup {None},
         maintenance' \in Procs \cup {None}, UNCHANGED opened,
         WholeIsThere', TargetIsThere', Restoring(x)'
  PROVE  IInv'
<1>1. TypeOK'
  BY DEF IInv, TypeOK
<1>2. \A y \in Procs : Restoring(y)'
  BY StepOfOne
<1> QED BY <1>1, <1>2 DEF IInv

\* A step that leaves the directories alone.
LEMMA ControlStep ==
  ASSUME IInv, NEW x \in Procs, job[x].pc # "idle" \/ maintenance = None,
         NEW j \in Job, job' = [job EXCEPT ![x] = j],
         target' \in Dirs \cup {None}, maintenance' \in Procs \cup {None},
         target' \in {target, None} \/ There(target'),
         UNCHANGED <<content, opened>>, Restoring(x)'
  PROVE  IInv'
<1>1. content' \in [Dirs -> Directory] /\ WholeIsThere' /\ TargetIsThere'
  BY DEF IInv, TypeOK, WholeIsThere, TargetIsThere, Whole, There
<1> QED BY <1>1, RestoreStep

\* Where a job goes it keeps its archive and its directories.
LEMMA GoesMeans ==
  ASSUME TypeOK, NEW x \in Procs, NEW pc \in Phases, Goes(x, pc)
  PROVE  /\ [job[x] EXCEPT !.pc = pc] \in Job
         /\ job' = [job EXCEPT ![x] = [job[x] EXCEPT !.pc = pc]]
         /\ job'[x].pc = pc /\ job'[x].archive = job[x].archive
         /\ job'[x].staging = job[x].staging /\ job'[x].old = job[x].old
<1> DEFINE j == [job[x] EXCEPT !.pc = pc]
<1>1. j = [pc |-> pc, archive |-> job[x].archive, staging |-> job[x].staging, old |-> job[x].old]
  BY JobFields DEF Job
<1>2. j \in Job
  BY <1>1, JobFields DEF Job
<1>3. job' = [job EXCEPT ![x] = j] /\ job'[x] = j
  BY DEF Goes, TypeOK
<1> QED BY <1>1, <1>2, <1>3

LEMMA BeginStep ==
  ASSUME IInv, NEW x \in Procs, NEW archive \in Archives, Begin(x, archive)
  PROVE  IInv'
<1> DEFINE j == [pc |-> "stage", archive |-> archive, staging |-> None, old |-> target]
<1>1. archive \in Archive
  BY ArchivesAreArchives DEF IInv
<1>2. j \in Job /\ job' = [job EXCEPT ![x] = j] /\ job'[x] = j
  BY <1>1 DEF Begin, IInv, TypeOK, Job, Phases
<1>a. /\ job'[x].pc = "stage" /\ job'[x].archive = archive /\ job'[x].old = target
      /\ job'[x].staging = None
      /\ maintenance' = x /\ target' = target
  BY <1>2 DEF Begin
<1>b. OldIsThere(x)'
  <2>1. target # None => There(target)
    BY DEF IInv, TargetIsThere
  <2>2. UNCHANGED content
    BY DEF Begin
  <2> QED BY <1>a, <2>1, <2>2 DEF OldIsThere, There
<1>3. Restoring(x)'
  BY <1>1, <1>a, <1>b DEF Restoring, HoldsLock, StagingStands, OldStands, NameIsFree, NewStands,
                          FailedSafely
<1> HIDE DEF j
<1> QED BY <1>2, <1>3, ControlStep DEF Begin, IInv, TypeOK

\* The control steps of a restore that change neither its archive nor its directories.
LEMMA PhaseStep ==
  ASSUME IInv, NEW x \in Procs, job[x].pc # "idle", NEW pc \in Phases \ {"idle"}, Goes(x, pc),
         target' \in Dirs \cup {None}, target' \in {target, None} \/ There(target'),
         UNCHANGED <<content, maintenance, opened>>,
         StagingStands(x)', OldStands(x)', NameIsFree(x)', NewStands(x)', FailedSafely(x)'
  PROVE  IInv'
<1>1. maintenance' \in Procs \cup {None}
  BY DEF IInv, TypeOK
<1>2. Restoring(x)'
  BY GoesMeans DEF IInv, Restoring, HoldsLock, OldIsThere, There
<1> QED BY <1>1, <1>2, GoesMeans, ControlStep DEF IInv

LEMMA StageFailsStep == ASSUME IInv, NEW x \in Procs, StageFails(x) PROVE IInv'
<1>1. job'[x].pc = "failed" /\ job'[x].old = job[x].old
  BY GoesMeans DEF StageFails, Phases, IInv
<1>2. StagingStands(x)' /\ OldStands(x)' /\ NameIsFree(x)' /\ NewStands(x)' /\ FailedSafely(x)'
  BY <1>1 DEF StageFails, IInv, Restoring, StagingStands, OldStands, NameIsFree, NewStands,
              OldIsThere,
              FailedSafely, BareTarget, Bare, There
<1> QED BY <1>2, PhaseStep DEF StageFails, Phases, IInv, TypeOK

LEMMA MoveAwayFailsStep == ASSUME IInv, NEW x \in Procs, MoveAwayFails(x) PROVE IInv'
<1>1. job'[x].pc = "failed" /\ job'[x].old = job[x].old
  BY GoesMeans DEF MoveAwayFails, Phases, IInv
<1>2. StagingStands(x)' /\ OldStands(x)' /\ NameIsFree(x)' /\ NewStands(x)' /\ FailedSafely(x)'
  BY <1>1 DEF MoveAwayFails, IInv, Restoring, StagingStands, OldStands, NameIsFree, NewStands,
              OldIsThere,
              FailedSafely, BareTarget, Bare, There
<1> QED BY <1>2, PhaseStep DEF MoveAwayFails, Phases, IInv, TypeOK

LEMMA MoveAwayStep == ASSUME IInv, NEW x \in Procs, MoveAway(x) PROVE IInv'
<1> DEFINE k == [job[x] EXCEPT !.pc = "activate"]
           j == [k EXCEPT !.old = target]
<1>0. k = [pc |-> "activate", archive |-> job[x].archive, staging |-> job[x].staging,
           old |-> job[x].old]
  BY JobFields DEF IInv, Job
<1>1. j = [pc |-> "activate", archive |-> job[x].archive, staging |-> job[x].staging,
           old |-> target]
  <2> HIDE DEF k
  <2> QED BY <1>0
<1>2. j \in Job /\ job' = [job EXCEPT ![x] = j] /\ job'[x] = j
  BY <1>1, JobFields DEF MoveAway, IInv, TypeOK, Job, Phases
<1>a. /\ job'[x].pc = "activate" /\ job'[x].archive = job[x].archive
      /\ job'[x].staging = job[x].staging
      /\ job[x].pc = "swap" /\ target' = None /\ maintenance' = maintenance /\ content' = content
  BY <1>1, <1>2 DEF MoveAway
<1>b. job'[x].old = target
  BY <1>1, <1>2
<1>c. target # None => There(target) /\ target # job[x].staging
  BY <1>a DEF IInv, TargetIsThere, Restoring, OldStands, OldIsThere, BareTarget
<1>3. Restoring(x)'
  BY <1>a, <1>b, <1>c DEF IInv, Restoring, HoldsLock, StagingStands, OldStands, NameIsFree,
                    NewStands, OldIsThere, FailedSafely, There, Whole
<1> HIDE DEF j
<1> QED BY <1>2, <1>3, ControlStep DEF MoveAway, IInv, TypeOK

LEMMA ActivateStep == ASSUME IInv, NEW x \in Procs, Activate(x) PROVE IInv'
<1>1. job'[x].pc = "sync" /\ job'[x].staging = job[x].staging
  BY GoesMeans DEF Activate, Phases, IInv
<1>2. job[x].staging \in Dirs /\ There(job[x].staging)
  BY DEF Activate, IInv, Restoring, StagingStands
<1>3. StagingStands(x)' /\ OldStands(x)' /\ NameIsFree(x)' /\ NewStands(x)' /\ FailedSafely(x)'
  BY <1>1, <1>2, NoneIsNothing
     DEF Activate, IInv, Restoring, StagingStands, OldStands, NameIsFree, NewStands, OldIsThere,
         FailedSafely, There, Whole
<1> QED BY <1>2, <1>3, PhaseStep DEF Activate, Phases

LEMMA ActivateFailsStep == ASSUME IInv, NEW x \in Procs, ActivateFails(x) PROVE IInv'
<1>1. job'[x].pc = "undo" /\ job'[x].staging = job[x].staging
  BY GoesMeans DEF ActivateFails, Phases, IInv
<1>2. job'[x].old = job[x].old /\ job[x].pc = "activate" /\ UNCHANGED <<content, target>>
  BY GoesMeans DEF ActivateFails, Phases, IInv
<1>3. NameIsFree(x)'
  BY <1>1, <1>2 DEF IInv, Restoring, NameIsFree, BareTarget, Bare, There
<1>4. StagingStands(x)'
  BY <1>1, <1>2 DEF IInv, Restoring, StagingStands, There
<1>5. OldStands(x)' /\ NewStands(x)' /\ FailedSafely(x)'
  BY <1>1 DEF OldStands, NewStands, FailedSafely
<1> QED BY <1>3, <1>4, <1>5, PhaseStep DEF ActivateFails, Phases, IInv, TypeOK

LEMMA SyncStep == ASSUME IInv, NEW x \in Procs, Sync(x) PROVE IInv'
<1> PICK pc \in {"done", "failed"} : Goes(x, pc)
  BY DEF Sync
<1>1. job'[x].pc = pc /\ job'[x].staging = job[x].staging
  BY GoesMeans DEF Phases, IInv
<1>2. StagingStands(x)' /\ OldStands(x)' /\ NameIsFree(x)' /\ NewStands(x)' /\ FailedSafely(x)'
  BY <1>1 DEF Sync, IInv, Restoring, StagingStands, OldStands, NameIsFree, NewStands, OldIsThere,
              FailedSafely, Whole
<1> QED BY <1>2, PhaseStep DEF Sync, Phases, IInv, TypeOK

LEMMA UndoRenameStep == ASSUME IInv, NEW x \in Procs, UndoRename(x) PROVE IInv'
<1>1. /\ job[x].pc = "undo rename" /\ job[x].old \in Dirs \cup {None}
      /\ UNCHANGED <<content, maintenance, opened>> /\ Goes(x, "undo staging")
      /\ target' = (IF job[x].old = None THEN target ELSE job[x].old)
  BY JobFields DEF UndoRename, IInv
<1>2. job'[x].pc = "undo staging" /\ job'[x].old = job[x].old /\ job'[x].staging = job[x].staging
  BY <1>1, GoesMeans DEF Phases, IInv
<1>3. target' = job[x].old \/ BareTarget(x)'
  BY <1>1, <1>2 DEF IInv, Restoring, NameIsFree, BareTarget, Bare, There
<1>4. StagingStands(x)' /\ OldStands(x)' /\ NameIsFree(x)' /\ NewStands(x)' /\ FailedSafely(x)'
  BY <1>1, <1>2, <1>3
     DEF IInv, Restoring, StagingStands, OldStands, NameIsFree, NewStands, FailedSafely, There
<1>5. target' \in Dirs \cup {None} /\ (target' = target \/ There(target'))
  BY <1>1 DEF IInv, TypeOK, Restoring, OldIsThere
<1> QED BY <1>1, <1>4, <1>5, PhaseStep DEF Phases

\* Nothing is asked of the name after a rollback that failed.
LEMMA StuckStep ==
  ASSUME IInv, NEW x \in Procs, job[x].pc \in {"undo", "undo rename"}, Goes(x, "stuck"),
         UNCHANGED <<content, target, maintenance, opened>>
  PROVE  IInv'
<1>1. job'[x].pc = "stuck"
  BY GoesMeans DEF Phases, IInv
<1>2. StagingStands(x)' /\ OldStands(x)' /\ NameIsFree(x)' /\ NewStands(x)' /\ FailedSafely(x)'
  BY <1>1 DEF StagingStands, OldStands, NameIsFree, NewStands, FailedSafely
<1> QED BY <1>2, PhaseStep DEF Phases, IInv, TypeOK

LEMMA UndoRenameFailsStep == ASSUME IInv, NEW x \in Procs, UndoRenameFails(x) PROVE IInv'
  BY StuckStep DEF UndoRenameFails

LEMMA EndStep ==
  ASSUME IInv, NEW x \in Procs, Return(x) \/ Crash(x)
  PROVE  IInv'
<1>1. Idle \in Job /\ Idle.pc = "idle"
  BY DEF Idle, Job, Phases
<1>2. /\ job[x].pc # "idle" /\ job' = [job EXCEPT ![x] = Idle] /\ maintenance' = None
      /\ UNCHANGED <<content, target, opened>>
  BY DEF Return, Crash
<1>3. job'[x].pc = "idle"
  BY <1>1, <1>2 DEF IInv, TypeOK
<1>4. Restoring(x)'
  BY <1>3 DEF Restoring, HoldsLock, StagingStands, OldStands, NameIsFree, NewStands,
             OldIsThere, FailedSafely
<1>5. target' \in Dirs \cup {None} /\ target' = target
  BY <1>2 DEF IInv, TypeOK
<1> QED BY <1>1, <1>2, <1>4, <1>5, ControlStep

-----------------------------------------------------------------------------
\* What a directory becomes is a directory again.
LEMMA NewContents ==
  ASSUME TypeOK, NEW d \in Dirs, NEW c \in Directory, content' = [content EXCEPT ![d] = c],
         WholeIsThere, c.built = "index" => c.vault \notin NoVault
  PROVE  /\ content' \in [Dirs -> Directory]
         /\ content'[d] = c
         /\ \A e \in Dirs : e # d => content'[e] = content[e]
         /\ WholeIsThere'
  BY DEF TypeOK, WholeIsThere, Whole, There, NoVault

LEMMA MarksAreDirectories == Unused \in Directory /\ Gone \in Directory /\ Skeleton \in Directory
<1>1. /\ Gone = [vault |-> "gone", built |-> "empty", events |-> {}, snapshots |-> {}]
      /\ Skeleton = [vault |-> "skeleton", built |-> "empty", events |-> {}, snapshots |-> {}]
  BY DEF Gone, Skeleton, Unused
<1> QED BY <1>1 DEF Unused, Directory, Vaults, Marks

LEMMA StageStep == ASSUME IInv, NEW x \in Procs, Stage(x) PROVE IInv'
<1> PICK d \in Dirs : d = NewDir /\ content[d] = Unused
  BY NewDirIsFree DEF Stage
<1> DEFINE a == job[x].archive
           c == [content[d] EXCEPT !.vault = a.vault]
           k == [job[x] EXCEPT !.pc = "files"]
           j == [k EXCEPT !.staging = d]
<1>2. job[x].pc = "stage" /\ a \in Archive /\ maintenance = x
  BY DEF Stage, IInv, Restoring, HoldsLock
<1>3. c = [vault |-> a.vault, built |-> "empty", events |-> {}, snapshots |-> {}]
  BY DEF Unused
<1>4. c \in Directory /\ a.vault \notin NoVault
  BY <1>2, <1>3 DEF Archive, Directory
<1>5. content' = [content EXCEPT ![d] = c]
  BY DEF Stage
<1>6. k = [pc |-> "files", archive |-> a, staging |-> job[x].staging, old |-> job[x].old]
  BY JobFields DEF IInv, Job
<1>7. j = [pc |-> "files", archive |-> a, staging |-> d, old |-> job[x].old]
  <2> HIDE DEF k, a
  <2> QED BY <1>6
<1>8. j \in Job
  BY <1>2, <1>7, JobFields DEF IInv, Job, Phases
<1>9. job' = [job EXCEPT ![x] = j]
  BY DEF Stage, IInv, TypeOK
<1>10. job'[x] = j
  BY <1>9 DEF IInv, TypeOK
<1>11. UNCHANGED <<target, maintenance, opened>>
  BY DEF Stage
<1> HIDE DEF c, j, k, a
<1>12. /\ content' \in [Dirs -> Directory] /\ WholeIsThere' /\ content'[d] = c
       /\ \A e \in Dirs : e # d => content'[e] = content[e]
  BY <1>3, <1>4, <1>5, NewContents DEF IInv
<1>13. There(d)'
  BY <1>3, <1>4, <1>12 DEF There, NoVault
<1>b. Unused.vault = "unused"
  BY DEF Unused
<1>14. BareTarget(x) => BareTarget(x)'
  BY <1>7, <1>10, <1>11, <1>12, <1>b DEF BareTarget, Bare, There, IInv, TypeOK
<1>c. /\ job'[x].pc = "files" /\ job'[x].archive = a /\ job'[x].staging = d
      /\ job'[x].old = job[x].old
  BY <1>7, <1>10
<1>e. OldIsThere(x)'
  BY <1>2, <1>b, <1>c, <1>12, JobFields DEF IInv, Restoring, OldIsThere, There
<1>f. TargetIsThere'
  BY <1>11, <1>12, <1>b DEF IInv, TypeOK, TargetIsThere, There
<1>15. Restoring(x)'
  BY <1>2, <1>c, <1>e, <1>11, <1>13, <1>14
     DEF IInv, Restoring, HoldsLock, StagingStands, OldStands, NameIsFree, NewStands, OldIsThere,
         FailedSafely,
         There
<1> QED BY <1>2, <1>8, <1>9, <1>11, <1>12, <1>15, <1>f, RestoreStep DEF IInv, TypeOK

\* The phases that change the staged vault, or remove it.
LEMMA StagingStep ==
  ASSUME IInv, NEW x \in Procs, NEW c \in Directory, NEW pc \in Phases \ {"idle"},
         job[x].pc \in {"files", "index", "swap", "undo staging"},
         content' = [content EXCEPT ![job[x].staging] = c], Goes(x, pc),
         UNCHANGED <<target, maintenance, opened>>,
         \/ pc = "index" /\ job[x].pc = "files" /\ c.vault = content[job[x].staging].vault
              /\ c.built = "files"
         \/ pc = "swap" /\ job[x].pc = "index" /\ c.vault = content[job[x].staging].vault
              /\ c.built = "index"
         \/ pc = "failed" /\ (c.built = "empty" \/ c = content[job[x].staging])
  PROVE  IInv'
<1> PICK s \in Dirs : s = job[x].staging /\ There(s)
  BY DEF IInv, Restoring, StagingStands
<1>1. maintenance = x /\ job[x].archive \in Archive
  BY DEF IInv, Restoring, HoldsLock
<1>2. c.built = "index" => c.vault \notin NoVault
  BY <1>1 DEF There, NoVault, IInv, WholeIsThere, Whole
<1>3. /\ content' \in [Dirs -> Directory] /\ WholeIsThere' /\ content'[s] = c
      /\ \A e \in Dirs : e # s => content'[e] = content[e]
  BY <1>1, <1>2, NewContents DEF IInv
<1>4. /\ job'[x].pc = pc /\ job'[x].staging = s /\ job'[x].old = job[x].old
      /\ job'[x].archive = job[x].archive
  BY GoesMeans DEF IInv
<1>5. target = job[x].old \/ BareTarget(x)
  BY DEF IInv, Restoring, OldStands
<1>6. target' = job'[x].old \/ BareTarget(x)'
  <2>1. CASE target = job[x].old
    BY <2>1, <1>4
  <2>2. CASE BareTarget(x)
    BY <2>2, <1>3, <1>4 DEF BareTarget, Bare, There, IInv, TypeOK
  <2> QED BY <1>5, <2>1, <2>2
<1>7. pc \in {"index", "swap"} => There(s)' /\ (pc = "swap" => Whole(s)')
  BY <1>1, <1>3 DEF There, Whole
<1>8. pc \in {"index", "swap", "failed"} /\ target' = target
  OBVIOUS
<1>a. job[x].old # None => job[x].old \in Dirs /\ There(job[x].old) /\ job[x].old # s
  BY JobFields DEF IInv, Restoring, OldIsThere
<1>b. OldIsThere(x)'
  BY <1>3, <1>4, <1>a DEF OldIsThere, There
<1>c. target # None => target # s
  BY <1>5, <1>a DEF BareTarget
<1>d. TargetIsThere'
  BY <1>3, <1>8, <1>c DEF IInv, TypeOK, TargetIsThere, There
<1>9. Restoring(x)'
  BY <1>1, <1>4, <1>6, <1>7, <1>8, <1>b
     DEF Restoring, HoldsLock, StagingStands, OldStands, NameIsFree, NewStands, FailedSafely,
         There, Whole, BareTarget
<1>10. target' \in Dirs \cup {None} /\ maintenance' \in Procs \cup {None}
  BY DEF IInv, TypeOK
<1>11. job[x].pc # "idle"
  OBVIOUS
<1> QED BY <1>3, <1>9, <1>10, <1>11, <1>d, GoesMeans, RestoreStep DEF IInv

LEMMA WriteFilesStep == ASSUME IInv, NEW x \in Procs, WriteFiles(x) PROVE IInv'
<1> DEFINE s == job[x].staging
           a == job[x].archive
           b == [content[s] EXCEPT !.built = "files"]
           c == [b EXCEPT !.events = a.events]
<1>1. job[x].pc = "files" /\ s \in Dirs /\ a \in Archive
  BY DEF WriteFiles, IInv, Restoring, StagingStands, HoldsLock
<1>2. b = [vault |-> content[s].vault, built |-> "files", events |-> content[s].events,
           snapshots |-> content[s].snapshots]
  BY <1>1, DirectoryFields DEF IInv, Directory
<1>3. c = [vault |-> content[s].vault, built |-> "files", events |-> a.events,
           snapshots |-> content[s].snapshots]
  <2> HIDE DEF b, s, a
  <2> QED BY <1>2
<1>4. c \in Directory
  BY <1>1, <1>3, DirectoryFields DEF IInv, Directory, Archive
<1>5. content' = [content EXCEPT ![s] = c]
  BY DEF WriteFiles, IInv, TypeOK
<1>6. Goes(x, "index") /\ UNCHANGED <<target, maintenance, opened>>
  BY DEF WriteFiles
<1>7. c.vault = content[s].vault /\ c.built = "files"
  BY <1>3
<1> HIDE DEF c, b, s, a
<1> QED BY <1>1, <1>4, <1>5, <1>6, <1>7, StagingStep DEF Phases, s
LEMMA BuildIndexStep == ASSUME IInv, NEW x \in Procs, BuildIndex(x) PROVE IInv'
<1> DEFINE s == job[x].staging
           c == [content[s] EXCEPT !.built = "index"]
<1>1. job[x].pc = "index" /\ s \in Dirs
  BY DEF BuildIndex, IInv, Restoring, StagingStands
<1>2. c = [vault |-> content[s].vault, built |-> "index", events |-> content[s].events,
           snapshots |-> content[s].snapshots]
  BY <1>1, DirectoryFields DEF IInv, Directory
<1>3. c \in Directory
  BY <1>1, <1>2, DirectoryFields DEF IInv, Directory
<1>4. content' = [content EXCEPT ![s] = c]
  BY DEF BuildIndex
<1>5. Goes(x, "swap") /\ UNCHANGED <<target, maintenance, opened>>
  BY DEF BuildIndex
<1>6. c.vault = content[s].vault /\ c.built = "index"
  BY <1>2
<1> HIDE DEF c, s
<1> QED BY <1>1, <1>3, <1>4, <1>5, <1>6, StagingStep DEF Phases, s

LEMMA StagingGoes ==
  ASSUME IInv, NEW x \in Procs, StagingFails(x) \/ UndoStaging(x)
  PROVE  IInv'
<1> DEFINE d == job[x].staging
           part == [Unused EXCEPT !.vault = content[d].vault]
<1>1. PICK left \in Leftovers(d) :
         /\ content' = [content EXCEPT ![d] = left] /\ Goes(x, "failed")
         /\ job[x].pc \in {"files", "index", "swap", "undo staging"}
         /\ UNCHANGED <<target, maintenance, opened>>
  BY DEF StagingFails, UndoStaging
<1>2. Gone \in Directory /\ Gone.built = "empty"
  BY MarksAreDirectories DEF Gone, Unused
<1>3. content[d] \in Directory
  BY <1>1, DirectoryFields DEF IInv, Restoring, StagingStands
<1>4. part = [vault |-> content[d].vault, built |-> "empty", events |-> {}, snapshots |-> {}]
  BY DEF Unused
<1>5. part \in Directory /\ part.built = "empty"
  BY <1>3, <1>4 DEF Directory
<1>6. left \in Directory /\ (left.built = "empty" \/ left = content[d])
  BY <1>1, <1>2, <1>3, <1>5 DEF Leftovers
<1> QED BY <1>1, <1>6, StagingStep DEF Phases

LEMMA UndoTargetStep == ASSUME IInv, NEW x \in Procs, UndoTarget(x) PROVE IInv'
<1>1. /\ job[x].pc = "undo" /\ target' = None /\ Goes(x, "undo rename")
      /\ UNCHANGED <<maintenance, opened>>
      /\ content' = [d \in Dirs |-> IF d = target THEN Gone ELSE content[d]]
  BY DEF UndoTarget
<1>2. Gone \in Directory /\ Gone.built = "empty"
  BY MarksAreDirectories DEF Gone, Unused
<1>3. content' \in [Dirs -> Directory]
  BY <1>1, <1>2 DEF IInv, TypeOK
<1>4. WholeIsThere'
  BY <1>1, <1>2 DEF IInv, TypeOK, WholeIsThere, Whole, There
<1>5. /\ job'[x].pc = "undo rename" /\ job'[x].staging = job[x].staging
      /\ job'[x].archive = job[x].archive
  BY <1>1, GoesMeans DEF IInv, Phases
<1>6. job[x].staging \in Dirs /\ There(job[x].staging) /\ target # job[x].staging
  BY <1>1, NoneIsNothing
     DEF IInv, Restoring, StagingStands, NameIsFree, BareTarget
<1>7. There(job[x].staging)'
  BY <1>1, <1>5, <1>6 DEF There
<1>a. /\ job'[x].old = job[x].old
      /\ job[x].old # None => job[x].old \in Dirs /\ There(job[x].old) /\ job[x].old # target
  BY <1>1, GoesMeans, JobFields DEF IInv, Phases, Restoring, OldIsThere, NameIsFree
<1>b. OldIsThere(x)'
  BY <1>1, <1>5, <1>a DEF IInv, Restoring, OldIsThere, There
<1>8. Restoring(x)'
  BY <1>1, <1>5, <1>6, <1>7, <1>b
     DEF IInv, Restoring, HoldsLock, StagingStands, OldStands, NameIsFree, NewStands, FailedSafely,
         There
<1>9. target' \in Dirs \cup {None} /\ maintenance' \in Procs \cup {None} /\ job[x].pc # "idle"
  BY <1>1 DEF IInv, TypeOK
<1>10. TargetIsThere'
  BY <1>1 DEF TargetIsThere
<1> QED BY <1>1, <1>3, <1>4, <1>8, <1>9, <1>10, GoesMeans, RestoreStep DEF IInv, Phases

LEMMA UndoTargetFailsStep == ASSUME IInv, NEW x \in Procs, UndoTargetFails(x) PROVE IInv'
<1>1. /\ job[x].pc = "undo" /\ target \in Dirs /\ Goes(x, "stuck")
      /\ UNCHANGED <<maintenance, opened>>
  BY DEF UndoTargetFails, IInv, TypeOK
<1>2. CASE UNCHANGED <<content, target>>
  BY <1>1, <1>2, StuckStep
<1>3. CASE /\ Free # {}
           /\ content' = [content EXCEPT ![target] = Gone, ![NewDir] = Skeleton]
           /\ target' = NewDir
  <2>1. PICK n \in Dirs : n = NewDir /\ content[n] = Unused
    BY <1>3, NewDirIsFree
  <2>2. /\ Unused.vault = "unused" /\ Gone.built = "empty"
        /\ Skeleton.built = "empty" /\ Skeleton.vault = "skeleton"
    BY DEF Unused, Gone, Skeleton
  <2>3. /\ content' \in [Dirs -> Directory] /\ content'[n] = Skeleton
        /\ \A e \in Dirs : e # n => content'[e] \in {Gone, content[e]}
        /\ \A e \in Dirs : e # n /\ e # target => content'[e] = content[e]
    BY <1>1, <1>3, <2>1, MarksAreDirectories DEF IInv, TypeOK
  <2>4. WholeIsThere' /\ TargetIsThere'
    BY <1>3, <2>1, <2>2, <2>3 DEF IInv, WholeIsThere, TargetIsThere, Whole, There
  <2>5. /\ job'[x].pc = "stuck" /\ job'[x].archive = job[x].archive
        /\ job'[x].staging = job[x].staging /\ job'[x].old = job[x].old
    BY <1>1, GoesMeans DEF IInv, Phases
  <2>6. job[x].old # None => job[x].old \in Dirs /\ There(job[x].old) /\ job[x].old # target
    BY <1>1, NoneIsNothing, JobFields DEF IInv, Restoring, OldIsThere, NameIsFree
  <2>7. OldIsThere(x)'
    BY <1>1, <2>1, <2>2, <2>3, <2>5, <2>6 DEF IInv, Restoring, OldIsThere, There
  <2>8. Restoring(x)'
    BY <1>1, <2>5, <2>7
       DEF IInv, Restoring, HoldsLock, StagingStands, OldStands, NameIsFree, NewStands, FailedSafely
  <2>9. target' \in Dirs \cup {None} /\ maintenance' \in Procs \cup {None} /\ job[x].pc # "idle"
    BY <1>1, <1>3, <2>1 DEF IInv, TypeOK
  <2> QED BY <1>1, <2>3, <2>4, <2>8, <2>9, GoesMeans, RestoreStep DEF IInv, Phases
<1> QED BY <1>2, <1>3 DEF UndoTargetFails

-----------------------------------------------------------------------------
\* What writers and snapshots do leaves the restores where they are.
LEMMA BystanderStep ==
  ASSUME IInv, UNCHANGED <<maintenance, job>>,
         content' \in [Dirs -> Directory], opened' \in [Writers -> Dirs \cup {None}],
         \A d \in Dirs : content'[d].built = content[d].built,
         \A d \in Dirs : content[d] # Unused => content'[d].vault = content[d].vault,
         \/ target' = target
         \/ /\ target = None /\ target' \in Dirs /\ content[target'] = Unused
            /\ Bare(target)' /\ There(target)'
  PROVE  IInv'
<1>1. TypeOK'
  BY DEF IInv, TypeOK
<1>2. Unused.vault = "unused" /\ Unused.built = "empty"
  BY DEF Unused
<1>3. WholeIsThere'
  BY <1>2 DEF IInv, WholeIsThere, Whole, There
<1>a. TargetIsThere'
  BY <1>2 DEF IInv, TypeOK, TargetIsThere, There
<1>4. ASSUME NEW x \in Procs PROVE Restoring(x)'
  <2>a. job[x].old # None => job[x].old \in Dirs
    BY JobFields DEF IInv
  <2>b. OldIsThere(x)'
    BY <1>2, <1>4, <2>a DEF IInv, Restoring, OldIsThere, There
  <2>c. target' # target /\ job[x].pc # "idle" => target' # job[x].old
    BY <1>2, <1>4, NoneIsNothing DEF IInv, Restoring, OldIsThere, There
  <2>1. StagingStands(x)'
    BY <1>2, <1>4 DEF IInv, Restoring, StagingStands, There, Whole
  <2>2. BareTarget(x) => BareTarget(x)'
    BY <1>2 DEF IInv, TypeOK, BareTarget, Bare, There
  <2>3. /\ job'[x] = job[x] /\ maintenance' = maintenance
    OBVIOUS
  <2>4. target' # target => target' # None /\ Bare(target)' /\ There(target)'
    BY NoneIsNothing
  <2>5. target' # target /\ job[x].staging \in Dirs /\ There(job[x].staging) => BareTarget(x)'
    BY <1>2, <2>4 DEF BareTarget, There
  <2>6. target' # target /\ job[x].staging = None => BareTarget(x)'
    BY <2>4 DEF BareTarget
  <2>7. OldStands(x)'
    BY <1>4, <2>2, <2>3, <2>5, <2>6 DEF IInv, Restoring, StagingStands, OldStands
  <2>8. NameIsFree(x)'
    BY <1>4, <2>2, <2>3, <2>5, <2>c DEF IInv, Restoring, StagingStands, NameIsFree
  <2>9. NewStands(x)'
    BY <1>2, <1>4, <2>3 DEF IInv, TypeOK, Restoring, NewStands, Whole
  <2>10. FailedSafely(x)'
    BY <1>2, <1>4, <2>3, <2>4 DEF IInv, TypeOK, Restoring, FailedSafely, Whole, Bare
  <2>11. HoldsLock(x)'
    BY <1>4, <2>3 DEF IInv, Restoring, HoldsLock
  <2> QED BY <2>1, <2>7, <2>8, <2>9, <2>10, <2>11, <2>b DEF Restoring
<1> QED BY <1>1, <1>3, <1>4, <1>a DEF IInv

LEMMA SnapshotStep == ASSUME IInv, Snapshot PROVE IInv'
<1> PICK t \in Dirs : t = target /\ content[t].built = "index"
  BY DEF Snapshot, IInv, TypeOK
<1> DEFINE c == [content[t] EXCEPT !.snapshots = @ \cup {ArchiveOf(t)}]
<1>1. ArchiveOf(t) \in Archive
  <2>1. content[t].vault \in Vaults \ NoVault /\ content[t].events \subseteq Events
    BY DirectoryFields DEF IInv, WholeIsThere, Whole, There, NoVault
  <2> QED BY <2>1 DEF ArchiveOf, Archive
<1>2. c = [vault |-> content[t].vault, built |-> content[t].built, events |-> content[t].events,
           snapshots |-> content[t].snapshots \cup {ArchiveOf(t)}]
  <2>1. content[t] \in Directory
    BY DirectoryFields DEF IInv
  <2>2. DOMAIN content[t] = {"vault", "built", "events", "snapshots"}
    BY <2>1 DEF Directory
  <2> QED BY <2>1, <2>2, SMTT(30) DEF Directory
<1>3. c \in Directory
  BY <1>1, <1>2, DirectoryFields DEF IInv, Directory
<1>4. content' = [content EXCEPT ![t] = c] /\ UNCHANGED <<target, maintenance, job, opened>>
  BY DEF Snapshot
<1>5. c.built = content[t].built /\ c.vault = content[t].vault
  BY <1>2
<1> HIDE DEF c
<1>6. /\ content' \in [Dirs -> Directory]

           /\ \A d \in Dirs : content'[d].built = content[d].built /\ content'[d].vault = content[d].vault
      /\ opened' \in [Writers -> Dirs \cup {None}]
  BY <1>3, <1>4, <1>5 DEF IInv, TypeOK
<1> QED BY <1>4, <1>6, BystanderStep

LEMMA OpenStep == ASSUME IInv, NEW w \in Writers, Open(w) PROVE IInv'
<1>1. opened' \in [Writers -> Dirs \cup {None}] /\ content' \in [Dirs -> Directory]
  BY DEF Open, IInv, TypeOK
<1> QED BY <1>1, BystanderStep DEF Open

LEMMA OpenNewStep == ASSUME IInv, NEW w \in Writers, OpenNew(w) PROVE IInv'
<1> PICK t \in Dirs : t = NewDir /\ content[t] = Unused
  BY NewDirIsFree DEF OpenNew
<1>1. /\ content' = [content EXCEPT ![t] = Skeleton] /\ target = None /\ target' = t
      /\ opened' = [opened EXCEPT ![w] = t] /\ UNCHANGED <<maintenance, job>>
  BY DEF OpenNew
<1>2. Unused.built = "empty" /\ Skeleton.built = "empty" /\ Skeleton.vault = "skeleton"
  BY DEF Skeleton, Unused
<1>3. /\ content' \in [Dirs -> Directory] /\ content'[t] = Skeleton
      /\ \A d \in Dirs : d # t => content'[d] = content[d]
      /\ opened' \in [Writers -> Dirs \cup {None}]
  BY <1>1, MarksAreDirectories DEF IInv, TypeOK
<1>4. \A d \in Dirs : content'[d].built = content[d].built
  BY <1>2, <1>3
<1>5. \A d \in Dirs : content[d] # Unused => content'[d].vault = content[d].vault
  BY <1>3
<1>6. content[target'] = Unused /\ Bare(target)' /\ There(target)'
  BY <1>1, <1>2, <1>3 DEF Bare, There
<1> QED BY <1>1, <1>3, <1>4, <1>5, <1>6, BystanderStep

LEMMA AppendStep == ASSUME IInv, NEW w \in Writers, NEW e \in Events, AppendEvent(w, e) PROVE IInv'
<1> PICK t \in Dirs : t = opened[w]
  BY DEF AppendEvent, IInv, TypeOK
<1> DEFINE c == [content[t] EXCEPT !.events = @ \cup {e}]
<1>1. c = [vault |-> content[t].vault, built |-> content[t].built,
           events |-> content[t].events \cup {e}, snapshots |-> content[t].snapshots]
  BY DirectoryFields DEF IInv, Directory
<1>2. c \in Directory
  BY <1>1, DirectoryFields DEF IInv, Directory
<1>3. c.built = content[t].built /\ c.vault = content[t].vault
  BY <1>1
<1>4. content' = [content EXCEPT ![t] = c] \/ content' = content
  BY DEF AppendEvent
<1>5. opened' = [opened EXCEPT ![w] = None] /\ UNCHANGED <<target, maintenance, job>>
  BY DEF AppendEvent
<1> HIDE DEF c
<1>6. /\ content' \in [Dirs -> Directory]

           /\ \A d \in Dirs : content'[d].built = content[d].built /\ content'[d].vault = content[d].vault
      /\ opened' \in [Writers -> Dirs \cup {None}]
  BY <1>2, <1>3, <1>4, <1>5 DEF IInv, TypeOK
<1> QED BY <1>5, <1>6, BystanderStep

-----------------------------------------------------------------------------
LEMMA NextIInv == IInv /\ [Next]_vars => IInv'
<1> SUFFICES ASSUME IInv, [Next]_vars PROVE IInv'
  OBVIOUS
<1>1. CASE Snapshot
  BY <1>1, SnapshotStep
<1>2. ASSUME NEW x \in Procs, NEW archive \in Archives, Begin(x, archive) PROVE IInv'
  BY <1>2, BeginStep
<1>3. ASSUME NEW x \in Procs,
             \/ Stage(x) \/ StageFails(x) \/ WriteFiles(x) \/ BuildIndex(x) \/ StagingFails(x)
             \/ MoveAway(x) \/ MoveAwayFails(x) \/ Activate(x) \/ ActivateFails(x) \/ Sync(x)
             \/ UndoTarget(x) \/ UndoTargetFails(x) \/ UndoRename(x) \/ UndoRenameFails(x)
             \/ UndoStaging(x) \/ Return(x) \/ Crash(x)
      PROVE  IInv'
  BY <1>3, StageStep, StageFailsStep, WriteFilesStep, BuildIndexStep, StagingGoes, MoveAwayStep,
     MoveAwayFailsStep, ActivateStep, ActivateFailsStep, SyncStep, UndoTargetStep,
     UndoTargetFailsStep,
     UndoRenameStep, UndoRenameFailsStep, EndStep
<1>4. ASSUME NEW w \in Writers, Open(w) \/ OpenNew(w) PROVE IInv'
  BY <1>4, OpenStep, OpenNewStep
<1>5. ASSUME NEW w \in Writers, NEW e \in Events, AppendEvent(w, e) PROVE IInv'
  BY <1>5, AppendStep
<1>6. CASE UNCHANGED vars
  BY <1>6 DEF vars, IInv, TypeOK, WholeIsThere, TargetIsThere, Whole, There, Restoring, HoldsLock,
              StagingStands,
              OldStands, NameIsFree, NewStands, OldIsThere, FailedSafely, BareTarget, Bare
<1> QED BY <1>1, <1>2, <1>3, <1>4, <1>5, <1>6 DEF Next, Restores, Writes

\* The invariant holds in every behaviour.
LEMMA Invariance == Spec => []IInv
  BY InitIInv, NextIInv, PTL DEF Spec

\* A restore that fails, at whatever step and beside whatever writers, leaves the vault it found,
\* the one it brought, or a bare ledger under the vault's name; where its rollback fails too, the
\* vault it found is still on disk (restore_verified_archive_with_fault, rollback_restore_swap).
THEOREM RestoreFailsSafely == Spec => []FailureLeavesOldOrNew
<1>1. IInv => FailureLeavesOldOrNew
  BY DEF IInv, Restoring, FailedSafely, OldIsThere, FailureLeavesOldOrNew
<1> QED BY <1>1, Invariance, PTL

\* A step that removes a complete vault, or part of one, works on the staging of a running restore.
LEMMA OnlyStagingsGo ==
  ASSUME IInv, [Next]_vars, NEW d \in Dirs, Whole(d), ~(Whole(d) /\ There(d))'
  PROVE  \E x \in Procs : job[x].staging = d
<1>1. There(d) /\ content[d].built = "index"
  BY DEF IInv, WholeIsThere, Whole
<1>2. content'[d].vault # content[d].vault \/ content'[d].built # content[d].built
  BY <1>1 DEF There, Whole
<1>a. content'[d] # content[d]
  BY <1>2
<1> SUFFICES ASSUME \A x \in Procs : job[x].staging # d PROVE FALSE
  OBVIOUS
<1>3. Free # {} => NewDir # d
  BY <1>1, NewDirIsFree DEF Unused
<1>4. CASE Snapshot
  BY <1>2, <1>4 DEF Snapshot, IInv, TypeOK, Directory
<1>5. ASSUME NEW x \in Procs, Stage(x) \/ WriteFiles(x) \/ BuildIndex(x) \/ StagingFails(x)
                             \/ UndoStaging(x)
      PROVE  FALSE
  BY <1>a, <1>3, <1>5 DEF Stage, WriteFiles, BuildIndex, StagingFails, UndoStaging, IInv, TypeOK
<1>6. ASSUME NEW x \in Procs, UndoTarget(x) \/ UndoTargetFails(x) PROVE FALSE
  <2>1. target # d
    BY <1>1, <1>6, NoneIsNothing
       DEF UndoTarget, UndoTargetFails, IInv, Restoring, NameIsFree, BareTarget, Bare
  <2> QED BY <1>a, <1>3, <1>6, <2>1 DEF UndoTarget, UndoTargetFails, IInv, TypeOK
<1>7. ASSUME NEW w \in Writers, OpenNew(w) PROVE FALSE
  BY <1>a, <1>3, <1>7 DEF OpenNew, IInv, TypeOK
<1>8. ASSUME NEW w \in Writers, NEW e \in Events, AppendEvent(w, e) PROVE FALSE
  BY <1>2, <1>8 DEF AppendEvent, IInv, TypeOK, Directory
<1> QED
  BY <1>a, <1>4, <1>5, <1>6, <1>7, <1>8
     DEF Next, Restores, Writes, Begin, StageFails, MoveAway, MoveAwayFails, Activate,
         ActivateFails,
         Sync, UndoRename, UndoRenameFails, Return, Crash, Open, vars

\* What was once a complete vault stays on disk, whatever fails and whoever is killed, but for what
\* a running restore staged itself (rollback_restore_swap, StagingFails).
THEOREM OnlyStagingsAreRemovedHolds == Spec => OnlyStagingsAreRemoved
<1>1. IInv /\ [Next]_vars
        => (\A d \in Dirs :
               Whole(d) /\ ~(Whole(d) /\ There(d))' => \E x \in Procs : job[x].staging = d)
  BY OnlyStagingsGo
<1> QED BY <1>1, Invariance, PTL DEF Spec, OnlyStagingsAreRemoved
================================================================================
