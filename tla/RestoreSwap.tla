----------------------------- MODULE RestoreSwap -----------------------------
(***************************************************************************)
(* Export, snapshots and restore (export.rs, snapshot.rs).  A restore      *)
(* stages the archive beside the vault, builds and checks the staged one,  *)
(* moves the live vault aside and the staged one into its place, and tries *)
(* to move back when that fails.  Commands that write the decision ledger  *)
(* open it by its path and then write to the file they opened: they do not *)
(* take the maintenance lock.                                              *)
(*                                                                         *)
(* A directory keeps its identity when it is renamed, as the open files in *)
(* it do.  One directory at a time has the vault's own name (target); the  *)
(* others have the names of stagings and backups, which nothing shares.    *)
(***************************************************************************)
EXTENDS Naturals, FiniteSets

CONSTANTS Procs,      \* commands that export, snapshot or restore
          Writers,    \* commands that write the ledger
          Events,     \* what they record
          Dirs,       \* directories: a bound, each is used once
          Exports,    \* the archives at hand, as pairs of a vault and its events
          Old,        \* what the vault holds at first
          None

Marks == {"unused", "gone", "skeleton"}
ASSUME NoneIsNothing == None \notin Dirs /\ None \notin Procs
ASSUME SomeDir == Dirs # {}
ASSUME OldIsNoMark == Old \notin Marks
ASSUME ExportsAreArchives ==
    \A a \in Exports : /\ a = [vault |-> a.vault, events |-> a.events]
                       /\ a.vault \notin Marks /\ a.events \subseteq Events

VARIABLES content,      \* what each directory holds
          target,       \* the directory with the vault's name, or None
          maintenance,  \* the holder of the vault's maintenance lock, or None
          job,          \* what a restore is doing
          opened,       \* the directory whose ledger a writer has open
          answered      \* the events whose command reported success

vars == <<content, target, maintenance, job, opened, answered>>

Unused == [vault |-> "unused", built |-> "empty", events |-> {}, snapshots |-> {}]
Gone == [Unused EXCEPT !.vault = "gone"]
Skeleton == [Unused EXCEPT !.vault = "skeleton"]     \* a ledger and nothing else
Idle == [pc |-> "idle", archive |-> None, staging |-> None, old |-> None]

Init ==
    /\ LET d == CHOOSE d \in Dirs : TRUE IN
          /\ target = d
          /\ content = [x \in Dirs |->
                          IF x = d THEN [Unused EXCEPT !.vault = Old, !.built = "index"]
                          ELSE Unused]
    /\ maintenance = None
    /\ job = [x \in Procs |-> Idle]
    /\ opened = [w \in Writers |-> None]
    /\ answered = {}

\* Which unused directory is made makes no difference.
Free == {d \in Dirs : content[d] = Unused}
NewDir == CHOOSE d \in Free : TRUE

There(d) == content[d].vault \notin {"unused", "gone"}
\* What a removal leaves of a directory: nothing, or, when it fails, some of it or all.
Leftovers(d) == {Gone, [Unused EXCEPT !.vault = content[d].vault], content[d]}
Goes(x, pc) == job' = [job EXCEPT ![x].pc = pc]

-----------------------------------------------------------------------------
\* archive_bytes: the backups in a vault are not part of its archive.
ArchiveOf(d) == [vault |-> content[d].vault, events |-> content[d].events]

\* snapshot::create, under the maintenance lock.
Snapshot ==
    /\ maintenance = None /\ target # None
    /\ content[target].built = "index"
    /\ content' = [content EXCEPT ![target].snapshots = @ \cup {ArchiveOf(target)}]
    /\ UNCHANGED <<target, maintenance, job, opened, answered>>

\* restore, import and the restore of a snapshot: the archive was verified, and the lock is
\* taken or the command refuses.
Archives == Exports \cup IF target = None THEN {} ELSE content[target].snapshots

Begin(x, archive) ==
    /\ job[x] = Idle /\ maintenance = None
    /\ maintenance' = x
    /\ job' = [job EXCEPT ![x] = [pc |-> "stage", archive |-> archive, staging |-> None,
                                  old |-> target]]
    /\ UNCHANGED <<content, target, opened, answered>>

Stage(x) ==
    /\ job[x].pc = "stage" /\ Free # {}
    /\ content' = [content EXCEPT ![NewDir].vault = job[x].archive.vault]
    /\ job' = [job EXCEPT ![x].pc = "files", ![x].staging = NewDir]
    /\ UNCHANGED <<target, maintenance, opened, answered>>

StageFails(x) ==
    /\ job[x].pc = "stage"
    /\ Goes(x, "failed")
    /\ UNCHANGED <<content, target, maintenance, opened, answered>>

WriteFiles(x) ==
    /\ job[x].pc = "files"
    /\ content' = [content EXCEPT ![job[x].staging].built = "files",
                                  ![job[x].staging].events = job[x].archive.events]
    /\ Goes(x, "index")
    /\ UNCHANGED <<target, maintenance, opened, answered>>

\* The links are counted and the gate is asked; neither answer is looked at.
BuildIndex(x) ==
    /\ job[x].pc = "index"
    /\ content' = [content EXCEPT ![job[x].staging].built = "index"]
    /\ Goes(x, "swap")
    /\ UNCHANGED <<target, maintenance, opened, answered>>

\* A file, the index or the gate fails; whether the staging is then removed is not looked at.
StagingFails(x) ==
    /\ job[x].pc \in {"files", "index", "swap"}
    /\ \E left \in Leftovers(job[x].staging) :
          content' = [content EXCEPT ![job[x].staging] = left]
    /\ Goes(x, "failed")
    /\ UNCHANGED <<target, maintenance, opened, answered>>

\* Mutant: the staged vault replaces whatever has the vault's name.
ActivateOver(x) ==
    /\ job[x].pc = "swap"
    /\ target' = job[x].staging
    /\ content' = [d \in Dirs |-> IF d = target THEN Gone ELSE content[d]]
    /\ Goes(x, "sync")
    /\ UNCHANGED <<maintenance, opened, answered>>

\* The live vault gets the name of a backup.
MoveAway(x) ==
    /\ job[x].pc = "swap"
    /\ job' = [job EXCEPT ![x].pc = "activate", ![x].old = target]
    /\ target' = None
    /\ UNCHANGED <<content, maintenance, opened, answered>>

\* The staging directory stays.
MoveAwayFails(x) ==
    /\ job[x].pc = "swap" /\ target # None
    /\ Goes(x, "failed")
    /\ UNCHANGED <<content, target, maintenance, opened, answered>>

Activate(x) ==
    /\ job[x].pc = "activate" /\ target = None
    /\ target' = job[x].staging
    /\ Goes(x, "sync")
    /\ UNCHANGED <<content, maintenance, opened, answered>>

\* The name is taken, or the rename fails.
ActivateFails(x) ==
    /\ job[x].pc = "activate"
    /\ Goes(x, "undo")
    /\ UNCHANGED <<content, target, maintenance, opened, answered>>

\* The directory is synced; whether that succeeds or not nothing is undone any more.
Sync(x) ==
    /\ job[x].pc = "sync"
    /\ \E pc \in {"done", "failed"} : Goes(x, pc)
    /\ UNCHANGED <<content, target, maintenance, opened, answered>>

-----------------------------------------------------------------------------
\* rollback_restore_swap: where it fails itself, it ends there ("stuck").

UndoTarget(x) ==
    /\ job[x].pc = "undo"
    /\ content' = [d \in Dirs |-> IF d = target THEN Gone ELSE content[d]]
    /\ target' = None
    /\ Goes(x, "undo rename")
    /\ UNCHANGED <<maintenance, opened, answered>>

\* The directory stays, with its ledger or emptied: what is written there from now on is in
\* another ledger.
UndoTargetFails(x) ==
    /\ job[x].pc = "undo" /\ target # None
    /\ \/ UNCHANGED <<content, target>>
       \/ /\ Free # {}
          /\ content' = [content EXCEPT ![target] = Gone, ![NewDir] = Skeleton]
          /\ target' = NewDir
    /\ Goes(x, "stuck")
    /\ UNCHANGED <<maintenance, opened, answered>>

\* Mutant: the staged vault is removed and the old one is left under its backup name.
UndoRenameForgets(x) ==
    /\ job[x].pc = "undo rename"
    /\ Goes(x, "undo staging")
    /\ UNCHANGED <<content, target, maintenance, opened, answered>>

UndoRename(x) ==
    /\ job[x].pc = "undo rename"
    /\ \/ job[x].old = None /\ UNCHANGED target
       \/ job[x].old # None /\ target = None /\ target' = job[x].old
    /\ Goes(x, "undo staging")
    /\ UNCHANGED <<content, maintenance, opened, answered>>

\* The name is taken again, or the rename fails with the name free.
UndoRenameFails(x) ==
    /\ job[x].pc = "undo rename" /\ job[x].old # None
    /\ Goes(x, "stuck")
    /\ UNCHANGED <<content, target, maintenance, opened, answered>>

\* Whether the staging can be removed or not, an error is what the restore ends with.
UndoStaging(x) ==
    /\ job[x].pc = "undo staging"
    /\ \E left \in Leftovers(job[x].staging) :
          content' = [content EXCEPT ![job[x].staging] = left]
    /\ Goes(x, "failed")
    /\ UNCHANGED <<target, maintenance, opened, answered>>

Return(x) ==
    /\ job[x].pc \in {"done", "failed", "stuck"}
    /\ job' = [job EXCEPT ![x] = Idle]
    /\ maintenance' = None
    /\ UNCHANGED <<content, target, opened, answered>>

\* The process is killed: its locks are freed, its directories stay as they are.
Crash(x) ==
    /\ job[x].pc \notin {"idle", "done", "failed", "stuck"}
    /\ job' = [job EXCEPT ![x] = Idle]
    /\ maintenance' = None
    /\ UNCHANGED <<content, target, opened, answered>>

-----------------------------------------------------------------------------
\* lock_jsonl in a vault that is there.
Open(w) ==
    /\ opened[w] = None /\ target # None
    /\ opened' = [opened EXCEPT ![w] = target]
    /\ UNCHANGED <<content, target, maintenance, job, answered>>

\* lock_jsonl where the vault has no directory: it is made, with the ledger in it.
OpenNew(w) ==
    /\ opened[w] = None /\ target = None /\ Free # {}
    /\ content' = [content EXCEPT ![NewDir] = Skeleton]
    /\ target' = NewDir
    /\ opened' = [opened EXCEPT ![w] = NewDir]
    /\ UNCHANGED <<maintenance, job, answered>>

\* LockedJsonl::append, to the file that was opened.
AppendEvent(w, e) ==
    /\ opened[w] # None /\ e \notin answered
    /\ content' = IF There(opened[w])
                  THEN [content EXCEPT ![opened[w]].events = @ \cup {e}] ELSE content
    /\ answered' = answered \cup {e}
    /\ opened' = [opened EXCEPT ![w] = None]
    /\ UNCHANGED <<target, maintenance, job>>

-----------------------------------------------------------------------------
Restores ==
    \E x \in Procs :
        \/ \E archive \in Archives : Begin(x, archive)
        \/ Stage(x) \/ StageFails(x) \/ WriteFiles(x) \/ BuildIndex(x) \/ StagingFails(x)
        \/ MoveAway(x) \/ MoveAwayFails(x) \/ Activate(x) \/ ActivateFails(x) \/ Sync(x)
        \/ UndoTarget(x) \/ UndoTargetFails(x) \/ UndoRename(x) \/ UndoRenameFails(x)
        \/ UndoStaging(x) \/ Return(x)

Writes == \E w \in Writers : Open(w) \/ OpenNew(w) \/ \E e \in Events : AppendEvent(w, e)

Next == Snapshot \/ Restores \/ Writes \/ \E x \in Procs : Crash(x)
Spec == Init /\ [][Next]_vars

-----------------------------------------------------------------------------
Whole(d) == content[d].built = "index"
Bare(d) == content[d].built = "empty"

\* No step removes a complete vault, or part of one, other than the one a restore staged itself:
\* what was once live stays on disk, whatever fails (rollback_restore_swap, StagingFails).
OnlyStagingsAreRemoved ==
    [][\A d \in Dirs : Whole(d) /\ ~(Whole(d) /\ There(d))' => \E x \in Procs : job[x].staging = d]_vars

\* "every_injected_restore_failure_leaves_a_complete_old_or_new_vault" (export.rs, test), for
\* failures between any two steps: but for a bare ledger, which a writer made while the name of
\* the vault was free.  Where the rollback fails too nothing of the sort is promised of the name,
\* but the old vault is on disk, under it or under that of its backup.
FailureLeavesOldOrNew ==
    \A x \in Procs :
        /\ job[x].pc = "failed" =>
              \/ target = job[x].old
              \/ target = job[x].staging /\ Whole(target)
              \/ target # None /\ Bare(target)
        /\ job[x].pc \in {"failed", "stuck"} /\ job[x].old # None => There(job[x].old)

\* The test of FailureLeavesOldOrNew, for a process that is killed and for a rollback that
\* fails: no restore is running.  The code does not keep this one.
RestingVaultIsThere == maintenance = None => target # None

\* An event whose command reported success is on disk in some vault, also when the vault was
\* moved away while its ledger was open (restore_verified_archive_with_fault).
AnsweredEventsAreOnDisk ==
    \A e \in answered : \E d \in Dirs : There(d) /\ e \in content[d].events
=============================================================================
