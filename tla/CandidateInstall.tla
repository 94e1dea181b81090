---------------------------- MODULE CandidateInstall ----------------------------
(***************************************************************************)
(* Installing a qualified candidate (install.rs): two executables are      *)
(* replaced in a directory on PATH, the daemon first, under a lock that is *)
(* a directory beside them.  Installers may be killed between any two      *)
(* steps, every step may fail, and others write to the same directory, to  *)
(* the directory a candidate is installed from, and to PATH, without a     *)
(* lock.                                                                   *)
(***************************************************************************)
EXTENDS Naturals, Sequences, FiniteSets

CONSTANTS Installers,
          Builds,        \* what the bytes of an executable may be, by build
          Candidate,     \* Candidate[p]: the build an installer's bundle qualifies
          Pairs,         \* what may be installed before: functions from Files
          MaxChanges,    \* changes others make: a bound
          MaxCrashes,    \* installers that are killed: a bound
          MaxErrors,     \* steps that fail: a bound
          Nothing

Files == {"brainmap", "brainmapd"}
CheckOrder == <<"brainmap", "brainmapd">>
\* Mutant: the daemon comes second.
BrainmapFirst == <<"brainmap", "brainmapd">>
InstallOrder == <<"brainmapd", "brainmap">>

\* What an instance has to assume.
InstallConstants ==
    /\ {MaxChanges, MaxCrashes, MaxErrors} \subseteq Nat
    /\ Candidate \in [Installers -> Builds]
    /\ Pairs \subseteq [Files -> {Nothing} \cup [build : Builds, exec : BOOLEAN]]
    /\ Nothing \notin [build : Builds, exec : BOOLEAN] \cup Builds \cup Files
    /\ Nothing \notin {"create", "update"}

VARIABLES dest,      \* what is installed: [build, exec], or Nothing
          source,    \* source[p]: what an installer installs from
          shadow,    \* is there another brainmap earlier on PATH?
          lock,      \* is the directory of the lock there?
          backups,   \* the builds that backups of a file hold
          inst,      \* what an installer is doing
          late,      \* files others changed since the lock holder compared them
          changes, crashes, errors

installVars == <<dest, source, shadow, lock, backups, inst, late, changes, crashes, errors>>
disk == <<dest, backups>>
world == <<source, shadow, changes, crashes>>

-----------------------------------------------------------------------------
NotStarted == [pc |-> "idle", i |-> 1, error |-> Nothing, stuck |-> Nothing,
               plan |-> [f \in Files |-> Nothing], orig |-> [f \in Files |-> Nothing]]

InstallInit ==
    /\ dest \in Pairs
    /\ source = [p \in Installers |-> [f \in Files |-> Candidate[p]]]
    /\ shadow = FALSE /\ lock = FALSE
    /\ backups = [f \in Files |-> {}]
    /\ inst = [p \in Installers |-> NotStarted]
    /\ late = {}
    /\ changes = 0 /\ crashes = 0 /\ errors = 0

At(p, pc) == inst[p].pc = pc
MovesTo(p, pc) == inst' = [inst EXCEPT ![p].pc = pc, ![p].i = 1]
Fails(p, pc, error) == inst' = [inst EXCEPT ![p].pc = pc, ![p].i = 1, ![p].error = error]

\* A step that fails for a reason of the operating system's.
Breaks(p, pc) == errors < MaxErrors /\ errors' = errors + 1 /\ Fails(p, pc, "io")

\* A loop over files: the next one, or what comes after the last.
Steps(p, pc) == inst' = IF inst[p].i = Len(CheckOrder)
                        THEN [inst EXCEPT ![p].pc = pc, ![p].i = 1]
                        ELSE [inst EXCEPT ![p].i = @ + 1]

-----------------------------------------------------------------------------
Change(p, f) == CASE dest[f] = Nothing -> "create"
                  [] dest[f] # Nothing /\ dest[f].build = Candidate[p] -> "unchanged"
                  [] OTHER -> "update"

\* The digests of the running executable, which is its image even when its file is replaced,
\* and of the daemon beside it.
RunningIsCandidate(p) == source[p]["brainmapd"] = Candidate[p]
SourceValid(p) == \A f \in Files : source[p][f] = Candidate[p]

\* verify_bundle, verify_running_qualification and the first plan. A dry run ends here.
Preflight(p) ==
    /\ At(p, "idle")
    /\ RunningIsCandidate(p) /\ SourceValid(p) /\ ~shadow
    /\ MovesTo(p, "lock")
    /\ UNCHANGED <<disk, world, lock, late, errors>>

\* Mutant: a lock that is there is taken over.
TakeLockAnyway(p) ==
    /\ At(p, "lock")
    /\ lock' = TRUE /\ MovesTo(p, "plan")
    /\ UNCHANGED <<disk, world, late, errors>>

\* An error after the directory was made leaves it behind.
TakeLock(p) ==
    /\ At(p, "lock")
    /\ IF lock THEN MovesTo(p, "idle") /\ UNCHANGED <<lock, errors>>
               ELSE lock' = TRUE /\ ((MovesTo(p, "plan") /\ UNCHANGED errors) \/ Breaks(p, "dead"))
    /\ UNCHANGED <<disk, world, late>>

Plan(p) ==
    /\ At(p, "plan")
    /\ IF SourceValid(p) /\ ~shadow
       THEN inst' = [inst EXCEPT ![p].pc = "snapshot",
                                 ![p].plan = [f \in Files |-> Change(p, f)]]
       ELSE Fails(p, "unlock", "plan")
    /\ UNCHANGED <<disk, world, lock, late, errors>>

\* candidate_file_snapshot of one file after the other.
TakeSnapshot(p) ==
    /\ At(p, "snapshot")
    /\ LET f == CheckOrder[inst[p].i]
           orig == [inst[p].orig EXCEPT ![f] = dest[f]]
       IN inst' = [inst EXCEPT ![p] =
             IF inst[p].i = Len(CheckOrder)
             THEN [inst[p] EXCEPT !.orig = orig, !.i = 1, !.pc = "validate"]
             ELSE [inst[p] EXCEPT !.orig = orig, !.i = inst[p].i + 1]]
    /\ UNCHANGED <<disk, world, lock, late, errors>>

SnapshotValid(p, f) ==
    LET orig == inst[p].orig[f]
    IN CASE inst[p].plan[f] = "create" -> orig = Nothing
         [] inst[p].plan[f] = "update" -> orig # Nothing /\ orig.build # Candidate[p]
         [] inst[p].plan[f] = "unchanged" -> orig # Nothing /\ orig.build = Candidate[p]

Validate(p) ==
    /\ At(p, "validate")
    /\ IF \A f \in Files : SnapshotValid(p, f) THEN MovesTo(p, "backup")
                                               ELSE Fails(p, "unlock", "preflight")
    /\ UNCHANGED <<disk, world, lock, late, errors>>

Backup(p) ==
    /\ At(p, "backup")
    /\ LET f == CheckOrder[inst[p].i]
       IN IF inst[p].plan[f] = "update"
          THEN \/ /\ backups' = [backups EXCEPT ![f] = @ \cup {inst[p].orig[f].build}]
                  /\ Steps(p, "recheck") /\ UNCHANGED errors
               \/ Breaks(p, "unlock") /\ UNCHANGED backups
          ELSE Steps(p, "recheck") /\ UNCHANGED <<backups, errors>>
    /\ UNCHANGED <<dest, world, lock, late>>

Bytes(file) == IF file = Nothing THEN Nothing ELSE file.build

Recheck(p) ==
    /\ At(p, "recheck")
    /\ late' = {}
    /\ IF \A f \in Files : Bytes(dest[f]) = Bytes(inst[p].orig[f])
       THEN MovesTo(p, "write")
       ELSE Fails(p, "restore", "changed")
    /\ UNCHANGED <<disk, world, lock, errors>>

\* write_executable, daemon first: the file appears as write_atomic makes it, which is not
\* executable, and gets its permissions afterwards. An error may come after the rename.
Put(f, build) == dest' = [dest EXCEPT ![f] = [build |-> build, exec |-> FALSE]]

\* Mutant: an error of a write ends the installation without a rollback.
WriteGivesUp(p) ==
    /\ At(p, "write")
    /\ LET f == InstallOrder[inst[p].i]
       IN IF inst[p].plan[f] = "unchanged"
          THEN Steps(p, "check") /\ UNCHANGED <<dest, errors>>
          ELSE \/ Put(f, source[p][f])
                  /\ inst' = [inst EXCEPT ![p].pc = "permit"] /\ UNCHANGED errors
               \/ Put(f, source[p][f]) /\ Breaks(p, "unlock")
               \/ Breaks(p, "unlock") /\ UNCHANGED dest
    /\ UNCHANGED <<backups, world, lock, late>>

Write(p) ==
    /\ At(p, "write")
    /\ LET f == InstallOrder[inst[p].i]
       IN IF inst[p].plan[f] = "unchanged"
          THEN Steps(p, "check") /\ UNCHANGED <<dest, errors>>
          ELSE \/ Put(f, source[p][f])
                  /\ inst' = [inst EXCEPT ![p].pc = "permit"] /\ UNCHANGED errors
               \/ Put(f, source[p][f]) /\ Breaks(p, "restore")
               \/ Breaks(p, "restore") /\ UNCHANGED dest
    /\ UNCHANGED <<backups, world, lock, late>>

Permit(p) ==
    /\ At(p, "permit")
    /\ LET f == InstallOrder[inst[p].i]
       IN \/ /\ dest[f] # Nothing /\ dest' = [dest EXCEPT ![f].exec = TRUE]
             /\ inst' = IF inst[p].i = Len(InstallOrder)
                        THEN [inst EXCEPT ![p].pc = "check", ![p].i = 1]
                        ELSE [inst EXCEPT ![p].pc = "write", ![p].i = @ + 1]
             /\ UNCHANGED errors
          \/ Breaks(p, "restore") /\ UNCHANGED dest
    /\ UNCHANGED <<backups, world, lock, late>>

\* The hashes of the pair, and what PATH leads to.
Installed(p, f) == dest[f] # Nothing /\ dest[f].build = Candidate[p]
Resolves == ~shadow /\ \A f \in Files : dest[f].exec

Check(p) ==
    /\ At(p, "check")
    /\ IF \E f \in Files : ~Installed(p, f) THEN Fails(p, "restore", "hash")
       ELSE IF ~Resolves THEN Fails(p, "restore", "shadowed")
       ELSE MovesTo(p, "verify")
    /\ UNCHANGED <<disk, world, lock, late, errors>>

\* verify_installed_candidate: both are run, and the new brainmap verifies the bundle, which
\* takes the digests of itself and of the daemon beside it. Its answer may be no.
Verify(p) ==
    /\ At(p, "verify")
    /\ \/ /\ \A f \in Files : Installed(p, f) /\ dest[f].exec
          /\ MovesTo(p, "ok")
       \/ Fails(p, "restore", "verification")
    /\ UNCHANGED <<disk, world, lock, late, errors>>

-----------------------------------------------------------------------------
\* restore_candidate_file, brainmap first. An error ends the rollback.

Restored(p, f) ==
    IF inst[p].orig[f] = Nothing THEN dest' = [dest EXCEPT ![f] = Nothing]
                              ELSE Put(f, inst[p].orig[f].build)

Restore(p) ==
    /\ At(p, "restore")
    /\ LET f == CheckOrder[inst[p].i]
       IN \/ /\ Restored(p, f) /\ UNCHANGED errors
             /\ IF inst[p].orig[f] = Nothing THEN Steps(p, "unlock")
                                          ELSE inst' = [inst EXCEPT ![p].pc = "repermit"]
          \/ /\ errors < MaxErrors /\ errors' = errors + 1 /\ UNCHANGED dest
             /\ inst' = [inst EXCEPT ![p].pc = "unlock", ![p].i = 1, ![p].stuck = f]
    /\ UNCHANGED <<backups, world, lock, late>>

Repermit(p) ==
    /\ At(p, "repermit")
    /\ LET f == CheckOrder[inst[p].i]
       IN \/ /\ dest[f] # Nothing /\ dest' = [dest EXCEPT ![f].exec = inst[p].orig[f].exec]
             /\ UNCHANGED errors
             /\ inst' = IF inst[p].i = Len(CheckOrder)
                        THEN [inst EXCEPT ![p].pc = "unlock", ![p].i = 1]
                        ELSE [inst EXCEPT ![p].pc = "restore", ![p].i = @ + 1]
          \/ /\ errors < MaxErrors /\ errors' = errors + 1 /\ UNCHANGED dest
             /\ inst' = [inst EXCEPT ![p].pc = "unlock", ![p].i = 1, ![p].stuck = f]
    /\ UNCHANGED <<backups, world, lock, late>>

Unlock(p) ==
    /\ At(p, "unlock") \/ At(p, "ok")
    /\ lock' = FALSE
    /\ inst' = [inst EXCEPT ![p] = NotStarted]
    /\ UNCHANGED <<disk, world, late, errors>>

InstallerCrash(p) ==
    /\ inst[p].pc \notin {"idle", "dead"} /\ crashes < MaxCrashes
    /\ crashes' = crashes + 1
    /\ inst' = [inst EXCEPT ![p].pc = IF @ = "lock" THEN "idle" ELSE "dead"]
    /\ UNCHANGED <<disk, source, shadow, lock, late, changes, errors>>

\* An operator removes the lock an installer left, and starts again.
ClearLock(p) ==
    /\ At(p, "dead")
    /\ lock' = FALSE
    /\ inst' = [inst EXCEPT ![p] = NotStarted]
    /\ UNCHANGED <<disk, world, late, errors>>

-----------------------------------------------------------------------------
\* Others.
Others ==
    /\ changes < MaxChanges /\ changes' = changes + 1
    /\ \/ \E f \in Files, b \in Builds :
             /\ dest' = [dest EXCEPT ![f] = [build |-> b, exec |-> TRUE]] /\ dest' # dest
             /\ late' = late \cup {f}
             /\ UNCHANGED <<source, shadow>>
       \/ \E p \in Installers, f \in Files, b \in Builds :
             /\ source' = [source EXCEPT ![p][f] = b] /\ source' # source
             /\ UNCHANGED <<dest, shadow, late>>
       \/ /\ shadow' = ~shadow /\ UNCHANGED <<dest, source, late>>
    /\ UNCHANGED <<backups, lock, inst, crashes, errors>>

Installer(p) ==
    \/ Preflight(p) \/ TakeLock(p) \/ Plan(p) \/ TakeSnapshot(p) \/ Validate(p) \/ Backup(p)
    \/ Recheck(p) \/ Write(p) \/ Permit(p) \/ Check(p) \/ Verify(p) \/ Restore(p) \/ Repermit(p)
    \/ Unlock(p) \/ InstallerCrash(p) \/ ClearLock(p)

InstallNext == Others \/ \E p \in Installers : Installer(p)

InstallSpec == InstallInit /\ [][InstallNext]_installVars

-----------------------------------------------------------------------------
Holds(p) == inst[p].pc \notin {"idle", "lock", "dead"}

\* While an installer is about to report success, the pair under the two names is its
\* candidate and can be run, but for what others changed since it compared the targets
\* (README.md:51, "proves the installed pair is what PATH resolves").
SuccessIsThePair ==
    \A p \in Installers : At(p, "ok") =>
        \A f \in Files \ late : dest[f] = [build |-> Candidate[p], exec |-> TRUE]

\* A brainmap an installer put there never stands beside a daemon that is not of the same
\* build: not between the two writes, not during a rollback, not after a crash or an error of
\* either, as long as nobody else changed the files or the sources (README.md:50, "installs
\* brainmapd before brainmap").
NewBrainmapNeverBesideOldDaemon ==
    changes = 0 =>
        \A p \in Installers :
            /\ Holds(p) \/ At(p, "dead")
            /\ inst[p].plan["brainmap"] \in {"create", "update"}
            /\ Installed(p, "brainmap")
            => Installed(p, "brainmapd")

\* An installation that fails leaves both files as it found them, permissions included, when
\* nobody else changed them and the rollback itself did not fail (install_candidate_files).
FailedInstallLeavesOriginal ==
    \A p \in Installers :
        At(p, "unlock") /\ inst[p].error \in {"io", "hash", "shadowed", "verification"}
            /\ inst[p].stuck = Nothing
        => \A f \in Files \ late : dest[f] = inst[p].orig[f]

\* Bytes an installer found changed after its backups ("candidate install target changed after
\* backup", install.rs:258) are not replaced without one (README.md:50).
DetectedChangeIsBackedUp ==
    [][\A p \in Installers, f \in Files :
          Holds(p) /\ inst[p].error = "changed" /\ changes' = changes
            /\ dest[f] # Nothing /\ Bytes(dest'[f]) # Bytes(dest[f]) =>
              dest[f].build \in backups[f] \cup {Candidate[p]}]_installVars

\* After a failed verification both files are back, but for one whose own restoring failed
\* (README.md:50, "rolls both back on failed verification").
RollsBothBack ==
    \A p \in Installers :
        At(p, "unlock") /\ inst[p].error = "verification" =>
            \A f \in Files \ {inst[p].stuck} : dest[f] = inst[p].orig[f]

\* An installer that reports "installed candidate pair is shadowed on PATH" was shadowed
\* (install.rs:271).
ShadowedMeansShadowed ==
    \A p \in Installers : At(p, "unlock") /\ inst[p].error = "shadowed" => shadow
=============================================================================
