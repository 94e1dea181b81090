----------------------------- MODULE InstallProofs -----------------------------
(* What installers promise: of two executables, for any number of installers, builds, crashes *)
(* and errors, and of the files of the adapter, for any number of runs, executables, vaults,  *)
(* edits and kills.                                                                           *)
EXTENDS CandidateInstall, HarnessInstall, WellFoundedInduction, NaturalsInduction, TLAPS

-----------------------------------------------------------------------------
(* The candidate. *)

Executable == [build : Builds, exec : BOOLEAN]
Contents == {Nothing} \cup Executable
Plans == {Nothing, "create", "update", "unchanged"}
Errors == {Nothing, "io", "plan", "preflight", "changed", "hash", "shadowed", "verification"}
Phases == {"idle", "lock", "plan", "snapshot", "validate", "backup", "recheck", "write", "permit",
           "check", "verify", "ok", "restore", "repermit", "unlock", "dead"}
Installation == [pc : Phases, i : {1, 2}, plan : [Files -> Plans], orig : [Files -> Contents],
                 error : Errors, stuck : {Nothing} \cup Files]

TypeOK ==
    /\ dest \in [Files -> Contents]
    /\ source \in [Installers -> [Files -> Builds]]
    /\ shadow \in BOOLEAN /\ lock \in BOOLEAN
    /\ backups \in [Files -> SUBSET Builds]
    /\ inst \in [Installers -> Installation]
    /\ late \subseteq Files
    /\ changes \in Nat /\ crashes \in Nat /\ errors \in Nat

\* From the lock on, dead installers included: the directory of the lock is theirs.
Owns(p) == inst[p].pc \notin {"idle", "lock"}

Exclusive ==
    /\ \A p \in Installers : Owns(p) => lock
    /\ \A p, q \in Installers : Owns(p) /\ Owns(q) => p = q

Decided(p) ==
    /\ inst[p].pc \in {"idle", "lock", "plan"} =>
          inst[p].plan["brainmap"] = Nothing /\ inst[p].i = 1
    /\ inst[p].pc \in {"snapshot", "validate"} =>
          \A f \in Files : inst[p].plan[f] \in {"create", "update", "unchanged"}
    /\ inst[p].pc = "backup" =>
          \A f \in Files : inst[p].plan[f] = "update" => inst[p].orig[f] # Nothing

\* A file is as its installer found it, or others changed it since the targets were compared.
AsFound(p, f) == f \in late \/ dest[f] = inst[p].orig[f]

\* Before the first write, and after the rollback, whose first file is brainmap.
FoundStands(p) ==
    /\ inst[p].pc = "snapshot" /\ inst[p].i = 2 => AsFound(p, "brainmap")
    /\ inst[p].pc \in {"validate", "backup"} => \A f \in Files : AsFound(p, f)
    /\ inst[p].pc \in {"restore", "repermit"} /\ inst[p].i = 2 => AsFound(p, "brainmap")
    /\ inst[p].pc = "repermit" =>
          LET f == CheckOrder[inst[p].i]
          IN /\ inst[p].orig[f] # Nothing
             /\ f \in late \/ (dest[f] # Nothing /\ dest[f].build = inst[p].orig[f].build)
    /\ inst[p].pc = "unlock" /\ inst[p].error \in {"io", "hash", "shadowed", "verification"}
          /\ inst[p].stuck = Nothing => \A f \in Files : AsFound(p, f)

SucceedsOnItsPair(p) ==
    inst[p].pc = "ok" => \A f \in Files \ late : dest[f] = [build |-> Candidate[p], exec |-> TRUE]

Good(p) == Decided(p) /\ FoundStands(p) /\ SucceedsOnItsPair(p)

IInv == TypeOK /\ Exclusive /\ \A p \in Installers : Good(p)

LEMMA NoneIsNothing ==
  ASSUME InstallConstants
  PROVE  Nothing \notin Executable /\ Nothing \notin Files /\ Nothing \notin {"create", "update"}
  BY DEF InstallConstants, Executable

-----------------------------------------------------------------------------
\* What the steps of one installer make of what it is doing.

Becomes(p, pc, i, plan, orig, error, stuck) ==
    /\ inst' \in [Installers -> Installation]
    /\ \A q \in Installers \ {p} : inst'[q] = inst[q]
    /\ inst'[p].pc = pc /\ inst'[p].i = i
    /\ inst'[p].plan = plan /\ inst'[p].orig = orig
    /\ inst'[p].error = error /\ inst'[p].stuck = stuck

LEMMA InstallationFields ==
  ASSUME TypeOK, NEW p \in Installers
  PROVE  /\ inst[p] \in Installation
         /\ inst[p].pc \in Phases /\ inst[p].i \in {1, 2}
         /\ inst[p].plan \in [Files -> Plans] /\ inst[p].orig \in [Files -> Contents]
         /\ inst[p].error \in Errors /\ inst[p].stuck \in {Nothing} \cup Files
  BY DEF TypeOK, Installation

LEMMA GoesBecomes ==
  ASSUME TypeOK, NEW p \in Installers, NEW pc \in Phases, MovesTo(p, pc)
  PROVE  Becomes(p, pc, 1, inst[p].plan, inst[p].orig, inst[p].error, inst[p].stuck)
<1>1. inst[p] \in Installation
  BY InstallationFields
<1>2. inst' \in [Installers -> Installation] /\ \A q \in Installers \ {p} : inst'[q] = inst[q]
  BY <1>1 DEF MovesTo, TypeOK, Installation
<1>3. inst'[p] = [inst[p] EXCEPT !.pc = pc, !.i = 1]
  BY DEF MovesTo, TypeOK
<1> QED BY <1>1, <1>2, <1>3 DEF Becomes, Installation

LEMMA FailsBecomes ==
  ASSUME TypeOK, NEW p \in Installers, NEW pc \in Phases, NEW error \in Errors,
         Fails(p, pc, error)
  PROVE  Becomes(p, pc, 1, inst[p].plan, inst[p].orig, error, inst[p].stuck)
<1>1. inst[p] \in Installation
  BY InstallationFields
<1>2. inst' \in [Installers -> Installation] /\ \A q \in Installers \ {p} : inst'[q] = inst[q]
  BY <1>1 DEF Fails, TypeOK, Installation
<1>3. inst'[p] = [inst[p] EXCEPT !.pc = pc, !.i = 1, !.error = error]
  BY DEF Fails, TypeOK
<1> QED BY <1>1, <1>2, <1>3 DEF Becomes, Installation

LEMMA StuckBecomes ==
  ASSUME TypeOK, NEW p \in Installers, NEW f \in Files,
         inst' = [inst EXCEPT ![p].pc = "unlock", ![p].i = 1, ![p].stuck = f]
  PROVE  Becomes(p, "unlock", 1, inst[p].plan, inst[p].orig, inst[p].error, f)
<1>1. inst[p] \in Installation
  BY InstallationFields
<1>2. inst' \in [Installers -> Installation] /\ \A q \in Installers \ {p} : inst'[q] = inst[q]
  BY <1>1 DEF TypeOK, Installation, Phases
<1>3. inst'[p] = [inst[p] EXCEPT !.pc = "unlock", !.i = 1, !.stuck = f]
  BY DEF TypeOK
<1> QED BY <1>1, <1>2, <1>3 DEF Becomes, Installation

LEMMA PhaseBecomes ==
  ASSUME TypeOK, NEW p \in Installers, NEW pc \in Phases, inst' = [inst EXCEPT ![p].pc = pc]
  PROVE  Becomes(p, pc, inst[p].i, inst[p].plan, inst[p].orig, inst[p].error, inst[p].stuck)
<1>1. inst[p] \in Installation
  BY InstallationFields
<1>2. inst' \in [Installers -> Installation] /\ \A q \in Installers \ {p} : inst'[q] = inst[q]
  BY <1>1 DEF TypeOK, Installation
<1>3. inst'[p] = [inst[p] EXCEPT !.pc = pc]
  BY DEF TypeOK
<1> QED BY <1>1, <1>2, <1>3 DEF Becomes, Installation

LEMMA SecondBecomes ==
  ASSUME TypeOK, NEW p \in Installers, NEW pc \in Phases, inst[p].i # 2,
         inst' = [inst EXCEPT ![p].pc = pc, ![p].i = @ + 1]
  PROVE  Becomes(p, pc, 2, inst[p].plan, inst[p].orig, inst[p].error, inst[p].stuck)
<1>1. inst[p] \in Installation /\ inst[p].i = 1
  BY InstallationFields
<1>2. inst'[p] = [inst[p] EXCEPT !.pc = pc, !.i = 2]
  BY <1>1 DEF TypeOK
<1>3. DOMAIN inst' = Installers /\ \A q \in Installers \ {p} : inst'[q] = inst[q]
  BY DEF TypeOK
<1>4. inst' = [q \in Installers |-> IF q = p THEN [inst[p] EXCEPT !.pc = pc, !.i = 2] ELSE inst[q]]
  BY <1>2, <1>3
<1>5. inst' \in [Installers -> Installation]
  BY <1>1, <1>4 DEF TypeOK, Installation
<1> QED BY <1>1, <1>2, <1>3, <1>5 DEF Becomes, Installation

LEMMA Orders == Len(CheckOrder) = 2 /\ Len(InstallOrder) = 2
                /\ CheckOrder[1] = "brainmap" /\ CheckOrder[2] = "brainmapd"
                /\ InstallOrder[1] = "brainmapd" /\ InstallOrder[2] = "brainmap"
  BY DEF CheckOrder, InstallOrder

LEMMA StepsBecomes ==
  ASSUME TypeOK, NEW p \in Installers, NEW pc \in Phases, Steps(p, pc)
  PROVE  \/ inst[p].i = 2 /\ Becomes(p, pc, 1, inst[p].plan, inst[p].orig, inst[p].error,
                                     inst[p].stuck)
         \/ inst[p].i = 1 /\ Becomes(p, inst[p].pc, 2, inst[p].plan, inst[p].orig,
                                     inst[p].error, inst[p].stuck)
<1>1. CASE inst[p].i = 2
  <2>1. MovesTo(p, pc)
    BY <1>1, Orders DEF Steps, MovesTo
  <2> QED BY <1>1, <2>1, GoesBecomes
<1>2. CASE inst[p].i # 2
  <2>1. inst[p] \in Installation /\ inst[p].i = 1
    BY <1>2, InstallationFields
  <2>2. inst' = [inst EXCEPT ![p].i = @ + 1]
    BY <1>2, Orders DEF Steps
  <2>3. inst'[p] = [inst[p] EXCEPT !.i = 2]
    BY <2>1, <2>2 DEF TypeOK
  <2>4. DOMAIN inst' = Installers /\ \A q \in Installers \ {p} : inst'[q] = inst[q]
    BY <2>2 DEF TypeOK
  <2>5. inst' = [q \in Installers |-> IF q = p THEN [inst[p] EXCEPT !.i = 2] ELSE inst[q]]
    BY <2>2, <2>3, <2>4
  <2>6. inst' \in [Installers -> Installation]
    BY <2>1, <2>5 DEF TypeOK, Installation
  <2> QED BY <2>1, <2>3, <2>4, <2>6 DEF Becomes, Installation
<1> QED BY <1>1, <1>2

LEMMA IdleBecomes ==
  ASSUME InstallConstants, TypeOK, NEW p \in Installers, inst' = [inst EXCEPT ![p] = NotStarted]
  PROVE  /\ Becomes(p, "idle", 1, NotStarted.plan, NotStarted.orig, Nothing, Nothing)
         /\ NotStarted.plan["brainmap"] = Nothing
<1>1. NotStarted \in Installation
  BY DEF NotStarted, Installation, Phases, Plans, Contents, Errors
<1> QED BY <1>1 DEF TypeOK, Becomes, NotStarted, Files

-----------------------------------------------------------------------------
\* One installer owns the lock; what it does leaves the others outside.

LEMMA OwnersStep ==
  ASSUME IInv, NEW p \in Installers, Owns(p), TypeOK',
         \A q \in Installers \ {p} : inst'[q] = inst[q],
         Owns(p)' => lock', Good(p)'
  PROVE  IInv'
<1>1. ASSUME NEW q \in Installers, q # p PROVE ~Owns(q)' /\ Good(q)'
  <2>1. ~Owns(q) /\ Decided(q) /\ inst'[q] = inst[q]
    BY <1>1 DEF IInv, Exclusive, Good
  <2> QED BY <2>1 DEF Owns, Good, Decided, FoundStands, SucceedsOnItsPair
<1> QED BY <1>1 DEF IInv, Exclusive

LEMMA OutsidersStep ==
  ASSUME IInv, NEW p \in Installers, TypeOK', UNCHANGED <<dest, late>>,
         \A q \in Installers \ {p} : inst'[q] = inst[q],
         (UNCHANGED lock /\ ~Owns(p)') \/ (~lock /\ lock'),
         Good(p)'
  PROVE  IInv'
<1>1. ASSUME NEW q \in Installers, q # p
      PROVE  (Owns(q)' <=> Owns(q)) /\ Good(q)' /\ (Owns(q) => lock)
  BY <1>1 DEF IInv, Exclusive, Owns, Good, Decided, FoundStands, SucceedsOnItsPair, AsFound
<1> QED BY <1>1 DEF IInv, Exclusive

LEMMA PreflightStep ==
  ASSUME IInv, NEW p \in Installers, Preflight(p) PROVE IInv'
<1>1. Becomes(p, "lock", 1, inst[p].plan, inst[p].orig, inst[p].error, inst[p].stuck)
  BY GoesBecomes DEF IInv, Preflight, Phases
<1>2. TypeOK'
  BY <1>1 DEF IInv, TypeOK, Preflight, Becomes, disk, world
<1>3. Decided(p)
  BY DEF IInv, Good
<1>4. Good(p)'
  BY <1>1, <1>3 DEF Preflight, At, Becomes, Good, Decided, FoundStands, SucceedsOnItsPair
<1>5. /\ UNCHANGED <<dest, late, lock>> /\ ~Owns(p)'
      /\ \A q \in Installers \ {p} : inst'[q] = inst[q]
  BY <1>1 DEF Preflight, Becomes, Owns, disk
<1> QED BY <1>2, <1>4, <1>5, OutsidersStep

LEMMA TakeLockStep ==
  ASSUME InstallConstants, IInv, NEW p \in Installers, TakeLock(p) PROVE IInv'
<1> USE DEF TakeLock, At, disk, world
<1>1. Decided(p)
  BY DEF IInv, Good
<1>2. \E pc \in {"idle", "plan", "dead"}, error \in Errors :
         /\ Becomes(p, pc, 1, inst[p].plan, inst[p].orig, error, inst[p].stuck)
         /\ errors' \in Nat
         /\ (pc = "idle" /\ UNCHANGED lock) \/ (~lock /\ lock')
  <2>. inst[p].error \in Errors /\ "io" \in Errors /\ errors \in Nat /\ TypeOK
    BY InstallationFields DEF IInv, TypeOK, Errors
  <2>1. CASE lock
    <3>1. Becomes(p, "idle", 1, inst[p].plan, inst[p].orig, inst[p].error, inst[p].stuck)
      BY <2>1, GoesBecomes DEF Phases
    <3> QED BY <2>1, <3>1
  <2>2. CASE ~lock /\ MovesTo(p, "plan") /\ UNCHANGED errors /\ lock'
    <3>1. Becomes(p, "plan", 1, inst[p].plan, inst[p].orig, inst[p].error, inst[p].stuck)
      BY <2>2, GoesBecomes DEF Phases
    <3> QED BY <2>2, <3>1
  <2>3. CASE ~lock /\ Breaks(p, "dead") /\ lock'
    <3>1. Becomes(p, "dead", 1, inst[p].plan, inst[p].orig, "io", inst[p].stuck)
      BY <2>3, FailsBecomes DEF Phases, Breaks
    <3>2. errors' \in Nat
      BY <2>3 DEF Breaks
    <3> QED BY <2>3, <3>1, <3>2
  <2> QED BY <2>1, <2>2, <2>3
<1>3. PICK pc \in {"idle", "plan", "dead"}, error \in Errors :
         /\ Becomes(p, pc, 1, inst[p].plan, inst[p].orig, error, inst[p].stuck)
         /\ errors' \in Nat
         /\ (pc = "idle" /\ UNCHANGED lock) \/ (~lock /\ lock')
  BY <1>2
<1>4. TypeOK'
  BY <1>3 DEF IInv, TypeOK, Becomes
<1>5. Good(p)'
  BY <1>1, <1>3 DEF Becomes, Good, Decided, FoundStands, SucceedsOnItsPair
<1> QED BY <1>3, <1>4, <1>5, OutsidersStep DEF Becomes, Owns

LEMMA ChangeIsAPlan ==
  ASSUME NEW p \in Installers, NEW f \in Files
  PROVE  Change(p, f) \in {"create", "unchanged", "update"}
  BY DEF Change

LEMMA PlanStep ==
  ASSUME IInv, NEW p \in Installers, Plan(p) PROVE IInv'
<1> USE DEF Plan, At, disk, world
<1>1. Decided(p) /\ inst[p] \in Installation /\ Owns(p) /\ lock
  BY InstallationFields DEF IInv, Good, Owns, Exclusive
<1>2. CASE SourceValid(p) /\ ~shadow
  <2> DEFINE plan == [f \in Files |-> Change(p, f)]
  <2>1. plan \in [Files -> {"create", "unchanged", "update"}]
    BY ChangeIsAPlan
  <2>2. plan \in [Files -> Plans] /\ \A f \in Files : plan[f] \in {"create", "update", "unchanged"}
    BY <2>1 DEF Plans
  <2> HIDE DEF plan
  <2>3. inst' = [inst EXCEPT ![p].pc = "snapshot", ![p].plan = plan]
    BY <1>2 DEF plan
  <2>4. inst'[p] = [inst[p] EXCEPT !.pc = "snapshot", !.plan = plan]
    BY <2>3 DEF IInv, TypeOK
  <2>5. inst' \in [Installers -> Installation] /\ \A q \in Installers \ {p} : inst'[q] = inst[q]
    BY <1>1, <2>2, <2>3 DEF IInv, TypeOK, Installation, Phases
  <2>6. inst'[p].pc = "snapshot" /\ inst'[p].plan = plan /\ inst'[p].i = inst[p].i
    BY <1>1, <2>4 DEF Installation
  <2>7. TypeOK'
    BY <1>2, <2>5 DEF IInv, TypeOK
  <2>8. Good(p)'
    BY <1>1, <2>2, <2>6 DEF Good, Decided, FoundStands, SucceedsOnItsPair
  <2> QED BY <1>1, <2>5, <2>7, <2>8, OwnersStep
<1>3. CASE ~(SourceValid(p) /\ ~shadow)
  <2>1. Becomes(p, "unlock", 1, inst[p].plan, inst[p].orig, "plan", inst[p].stuck)
    BY <1>3, FailsBecomes DEF IInv, Phases, Errors
  <2>2. TypeOK'
    BY <2>1 DEF IInv, TypeOK, Becomes
  <2>3. Good(p)'
    BY <2>1 DEF Becomes, Good, Decided, FoundStands, SucceedsOnItsPair
  <2> QED BY <1>1, <2>1, <2>2, <2>3, OwnersStep DEF Becomes
<1> QED BY <1>2, <1>3

LEMMA SnapshotStep ==
  ASSUME IInv, NEW p \in Installers, TakeSnapshot(p) PROVE IInv'
<1> USE DEF TakeSnapshot, At, disk, world
<1>1. Good(p) /\ inst[p] \in Installation /\ Owns(p) /\ lock
  BY InstallationFields DEF IInv, Owns, Exclusive
<1> DEFINE f == CheckOrder[inst[p].i]
           last == inst[p].i = 2
<1>2. inst[p].i \in {1, 2} /\ f \in Files /\ dest[f] \in Contents /\ (last \/ f = "brainmap")
  BY <1>1, Orders, InstallationFields DEF Files, IInv, TypeOK
<1> DEFINE found == [inst[p].orig EXCEPT ![f] = dest[f]]
<1>4. found \in [Files -> Contents]
  BY <1>1, <1>2 DEF Installation
<1>5. inst'[p] \in Installation /\ inst'[p].orig = found /\ inst'[p].plan = inst[p].plan
        /\ inst'[p].i = (IF last THEN 1 ELSE 2)
        /\ inst'[p].pc = IF last THEN "validate" ELSE "snapshot"
  <2>1. inst'[p] = IF last THEN [inst[p] EXCEPT !.orig = found, !.i = 1, !.pc = "validate"]
                           ELSE [inst[p] EXCEPT !.orig = found, !.i = inst[p].i + 1]
    BY Orders DEF IInv, TypeOK
  <2>2. inst[p].pc = "snapshot"
    OBVIOUS
  <2> HIDE DEF found, TakeSnapshot, last, f
  <2>3. CASE last
    BY <1>1, <1>4, <2>1, <2>3 DEF Installation, Phases
  <2>4. CASE ~last
    <3>1. inst[p].i + 1 = 2
      BY <1>2, <2>4 DEF last
    <3> QED BY <1>1, <1>4, <2>1, <2>2, <2>4, <3>1 DEF Installation
  <2> QED BY <2>3, <2>4
<1>6. \A q \in Installers \ {p} : inst'[q] = inst[q]
  BY DEF IInv, TypeOK
<1>8. inst' \in [Installers -> Installation]
  BY <1>5 DEF IInv, TypeOK
<1>9. TypeOK'
  BY <1>8 DEF IInv, TypeOK
<1>10. Good(p)'
  <2>1. inst'[p].orig[f] = dest[f] /\ \A g \in Files \ {f} : inst'[p].orig[g] = inst[p].orig[g]
    BY <1>1, <1>2, <1>5 DEF Installation
  <2>2. inst'[p].plan = inst[p].plan
    BY <1>5
  <2>3. CASE last
    <3>1. inst'[p].pc = "validate" /\ f = "brainmapd"
      BY <1>5, <2>3, Orders
    <3>2. \A g \in Files : AsFound(p, g)'
      BY <1>1, <2>1, <2>3, <3>1 DEF Good, FoundStands, AsFound, Files
    <3> QED BY <1>1, <2>2, <3>1, <3>2 DEF Good, Decided, FoundStands, SucceedsOnItsPair
  <2>4. CASE ~last
    <3>1. inst'[p].pc = "snapshot" /\ f = "brainmap"
      BY <1>2, <1>5, <2>4
    <3>2. AsFound(p, "brainmap")'
      BY <2>1, <3>1 DEF AsFound
    <3> QED BY <1>1, <2>2, <3>1, <3>2 DEF Good, Decided, FoundStands, SucceedsOnItsPair
  <2> QED BY <2>3, <2>4
<1> QED BY <1>1, <1>6, <1>9, <1>10, OwnersStep

LEMMA ValidateStep ==
  ASSUME IInv, NEW p \in Installers, Validate(p) PROVE IInv'
<1> USE DEF Validate, At, disk, world
<1>1. Good(p) /\ Owns(p) /\ lock
  BY DEF IInv, Owns, Exclusive
<1>2. \/ /\ Becomes(p, "backup", 1, inst[p].plan, inst[p].orig, inst[p].error, inst[p].stuck)
         /\ \A f \in Files : SnapshotValid(p, f)
      \/ Becomes(p, "unlock", 1, inst[p].plan, inst[p].orig, "preflight", inst[p].stuck)
  BY GoesBecomes, FailsBecomes DEF IInv, Phases, Errors
<1>3. TypeOK'
  BY <1>2 DEF IInv, TypeOK, Becomes
<1>4. Good(p)'
  BY <1>1, <1>2 DEF Becomes, Good, Decided, FoundStands, SucceedsOnItsPair, AsFound,
                         SnapshotValid
<1> QED BY <1>1, <1>2, <1>3, <1>4, OwnersStep DEF Becomes

LEMMA BackupStep ==
  ASSUME InstallConstants, IInv, NEW p \in Installers, Backup(p) PROVE IInv'
<1> USE DEF Backup, At, world
<1>1. Good(p) /\ Owns(p) /\ lock
  BY DEF IInv, Owns, Exclusive
<1> DEFINE f == CheckOrder[inst[p].i]
<1>2. f \in Files
  BY Orders, InstallationFields DEF Files, IInv
<1>3. /\ backups' \in [Files -> SUBSET Builds] /\ errors' \in Nat
      /\ Steps(p, "recheck") \/ Fails(p, "unlock", "io")
  <2>1. CASE inst[p].plan[f] = "update" /\ Steps(p, "recheck") /\ UNCHANGED errors
               /\ backups' = [backups EXCEPT ![f] = @ \cup {inst[p].orig[f].build}]
    <3>1. inst[p].orig[f] \in Executable
      BY <1>1, <1>2, <2>1, InstallationFields DEF Good, Decided, Contents, IInv
    <3> QED BY <1>2, <2>1, <3>1 DEF IInv, TypeOK, Executable
  <2>2. CASE Breaks(p, "unlock") /\ UNCHANGED backups
    BY <2>2 DEF Breaks, IInv, TypeOK
  <2>3. CASE inst[p].plan[f] # "update"
    BY <2>3 DEF IInv, TypeOK
  <2> QED BY <2>1, <2>2, <2>3
<1>4. \/ \E pc \in {"backup", "recheck"}, i \in {1, 2} :
            Becomes(p, pc, i, inst[p].plan, inst[p].orig, inst[p].error, inst[p].stuck)
      \/ Becomes(p, "unlock", 1, inst[p].plan, inst[p].orig, "io", inst[p].stuck)
  BY <1>3, StepsBecomes, FailsBecomes DEF IInv, Phases, Errors
<1>5. TypeOK'
  BY <1>3, <1>4 DEF IInv, TypeOK, Becomes
<1>6. Good(p)'
  BY <1>1, <1>4 DEF Becomes, Good, Decided, FoundStands, SucceedsOnItsPair, AsFound
<1> QED BY <1>1, <1>4, <1>5, <1>6, OwnersStep DEF Becomes

\* In most phases nothing is said of the files.
LEMMA NothingIsClaimed ==
  ASSUME NEW p \in Installers,
         \/ inst'[p].pc \in {"recheck", "write", "permit", "check", "verify", "dead"}
         \/ inst'[p].pc = "restore" /\ inst'[p].i = 1
  PROVE  Good(p)'
  BY DEF Good, Decided, FoundStands, SucceedsOnItsPair

LEMMA RecheckStep ==
  ASSUME IInv, NEW p \in Installers, Recheck(p) PROVE IInv'
<1> USE DEF Recheck, At, disk, world
<1>1. Owns(p) /\ lock
  BY DEF IInv, Owns, Exclusive
<1>2. \/ Becomes(p, "write", 1, inst[p].plan, inst[p].orig, inst[p].error, inst[p].stuck)
      \/ Becomes(p, "restore", 1, inst[p].plan, inst[p].orig, "changed", inst[p].stuck)
  BY GoesBecomes, FailsBecomes DEF IInv, Phases, Errors
<1>3. TypeOK'
  BY <1>2 DEF IInv, TypeOK, Becomes
<1>4. Good(p)'
  BY <1>2, NothingIsClaimed DEF Becomes
<1> QED BY <1>1, <1>2, <1>3, <1>4, OwnersStep DEF Becomes

LEMMA PutTyped ==
  ASSUME TypeOK, NEW f \in Files, NEW b \in Builds, Put(f, b)
  PROVE  /\ dest' \in [Files -> Contents] /\ dest'[f] = [build |-> b, exec |-> FALSE]
         /\ \A g \in Files \ {f} : dest'[g] = dest[g]
  BY DEF TypeOK, Put, Contents, Executable

LEMMA PermitTyped ==
  ASSUME TypeOK, NEW f \in Files, NEW x \in BOOLEAN, dest[f] # Nothing,
         dest' = [dest EXCEPT ![f].exec = x]
  PROVE  /\ dest' \in [Files -> Contents] /\ dest'[f] = [build |-> dest[f].build, exec |-> x]
         /\ dest[f] \in Executable
         /\ \A g \in Files \ {f} : dest'[g] = dest[g]
<1>1. dest[f] \in Executable
  BY DEF TypeOK, Contents
<1>2. dest'[f] = [dest[f] EXCEPT !.exec = x]
  BY DEF TypeOK
<1>3. dest'[f] = [build |-> dest[f].build, exec |-> x]
  BY <1>1, <1>2 DEF Executable
<1> QED BY <1>1, <1>3 DEF TypeOK, Contents, Executable

LEMMA WriteDoes ==
  ASSUME IInv, NEW p \in Installers, Write(p), NEW f \in Files, f = InstallOrder[inst[p].i]
  PROVE  \/ /\ inst[p].plan[f] = "unchanged" /\ UNCHANGED <<dest, errors>>
            /\ \/ inst[p].i = 2 /\ Becomes(p, "check", 1, inst[p].plan, inst[p].orig,
                                            inst[p].error, inst[p].stuck)
               \/ inst[p].i = 1 /\ Becomes(p, "write", 2, inst[p].plan, inst[p].orig,
                                            inst[p].error, inst[p].stuck)
         \/ /\ Put(f, source[p][f]) /\ UNCHANGED errors
            /\ Becomes(p, "permit", inst[p].i, inst[p].plan, inst[p].orig, inst[p].error,
                       inst[p].stuck)
         \/ /\ Put(f, source[p][f]) \/ UNCHANGED dest
            /\ errors' \in Nat
            /\ Becomes(p, "restore", 1, inst[p].plan, inst[p].orig, "io", inst[p].stuck)
<1> USE DEF Write, At
<1>1. TypeOK /\ "check" \in Phases /\ "permit" \in Phases /\ "restore" \in Phases
        /\ "io" \in Errors
  BY DEF IInv, Phases, Errors
<1>2. CASE inst[p].plan[f] = "unchanged" /\ Steps(p, "check") /\ UNCHANGED <<dest, errors>>
  BY <1>1, <1>2, StepsBecomes
<1>3. CASE /\ Put(f, source[p][f]) /\ UNCHANGED errors
           /\ inst' = [inst EXCEPT ![p].pc = "permit"]
  BY <1>1, <1>3, PhaseBecomes
<1>4. CASE (Put(f, source[p][f]) \/ UNCHANGED dest) /\ Breaks(p, "restore")
  <2>1. errors' \in Nat /\ Fails(p, "restore", "io")
    BY <1>1, <1>4 DEF Breaks, TypeOK
  <2> QED BY <1>1, <1>4, <2>1, FailsBecomes
<1> QED BY <1>2, <1>3, <1>4

LEMMA WriteStep ==
  ASSUME IInv, NEW p \in Installers, Write(p) PROVE IInv'
<1>1. Owns(p) /\ lock
  BY DEF IInv, Owns, Exclusive, Write, At
<1>2. PICK f \in Files : f = InstallOrder[inst[p].i]
  BY Orders, InstallationFields DEF Files, IInv
<1>3. source[p][f] \in Builds /\ TypeOK
  BY DEF IInv, TypeOK
<1>4. dest' \in [Files -> Contents] /\ errors' \in Nat
  BY <1>2, <1>3, WriteDoes, PutTyped DEF TypeOK
<1>5. TypeOK'
  BY <1>2, <1>3, <1>4, WriteDoes DEF TypeOK, Becomes, Write, world
<1>6. Good(p)'
  BY <1>2, WriteDoes, NothingIsClaimed DEF Becomes
<1> QED BY <1>1, <1>2, <1>5, <1>6, WriteDoes, OwnersStep DEF Becomes, Write

LEMMA PermitDoes ==
  ASSUME IInv, NEW p \in Installers, Permit(p), NEW f \in Files, f = InstallOrder[inst[p].i]
  PROVE  \/ /\ dest[f] # Nothing /\ dest' = [dest EXCEPT ![f].exec = TRUE] /\ UNCHANGED errors
            /\ \/ inst[p].i = 2 /\ Becomes(p, "check", 1, inst[p].plan, inst[p].orig,
                                            inst[p].error, inst[p].stuck)
               \/ inst[p].i = 1 /\ Becomes(p, "write", 2, inst[p].plan, inst[p].orig,
                                            inst[p].error, inst[p].stuck)
         \/ /\ UNCHANGED dest /\ errors' \in Nat
            /\ Becomes(p, "restore", 1, inst[p].plan, inst[p].orig, "io", inst[p].stuck)
<1> USE DEF Permit, At
<1>1. TypeOK /\ "check" \in Phases /\ "write" \in Phases /\ "restore" \in Phases
        /\ "io" \in Errors /\ inst[p].i \in {1, 2}
  BY InstallationFields DEF IInv, Phases, Errors
<1>2. CASE /\ dest[f] # Nothing /\ dest' = [dest EXCEPT ![f].exec = TRUE] /\ UNCHANGED errors
           /\ inst[p].i = 2 /\ MovesTo(p, "check")
  BY <1>1, <1>2, GoesBecomes
<1>3. CASE /\ dest[f] # Nothing /\ dest' = [dest EXCEPT ![f].exec = TRUE] /\ UNCHANGED errors
           /\ inst[p].i # 2 /\ inst' = [inst EXCEPT ![p].pc = "write", ![p].i = @ + 1]
  BY <1>1, <1>3, SecondBecomes
<1>4. CASE UNCHANGED dest /\ Breaks(p, "restore")
  <2>1. errors' \in Nat /\ Fails(p, "restore", "io")
    BY <1>1, <1>4 DEF Breaks, TypeOK
  <2> QED BY <1>1, <1>4, <2>1, FailsBecomes
<1> QED BY <1>2, <1>3, <1>4, Orders DEF MovesTo

LEMMA PermitStep ==
  ASSUME IInv, NEW p \in Installers, Permit(p) PROVE IInv'
<1>1. Owns(p) /\ lock
  BY DEF IInv, Owns, Exclusive, Permit, At
<1>2. PICK f \in Files : f = InstallOrder[inst[p].i]
  BY Orders, InstallationFields DEF Files, IInv
<1>3. dest' \in [Files -> Contents] /\ errors' \in Nat
  BY <1>2, PermitDoes, PermitTyped DEF IInv, TypeOK
<1>4. TypeOK'
  BY <1>2, <1>3, PermitDoes DEF IInv, TypeOK, Becomes, Permit, world
<1>5. Good(p)'
  BY <1>2, PermitDoes, NothingIsClaimed DEF Becomes
<1> QED BY <1>1, <1>2, <1>4, <1>5, PermitDoes, OwnersStep DEF Becomes, Permit

LEMMA CheckStep ==
  ASSUME IInv, NEW p \in Installers, Check(p) PROVE IInv'
<1> USE DEF Check, At, disk, world
<1>1. Owns(p) /\ lock
  BY DEF IInv, Owns, Exclusive
<1>2. \/ Becomes(p, "verify", 1, inst[p].plan, inst[p].orig, inst[p].error, inst[p].stuck)
      \/ Becomes(p, "restore", 1, inst[p].plan, inst[p].orig, "hash", inst[p].stuck)
      \/ Becomes(p, "restore", 1, inst[p].plan, inst[p].orig, "shadowed", inst[p].stuck)
  BY GoesBecomes, FailsBecomes DEF IInv, Phases, Errors
<1>3. TypeOK'
  BY <1>2 DEF IInv, TypeOK, Becomes
<1>4. Good(p)'
  BY <1>2, NothingIsClaimed DEF Becomes
<1> QED BY <1>1, <1>2, <1>3, <1>4, OwnersStep DEF Becomes

LEMMA VerifyStep ==
  ASSUME IInv, NEW p \in Installers, Verify(p) PROVE IInv'
<1> USE DEF Verify, At, disk, world
<1>1. Owns(p) /\ lock
  BY DEF IInv, Owns, Exclusive
<1>2. CASE (\A f \in Files : Installed(p, f) /\ dest[f].exec) /\ MovesTo(p, "ok")
  <2>1. Becomes(p, "ok", 1, inst[p].plan, inst[p].orig, inst[p].error, inst[p].stuck)
    BY <1>2, GoesBecomes DEF IInv, Phases
  <2>2. \A f \in Files : dest[f] = [build |-> Candidate[p], exec |-> TRUE]
    BY <1>2 DEF Installed, IInv, TypeOK, Contents, Executable
  <2>3. TypeOK'
    BY <2>1 DEF IInv, TypeOK, Becomes
  <2>4. Good(p)'
    BY <2>1, <2>2 DEF Becomes, Good, Decided, FoundStands, SucceedsOnItsPair
  <2> QED BY <1>1, <2>1, <2>3, <2>4, OwnersStep DEF Becomes
<1>3. CASE Fails(p, "restore", "verification")
  <2>1. Becomes(p, "restore", 1, inst[p].plan, inst[p].orig, "verification", inst[p].stuck)
    BY <1>3, FailsBecomes DEF IInv, Phases, Errors
  <2>2. TypeOK'
    BY <2>1 DEF IInv, TypeOK, Becomes
  <2>3. Good(p)'
    BY <2>1, NothingIsClaimed DEF Becomes
  <2> QED BY <1>1, <2>1, <2>2, <2>3, OwnersStep DEF Becomes
<1> QED BY <1>2, <1>3

LEMMA RestoreDoes ==
  ASSUME IInv, NEW p \in Installers, Restore(p), NEW f \in Files, f = CheckOrder[inst[p].i]
  PROVE  \/ /\ inst[p].orig[f] = Nothing /\ dest' = [dest EXCEPT ![f] = Nothing] /\ UNCHANGED errors
            /\ \/ inst[p].i = 2 /\ Becomes(p, "unlock", 1, inst[p].plan, inst[p].orig,
                                            inst[p].error, inst[p].stuck)
               \/ inst[p].i = 1 /\ Becomes(p, "restore", 2, inst[p].plan, inst[p].orig,
                                            inst[p].error, inst[p].stuck)
         \/ /\ inst[p].orig[f] \in Executable /\ inst[p].orig[f] # Nothing
            /\ Put(f, inst[p].orig[f].build) /\ UNCHANGED errors
            /\ Becomes(p, "repermit", inst[p].i, inst[p].plan, inst[p].orig, inst[p].error,
                       inst[p].stuck)
         \/ /\ UNCHANGED dest /\ errors' \in Nat
            /\ Becomes(p, "unlock", 1, inst[p].plan, inst[p].orig, inst[p].error, f)
<1> USE DEF Restore, At
<1>1. TypeOK /\ "unlock" \in Phases /\ "repermit" \in Phases /\ "restore" \in Phases
        /\ errors \in Nat
  BY DEF IInv, Phases, TypeOK
<1>2. CASE inst[p].orig[f] = Nothing /\ Restored(p, f) /\ UNCHANGED errors /\ Steps(p, "unlock")
  BY <1>1, <1>2, StepsBecomes DEF Restored
<1>3. CASE inst[p].orig[f] # Nothing /\ Restored(p, f) /\ UNCHANGED errors
           /\ inst' = [inst EXCEPT ![p].pc = "repermit"]
  <2>1. inst[p].orig[f] \in Executable
    BY <1>1, <1>3, InstallationFields DEF Contents
  <2>2. Becomes(p, "repermit", inst[p].i, inst[p].plan, inst[p].orig, inst[p].error, inst[p].stuck)
    BY <1>1, <1>3, PhaseBecomes
  <2> QED BY <1>3, <2>1, <2>2 DEF Restored
<1>4. CASE /\ errors' = errors + 1 /\ UNCHANGED dest
           /\ inst' = [inst EXCEPT ![p].pc = "unlock", ![p].i = 1, ![p].stuck = f]
  <2>1. errors' \in Nat
    BY <1>1, <1>4
  <2>2. Becomes(p, "unlock", 1, inst[p].plan, inst[p].orig, inst[p].error, f)
    BY <1>1, <1>4, StuckBecomes
  <2> QED BY <1>4, <2>1, <2>2
<1> QED BY <1>2, <1>3, <1>4

LEMMA RestoreStep ==
  ASSUME InstallConstants, IInv, NEW p \in Installers, Restore(p) PROVE IInv'
<1>1. Owns(p) /\ lock /\ TypeOK /\ Good(p) /\ inst[p].pc = "restore"
  BY DEF IInv, Owns, Exclusive, Restore, At
<1>2. PICK f \in Files : f = CheckOrder[inst[p].i]
  BY <1>1, Orders, InstallationFields DEF Files
<1>3. UNCHANGED <<backups, world, lock, late>>
  BY DEF Restore
<1>4. inst[p].i = 2 => AsFound(p, "brainmap") /\ f = "brainmapd"
  BY <1>1, <1>2, Orders DEF Good, FoundStands
<1>5. inst[p].i = 1 => f = "brainmap"
  BY <1>2, Orders
<1>6. CASE /\ inst[p].orig[f] = Nothing /\ dest' = [dest EXCEPT ![f] = Nothing] /\ UNCHANGED errors
           /\ \/ inst[p].i = 2 /\ Becomes(p, "unlock", 1, inst[p].plan, inst[p].orig,
                                           inst[p].error, inst[p].stuck)
              \/ inst[p].i = 1 /\ Becomes(p, "restore", 2, inst[p].plan, inst[p].orig,
                                           inst[p].error, inst[p].stuck)
  <2>1. dest' \in [Files -> Contents] /\ dest'[f] = Nothing
          /\ \A g \in Files \ {f} : dest'[g] = dest[g]
    BY <1>1, <1>6 DEF TypeOK, Contents
  <2>2. TypeOK'
    BY <1>1, <1>3, <1>6, <2>1 DEF TypeOK, Becomes, world
  <2>3. AsFound(p, f)' /\ inst'[p].orig = inst[p].orig
    BY <1>6, <2>1 DEF AsFound, Becomes
  <2>4. CASE inst[p].i = 2
    <3>1. \A g \in Files : AsFound(p, g)'
      BY <1>3, <1>4, <2>1, <2>3, <2>4 DEF AsFound, Files
    <3>2. inst'[p].pc = "unlock"
      BY <1>6, <2>4 DEF Becomes
    <3> QED BY <1>1, <1>3, <1>6, <2>2, <3>1, <3>2, OwnersStep
            DEF Becomes, Good, Decided, FoundStands, SucceedsOnItsPair
  <2>5. CASE inst[p].i = 1
    <3>1. inst'[p].pc = "restore" /\ inst'[p].i = 2
      BY <1>6, <2>5 DEF Becomes
    <3>2. Good(p)'
      BY <1>5, <2>3, <2>5, <3>1 DEF Good, Decided, FoundStands, SucceedsOnItsPair
    <3> QED BY <1>1, <1>3, <1>6, <2>2, <3>2, OwnersStep DEF Becomes
  <2> QED BY <1>6, <2>4, <2>5
<1>7. CASE /\ inst[p].orig[f] \in Executable /\ inst[p].orig[f] # Nothing
           /\ Put(f, inst[p].orig[f].build) /\ UNCHANGED errors
           /\ Becomes(p, "repermit", inst[p].i, inst[p].plan, inst[p].orig, inst[p].error,
                      inst[p].stuck)
  <2>1. inst[p].orig[f].build \in Builds
    BY <1>7 DEF Executable
  <2>2. dest' \in [Files -> Contents]
          /\ dest'[f] = [build |-> inst[p].orig[f].build, exec |-> FALSE]
          /\ \A g \in Files \ {f} : dest'[g] = dest[g]
    BY <1>1, <1>7, <2>1, PutTyped
  <2>3. TypeOK'
    BY <1>1, <1>3, <1>7, <2>2 DEF TypeOK, Becomes, world
  <2>4. dest'[f] # Nothing
    <3>1. dest'[f] \in Executable
      BY <2>1, <2>2 DEF Executable
    <3> QED BY <3>1, NoneIsNothing
  <2>5. inst'[p].pc = "repermit" /\ inst'[p].i = inst[p].i /\ inst'[p].orig = inst[p].orig
    BY <1>7 DEF Becomes
  <2>6. inst[p].i = 2 => AsFound(p, "brainmap")'
    BY <1>3, <1>4, <2>2, <2>5 DEF AsFound, Files
  <2>7. Good(p)'
    BY <1>2, <1>7, <2>2, <2>4, <2>5, <2>6 DEF Good, Decided, FoundStands, SucceedsOnItsPair
  <2> QED BY <1>1, <1>3, <1>7, <2>3, <2>7, OwnersStep DEF Becomes
<1>8. CASE /\ UNCHANGED dest /\ errors' \in Nat
           /\ Becomes(p, "unlock", 1, inst[p].plan, inst[p].orig, inst[p].error, f)
  <2>1. TypeOK'
    BY <1>1, <1>3, <1>8 DEF TypeOK, Becomes, world
  <2>2. f # Nothing
    BY NoneIsNothing
  <2>3. Good(p)'
    BY <1>8, <2>2 DEF Becomes, Good, Decided, FoundStands, SucceedsOnItsPair
  <2> QED BY <1>1, <1>3, <1>8, <2>1, <2>3, OwnersStep DEF Becomes
<1> QED BY <1>2, <1>6, <1>7, <1>8, RestoreDoes

LEMMA RepermitDoes ==
  ASSUME IInv, NEW p \in Installers, Repermit(p), NEW f \in Files, f = CheckOrder[inst[p].i]
  PROVE  \/ /\ dest[f] # Nothing /\ dest' = [dest EXCEPT ![f].exec = inst[p].orig[f].exec]
            /\ UNCHANGED errors
            /\ \/ inst[p].i = 2 /\ Becomes(p, "unlock", 1, inst[p].plan, inst[p].orig,
                                            inst[p].error, inst[p].stuck)
               \/ inst[p].i = 1 /\ Becomes(p, "restore", 2, inst[p].plan, inst[p].orig,
                                            inst[p].error, inst[p].stuck)
         \/ /\ UNCHANGED dest /\ errors' \in Nat
            /\ Becomes(p, "unlock", 1, inst[p].plan, inst[p].orig, inst[p].error, f)
<1> USE DEF Repermit, At
<1>1. TypeOK /\ "unlock" \in Phases /\ "restore" \in Phases /\ errors \in Nat
        /\ inst[p].i \in {1, 2}
  BY InstallationFields DEF IInv, Phases, TypeOK
<1>2. CASE /\ dest[f] # Nothing /\ dest' = [dest EXCEPT ![f].exec = inst[p].orig[f].exec]
           /\ UNCHANGED errors /\ inst[p].i = 2 /\ MovesTo(p, "unlock")
  BY <1>1, <1>2, GoesBecomes
<1>3. CASE /\ dest[f] # Nothing /\ dest' = [dest EXCEPT ![f].exec = inst[p].orig[f].exec]
           /\ UNCHANGED errors
           /\ inst[p].i # 2 /\ inst' = [inst EXCEPT ![p].pc = "restore", ![p].i = @ + 1]
  BY <1>1, <1>3, SecondBecomes
<1>4. CASE /\ errors' = errors + 1 /\ UNCHANGED dest
           /\ inst' = [inst EXCEPT ![p].pc = "unlock", ![p].i = 1, ![p].stuck = f]
  <2>1. errors' \in Nat
    BY <1>1, <1>4
  <2>2. Becomes(p, "unlock", 1, inst[p].plan, inst[p].orig, inst[p].error, f)
    BY <1>1, <1>4, StuckBecomes
  <2> QED BY <1>4, <2>1, <2>2
<1> QED BY <1>2, <1>3, <1>4, Orders DEF MovesTo

LEMMA RepermitStep ==
  ASSUME InstallConstants, IInv, NEW p \in Installers, Repermit(p) PROVE IInv'
<1>1. Owns(p) /\ lock /\ TypeOK /\ Good(p) /\ inst[p].pc = "repermit"
  BY DEF IInv, Owns, Exclusive, Repermit, At
<1>2. PICK f \in Files : f = CheckOrder[inst[p].i]
  BY <1>1, Orders, InstallationFields DEF Files
<1>3. UNCHANGED <<backups, world, lock, late>>
  BY DEF Repermit
<1>4. inst[p].i = 2 => AsFound(p, "brainmap") /\ f = "brainmapd"
  BY <1>1, <1>2, Orders DEF Good, FoundStands
<1>5. inst[p].i = 1 => f = "brainmap"
  BY <1>2, Orders
<1>6. /\ inst[p].orig[f] # Nothing
      /\ f \in late \/ (dest[f] # Nothing /\ dest[f].build = inst[p].orig[f].build)
  BY <1>1, <1>2 DEF Good, FoundStands
<1>7. CASE /\ dest[f] # Nothing /\ dest' = [dest EXCEPT ![f].exec = inst[p].orig[f].exec]
           /\ UNCHANGED errors
           /\ \/ inst[p].i = 2 /\ Becomes(p, "unlock", 1, inst[p].plan, inst[p].orig,
                                           inst[p].error, inst[p].stuck)
              \/ inst[p].i = 1 /\ Becomes(p, "restore", 2, inst[p].plan, inst[p].orig,
                                           inst[p].error, inst[p].stuck)
  <2>1. inst[p].orig[f] \in Executable
    BY <1>1, <1>6, InstallationFields DEF Contents
  <2>2. inst[p].orig[f].exec \in BOOLEAN
    BY <2>1 DEF Executable
  <2>3. dest' \in [Files -> Contents]
          /\ dest'[f] = [build |-> dest[f].build, exec |-> inst[p].orig[f].exec]
          /\ \A g \in Files \ {f} : dest'[g] = dest[g]
    BY <1>1, <1>7, <2>2, PermitTyped
  <2>4. f \in late \/ dest'[f] = inst[p].orig[f]
    BY <1>6, <2>1, <2>3 DEF Executable
  <2>5. TypeOK'
    BY <1>1, <1>3, <1>7, <2>3 DEF TypeOK, Becomes, world
  <2>6. AsFound(p, f)' /\ inst'[p].orig = inst[p].orig
    BY <1>3, <1>7, <2>4 DEF AsFound, Becomes
  <2>7. CASE inst[p].i = 2
    <3>1. \A g \in Files : AsFound(p, g)'
      BY <1>3, <1>4, <2>3, <2>6, <2>7 DEF AsFound, Files
    <3>2. inst'[p].pc = "unlock"
      BY <1>7, <2>7 DEF Becomes
    <3>3. Good(p)'
      BY <3>1, <3>2 DEF Good, Decided, FoundStands, SucceedsOnItsPair
    <3> QED BY <1>1, <1>3, <1>7, <2>5, <3>3, OwnersStep DEF Becomes
  <2>8. CASE inst[p].i = 1
    <3>1. inst'[p].pc = "restore" /\ inst'[p].i = 2
      BY <1>7, <2>8 DEF Becomes
    <3>2. Good(p)'
      BY <1>5, <2>6, <2>8, <3>1 DEF Good, Decided, FoundStands, SucceedsOnItsPair
    <3> QED BY <1>1, <1>3, <1>7, <2>5, <3>2, OwnersStep DEF Becomes
  <2> QED BY <1>7, <2>7, <2>8
<1>8. CASE /\ UNCHANGED dest /\ errors' \in Nat
           /\ Becomes(p, "unlock", 1, inst[p].plan, inst[p].orig, inst[p].error, f)
  <2>1. TypeOK'
    BY <1>1, <1>3, <1>8 DEF TypeOK, Becomes, world
  <2>2. f # Nothing
    BY NoneIsNothing
  <2>3. Good(p)'
    BY <1>8, <2>2 DEF Becomes, Good, Decided, FoundStands, SucceedsOnItsPair
  <2> QED BY <1>1, <1>3, <1>8, <2>1, <2>3, OwnersStep DEF Becomes
<1> QED BY <1>2, <1>7, <1>8, RepermitDoes

LEMMA UnlockStep ==
  ASSUME InstallConstants, IInv, NEW p \in Installers, Unlock(p) \/ ClearLock(p) PROVE IInv'
<1>1. Owns(p) /\ TypeOK /\ lock' = FALSE /\ UNCHANGED <<disk, world, late, errors>>
  BY DEF IInv, Owns, Unlock, ClearLock, At
<1>2. /\ Becomes(p, "idle", 1, NotStarted.plan, NotStarted.orig, Nothing, Nothing)
      /\ NotStarted.plan["brainmap"] = Nothing
  BY <1>1, IdleBecomes DEF Unlock, ClearLock
<1>3. TypeOK'
  BY <1>1, <1>2 DEF TypeOK, Becomes, disk, world
<1>4. ~Owns(p)' /\ Good(p)'
  BY <1>2 DEF Becomes, Owns, Good, Decided, FoundStands, SucceedsOnItsPair
<1> QED BY <1>1, <1>2, <1>3, <1>4, OwnersStep DEF Becomes

LEMMA CrashStep ==
  ASSUME IInv, NEW p \in Installers, InstallerCrash(p) PROVE IInv'
<1> USE DEF InstallerCrash, disk
<1>1. TypeOK /\ Good(p) /\ crashes' \in Nat
  BY DEF IInv, TypeOK
<1>2. CASE inst[p].pc = "lock"
  <2>1. inst' = [inst EXCEPT ![p].pc = "idle"]
    BY <1>2
  <2>2. Becomes(p, "idle", inst[p].i, inst[p].plan, inst[p].orig, inst[p].error, inst[p].stuck)
    BY <1>1, <2>1, PhaseBecomes DEF Phases
  <2>3. TypeOK'
    BY <1>1, <2>2 DEF TypeOK, Becomes
  <2>4. ~Owns(p)' /\ Good(p)'
    BY <1>1, <1>2, <2>2 DEF Becomes, Owns, Good, Decided, FoundStands, SucceedsOnItsPair
  <2> QED BY <2>2, <2>3, <2>4, OutsidersStep DEF Becomes
<1>3. CASE inst[p].pc # "lock"
  <2>1. inst' = [inst EXCEPT ![p].pc = "dead"]
    BY <1>3
  <2>2. Becomes(p, "dead", inst[p].i, inst[p].plan, inst[p].orig, inst[p].error, inst[p].stuck)
    BY <1>1, <2>1, PhaseBecomes DEF Phases
  <2>3. TypeOK'
    BY <1>1, <2>2 DEF TypeOK, Becomes
  <2>4. Owns(p) /\ lock
    BY <1>3 DEF IInv, Owns, Exclusive
  <2>5. Good(p)'
    BY <2>2, NothingIsClaimed DEF Becomes
  <2> QED BY <2>2, <2>3, <2>4, <2>5, OwnersStep DEF Becomes
<1> QED BY <1>2, <1>3

\* What others change is known to be late.
LEMMA OthersStep ==
  ASSUME IInv, Others PROVE IInv'
<1>1. TypeOK /\ changes' \in Nat
  BY DEF IInv, TypeOK, Others
<1>2. Exclusive'
  BY DEF IInv, Exclusive, Owns, Others
<1>3. ASSUME NEW f \in Files, NEW b \in Builds,
             dest' = [dest EXCEPT ![f] = [build |-> b, exec |-> TRUE]],
             late' = late \cup {f}, UNCHANGED <<source, shadow>>
      PROVE  IInv'
  <2>1. dest' \in [Files -> Contents] /\ \A g \in Files \ {f} : dest'[g] = dest[g]
    BY <1>1, <1>3 DEF TypeOK, Contents, Executable
  <2>2. TypeOK'
    BY <1>1, <1>3, <2>1 DEF TypeOK, Others
  <2>3. ASSUME NEW p \in Installers PROVE Good(p)'
    <3>1. Good(p) /\ inst' = inst
      BY DEF IInv, Others
    <3>2. inst[p].i \in {1, 2} /\ CheckOrder[inst[p].i] \in Files
      BY <1>1, InstallationFields, Orders DEF Files
    <3>3. \A g \in Files : AsFound(p, g) => AsFound(p, g)'
      BY <1>3, <2>1, <3>1 DEF AsFound
    <3>4. FoundStands(p)'
      BY <1>3, <2>1, <3>1, <3>2, <3>3 DEF Good, FoundStands, Files
    <3>5. Decided(p)' /\ SucceedsOnItsPair(p)'
      BY <1>3, <2>1, <3>1 DEF Good, Decided, SucceedsOnItsPair
    <3> QED BY <3>4, <3>5 DEF Good
  <2> QED BY <1>2, <2>2, <2>3 DEF IInv
<1>4. ASSUME UNCHANGED <<dest, late>>, source' \in [Installers -> [Files -> Builds]],
             shadow' \in BOOLEAN
      PROVE  IInv'
  <2>1. TypeOK'
    BY <1>1, <1>4 DEF TypeOK, Others
  <2>2. \A p \in Installers : Good(p)'
    BY <1>4 DEF Others, IInv, Good, Decided, FoundStands, SucceedsOnItsPair, AsFound
  <2> QED BY <1>2, <2>1, <2>2 DEF IInv
<1>5. ASSUME NEW p \in Installers, NEW f \in Files, NEW b \in Builds,
             source' = [source EXCEPT ![p][f] = b]
      PROVE  source' \in [Installers -> [Files -> Builds]]
  BY <1>1, <1>5 DEF TypeOK
<1> QED BY <1>1, <1>3, <1>4, <1>5 DEF Others, TypeOK

-----------------------------------------------------------------------------
LEMMA InitIInv == ASSUME InstallConstants, InstallInit PROVE IInv
<1>1. NotStarted \in Installation
  BY DEF NotStarted, Installation, Phases, Plans, Contents, Errors
<1>2. TypeOK
  BY <1>1 DEF InstallInit, TypeOK, InstallConstants, Contents, Executable
<1>3. \A p \in Installers : Good(p) /\ ~Owns(p)
  BY DEF InstallInit, NotStarted, Good, Decided, FoundStands, SucceedsOnItsPair, Owns, Files
<1> QED BY <1>2, <1>3 DEF IInv, Exclusive

LEMMA NextIInv == ASSUME InstallConstants, IInv, [InstallNext]_installVars PROVE IInv'
<1>1. CASE UNCHANGED installVars
  BY <1>1 DEF IInv, installVars, TypeOK, Exclusive, Owns, Good, Decided, FoundStands, AsFound,
              SucceedsOnItsPair
<1>2. CASE Others
  BY <1>2, OthersStep
<1>3. ASSUME NEW p \in Installers, Installer(p) PROVE IInv'
  BY <1>3, PreflightStep, TakeLockStep, PlanStep, SnapshotStep, ValidateStep, BackupStep,
     RecheckStep, WriteStep, PermitStep, CheckStep, VerifyStep, RestoreStep, RepermitStep,
     UnlockStep, CrashStep DEF Installer
<1> QED BY <1>1, <1>2, <1>3 DEF InstallNext

LEMMA Invariance == ASSUME InstallConstants PROVE InstallSpec => []IInv
<1>1. InstallInit => IInv
  BY InitIInv
<1>2. IInv /\ [InstallNext]_installVars => IInv'
  BY NextIInv
<1> QED BY <1>1, <1>2, PTL DEF InstallSpec

\* An installer about to report success finds its own pair installed and executable, but for
\* what others changed since it compared the targets (install_candidate_files), for any number
\* of installers, builds, changes, crashes and errors.
THEOREM InstalledPairIsTheCandidate ==
  ASSUME InstallConstants PROVE InstallSpec => []SuccessIsThePair
<1>1. IInv => SuccessIsThePair
  BY DEF IInv, Good, SucceedsOnItsPair, SuccessIsThePair, At
<1> QED BY <1>1, Invariance, PTL

\* An installation that fails puts both files back as it found them, unless others changed one
\* or the rollback itself failed (install_candidate_files).
THEOREM FailedInstallRollsBack ==
  ASSUME InstallConstants PROVE InstallSpec => []FailedInstallLeavesOriginal
<1>1. IInv => FailedInstallLeavesOriginal
  BY DEF IInv, Good, FoundStands, AsFound, FailedInstallLeavesOriginal, At
<1> QED BY <1>1, Invariance, PTL

-----------------------------------------------------------------------------
\* Without others who change the files.

Writes(p, f) == inst[p].plan[f] \in {"create", "update"}
Covered(p) == Installed(p, "brainmap") => Installed(p, "brainmapd")

BrainmapIsNotYet(p) ==
    \/ inst[p].pc \in {"snapshot", "validate", "backup", "recheck", "repermit"}
    \/ inst[p].pc \in {"write", "permit"} /\ inst[p].i = 1
    \/ inst[p].pc = "restore" /\ inst[p].i = 2
    => ~Installed(p, "brainmap")

DaemonIsThere(p) ==
    /\ \/ inst[p].pc \in {"snapshot", "validate", "backup", "recheck"}
       \/ inst[p].pc = "write" /\ inst[p].i = 1
       => (inst[p].plan["brainmapd"] = "unchanged" => Installed(p, "brainmapd"))
    /\ inst[p].pc = "permit" \/ (inst[p].pc = "write" /\ inst[p].i = 2)
       => Installed(p, "brainmapd")

OldIsOld(p) ==
    inst[p].pc \in {"backup", "recheck", "write", "permit", "check", "verify", "restore",
                      "repermit"}
       => LET orig == inst[p].orig["brainmap"] IN orig = Nothing \/ orig.build # Candidate[p]

InOrder(p) ==
    /\ Writes(p, "brainmap") => Covered(p) /\ BrainmapIsNotYet(p) /\ OldIsOld(p)
    /\ DaemonIsThere(p)

NobodyElse ==
    /\ changes = 0
    /\ \A p \in Installers : SourceValid(p)

OrderInv == NobodyElse /\ \A p \in Installers : Owns(p) => InOrder(p)

LEMMA OwnersOrder ==
  ASSUME IInv, OrderInv, NEW p \in Installers, Owns(p), UNCHANGED <<source, changes>>,
         \A q \in Installers \ {p} : inst'[q] = inst[q],
         Owns(p)' => InOrder(p)'
  PROVE  OrderInv'
<1>1. ASSUME NEW q \in Installers, q # p PROVE ~Owns(q)'
  BY <1>1 DEF IInv, Exclusive, Owns
<1> QED BY <1>1 DEF OrderInv, NobodyElse, SourceValid

LEMMA OutsidersOrder ==
  ASSUME OrderInv, NEW p \in Installers, UNCHANGED <<source, changes, dest>>,
         \A q \in Installers \ {p} : inst'[q] = inst[q],
         Owns(p)' => InOrder(p)'
  PROVE  OrderInv'
<1>1. ASSUME NEW q \in Installers, q # p PROVE Owns(q)' => InOrder(q)'
  BY <1>1 DEF OrderInv, Owns, InOrder, Writes, Covered, BrainmapIsNotYet, DaemonIsThere, OldIsOld,
              Installed
<1> QED BY <1>1 DEF OrderInv, NobodyElse, SourceValid

\* What an installer that planned nothing for brainmap leaves is none of its doing.
LEMMA NothingPlanned ==
  ASSUME InstallConstants, NEW p \in Installers, inst'[p].plan["brainmap"] = Nothing,
         inst'[p].pc \in {"lock", "plan", "unlock", "dead", "idle"}
  PROVE  InOrder(p)'
  BY NoneIsNothing DEF InOrder, Writes, DaemonIsThere

\* In the last phases only the pair itself matters.
LEMMA PairMatters ==
  ASSUME NEW p \in Installers, inst'[p].pc \in {"ok", "unlock", "dead"},
         Writes(p, "brainmap")' => Covered(p)'
  PROVE  InOrder(p)'
  BY DEF InOrder, BrainmapIsNotYet, DaemonIsThere, OldIsOld

LEMMA PreflightOrder ==
  ASSUME InstallConstants, IInv, OrderInv, NEW p \in Installers, Preflight(p) \/ TakeLock(p)
  PROVE  OrderInv'
<1>1. TypeOK /\ Decided(p) /\ UNCHANGED <<source, changes, dest>>
        /\ inst[p].pc \in {"idle", "lock"}
  BY DEF IInv, Good, Preflight, TakeLock, At, world, disk
<1>2. \E pc \in {"lock", "idle", "plan", "dead"}, error \in Errors :
         Becomes(p, pc, 1, inst[p].plan, inst[p].orig, error, inst[p].stuck)
  <2>1. {"lock", "idle", "plan", "dead"} \subseteq Phases /\ inst[p].error \in Errors
          /\ "io" \in Errors
    BY <1>1, InstallationFields DEF Phases, Errors
  <2>2. \/ MovesTo(p, "lock") \/ MovesTo(p, "idle") \/ MovesTo(p, "plan")
        \/ Fails(p, "dead", "io")
    BY DEF Preflight, TakeLock, Breaks
  <2> QED BY <1>1, <2>1, <2>2, GoesBecomes, FailsBecomes
<1>3. InOrder(p)'
  BY <1>1, <1>2, NothingPlanned DEF Becomes, Decided
<1> QED BY <1>1, <1>2, <1>3, OutsidersOrder DEF Becomes

LEMMA PlanOrder ==
  ASSUME InstallConstants, IInv, OrderInv, NEW p \in Installers, Plan(p) PROVE OrderInv'
<1>1. TypeOK /\ Decided(p) /\ UNCHANGED <<source, changes, dest>> /\ Owns(p)
        /\ inst[p].pc = "plan" /\ inst[p] \in Installation
  BY InstallationFields DEF IInv, Good, Plan, At, world, disk, Owns
<1>2. SourceValid(p)
  BY DEF OrderInv, NobodyElse
<1>3. CASE shadow
  <2>1. Becomes(p, "unlock", 1, inst[p].plan, inst[p].orig, "plan", inst[p].stuck)
    BY <1>1, <1>3, FailsBecomes DEF Plan, Phases, Errors
  <2> QED BY <1>1, <2>1, NothingPlanned, OwnersOrder DEF Becomes, Decided
<1>4. CASE ~shadow
  <2> DEFINE plan == [f \in Files |-> Change(p, f)]
  <2>1. inst' = [inst EXCEPT ![p].pc = "snapshot", ![p].plan = plan]
    BY <1>2, <1>4 DEF Plan
  <2>2. inst'[p] = [inst[p] EXCEPT !.pc = "snapshot", !.plan = plan]
          /\ \A q \in Installers \ {p} : inst'[q] = inst[q]
    BY <1>1, <2>1 DEF TypeOK
  <2>3. inst'[p].pc = "snapshot" /\ inst'[p].plan = plan
    <3> HIDE DEF plan
    <3> QED BY <1>1, <2>2 DEF Installation
  <2>4. plan["brainmap"] = Change(p, "brainmap") /\ plan["brainmapd"] = Change(p, "brainmapd")
    BY DEF Files
  <2>5. plan["brainmap"] \in {"create", "update"} => ~Installed(p, "brainmap")
    BY <2>4 DEF Change, Installed
  <2>6. plan["brainmapd"] = "unchanged" => Installed(p, "brainmapd")
    BY <2>4 DEF Change, Installed
  <2>7. InOrder(p)'
    <3> HIDE DEF plan
    <3> QED BY <1>1, <2>3, <2>5, <2>6 DEF InOrder, Writes, Covered, BrainmapIsNotYet,
                 DaemonIsThere, OldIsOld, Installed
  <2> QED BY <1>1, <2>2, <2>7, OwnersOrder
<1> QED BY <1>3, <1>4

LEMMA SnapshotOrder ==
  ASSUME IInv, OrderInv, NEW p \in Installers, TakeSnapshot(p) PROVE OrderInv'
<1>1. TypeOK /\ InOrder(p) /\ UNCHANGED <<source, changes, dest>> /\ Owns(p)
        /\ inst[p].pc = "snapshot" /\ inst[p] \in Installation
  BY InstallationFields DEF IInv, OrderInv, TakeSnapshot, At, world, disk, Owns
<1>2. inst'[p].plan = inst[p].plan /\ inst'[p].pc \in {"snapshot", "validate"}
        /\ \A q \in Installers \ {p} : inst'[q] = inst[q]
  <2> DEFINE orig == [inst[p].orig EXCEPT ![CheckOrder[inst[p].i]] = dest[CheckOrder[inst[p].i]]]
  <2>1. inst' = [inst EXCEPT ![p] =
                   IF inst[p].i = Len(CheckOrder)
                   THEN [inst[p] EXCEPT !.orig = orig, !.i = 1, !.pc = "validate"]
                   ELSE [inst[p] EXCEPT !.orig = orig, !.i = inst[p].i + 1]]
    BY DEF TakeSnapshot
  <2> HIDE DEF orig
  <2> QED BY <1>1, <2>1 DEF TypeOK, Installation
<1>3. InOrder(p)'
  BY <1>1, <1>2 DEF InOrder, Writes, Covered, BrainmapIsNotYet, DaemonIsThere, OldIsOld, Installed
<1> QED BY <1>1, <1>2, <1>3, OwnersOrder

LEMMA ValidateOrder ==
  ASSUME IInv, OrderInv, NEW p \in Installers, Validate(p) PROVE OrderInv'
<1>1. TypeOK /\ InOrder(p) /\ UNCHANGED <<source, changes, dest>> /\ Owns(p)
        /\ inst[p].pc = "validate"
  BY DEF IInv, OrderInv, Validate, At, world, disk, Owns
<1>2. \/ /\ Becomes(p, "backup", 1, inst[p].plan, inst[p].orig, inst[p].error, inst[p].stuck)
         /\ SnapshotValid(p, "brainmap")
      \/ Becomes(p, "unlock", 1, inst[p].plan, inst[p].orig, "preflight", inst[p].stuck)
  BY <1>1, GoesBecomes, FailsBecomes DEF Validate, Phases, Errors, Files
<1>3. InOrder(p)'
  BY <1>1, <1>2 DEF Becomes, InOrder, Writes, Covered, BrainmapIsNotYet, DaemonIsThere, OldIsOld,
                    Installed, SnapshotValid
<1> QED BY <1>1, <1>2, <1>3, OwnersOrder DEF Becomes

LEMMA BackupOrder ==
  ASSUME IInv, OrderInv, NEW p \in Installers, Backup(p) \/ Recheck(p) PROVE OrderInv'
<1>1. TypeOK /\ InOrder(p) /\ UNCHANGED <<source, changes, dest>> /\ Owns(p)
        /\ inst[p].pc \in {"backup", "recheck"}
  BY DEF IInv, OrderInv, Backup, Recheck, At, world, disk, Owns
<1>2. \E pc \in {"backup", "recheck", "write", "restore", "unlock"}, i \in {1, 2},
         error \in Errors :
        /\ Becomes(p, pc, i, inst[p].plan, inst[p].orig, error, inst[p].stuck)
        /\ pc \in {"write", "restore"} => i = 1
  <2>1. {"recheck", "write", "restore", "unlock"} \subseteq Phases /\ inst[p].error \in Errors
          /\ "io" \in Errors /\ "changed" \in Errors
    BY <1>1, InstallationFields DEF Phases, Errors
  <2>2. \/ Steps(p, "recheck") \/ Fails(p, "unlock", "io")
        \/ MovesTo(p, "write") \/ Fails(p, "restore", "changed")
    BY DEF Backup, Recheck, Breaks
  <2> QED BY <1>1, <2>1, <2>2, StepsBecomes, GoesBecomes, FailsBecomes
<1>3. InOrder(p)'
  BY <1>1, <1>2 DEF Becomes, InOrder, Writes, Covered, BrainmapIsNotYet, DaemonIsThere, OldIsOld,
                    Installed
<1> QED BY <1>1, <1>2, <1>3, OwnersOrder DEF Becomes

\* What a write makes of the two files.
LEMMA PutInstalls ==
  ASSUME InstallConstants, TypeOK, NEW p \in Installers, NEW f \in Files, NEW b \in Builds,
         Put(f, b)
  PROVE  /\ Installed(p, f)' <=> b = Candidate[p]
         /\ \A g \in Files \ {f} : Installed(p, g)' <=> Installed(p, g)
<1>1. dest'[f] = [build |-> b, exec |-> FALSE] /\ \A g \in Files \ {f} : dest'[g] = dest[g]
  BY PutTyped
<1>2. dest'[f] # Nothing /\ dest'[f].build = b
  <2>1. dest'[f] \in Executable
    BY <1>1 DEF Executable
  <2>2. dest'[f] # Nothing
    BY <2>1, NoneIsNothing
  <2>3. dest'[f].build = b
    BY <1>1
  <2> QED BY <2>2, <2>3
<1> QED BY <1>1, <1>2 DEF Installed

LEMMA WriteOrder ==
  ASSUME InstallConstants, IInv, OrderInv, NEW p \in Installers, Write(p) PROVE OrderInv'
<1>1. TypeOK /\ InOrder(p) /\ UNCHANGED <<source, changes>> /\ Owns(p) /\ inst[p].pc = "write"
  BY DEF IInv, OrderInv, Write, At, world, Owns
<1>2. PICK f \in Files : f = InstallOrder[inst[p].i]
  BY Orders, InstallationFields DEF Files, IInv
<1>3. (inst[p].i = 1 /\ f = "brainmapd") \/ (inst[p].i = 2 /\ f = "brainmap")
  BY <1>1, <1>2, InstallationFields, Orders
<1>4. source[p][f] = Candidate[p] /\ source[p][f] \in Builds
  BY <1>1 DEF OrderInv, NobodyElse, SourceValid, TypeOK
<1>5. Put(f, source[p][f]) =>
        Installed(p, f)' /\ \A g \in Files \ {f} : Installed(p, g)' <=> Installed(p, g)
  BY <1>1, <1>4, PutInstalls
<1>6. UNCHANGED dest => \A g \in Files : Installed(p, g)' <=> Installed(p, g)
  BY DEF Installed
<1>7. InOrder(p)'
  <2>1. CASE inst[p].i = 1
    BY <1>1, <1>2, <1>3, <1>5, <1>6, <2>1, WriteDoes DEF Becomes, InOrder, Writes, Covered,
       BrainmapIsNotYet, DaemonIsThere, OldIsOld, Files
  <2>2. CASE inst[p].i = 2
    BY <1>1, <1>2, <1>3, <1>5, <1>6, <2>2, WriteDoes DEF Becomes, InOrder, Writes, Covered,
       BrainmapIsNotYet, DaemonIsThere, OldIsOld, Files
  <2> QED BY <1>3, <2>1, <2>2
<1> QED BY <1>1, <1>2, <1>7, WriteDoes, OwnersOrder DEF Becomes

LEMMA PermitKeeps ==
  ASSUME InstallConstants, TypeOK, NEW p \in Installers, NEW f \in Files, NEW x \in BOOLEAN,
         dest[f] # Nothing, dest' = [dest EXCEPT ![f].exec = x]
  PROVE  \A g \in Files : Installed(p, g)' <=> Installed(p, g)
<1>1. /\ dest'[f] = [build |-> dest[f].build, exec |-> x] /\ dest[f] \in Executable
      /\ \A g \in Files \ {f} : dest'[g] = dest[g]
  BY PermitTyped
<1>2. dest'[f] # Nothing
  <2>1. dest'[f] \in Executable
    BY <1>1 DEF Executable
  <2> QED BY <2>1, NoneIsNothing
<1>3. dest'[f].build = dest[f].build
  BY <1>1
<1> QED BY <1>1, <1>2, <1>3 DEF Installed

LEMMA PermitOrder ==
  ASSUME InstallConstants, IInv, OrderInv, NEW p \in Installers, Permit(p) PROVE OrderInv'
<1>1. TypeOK /\ InOrder(p) /\ UNCHANGED <<source, changes>> /\ Owns(p) /\ inst[p].pc = "permit"
  BY DEF IInv, OrderInv, Permit, At, world, Owns
<1>2. PICK f \in Files : f = InstallOrder[inst[p].i]
  BY Orders, InstallationFields DEF Files, IInv
<1>3. \A g \in Files : Installed(p, g)' <=> Installed(p, g)
  <2>1. UNCHANGED dest => \A g \in Files : Installed(p, g)' <=> Installed(p, g)
    BY DEF Installed
  <2> QED BY <1>1, <1>2, <2>1, PermitDoes, PermitKeeps
<1>4. Installed(p, "brainmap")' = Installed(p, "brainmap")
        /\ Installed(p, "brainmapd")' = Installed(p, "brainmapd")
  BY <1>3 DEF Files, Installed
<1>5. inst[p].i \in {1, 2}
  BY <1>1, InstallationFields
<1>6. InOrder(p)'
  BY <1>1, <1>2, <1>4, <1>5, PermitDoes DEF Becomes, InOrder, Writes, Covered, BrainmapIsNotYet,
     DaemonIsThere, OldIsOld
<1> QED BY <1>1, <1>2, <1>6, PermitDoes, OwnersOrder DEF Becomes

LEMMA CheckOrderly ==
  ASSUME IInv, OrderInv, NEW p \in Installers, Check(p) \/ Verify(p) PROVE OrderInv'
<1>1. TypeOK /\ InOrder(p) /\ UNCHANGED <<source, changes, dest>> /\ Owns(p)
        /\ inst[p].pc \in {"check", "verify"}
  BY DEF IInv, OrderInv, Check, Verify, At, world, disk, Owns
<1>2. \E pc \in {"verify", "ok", "restore"}, error \in Errors :
        Becomes(p, pc, 1, inst[p].plan, inst[p].orig, error, inst[p].stuck)
  <2>1. {"verify", "ok", "restore"} \subseteq Phases /\ inst[p].error \in Errors
          /\ {"hash", "shadowed", "verification"} \subseteq Errors
    BY <1>1, InstallationFields DEF Phases, Errors
  <2>2. \/ MovesTo(p, "verify") \/ MovesTo(p, "ok")
        \/ \E error \in {"hash", "shadowed", "verification"} : Fails(p, "restore", error)
    BY DEF Check, Verify
  <2> QED BY <1>1, <2>1, <2>2, GoesBecomes, FailsBecomes
<1>3. InOrder(p)'
  BY <1>1, <1>2 DEF Becomes, InOrder, Writes, Covered, BrainmapIsNotYet, DaemonIsThere, OldIsOld,
                    Installed
<1> QED BY <1>1, <1>2, <1>3, OwnersOrder DEF Becomes

LEMMA RestoreOrder ==
  ASSUME InstallConstants, IInv, OrderInv, NEW p \in Installers, Restore(p) PROVE OrderInv'
<1>1. TypeOK /\ InOrder(p) /\ UNCHANGED <<source, changes>> /\ Owns(p)
        /\ inst[p].pc = "restore" /\ inst[p].i \in {1, 2}
  BY InstallationFields DEF IInv, OrderInv, Restore, At, world, Owns
<1>2. PICK f \in Files : f = CheckOrder[inst[p].i]
  BY <1>1, Orders DEF Files
<1>3. (inst[p].i = 1 /\ f = "brainmap") \/ (inst[p].i = 2 /\ f = "brainmapd")
  BY <1>1, <1>2, Orders
<1>4. ASSUME \A g \in Files \ {f} : Installed(p, g)' <=> Installed(p, g),
             f = "brainmap" /\ Writes(p, f) => ~Installed(p, f)'
      PROVE  Writes(p, "brainmap") => ~Installed(p, "brainmap")'
  <2>1. CASE inst[p].i = 1
    BY <1>3, <1>4, <2>1
  <2>2. CASE inst[p].i = 2
    BY <1>1, <1>3, <1>4, <2>2 DEF InOrder, BrainmapIsNotYet, Files
  <2> QED BY <1>1, <2>1, <2>2
<1>5. ASSUME Writes(p, "brainmap") => ~Installed(p, "brainmap")',
             NEW pc \in {"unlock", "restore", "repermit"}, NEW i \in {1, 2},
             Becomes(p, pc, i, inst[p].plan, inst[p].orig, inst[p].error, inst[p].stuck),
             pc = "restore" => i = 2
      PROVE  OrderInv'
  <2>1. inst'[p].pc = pc /\ inst'[p].i = i /\ inst'[p].plan = inst[p].plan
          /\ inst'[p].orig = inst[p].orig /\ \A q \in Installers \ {p} : inst'[q] = inst[q]
    BY <1>5 DEF Becomes
  <2>2. Writes(p, "brainmap") => OldIsOld(p)
    BY <1>1 DEF InOrder
  <2>3. InOrder(p)'
    BY <1>1, <1>5, <2>1, <2>2 DEF InOrder, Writes, Covered, BrainmapIsNotYet, DaemonIsThere,
                                  OldIsOld
  <2> QED BY <1>1, <2>1, <2>3, OwnersOrder
<1>6. f = "brainmap" /\ Writes(p, f) =>
        inst[p].orig[f] = Nothing \/ inst[p].orig[f].build # Candidate[p]
  BY <1>1 DEF InOrder, OldIsOld
<1>7. CASE /\ inst[p].orig[f] = Nothing /\ dest' = [dest EXCEPT ![f] = Nothing]
           /\ \/ inst[p].i = 2 /\ Becomes(p, "unlock", 1, inst[p].plan, inst[p].orig,
                                           inst[p].error, inst[p].stuck)
              \/ inst[p].i = 1 /\ Becomes(p, "restore", 2, inst[p].plan, inst[p].orig,
                                           inst[p].error, inst[p].stuck)
  <2>1. ~Installed(p, f)' /\ \A g \in Files \ {f} : Installed(p, g)' <=> Installed(p, g)
    BY <1>1, <1>7 DEF Installed, TypeOK
  <2>2. Writes(p, "brainmap") => ~Installed(p, "brainmap")'
    BY <1>4, <2>1
  <2>3. CASE inst[p].i = 2
    BY <1>5, <1>7, <2>2, <2>3
  <2>4. CASE inst[p].i = 1
    BY <1>5, <1>7, <2>2, <2>4
  <2> QED BY <1>1, <2>3, <2>4
<1>8. CASE /\ inst[p].orig[f] \in Executable /\ inst[p].orig[f] # Nothing
           /\ Put(f, inst[p].orig[f].build)
           /\ Becomes(p, "repermit", inst[p].i, inst[p].plan, inst[p].orig, inst[p].error,
                      inst[p].stuck)
  <2>1. inst[p].orig[f].build \in Builds
    BY <1>8 DEF Executable
  <2>2. /\ Installed(p, f)' <=> inst[p].orig[f].build = Candidate[p]
        /\ \A g \in Files \ {f} : Installed(p, g)' <=> Installed(p, g)
    BY <1>1, <1>8, <2>1, PutInstalls
  <2>3. Writes(p, "brainmap") => ~Installed(p, "brainmap")'
    BY <1>4, <1>6, <1>8, <2>2
  <2> QED BY <1>1, <1>5, <1>8, <2>3
<1>9. CASE /\ UNCHANGED dest
           /\ Becomes(p, "unlock", 1, inst[p].plan, inst[p].orig, inst[p].error, f)
  <2>1. InOrder(p)'
    BY <1>1, <1>9, PairMatters DEF Becomes, InOrder, Writes, Covered, Installed
  <2> QED BY <1>1, <1>9, <2>1, OwnersOrder DEF Becomes
<1> QED BY <1>2, <1>7, <1>8, <1>9, RestoreDoes

LEMMA RepermitOrder ==
  ASSUME InstallConstants, IInv, OrderInv, NEW p \in Installers, Repermit(p) PROVE OrderInv'
<1>1. TypeOK /\ InOrder(p) /\ UNCHANGED <<source, changes>> /\ Owns(p) /\ Good(p)
        /\ inst[p].pc = "repermit" /\ inst[p].i \in {1, 2}
  BY InstallationFields DEF IInv, OrderInv, Repermit, At, world, Owns
<1>2. PICK f \in Files : f = CheckOrder[inst[p].i]
  BY <1>1, Orders DEF Files
<1>3. \A g \in Files : Installed(p, g)' <=> Installed(p, g)
  <2>1. UNCHANGED dest => \A g \in Files : Installed(p, g)' <=> Installed(p, g)
    BY DEF Installed
  <2>2. inst[p].orig[f] \in Executable
    BY <1>1, <1>2, InstallationFields DEF Good, FoundStands, Contents
  <2>3. inst[p].orig[f].exec \in BOOLEAN
    BY <2>2 DEF Executable
  <2> QED BY <1>1, <1>2, <2>1, <2>3, RepermitDoes, PermitKeeps
<1>4. Installed(p, "brainmap")' = Installed(p, "brainmap")
        /\ Installed(p, "brainmapd")' = Installed(p, "brainmapd")
  BY <1>3 DEF Files, Installed
<1>5. InOrder(p)'
  BY <1>1, <1>2, <1>4, RepermitDoes DEF Becomes, InOrder, Writes, Covered, BrainmapIsNotYet,
     DaemonIsThere, OldIsOld
<1> QED BY <1>1, <1>2, <1>5, RepermitDoes, OwnersOrder DEF Becomes

LEMMA UnlockOrder ==
  ASSUME InstallConstants, IInv, OrderInv, NEW p \in Installers, Unlock(p) \/ ClearLock(p)
  PROVE  OrderInv'
<1>1. TypeOK /\ Owns(p) /\ UNCHANGED <<source, changes>>
  BY DEF IInv, Owns, Unlock, ClearLock, At, world
<1>2. Becomes(p, "idle", 1, NotStarted.plan, NotStarted.orig, Nothing, Nothing)
  BY <1>1, IdleBecomes DEF Unlock, ClearLock
<1> QED BY <1>1, <1>2, OwnersOrder DEF Becomes, Owns

LEMMA CrashOrder ==
  ASSUME InstallConstants, IInv, OrderInv, NEW p \in Installers, InstallerCrash(p) PROVE OrderInv'
<1>1. TypeOK /\ UNCHANGED <<source, changes, dest>>
  BY DEF IInv, InstallerCrash, disk
<1>2. CASE inst[p].pc = "lock"
  <2>1. inst' = [inst EXCEPT ![p].pc = "idle"]
    BY <1>2 DEF InstallerCrash
  <2>2. Becomes(p, "idle", inst[p].i, inst[p].plan, inst[p].orig, inst[p].error, inst[p].stuck)
    BY <1>1, <2>1, PhaseBecomes DEF Phases
  <2> QED BY <1>1, <2>2, OutsidersOrder DEF Becomes, Owns
<1>3. CASE inst[p].pc # "lock"
  <2>1. inst' = [inst EXCEPT ![p].pc = "dead"]
    BY <1>3 DEF InstallerCrash
  <2>2. Becomes(p, "dead", inst[p].i, inst[p].plan, inst[p].orig, inst[p].error, inst[p].stuck)
    BY <1>1, <2>1, PhaseBecomes DEF Phases
  <2>3. InOrder(p)
    BY <1>3 DEF InstallerCrash, OrderInv, Owns
  <2>4. InOrder(p)'
    BY <1>1, <2>2, <2>3, PairMatters DEF Becomes, InOrder, Writes, Covered, Installed
  <2> QED BY <1>1, <2>2, <2>4, OutsidersOrder DEF Becomes
<1> QED BY <1>2, <1>3

\* The order is kept for as long as nobody changed anything, and changes never become fewer.
OrderWhileAlone == changes = 0 => OrderInv

LEMMA NextOrder ==
  ASSUME InstallConstants, IInv, OrderWhileAlone, [InstallNext]_installVars
  PROVE  OrderWhileAlone'
<1>1. CASE UNCHANGED installVars
  BY <1>1 DEF installVars, OrderWhileAlone, OrderInv, NobodyElse, SourceValid, Owns, InOrder,
              Writes, Covered, BrainmapIsNotYet, DaemonIsThere, OldIsOld, Installed
<1>2. CASE Others
  BY <1>2 DEF Others, OrderWhileAlone, IInv, TypeOK
<1>3. ASSUME NEW p \in Installers, Installer(p) PROVE OrderWhileAlone'
  <2>1. changes' = changes
    BY <1>3 DEF Installer, Preflight, TakeLock, Plan, TakeSnapshot, Validate, Backup, Recheck,
                Write, Permit, Check, Verify, Restore, Repermit, Unlock, InstallerCrash,
                ClearLock, world
  <2>2. OrderInv => OrderInv'
    BY <1>3, PreflightOrder, PlanOrder, SnapshotOrder, ValidateOrder, BackupOrder, WriteOrder,
       PermitOrder, CheckOrderly, RestoreOrder, RepermitOrder, UnlockOrder, CrashOrder
       DEF Installer
  <2> QED BY <2>1, <2>2 DEF OrderWhileAlone
<1> QED BY <1>1, <1>2, <1>3 DEF InstallNext

\* As long as nobody else changed the files or the sources, a brainmap that an installer wrote,
\* or a killed or failed one left, never stands beside a daemon of another build: the daemon is
\* written first and restored last (install_candidate_files), for any number of installers,
\* crashes and errors.
THEOREM NewBrainmapNeverBesideOldDaemonHolds ==
  ASSUME InstallConstants PROVE InstallSpec => []NewBrainmapNeverBesideOldDaemon
<1>1. InstallInit => OrderWhileAlone
  BY DEF InstallInit, NotStarted, OrderWhileAlone, OrderInv, NobodyElse, SourceValid, Owns
<1>2. IInv /\ OrderWhileAlone /\ [InstallNext]_installVars => OrderWhileAlone'
  BY NextOrder
<1>3. OrderWhileAlone => NewBrainmapNeverBesideOldDaemon
  BY DEF OrderWhileAlone, OrderInv, InOrder, Writes, Covered, NewBrainmapNeverBesideOldDaemon,
         Owns, Holds, At
<1> QED BY <1>1, <1>2, <1>3, Invariance, PTL DEF InstallSpec

-----------------------------------------------------------------------------
(* The files of the adapter. *)

\* What an item may be.
Fits(i, f) ==
    /\ i = "skill" => f \in Skills \cup {Nil}
    /\ i = "agents" => f \in Agents \cup {Nil}
    /\ i = "config" => f \in Configs \cup {Nil}
    /\ i = "hooks" => f \in HookFiles \cup {Nil}
AnyContents == Skills \cup Agents \cup Configs \cup HookFiles \cup {Nil}

Sessions ==
    [pc : {"preflight", "item", "backup", "merge", "write", "done", "refused"}, i : 1..4,
     sort : {"install", "uninstall"}, exec : Execs, vault : Vaults,
     previous : Execs \cup {Plain, Nil}, wants : AnyContents, alone : BOOLEAN]

\* A run begins with the first item, and only a removal merges late. What is written, and what
\* an installation will write, is of the kind of the item.
Planned(r) ==
    /\ r.pc = "preflight" => r.i = 1
    /\ r.pc = "merge" => r.sort = "uninstall"
    /\ r.pc = "write" \/ (r.pc = "backup" /\ r.sort = "install") => Fits(Order[r.i], r.wants)

HarnessTyped ==
    /\ FilesTyped(file)
    /\ kept \in [Items -> SUBSET AnyContents]
    /\ edits \in [Items -> Nat] /\ edited \in Nat
    /\ beside \subseteq Items
    /\ run \in [Processes -> {NoRun} \cup Sessions]
    /\ \A p \in Processes : Planned(run[p])

LEMMA ItemsAre ==
    /\ Items = {"skill", "agents", "config", "hooks"} /\ Len(Order) = 4
    /\ Order[1] = "skill" /\ Order[2] = "agents" /\ Order[3] = "config" /\ Order[4] = "hooks"
    /\ \A i \in 1..4 : Order[i] \in Items
    /\ \A i, j \in 1..4 : Order[i] = Order[j] => i = j
<1>1. Len(Order) = 4 /\ Order[1] = "skill" /\ Order[2] = "agents"
      /\ Order[3] = "config" /\ Order[4] = "hooks"
  BY DEF Order
<1>2. \A i \in 1..4 : i = 1 \/ i = 2 \/ i = 3 \/ i = 4
  OBVIOUS
<1>3. Items = {"skill", "agents", "config", "hooks"}
  BY <1>1, <1>2 DEF Items
<1> QED BY <1>1, <1>2, <1>3

LEMMA FilesFit == ASSUME FilesTyped(file), NEW i \in Items PROVE Fits(i, file[i])
  BY DEF FilesTyped, Fits

-----------------------------------------------------------------------------
\* What becomes of a file.

\* The loop of Hooks over the first n commands.
KeepsUpTo(upTo, r, s, n) ==
    upTo = [k \in 0..n |-> IF k = 0 THEN <<>>
                           ELSE IF s[k] \in ManagedCommands(r) THEN upTo[k - 1]
                           ELSE Append(upTo[k - 1], s[k])]

LEMMA SmallestNumber ==
    ASSUME NEW S \in SUBSET Nat, S # {}
    PROVE  \E x \in S : \A y \in S : x <= y
<1>1. PICK x \in S : \A y \in S : ~(<<y, x>> \in OpToRel(<, Nat))
  BY NatLessThanWellFounded, WFMin
<1>2. \A y \in S : ~(y < x)
  BY <1>1 DEF OpToRel
<1> QED BY <1>2

LEMMA LoopOfHooks ==
    ASSUME NEW r, NEW s, NEW size \in Nat
    PROVE  \E upTo : KeepsUpTo(upTo, r, s, size)
<1> DEFINE Without == {n \in Nat : ~\E upTo : KeepsUpTo(upTo, r, s, n)}
<1>1. SUFFICES ASSUME Without # {} PROVE FALSE
  OBVIOUS
<1>2. PICK n \in Without : \A m \in Without : n <= m
  <2>1. Without \in SUBSET Nat
    OBVIOUS
  <2> QED BY <1>1, <2>1, SmallestNumber
<1>3. n \in Nat /\ ~\E upTo : KeepsUpTo(upTo, r, s, n)
  OBVIOUS
<1>4. CASE n = 0
  <2> DEFINE first == [k \in 0..0 |-> <<>>]
  <2>1. \A k \in 0..0 : k = 0
    OBVIOUS
  <2>2. KeepsUpTo(first, r, s, 0)
    BY <2>1 DEF KeepsUpTo
  <2> QED BY <1>3, <1>4, <2>2
<1>5. CASE n # 0
  <2>1. n - 1 \in Nat /\ ~(n <= n - 1)
    BY <1>3, <1>5
  <2>2. PICK upTo : KeepsUpTo(upTo, r, s, n - 1)
    BY <1>2, <2>1
  <2> DEFINE Value(u, k) == IF k = 0 THEN <<>>
                            ELSE IF s[k] \in ManagedCommands(r) THEN u[k - 1]
                            ELSE Append(u[k - 1], s[k])
             next == [k \in 0..n |-> IF k = n THEN Value(upTo, n) ELSE upTo[k]]
  <2>3. ASSUME NEW k \in 0..n PROVE next[k] = Value(next, k)
    <3>1. k # 0 => k - 1 \in 0..n /\ k - 1 # n
      BY <1>3
    <3>2. k # 0 => next[k - 1] = upTo[k - 1]
      BY <3>1
    <3>3. CASE k = n
      BY <1>5, <3>2, <3>3
    <3>4. CASE k # n
      <4>1. k \in 0..n - 1 /\ next[k] = upTo[k]
        BY <1>3, <3>4
      <4>2. upTo[k] = Value(upTo, k)
        BY <2>2, <4>1 DEF KeepsUpTo
      <4> QED BY <3>2, <4>1, <4>2
    <3> QED BY <3>3, <3>4
  <2>4. next = [k \in 0..n |-> next[k]]
    OBVIOUS
  <2> HIDE DEF next
  <2>5. KeepsUpTo(next, r, s, n)
    BY <2>3, <2>4 DEF KeepsUpTo
  <2> QED BY <1>3, <2>5
<1> QED BY <1>4, <1>5

\* Only commands of others are left.
LEMMA HooksAreOfOthers ==
    ASSUME NEW r, NEW s \in Seq(Commands)
    PROVE  /\ Hooks(r, s) \in Seq(Commands)
           /\ \A j \in 1..Len(Hooks(r, s)) : Hooks(r, s)[j] \notin ManagedCommands(r)
<1> DEFINE size == Len(s)
           loop == CHOOSE upTo : KeepsUpTo(upTo, r, s, size)
<1>1. \E upTo : KeepsUpTo(upTo, r, s, size)
  BY LoopOfHooks
<1>2. Hooks(r, s) = loop[size]
  BY Zenon DEF Hooks, KeepsUpTo
<1>3. KeepsUpTo(loop, r, s, size)
  BY <1>1, Zenon
<1> HIDE DEF loop
<1> DEFINE Right(t) == /\ t \in Seq(Commands)
                       /\ \A j \in 1..Len(t) : t[j] \notin ManagedCommands(r)
           Wrong == {n \in 0..size : ~Right(loop[n])}
<1>4. SUFFICES ASSUME Wrong # {} PROVE FALSE
  BY <1>2
<1>5. PICK n \in Wrong : \A m \in Wrong : n <= m
  <2>1. Wrong \in SUBSET Nat
    OBVIOUS
  <2> QED BY <1>4, <2>1, SmallestNumber
<1>6. n \in 0..size /\ ~Right(loop[n])
  OBVIOUS
<1>7. loop[n] = IF n = 0 THEN <<>> ELSE IF s[n] \in ManagedCommands(r) THEN loop[n - 1]
                ELSE Append(loop[n - 1], s[n])
  BY <1>3, <1>6 DEF KeepsUpTo
<1>8. CASE n = 0
  BY <1>6, <1>7, <1>8
<1>9. CASE n # 0
  <2>1. n - 1 \in 0..size /\ ~(n <= n - 1) /\ n \in 1..Len(s)
    BY <1>6, <1>9
  <2>2. Right(loop[n - 1])
    BY <1>5, <2>1
  <2>3. CASE s[n] \in ManagedCommands(r)
    BY <1>6, <1>7, <1>9, <2>2, <2>3
  <2>4. CASE s[n] \notin ManagedCommands(r)
    <3> DEFINE t == loop[n - 1]
    <3>1. s[n] \in Commands /\ t \in Seq(Commands)
      BY <2>1, <2>2
    <3> HIDE DEF t
    <3>2. /\ Append(t, s[n]) \in Seq(Commands) /\ Len(Append(t, s[n])) = Len(t) + 1
          /\ Append(t, s[n])[Len(t) + 1] = s[n]
          /\ \A j \in 1..Len(t) : Append(t, s[n])[j] = t[j]
      BY <3>1
    <3>3. \A j \in 1..Len(t) + 1 : j \in 1..Len(t) \/ j = Len(t) + 1
      BY <3>1
    <3>4. Right(t)
      BY <2>2 DEF t
    <3>5. Right(Append(t, s[n]))
      BY <2>4, <3>2, <3>3, <3>4
    <3>6. loop[n] = Append(t, s[n])
      BY <1>7, <1>9, <2>4 DEF t
    <3> QED BY <1>6, <3>5, <3>6
  <2> QED BY <2>3, <2>4
<1> QED BY <1>8, <1>9

\* The part of Brainmap's is in place: its hook is there once, and nothing else it manages.
Registered(r, commands) ==
    \E k \in 1..Len(commands) :
        /\ commands[k] = Command(r.exec, r.vault)
        /\ \A j \in (1..Len(commands)) \ {k} : commands[j] \notin ManagedCommands(r)

InPlace(r, i, f) ==
    /\ f # Nil /\ Fits(i, f)
    /\ i = "skill" => f = "shim"
    /\ i = "agents" => f.block
    /\ i = "config" => f.block = [exec |-> r.exec, vault |-> r.vault]
    /\ i = "hooks" => Registered(r, f.commands)

LEMMA HooksWithOwn ==
    ASSUME NEW r, NEW s \in Seq(Commands), r.exec \in Execs, r.vault \in Vaults
    PROVE  LET t == Hooks(r, s) \o <<Command(r.exec, r.vault)>>
           IN t \in Seq(Commands) /\ Registered(r, t)
<1> DEFINE h == Hooks(r, s)
           c == Command(r.exec, r.vault)
           t == h \o <<c>>
<1>1. h \in Seq(Commands) /\ \A j \in 1..Len(h) : h[j] \notin ManagedCommands(r)
  BY HooksAreOfOthers
<1>2. c \in Commands
  BY DEF Command, Commands
<1> HIDE DEF h, c
<1>3. /\ t \in Seq(Commands) /\ Len(t) = Len(h) + 1 /\ t[Len(h) + 1] = c
      /\ \A j \in 1..Len(h) : t[j] = h[j]
  BY <1>1, <1>2
<1>4. \A j \in 1..Len(t) : j \in 1..Len(h) \/ j = Len(h) + 1
  BY <1>1, <1>3
<1>5. Len(h) + 1 \in 1..Len(t)
  BY <1>1, <1>3
<1>6. t[Len(h) + 1] = c /\ \A j \in (1..Len(t)) \ {Len(h) + 1} : t[j] \notin ManagedCommands(r)
  BY <1>1, <1>3, <1>4
<1> HIDE DEF t
<1>7. Registered(r, t)
  BY <1>5, <1>6 DEF Registered, c
<1> QED BY <1>3, <1>7 DEF h, c, t

\* A text keeps what the user wrote, and becomes no file only if there is nothing of the user.
KeepsUser(i, f, new) ==
    /\ Fits(i, new)
    /\ i # "skill" /\ f # Nil /\ f.user # 0 => new # Nil /\ new.user = f.user

LEMMA OldFits ==
    ASSUME NEW i \in Items \ {"skill"}, NEW f, Fits(i, f)
    PROVE  LET old == IF f = Nil THEN Empty(i) ELSE f
           IN /\ i = "agents" => old \in Agents
              /\ i = "config" => old \in Configs
              /\ i = "hooks" => old \in HookFiles
              /\ f # Nil => old = f
<1>1. Empty("agents") \in Agents
  BY DEF Empty, Agents
<1>2. Empty("config") \in Configs
  BY DEF Empty, Configs
<1>3. Empty("hooks") \in HookFiles
  BY DEF Empty, HookFiles
<1> QED BY <1>1, <1>2, <1>3 DEF Fits

LEMMA AgentsMerged ==
    ASSUME HarnessConstants, NEW r, NEW f, Fits("agents", f)
    PROVE  /\ KeepsUser("agents", f, Desired(r, "agents", f))
           /\ r.sort = "install" => InPlace(r, "agents", Desired(r, "agents", f))
<1> DEFINE old == IF f = Nil THEN Empty("agents") ELSE f
           new == [old EXCEPT !.block = r.sort = "install"]
<1>1. old \in Agents /\ (f # Nil => old = f)
  BY OldFits, ItemsAre
<1>2. Desired(r, "agents", f) = IF new = Empty("agents") THEN Nil ELSE new
  BY DEF Desired, Merged
<1> HIDE DEF old
<1>3. /\ new \in Agents /\ new.user = old.user
      /\ (r.sort = "install" => new.block) /\ (r.sort # "install" => ~new.block)
  BY <1>1 DEF Agents
<1>4. Empty("agents").user = 0 /\ ~Empty("agents").block
  BY DEF Empty
<1>5. new # Nil
  BY <1>3 DEF HarnessConstants
<1> HIDE DEF new
<1>6. KeepsUser("agents", f, Desired(r, "agents", f))
  BY <1>1, <1>2, <1>3, <1>4, <1>5 DEF KeepsUser, Fits
<1>7. ASSUME r.sort = "install" PROVE InPlace(r, "agents", Desired(r, "agents", f))
  <2>1. new # Empty("agents")
    BY <1>3, <1>4, <1>7
  <2> QED BY <1>2, <1>3, <1>5, <1>7, <2>1 DEF InPlace, Fits
<1> QED BY <1>6, <1>7

LEMMA ConfigMerged ==
    ASSUME HarnessConstants, NEW r, NEW f, Fits("config", f), r.exec \in Execs, r.vault \in Vaults
    PROVE  /\ KeepsUser("config", f, Desired(r, "config", f))
           /\ r.sort = "install" => InPlace(r, "config", Desired(r, "config", f))
<1> DEFINE old == IF f = Nil THEN Empty("config") ELSE f
           own == [exec |-> r.exec, vault |-> r.vault]
           block == IF r.sort = "install" THEN own ELSE Nil
           new == [old EXCEPT !.block = block]
<1>1. old \in Configs /\ (f # Nil => old = f)
  BY OldFits, ItemsAre
<1>2. Desired(r, "config", f) = IF new = Empty("config") THEN Nil ELSE new
  BY DEF Desired, Merged
<1>3. own \in [exec : Execs \cup {Plain}, vault : Vaults] /\ own # Nil
  BY DEF HarnessConstants
<1>4. block \in {Nil} \cup [exec : Execs \cup {Plain}, vault : Vaults]
  BY <1>3
<1> HIDE DEF old, block
<1>5. new \in Configs /\ new.user = old.user /\ new.block = block
  BY <1>1, <1>4 DEF Configs
<1>6. Empty("config").user = 0 /\ Empty("config").block = Nil
  BY DEF Empty
<1>7. new # Nil
  BY <1>5 DEF HarnessConstants
<1> HIDE DEF new
<1>8. KeepsUser("config", f, Desired(r, "config", f))
  BY <1>1, <1>2, <1>5, <1>6, <1>7 DEF KeepsUser, Fits
<1>9. ASSUME r.sort = "install" PROVE InPlace(r, "config", Desired(r, "config", f))
  <2>1. block = own
    BY <1>9 DEF block
  <2>2. new # Empty("config")
    BY <1>3, <1>5, <1>6, <2>1
  <2> QED BY <1>2, <1>5, <1>7, <2>1, <2>2 DEF InPlace, Fits
<1> QED BY <1>8, <1>9

LEMMA HooksMerged ==
    ASSUME HarnessConstants, NEW r, NEW f, Fits("hooks", f), r.exec \in Execs, r.vault \in Vaults
    PROVE  /\ KeepsUser("hooks", f, Desired(r, "hooks", f))
           /\ r.sort = "install" => InPlace(r, "hooks", Desired(r, "hooks", f))
<1> DEFINE old == IF f = Nil THEN Empty("hooks") ELSE f
           own == IF r.sort = "install" THEN <<Command(r.exec, r.vault)>> ELSE <<>>
           commands == Hooks(r, old.commands) \o own
           new == [old EXCEPT !.commands = commands]
<1>1. old \in HookFiles /\ (f # Nil => old = f)
  BY OldFits, ItemsAre
<1>2. Desired(r, "hooks", f) = new
  BY DEF Desired, Merged
<1>3. old.commands \in Seq(Commands)
  BY <1>1 DEF HookFiles
<1> HIDE DEF old
<1>4. commands \in Seq(Commands) /\ (r.sort = "install" => Registered(r, commands))
  <2>1. CASE r.sort = "install"
    BY <1>3, <2>1, HooksWithOwn
  <2>2. CASE r.sort # "install"
    BY <1>3, <2>2, HooksAreOfOthers
  <2> QED BY <2>1, <2>2
<1> HIDE DEF commands
<1>5. new \in HookFiles /\ new.user = old.user /\ new.commands = commands
  BY <1>1, <1>4 DEF HookFiles
<1>6. new # Nil
  BY <1>5 DEF HarnessConstants
<1> HIDE DEF new
<1>7. KeepsUser("hooks", f, Desired(r, "hooks", f))
  BY <1>1, <1>2, <1>5, <1>6 DEF KeepsUser, Fits
<1>8. ASSUME r.sort = "install" PROVE InPlace(r, "hooks", Desired(r, "hooks", f))
  BY <1>2, <1>4, <1>5, <1>6, <1>8 DEF InPlace, Fits
<1> QED BY <1>7, <1>8

LEMMA ItemMerged ==
    ASSUME HarnessConstants, NEW r, NEW i \in Items, NEW f, Fits(i, f),
           r.exec \in Execs, r.vault \in Vaults
    PROVE  /\ KeepsUser(i, f, Desired(r, i, f))
           /\ r.sort = "install" => InPlace(r, i, Desired(r, i, f))
<1>1. CASE i = "skill"
  <2>1. Desired(r, i, f) = IF r.sort = "install" THEN "shim" ELSE Nil
    BY <1>1 DEF Desired
  <2>2. "shim" # Nil
    BY DEF HarnessConstants, Skills
  <2> QED BY <1>1, <2>1, <2>2 DEF KeepsUser, InPlace, Fits, Skills
<1> QED BY <1>1, ItemsAre, AgentsMerged, ConfigMerged, HooksMerged

-----------------------------------------------------------------------------
\* The invariant.

\* What is about to be overwritten is in a backup, or in what is written.
SafeRun(r, copies, last, between) ==
    LET i == Order[r.i]
    IN r.pc = "write" /\ i \notin between \cup {"skill"} =>
          \/ last[i] = 0
          \/ \E f \in copies[i] \ {Nil} : f.user = last[i]
          \/ r.wants # Nil /\ r.wants.user = last[i]

\* An installation beside which nobody wrote has put in place what it came by.
Placed(r, files) ==
    r.pc \in {"item", "backup", "write", "done"} /\ r.sort = "install" /\ r.alone =>
        /\ \A j \in 1..4 : j < r.i \/ r.pc = "done" => InPlace(r, Order[j], files[Order[j]])
        /\ r.pc \in {"backup", "write"} => InPlace(r, Order[r.i], r.wants)

HarnessInv ==
    /\ HarnessTyped /\ UserContentSurvives
    /\ \A p \in Processes : SafeRun(run[p], kept, edits, beside) /\ Placed(run[p], file)

LEMMA NoRunHolds ==
    ASSUME NEW k, NEW e, NEW b, NEW files
    PROVE  NoRun.pc = "idle" /\ Planned(NoRun) /\ SafeRun(NoRun, k, e, b) /\ Placed(NoRun, files)
  BY DEF NoRun, Planned, SafeRun, Placed

LEMMA HarnessInitially == HarnessConstants /\ HarnessInit => HarnessInv
<1> SUFFICES ASSUME HarnessConstants, HarnessInit PROVE HarnessInv
  OBVIOUS
<1>1. \A p \in Processes : run[p] = NoRun
  BY DEF HarnessInit
<1>2. run \in [Processes -> {NoRun} \cup Sessions]
  BY DEF HarnessInit
<1>3. HarnessTyped
  BY <1>1, <1>2, NoRunHolds DEF HarnessTyped, HarnessInit, HarnessConstants
<1>4. UserContentSurvives
  BY DEF UserContentSurvives, HarnessInit
<1> QED BY <1>1, <1>3, <1>4, NoRunHolds DEF HarnessInv

\* Only the process at work changes its session.
LEMMA SessionSet ==
    ASSUME HarnessTyped, NEW p \in Processes, NEW r \in {NoRun} \cup Sessions,
           run' = [run EXCEPT ![p] = r]
    PROVE  /\ run' \in [Processes -> {NoRun} \cup Sessions]
           /\ run'[p] = r /\ \A q \in Processes \ {p} : run'[q] = run[q]
  BY DEF HarnessTyped

\* A step that writes no file, and adds to the backups at most.
LEMMA QuietStep ==
    ASSUME HarnessInv, NEW p \in Processes, NEW r \in {NoRun} \cup Sessions,
           run' = [run EXCEPT ![p] = r], UNCHANGED <<file, edits, beside, edited>>,
           kept' \in [Items -> SUBSET AnyContents], \A i \in Items : kept[i] \subseteq kept'[i],
           Planned(r), SafeRun(r, kept', edits, beside), Placed(r, file)
    PROVE  HarnessInv'
<1>1. HarnessTyped /\ UserContentSurvives
  BY DEF HarnessInv
<1>2. /\ run' \in [Processes -> {NoRun} \cup Sessions]
      /\ run'[p] = r /\ \A q \in Processes \ {p} : run'[q] = run[q]
  BY <1>1, SessionSet
<1>3. HarnessTyped'
  BY <1>1, <1>2 DEF HarnessTyped
<1>4. UserContentSurvives'
  BY <1>1 DEF UserContentSurvives
<1>5. ASSUME NEW q \in Processes \ {p}
      PROVE  SafeRun(run[q], kept', edits, beside) /\ Placed(run[q], file)
  <2>1. SafeRun(run[q], kept, edits, beside) /\ Placed(run[q], file)
    BY DEF HarnessInv
  <2>2. SafeRun(run[q], kept', edits, beside)
    <3>1. run[q].pc = "write" => Order[run[q].i] \in Items
      <4>1. run[q] \in {NoRun} \cup Sessions
        BY <1>1 DEF HarnessTyped
      <4> QED BY <4>1, NoRunHolds, ItemsAre DEF Sessions
    <3> QED BY <2>1, <3>1 DEF SafeRun
  <2> QED BY <2>1, <2>2
<1> QED BY <1>2, <1>3, <1>4, <1>5 DEF HarnessInv

LEMMA SessionFields ==
    ASSUME HarnessInv, NEW p \in Processes, run[p].pc # "idle"
    PROVE  /\ run[p] \in Sessions /\ run[p].i \in 1..4 /\ Item(p) \in Items
           /\ Fits(Item(p), file[Item(p)])
<1>1. run[p] \in Sessions
  BY NoRunHolds DEF HarnessInv, HarnessTyped
<1>2. run[p].i \in 1..4
  BY <1>1 DEF Sessions
<1> QED BY <1>1, <1>2, ItemsAre, FilesFit DEF Item, HarnessInv, HarnessTyped

\* A session that does not write yet.
LEMMA GoesQuietly ==
    ASSUME HarnessInv, NEW p \in Processes, NEW r \in {NoRun} \cup Sessions,
           run' = [run EXCEPT ![p] = r], UNCHANGED <<file, kept, edits, beside, edited>>,
           Planned(r), r.pc # "write", Placed(r, file)
    PROVE  HarnessInv'
<1>1. SafeRun(r, kept', edits, beside)
  BY DEF SafeRun
<1>2. kept' \in [Items -> SUBSET AnyContents]
  BY DEF HarnessInv, HarnessTyped
<1> QED BY <1>1, <1>2, QuietStep

LEMMA SamePlace ==
    ASSUME NEW r, NEW s, r.exec = s.exec, r.vault = s.vault, r.previous = s.previous,
           NEW i, NEW f, InPlace(r, i, f)
    PROVE  InPlace(s, i, f)
<1>1. ManagedCommands(r) = ManagedCommands(s)
  BY DEF ManagedCommands
<1> QED BY <1>1 DEF InPlace, Registered

LEMMA DoneIsPlaced ==
    ASSUME NEW r \in Sessions, NEW files,
           r.sort = "install" /\ r.alone =>
              \A j \in 1..4 : j <= r.i => InPlace(r, Order[j], files[Order[j]])
    PROVE  /\ ItemDone(r) \in Sessions /\ ItemDone(r).pc \in {"item", "done"}
           /\ Planned(ItemDone(r)) /\ Placed(ItemDone(r), files)
<1> DEFINE s == ItemDone(r)
<1>1. r.i \in 1..4 /\ Len(Order) = 4
  BY ItemsAre DEF Sessions
<1>2. /\ s \in Sessions /\ s.pc \in {"item", "done"}
      /\ s.exec = r.exec /\ s.vault = r.vault /\ s.previous = r.previous
      /\ s.sort = r.sort /\ s.alone = r.alone
      /\ (s.pc = "done" => r.i = 4) /\ (s.pc = "item" => s.i = r.i + 1)
  <2>1. CASE r.i = 4
    BY <1>1, <2>1 DEF ItemDone, Sessions
  <2>2. CASE r.i # 4
    <3>1. r.i + 1 \in 1..4
      BY <1>1, <2>2
    <3> QED BY <1>1, <2>2, <3>1 DEF ItemDone, Sessions
  <2> QED BY <2>1, <2>2
<1> HIDE DEF s
<1>3. Planned(s)
  BY <1>2 DEF Planned
<1>4. Placed(s, files)
  <2> SUFFICES ASSUME s.sort = "install", s.alone, NEW j \in 1..4, j < s.i \/ s.pc = "done"
               PROVE  InPlace(s, Order[j], files[Order[j]])
    BY <1>2 DEF Placed
  <2>1. j <= r.i
    BY <1>1, <1>2
  <2>2. InPlace(r, Order[j], files[Order[j]])
    BY <1>2, <2>1
  <2> QED BY <1>2, <2>2, SamePlace
<1> QED BY <1>2, <1>3, <1>4 DEF s

-----------------------------------------------------------------------------
\* One step.

LEMMA StartRunHolds == ASSUME HarnessInv, NEW p \in Processes, StartRun(p) PROVE HarnessInv'
<1>1. PICK sort \in {"install", "uninstall"}, x \in Execs, v \in Vaults :
         run' = [run EXCEPT ![p] =
                     [pc |-> "preflight", i |-> 1, sort |-> sort, exec |-> x, vault |-> v,
                      previous |-> IF file["config"] # Nil /\ file["config"].block # Nil
                                   THEN file["config"].block.exec ELSE Nil,
                      wants |-> Nil, alone |-> TRUE]]
  BY DEF StartRun
<1> DEFINE previous == IF file["config"] # Nil /\ file["config"].block # Nil
                       THEN file["config"].block.exec ELSE Nil
           r == [pc |-> "preflight", i |-> 1, sort |-> sort, exec |-> x, vault |-> v,
                 previous |-> previous, wants |-> Nil, alone |-> TRUE]
<1>2. previous \in Execs \cup {Plain, Nil}
  <2>1. file["config"] \in Configs \cup {Nil}
    BY DEF HarnessInv, HarnessTyped, FilesTyped
  <2> QED BY <2>1 DEF Configs
<1> HIDE DEF previous
<1>3. r \in Sessions /\ r.pc = "preflight" /\ r.i = 1
  BY <1>2 DEF Sessions, AnyContents
<1>4. run' = [run EXCEPT ![p] = r]
  BY <1>1 DEF previous
<1> HIDE DEF r
<1>5. UNCHANGED <<file, kept, edits, beside, edited>>
  BY DEF StartRun
<1>6. Planned(r) /\ Placed(r, file)
  BY <1>3 DEF Planned, Placed
<1> QED BY <1>3, <1>4, <1>5, <1>6, GoesQuietly

\* A session that only goes on to another step.
LEMMA StepChanges ==
    ASSUME HarnessInv, NEW p \in Processes, run[p].pc # "idle",
           NEW pc \in {"item", "backup", "merge", "write", "done", "refused"}
    PROVE  LET r == [run[p] EXCEPT !.pc = pc] IN
           /\ r \in Sessions /\ r.pc = pc /\ r.i = run[p].i /\ r.wants = run[p].wants
           /\ r.sort = run[p].sort /\ r.alone = run[p].alone /\ r.exec = run[p].exec
           /\ r.vault = run[p].vault /\ r.previous = run[p].previous
  BY SessionFields DEF Sessions

LEMMA PreflightHolds ==
    ASSUME HarnessInv, NEW p \in Processes, PreflightItems(p) PROVE HarnessInv'
<1>1. run[p].pc # "idle" /\ run[p].i = 1
  BY DEF PreflightItems, HarnessInv, HarnessTyped, Planned
<1>2. PICK pc \in {"refused", "item"} : RunGoes(p, pc)
  BY DEF PreflightItems
<1> DEFINE r == [run[p] EXCEPT !.pc = pc]
<1>3. r \in Sessions /\ r.pc = pc /\ r.i = 1
  BY <1>1, StepChanges
<1>4. run' = [run EXCEPT ![p] = r]
  BY <1>2 DEF RunGoes
<1> HIDE DEF r
<1>5. Planned(r) /\ Placed(r, file)
  BY <1>3 DEF Planned, Placed
<1> QED BY <1>3, <1>4, <1>5, GoesQuietly DEF PreflightItems

LEMMA RefusedHolds ==
    ASSUME HarnessInv, NEW p \in Processes, run[p].pc # "idle", RunGoes(p, "refused"),
           UNCHANGED <<file, kept, edits, beside, edited>>
    PROVE  HarnessInv'
<1> DEFINE r == [run[p] EXCEPT !.pc = "refused"]
<1>1. r \in Sessions /\ r.pc = "refused"
  BY StepChanges
<1>2. run' = [run EXCEPT ![p] = r]
  BY DEF RunGoes
<1> HIDE DEF r
<1>3. Planned(r) /\ Placed(r, file)
  BY <1>1 DEF Planned, Placed
<1> QED BY <1>1, <1>2, <1>3, GoesQuietly

\* An item that was in place already, or that nobody has to remove.
LEMMA ItemDoneHolds ==
    ASSUME HarnessInv, NEW p \in Processes, run[p].pc = "item",
           run[p].sort = "install" => InPlace(run[p], Item(p), file[Item(p)]),
           run' = [run EXCEPT ![p] = ItemDone(run[p])],
           UNCHANGED <<file, kept, edits, beside, edited>>
    PROVE  HarnessInv'
<1>1. run[p] \in Sessions /\ run[p].i \in 1..4
  BY SessionFields
<1> DEFINE r == ItemDone(run[p])
<1>2. ASSUME run[p].sort = "install", run[p].alone, NEW j \in 1..4, j <= run[p].i
      PROVE  InPlace(run[p], Order[j], file[Order[j]])
  <2>1. CASE j = run[p].i
    BY <1>2, <2>1 DEF Item
  <2>2. CASE j < run[p].i
    BY <1>2, <2>2 DEF HarnessInv, Placed
  <2> QED BY <1>1, <1>2, <2>1, <2>2
<1>3. r \in Sessions /\ r.pc \in {"item", "done"} /\ Planned(r) /\ Placed(r, file)
  BY <1>1, <1>2, DoneIsPlaced
<1>4. run' = [run EXCEPT ![p] = r]
  OBVIOUS
<1> HIDE DEF r
<1> QED BY <1>3, <1>4, GoesQuietly

\* An installation has merged what it found.
LEMMA WantsHolds ==
    ASSUME HarnessConstants, HarnessInv, NEW p \in Processes,
           (run[p].pc = "item" /\ run[p].sort = "install") \/ run[p].pc = "merge",
           NEW pc \in {"backup", "write"}, run[p].pc = "merge" => pc = "write",
           file[Item(p)] = Nil \/ run[p].pc = "merge" \/ pc = "backup",
           run' = [run EXCEPT ![p].wants = Desired(run[p], Item(p), file[Item(p)]), ![p].pc = pc],
           UNCHANGED <<file, kept, edits, beside, edited>>
    PROVE  HarnessInv'
<1> DEFINE i == Item(p)
           f == file[i]
           new == Desired(run[p], i, f)
           r == [run[p] EXCEPT !.wants = new, !.pc = pc]
<1>1. run[p] \in Sessions /\ run[p].i \in 1..4 /\ i \in Items /\ Fits(i, f)
  BY SessionFields
<1>2. KeepsUser(i, f, new) /\ (run[p].sort = "install" => InPlace(run[p], i, new))
  BY <1>1, ItemMerged DEF Sessions
<1>3. Fits(i, new) /\ new \in AnyContents
  BY <1>1, <1>2, ItemsAre DEF KeepsUser, Fits, AnyContents
<1>4. run' = [run EXCEPT ![p] = r]
  OBVIOUS
<1> HIDE DEF new
<1>5. /\ r \in Sessions /\ r.pc = pc /\ r.i = run[p].i /\ r.wants = new
      /\ r.sort = run[p].sort /\ r.alone = run[p].alone /\ r.exec = run[p].exec
      /\ r.vault = run[p].vault /\ r.previous = run[p].previous
  BY <1>1, <1>3 DEF Sessions
<1> HIDE DEF r
<1>6. Planned(r)
  BY <1>3, <1>5 DEF Planned, Item
<1>7. Placed(r, file)
  <2> SUFFICES ASSUME r.sort = "install", r.alone PROVE Placed(r, file)
    BY DEF Placed
  <2>1. InPlace(r, i, new)
    BY <1>2, <1>5, SamePlace
  <2>2. CASE run[p].pc = "item"
    <3>1. \A j \in 1..4 : j < r.i => InPlace(run[p], Order[j], file[Order[j]])
      BY <1>5, <2>2 DEF HarnessInv, Placed
    <3>2. \A j \in 1..4 : j < r.i => InPlace(r, Order[j], file[Order[j]])
      BY <1>5, <3>1, SamePlace
    <3> QED BY <1>5, <2>1, <3>2 DEF Placed, Item
  <2>3. CASE run[p].pc = "merge"
    BY <1>5, <2>3 DEF HarnessInv, HarnessTyped, Planned
  <2> QED BY <2>2, <2>3
<1>8. SafeRun(r, kept, edits, beside)
  <2> SUFFICES ASSUME i \notin beside \cup {"skill"}, edits[i] # 0,
                      ~\E g \in kept[i] \ {Nil} : g.user = edits[i]
               PROVE  new # Nil /\ new.user = edits[i]
    BY <1>5 DEF SafeRun, Item
  <2>1. f # Nil /\ f.user = edits[i]
    BY <1>1 DEF HarnessInv, UserContentSurvives
  <2> QED BY <1>2, <2>1 DEF KeepsUser
<1>9. kept' \in [Items -> SUBSET AnyContents]
  BY DEF HarnessInv, HarnessTyped
<1> QED BY <1>4, <1>5, <1>6, <1>7, <1>8, <1>9, QuietStep

LEMMA BeginHolds ==
    ASSUME HarnessConstants, HarnessInv, NEW p \in Processes, BeginItem(p) PROVE HarnessInv'
<1> DEFINE i == Item(p)
           f == file[i]
           r == run[p]
<1>1. run[p].pc = "item" /\ UNCHANGED <<file, kept, edits, beside, edited>>
  BY DEF BeginItem
<1>2. r \in Sessions /\ i \in Items /\ Fits(i, f)
  BY <1>1, SessionFields
<1>3. r.sort \in {"install", "uninstall"}
  BY <1>2 DEF Sessions
<1>4. CASE r.sort = "uninstall" /\ f = Nil
  BY <1>1, <1>4, ItemDoneHolds DEF BeginItem
<1>5. CASE r.sort = "uninstall" /\ f # Nil
  <2>1. CASE i = "skill" /\ Refuses(r, i, f)
    BY <1>1, <1>5, <2>1, RefusedHolds DEF BeginItem
  <2>2. CASE ~(i = "skill" /\ Refuses(r, i, f))
    <3> DEFINE s == [run[p] EXCEPT !.pc = "backup"]
    <3>1. s \in Sessions /\ s.pc = "backup" /\ s.sort = "uninstall"
      BY <1>1, <1>5, StepChanges
    <3>2. run' = [run EXCEPT ![p] = s]
      BY <1>5, <2>2 DEF BeginItem, RunGoes
    <3> HIDE DEF s
    <3>3. Planned(s) /\ Placed(s, file)
      BY <3>1 DEF Planned, Placed
    <3> QED BY <1>1, <3>1, <3>2, <3>3, GoesQuietly
  <2> QED BY <2>1, <2>2
<1>6. CASE r.sort = "install"
  <2>1. CASE Refuses(r, i, f)
    BY <1>1, <1>6, <2>1, RefusedHolds DEF BeginItem
  <2>2. CASE ~Refuses(r, i, f) /\ f = Desired(r, i, f)
    <3>1. InPlace(r, i, f)
      <4>1. InPlace(r, i, Desired(r, i, f))
        BY <1>2, <1>6, ItemMerged DEF Sessions
      <4> QED BY <2>2, <4>1
    <3>2. run' = [run EXCEPT ![p] = ItemDone(r)]
      BY <1>6, <2>2 DEF BeginItem
    <3> QED BY <1>1, <3>1, <3>2, ItemDoneHolds
  <2>3. CASE ~Refuses(r, i, f) /\ f # Desired(r, i, f)
    <3> DEFINE pc == IF f = Nil THEN "write" ELSE "backup"
    <3>1. run' = [run EXCEPT ![p].wants = Desired(run[p], Item(p), file[Item(p)]), ![p].pc = pc]
      BY <1>6, <2>3 DEF BeginItem
    <3>2. pc \in {"backup", "write"} /\ (f = Nil \/ pc = "backup")
      OBVIOUS
    <3> HIDE DEF pc
    <3> QED BY <1>1, <1>6, <3>1, <3>2, WantsHolds
  <2> QED BY <2>1, <2>2, <2>3
<1> QED BY <1>3, <1>4, <1>5, <1>6

LEMMA BackUpHolds == ASSUME HarnessInv, NEW p \in Processes, BackUpItem(p) PROVE HarnessInv'
<1> DEFINE i == Item(p)
           f == file[i]
           pc == IF run[p].sort = "install" THEN "write" ELSE "merge"
           r == [run[p] EXCEPT !.pc = pc]
<1>1. run[p].pc = "backup" /\ UNCHANGED <<file, edits, beside, edited>>
  BY DEF BackUpItem
<1>2. run[p] \in Sessions /\ i \in Items /\ Fits(i, f)
  BY <1>1, SessionFields
<1>3. CASE f = Nil /\ run[p].sort # "install"
  BY <1>1, <1>3, RefusedHolds DEF BackUpItem
<1>4. CASE f # Nil \/ run[p].sort = "install"
  <2>1. /\ run' = [run EXCEPT ![p] = r]
        /\ kept' = IF f = Nil THEN kept ELSE [kept EXCEPT ![i] = @ \cup {f}]
    BY <1>4 DEF BackUpItem, RunGoes
  <2>2. f # Nil => f \in AnyContents
    BY <1>2, ItemsAre DEF Fits, AnyContents
  <2>3. kept \in [Items -> SUBSET AnyContents]
    BY DEF HarnessInv, HarnessTyped
  <2>4. /\ kept' \in [Items -> SUBSET AnyContents] /\ (f # Nil => f \in kept'[i])
        /\ \A j \in Items : kept[j] \subseteq kept'[j]
    BY <1>2, <2>1, <2>2, <2>3
  <2>5. /\ r \in Sessions /\ r.pc = pc /\ r.i = run[p].i /\ r.wants = run[p].wants
        /\ r.sort = run[p].sort /\ r.alone = run[p].alone /\ r.exec = run[p].exec
        /\ r.vault = run[p].vault /\ r.previous = run[p].previous
    <3>1. pc \in {"write", "merge"}
      OBVIOUS
    <3> HIDE DEF pc
    <3> QED BY <1>2, <3>1 DEF Sessions
  <2> HIDE DEF r
  <2>6. run[p].sort \in {"install", "uninstall"}
    BY <1>2 DEF Sessions
  <2>7. Planned(r)
    BY <1>1, <2>5, <2>6 DEF HarnessInv, HarnessTyped, Planned
  <2>8. Placed(r, file)
    <3>1. Placed(run[p], file)
      BY DEF HarnessInv
    <3> SUFFICES ASSUME r.sort = "install", r.alone PROVE Placed(r, file)
      BY DEF Placed
    <3>2. r.pc = "write"
      BY <2>5
    <3>3. /\ \A j \in 1..4 : j < r.i => InPlace(run[p], Order[j], file[Order[j]])
          /\ InPlace(run[p], Order[r.i], r.wants)
      BY <1>1, <2>5, <3>1 DEF Placed
    <3>4. /\ \A j \in 1..4 : j < r.i => InPlace(r, Order[j], file[Order[j]])
          /\ InPlace(r, Order[r.i], r.wants)
      BY <2>5, <3>3, SamePlace
    <3> QED BY <3>2, <3>4 DEF Placed
  <2>9. SafeRun(r, kept', edits, beside)
    <3> SUFFICES ASSUME i \notin beside \cup {"skill"}, edits[i] # 0
                 PROVE  \E g \in kept'[i] \ {Nil} : g.user = edits[i]
      BY <2>5 DEF SafeRun, Item
    <3>1. \E g \in (kept[i] \cup {f}) \ {Nil} : g.user = edits[i]
      BY <1>2 DEF HarnessInv, UserContentSurvives
    <3> QED BY <1>2, <2>4, <3>1
  <2> QED BY <1>1, <2>1, <2>4, <2>5, <2>7, <2>8, <2>9, QuietStep
<1> QED BY <1>3, <1>4

LEMMA MergeHolds ==
    ASSUME HarnessConstants, HarnessInv, NEW p \in Processes, MergeItem(p) PROVE HarnessInv'
<1>1. run[p].pc = "merge" /\ UNCHANGED <<file, kept, edits, beside, edited>>
  BY DEF MergeItem
<1>2. CASE file[Item(p)] = Nil /\ Item(p) \notin {"skill", "hooks"}
  BY <1>1, <1>2, RefusedHolds DEF MergeItem
<1>3. CASE ~(file[Item(p)] = Nil /\ Item(p) \notin {"skill", "hooks"})
  BY <1>1, <1>3, WantsHolds DEF MergeItem
<1> QED BY <1>2, <1>3

LEMMA KillHolds == ASSUME HarnessInv, NEW p \in Processes, KillRun(p) PROVE HarnessInv'
  BY GoesQuietly, NoRunHolds DEF KillRun

\* What another process sees of a write beside it.
LEMMA DisturbedHolds ==
    ASSUME HarnessInv, NEW p, NEW q \in Processes \ {p}, NEW e, NEW b, NEW files,
           SafeRun(run[q], kept, e, b)
    PROVE  LET d == Disturbed(p)[q] IN
           d \in {NoRun} \cup Sessions /\ Planned(d) /\ SafeRun(d, kept, e, b) /\ Placed(d, files)
<1> DEFINE d == Disturbed(p)[q]
<1>1. run[q] \in {NoRun} \cup Sessions /\ Planned(run[q])
  BY DEF HarnessInv, HarnessTyped
<1>2. CASE run[q].pc = "idle"
  <2>1. d = run[q]
    BY <1>2 DEF Disturbed
  <2>2. run[q] = NoRun
    BY <1>1, <1>2 DEF Sessions
  <2> QED BY <2>1, <2>2, NoRunHolds
<1>3. CASE run[q].pc # "idle"
  <2>1. run[q] \in Sessions
    BY <1>3, SessionFields
  <2>2. d = [run[q] EXCEPT !.alone = FALSE]
    BY <1>3 DEF Disturbed
  <2>3. /\ d \in Sessions /\ ~d.alone /\ d.pc = run[q].pc /\ d.i = run[q].i
        /\ d.sort = run[q].sort /\ d.wants = run[q].wants
    BY <2>1, <2>2 DEF Sessions
  <2> HIDE DEF d
  <2>4. Planned(d) /\ Placed(d, files)
    BY <1>1, <2>3 DEF Planned, Placed
  <2>5. SafeRun(d, kept, e, b)
    BY <2>3 DEF SafeRun
  <2> QED BY <2>3, <2>4, <2>5 DEF d
<1> QED BY <1>2, <1>3

LEMMA ItemReplaced ==
    ASSUME HarnessTyped, NEW i \in Items, NEW f, Fits(i, f), file' = [file EXCEPT ![i] = f]
    PROVE  FilesTyped(file)' /\ file'[i] = f /\ \A j \in Items \ {i} : file'[j] = file[j]
<1>1. DOMAIN file' = Items /\ file'[i] = f /\ \A j \in Items \ {i} : file'[j] = file[j]
  BY DEF HarnessTyped, FilesTyped
<1>2. \A j \in Items : Fits(j, file'[j])
  BY <1>1, FilesFit DEF HarnessTyped
<1> QED BY <1>1, <1>2, ItemsAre DEF FilesTyped, Fits

LEMMA WriteHolds == ASSUME HarnessInv, NEW p \in Processes, WriteItem(p) PROVE HarnessInv'
<1> DEFINE i == Item(p)
           f == run[p].wants
           r == ItemDone(run[p])
<1>1. run[p].pc = "write" /\ UNCHANGED <<kept, edits, beside, edited>>
  BY DEF WriteItem
<1>2. run[p] \in Sessions /\ run[p].i \in 1..4 /\ i \in Items
  BY <1>1, SessionFields
<1>3. HarnessTyped /\ UserContentSurvives /\ Fits(i, f)
  BY <1>1 DEF HarnessInv, HarnessTyped, Planned, Item
<1>4. CASE f = Nil /\ file[i] = Nil
  BY <1>1, <1>4, RefusedHolds DEF WriteItem
<1>5. CASE ~(f = Nil /\ file[i] = Nil)
  <2>1. file' = [file EXCEPT ![i] = f] /\ run' = [Disturbed(p) EXCEPT ![p] = ItemDone(@)]
    BY <1>5 DEF WriteItem
  <2>2. FilesTyped(file)' /\ file'[i] = f /\ \A j \in Items \ {i} : file'[j] = file[j]
    BY <1>2, <1>3, <2>1, ItemReplaced
  <2>3. Disturbed(p)[p] = run[p] /\ DOMAIN Disturbed(p) = Processes
    BY DEF Disturbed
  <2>4. /\ run' = [q \in Processes |-> run'[q]] /\ run'[p] = r
        /\ \A q \in Processes \ {p} : run'[q] = Disturbed(p)[q]
    BY <2>1, <2>3
  <2>5. ASSUME run[p].sort = "install", run[p].alone, NEW j \in 1..4, j <= run[p].i
        PROVE  InPlace(run[p], Order[j], file'[Order[j]])
    <3>1. CASE j = run[p].i
      <4>1. InPlace(run[p], Order[run[p].i], run[p].wants)
        BY <1>1, <2>5 DEF HarnessInv, Placed
      <4> QED BY <2>2, <3>1, <4>1 DEF Item
    <3>2. CASE j < run[p].i
      <4>1. InPlace(run[p], Order[j], file[Order[j]])
        BY <1>1, <2>5, <3>2 DEF HarnessInv, Placed
      <4>2. Order[j] \in Items \ {i}
        BY <1>2, <3>2, ItemsAre DEF Item
      <4> QED BY <2>2, <4>1, <4>2
    <3> QED BY <1>2, <2>5, <3>1, <3>2
  <2>6. r \in Sessions /\ r.pc \in {"item", "done"} /\ Planned(r) /\ Placed(r, file')
    BY <1>2, <2>5, DoneIsPlaced
  <2> HIDE DEF r
  <2>7. SafeRun(r, kept, edits, beside)
    BY <2>6 DEF SafeRun
  <2>8. ASSUME NEW q \in Processes
        PROVE  /\ run'[q] \in {NoRun} \cup Sessions /\ Planned(run'[q])
               /\ SafeRun(run'[q], kept, edits, beside) /\ Placed(run'[q], file')
    <3>1. CASE q = p
      BY <2>4, <2>6, <2>7, <3>1
    <3>2. CASE q # p
      <4>1. SafeRun(run[q], kept, edits, beside)
        BY DEF HarnessInv
      <4> QED BY <2>4, <3>2, <4>1, DisturbedHolds
    <3> QED BY <3>1, <3>2
  <2>9. HarnessTyped'
    BY <1>1, <1>3, <2>2, <2>4, <2>8 DEF HarnessTyped
  <2>10. UserContentSurvives'
    <3> SUFFICES ASSUME NEW j \in Items \ ({"skill"} \cup beside), edits[j] # 0
                 PROVE  \E g \in (kept[j] \cup {file'[j]}) \ {Nil} : g.user = edits[j]
      BY <1>1 DEF UserContentSurvives
    <3>1. CASE j = i
      <4>1. SafeRun(run[p], kept, edits, beside)
        BY DEF HarnessInv
      <4>2. \/ \E g \in kept[i] \ {Nil} : g.user = edits[i]
            \/ f # Nil /\ f.user = edits[i]
        BY <1>1, <3>1, <4>1 DEF SafeRun, Item
      <4> QED BY <2>2, <3>1, <4>2
    <3>2. CASE j # i
      BY <1>3, <2>2, <3>2 DEF UserContentSurvives
    <3> QED BY <3>1, <3>2
  <2> QED BY <1>1, <2>8, <2>9, <2>10 DEF HarnessInv
<1> QED BY <1>4, <1>5

LEMMA Edited ==
    ASSUME NEW i \in Items \ {"skill"}, NEW f, Fits(i, f), NEW n \in Nat, HarnessConstants
    PROVE  LET new == [(IF f = Nil THEN Empty(i) ELSE f) EXCEPT !.user = n]
           IN Fits(i, new) /\ new # Nil /\ new.user = n
<1> DEFINE old == IF f = Nil THEN Empty(i) ELSE f
           new == [old EXCEPT !.user = n]
<1>1. /\ i = "agents" => old \in Agents
      /\ i = "config" => old \in Configs
      /\ i = "hooks" => old \in HookFiles
  BY OldFits
<1> HIDE DEF old
<1>2. CASE i = "agents"
  <2>1. new \in Agents /\ new.user = n
    BY <1>1, <1>2 DEF Agents
  <2> HIDE DEF new
  <2>2. Fits(i, new) /\ new # Nil /\ new.user = n
    BY <1>2, <2>1 DEF Fits, HarnessConstants
  <2> QED BY <2>2 DEF new, old
<1>3. CASE i = "config"
  <2>1. new \in Configs /\ new.user = n
    BY <1>1, <1>3 DEF Configs
  <2> HIDE DEF new
  <2>2. Fits(i, new) /\ new # Nil /\ new.user = n
    BY <1>3, <2>1 DEF Fits, HarnessConstants
  <2> QED BY <2>2 DEF new, old
<1>4. CASE i = "hooks"
  <2>1. new \in HookFiles /\ new.user = n
    BY <1>1, <1>4 DEF HookFiles
  <2> HIDE DEF new
  <2>2. Fits(i, new) /\ new # Nil /\ new.user = n
    BY <1>4, <2>1 DEF Fits, HarnessConstants
  <2> QED BY <2>2 DEF new, old
<1> QED BY <1>2, <1>3, <1>4, ItemsAre

LEMMA EditHolds ==
    ASSUME HarnessConstants, HarnessInv, NEW i \in Items, Edit(i) PROVE HarnessInv'
<1> DEFINE n == edited + 1
           new == [(IF file[i] = Nil THEN Empty(i) ELSE file[i]) EXCEPT !.user = n]
<1>1. /\ i \in Items \ {"skill"} /\ edits' = [edits EXCEPT ![i] = n] /\ edited' = n
      /\ file' = [file EXCEPT ![i] = new] /\ run' = Disturbed(Nil) /\ kept' = kept
  BY DEF Edit
<1>2. HarnessTyped /\ UserContentSurvives /\ n \in Nat
  BY DEF HarnessInv, HarnessTyped
<1>3. Fits(i, new) /\ new # Nil /\ new.user = n
  BY <1>1, <1>2, FilesFit, Edited DEF HarnessTyped
<1> HIDE DEF new
<1>4. FilesTyped(file)' /\ file'[i] = new /\ \A j \in Items \ {i} : file'[j] = file[j]
  BY <1>1, <1>2, <1>3, ItemReplaced
<1>5. /\ edits' \in [Items -> Nat] /\ edits'[i] = n
      /\ \A j \in Items \ {i} : edits'[j] = edits[j]
  BY <1>1, <1>2 DEF HarnessTyped
<1>6. /\ beside' \subseteq Items
      /\ \A j \in Items \ {i} : j \in beside' <=> j \in beside
      /\ (\E p \in Processes : run[p].pc = "write" /\ Item(p) = i) => i \in beside'
  BY <1>2 DEF Edit, HarnessTyped
<1>7. ASSUME NEW q \in Processes PROVE SafeRun(run[q], kept, edits', beside')
  <2>1. SafeRun(run[q], kept, edits, beside)
    BY DEF HarnessInv
  <2>2. CASE run[q].pc = "write"
    <3>1. Item(q) \in Items
      BY <2>2, SessionFields
    <3> QED BY <1>5, <1>6, <2>1, <2>2, <3>1 DEF SafeRun, Item
  <2>3. CASE run[q].pc # "write"
    BY <2>3 DEF SafeRun
  <2> QED BY <2>2, <2>3
<1>8. ASSUME NEW q \in Processes
      PROVE  /\ run'[q] \in {NoRun} \cup Sessions /\ Planned(run'[q])
             /\ SafeRun(run'[q], kept, edits', beside') /\ Placed(run'[q], file')
  <2>1. q \in Processes \ {Nil}
    BY DEF HarnessConstants
  <2> QED BY <1>1, <1>7, <2>1, DisturbedHolds
<1>9. run' = [q \in Processes |-> run'[q]]
  BY <1>1 DEF Disturbed
<1>10. HarnessTyped'
  BY <1>1, <1>2, <1>4, <1>5, <1>6, <1>8, <1>9 DEF HarnessTyped
<1>11. UserContentSurvives'
  BY <1>1, <1>2, <1>3, <1>4, <1>5, <1>6 DEF UserContentSurvives
<1> QED BY <1>1, <1>8, <1>10, <1>11 DEF HarnessInv

LEMMA HarnessStep == HarnessConstants /\ HarnessInv /\ [HarnessNext]_harnessVars => HarnessInv'
<1> SUFFICES ASSUME HarnessConstants, HarnessInv, [HarnessNext]_harnessVars PROVE HarnessInv'
  OBVIOUS
<1>1. CASE UNCHANGED harnessVars
  <2>1. HarnessTyped' /\ UserContentSurvives'
    BY <1>1 DEF harnessVars, HarnessInv, HarnessTyped, UserContentSurvives
  <2> QED BY <1>1, <2>1 DEF harnessVars, HarnessInv
<1>2. ASSUME NEW i \in Items, Edit(i) PROVE HarnessInv'
  BY <1>2, EditHolds
<1>3. ASSUME NEW p \in Processes, HarnessInstaller(p) PROVE HarnessInv'
  BY <1>3, StartRunHolds, PreflightHolds, BeginHolds, BackUpHolds, MergeHolds, WriteHolds,
     KillHolds
  DEF HarnessInstaller
<1> QED BY <1>1, <1>2, <1>3 DEF HarnessNext

LEMMA HarnessInvariance == ASSUME HarnessConstants PROVE HarnessSpec => []HarnessInv
<1>1. HarnessInit => HarnessInv
  BY HarnessInitially
<1>2. HarnessInv /\ [HarnessNext]_harnessVars => HarnessInv'
  BY HarnessStep
<1> QED BY <1>1, <1>2, PTL DEF HarnessSpec

\* What a user wrote last into a text is in it or in a backup of it, unless it came between the
\* backup and the write of an installer, for any number of installers, executables, edits and
\* kills, over whatever was there before.
THEOREM UserContentIsKept ==
    ASSUME HarnessConstants PROVE HarnessSpec => []UserContentSurvives
<1>1. HarnessInv => UserContentSurvives
  BY DEF HarnessInv
<1> QED BY <1>1, HarnessInvariance, PTL

\* The doctor counts the hooks of this vault and those without one; of these an installation
\* leaves exactly the foreign ones beside its own.
LEMMA HooksMatchUnlessForeign ==
    ASSUME NEW r \in Sessions, Nil \notin Execs \cup {Plain},
           file["hooks"].commands \in Seq(Commands), Registered(r, file["hooks"].commands)
    PROVE  HooksMatch(r.exec, r.vault)
              <=> \A c \in ToSet(file["hooks"].commands) : ~Foreign(r, c)
<1> DEFINE s == file["hooks"].commands
           own == Command(r.exec, r.vault)
           counts(c) == c[2] \in {Nil, r.vault}
           matching == {j \in 1..Len(s) : counts(s[j])}
<1>1. s \in Seq(Commands) /\ ToSet(s) = {s[j] : j \in 1..Len(s)}
  BY DEF ToSet
<1>2. PICK k \in 1..Len(s) : /\ s[k] = own
                             /\ \A j \in (1..Len(s)) \ {k} : s[j] \notin ManagedCommands(r)
  BY DEF Registered
<1>3. own = <<r.exec, r.vault>> /\ r.exec \in Execs /\ r.vault \in Vaults
  BY DEF Command, Sessions
<1>4. \A j \in 1..Len(s) : s[j] \in Commands /\ s[j] = <<s[j][1], s[j][2]>>
  <2>1. \A j \in 1..Len(s) : s[j] \in Commands
    BY <1>1
  <2>2. \A c \in Commands : c = <<c[1], c[2]>>
    BY DEF Commands
  <2> QED BY <2>1, <2>2
<1>5. ~Foreign(r, own) /\ counts(own)
  BY <1>3 DEF Foreign
<1>6. ASSUME NEW c \in Commands, c = <<c[1], c[2]>>, counts(c), ~Foreign(r, c)
      PROVE  c \in ManagedCommands(r)
  <2>1. c[1] \in Execs \cup {Plain}
    BY DEF Commands
  <2>2. CASE c[2] = Nil
    <3>1. c[1] \in {r.exec, Plain, r.previous} \ {Nil}
      BY <1>6, <2>1, <2>2 DEF Foreign
    <3> QED BY <1>6, <2>2, <3>1 DEF ManagedCommands, Command
  <2>3. CASE c[2] = r.vault
    <3>1. c[1] = r.exec
      BY <1>6, <2>3 DEF Foreign
    <3> QED BY <1>6, <2>3, <3>1 DEF ManagedCommands, Command
  <2> QED BY <1>6, <2>2, <2>3
<1>7. ASSUME NEW c, Foreign(r, c) PROVE counts(c)
  BY <1>7 DEF Foreign
<1> HIDE DEF s, own, counts
<1>8. k \in matching
  BY <1>2, <1>5
<1>9. ASSUME \A c \in ToSet(s) : ~Foreign(r, c) PROVE matching = {k}
  <2>1. ASSUME NEW j \in matching, j # k PROVE FALSE
    <3>1. s[j] \in ToSet(s) /\ counts(s[j]) /\ s[j] \in Commands /\ s[j] = <<s[j][1], s[j][2]>>
      BY <1>1, <1>4
    <3>2. s[j] \in ManagedCommands(r)
      BY <1>6, <1>9, <3>1
    <3> QED BY <1>2, <2>1, <3>2
  <2> QED BY <1>8, <2>1
<1>10. ASSUME NEW i \in matching, matching = {i}, s[i] = own, NEW c \in ToSet(s), Foreign(r, c)
       PROVE  FALSE
  <2>1. PICK j \in 1..Len(s) : c = s[j]
    BY <1>1
  <2>2. j \in matching
    BY <1>7, <1>10, <2>1
  <2> QED BY <1>5, <1>10, <2>1, <2>2
<1>11. HooksMatch(r.exec, r.vault) <=> \E i \in matching : matching = {i} /\ s[i] = own
  BY DEF HooksMatch, s, own, counts
<1> HIDE DEF matching
<1>12. HooksMatch(r.exec, r.vault) <=> \A c \in ToSet(s) : ~Foreign(r, c)
  BY <1>2, <1>8, <1>9, <1>10, <1>11
<1> QED BY <1>12 DEF s

LEMMA PlacedIsHealthy ==
    ASSUME HarnessConstants, HarnessInv, NEW p \in Processes, Done(p, "install"), run[p].alone
    PROVE  Healthy(run[p].exec, run[p].vault)
              <=> \A c \in ToSet(file["hooks"].commands) : ~Foreign(run[p], c)
<1> DEFINE r == run[p]
<1>1. r.pc = "done" /\ r.sort = "install"
  BY DEF Done
<1>2. r \in Sessions
  BY <1>1, SessionFields
<1>3. \A j \in 1..4 : InPlace(r, Order[j], file[Order[j]])
  BY <1>1 DEF HarnessInv, Placed
<1>4. /\ InPlace(r, "skill", file["skill"]) /\ InPlace(r, "agents", file["agents"])
      /\ InPlace(r, "config", file["config"]) /\ InPlace(r, "hooks", file["hooks"])
  <2>1. 1 \in 1..4 /\ 2 \in 1..4 /\ 3 \in 1..4 /\ 4 \in 1..4
    OBVIOUS
  <2> QED BY <1>3, <2>1, ItemsAre
<1> HIDE DEF r
<1>5. \A i \in Items : file[i] # Nil
  BY <1>4, ItemsAre DEF InPlace
<1>6. file["skill"] = "shim" /\ file["agents"].block /\ TableMatches(r.exec, r.vault)
  BY <1>4 DEF InPlace, TableMatches
<1>7. file["hooks"] \in HookFiles /\ Registered(r, file["hooks"].commands)
  BY <1>4 DEF InPlace, Fits
<1>8. file["hooks"].commands \in Seq(Commands)
  BY <1>7 DEF HookFiles
<1>9. HooksMatch(r.exec, r.vault) <=> \A c \in ToSet(file["hooks"].commands) : ~Foreign(r, c)
  BY <1>2, <1>7, <1>8, HooksMatchUnlessForeign DEF HarnessConstants
<1>10. Healthy(r.exec, r.vault) <=> \A c \in ToSet(file["hooks"].commands) : ~Foreign(r, c)
  BY <1>5, <1>6, <1>9 DEF Healthy
<1> QED BY <1>10 DEF r

\* An installation beside which nobody wrote leaves what the doctor of the same executable
\* finds healthy, unless there is a hook of another executable, for any number of installers,
\* executables, vaults, edits and kills, over whatever was there before.
THEOREM InstallationEndsHealthy ==
    ASSUME HarnessConstants PROVE HarnessSpec => []InstallIsHealthy
<1>1. HarnessInv => InstallIsHealthy
  BY PlacedIsHealthy DEF InstallIsHealthy
<1> QED BY <1>1, HarnessInvariance, PTL
=============================================================================
