---------------------- MODULE DogfoodTransactionProofs ----------------------
(***************************************************************************)
(* Type correctness and the frozen configuration of DogfoodTransaction,    *)
(* the agreement of its files and recovery that no writer sees; for any    *)
(* number of operators, gates, run ids, evidence directories and modes,    *)
(* and any ledger bound.                                                   *)
(***************************************************************************)
EXTENDS DogfoodTransaction, TLAPS

\* At most one operator is past the maintenance lock; the ledger lock is held
\* through every command body and every step of start and finalize.
Locks ==
    /\ \A p, q \in maintenance : p = q
    /\ ledgerLock \subseteq maintenance
    /\ \A p \in Operators : p \in maintenance <=> pc[p] # "idle"
    /\ \A p \in Operators :
          pc[p] \in Commands \cup StartSteps \cup FinalizeSteps => p \in ledgerLock
    /\ \A p \in Operators :
          pc[p] # "idle" /\ cmd[p] # "recover" => p \in ledgerLock /\ cmd[p] \in Commands

\* The states a journal holds, and the live state beside a start journal.
JournalSound ==
    /\ journal.kind = "start" =>
          /\ ActiveIn(journal.before) = {}
          /\ \/ ActiveIn(runs) = {}
             \/ journal.phase \in IntentPhases /\ ActiveId(runs) = journal.run
    /\ journal.kind = "finalize" => ActiveIn(journal.before) = {Len(journal.before)}

\* An active run, in the state file or in a finalize journal, has its frozen configuration.
Frozen == ActiveIn(runs) # {} \/ journal.kind = "finalize" => ConfigIsShadow

\* What holds when an operator is about to take the step labelled l.
IntentSteps ==
    {"autopilot", "AutopilotWritten", "gateMode", "GateModeWritten", "activate", "clearStart"}
Fits(l) ==
    /\ l \in StartSteps \cup UndoStartSteps => journal.kind = "start"
    /\ l \in FinalizeSteps \cup RecoverFinalizeSteps => journal.kind = "finalize"
    /\ l \in Commands => journal = NoJournal
    /\ l \in UndoStartSteps \cup (StartSteps \ {"clearStart"}) => ActiveIn(runs) = {}
    /\ l \in IntentSteps => journal.phase \in IntentPhases
    /\ l \in {"AutopilotWritten", "gateMode", "GateModeWritten", "activate"} =>
          config.autopilot = "shadow"
    /\ l \in {"GateModeWritten", "activate"} => config.gateMode = "shadow"

IInv ==
    /\ TypeOK
    /\ Locks
    /\ JournalSound
    /\ Frozen
    /\ \A p \in Operators : Fits(pc[p])

-----------------------------------------------------------------------------
\* Facts about the state file.

LEMMA ActiveIdType ==
  ASSUME NEW rs \in Seq(Run)
  PROVE  /\ ActiveIn(rs) = {} => ActiveId(rs) = NoRun
         /\ ActiveIn(rs) # {} => ActiveId(rs) \in RunIds
         /\ ActiveId(rs) \in RunIds => ActiveIn(rs) # {}
<1>1. ASSUME ActiveIn(rs) # {} PROVE ActiveId(rs) \in RunIds
  <2> DEFINE i == CHOOSE i \in ActiveIn(rs) : TRUE
  <2>1. i \in DOMAIN rs
    BY <1>1 DEF ActiveIn
  <2>2. rs[i] \in Run
    BY <2>1
  <2> QED BY <1>1, <2>2 DEF ActiveId, Run
<1>2. ActiveIn(rs) = {} => ActiveId(rs) = NoRun
  BY DEF ActiveId
<1> QED BY <1>1, <1>2, TransactionConstants

LEMMA AppendActive ==
  ASSUME NEW rs \in Seq(Run), ActiveIn(rs) = {}, NEW new \in Run, new.status = "active"
  PROVE  /\ Append(rs, new) \in Seq(Run)
         /\ ActiveIn(Append(rs, new)) = {Len(Append(rs, new))}
         /\ ActiveId(Append(rs, new)) = new.id
<1> DEFINE s == Append(rs, new)
<1>1. /\ s \in Seq(Run)
      /\ Len(s) = Len(rs) + 1
      /\ DOMAIN s = DOMAIN rs \cup {Len(rs) + 1}
      /\ Len(rs) + 1 \notin DOMAIN rs
      /\ \A i \in DOMAIN rs : s[i] = rs[i]
      /\ s[Len(rs) + 1] = new
  OBVIOUS
<1> HIDE DEF s
<1>2. ActiveIn(s) = {Len(s)}
  BY <1>1 DEF ActiveIn
<1>3. ActiveId(s) = new.id
  BY <1>1, <1>2 DEF ActiveId
<1> QED BY <1>1, <1>2, <1>3 DEF s

\* Changing the status of the only active run leaves none.
LEMMA RetireActive ==
  ASSUME NEW rs \in Seq(Run), NEW i \in ActiveIn(rs), ActiveIn(rs) \subseteq {i},
         NEW rec \in Run, rec.status # "active"
  PROVE  /\ [rs EXCEPT ![i] = rec] \in Seq(Run)
         /\ ActiveIn([rs EXCEPT ![i] = rec]) = {}
<1> DEFINE s == [rs EXCEPT ![i] = rec]
<1>1. /\ s \in Seq(Run)
      /\ DOMAIN s = DOMAIN rs
      /\ s[i] = rec
      /\ \A j \in DOMAIN rs : j # i => s[j] = rs[j]
  BY DEF ActiveIn
<1> HIDE DEF s
<1>2. ActiveIn(s) = {}
  BY <1>1 DEF ActiveIn
<1> QED BY <1>1, <1>2 DEF s

LEMMA ArchiveRetires ==
  ASSUME NEW rs \in Seq(Run), ActiveIn(rs) = {Len(rs)}, NEW exported \in BOOLEAN
  PROVE  /\ Archive(rs, exported) \in Seq(Run)
         /\ ActiveIn(Archive(rs, exported)) = {}
<1> DEFINE rec == [rs[Len(rs)] EXCEPT !.status = "finalized", !.exported = exported]
<1>1. Len(rs) \in DOMAIN rs /\ rs[Len(rs)] \in Run
  BY DEF ActiveIn
<1>2. rec \in Run /\ rec.status # "active"
  BY <1>1 DEF Run, Statuses
<1>3. Archive(rs, exported) = [rs EXCEPT ![Len(rs)] = rec]
  BY <1>1, <1>2 DEF Archive, Run
<1>4. Len(rs) \in ActiveIn(rs) /\ ActiveIn(rs) \subseteq {Len(rs)}
  OBVIOUS
<1> HIDE DEF rec
<1>5. /\ [rs EXCEPT ![Len(rs)] = rec] \in Seq(Run)
      /\ ActiveIn([rs EXCEPT ![Len(rs)] = rec]) = {}
  BY <1>2, <1>4, RetireActive, Zenon
<1> QED BY <1>3, <1>5, Zenon

LEMMA JournalTypes ==
  ASSUME TypeOK
  PROVE  /\ journal.kind = "start" => journal \in StartJournal
         /\ journal.kind = "finalize" => journal \in FinalizeJournal
         /\ journal.kind \notin {"start", "finalize"} => journal = NoJournal
<1>1. journal \in {NoJournal} \cup StartJournal \cup FinalizeJournal
  BY DEF TypeOK
<1>2. CASE journal = NoJournal
  BY <1>2 DEF NoJournal
<1>3. CASE journal \in StartJournal
  BY <1>3 DEF StartJournal
<1>4. CASE journal \in FinalizeJournal
  BY <1>4 DEF FinalizeJournal
<1> QED BY <1>1, <1>2, <1>3, <1>4

\* The rename of the staging directory to the evidence directory.
LEMMA PublishTypes ==
  ASSUME artifacts \in Artifacts, Absent \in Evidence, NEW o \in Outs
  PROVE  [artifacts EXCEPT !.out[o] = artifacts.staging, !.staging = Absent] \in Artifacts
<1> DEFINE out == [artifacts.out EXCEPT ![o] = artifacts.staging]
<1>1. artifacts.out \in [Outs -> Evidence] /\ artifacts.staging \in Evidence
  BY DEF Artifacts
<1>2. out \in [Outs -> Evidence]
  BY <1>1
<1>3. [artifacts EXCEPT !.out[o] = artifacts.staging, !.staging = Absent] =
          [artifacts EXCEPT !.out = out, !.staging = Absent]
  BY DEF Artifacts
<1> HIDE DEF out
<1>4. [artifacts EXCEPT !.out = out, !.staging = Absent] \in Artifacts
  BY <1>2 DEF Artifacts
<1> QED BY <1>3, <1>4, Zenon

-----------------------------------------------------------------------------
\* Facts about the control of an operator.

BodySteps == Commands \cup StartSteps \cup FinalizeSteps

LEMMA OthersIdle ==
  ASSUME Locks, NEW p \in Operators, pc[p] # "idle"
  PROVE  /\ maintenance = {p}
         /\ \A q \in Operators : q # p => pc[q] = "idle"
  BY DEF Locks

LEMMA StepLocks ==
  ASSUME TypeOK, Locks, NEW p \in Operators, NEW from \in Labels, NEW to \in Labels,
         Step(p, from, to), from # "idle", to # "idle",
         to \in BodySteps => from \in BodySteps
  PROVE  /\ Locks'
         /\ pc' \in [Operators -> Labels]
         /\ pc'[p] = to
         /\ \A q \in Operators : q # p => pc'[q] = "idle"
<1>1. /\ pc[p] = from
      /\ pc' = [pc EXCEPT ![p] = to]
      /\ UNCHANGED <<maintenance, ledgerLock, cmd>>
      /\ pc \in [Operators -> Labels]
  BY DEF Step, TypeOK, locks
<1>2. maintenance = {p} /\ \A q \in Operators : q # p => pc[q] = "idle"
  BY <1>1, OthersIdle
<1>3. /\ pc'[p] = to
      /\ \A q \in Operators : q # p => pc'[q] = "idle"
      /\ pc' \in [Operators -> Labels]
  BY <1>1, <1>2
<1>4. "idle" \notin BodySteps
  BY DEF BodySteps, Commands, StartSteps, FinalizeSteps
<1>5. Locks'
  BY <1>1, <1>2, <1>3, <1>4 DEF Locks, BodySteps
<1> QED BY <1>3, <1>5

LEMMA ExitLocks ==
  ASSUME TypeOK, Locks, NEW p \in Operators, Exit(p), pc[p] # "idle"
  PROVE  /\ Locks'
         /\ pc' \in [Operators -> Labels]
         /\ cmd' \in [Operators -> Commands \cup {"none", "recover"}]
         /\ readLen' \in [Operators -> 0..MaxLedger]
         /\ maintenance' \in SUBSET Operators
         /\ ledgerLock' \in SUBSET Operators
         /\ seen' = seen
         /\ \A q \in Operators : pc'[q] = "idle"
<1>1. maintenance = {p} /\ \A q \in Operators : q # p => pc[q] = "idle"
  BY OthersIdle
<1>2. /\ pc' \in [Operators -> Labels]
      /\ \A q \in Operators : pc'[q] = "idle"
  BY <1>1 DEF Exit, TypeOK, Labels
<1>3. cmd' \in [Operators -> Commands \cup {"none", "recover"}]
  BY DEF Exit, TypeOK
<1>4. readLen' \in [Operators -> 0..MaxLedger]
  BY TransactionConstants DEF Exit, TypeOK
<1>5. maintenance' = {} /\ ledgerLock' = {}
  BY <1>1 DEF Exit, Locks
<1>6. "idle" \notin BodySteps
  BY DEF BodySteps, Commands, StartSteps, FinalizeSteps
<1>7. Locks'
  BY <1>2, <1>5, <1>6 DEF Locks, BodySteps
<1> QED BY <1>2, <1>3, <1>4, <1>5, <1>7 DEF Exit

\* A step of one operator preserves the invariant when the files it leaves behind do.
LEMMA StepIInv ==
  ASSUME IInv, NEW p \in Operators, NEW from \in Labels, NEW to \in Labels,
         Step(p, from, to), from # "idle", to # "idle",
         to \in BodySteps => from \in BodySteps,
         runs' \in Seq(Run), ActiveIn(runs') \subseteq {Len(runs')},
         journal' \in {NoJournal} \cup StartJournal \cup FinalizeJournal,
         config' \in Config, artifacts' \in Artifacts, UNCHANGED ledger,
         JournalSound', Frozen', Fits(to)'
  PROVE  IInv'
<1>1. /\ Locks'
      /\ pc' \in [Operators -> Labels]
      /\ pc'[p] = to
      /\ \A q \in Operators : q # p => pc'[q] = "idle"
  BY StepLocks DEF IInv
<1>2. TypeOK'
  BY <1>1 DEF IInv, TypeOK, Step, locks
<1>3. ASSUME NEW q \in Operators PROVE Fits(pc[q])'
  <2>1. CASE q = p
    BY <2>1, <1>1 DEF Fits
  <2>2. CASE q # p
    <3>1. pc'[q] = "idle"
      BY <2>2, <1>1
    <3> QED BY <3>1 DEF Fits, StartSteps, UndoStartSteps, FinalizeSteps, RecoverFinalizeSteps,
                       Commands, IntentSteps
  <2> QED BY <2>1, <2>2
<1> QED BY <1>1, <1>2, <1>3 DEF IInv

\* An exit preserves the invariant when the files it leaves behind do.
LEMMA ExitIInv ==
  ASSUME IInv, NEW p \in Operators, pc[p] # "idle", Exit(p),
         runs' \in Seq(Run), ActiveIn(runs') \subseteq {Len(runs')},
         journal' \in {NoJournal} \cup StartJournal \cup FinalizeJournal,
         config' \in Config, artifacts' \in Artifacts,
         ledger' \in Seq(Event), Len(ledger') <= MaxLedger,
         JournalSound', Frozen'
  PROVE  IInv'
<1>1. /\ Locks'
      /\ pc' \in [Operators -> Labels]
      /\ cmd' \in [Operators -> Commands \cup {"none", "recover"}]
      /\ readLen' \in [Operators -> 0..MaxLedger]
      /\ maintenance' \in SUBSET Operators
      /\ ledgerLock' \in SUBSET Operators
      /\ seen' = seen
      /\ \A q \in Operators : pc'[q] = "idle"
  BY ExitLocks DEF IInv
<1>2. TypeOK'
  BY <1>1 DEF IInv, TypeOK
<1>3. ASSUME NEW q \in Operators PROVE Fits(pc[q])'
  <2>1. pc'[q] = "idle"
    BY <1>1
  <2> QED BY <2>1 DEF Fits, StartSteps, UndoStartSteps, FinalizeSteps, RecoverFinalizeSteps,
                     Commands, IntentSteps
<1> QED BY <1>1, <1>2, <1>3 DEF IInv

\* Steps that only touch artifacts.
LEMMA ArtifactIInv ==
  ASSUME IInv, NEW p \in Operators, NEW from \in Labels, NEW to \in Labels,
         Step(p, from, to), from # "idle", to # "idle",
         to \in BodySteps => from \in BodySteps,
         UNCHANGED <<runs, journal, config, ledger>>,
         artifacts' \in Artifacts, Fits(to)
  PROVE  IInv'
<1>1. JournalSound' /\ Frozen'
  BY DEF IInv, JournalSound, Frozen, ConfigIsShadow
<1>2. Fits(to)'
  BY DEF Fits
<1>3. /\ runs' \in Seq(Run) /\ ActiveIn(runs') \subseteq {Len(runs')}
      /\ journal' \in {NoJournal} \cup StartJournal \cup FinalizeJournal
      /\ config' \in Config
  BY DEF IInv, TypeOK
<1> QED BY <1>1, <1>2, <1>3, StepIInv

\* The end of recovery: the process exits, or goes on to its command body.
LEMMA ReconciledIInv ==
  ASSUME IInv, NEW p \in Operators,
         NEW from \in {"reconcile", "clearRollback", "clearFinalized"}, NEW outcome,
         Reconciled(p, from, outcome), journal' = NoJournal,
         UNCHANGED <<runs, config, artifacts, ledger>>
  PROVE  IInv'
<1>1. JournalSound'
  BY DEF JournalSound, NoJournal
<1>2. Frozen'
  BY DEF IInv, Frozen, NoJournal, ConfigIsShadow
<1>3. /\ runs' \in Seq(Run) /\ ActiveIn(runs') \subseteq {Len(runs')}
      /\ config' \in Config /\ artifacts' \in Artifacts
      /\ ledger' \in Seq(Event) /\ Len(ledger') <= MaxLedger
  BY DEF IInv, TypeOK
<1>4. pc[p] = from /\ pc[p] # "idle"
  BY DEF Reconciled
<1>5. CASE Exit(p)
  BY <1>1, <1>2, <1>3, <1>4, <1>5, ExitIInv
<1>6. CASE /\ cmd[p] # "recover"
           /\ pc' = [pc EXCEPT ![p] = cmd[p]]
           /\ readLen' = [readLen EXCEPT ![p] = Len(ledger)]
           /\ UNCHANGED <<locks, cmd, seen>>
  <2>1. p \in ledgerLock /\ cmd[p] \in Commands /\ cmd[p] # "idle" /\ cmd[p] \in Labels
    BY <1>4, <1>6 DEF IInv, Locks, Commands, Labels
  <2>2. maintenance = {p} /\ \A q \in Operators : q # p => pc[q] = "idle"
    BY <1>4, OthersIdle DEF IInv
  <2>3. /\ pc' \in [Operators -> Labels]
        /\ pc'[p] = cmd[p]
        /\ \A q \in Operators : q # p => pc'[q] = "idle"
    BY <1>6, <2>1, <2>2 DEF IInv, TypeOK
  <2>4. Locks'
    <3>1. "idle" \notin Commands \cup StartSteps \cup FinalizeSteps
      BY DEF Commands, StartSteps, FinalizeSteps
    <3> QED BY <1>6, <2>1, <2>2, <2>3, <3>1 DEF IInv, Locks, locks
  <2>5. Len(ledger) \in 0..MaxLedger
    BY TransactionConstants DEF IInv, TypeOK
  <2>6. TypeOK'
    BY <1>1, <1>3, <1>6, <2>3, <2>5 DEF IInv, TypeOK, locks
  <2>7. ASSUME NEW q \in Operators PROVE Fits(pc[q])'
    <3>1. pc'[q] \in Commands \cup {"idle"}
      BY <2>1, <2>3
    <3>2. pc'[q] \notin StartSteps \cup UndoStartSteps \cup FinalizeSteps
                          \cup RecoverFinalizeSteps \cup IntentSteps
      BY <3>1 DEF Commands, StartSteps, UndoStartSteps, FinalizeSteps, RecoverFinalizeSteps,
                  IntentSteps
    <3>3. {"AutopilotWritten", "gateMode", "GateModeWritten", "activate"} \subseteq IntentSteps
      BY DEF IntentSteps
    <3> QED BY <3>2, <3>3 DEF Fits
  <2> QED BY <1>1, <1>2, <2>4, <2>6, <2>7 DEF IInv
<1> QED BY <1>5, <1>6 DEF Reconciled

-----------------------------------------------------------------------------
\* Recovery, one lemma per step that writes more than an artifact.

LEMMA RestoreStateIInv ==
  ASSUME IInv, NEW p \in Operators, RestoreState(p)
  PROVE  IInv'
<1>1. /\ Step(p, "reconcile", "restoreAutopilot")
      /\ runs' = journal.before
      /\ UNCHANGED <<journal, config, artifacts, ledger>>
      /\ journal.kind = "start"
  BY DEF RestoreState
<1>2. journal \in StartJournal /\ journal.before \in Seq(Run) /\ ActiveIn(journal.before) = {}
  BY <1>1, JournalTypes DEF IInv, StartJournal, JournalSound
<1>3. JournalSound' /\ Frozen'
  BY <1>1, <1>2 DEF IInv, JournalSound, Frozen
<1>4. Fits("restoreAutopilot")'
  BY <1>1, <1>2 DEF Fits, StartSteps, FinalizeSteps, RecoverFinalizeSteps, Commands, IntentSteps
<1>5. /\ "restoreAutopilot" \in Labels /\ "reconcile" \in Labels
      /\ "restoreAutopilot" \notin BodySteps
  BY DEF Labels, UndoStartSteps, BodySteps, StartSteps, FinalizeSteps, Commands
<1>6. journal' \in {NoJournal} \cup StartJournal \cup FinalizeJournal
      /\ config' \in Config /\ artifacts' \in Artifacts
  BY <1>1 DEF IInv, TypeOK
<1> QED BY <1>1, <1>2, <1>3, <1>4, <1>5, <1>6, StepIInv

\* A write to the configuration while no run is active.
LEMMA ConfigIInv ==
  ASSUME IInv, NEW p \in Operators, NEW from \in Labels, NEW to \in Labels,
         Step(p, from, to), from # "idle", to # "idle",
         to \in BodySteps => from \in BodySteps,
         UNCHANGED <<runs, journal, artifacts, ledger>>, config' \in Config,
         ActiveIn(runs) = {}, journal.kind = "start", Fits(to)'
  PROVE  IInv'
<1>1. JournalSound' /\ Frozen'
  BY DEF IInv, JournalSound, Frozen
<1>2. /\ runs' \in Seq(Run) /\ ActiveIn(runs') \subseteq {Len(runs')}
      /\ journal' \in {NoJournal} \cup StartJournal \cup FinalizeJournal
      /\ artifacts' \in Artifacts
  BY DEF IInv, TypeOK
<1> QED BY <1>1, <1>2, StepIInv

LEMMA RestoreConfigIInv ==
  ASSUME IInv, NEW p \in Operators, RestoreAutopilot(p) \/ RestoreGateMode(p)
  PROVE  IInv'
<1>1. /\ pc[p] \in UndoStartSteps
      /\ journal.kind = "start" /\ ActiveIn(runs) = {}
      /\ UNCHANGED <<runs, journal, artifacts, ledger>>
  BY DEF RestoreAutopilot, RestoreGateMode, Step, UndoStartSteps, IInv, Fits
<1>2. journal.prior \in Config /\ config \in Config
  BY <1>1, JournalTypes DEF IInv, StartJournal, TypeOK
<1>3. config' \in Config
  BY <1>2 DEF RestoreAutopilot, RestoreGateMode, Config
<1>4. /\ {"restoreAutopilot", "restoreGateMode", "removeBackup"} \subseteq Labels \ BodySteps
      /\ "idle" \notin {"restoreAutopilot", "restoreGateMode", "removeBackup"}
  BY DEF Labels, UndoStartSteps, BodySteps, StartSteps, FinalizeSteps, Commands
<1>5. Fits("restoreGateMode")' /\ Fits("removeBackup")'
  BY <1>1 DEF Fits, StartSteps, FinalizeSteps, RecoverFinalizeSteps, Commands, IntentSteps
<1>6. CASE RestoreAutopilot(p)
  BY <1>1, <1>3, <1>4, <1>5, <1>6, ConfigIInv DEF RestoreAutopilot
<1>7. CASE RestoreGateMode(p)
  BY <1>1, <1>3, <1>4, <1>5, <1>7, ConfigIInv DEF RestoreGateMode
<1> QED BY <1>6, <1>7

\* RecoverState and RestoreOriginal: the state file becomes the archived or the
\* original state of the finalize journal.
LEMMA FinalizeStateIInv ==
  ASSUME IInv, NEW p \in Operators, NEW from \in Labels, NEW to \in Labels,
         Step(p, from, to), from # "idle", to # "idle",
         to \in BodySteps => from \in BodySteps,
         journal.kind = "finalize",
         \/ runs' = journal.before
         \/ \E exported \in BOOLEAN : runs' = Archive(journal.before, exported),
         UNCHANGED <<journal, config, artifacts, ledger>>,
         to \in FinalizeSteps \cup RecoverFinalizeSteps \cup {"clearRollback"}
  PROVE  IInv'
<1>1. journal \in FinalizeJournal /\ journal.before \in Seq(Run)
      /\ ActiveIn(journal.before) = {Len(journal.before)}
  BY JournalTypes DEF IInv, FinalizeJournal, JournalSound
<1>2. runs' \in Seq(Run) /\ ActiveIn(runs') \subseteq {Len(runs')}
  BY <1>1, ArchiveRetires
<1>3. JournalSound'
  BY <1>1 DEF JournalSound
<1>4. Frozen'
  BY DEF IInv, Frozen, ConfigIsShadow
<1>5. Fits(to)'
  BY DEF Fits, StartSteps, UndoStartSteps, FinalizeSteps, RecoverFinalizeSteps, Commands,
         IntentSteps
<1>6. /\ journal' \in {NoJournal} \cup StartJournal \cup FinalizeJournal
      /\ config' \in Config /\ artifacts' \in Artifacts
  BY DEF IInv, TypeOK
<1> QED BY <1>2, <1>3, <1>4, <1>5, <1>6, StepIInv

\* The steps of recovery that only touch artifacts.
RecoveryArtifacts(p) ==
    \/ RemoveBackup(p) \/ RemoveBundle(p)
    \/ RecoverPublished(p) \/ RecoverRename(p) \/ DropStaging(p)
    \/ DiscardStaging(p) \/ DiscardOut(p) \/ DiscardExport(p)

LEMMA RecoveryArtifactsIInv ==
  ASSUME IInv, NEW p \in Operators, RecoveryArtifacts(p)
  PROVE  IInv'
<1>a. Absent \in Evidence /\ artifacts \in Artifacts
  BY TransactionConstants DEF Absent, Evidence, IInv, TypeOK
<1>1. ASSUME NEW from \in {"removeBackup", "removeBundle"},
             NEW to \in {"removeBundle", "clearRollback"},
             Step(p, from, to), UNCHANGED <<runs, journal, config, ledger>>,
             artifacts' \in Artifacts
      PROVE  IInv'
  <2>1. /\ from \in Labels \ BodySteps /\ to \in Labels \ BodySteps
        /\ from # "idle" /\ to # "idle"
    BY DEF Labels, UndoStartSteps, BodySteps, StartSteps, FinalizeSteps, Commands
  <2>2. Fits(from)
    BY <1>1 DEF IInv, Step
  <2>3. Fits(to)
    BY <2>2 DEF Fits, StartSteps, UndoStartSteps, FinalizeSteps, RecoverFinalizeSteps, Commands,
                IntentSteps
  <2> QED BY <1>1, <2>1, <2>3, ArtifactIInv
<1>2. ASSUME NEW from \in {"reconcile", "dropStaging", "discardOut", "discardExport"},
             NEW to \in RecoverFinalizeSteps,
             Step(p, from, to), UNCHANGED <<runs, journal, config, ledger>>,
             journal.kind = "finalize", artifacts' \in Artifacts
      PROVE  IInv'
  <2>1. /\ from \in Labels \ BodySteps /\ to \in Labels \ BodySteps
        /\ from # "idle" /\ to # "idle"
    BY DEF Labels, RecoverFinalizeSteps, BodySteps, StartSteps, FinalizeSteps, Commands
  <2>2. Fits(to)
    BY <1>2 DEF Fits, StartSteps, UndoStartSteps, FinalizeSteps, RecoverFinalizeSteps, Commands,
                IntentSteps
  <2> QED BY <1>2, <2>1, <2>2, ArtifactIInv
<1>5. {"recoverState", "dropStaging", "clearFinalized", "discardOut", "discardExport",
       "restoreOriginal"} \subseteq RecoverFinalizeSteps
  BY DEF RecoverFinalizeSteps
<1>7. CASE RemoveBackup(p)
  <2>1. Step(p, "removeBackup", "removeBundle") /\ journal.kind = "start"
    BY <1>7 DEF RemoveBackup, IInv, Fits, Step, UndoStartSteps
  <2>2. journal.run \in RunIds
    BY <2>1, JournalTypes DEF IInv, StartJournal
  <2>3. artifacts' \in Artifacts
    BY <1>7, <1>a, <2>2 DEF RemoveBackup, Artifacts
  <2> QED BY <1>7, <1>1, <2>1, <2>3 DEF RemoveBackup
<1>8. CASE RemoveBundle(p)
  <2>1. Step(p, "removeBundle", "clearRollback") /\ journal.kind = "start"
    BY <1>8 DEF RemoveBundle, IInv, Fits, Step, UndoStartSteps
  <2>2. journal.run \in RunIds
    BY <2>1, JournalTypes DEF IInv, StartJournal
  <2>3. artifacts' \in Artifacts
    BY <1>8, <1>a, <2>2 DEF RemoveBundle, Artifacts
  <2> QED BY <1>8, <1>1, <2>1, <2>3 DEF RemoveBundle
<1>9. CASE RecoverPublished(p) \/ RecoverRename(p) \/ DiscardStaging(p)
  <2>1. journal.kind = "finalize" /\ journal.out \in Outs
    BY <1>9, JournalTypes DEF RecoverPublished, RecoverRename, DiscardStaging, IInv, FinalizeJournal
  <2>2. artifacts' \in Artifacts
    <3>1. CASE RecoverPublished(p)
      BY <3>1, <1>a DEF RecoverPublished, disk
    <3>2. CASE RecoverRename(p)
      BY <3>2, <1>a, <2>1, PublishTypes DEF RecoverRename
    <3>3. CASE DiscardStaging(p)
      BY <3>3, <1>a DEF DiscardStaging, Artifacts
    <3> QED BY <1>9, <3>1, <3>2, <3>3
  <2>3. /\ UNCHANGED <<runs, journal, config, ledger>>
        /\ Step(p, "reconcile", "recoverState") \/ Step(p, "reconcile", "discardOut")
    <3>1. CASE RecoverPublished(p)
      BY <3>1 DEF RecoverPublished, disk
    <3>2. CASE RecoverRename(p)
      BY <3>2 DEF RecoverRename
    <3>3. CASE DiscardStaging(p)
      BY <3>3 DEF DiscardStaging
    <3> QED BY <1>9, <3>1, <3>2, <3>3
  <2> QED BY <1>2, <1>5, <2>1, <2>2, <2>3
<1>10. CASE DropStaging(p) \/ DiscardOut(p) \/ DiscardExport(p)
  <2>1. journal.kind = "finalize"
    BY <1>10, <1>5 DEF DropStaging, DiscardOut, DiscardExport, IInv, Fits, Step
  <2>2. journal.run \in RunIds /\ journal.out \in Outs
    BY <2>1, JournalTypes DEF IInv, FinalizeJournal
  <2>3. artifacts' \in Artifacts
    BY <1>10, <1>a, <2>2 DEF DropStaging, DiscardOut, DiscardExport, Artifacts
  <2> QED BY <1>10, <1>2, <1>5, <2>1, <2>3 DEF DropStaging, DiscardOut, DiscardExport
<1> QED BY <1>7, <1>8, <1>9, <1>10 DEF RecoveryArtifacts

LEMMA ReconcileIInv ==
  ASSUME IInv, NEW p \in Operators, Reconcile(p)
  PROVE  IInv'
<1>1. CASE ReconcileNothing(p) \/ ReconcileStartActivated(p) \/ ClearRollback(p)
           \/ ClearFinalized(p)
  BY <1>1, ReconciledIInv
     DEF ReconcileNothing, ReconcileStartActivated, ClearRollback, ClearFinalized, disk
<1>2. CASE RestoreState(p)
  BY <1>2, RestoreStateIInv
<1>3. CASE RestoreAutopilot(p) \/ RestoreGateMode(p)
  BY <1>3, RestoreConfigIInv
<1>4. CASE RecoverState(p) \/ RestoreOriginal(p)
  <2>1. pc[p] \in RecoverFinalizeSteps /\ journal.kind = "finalize"
    BY <1>4 DEF RecoverState, RestoreOriginal, Step, RecoverFinalizeSteps, IInv, Fits
  <2>2. /\ {"recoverState", "restoreOriginal", "dropStaging", "clearRollback"}
                \subseteq Labels \ BodySteps
        /\ "idle" \notin {"recoverState", "restoreOriginal", "dropStaging", "clearRollback"}
        /\ "dropStaging" \in RecoverFinalizeSteps
    BY DEF Labels, RecoverFinalizeSteps, BodySteps, StartSteps, FinalizeSteps, Commands
  <2>3. CASE RecoverState(p)
    BY <2>1, <2>2, <2>3, FinalizeStateIInv DEF RecoverState
  <2>4. CASE RestoreOriginal(p)
    BY <2>1, <2>2, <2>4, FinalizeStateIInv DEF RestoreOriginal
  <2> QED BY <1>4, <2>3, <2>4
<1>5. CASE RecoveryArtifacts(p)
  BY <1>5, RecoveryArtifactsIInv
<1> QED BY <1>1, <1>2, <1>3, <1>4, <1>5 DEF Reconcile, RecoveryArtifacts

-----------------------------------------------------------------------------
\* start, the steps that write more than an artifact

LEMMA JournalStartIInv ==
  ASSUME IInv, NEW p \in Operators, NEW r \in RunIds, JournalStart(p, r)
  PROVE  IInv'
<1>1. /\ ActiveIn(runs) = {}
      /\ Step(p, "start", "backup")
      /\ journal' = [kind |-> "start", phase |-> "Prepared", run |-> r, before |-> runs,
                     prior |-> config, from |-> 0]
      /\ UNCHANGED <<runs, config, artifacts, ledger>>
  BY DEF JournalStart
<1>2. /\ runs \in Seq(Run) /\ config \in Config /\ artifacts \in Artifacts
  BY DEF IInv, TypeOK
<1>3. journal' \in StartJournal
  BY <1>1, <1>2, TransactionConstants DEF StartJournal, StartPhases
<1>4. JournalSound' /\ Frozen'
  BY <1>1 DEF JournalSound, Frozen
<1>5. Fits("backup")'
  BY <1>1 DEF Fits, StartSteps, FinalizeSteps, RecoverFinalizeSteps, Commands, IntentSteps
<1>6. "start" \in Labels \cap BodySteps /\ "backup" \in Labels
  BY DEF Labels, BodySteps, Commands, StartSteps
<1> QED BY <1>1, <1>2, <1>3, <1>4, <1>5, <1>6, StepIInv

\* The next phase of a start journal.
LEMMA StartPhaseIInv ==
  ASSUME IInv, NEW p \in Operators, NEW from \in StartSteps, NEW phase \in StartPhases,
         NEW to \in StartSteps, Step(p, from, to),
         NEW n \in 0..MaxLedger,
         journal' = [journal EXCEPT !.phase = phase, !.from = n],
         UNCHANGED <<runs, config, artifacts, ledger>>,
         to # "clearStart", from # "clearStart",
         to \in IntentSteps => phase \in IntentPhases,
         to \in {"AutopilotWritten", "gateMode", "GateModeWritten", "activate"} =>
             config.autopilot = "shadow",
         to \in {"GateModeWritten", "activate"} => config.gateMode = "shadow"
  PROVE  IInv'
<1>1. journal.kind = "start" /\ ActiveIn(runs) = {}
  BY DEF IInv, Fits, Step
<1>2. journal \in StartJournal
  BY <1>1, JournalTypes DEF IInv
<1>3. /\ journal' \in StartJournal /\ journal'.kind = "start" /\ journal'.before = journal.before
      /\ journal'.phase = phase
  BY <1>2 DEF StartJournal
<1>4. JournalSound' /\ Frozen'
  BY <1>1, <1>3 DEF IInv, JournalSound, Frozen
<1>5. Fits(to)'
  <2>1. to \notin FinalizeSteps \cup RecoverFinalizeSteps \cup Commands \cup UndoStartSteps
    BY DEF StartSteps, FinalizeSteps, RecoverFinalizeSteps, Commands, UndoStartSteps
  <2> QED BY <1>1, <1>3, <2>1 DEF Fits
<1>6. from \in Labels \cap BodySteps /\ to \in Labels /\ from # "idle" /\ to # "idle"
  BY DEF Labels, BodySteps, StartSteps
<1>7. /\ runs' \in Seq(Run) /\ ActiveIn(runs') \subseteq {Len(runs')}
      /\ config' \in Config /\ artifacts' \in Artifacts
  BY DEF IInv, TypeOK
<1> QED BY <1>3, <1>4, <1>5, <1>6, <1>7, StepIInv

LEMMA WriteConfigIInv ==
  ASSUME IInv, NEW p \in Operators, WriteAutopilot(p) \/ WriteGateMode(p)
  PROVE  IInv'
<1>1. pc[p] \in {"autopilot", "gateMode"}
  BY DEF WriteAutopilot, WriteGateMode, Step
<1>2. /\ journal.kind = "start" /\ ActiveIn(runs) = {} /\ journal.phase \in IntentPhases
      /\ pc[p] = "gateMode" => config.autopilot = "shadow"
  BY <1>1 DEF IInv, Fits, StartSteps, IntentSteps
<1>3. config \in Config /\ config' \in Config
  BY TransactionConstants DEF IInv, TypeOK, WriteAutopilot, WriteGateMode, Config, FileContents
<1>4. /\ {"autopilot", "AutopilotWritten", "gateMode", "GateModeWritten"}
              \subseteq Labels \cap BodySteps
      /\ "idle" \notin {"autopilot", "AutopilotWritten", "gateMode", "GateModeWritten"}
  BY DEF Labels, BodySteps, StartSteps
<1>5. CASE WriteAutopilot(p)
  <2>1. config'.autopilot = "shadow" /\ UNCHANGED <<runs, journal, artifacts, ledger>>
    BY <1>3, <1>5 DEF WriteAutopilot, Config
  <2>2. Fits("AutopilotWritten")'
    BY <1>2, <2>1 DEF Fits, FinalizeSteps, RecoverFinalizeSteps, Commands, StartSteps
  <2> QED BY <1>2, <1>3, <1>4, <1>5, <2>1, <2>2, ConfigIInv DEF WriteAutopilot
<1>6. CASE WriteGateMode(p)
  <2>1. /\ config'.autopilot = "shadow" /\ config'.gateMode = "shadow"
        /\ UNCHANGED <<runs, journal, artifacts, ledger>>
    BY <1>2, <1>3, <1>6 DEF WriteGateMode, Config, Step
  <2>2. Fits("GateModeWritten")'
    BY <1>2, <2>1 DEF Fits, FinalizeSteps, RecoverFinalizeSteps, Commands, StartSteps
  <2> QED BY <1>2, <1>3, <1>4, <1>6, <2>1, <2>2, ConfigIInv DEF WriteGateMode
<1> QED BY <1>5, <1>6

\* The run becomes active at the write of the state file, under its frozen configuration.
LEMMA ActivateIInv ==
  ASSUME IInv, NEW p \in Operators, Activate(p)
  PROVE  IInv'
<1> DEFINE new == [id |-> journal.run, status |-> "active", from |-> journal.from,
                   exported |-> FALSE]
<1>1. /\ Step(p, "activate", "clearStart")
      /\ runs' = Append(journal.before, new)
      /\ UNCHANGED <<journal, config, artifacts, ledger>>
  BY DEF Activate
<1>2. /\ journal.kind = "start" /\ journal.phase \in IntentPhases
      /\ config.autopilot = "shadow" /\ config.gateMode = "shadow"
  BY <1>1 DEF IInv, Fits, Step, StartSteps, IntentSteps
<1>3. journal \in StartJournal /\ journal.before \in Seq(Run) /\ ActiveIn(journal.before) = {}
  BY <1>2, JournalTypes DEF IInv, StartJournal, JournalSound
<1>4. new \in Run /\ new.status = "active" /\ new.id = journal.run
  BY <1>3 DEF Run, Statuses, StartJournal
<1> HIDE DEF new
<1>5. /\ runs' \in Seq(Run)
      /\ ActiveIn(runs') = {Len(runs')}
      /\ ActiveId(runs') = journal.run
  BY <1>1, <1>3, <1>4, AppendActive
<1>6. JournalSound'
  BY <1>1, <1>2, <1>3, <1>5 DEF JournalSound
<1>7. Frozen'
  BY <1>1, <1>2 DEF Frozen, ConfigIsShadow, EffectiveMode
<1>8. Fits("clearStart")'
  BY <1>1, <1>2 DEF Fits, FinalizeSteps, RecoverFinalizeSteps, Commands, UndoStartSteps
<1>9. /\ {"activate", "clearStart"} \subseteq Labels \cap BodySteps
      /\ "idle" \notin {"activate", "clearStart"}
  BY DEF Labels, BodySteps, StartSteps
<1>10. /\ journal' \in {NoJournal} \cup StartJournal \cup FinalizeJournal
       /\ config' \in Config /\ artifacts' \in Artifacts
  BY <1>1 DEF IInv, TypeOK
<1> QED BY <1>1, <1>5, <1>6, <1>7, <1>8, <1>9, <1>10, StepIInv

LEMMA ClearJournalIInv ==
  ASSUME IInv, NEW p \in Operators, NEW from \in StartSteps \cup FinalizeSteps,
         ClearJournal(p, from)
  PROVE  IInv'
<1>1. pc[p] # "idle" /\ Exit(p) /\ journal' = NoJournal /\ UNCHANGED <<runs, config, artifacts, ledger>>
  BY DEF ClearJournal, StartSteps, FinalizeSteps
<1>2. JournalSound' /\ Frozen'
  BY <1>1 DEF IInv, JournalSound, NoJournal, Frozen, ConfigIsShadow
<1>3. /\ runs' \in Seq(Run) /\ ActiveIn(runs') \subseteq {Len(runs')}
      /\ config' \in Config /\ artifacts' \in Artifacts
      /\ ledger' \in Seq(Event) /\ Len(ledger') <= MaxLedger
  BY <1>1 DEF IInv, TypeOK
<1> QED BY <1>1, <1>2, <1>3, ExitIInv

\* The next phase of the start journal, without and with the intended run.
LEMMA JournalPhaseStart ==
  ASSUME IInv, NEW p \in Operators, NEW from \in StartSteps \ {"clearStart"},
         NEW phase \in StartPhases, NEW to \in StartSteps \ {"clearStart"},
         JournalPhase(p, from, phase, to),
         to \in IntentSteps => phase \in IntentPhases,
         to \in {"AutopilotWritten", "gateMode", "GateModeWritten", "activate"} =>
             config.autopilot = "shadow",
         to \in {"GateModeWritten", "activate"} => config.gateMode = "shadow"
  PROVE  IInv'
<1>1. /\ Step(p, from, to) /\ UNCHANGED <<runs, config, artifacts, ledger>>
      /\ journal' = [journal EXCEPT !.phase = phase]
  BY DEF JournalPhase
<1>2. journal \in StartJournal
  BY <1>1, JournalTypes DEF IInv, Fits, Step
<1>3. journal.from \in 0..MaxLedger
  BY <1>2 DEF StartJournal
<1>4. journal' = [journal EXCEPT !.phase = phase, !.from = journal.from]
  BY <1>1, <1>2 DEF StartJournal
<1> QED BY <1>1, <1>3, <1>4, StartPhaseIInv

LEMMA StartPhasesIInv ==
  ASSUME IInv, NEW p \in Operators,
         \/ JournalPhase(p, "BackupCreated", "BackupCreated", "directory")
         \/ JournalPhase(p, "QualificationDirectoryPrepared",
                         "QualificationDirectoryPrepared", "bundle")
         \/ JournalPhase(p, "QualificationBundleCopied", "QualificationBundleCopied",
                         "IntentRecorded")
         \/ JournalIntent(p)
         \/ JournalPhase(p, "AutopilotWritten", "AutopilotWritten", "gateMode")
         \/ JournalPhase(p, "GateModeWritten", "GateModeWritten", "activate")
  PROVE  IInv'
<1>1. /\ {"BackupCreated", "QualificationDirectoryPrepared", "QualificationBundleCopied",
          "IntentRecorded", "AutopilotWritten", "GateModeWritten"} \subseteq StartPhases
      /\ {"BackupCreated", "QualificationDirectoryPrepared", "QualificationBundleCopied",
          "IntentRecorded", "AutopilotWritten", "GateModeWritten", "directory", "bundle",
          "autopilot", "gateMode", "activate"} \subseteq StartSteps \ {"clearStart"}
      /\ {"directory", "bundle", "IntentRecorded"} \cap IntentSteps = {}
      /\ {"IntentRecorded", "AutopilotWritten", "GateModeWritten"} \subseteq IntentPhases
  BY DEF StartPhases, OwnsBundlePhases, IntentPhases, StartSteps, IntentSteps
<1>2. CASE JournalPhase(p, "BackupCreated", "BackupCreated", "directory")
  BY <1>1, <1>2, JournalPhaseStart
<1>3. CASE JournalPhase(p, "QualificationDirectoryPrepared",
                        "QualificationDirectoryPrepared", "bundle")
  BY <1>1, <1>3, JournalPhaseStart
<1>4. CASE JournalPhase(p, "QualificationBundleCopied", "QualificationBundleCopied",
                        "IntentRecorded")
  BY <1>1, <1>4, JournalPhaseStart
<1>5. CASE JournalIntent(p)
  <2>1. readLen[p] \in 0..MaxLedger
    BY DEF IInv, TypeOK
  <2>2. /\ Step(p, "IntentRecorded", "autopilot")
        /\ journal' = [journal EXCEPT !.phase = "IntentRecorded", !.from = readLen[p]]
        /\ UNCHANGED <<runs, config, artifacts, ledger>>
    BY <1>5 DEF JournalIntent
  <2> DEFINE n == readLen[p]
  <2> HIDE DEF n
  <2>3. n \in 0..MaxLedger
        /\ journal' = [journal EXCEPT !.phase = "IntentRecorded", !.from = n]
    BY <2>1, <2>2 DEF n
  <2>4. /\ "IntentRecorded" \in StartSteps /\ "autopilot" \in StartSteps
        /\ "IntentRecorded" \in StartPhases \cap IntentPhases
    BY <1>1
  <2>5. /\ "IntentRecorded" # "clearStart" /\ "autopilot" # "clearStart"
        /\ "autopilot" \notin {"AutopilotWritten", "gateMode", "GateModeWritten", "activate"}
        /\ "autopilot" \notin {"GateModeWritten", "activate"}
    OBVIOUS
  <2> QED BY <2>2, <2>3, <2>4, <2>5, StartPhaseIInv
<1>6. CASE JournalPhase(p, "AutopilotWritten", "AutopilotWritten", "gateMode")
  <2>1. config.autopilot = "shadow"
    BY <1>6 DEF JournalPhase, Step, IInv, Fits
  <2> QED BY <1>1, <1>6, <2>1, JournalPhaseStart
<1>7. CASE JournalPhase(p, "GateModeWritten", "GateModeWritten", "activate")
  <2>1. config.autopilot = "shadow" /\ config.gateMode = "shadow"
    BY <1>7 DEF JournalPhase, Step, IInv, Fits
  <2> QED BY <1>1, <1>7, <2>1, JournalPhaseStart
<1> QED BY <1>2, <1>3, <1>4, <1>5, <1>6, <1>7

LEMMA StartArtifactsIInv ==
  ASSUME IInv, NEW p \in Operators, ExportBackup(p) \/ ReserveDirectory(p) \/ CopyBundle(p)
  PROVE  IInv'
<1>1. pc[p] \in {"backup", "directory", "bundle"}
  BY DEF ExportBackup, ReserveDirectory, CopyBundle, Step
<1>2. journal.kind = "start" /\ ActiveIn(runs) = {}
  BY <1>1 DEF IInv, Fits, StartSteps
<1>3. artifacts \in Artifacts /\ journal.run \in RunIds
  BY <1>2, JournalTypes DEF IInv, TypeOK, StartJournal
<1>4. artifacts' \in Artifacts
  <2>1. CASE ExportBackup(p)
    BY <1>3, <2>1 DEF ExportBackup, Artifacts
  <2>2. CASE ReserveDirectory(p)
    BY <1>3, <2>2 DEF ReserveDirectory, Artifacts
  <2>3. CASE CopyBundle(p)
    BY <1>3, <2>3 DEF CopyBundle, Artifacts
  <2> QED BY <2>1, <2>2, <2>3
<1>5. /\ {"backup", "BackupCreated", "directory", "QualificationDirectoryPrepared", "bundle",
          "QualificationBundleCopied"} \subseteq Labels \cap BodySteps
      /\ "idle" \notin {"backup", "BackupCreated", "directory",
                        "QualificationDirectoryPrepared", "bundle", "QualificationBundleCopied"}
  BY DEF Labels, BodySteps, StartSteps
<1>6. \A to \in {"BackupCreated", "QualificationDirectoryPrepared",
                 "QualificationBundleCopied"} : Fits(to)
  BY <1>2 DEF Fits, FinalizeSteps, RecoverFinalizeSteps, Commands, IntentSteps
<1>7. CASE ExportBackup(p)
  BY <1>4, <1>5, <1>6, <1>7, ArtifactIInv DEF ExportBackup
<1>8. CASE ReserveDirectory(p)
  BY <1>4, <1>5, <1>6, <1>8, ArtifactIInv DEF ReserveDirectory
<1>9. CASE CopyBundle(p)
  BY <1>4, <1>5, <1>6, <1>9, ArtifactIInv DEF CopyBundle
<1> QED BY <1>7, <1>8, <1>9

LEMMA StartCommandIInv ==
  ASSUME IInv, NEW p \in Operators, StartCommand(p)
  PROVE  IInv'
<1>1. "clearStart" \in StartSteps
  BY DEF StartSteps
<1>2. CASE \E r \in RunIds : JournalStart(p, r)
  BY <1>2, JournalStartIInv
<1>3. CASE ExportBackup(p) \/ ReserveDirectory(p) \/ CopyBundle(p)
  BY <1>3, StartArtifactsIInv
<1>4. CASE WriteAutopilot(p) \/ WriteGateMode(p)
  BY <1>4, WriteConfigIInv
<1>5. CASE Activate(p)
  BY <1>5, ActivateIInv
<1>6. CASE ClearJournal(p, "clearStart")
  BY <1>1, <1>6, ClearJournalIInv
<1> QED BY <1>2, <1>3, <1>4, <1>5, <1>6, StartPhasesIInv DEF StartCommand

-----------------------------------------------------------------------------
\* finalize

LEMMA JournalFinalizeIInv ==
  ASSUME IInv, NEW p \in Operators, NEW o \in Outs, JournalFinalize(p, o)
  PROVE  IInv'
<1>1. /\ ActiveIn(runs) # {}
      /\ Step(p, "finalize", "archive")
      /\ journal' = [kind |-> "finalize", phase |-> "Prepared", run |-> ActiveId(runs),
                     before |-> runs, out |-> o]
      /\ UNCHANGED <<runs, config, artifacts, ledger>>
  BY DEF JournalFinalize
<1>2. /\ runs \in Seq(Run) /\ config \in Config /\ artifacts \in Artifacts
      /\ ActiveIn(runs) = {Len(runs)}
  BY <1>1 DEF IInv, TypeOK
<1>3. journal' \in FinalizeJournal
  BY <1>1, <1>2, ActiveIdType DEF FinalizeJournal, FinalizePhases
<1>4. JournalSound' /\ Frozen'
  BY <1>1, <1>2 DEF JournalSound, Frozen, IInv, ConfigIsShadow
<1>5. Fits("archive")'
  BY <1>1 DEF Fits, StartSteps, UndoStartSteps, Commands, IntentSteps
<1>6. "finalize" \in Labels \cap BodySteps /\ "archive" \in Labels
  BY DEF Labels, BodySteps, Commands, FinalizeSteps
<1> QED BY <1>1, <1>2, <1>3, <1>4, <1>5, <1>6, StepIInv

\* The next phase of the finalize journal.
LEMMA FinalizePhaseIInv ==
  ASSUME IInv, NEW p \in Operators, NEW from \in FinalizeSteps, NEW phase \in FinalizePhases,
         NEW to \in FinalizeSteps, JournalPhase(p, from, phase, to)
  PROVE  IInv'
<1>1. /\ Step(p, from, to) /\ UNCHANGED <<runs, config, artifacts, ledger>>
      /\ journal' = [journal EXCEPT !.phase = phase]
  BY DEF JournalPhase
<1>2. journal.kind = "finalize" /\ journal \in FinalizeJournal
  BY <1>1, JournalTypes DEF IInv, Fits, Step
<1>3. /\ journal' \in FinalizeJournal /\ journal'.kind = "finalize"
      /\ journal'.before = journal.before
  BY <1>1, <1>2 DEF FinalizeJournal
<1>4. JournalSound' /\ Frozen'
  BY <1>1, <1>2, <1>3 DEF IInv, JournalSound, Frozen, ConfigIsShadow
<1>5. Fits(to)'
  <2>1. to \notin StartSteps \cup UndoStartSteps \cup Commands \cup IntentSteps
    BY DEF StartSteps, UndoStartSteps, Commands, FinalizeSteps, IntentSteps
  <2>2. {"AutopilotWritten", "gateMode", "GateModeWritten", "activate"} \subseteq IntentSteps
    BY DEF IntentSteps
  <2> QED BY <1>3, <2>1, <2>2 DEF Fits
<1>6. from \in Labels \cap BodySteps /\ to \in Labels /\ from # "idle" /\ to # "idle"
  BY DEF Labels, BodySteps, FinalizeSteps
<1>7. /\ runs' \in Seq(Run) /\ ActiveIn(runs') \subseteq {Len(runs')}
      /\ config' \in Config /\ artifacts' \in Artifacts
  BY <1>1 DEF IInv, TypeOK
<1> QED BY <1>1, <1>3, <1>4, <1>5, <1>6, <1>7, StepIInv

LEMMA FinalizeArtifactsIInv ==
  ASSUME IInv, NEW p \in Operators, NEW from \in FinalizeSteps, NEW to \in FinalizeSteps,
         Step(p, from, to), UNCHANGED <<runs, journal, config, ledger>>,
         \/ CreateStaging(p) \/ ExportFinal(p) \/ RenameEvidence(p)
         \/ \E file \in EvidenceFiles : WriteEvidence(p, from, file, to)
  PROVE  IInv'
<1>1. journal.kind = "finalize" /\ journal \in FinalizeJournal
  BY JournalTypes DEF IInv, Fits, Step
<1>2. /\ artifacts \in Artifacts /\ Absent \in Evidence
      /\ journal.run \in RunIds /\ journal.out \in Outs
      /\ artifacts.staging \in Evidence
  BY <1>1, TransactionConstants DEF IInv, TypeOK, FinalizeJournal, Absent, Evidence, Artifacts
<1>3. artifacts' \in Artifacts
  <2>1. CASE CreateStaging(p)
    <3>1. [run |-> journal.run, files |-> {}, covers |-> readLen[p]] \in Evidence
      BY <1>2 DEF Evidence, IInv, TypeOK
    <3> QED BY <1>2, <2>1, <3>1 DEF CreateStaging, Artifacts
  <2>2. CASE ExportFinal(p)
    BY <1>2, <2>2 DEF ExportFinal, Artifacts
  <2>3. CASE RenameEvidence(p)
    BY <1>2, <2>3, PublishTypes DEF RenameEvidence
  <2>4. ASSUME NEW file \in EvidenceFiles, WriteEvidence(p, from, file, to)
        PROVE  artifacts' \in Artifacts
    <3>1. artifacts' = [artifacts EXCEPT !.staging =
                            [artifacts.staging EXCEPT !.files = @ \cup {file}]]
      BY <2>4 DEF WriteEvidence, Artifacts
    <3>2. [artifacts.staging EXCEPT !.files = @ \cup {file}] \in Evidence
      BY <1>2 DEF Evidence
    <3> QED BY <1>2, <3>1, <3>2 DEF Artifacts
  <2> QED BY <2>1, <2>2, <2>3, <2>4
<1>4. from \in Labels \cap BodySteps /\ to \in Labels /\ from # "idle" /\ to # "idle"
  BY DEF Labels, BodySteps, FinalizeSteps
<1>5. Fits(to)
  BY <1>1 DEF Fits, StartSteps, UndoStartSteps, Commands, FinalizeSteps, IntentSteps
<1> QED BY <1>3, <1>4, <1>5, ArtifactIInv

LEMMA FinalizeCommandIInv ==
  ASSUME IInv, NEW p \in Operators, FinalizeCommand(p)
  PROVE  IInv'
<1>1. /\ FinalizeSteps \subseteq Labels \cap BodySteps
      /\ "idle" \notin FinalizeSteps
  BY DEF Labels, BodySteps, FinalizeSteps
<1>2. /\ {"archive", "ArchivedStateWritten", "staging", "StagingCreated", "export",
          "ExportWritten", "qualification", "FinalQualificationCopied", "json",
          "JsonReportWritten", "markdown", "MarkdownReportWritten", "ChecksumsWritten",
          "checksums", "rename", "EvidenceActivated", "finalState", "FinalStateWritten",
          "clearFinalize"} \subseteq FinalizeSteps
      /\ FinalizePhases \ {"Prepared", "QualificationBundleCopied"} \subseteq FinalizeSteps
      /\ "QualificationBundleCopied" \in FinalizePhases
      /\ {"ArchivedStateWritten", "StagingCreated", "ExportWritten", "JsonReportWritten",
          "MarkdownReportWritten", "ChecksumsWritten", "EvidenceActivated",
          "FinalStateWritten"} \subseteq FinalizePhases
      /\ {"qualification", "json", "markdown", "checksums"} \subseteq EvidenceFiles
  BY DEF FinalizeSteps, FinalizePhases, EvidenceFiles
<1>3. CASE \E o \in Outs : JournalFinalize(p, o)
  BY <1>3, JournalFinalizeIInv
<1>4. CASE ArchiveState(p)
  <2>1. Step(p, "archive", "ArchivedStateWritten") /\ journal.kind = "finalize"
    BY <1>2, <1>4 DEF ArchiveState, Step, IInv, Fits
  <2> QED BY <1>1, <1>2, <1>4, <2>1, FinalizeStateIInv DEF ArchiveState
<1>5. CASE WriteFinalState(p)
  <2>1. Step(p, "finalState", "FinalStateWritten") /\ journal.kind = "finalize"
    BY <1>2, <1>5 DEF WriteFinalState, Step, IInv, Fits
  <2> QED BY <1>1, <1>2, <1>5, <2>1, FinalizeStateIInv DEF WriteFinalState
<1>6. CASE CreateStaging(p)
  BY <1>2, <1>6, FinalizeArtifactsIInv DEF CreateStaging
<1>7. CASE ExportFinal(p)
  BY <1>2, <1>7, FinalizeArtifactsIInv DEF ExportFinal
<1>8. CASE RenameEvidence(p)
  BY <1>2, <1>8, FinalizeArtifactsIInv DEF RenameEvidence
<1>9. ASSUME NEW step \in FinalizeSteps, NEW file \in EvidenceFiles, NEW next \in FinalizeSteps,
             WriteEvidence(p, step, file, next)
      PROVE  IInv'
  BY <1>9, FinalizeArtifactsIInv DEF WriteEvidence
<1>10. CASE \/ WriteEvidence(p, "qualification", "qualification", "FinalQualificationCopied")
            \/ WriteEvidence(p, "json", "json", "JsonReportWritten")
            \/ WriteEvidence(p, "markdown", "markdown", "MarkdownReportWritten")
            \/ WriteEvidence(p, "checksums", "checksums", "rename")
  BY <1>2, <1>9, <1>10
<1>11. CASE ClearJournal(p, "clearFinalize")
  BY <1>2, <1>11, ClearJournalIInv
<1>12. CASE \/ JournalPhase(p, "ArchivedStateWritten", "ArchivedStateWritten", "staging")
            \/ JournalPhase(p, "StagingCreated", "StagingCreated", "export")
            \/ JournalPhase(p, "ExportWritten", "ExportWritten", "qualification")
            \/ JournalPhase(p, "FinalQualificationCopied", "QualificationBundleCopied", "json")
            \/ JournalPhase(p, "JsonReportWritten", "JsonReportWritten", "markdown")
  BY <1>2, <1>12, FinalizePhaseIInv
<1>13. CASE \/ JournalPhase(p, "MarkdownReportWritten", "MarkdownReportWritten",
                            "ChecksumsWritten")
            \/ JournalPhase(p, "ChecksumsWritten", "ChecksumsWritten", "checksums")
            \/ JournalPhase(p, "EvidenceActivated", "EvidenceActivated", "finalState")
            \/ JournalPhase(p, "FinalStateWritten", "FinalStateWritten", "clearFinalize")
  BY <1>2, <1>13, FinalizePhaseIInv
<1> QED BY <1>3, <1>4, <1>5, <1>6, <1>7, <1>8, <1>10, <1>11, <1>12, <1>13 DEF FinalizeCommand

-----------------------------------------------------------------------------
\* The other commands, and the control of an operator.

LEMMA AbortIInv ==
  ASSUME IInv, NEW p \in Operators, Abort(p)
  PROVE  IInv'
<1>1. /\ pc[p] = "abort" /\ Exit(p)
      /\ UNCHANGED <<journal, config, artifacts, ledger>>
  BY DEF Abort
<1>2. journal = NoJournal /\ runs \in Seq(Run) /\ ActiveIn(runs) \subseteq {Len(runs)}
  BY <1>1 DEF IInv, TypeOK, Fits, Commands
<1>3. PICK i \in ActiveIn(runs) : runs' = [runs EXCEPT ![i].status = "aborted"]
  BY DEF Abort
<1> DEFINE rec == [runs[i] EXCEPT !.status = "aborted"]
<1>4. i \in DOMAIN runs /\ runs[i] \in Run /\ ActiveIn(runs) \subseteq {i}
  BY <1>2, <1>3 DEF ActiveIn
<1>5. rec \in Run /\ rec.status # "active"
  BY <1>4 DEF Run, Statuses
<1>6. runs' = [runs EXCEPT ![i] = rec]
  BY <1>3
<1> HIDE DEF rec
<1>7. runs' \in Seq(Run) /\ ActiveIn(runs') = {}
  <2>1. /\ [runs EXCEPT ![i] = rec] \in Seq(Run)
        /\ ActiveIn([runs EXCEPT ![i] = rec]) = {}
    BY <1>2, <1>4, <1>5, RetireActive
  <2> QED BY <1>6, <2>1, Zenon
<1>8. JournalSound' /\ Frozen'
  BY <1>1, <1>2, <1>7 DEF JournalSound, NoJournal, Frozen
<1>9. /\ ActiveIn(runs') \subseteq {Len(runs')}
      /\ journal' \in {NoJournal} \cup StartJournal \cup FinalizeJournal
      /\ config' \in Config /\ artifacts' \in Artifacts
      /\ ledger' \in Seq(Event) /\ Len(ledger') <= MaxLedger
      /\ pc[p] # "idle"
  BY <1>1, <1>7 DEF IInv, TypeOK
<1> QED BY <1>1, <1>7, <1>8, <1>9, ExitIInv

\* An append of a well-typed event leaves a well-typed ledger.
LEMMA AppendLedger ==
  ASSUME TypeOK, Len(ledger) < MaxLedger, NEW e \in Event, ledger' = Append(ledger, e)
  PROVE  ledger' \in Seq(Event) /\ Len(ledger') <= MaxLedger
<1>1. ledger \in Seq(Event) /\ MaxLedger \in Nat
  BY TransactionConstants DEF TypeOK
<1>2. Len(Append(ledger, e)) = Len(ledger) + 1 /\ Append(ledger, e) \in Seq(Event)
  BY <1>1
<1>3. Len(ledger) + 1 <= MaxLedger
  BY <1>1
<1> QED BY <1>2, <1>3

\* status, a bail and a crash write nothing; a review appends to the ledger.
LEMMA QuietExitIInv ==
  ASSUME IInv, NEW p \in Operators, Status(p) \/ Bail(p) \/ Crash(p) \/ Review(p)
  PROVE  IInv'
<1>1. pc[p] # "idle" /\ Exit(p) /\ UNCHANGED <<runs, journal, config, artifacts>>
  BY DEF Status, Bail, Crash, Review, Commands, disk
<1>2. ledger' \in Seq(Event) /\ Len(ledger') <= MaxLedger
  <2>1. CASE UNCHANGED ledger
    BY <2>1 DEF IInv, TypeOK
  <2>2. CASE Review(p)
    <3>1. ActiveId(runs) \in RunIds
      BY <2>2, ActiveIdType DEF Review, IInv, TypeOK
    <3>2. [kind |-> "review", run |-> ActiveId(runs)] \in Event
      BY <3>1 DEF Event
    <3> QED BY <2>2, <3>2, AppendLedger DEF Review, IInv
  <2> QED BY <2>1, <2>2 DEF Status, Bail, Crash, disk
<1>3. JournalSound' /\ Frozen'
  BY <1>1 DEF IInv, JournalSound, Frozen, ConfigIsShadow
<1>4. /\ runs' \in Seq(Run) /\ ActiveIn(runs') \subseteq {Len(runs')}
      /\ journal' \in {NoJournal} \cup StartJournal \cup FinalizeJournal
      /\ config' \in Config /\ artifacts' \in Artifacts
  BY <1>1 DEF IInv, TypeOK
<1> QED BY <1>1, <1>2, <1>3, <1>4, ExitIInv

LEMMA BeginIInv ==
  ASSUME IInv, NEW p \in Operators, NEW c \in Commands, Begin(p, c)
  PROVE  IInv'
<1>1. /\ pc[p] = "idle" /\ maintenance = {} /\ ledgerLock = {}
      /\ maintenance' = {p} /\ ledgerLock' = {p}
      /\ pc' = [pc EXCEPT ![p] = "reconcile"]
      /\ cmd' = [cmd EXCEPT ![p] = c]
      /\ UNCHANGED <<runs, journal, config, artifacts, ledger, readLen, seen>>
  BY DEF Begin, disk
<1>2. /\ pc' \in [Operators -> Labels] /\ pc'[p] = "reconcile"
      /\ cmd' \in [Operators -> Commands \cup {"none", "recover"}] /\ cmd'[p] = c
      /\ \A q \in Operators : q # p => pc'[q] = pc[q]
  BY <1>1 DEF IInv, TypeOK, Labels
<1>3. \A q \in Operators : q # p => pc'[q] = "idle"
  BY <1>1, <1>2 DEF IInv, Locks
<1>4. /\ {"idle", "reconcile"} \cap (Commands \cup StartSteps \cup FinalizeSteps
                                     \cup UndoStartSteps \cup RecoverFinalizeSteps
                                     \cup IntentSteps) = {}
      /\ {"AutopilotWritten", "gateMode", "GateModeWritten", "activate"} \subseteq IntentSteps
  BY DEF Commands, StartSteps, FinalizeSteps, UndoStartSteps, RecoverFinalizeSteps, IntentSteps
<1>5. TypeOK'
  BY <1>1, <1>2 DEF IInv, TypeOK, ActiveIn
<1>6. Locks'
  BY <1>1, <1>2, <1>3, <1>4 DEF Locks
<1>7. JournalSound' /\ Frozen'
  BY <1>1 DEF IInv, JournalSound, Frozen, ConfigIsShadow
<1>8. \A q \in Operators : Fits(pc[q])'
  BY <1>2, <1>3, <1>4 DEF Fits
<1> QED BY <1>5, <1>6, <1>7, <1>8 DEF IInv

LEMMA FailIInv ==
  ASSUME IInv, NEW p \in Operators, Fail(p)
  PROVE  IInv'
<1>1. /\ pc[p] \in StartSteps \cup FinalizeSteps
      /\ pc' = [pc EXCEPT ![p] = "reconcile"]
      /\ cmd' = [cmd EXCEPT ![p] = "recover"]
      /\ ledgerLock' = IF pc[p] \in StartSteps THEN ledgerLock \ {p} ELSE ledgerLock
      /\ UNCHANGED <<runs, journal, config, artifacts, ledger, maintenance, readLen, seen>>
  BY DEF Fail, disk
<1>2. /\ pc' \in [Operators -> Labels] /\ pc'[p] = "reconcile"
      /\ cmd' \in [Operators -> Commands \cup {"none", "recover"}] /\ cmd'[p] = "recover"
      /\ \A q \in Operators : q # p => pc'[q] = pc[q]
  BY <1>1 DEF IInv, TypeOK, Labels
<1>3. /\ {"idle", "reconcile"} \cap (Commands \cup StartSteps \cup FinalizeSteps
                                     \cup UndoStartSteps \cup RecoverFinalizeSteps
                                     \cup IntentSteps) = {}
      /\ {"AutopilotWritten", "gateMode", "GateModeWritten", "activate"} \subseteq IntentSteps
  BY DEF Commands, StartSteps, FinalizeSteps, UndoStartSteps, RecoverFinalizeSteps, IntentSteps
<1>4. pc[p] # "idle"
  BY <1>1, <1>3
<1>5. maintenance = {p} /\ \A q \in Operators : q # p => pc'[q] = "idle"
  BY <1>2, <1>4, OthersIdle DEF IInv
<1>6. TypeOK'
  BY <1>1, <1>2 DEF IInv, TypeOK, ActiveIn
<1>7. Locks'
  BY <1>1, <1>2, <1>3, <1>5 DEF IInv, Locks
<1>8. JournalSound' /\ Frozen'
  BY <1>1 DEF IInv, JournalSound, Frozen, ConfigIsShadow
<1>9. \A q \in Operators : Fits(pc[q])'
  BY <1>2, <1>3, <1>5 DEF Fits
<1> QED BY <1>6, <1>7, <1>8, <1>9 DEF IInv

LEMMA OperatorIInv ==
  ASSUME IInv, NEW p \in Operators, Operator(p)
  PROVE  IInv'
BY ReconcileIInv, StartCommandIInv, QuietExitIInv, AbortIInv, FinalizeCommandIInv DEF Operator

-----------------------------------------------------------------------------
\* The ledger writers.

\* A run context is a run id only when some run is, or may still be, active.
LEMMA RunContextType ==
  ASSUME TypeOK, JournalSound
  PROVE  /\ RunContext \in {"blocked", NoRun} \cup RunIds
         /\ RunContext \in RunIds => ActiveIn(runs) # {} \/ journal.kind = "finalize"
         /\ RunContext = NoRun => ActiveIn(runs) = {} /\ journal.kind # "finalize"
<1>1. runs \in Seq(Run)
  BY DEF TypeOK
<1>2. CASE journal.kind = "finalize"
  <2>1. journal.before \in Seq(Run) /\ ActiveIn(journal.before) # {}
    BY <1>2, JournalTypes DEF FinalizeJournal, JournalSound
  <2>2. ActiveId(journal.before) \in RunIds
    BY <2>1, ActiveIdType
  <2> QED BY <1>2, <2>2, TransactionConstants DEF RunContext
<1>3. CASE journal.kind = "start"
  <2>1. /\ journal.before \in Seq(Run) /\ ActiveIn(journal.before) = {} /\ journal.run \in RunIds
    BY <1>3, JournalTypes DEF StartJournal, JournalSound
  <2>2. ActiveId(journal.before) = NoRun
    BY <2>1, ActiveIdType
  <2>3. CASE journal.phase \in IntentPhases /\ ActiveId(runs) = journal.run
    <3>1. RunContext = journal.run /\ ActiveIn(runs) # {}
      BY <1>1, <1>3, <2>1, <2>3, ActiveIdType DEF RunContext
    <3> QED BY <2>1, <3>1, TransactionConstants
  <2>4. CASE ~(journal.phase \in IntentPhases /\ ActiveId(runs) = journal.run)
    <3>1. RunContext = NoRun
      BY <1>3, <2>2, <2>4 DEF RunContext
    <3>2. ActiveIn(runs) = {}
      BY <1>3, <2>4 DEF JournalSound
    <3> QED BY <1>3, <3>1, <3>2, TransactionConstants
  <2> QED BY <2>3, <2>4
<1>4. CASE journal.kind \notin {"finalize", "start"}
  <2>1. RunContext = ActiveId(runs)
    BY <1>4 DEF RunContext
  <2> QED BY <1>1, <1>4, <2>1, ActiveIdType, TransactionConstants
<1> QED BY <1>2, <1>3, <1>4

\* A writer that leaves the operators and every file but the ledger alone.
LEMMA LedgerIInv ==
  ASSUME IInv, UNCHANGED <<runs, journal, config, artifacts, locks, local>>,
         ledger' \in Seq(Event), Len(ledger') <= MaxLedger,
         seen' \in [Gates -> {"none", NoRun} \cup RunIds]
  PROVE  IInv'
<1>1. UNCHANGED <<maintenance, ledgerLock, pc, cmd, readLen>>
  BY DEF locks, local
<1>2. TypeOK'
  BY <1>1 DEF IInv, TypeOK
<1>3. Locks'
  BY <1>1 DEF IInv, Locks
<1>4. JournalSound' /\ Frozen'
  BY DEF IInv, JournalSound, Frozen, ConfigIsShadow
<1>5. \A p \in Operators : Fits(pc[p])'
  BY <1>1 DEF IInv, Fits
<1> QED BY <1>2, <1>3, <1>4, <1>5 DEF IInv

\* The setters change the configuration only while no run can be active.  The start
\* that is past its configuration writes holds the ledger lock.
LEMMA SetConfigIInv ==
  ASSUME IInv, NEW field \in {"gateMode", "autopilot"}, NEW mode \in Modes,
         SetConfig(field, mode)
  PROVE  IInv'
<1>1. /\ ledgerLock = {} /\ RunContext = NoRun
      /\ config' = [config EXCEPT ![field] = mode]
      /\ UNCHANGED <<runs, journal, artifacts, ledger, maintenance, ledgerLock, pc, cmd,
                     readLen, seen>>
  BY DEF SetConfig, locks, local
<1>2. ActiveIn(runs) = {} /\ journal.kind # "finalize"
  BY <1>1, RunContextType DEF IInv
<1>3. config' \in Config
  BY <1>1 DEF IInv, TypeOK, Config, FileContents
<1>4. TypeOK'
  BY <1>1, <1>3 DEF IInv, TypeOK, ActiveIn
<1>5. Locks'
  BY <1>1 DEF IInv, Locks
<1>6. JournalSound' /\ Frozen'
  BY <1>1, <1>2 DEF IInv, JournalSound, Frozen
<1>7. ASSUME NEW p \in Operators PROVE Fits(pc[p])'
  <2>1. pc[p] \notin StartSteps
    BY <1>1 DEF IInv, Locks
  <2>2. {"AutopilotWritten", "gateMode", "GateModeWritten", "activate"} \subseteq StartSteps
    BY DEF StartSteps
  <2>3. Fits(pc[p])
    BY DEF IInv
  <2> QED BY <1>1, <2>1, <2>2, <2>3 DEF Fits
<1> QED BY <1>4, <1>5, <1>6, <1>7 DEF IInv

LEMMA WritersIInv ==
  ASSUME IInv,
         \/ RecordDecision
         \/ \E g \in Gates : GateEvaluate(g) \/ GateAppend(g) \/ GateRetry(g)
  PROVE  IInv'
<1>1. RunContext \in {"blocked", NoRun} \cup RunIds
  BY RunContextType DEF IInv
<1>2. /\ ledger \in Seq(Event) /\ Len(ledger) <= MaxLedger
      /\ seen \in [Gates -> {"none", NoRun} \cup RunIds]
  BY DEF IInv, TypeOK
<1>3. \A r \in {NoRun} \cup RunIds : [kind |-> "event", run |-> r] \in Event
  BY DEF Event
<1>4. CASE RecordDecision
  <2>1. ledger' \in Seq(Event) /\ Len(ledger') <= MaxLedger
    BY <1>1, <1>3, <1>4, AppendLedger DEF RecordDecision, AppendEvent, IInv
  <2> QED BY <1>2, <1>4, <2>1, LedgerIInv DEF RecordDecision, local
<1>5. ASSUME NEW g \in Gates, GateEvaluate(g) PROVE IInv'
  <2>1. seen' \in [Gates -> {"none", NoRun} \cup RunIds]
    BY <1>1, <1>2, <1>5 DEF GateEvaluate
  <2> QED BY <1>2, <1>5, <2>1, LedgerIInv DEF GateEvaluate, disk
<1>6. ASSUME NEW g \in Gates, GateAppend(g) PROVE IInv'
  <2>1. seen[g] \in {NoRun} \cup RunIds
    BY <1>2, <1>6 DEF GateAppend
  <2>2. ledger' \in Seq(Event) /\ Len(ledger') <= MaxLedger
    BY <1>3, <1>6, <2>1, AppendLedger DEF GateAppend, AppendEvent, IInv
  <2>3. seen' \in [Gates -> {"none", NoRun} \cup RunIds]
    BY <1>2, <1>6 DEF GateAppend
  <2> QED BY <1>6, <2>2, <2>3, LedgerIInv DEF GateAppend
<1>7. ASSUME NEW g \in Gates, GateRetry(g) PROVE IInv'
  <2>1. seen' \in [Gates -> {"none", NoRun} \cup RunIds]
    BY <1>2, <1>7 DEF GateRetry
  <2> QED BY <1>2, <1>7, <2>1, LedgerIInv DEF GateRetry, disk
<1> QED BY <1>4, <1>5, <1>6, <1>7

-----------------------------------------------------------------------------
LEMMA InitIInv == Init => IInv
<1> SUFFICES ASSUME Init PROVE IInv
  OBVIOUS
<1>1. journal = NoJournal /\ runs = <<>> /\ ActiveIn(runs) = {}
  BY DEF Init, ActiveIn
<1>2. TypeOK
  <2>1. artifacts \in Artifacts
    <3>1. Absent \in Evidence
      BY TransactionConstants DEF Absent, Evidence
    <3> QED BY <3>1 DEF Init, Artifacts
  <2>2. /\ "idle" \in Labels /\ 0 \in 0..MaxLedger
    BY TransactionConstants DEF Labels
  <2> QED BY <1>1, <2>1, <2>2, TransactionConstants DEF Init, TypeOK, Config
<1>3. {"idle"} \cap (Commands \cup StartSteps \cup FinalizeSteps \cup UndoStartSteps
                     \cup RecoverFinalizeSteps \cup IntentSteps) = {}
      /\ {"AutopilotWritten", "gateMode", "GateModeWritten", "activate"} \subseteq IntentSteps
  BY DEF Commands, StartSteps, FinalizeSteps, UndoStartSteps, RecoverFinalizeSteps, IntentSteps
<1>4. Locks
  BY <1>3 DEF Init, Locks
<1>5. JournalSound /\ Frozen
  BY <1>1 DEF JournalSound, Frozen, NoJournal
<1>6. \A p \in Operators : Fits(pc[p])
  BY <1>3 DEF Init, Fits
<1> QED BY <1>2, <1>4, <1>5, <1>6 DEF IInv

LEMMA NextIInv == IInv /\ [Next]_vars => IInv'
<1> SUFFICES ASSUME IInv, [Next]_vars PROVE IInv'
  OBVIOUS
<1>1. CASE UNCHANGED vars
  <2>1. UNCHANGED <<runs, journal, config, artifacts, ledger, locks, local, seen>>
    BY <1>1 DEF vars, disk
  <2>2. /\ ledger \in Seq(Event) /\ Len(ledger) <= MaxLedger
        /\ seen \in [Gates -> {"none", NoRun} \cup RunIds]
    BY DEF IInv, TypeOK
  <2> QED BY <2>1, <2>2, LedgerIInv
<1>2. CASE Next
  <2>1. CASE \E p \in Operators, c \in Commands : Begin(p, c)
    BY <2>1, BeginIInv
  <2>2. CASE \E p \in Operators : Operator(p)
    BY <2>2, OperatorIInv
  <2>3. CASE \E p \in Operators : Crash(p)
    BY <2>3, QuietExitIInv
  <2>4. CASE \E p \in Operators : Fail(p)
    BY <2>4, FailIInv
  <2>5. CASE \E field \in {"gateMode", "autopilot"}, mode \in Modes : SetConfig(field, mode)
    BY <2>5, SetConfigIInv
  <2> QED BY <1>2, <2>1, <2>2, <2>3, <2>4, <2>5, WritersIInv DEF Next
<1> QED BY <1>1, <1>2

\* IInv is an inductive invariant of the protocol.
THEOREM TransactionInvariant == Spec => []IInv
<1> QED BY InitIInv, NextIInv, PTL DEF Spec

\* Every reachable state has well-typed files, and in the state file only the
\* newest run is active, through every crash, error and recovery.
THEOREM TypeCorrect == Spec => []TypeOK
<1>1. IInv => TypeOK
  BY DEF IInv
<1> QED BY <1>1, TransactionInvariant, PTL

\* While any writer would record under a run, the configuration on disk is the
\* shadow configuration that run was started with.
THEOREM ConfigurationFrozen == Spec => []RunConfigurationFrozen
<1>1. IInv => RunConfigurationFrozen
  BY RunContextType DEF IInv, Frozen, RunConfigurationFrozen
<1> QED BY <1>1, TransactionInvariant, PTL

-----------------------------------------------------------------------------
\* The files agree whenever no transaction is pending, and recovery is invisible.

\* The runs a pending transaction would be rolled back to, the run it is about, and
\* the evidence directory it writes.
Base == IF journal = NoJournal THEN runs ELSE journal.before
Busy == IF journal = NoJournal THEN {} ELSE {journal.run}
Held == IF journal.kind = "finalize" THEN {journal.out} ELSE {}
BaseIds == {Base[i].id : i \in DOMAIN Base}

\* A run that no transaction is about has its evidence and export or neither.
Exported(rec) ==
    /\ rec.exported <=> rec.id \in artifacts.export
    /\ rec.exported <=> \E o \in Outs : EvidenceVerifies(artifacts.out[o], rec.id)

RunsAgree ==
    \A i \in DOMAIN Base :
        /\ Base[i].id \in artifacts.backup /\ BundleValid(Base[i].id)
        /\ Base[i].exported <=> Base[i].status = "finalized"
        /\ Base[i].id \notin Busy => Exported(Base[i])

OutsAgree ==
    \A o \in Outs :
        IF o \in Held THEN artifacts.out[o].run \in {NoRun} \cup Busy
        ELSE artifacts.out[o] = Absent
             \/ \E i \in DOMAIN Base : Base[i].id = artifacts.out[o].run /\ Base[i].exported

\* What a rolled-back start may leave of its run: one artifact it had not journalled.
Leftover(r) ==
    artifacts.bundle[r] \in (IF r \in artifacts.backup THEN {"absent"} ELSE {"absent", "reserved"})

FilesAgree ==
    /\ \A i, j \in DOMAIN Base : Base[i].id = Base[j].id => i = j
    /\ RunsAgree
    /\ OutsAgree
    /\ artifacts.export \subseteq BaseIds \cup Busy
    /\ \A r \in RunIds \ (BaseIds \cup Busy) : Leftover(r)

Started == Append(journal.before, [id |-> journal.run, status |-> "active",
                                   from |-> journal.from, exported |-> FALSE])

\* What the files hold of the run a start journal names, by its phase.
StartFiles ==
    /\ journal.run \notin BaseIds \cup artifacts.export
    /\ journal.phase = "Prepared" => artifacts.bundle[journal.run] = "absent"
    /\ journal.phase = "BackupCreated" => ~BundleValid(journal.run)
    /\ \/ runs = journal.before
       \/ /\ runs = Started
          /\ journal.phase \in IntentPhases
          /\ journal.run \in artifacts.backup /\ BundleValid(journal.run)

\* Before its seal, the evidence of a finalization is neither complete nor published.
FinalizeFiles ==
    /\ journal.run = journal.before[Len(journal.before)].id
    /\ artifacts.staging.run \in {NoRun, journal.run}
    /\ journal.phase \notin SealedPhases =>
          "checksums" \notin artifacts.staging.files /\ artifacts.out[journal.out] = Absent

JournalFiles ==
    /\ journal.kind # "finalize" => artifacts.staging = Absent
    /\ journal.kind = "start" => StartFiles
    /\ journal.kind = "finalize" => FinalizeFiles

\* What the files hold when an operator is about to take the step labelled l.
BackedSteps == StartSteps \ {"backup", "clearStart"}
CopiedSteps ==
    BackedSteps \ {"BackupCreated", "directory", "QualificationDirectoryPrepared", "bundle"}
StartFits(l) ==
    /\ l \in UndoStartSteps \cup (StartSteps \ {"clearStart"}) => runs = journal.before
    /\ l = "clearStart" =>
          runs = Started /\ journal.run \in artifacts.backup /\ BundleValid(journal.run)
    /\ l \in {"backup", "BackupCreated"} => journal.phase = "Prepared"
    /\ l \in {"directory", "QualificationDirectoryPrepared"} => journal.phase = "BackupCreated"
    /\ l \in {"bundle"} \cup CopiedSteps => journal.phase \in OwnsBundlePhases
    /\ l \in BackedSteps => journal.run \in artifacts.backup
    /\ l \in CopiedSteps => BundleValid(journal.run)
    /\ l = "removeBundle" => journal.phase = "Prepared" \/ journal.run \notin artifacts.backup

Archived == Archive(journal.before, TRUE)
EvidenceVerified == EvidenceVerifies(artifacts.out[journal.out], journal.run)
PublishedSteps == {"EvidenceActivated", "finalState", "FinalStateWritten", "clearFinalize"}
SealedSteps == {"checksums", "rename"} \cup PublishedSteps
CompletingSteps == {"recoverState", "dropStaging", "clearFinalized"}
FinalizeFits(l) ==
    /\ l \in FinalizeSteps \ SealedSteps => journal.phase \notin SealedPhases
    /\ l \in SealedSteps \cup CompletingSteps => journal.phase \in SealedPhases
    /\ l \in PublishedSteps \cup {"clearFinalized"} \cup (RecoverFinalizeSteps \ CompletingSteps) =>
          artifacts.staging = Absent
    /\ l \in {"FinalStateWritten", "clearFinalize"} \cup CompletingSteps => EvidenceVerified
    /\ l \in {"FinalStateWritten", "clearFinalize", "dropStaging", "clearFinalized"} =>
          runs = Archived
    /\ l \in {"discardExport", "restoreOriginal"} => artifacts.out[journal.out] = Absent
    /\ l = "restoreOriginal" => journal.run \notin artifacts.export

\* A rollback is about to remove its journal.
RolledBack ==
    /\ journal # NoJournal /\ runs = journal.before
    /\ journal.kind = "start" => Leftover(journal.run)
    /\ journal.kind = "finalize" =>
          /\ artifacts.staging = Absent /\ artifacts.out[journal.out] = Absent
          /\ journal.run \notin artifacts.export

FilesFit(l) == StartFits(l) /\ FinalizeFits(l) /\ (l = "clearRollback" => RolledBack)

FInv ==
    /\ FilesAgree
    /\ JournalFiles
    /\ \A p \in Operators : FilesFit(pc[p])

-----------------------------------------------------------------------------
\* What a journal names.

LEMMA InStart ==
  ASSUME IInv, journal.kind = "start"
  PROVE  /\ journal \in StartJournal /\ journal # NoJournal
         /\ journal.before \in Seq(Run) /\ journal.run \in RunIds
         /\ ActiveIn(journal.before) = {}
         /\ Base = journal.before /\ Busy = {journal.run} /\ Held = {}
<1>1. journal \in StartJournal /\ ActiveIn(journal.before) = {}
  BY JournalTypes DEF IInv, JournalSound
<1>2. journal # NoJournal
  BY DEF NoJournal
<1> QED BY <1>1, <1>2 DEF StartJournal, Base, Busy, Held

LEMMA InFinalize ==
  ASSUME IInv, journal.kind = "finalize"
  PROVE  /\ journal \in FinalizeJournal /\ journal # NoJournal
         /\ journal.before \in Seq(Run) /\ journal.run \in RunIds /\ journal.out \in Outs
         /\ Len(journal.before) \in DOMAIN journal.before
         /\ journal.before[Len(journal.before)].status = "active"
         /\ ActiveIn(journal.before) = {Len(journal.before)}
         /\ Base = journal.before /\ Busy = {journal.run} /\ Held = {journal.out}
<1>1. journal \in FinalizeJournal /\ ActiveIn(journal.before) = {Len(journal.before)}
  BY JournalTypes DEF IInv, JournalSound
<1>2. journal # NoJournal
  BY DEF NoJournal
<1>3. /\ Len(journal.before) \in DOMAIN journal.before
      /\ journal.before[Len(journal.before)].status = "active"
  BY <1>1 DEF ActiveIn
<1> QED BY <1>1, <1>2, <1>3 DEF FinalizeJournal, Base, Busy, Held

LEMMA InNone ==
  ASSUME IInv, journal = NoJournal
  PROVE  /\ journal.kind = "none"
         /\ Base = runs /\ Busy = {} /\ Held = {} /\ Base \in Seq(Run)
  BY DEF IInv, TypeOK, NoJournal, Base, Busy, Held

LEMMA BaseTypes ==
  ASSUME IInv
  PROVE  /\ Base \in Seq(Run) /\ BaseIds \subseteq RunIds /\ Busy \subseteq RunIds
         /\ NoRun \notin RunIds
<1>1. Base \in Seq(Run) /\ Busy \subseteq RunIds
  <2>1. CASE journal.kind = "start"
    BY <2>1, InStart
  <2>2. CASE journal.kind = "finalize"
    BY <2>2, InFinalize
  <2>3. CASE journal.kind \notin {"start", "finalize"}
    BY <2>3, InNone, JournalTypes DEF IInv
  <2> QED BY <2>1, <2>2, <2>3
<1>2. BaseIds \subseteq RunIds
  <2>1. \A i \in DOMAIN Base : Base[i] \in Run
    BY <1>1
  <2> QED BY <2>1 DEF BaseIds, Run
<1> QED BY <1>1, <1>2, TransactionConstants

\* The same transaction, perhaps in another phase.
SameTransaction ==
    /\ journal.kind \in {"start", "finalize"}
    /\ journal'.kind = journal.kind /\ journal'.run = journal.run
    /\ journal'.before = journal.before
    /\ journal.kind = "finalize" => journal'.out = journal.out

LEMMA SameBase ==
  ASSUME IInv, SameTransaction
  PROVE  Base' = Base /\ Busy' = Busy /\ Held' = Held /\ BaseIds' = BaseIds
<1>1. journal # NoJournal /\ journal' # NoJournal
  BY DEF SameTransaction, NoJournal
<1>2. Base' = Base /\ Busy' = Busy /\ Held' = Held
  BY <1>1 DEF Base, Busy, Held, SameTransaction
<1> QED BY <1>2 DEF BaseIds

-----------------------------------------------------------------------------
\* Steps leave the files of other runs alone.

OthersAlone ==
    /\ \A r \in RunIds \ Busy :
          /\ r \in artifacts'.backup <=> r \in artifacts.backup
          /\ r \in artifacts'.export <=> r \in artifacts.export
          /\ artifacts'.bundle[r] = artifacts.bundle[r]
    /\ \A o \in Outs \ Held : artifacts'.out[o] = artifacts.out[o]
    /\ \A o \in Held : artifacts'.out[o].run \in {NoRun} \cup Busy
    /\ \A r \in Busy \cap BaseIds : r \in artifacts'.backup /\ artifacts'.bundle[r] = "copied"
    /\ artifacts'.export \subseteq RunIds

LEMMA OthersAgree ==
  ASSUME IInv, FilesAgree, SameTransaction, OthersAlone
  PROVE  FilesAgree'
<1>1. Base' = Base /\ Busy' = Busy /\ Held' = Held /\ BaseIds' = BaseIds
  BY SameBase
<1>2. /\ Base \in Seq(Run) /\ BaseIds \subseteq RunIds /\ Busy \subseteq RunIds
      /\ NoRun \notin RunIds
  BY BaseTypes
<1>3. ASSUME NEW r \in RunIds \ Busy, NEW o \in Outs
      PROVE  EvidenceVerifies(artifacts.out[o], r)' <=> EvidenceVerifies(artifacts.out[o], r)
  <2>1. CASE o \in Held
    <3>1. artifacts.out[o].run # r /\ artifacts'.out[o].run # r
      BY <1>2, <2>1 DEF FilesAgree, OutsAgree, OthersAlone
    <3> QED BY <3>1 DEF EvidenceVerifies
  <2>2. CASE o \notin Held
    BY <2>2 DEF EvidenceVerifies, OthersAlone
  <2> QED BY <2>1, <2>2
<1>4. ASSUME NEW i \in DOMAIN Base
      PROVE  /\ Base[i].id \in artifacts'.backup /\ artifacts'.bundle[Base[i].id] = "copied"
             /\ Base[i].id \notin Busy => Exported(Base[i])'
  <2>1. Base[i].id \in BaseIds /\ Base[i].id \in RunIds
    BY <1>2 DEF BaseIds
  <2>2. CASE Base[i].id \in Busy
    BY <2>1, <2>2 DEF OthersAlone
  <2>3. CASE Base[i].id \notin Busy
    <3>1. Base[i].id \in artifacts.backup /\ artifacts.bundle[Base[i].id] = "copied"
          /\ Exported(Base[i])
      BY <2>3 DEF FilesAgree, RunsAgree, BundleValid
    <3>2. Base[i].id \in artifacts'.backup /\ artifacts'.bundle[Base[i].id] = "copied"
          /\ (Base[i].id \in artifacts'.export <=> Base[i].id \in artifacts.export)
      BY <2>1, <2>3, <3>1 DEF OthersAlone
    <3>3. \A o \in Outs : EvidenceVerifies(artifacts.out[o], Base[i].id)'
                          <=> EvidenceVerifies(artifacts.out[o], Base[i].id)
      <4>1. Base'[i].id = Base[i].id
        BY <1>1
      <4> QED BY <1>3, <2>1, <2>3, <4>1 DEF EvidenceVerifies
    <3> QED BY <1>1, <3>1, <3>2, <3>3 DEF Exported
  <2> QED BY <2>2, <2>3
<1>5. RunsAgree'
  BY <1>1, <1>4 DEF RunsAgree, FilesAgree, BundleValid
<1>6. OutsAgree'
  BY <1>1 DEF OutsAgree, FilesAgree, OthersAlone
<1>7. artifacts'.export \subseteq BaseIds \cup Busy
  BY DEF FilesAgree, OthersAlone
<1>8. \A r \in RunIds \ (BaseIds \cup Busy) : Leftover(r)'
  BY DEF FilesAgree, OthersAlone, Leftover
<1> QED BY <1>1, <1>5, <1>6, <1>7, <1>8 DEF FilesAgree

LEMMA QuietAgree ==
  ASSUME IInv, FilesAgree, SameTransaction, artifacts' = artifacts
  PROVE  FilesAgree'
<1>1. Base' = Base /\ Busy' = Busy /\ Held' = Held /\ BaseIds' = BaseIds
  BY SameBase
<1>2. RunsAgree' /\ OutsAgree'
  BY <1>1 DEF FilesAgree, RunsAgree, OutsAgree, Exported, EvidenceVerifies, BundleValid
<1> QED BY <1>1, <1>2 DEF FilesAgree, Leftover

-----------------------------------------------------------------------------
\* Facts about labels.

StartLabels == StartSteps \cup UndoStartSteps
FinalizeLabels == FinalizeSteps \cup RecoverFinalizeSteps

LEMMA QuietLabels ==
  ASSUME NEW l \in Commands \cup {"idle", "reconcile"}
  PROVE  FilesFit(l) /\ FilesFit(l)'
<1>1. /\ l \notin StartLabels /\ l \notin FinalizeLabels /\ l # "clearRollback"
  BY DEF Commands, StartLabels, FinalizeLabels, StartSteps, UndoStartSteps, FinalizeSteps,
         RecoverFinalizeSteps
<1> QED BY <1>1 DEF FilesFit, StartFits, FinalizeFits, StartLabels, FinalizeLabels,
     BackedSteps, CopiedSteps, PublishedSteps, SealedSteps, CompletingSteps, StartSteps,
     UndoStartSteps, FinalizeSteps, RecoverFinalizeSteps

LEMMA StartLabelFits ==
  ASSUME NEW l \in StartLabels
  PROVE  /\ StartFits(l) => FilesFit(l)
         /\ StartFits(l)' => FilesFit(l)'
<1>1. l \notin FinalizeLabels /\ l # "clearRollback"
  BY DEF StartLabels, FinalizeLabels, StartSteps, UndoStartSteps, FinalizeSteps,
         RecoverFinalizeSteps
<1> QED BY <1>1 DEF FilesFit, FinalizeFits, FinalizeLabels, PublishedSteps, SealedSteps,
     CompletingSteps, FinalizeSteps, RecoverFinalizeSteps

LEMMA FinalizeLabelFits ==
  ASSUME NEW l \in FinalizeLabels
  PROVE  /\ FinalizeFits(l) => FilesFit(l)
         /\ FinalizeFits(l)' => FilesFit(l)'
<1>1. l \notin StartLabels /\ l # "clearRollback"
  BY DEF StartLabels, FinalizeLabels, StartSteps, UndoStartSteps, FinalizeSteps,
         RecoverFinalizeSteps
<1> QED BY <1>1 DEF FilesFit, StartFits, StartLabels, BackedSteps, CopiedSteps, StartSteps,
     UndoStartSteps

LEMMA ClearRollbackFits ==
  (RolledBack => FilesFit("clearRollback")) /\ (RolledBack' => FilesFit("clearRollback")')
BY DEF FilesFit, StartFits, FinalizeFits, BackedSteps, CopiedSteps, PublishedSteps, SealedSteps,
       CompletingSteps, StartSteps, UndoStartSteps, FinalizeSteps, RecoverFinalizeSteps

LEMMA AtLabel ==
  ASSUME NEW q \in Operators, NEW l, pc'[q] = l, FilesFit(l)'
  PROVE  FilesFit(pc[q])'
<1>1. StartFits(l)' => StartFits(pc[q])'
  BY DEF StartFits
<1>2. FinalizeFits(l)' => FinalizeFits(pc[q])'
  BY DEF FinalizeFits
<1>3. (l = "clearRollback" => RolledBack') => (pc'[q] = "clearRollback" => RolledBack')
  OBVIOUS
<1> QED BY <1>1, <1>2, <1>3 DEF FilesFit

\* A step of one operator preserves the invariant when the files it leaves behind do.
LEMMA StepFInv ==
  ASSUME IInv, NEW p \in Operators, NEW from \in Labels, NEW to, Step(p, from, to),
         from # "idle", FilesAgree', JournalFiles', FilesFit(to)'
  PROVE  FInv'
<1>1. pc[p] = from /\ pc' = [pc EXCEPT ![p] = to] /\ pc \in [Operators -> Labels]
  BY DEF Step, IInv, TypeOK
<1>2. \A q \in Operators : q # p => pc'[q] = "idle"
  BY <1>1, OthersIdle DEF IInv
<1>3. ASSUME NEW q \in Operators PROVE FilesFit(pc[q])'
  <2>1. CASE q = p
    <3>1. pc'[q] = to
      BY <1>1, <2>1
    <3> QED BY <3>1, AtLabel
  <2>2. CASE q # p
    <3>1. pc'[q] = "idle" /\ FilesFit("idle")'
      BY <1>2, <2>2, QuietLabels
    <3> QED BY <3>1, AtLabel
  <2> QED BY <2>1, <2>2
<1> QED BY <1>3 DEF FInv

LEMMA QuietFInv ==
  ASSUME FilesAgree', JournalFiles',
         \A q \in Operators : pc'[q] \in Commands \cup {"idle", "reconcile"}
  PROVE  FInv'
<1>1. ASSUME NEW q \in Operators PROVE FilesFit(pc[q])'
  <2>1. PICK l \in Commands \cup {"idle", "reconcile"} : pc'[q] = l
    OBVIOUS
  <2>2. FilesFit(l)'
    BY QuietLabels
  <2> QED BY <2>1, <2>2, AtLabel
<1> QED BY <1>1 DEF FInv

LEMMA AtStep ==
  ASSUME FInv, NEW p \in Operators, NEW l, pc[p] = l
  PROVE  FilesFit(l)
BY DEF FInv

LEMMA SameFiles ==
  ASSUME UNCHANGED <<runs, journal, artifacts>>
  PROVE  /\ FilesAgree => FilesAgree'
         /\ JournalFiles => JournalFiles'
<1>1. Base' = Base /\ Busy' = Busy /\ Held' = Held /\ BaseIds' = BaseIds
  BY DEF Base, Busy, Held, BaseIds
<1>2. (RunsAgree => RunsAgree') /\ (OutsAgree => OutsAgree')
  BY <1>1 DEF RunsAgree, OutsAgree, Exported, EvidenceVerifies, BundleValid
<1>3. Started' = Started
  BY DEF Started
<1>4. JournalFiles => JournalFiles'
  BY <1>1, <1>3 DEF JournalFiles, StartFiles, FinalizeFiles, BundleValid
<1> QED BY <1>1, <1>2, <1>4 DEF FilesAgree, Leftover

\* A step that writes none of the files the invariant is about.
LEMMA QuietStep ==
  ASSUME IInv, FInv, NEW p \in Operators, NEW from \in Labels, NEW to, Step(p, from, to),
         from # "idle", UNCHANGED <<runs, journal, artifacts>>, FilesFit(to)'
  PROVE  FInv'
BY SameFiles, StepFInv DEF FInv

-----------------------------------------------------------------------------
\* start

LEMMA StartSets ==
  /\ StartSteps \subseteq Labels \cap StartLabels /\ "idle" \notin StartSteps
  /\ UndoStartSteps \subseteq Labels \cap StartLabels /\ "idle" \notin UndoStartSteps
  /\ UndoStartSteps \cap StartSteps = {}
  /\ BackedSteps = {"BackupCreated", "directory", "QualificationDirectoryPrepared"} \cup
                   {"bundle"} \cup CopiedSteps
  /\ CopiedSteps = {"QualificationBundleCopied", "IntentRecorded", "autopilot",
                    "AutopilotWritten", "gateMode", "GateModeWritten", "activate"}
BY DEF Labels, StartLabels, StartSteps, UndoStartSteps, BackedSteps, CopiedSteps

\* The next phase of a start journal.
LEMMA StartPhaseFInv ==
  ASSUME IInv, FInv, NEW p \in Operators, NEW from \in BackedSteps,
         NEW phase \in StartPhases \ {"Prepared"}, NEW n,
         NEW to \in {"directory", "bundle"} \cup CopiedSteps, Step(p, from, to),
         journal' = [journal EXCEPT !.phase = phase, !.from = n],
         UNCHANGED <<runs, artifacts>>,
         phase = "BackupCreated" => from = "BackupCreated",
         to = "directory" => phase = "BackupCreated",
         to # "directory" => phase \in OwnsBundlePhases,
         to \in CopiedSteps => from \in CopiedSteps
  PROVE  FInv'
<1>1. /\ from \in StartSteps \ {"clearStart"} /\ to \in StartSteps \ {"clearStart", "backup"}
      /\ from \in Labels /\ from # "idle" /\ to \in BackedSteps
  BY StartSets DEF BackedSteps
<1>2. journal.kind = "start" /\ pc[p] = from
  BY <1>1 DEF IInv, Fits, Step
<1>3. /\ journal \in StartJournal
      /\ Base = journal.before /\ Busy = {journal.run} /\ Held = {}
  BY <1>2, InStart
<1>4. /\ journal'.kind = "start" /\ journal'.run = journal.run
      /\ journal'.before = journal.before /\ journal'.phase = phase
  BY <1>3 DEF StartJournal
<1>5. SameTransaction
  BY <1>2, <1>4 DEF SameTransaction
<1>6. FilesAgree' /\ BaseIds' = BaseIds
  BY <1>5, QuietAgree, SameBase DEF FInv
<1>7. /\ runs = journal.before /\ journal.run \in artifacts.backup
      /\ from = "BackupCreated" => journal.phase = "Prepared"
      /\ from \in CopiedSteps => BundleValid(journal.run)
  BY <1>1, <1>2, AtStep DEF FilesFit, StartFits
<1>8. StartFiles /\ artifacts.staging = Absent
  BY <1>2 DEF FInv, JournalFiles
<1>9. StartFiles'
  BY <1>4, <1>6, <1>7, <1>8 DEF StartFiles, BundleValid
<1>10. JournalFiles'
  BY <1>4, <1>8, <1>9 DEF JournalFiles
<1>11. StartFits(to)'
  <2>1. to \notin {"clearStart", "backup", "BackupCreated", "QualificationDirectoryPrepared",
                  "removeBundle"}
    BY <1>1, StartSets DEF UndoStartSteps
  <2>2. to \in {"bundle"} \cup CopiedSteps => phase \in OwnsBundlePhases
    BY StartSets
  <2> QED BY <1>1, <1>4, <1>7, <2>1, <2>2 DEF StartFits, BundleValid
<1>12. FilesFit(to)'
  BY <1>1, <1>11, StartSets, StartLabelFits
<1> QED BY <1>1, <1>6, <1>10, <1>12, StepFInv

LEMMA StartPhasesFInv ==
  ASSUME IInv, FInv, NEW p \in Operators,
         \/ JournalPhase(p, "BackupCreated", "BackupCreated", "directory")
         \/ JournalPhase(p, "QualificationDirectoryPrepared",
                         "QualificationDirectoryPrepared", "bundle")
         \/ JournalPhase(p, "QualificationBundleCopied", "QualificationBundleCopied",
                         "IntentRecorded")
         \/ JournalIntent(p)
         \/ JournalPhase(p, "AutopilotWritten", "AutopilotWritten", "gateMode")
         \/ JournalPhase(p, "GateModeWritten", "GateModeWritten", "activate")
  PROVE  FInv'
<1>1. /\ {"QualificationDirectoryPrepared", "QualificationBundleCopied", "IntentRecorded",
          "AutopilotWritten", "GateModeWritten"} \subseteq OwnsBundlePhases
      /\ "BackupCreated" \in StartPhases /\ OwnsBundlePhases \subseteq StartPhases
      /\ "Prepared" \notin OwnsBundlePhases /\ "BackupCreated" \notin OwnsBundlePhases
  BY DEF OwnsBundlePhases, IntentPhases, StartPhases
<1>2. /\ {"BackupCreated", "QualificationDirectoryPrepared"} \cap CopiedSteps = {}
      /\ {"directory", "bundle"} \cap CopiedSteps = {}
      /\ {"QualificationBundleCopied", "IntentRecorded", "autopilot", "AutopilotWritten",
          "gateMode", "GateModeWritten", "activate"} \subseteq CopiedSteps
  BY StartSets
<1>3. {"BackupCreated", "QualificationDirectoryPrepared"} \cup CopiedSteps \subseteq BackedSteps
  BY StartSets
<1>4. pc[p] \in StartSteps \ {"clearStart"}
  BY DEF JournalPhase, JournalIntent, Step, StartSteps
<1>5. journal \in StartJournal
  BY <1>4, InStart DEF IInv, Fits
<1>6. ASSUME NEW from \in BackedSteps, NEW phase \in StartPhases \ {"Prepared"},
             NEW to \in {"directory", "bundle"} \cup CopiedSteps,
             JournalPhase(p, from, phase, to),
             phase = "BackupCreated" => from = "BackupCreated",
             to = "directory" => phase = "BackupCreated",
             to # "directory" => phase \in OwnsBundlePhases,
             to \in CopiedSteps => from \in CopiedSteps
      PROVE  FInv'
  <2>1. /\ Step(p, from, to) /\ UNCHANGED <<runs, artifacts>>
        /\ journal' = [journal EXCEPT !.phase = phase]
    BY <1>6 DEF JournalPhase
  <2>2. journal' = [journal EXCEPT !.phase = phase, !.from = journal.from]
    BY <1>5, <2>1 DEF StartJournal
  <2> QED BY <1>6, <2>1, <2>2, StartPhaseFInv
<1>7. CASE JournalPhase(p, "BackupCreated", "BackupCreated", "directory")
  BY <1>1, <1>2, <1>3, <1>6, <1>7
<1>8. CASE JournalPhase(p, "QualificationDirectoryPrepared",
                        "QualificationDirectoryPrepared", "bundle")
  BY <1>1, <1>2, <1>3, <1>6, <1>8
<1>9. CASE JournalPhase(p, "QualificationBundleCopied", "QualificationBundleCopied",
                        "IntentRecorded")
  BY <1>1, <1>2, <1>3, <1>6, <1>9
<1>10. CASE JournalIntent(p)
  <2>1. /\ Step(p, "IntentRecorded", "autopilot") /\ UNCHANGED <<runs, artifacts>>
        /\ journal' = [journal EXCEPT !.phase = "IntentRecorded", !.from = readLen[p]]
    BY <1>10 DEF JournalIntent
  <2> DEFINE n == readLen[p]
  <2>2. journal' = [journal EXCEPT !.phase = "IntentRecorded", !.from = n]
    BY <2>1
  <2> HIDE DEF n
  <2> QED BY <1>1, <1>2, <1>3, <2>1, <2>2, StartPhaseFInv
<1>11. CASE \/ JournalPhase(p, "AutopilotWritten", "AutopilotWritten", "gateMode")
            \/ JournalPhase(p, "GateModeWritten", "GateModeWritten", "activate")
  BY <1>1, <1>2, <1>3, <1>6, <1>11
<1> QED BY <1>7, <1>8, <1>9, <1>10, <1>11

\* A step that writes or removes the backup or the bundle of the run being started.
OnlyThisRun ==
    /\ \A r \in RunIds \ {journal.run} :
          /\ r \in artifacts'.backup <=> r \in artifacts.backup
          /\ artifacts'.bundle[r] = artifacts.bundle[r]
    /\ artifacts'.export = artifacts.export
    /\ artifacts'.staging = artifacts.staging
    /\ artifacts'.out = artifacts.out

LEMMA StartArtifactAgrees ==
  ASSUME IInv, FInv, journal.kind = "start", OnlyThisRun, UNCHANGED <<runs, journal>>,
         StartFiles'
  PROVE  FilesAgree' /\ JournalFiles'
<1>1. /\ journal \in StartJournal /\ journal.run \in RunIds
      /\ Base = journal.before /\ Busy = {journal.run} /\ Held = {}
  BY InStart
<1>2. StartFiles /\ artifacts.staging = Absent /\ FilesAgree
  BY DEF FInv, JournalFiles
<1>3. SameTransaction
  BY DEF SameTransaction
<1>4. artifacts.export \subseteq RunIds
  BY DEF IInv, TypeOK, Artifacts
<1>5. OthersAlone
  BY <1>1, <1>2, <1>4 DEF OthersAlone, OnlyThisRun, StartFiles
<1>6. FilesAgree'
  BY <1>2, <1>3, <1>5, OthersAgree
<1>7. JournalFiles'
  BY <1>2 DEF JournalFiles, OnlyThisRun
<1> QED BY <1>6, <1>7

LEMMA StartArtifactsFInv ==
  ASSUME IInv, FInv, NEW p \in Operators, ExportBackup(p) \/ ReserveDirectory(p) \/ CopyBundle(p)
  PROVE  FInv'
<1>1. /\ pc[p] \in {"backup", "directory", "bundle"} /\ pc[p] \in StartSteps \ {"clearStart"}
      /\ UNCHANGED <<runs, journal>>
  BY DEF ExportBackup, ReserveDirectory, CopyBundle, Step, StartSteps
<1>2. journal.kind = "start"
  BY <1>1 DEF IInv, Fits
<1>3. /\ journal \in StartJournal /\ journal.run \in RunIds /\ artifacts \in Artifacts
      /\ artifacts.bundle \in [RunIds -> {"absent", "reserved", "copied"}]
  BY <1>2, InStart DEF IInv, TypeOK, Artifacts
<1>4. /\ runs = journal.before
      /\ pc[p] = "backup" => journal.phase = "Prepared"
      /\ pc[p] = "directory" => journal.phase = "BackupCreated"
      /\ pc[p] = "bundle" => journal.phase \in OwnsBundlePhases
      /\ pc[p] \in BackedSteps => journal.run \in artifacts.backup
  BY <1>1, AtStep, StartSets DEF FilesFit, StartFits
<1>5. StartFiles
  BY <1>2 DEF FInv, JournalFiles
<1>6. BaseIds' = BaseIds
  BY <1>1 DEF BaseIds, Base
<1>7. {"backup", "directory", "bundle"} \subseteq Labels /\ {"directory", "bundle"} \subseteq BackedSteps
      /\ {"BackupCreated", "QualificationDirectoryPrepared", "QualificationBundleCopied"}
             \subseteq StartLabels
      /\ "Prepared" \notin OwnsBundlePhases /\ "BackupCreated" \notin OwnsBundlePhases
  BY StartSets DEF StartSteps, OwnsBundlePhases, IntentPhases
<1>8. CASE ExportBackup(p)
  <2>1. /\ Step(p, "backup", "BackupCreated") /\ pc[p] = "backup"
        /\ artifacts' = [artifacts EXCEPT !.backup = @ \cup {journal.run}]
    BY <1>8 DEF ExportBackup, Step
  <2>2. OnlyThisRun /\ journal.run \in artifacts'.backup /\ artifacts'.bundle = artifacts.bundle
    BY <1>3, <2>1 DEF OnlyThisRun, Artifacts
  <2>3. StartFiles'
    BY <1>1, <1>4, <1>5, <1>6, <2>1, <2>2 DEF StartFiles, OnlyThisRun, BundleValid
  <2>4. StartFits("BackupCreated")'
    BY <1>1, <1>4, <2>1, <2>2 DEF StartFits, UndoStartSteps, CopiedSteps
  <2>5. FilesFit("BackupCreated")'
    BY <1>7, <2>4, StartLabelFits
  <2>6. FilesAgree' /\ JournalFiles'
    BY <1>1, <1>2, <2>2, <2>3, StartArtifactAgrees
  <2> QED BY <1>7, <2>1, <2>5, <2>6, StepFInv
<1>9. CASE ReserveDirectory(p)
  <2>1. /\ Step(p, "directory", "QualificationDirectoryPrepared") /\ pc[p] = "directory"
        /\ artifacts' = [artifacts EXCEPT !.bundle[journal.run] = "reserved"]
    BY <1>9 DEF ReserveDirectory, Step
  <2>2. OnlyThisRun /\ artifacts'.backup = artifacts.backup
        /\ artifacts'.bundle[journal.run] = "reserved"
    BY <1>3, <2>1 DEF OnlyThisRun, Artifacts
  <2>3. StartFiles'
    BY <1>1, <1>4, <1>5, <1>6, <2>1, <2>2 DEF StartFiles, OnlyThisRun, BundleValid
  <2>4. StartFits("QualificationDirectoryPrepared")'
    BY <1>1, <1>4, <1>7, <2>1, <2>2 DEF StartFits, UndoStartSteps, CopiedSteps
  <2>5. FilesFit("QualificationDirectoryPrepared")'
    BY <1>7, <2>4, StartLabelFits
  <2>6. FilesAgree' /\ JournalFiles'
    BY <1>1, <1>2, <2>2, <2>3, StartArtifactAgrees
  <2> QED BY <1>7, <2>1, <2>5, <2>6, StepFInv
<1>10. CASE CopyBundle(p)
  <2>1. /\ Step(p, "bundle", "QualificationBundleCopied") /\ pc[p] = "bundle"
        /\ artifacts' = [artifacts EXCEPT !.bundle[journal.run] = "copied"]
    BY <1>10 DEF CopyBundle, Step
  <2>2. OnlyThisRun /\ artifacts'.backup = artifacts.backup
        /\ artifacts'.bundle[journal.run] = "copied"
    BY <1>3, <2>1 DEF OnlyThisRun, Artifacts
  <2>3. StartFiles'
    BY <1>1, <1>4, <1>5, <1>6, <1>7, <2>1, <2>2 DEF StartFiles, OnlyThisRun, BundleValid
  <2>4. StartFits("QualificationBundleCopied")'
    BY <1>1, <1>4, <1>7, <2>1, <2>2 DEF StartFits, UndoStartSteps, BundleValid
  <2>5. FilesFit("QualificationBundleCopied")'
    BY <1>7, <2>4, StartLabelFits
  <2>6. FilesAgree' /\ JournalFiles'
    BY <1>1, <1>2, <2>2, <2>3, StartArtifactAgrees
  <2> QED BY <1>7, <2>1, <2>5, <2>6, StepFInv
<1> QED BY <1>8, <1>9, <1>10

\* start, the writes of the configuration
LEMMA StartConfigFInv ==
  ASSUME IInv, FInv, NEW p \in Operators, WriteAutopilot(p) \/ WriteGateMode(p)
  PROVE  FInv'
<1>1. ASSUME NEW from \in {"autopilot", "gateMode"},
             NEW to \in {"AutopilotWritten", "GateModeWritten"},
             Step(p, from, to), UNCHANGED <<runs, journal, artifacts>>
      PROVE  FInv'
  <2>1. /\ from \in CopiedSteps /\ from \in BackedSteps /\ from \in StartSteps
        /\ to \in CopiedSteps /\ to \in StartLabels /\ from \in Labels /\ from # "idle"
    BY StartSets DEF BackedSteps, StartSteps
  <2>2. StartFits(from)
    BY <1>1, AtStep DEF FilesFit, Step
  <2>3. StartFits(to)'
    BY <1>1, <2>1, <2>2 DEF StartFits, BundleValid
  <2>4. FilesFit(to)'
    BY <2>1, <2>3, StartLabelFits
  <2> QED BY <1>1, <2>1, <2>4, QuietStep
<1> QED BY <1>1 DEF WriteAutopilot, WriteGateMode

LEMMA ActivateFInv ==
  ASSUME IInv, FInv, NEW p \in Operators, Activate(p)
  PROVE  FInv'
<1>1. /\ Step(p, "activate", "clearStart") /\ pc[p] = "activate"
      /\ runs' = Started /\ UNCHANGED <<journal, artifacts>>
  BY DEF Activate, Step, Started
<1>2. /\ "activate" \in CopiedSteps /\ "activate" \in BackedSteps /\ "activate" \in StartSteps
      /\ "activate" \in IntentSteps /\ "activate" \in Labels /\ "clearStart" \in StartLabels
  BY StartSets DEF BackedSteps, StartSteps, IntentSteps, Labels
<1>3. journal.kind = "start" /\ journal.phase \in IntentPhases
  BY <1>1, <1>2 DEF IInv, Fits, StartSteps
<1>4. journal.run \in artifacts.backup /\ BundleValid(journal.run)
  BY <1>1, <1>2, AtStep DEF FilesFit, StartFits
<1>5. StartFiles /\ FilesAgree /\ artifacts.staging = Absent
  BY <1>3 DEF FInv, JournalFiles
<1>6. SameTransaction
  BY <1>1, <1>3 DEF SameTransaction
<1>7. FilesAgree' /\ BaseIds' = BaseIds
  BY <1>1, <1>5, <1>6, QuietAgree, SameBase
<1>8. Started' = Started
  BY <1>1 DEF Started
<1>9. StartFiles' /\ JournalFiles'
  BY <1>1, <1>3, <1>4, <1>5, <1>7, <1>8 DEF StartFiles, JournalFiles, BundleValid
<1>10. StartFits("clearStart")'
  BY <1>1, <1>4, <1>8 DEF StartFits, UndoStartSteps, BackedSteps, CopiedSteps, BundleValid
<1>11. FilesFit("clearStart")'
  BY <1>2, <1>10, StartLabelFits
<1> QED BY <1>1, <1>2, <1>7, <1>9, <1>11, StepFInv

\* A new run has left no trace.
LEMMA JournalStartFInv ==
  ASSUME IInv, FInv, NEW p \in Operators, NEW r \in RunIds, JournalStart(p, r)
  PROVE  FInv'
<1>1. /\ Step(p, "start", "backup") /\ pc[p] = "start" /\ FreshRun(r)
      /\ journal' = [kind |-> "start", phase |-> "Prepared", run |-> r, before |-> runs,
                     prior |-> config, from |-> 0]
      /\ UNCHANGED <<runs, artifacts>>
  BY DEF JournalStart, Step
<1>2. journal = NoJournal
  BY <1>1 DEF IInv, Fits, Commands
<1>3. Base = runs /\ Busy = {} /\ Held = {}
  BY <1>2, InNone
<1>4. /\ journal'.kind = "start" /\ journal'.phase = "Prepared" /\ journal'.run = r
      /\ journal'.before = runs /\ journal' # NoJournal
  BY <1>1 DEF NoJournal
<1>5. Base' = Base /\ Busy' = {r} /\ Held' = {} /\ BaseIds' = BaseIds
  BY <1>3, <1>4 DEF Base, Busy, Held, BaseIds
<1>6. FilesAgree /\ artifacts.staging = Absent
  BY <1>2, InNone DEF FInv, JournalFiles
<1>7. r \notin BaseIds /\ r \notin artifacts.export /\ artifacts.bundle[r] = "absent"
  BY <1>1, <1>3, <1>6 DEF FreshRun, BaseIds, FilesAgree
<1>8. RunsAgree' /\ OutsAgree'
  BY <1>1, <1>3, <1>5, <1>6 DEF FilesAgree, RunsAgree, OutsAgree, Exported, EvidenceVerifies,
                                BundleValid
<1>9. FilesAgree'
  BY <1>1, <1>3, <1>5, <1>6, <1>8 DEF FilesAgree, Leftover
<1>10. JournalFiles'
  BY <1>1, <1>4, <1>5, <1>6, <1>7 DEF JournalFiles, StartFiles
<1>11. StartFits("backup")'
  BY <1>1, <1>4 DEF StartFits, UndoStartSteps, BackedSteps, CopiedSteps
<1>12. "start" \in Labels /\ "backup" \in StartLabels
  BY DEF Labels, Commands, StartLabels, StartSteps
<1>13. FilesFit("backup")'
  BY <1>11, <1>12, StartLabelFits
<1> QED BY <1>1, <1>9, <1>10, <1>12, <1>13, StepFInv

-----------------------------------------------------------------------------
\* The end of a transaction: the three ways a journal is removed.

LEMMA RolledBackAgrees ==
  ASSUME IInv, FInv, RolledBack, journal' = NoJournal, UNCHANGED <<runs, artifacts>>
  PROVE  FilesAgree' /\ JournalFiles'
<1>1. journal.kind \in {"start", "finalize"}
  BY JournalTypes DEF RolledBack, IInv
<1>2. /\ Base = journal.before /\ Busy = {journal.run} /\ runs = Base /\ FilesAgree
      /\ Held \subseteq {journal.out} /\ (journal.kind = "start" => Held = {})
  BY <1>1, InStart, InFinalize DEF RolledBack, FInv
<1>3. Base' = Base /\ Busy' = {} /\ Held' = {} /\ BaseIds' = BaseIds
  BY <1>2 DEF Base, Busy, Held, BaseIds, NoJournal
<1>4. /\ artifacts.staging = Absent /\ journal.run \notin artifacts.export
      /\ \A o \in Held : artifacts.out[o] = Absent
      /\ journal.run \in BaseIds \/ Leftover(journal.run)
  <2>1. CASE journal.kind = "start"
    BY <1>2, <2>1 DEF FInv, JournalFiles, StartFiles, RolledBack
  <2>2. CASE journal.kind = "finalize"
    <3>1. journal.run \in BaseIds
      BY <1>2, <2>2, InFinalize DEF FInv, JournalFiles, FinalizeFiles, BaseIds
    <3> QED BY <1>2, <2>2, <3>1 DEF RolledBack
  <2> QED BY <1>1, <2>1, <2>2
<1>5. ASSUME NEW i \in DOMAIN Base, Base[i].id = journal.run
      PROVE  Exported(Base[i])
  <2>1. journal.kind = "finalize"
    BY <1>1, <1>2, <1>5 DEF FInv, JournalFiles, StartFiles, BaseIds
  <2>2. i = Len(Base) /\ Base[i].status = "active"
    BY <1>2, <1>5, <2>1, InFinalize DEF FInv, JournalFiles, FinalizeFiles, FilesAgree
  <2>3. ~Base[i].exported
    BY <1>2, <2>2 DEF FilesAgree, RunsAgree
  <2> QED BY <1>4, <1>5, <2>3 DEF Exported, EvidenceVerifies
<1>6. RunsAgree'
  <2>1. \A i \in DOMAIN Base : Exported(Base[i])
    BY <1>2, <1>5 DEF FilesAgree, RunsAgree
  <2>2. \A i \in DOMAIN Base : Exported(Base[i])'
    BY <1>3, <2>1 DEF Exported, EvidenceVerifies
  <2> QED BY <1>2, <1>3, <2>2 DEF FilesAgree, RunsAgree, BundleValid
<1>7. OutsAgree'
  BY <1>2, <1>3, <1>4 DEF FilesAgree, OutsAgree
<1>8. FilesAgree'
  BY <1>2, <1>3, <1>4, <1>6, <1>7 DEF FilesAgree, Leftover
<1>9. JournalFiles'
  BY <1>4 DEF JournalFiles, NoJournal
<1> QED BY <1>8, <1>9

LEMMA StartedAgrees ==
  ASSUME IInv, FInv, journal.kind = "start", runs = Started,
         journal.run \in artifacts.backup, BundleValid(journal.run),
         journal' = NoJournal, UNCHANGED <<runs, artifacts>>
  PROVE  FilesAgree' /\ JournalFiles'
<1> DEFINE new == [id |-> journal.run, status |-> "active", from |-> journal.from,
                   exported |-> FALSE]
<1>1. /\ Base = journal.before /\ Busy = {journal.run} /\ Held = {} /\ Base \in Seq(Run)
      /\ FilesAgree /\ StartFiles /\ artifacts.staging = Absent /\ journal.run \in RunIds
  BY InStart DEF FInv, JournalFiles
<1>2. /\ runs = Append(Base, new) /\ new.id = journal.run /\ new.status = "active"
      /\ new.exported = FALSE
  BY <1>1 DEF Started
<1> HIDE DEF new
<1>3. /\ DOMAIN runs = DOMAIN Base \cup {Len(Base) + 1}
      /\ Len(Base) + 1 \notin DOMAIN Base
      /\ \A i \in DOMAIN Base : runs[i] = Base[i]
      /\ runs[Len(Base) + 1] = new
  BY <1>1, <1>2
<1>4. Base' = runs /\ Busy' = {} /\ Held' = {}
  BY DEF Base, Busy, Held, NoJournal
<1>5. BaseIds' = BaseIds \cup {journal.run}
  BY <1>2, <1>3, <1>4 DEF BaseIds
<1>6. journal.run \notin BaseIds /\ journal.run \notin artifacts.export
  BY <1>1 DEF StartFiles
<1>7. \A i \in DOMAIN Base : Exported(Base[i])
  BY <1>1, <1>6 DEF FilesAgree, RunsAgree, BaseIds
<1>8. Exported(new)
  BY <1>2, <1>6 DEF Exported, EvidenceVerifies
<1>9. ASSUME NEW i \in DOMAIN runs
      PROVE  /\ runs[i].id \in artifacts.backup /\ BundleValid(runs[i].id)
             /\ runs[i].exported <=> runs[i].status = "finalized"
             /\ Exported(runs[i])
  <2>1. CASE i \in DOMAIN Base
    BY <1>1, <1>3, <1>7, <2>1 DEF FilesAgree, RunsAgree
  <2>2. CASE i = Len(Base) + 1
    BY <1>2, <1>3, <1>8, <2>2
  <2> QED BY <1>3, <2>1, <2>2
<1>10. RunsAgree'
  BY <1>4, <1>9 DEF RunsAgree, BundleValid, Exported, EvidenceVerifies
<1>11. OutsAgree'
  <2>1. \A o \in Outs : artifacts.out[o] = Absent
            \/ \E i \in DOMAIN runs : runs[i].id = artifacts.out[o].run /\ runs[i].exported
    BY <1>1, <1>3 DEF FilesAgree, OutsAgree
  <2> QED BY <1>4, <2>1 DEF OutsAgree
<1>12. \A i, j \in DOMAIN runs : runs[i].id = runs[j].id => i = j
  BY <1>1, <1>2, <1>3, <1>6 DEF FilesAgree, BaseIds
<1>13. FilesAgree'
  BY <1>1, <1>4, <1>5, <1>10, <1>11, <1>12 DEF FilesAgree, Leftover
<1>14. JournalFiles'
  BY <1>1 DEF JournalFiles, NoJournal
<1> QED BY <1>13, <1>14

LEMMA ArchivedRuns ==
  ASSUME journal.before \in Seq(Run), Len(journal.before) \in DOMAIN journal.before
  PROVE  /\ DOMAIN Archived = DOMAIN journal.before
         /\ \A i \in DOMAIN journal.before : Archived[i].id = journal.before[i].id
         /\ \A i \in DOMAIN journal.before :
               i # Len(journal.before) => Archived[i] = journal.before[i]
         /\ Archived[Len(journal.before)].status = "finalized"
         /\ Archived[Len(journal.before)].exported
<1> DEFINE rs == journal.before
           n == Len(rs)
           rec == [rs[n] EXCEPT !.status = "finalized", !.exported = TRUE]
<1>1. rs[n] \in Run
  OBVIOUS
<1>2. rec.id = rs[n].id /\ rec.status = "finalized" /\ rec.exported
  BY <1>1 DEF Run
<1>3. Archived = [rs EXCEPT ![n] = rec]
  BY <1>1 DEF Archived, Archive, Run
<1> HIDE DEF rec
<1> QED BY <1>2, <1>3

LEMMA FinalizedAgrees ==
  ASSUME IInv, FInv, journal.kind = "finalize", runs = Archived,
         EvidenceVerified, artifacts.staging = Absent,
         journal' = NoJournal, UNCHANGED <<runs, artifacts>>
  PROVE  FilesAgree' /\ JournalFiles'
<1>1. /\ Base = journal.before /\ Busy = {journal.run} /\ Held = {journal.out}
      /\ Base \in Seq(Run) /\ Len(Base) \in DOMAIN Base /\ Base[Len(Base)].id = journal.run
      /\ FilesAgree /\ journal.out \in Outs
  BY InFinalize DEF FInv, JournalFiles, FinalizeFiles
<1>2. /\ DOMAIN runs = DOMAIN Base
      /\ \A i \in DOMAIN Base : runs[i].id = Base[i].id
      /\ \A i \in DOMAIN Base : i # Len(Base) => runs[i] = Base[i]
      /\ runs[Len(Base)].status = "finalized" /\ runs[Len(Base)].exported
  BY <1>1, ArchivedRuns
<1>3. Base' = runs /\ Busy' = {} /\ Held' = {}
  BY DEF Base, Busy, Held, NoJournal
<1>4. BaseIds' = BaseIds /\ journal.run \in BaseIds
  BY <1>1, <1>2, <1>3 DEF BaseIds
<1>5. \A i \in DOMAIN Base : i # Len(Base) => Exported(runs[i])
  BY <1>1, <1>2 DEF FilesAgree, RunsAgree
<1>6. Exported(runs[Len(Base)])
  BY <1>1, <1>2 DEF Exported, EvidenceVerified, EvidenceVerifies
<1>7. ASSUME NEW i \in DOMAIN runs
      PROVE  /\ runs[i].id \in artifacts.backup /\ BundleValid(runs[i].id)
             /\ runs[i].exported <=> runs[i].status = "finalized"
             /\ Exported(runs[i])
  <2>1. CASE i # Len(Base)
    BY <1>1, <1>2, <1>5, <2>1 DEF FilesAgree, RunsAgree
  <2>2. CASE i = Len(Base)
    BY <1>1, <1>2, <1>6, <2>2 DEF FilesAgree, RunsAgree
  <2> QED BY <2>1, <2>2
<1>8. RunsAgree'
  BY <1>3, <1>7 DEF RunsAgree, BundleValid, Exported, EvidenceVerifies
<1>9. OutsAgree'
  <2>1. \A o \in Outs : artifacts.out[o] = Absent
            \/ \E i \in DOMAIN runs : runs[i].id = artifacts.out[o].run /\ runs[i].exported
    <3>1. ASSUME NEW o \in Outs, o # journal.out, artifacts.out[o] # Absent
          PROVE  \E i \in DOMAIN runs : runs[i].id = artifacts.out[o].run /\ runs[i].exported
      <4>1. PICK i \in DOMAIN Base : Base[i].id = artifacts.out[o].run /\ Base[i].exported
        BY <1>1, <3>1 DEF FilesAgree, OutsAgree
      <4> QED BY <1>2, <4>1
    <3>2. artifacts.out[journal.out].run = journal.run
      BY DEF EvidenceVerified, EvidenceVerifies
    <3> QED BY <1>1, <1>2, <3>1, <3>2
  <2> QED BY <1>3, <2>1 DEF OutsAgree
<1>10. \A i, j \in DOMAIN runs : runs[i].id = runs[j].id => i = j
  BY <1>1, <1>2 DEF FilesAgree
<1>11. FilesAgree'
  BY <1>1, <1>3, <1>4, <1>8, <1>9, <1>10 DEF FilesAgree, Leftover
<1>12. JournalFiles'
  BY DEF JournalFiles, NoJournal
<1> QED BY <1>11, <1>12

LEMMA ReconciledIsQuiet ==
  ASSUME IInv, NEW p \in Operators, NEW from \in {"reconcile", "clearRollback", "clearFinalized"},
         NEW outcome, Reconciled(p, from, outcome)
  PROVE  \A q \in Operators : pc'[q] \in Commands \cup {"idle", "reconcile"}
<1>1. pc[p] = from /\ pc[p] # "idle" /\ pc \in [Operators -> Labels]
  BY DEF Reconciled, IInv, TypeOK
<1>2. \A q \in Operators : q # p => pc[q] = "idle"
  BY <1>1, OthersIdle DEF IInv
<1>3. CASE Exit(p)
  BY <1>1, <1>2, <1>3 DEF Exit
<1>4. CASE cmd[p] # "recover" /\ pc' = [pc EXCEPT ![p] = cmd[p]]
  BY <1>1, <1>2, <1>4 DEF IInv, Locks
<1> QED BY <1>3, <1>4 DEF Reconciled

LEMMA ExitIsQuiet ==
  ASSUME IInv, NEW p \in Operators, pc[p] # "idle", Exit(p)
  PROVE  \A q \in Operators : pc'[q] \in Commands \cup {"idle", "reconcile"}
BY ExitLocks DEF IInv

\* While a run started by a pending start is live, its activation is valid.
LEMMA StartedIsValid ==
  ASSUME IInv, FInv, journal.kind = "start"
  PROVE  /\ runs = Started => StartActivationValid
         /\ ~StartActivationValid => runs = journal.before
         /\ StartActivationValid =>
               runs = Started /\ journal.run \in artifacts.backup /\ BundleValid(journal.run)
<1> DEFINE new == [id |-> journal.run, status |-> "active", from |-> journal.from,
                   exported |-> FALSE]
<1>1. /\ journal \in StartJournal /\ journal.before \in Seq(Run) /\ ActiveIn(journal.before) = {}
      /\ StartFiles
  BY InStart DEF FInv, JournalFiles
<1>2. new \in Run /\ new.status = "active" /\ new.id = journal.run
  BY <1>1 DEF Run, Statuses, StartJournal
<1>3. Started = Append(journal.before, new)
  BY DEF Started
<1> HIDE DEF new
<1>4. ActiveIn(Started) = {Len(Started)} /\ ActiveId(Started) = journal.run
  BY <1>1, <1>2, <1>3, AppendActive
<1>5. ActiveId(journal.before) = NoRun /\ journal.run # NoRun
  BY <1>1, ActiveIdType, TransactionConstants DEF StartJournal
<1>6. runs = journal.before => ~StartActivationValid
  BY <1>5 DEF StartActivationValid
<1>7. ASSUME runs = Started, runs # journal.before PROVE StartActivationValid
  <2>1. ConfigIsShadow
    BY <1>4, <1>7 DEF IInv, Frozen
  <2> QED BY <1>1, <1>4, <1>7, <2>1 DEF StartFiles, StartActivationValid
<1>8. Started # journal.before
  BY <1>4, <1>1
<1> QED BY <1>1, <1>6, <1>7, <1>8 DEF StartFiles

LEMMA RestoreStateFInv ==
  ASSUME IInv, FInv, NEW p \in Operators, RestoreState(p)
  PROVE  FInv'
<1>1. /\ journal.kind = "start" /\ ~StartActivationValid /\ runs' = journal.before
      /\ Step(p, "reconcile", "restoreAutopilot") /\ UNCHANGED <<journal, artifacts>>
  BY DEF RestoreState
<1>2. runs = journal.before
  BY <1>1, StartedIsValid
<1>3. /\ "restoreAutopilot" \in UndoStartSteps /\ "restoreAutopilot" \in StartLabels
      /\ "reconcile" \in Labels
  BY DEF UndoStartSteps, StartLabels, Labels
<1>4. StartFits("restoreAutopilot")'
  BY <1>1, <1>2, <1>3 DEF StartFits, BackedSteps, CopiedSteps, StartSteps
<1>5. FilesFit("restoreAutopilot")'
  BY <1>3, <1>4, StartLabelFits
<1> QED BY <1>1, <1>2, <1>3, <1>5, QuietStep

LEMMA RestoreConfigFInv ==
  ASSUME IInv, FInv, NEW p \in Operators, RestoreAutopilot(p) \/ RestoreGateMode(p)
  PROVE  FInv'
<1>1. ASSUME NEW from \in {"restoreAutopilot", "restoreGateMode"},
             NEW to \in {"restoreGateMode", "removeBackup"},
             Step(p, from, to), UNCHANGED <<runs, journal, artifacts>>
      PROVE  FInv'
  <2>1. /\ from \in UndoStartSteps /\ to \in UndoStartSteps /\ from \in Labels /\ from # "idle"
        /\ to \in StartLabels /\ to \notin StartSteps /\ to # "removeBundle"
    BY StartSets DEF UndoStartSteps
  <2>2. runs = journal.before
    BY <1>1, <2>1, AtStep DEF FilesFit, StartFits, Step
  <2>3. StartFits(to)'
    BY <1>1, <2>1, <2>2, StartSets DEF StartFits, StartSteps
  <2>4. FilesFit(to)'
    BY <2>1, <2>3, StartLabelFits
  <2> QED BY <1>1, <2>1, <2>4, QuietStep
<1> QED BY <1>1 DEF RestoreAutopilot, RestoreGateMode

\* A rollback removes the backup it journalled, and only then the bundle.
LEMMA RemoveFInv ==
  ASSUME IInv, FInv, NEW p \in Operators, RemoveBackup(p) \/ RemoveBundle(p)
  PROVE  FInv'
<1>1. /\ pc[p] \in {"removeBackup", "removeBundle"} /\ pc[p] \in UndoStartSteps
      /\ UNCHANGED <<runs, journal>>
  BY DEF RemoveBackup, RemoveBundle, Step, UndoStartSteps
<1>2. journal.kind = "start"
  BY <1>1 DEF IInv, Fits
<1>3. /\ journal \in StartJournal /\ journal.run \in RunIds /\ artifacts \in Artifacts
      /\ artifacts.bundle \in [RunIds -> {"absent", "reserved", "copied"}]
      /\ journal.phase \in StartPhases /\ Base = journal.before
  BY <1>2, InStart DEF IInv, TypeOK, Artifacts, StartJournal
<1>4. /\ runs = journal.before
      /\ pc[p] = "removeBundle" => journal.phase = "Prepared" \/ journal.run \notin artifacts.backup
  BY <1>1, AtStep DEF FilesFit, StartFits
<1>5. StartFiles
  BY <1>2 DEF FInv, JournalFiles
<1>6. BaseIds' = BaseIds
  BY <1>1 DEF BaseIds, Base
<1>7. {"removeBackup", "removeBundle"} \subseteq Labels \cap StartLabels
  BY DEF Labels, StartLabels, UndoStartSteps
<1>8. CASE RemoveBackup(p)
  <2>1. /\ Step(p, "removeBackup", "removeBundle")
        /\ artifacts' = IF journal.phase # "Prepared"
                        THEN [artifacts EXCEPT !.backup = @ \ {journal.run}] ELSE artifacts
    BY <1>8 DEF RemoveBackup
  <2>2. /\ OnlyThisRun /\ artifacts'.bundle = artifacts.bundle
        /\ journal.phase = "Prepared" \/ journal.run \notin artifacts'.backup
    <3>1. CASE journal.phase = "Prepared"
      BY <2>1, <3>1 DEF OnlyThisRun
    <3>2. CASE journal.phase # "Prepared"
      BY <1>3, <2>1, <3>2 DEF OnlyThisRun, Artifacts
    <3> QED BY <3>1, <3>2
  <2>3. StartFiles'
    BY <1>1, <1>4, <1>5, <1>6, <2>2 DEF StartFiles, OnlyThisRun, BundleValid
  <2>4. StartFits("removeBundle")'
    BY <1>1, <1>4, <2>2 DEF StartFits, BackedSteps, CopiedSteps, StartSteps
  <2>5. FilesFit("removeBundle")'
    BY <1>7, <2>4, StartLabelFits
  <2>6. FilesAgree' /\ JournalFiles'
    BY <1>1, <1>2, <2>2, <2>3, StartArtifactAgrees
  <2> QED BY <1>7, <2>1, <2>5, <2>6, StepFInv
<1>9. CASE RemoveBundle(p)
  <2>1. /\ Step(p, "removeBundle", "clearRollback") /\ pc[p] = "removeBundle"
        /\ artifacts' = IF journal.phase \in OwnsBundlePhases
                        THEN [artifacts EXCEPT !.bundle[journal.run] = "absent"] ELSE artifacts
    BY <1>9 DEF RemoveBundle, Step
  <2>2. /\ OnlyThisRun /\ artifacts'.backup = artifacts.backup
        /\ IF journal.phase \in OwnsBundlePhases THEN artifacts'.bundle[journal.run] = "absent"
           ELSE artifacts'.bundle[journal.run] = artifacts.bundle[journal.run]
    <3>1. CASE journal.phase \notin OwnsBundlePhases
      BY <2>1, <3>1 DEF OnlyThisRun
    <3>2. CASE journal.phase \in OwnsBundlePhases
      BY <1>3, <2>1, <3>2 DEF OnlyThisRun, Artifacts
    <3> QED BY <3>1, <3>2
  <2>3. StartFiles'
    BY <1>1, <1>4, <1>5, <1>6, <2>2 DEF StartFiles, OnlyThisRun, BundleValid
  <2>4. Leftover(journal.run)'
    <3>1. CASE journal.phase = "Prepared"
      BY <1>1, <1>5, <2>2, <3>1 DEF StartFiles, Leftover, OwnsBundlePhases, IntentPhases
    <3>2. CASE journal.phase # "Prepared"
      <4>1. journal.run \notin artifacts'.backup
        BY <1>4, <2>1, <2>2, <3>2
      <4>2. artifacts'.bundle[journal.run] \in {"absent", "reserved"}
        <5>1. CASE journal.phase \in OwnsBundlePhases
          BY <2>2, <5>1
        <5>2. CASE journal.phase = "BackupCreated"
          BY <1>3, <1>5, <2>2, <5>2 DEF StartFiles, BundleValid, OwnsBundlePhases, IntentPhases
        <5> QED BY <1>3, <3>2, <5>1, <5>2 DEF StartPhases
      <4> QED BY <1>1, <4>1, <4>2 DEF Leftover
    <3> QED BY <3>1, <3>2
  <2>5. RolledBack'
    BY <1>1, <1>2, <1>4, <2>4 DEF RolledBack, NoJournal
  <2>6. FilesFit("clearRollback")'
    BY <2>5, ClearRollbackFits
  <2>7. FilesAgree' /\ JournalFiles'
    BY <1>1, <1>2, <2>2, <2>3, StartArtifactAgrees
  <2> QED BY <1>7, <2>1, <2>6, <2>7, StepFInv
<1> QED BY <1>8, <1>9

\* The steps that end a transaction or a recovery.
LEMMA EndsFInv ==
  ASSUME IInv, FInv, NEW p \in Operators,
         \/ ReconcileNothing(p) \/ ReconcileStartActivated(p) \/ ClearRollback(p)
         \/ ClearFinalized(p) \/ ClearJournal(p, "clearStart") \/ ClearJournal(p, "clearFinalize")
  PROVE  FInv'
<1>1. CASE ReconcileNothing(p)
  <2>1. Reconciled(p, "reconcile", "None") /\ UNCHANGED <<runs, journal, artifacts>>
    BY <1>1 DEF ReconcileNothing, disk
  <2> QED BY <2>1, SameFiles, ReconciledIsQuiet, QuietFInv DEF FInv
<1>2. CASE ReconcileStartActivated(p)
  <2>1. /\ Reconciled(p, "reconcile", "StartActivated") /\ UNCHANGED <<runs, artifacts>>
        /\ journal' = NoJournal /\ journal.kind = "start" /\ StartActivationValid
    BY <1>2 DEF ReconcileStartActivated
  <2>2. FilesAgree' /\ JournalFiles'
    BY <2>1, StartedIsValid, StartedAgrees
  <2> QED BY <2>1, <2>2, ReconciledIsQuiet, QuietFInv
<1>3. CASE ClearRollback(p)
  <2>1. /\ Reconciled(p, "clearRollback", "RolledBack") /\ UNCHANGED <<runs, artifacts>>
        /\ journal' = NoJournal /\ pc[p] = "clearRollback"
    BY <1>3 DEF ClearRollback, Reconciled
  <2>2. RolledBack
    BY <2>1, AtStep DEF FilesFit
  <2>3. FilesAgree' /\ JournalFiles'
    BY <2>1, <2>2, RolledBackAgrees
  <2> QED BY <2>1, <2>3, ReconciledIsQuiet, QuietFInv
<1>4. CASE ClearFinalized(p)
  <2>1. /\ Reconciled(p, "clearFinalized", "Finalized") /\ UNCHANGED <<runs, artifacts>>
        /\ journal' = NoJournal /\ pc[p] = "clearFinalized"
    BY <1>4 DEF ClearFinalized, Reconciled
  <2>2. journal.kind = "finalize"
    BY <2>1 DEF IInv, Fits, RecoverFinalizeSteps
  <2>3. runs = Archived /\ EvidenceVerified /\ artifacts.staging = Absent
    BY <2>1, AtStep DEF FilesFit, FinalizeFits, CompletingSteps
  <2>4. FilesAgree' /\ JournalFiles'
    BY <2>1, <2>2, <2>3, FinalizedAgrees
  <2> QED BY <2>1, <2>4, ReconciledIsQuiet, QuietFInv
<1>5. CASE ClearJournal(p, "clearStart")
  <2>1. /\ Exit(p) /\ UNCHANGED <<runs, artifacts>>
        /\ journal' = NoJournal /\ pc[p] = "clearStart" /\ pc[p] # "idle"
    BY <1>5 DEF ClearJournal
  <2>2. journal.kind = "start"
    BY <2>1 DEF IInv, Fits, StartSteps
  <2>3. runs = Started /\ journal.run \in artifacts.backup /\ BundleValid(journal.run)
    BY <2>1, AtStep DEF FilesFit, StartFits
  <2>4. FilesAgree' /\ JournalFiles'
    BY <2>1, <2>2, <2>3, StartedAgrees
  <2> QED BY <2>1, <2>4, ExitIsQuiet, QuietFInv
<1>6. CASE ClearJournal(p, "clearFinalize")
  <2>1. /\ Exit(p) /\ UNCHANGED <<runs, artifacts>>
        /\ journal' = NoJournal /\ pc[p] = "clearFinalize" /\ pc[p] # "idle"
    BY <1>6 DEF ClearJournal
  <2>2. journal.kind = "finalize"
    BY <2>1 DEF IInv, Fits, FinalizeSteps
  <2>3. runs = Archived /\ EvidenceVerified /\ artifacts.staging = Absent
    BY <2>1, AtStep DEF FilesFit, FinalizeFits, PublishedSteps
  <2>4. FilesAgree' /\ JournalFiles'
    BY <2>1, <2>2, <2>3, FinalizedAgrees
  <2> QED BY <2>1, <2>4, ExitIsQuiet, QuietFInv
<1> QED BY <1>1, <1>2, <1>3, <1>4, <1>5, <1>6

-----------------------------------------------------------------------------
\* finalize

LEMMA FinalizeSets ==
  /\ FinalizeSteps \subseteq Labels \cap FinalizeLabels /\ "idle" \notin FinalizeSteps
  /\ RecoverFinalizeSteps \subseteq Labels \cap FinalizeLabels /\ "idle" \notin RecoverFinalizeSteps
  /\ RecoverFinalizeSteps \cap FinalizeSteps = {}
  /\ SealedSteps \subseteq FinalizeSteps /\ PublishedSteps \subseteq SealedSteps
  /\ CompletingSteps \subseteq RecoverFinalizeSteps
  /\ RecoverFinalizeSteps \ CompletingSteps = {"discardOut", "discardExport", "restoreOriginal"}
BY DEF Labels, FinalizeLabels, FinalizeSteps, RecoverFinalizeSteps, SealedSteps, PublishedSteps,
       CompletingSteps

LEMMA FinalizeFacts ==
  ASSUME IInv, FInv, NEW p \in Operators, pc[p] \in FinalizeLabels
  PROVE  /\ journal.kind = "finalize" /\ FinalizeFits(pc[p])
         /\ FilesAgree /\ FinalizeFiles
<1>1. journal.kind = "finalize"
  BY DEF FinalizeLabels, IInv, Fits
<1>2. FinalizeFits(pc[p])
  BY DEF FInv, FilesFit
<1> QED BY <1>1, <1>2 DEF FInv, JournalFiles

\* A step that leaves the files of the invariant alone, but for the phase or the state file.
LEMMA FinalizeQuiet ==
  ASSUME IInv, FInv, NEW p \in Operators, NEW from \in FinalizeLabels, NEW to \in FinalizeLabels,
         Step(p, from, to), artifacts' = artifacts,
         NEW phase \in FinalizePhases, journal' = [journal EXCEPT !.phase = phase],
         phase \notin SealedPhases => journal.phase \notin SealedPhases,
         FinalizeFits(to)'
  PROVE  FInv'
<1>1. pc[p] = from /\ from \in Labels /\ from # "idle"
  BY FinalizeSets DEF Step, FinalizeLabels
<1>2. journal.kind = "finalize" /\ FilesAgree /\ FinalizeFiles
  BY <1>1, FinalizeFacts
<1>3. journal \in FinalizeJournal
  BY <1>2, InFinalize
<1>4. /\ journal'.kind = "finalize" /\ journal'.run = journal.run /\ journal'.out = journal.out
      /\ journal'.before = journal.before /\ journal'.phase = phase
  BY <1>3 DEF FinalizeJournal
<1>5. SameTransaction
  BY <1>2, <1>4 DEF SameTransaction
<1>6. FilesAgree'
  BY <1>2, <1>5, QuietAgree
<1>7. JournalFiles'
  BY <1>2, <1>4 DEF FinalizeFiles, JournalFiles
<1>8. FilesFit(to)'
  BY FinalizeLabelFits
<1> QED BY <1>1, <1>6, <1>7, <1>8, StepFInv

LEMMA FinalizePhaseFInv ==
  ASSUME IInv, FInv, NEW p \in Operators, NEW from \in FinalizeSteps, NEW phase \in FinalizePhases,
         NEW to \in FinalizeSteps, JournalPhase(p, from, phase, to),
         phase \in SealedPhases <=> to \in SealedSteps,
         from \in SealedSteps => to \in SealedSteps,
         to \in PublishedSteps => from \in PublishedSteps,
         to = "clearFinalize" => from = "FinalStateWritten",
         to # "FinalStateWritten"
  PROVE  FInv'
<1>1. /\ Step(p, from, to) /\ pc[p] = from /\ UNCHANGED <<runs, artifacts>>
      /\ journal' = [journal EXCEPT !.phase = phase]
      /\ from \in FinalizeLabels /\ to \in FinalizeLabels
  BY FinalizeSets DEF JournalPhase, Step
<1>2. journal \in FinalizeJournal /\ FinalizeFits(from)
  BY <1>1, FinalizeFacts, InFinalize
<1>3. /\ journal'.run = journal.run /\ journal'.out = journal.out
      /\ journal'.before = journal.before /\ journal'.phase = phase
  BY <1>1, <1>2 DEF FinalizeJournal
<1>4. phase \notin SealedPhases => journal.phase \notin SealedPhases
  BY <1>2 DEF FinalizeFits
<1>5. /\ to \notin RecoverFinalizeSteps \cup CompletingSteps
      /\ to \notin {"clearFinalized", "dropStaging", "discardExport", "restoreOriginal"}
  BY DEF RecoverFinalizeSteps, CompletingSteps, FinalizeSteps
<1>6. to = "clearFinalize" => EvidenceVerified' /\ runs' = Archived'
  <2>1. to = "clearFinalize" => EvidenceVerified /\ runs = Archived
    BY <1>2 DEF FinalizeFits
  <2>2. EvidenceVerified' <=> EvidenceVerified
    BY <1>1, <1>3 DEF EvidenceVerified, EvidenceVerifies
  <2>3. Archived' = Archived
    BY <1>3 DEF Archived, Archive
  <2> QED BY <1>1, <2>1, <2>2, <2>3
<1>7. to \in PublishedSteps => artifacts'.staging = Absent
  BY <1>1, <1>2 DEF FinalizeFits
<1>8. FinalizeFits(to)'
  BY <1>3, <1>5, <1>6, <1>7 DEF FinalizeFits
<1> QED BY <1>1, <1>4, <1>8, FinalizeQuiet

\* A step that writes the staging directory, the evidence or the export of its run.
OnlyThisEvidence ==
    /\ artifacts'.backup = artifacts.backup /\ artifacts'.bundle = artifacts.bundle
    /\ \A r \in RunIds \ {journal.run} : r \in artifacts'.export <=> r \in artifacts.export
    /\ artifacts'.export \subseteq RunIds
    /\ \A o \in Outs \ {journal.out} : artifacts'.out[o] = artifacts.out[o]

LEMMA EvidenceFInv ==
  ASSUME IInv, FInv, NEW p \in Operators, NEW from \in FinalizeLabels \cup {"reconcile"},
         NEW to \in FinalizeLabels,
         Step(p, from, to), journal.kind = "finalize", UNCHANGED <<runs, journal>>,
         OnlyThisEvidence,
         artifacts'.out[journal.out].run \in {NoRun, journal.run},
         artifacts'.staging.run \in {NoRun, journal.run},
         journal.phase \notin SealedPhases =>
             "checksums" \notin artifacts'.staging.files /\ artifacts'.out[journal.out] = Absent,
         FinalizeFits(to)'
  PROVE  FInv'
<1>1. from \in Labels /\ from # "idle"
  BY FinalizeSets DEF FinalizeLabels, Labels
<1>2. FilesAgree /\ FinalizeFiles /\ SameTransaction
  BY DEF FInv, JournalFiles, SameTransaction
<1>3. /\ Base = journal.before /\ Busy = {journal.run} /\ Held = {journal.out}
      /\ Len(Base) \in DOMAIN Base /\ Base[Len(Base)].id = journal.run
  BY <1>2, InFinalize DEF FinalizeFiles
<1>4. journal.run \in artifacts.backup /\ artifacts.bundle[journal.run] = "copied"
  BY <1>2, <1>3 DEF FilesAgree, RunsAgree, BundleValid
<1>5. OthersAlone
  BY <1>3, <1>4 DEF OthersAlone, OnlyThisEvidence
<1>6. FilesAgree'
  BY <1>2, <1>5, OthersAgree
<1>7. JournalFiles'
  BY <1>2 DEF FinalizeFiles, JournalFiles
<1>8. FilesFit(to)'
  BY FinalizeLabelFits
<1> QED BY <1>1, <1>6, <1>7, <1>8, StepFInv

\* A step that writes the state file, or nothing.
LEMMA FinalizeKeeps ==
  ASSUME IInv, FInv, journal.kind = "finalize", UNCHANGED <<journal, artifacts>>
  PROVE  FilesAgree' /\ JournalFiles'
<1>1. FilesAgree /\ FinalizeFiles /\ SameTransaction
  BY DEF FInv, JournalFiles, SameTransaction
<1>2. FilesAgree'
  BY <1>1, QuietAgree
<1>3. JournalFiles'
  BY <1>1 DEF FinalizeFiles, JournalFiles
<1> QED BY <1>2, <1>3

LEMMA FinalizePhasesFInv ==
  ASSUME IInv, FInv, NEW p \in Operators,
         \/ JournalPhase(p, "ArchivedStateWritten", "ArchivedStateWritten", "staging")
         \/ JournalPhase(p, "StagingCreated", "StagingCreated", "export")
         \/ JournalPhase(p, "ExportWritten", "ExportWritten", "qualification")
         \/ JournalPhase(p, "FinalQualificationCopied", "QualificationBundleCopied", "json")
         \/ JournalPhase(p, "JsonReportWritten", "JsonReportWritten", "markdown")
         \/ JournalPhase(p, "MarkdownReportWritten", "MarkdownReportWritten", "ChecksumsWritten")
         \/ JournalPhase(p, "ChecksumsWritten", "ChecksumsWritten", "checksums")
         \/ JournalPhase(p, "EvidenceActivated", "EvidenceActivated", "finalState")
         \/ JournalPhase(p, "FinalStateWritten", "FinalStateWritten", "clearFinalize")
  PROVE  FInv'
<1>1. /\ {"ArchivedStateWritten", "StagingCreated", "ExportWritten", "QualificationBundleCopied",
          "JsonReportWritten", "MarkdownReportWritten"} \subseteq FinalizePhases \ SealedPhases
      /\ {"ChecksumsWritten", "EvidenceActivated", "FinalStateWritten"}
             \subseteq FinalizePhases \cap SealedPhases
  BY DEF FinalizePhases, SealedPhases
<1>2. /\ {"ArchivedStateWritten", "staging", "StagingCreated", "export", "ExportWritten",
          "qualification", "FinalQualificationCopied", "json", "JsonReportWritten", "markdown",
          "MarkdownReportWritten", "ChecksumsWritten"} \subseteq FinalizeSteps \ SealedSteps
      /\ {"checksums", "EvidenceActivated", "finalState", "FinalStateWritten", "clearFinalize"}
             \subseteq FinalizeSteps \cap SealedSteps
      /\ {"EvidenceActivated", "finalState", "FinalStateWritten", "clearFinalize"} \subseteq PublishedSteps
      /\ "checksums" \notin PublishedSteps /\ PublishedSteps \subseteq SealedSteps
  BY DEF FinalizeSteps, SealedSteps, PublishedSteps
<1>3. CASE \/ JournalPhase(p, "ArchivedStateWritten", "ArchivedStateWritten", "staging")
           \/ JournalPhase(p, "StagingCreated", "StagingCreated", "export")
           \/ JournalPhase(p, "ExportWritten", "ExportWritten", "qualification")
  BY <1>1, <1>2, <1>3, FinalizePhaseFInv
<1>4. CASE \/ JournalPhase(p, "FinalQualificationCopied", "QualificationBundleCopied", "json")
           \/ JournalPhase(p, "JsonReportWritten", "JsonReportWritten", "markdown")
           \/ JournalPhase(p, "MarkdownReportWritten", "MarkdownReportWritten", "ChecksumsWritten")
  BY <1>1, <1>2, <1>4, FinalizePhaseFInv
<1>5. CASE JournalPhase(p, "ChecksumsWritten", "ChecksumsWritten", "checksums")
  BY <1>1, <1>2, <1>5, FinalizePhaseFInv
<1>6. CASE \/ JournalPhase(p, "EvidenceActivated", "EvidenceActivated", "finalState")
           \/ JournalPhase(p, "FinalStateWritten", "FinalStateWritten", "clearFinalize")
  BY <1>1, <1>2, <1>6, FinalizePhaseFInv
<1> QED BY <1>3, <1>4, <1>5, <1>6

LEMMA JournalFinalizeFInv ==
  ASSUME IInv, FInv, NEW p \in Operators, NEW o \in Outs, JournalFinalize(p, o)
  PROVE  FInv'
<1>1. /\ Step(p, "finalize", "archive") /\ pc[p] = "finalize"
      /\ ActiveIn(runs) # {} /\ artifacts.out[o] = Absent
      /\ journal' = [kind |-> "finalize", phase |-> "Prepared", run |-> ActiveId(runs),
                     before |-> runs, out |-> o]
      /\ UNCHANGED <<runs, artifacts>>
  BY DEF JournalFinalize, Step
<1>2. journal = NoJournal
  BY <1>1 DEF IInv, Fits, Commands
<1>3. Base = runs /\ Busy = {} /\ Held = {} /\ runs \in Seq(Run)
  BY <1>2, InNone
<1>4. /\ ActiveIn(runs) = {Len(runs)} /\ Len(runs) \in DOMAIN runs
      /\ runs[Len(runs)].status = "active" /\ ActiveId(runs) = runs[Len(runs)].id
  BY <1>1 DEF IInv, TypeOK, ActiveIn, ActiveId
<1> DEFINE r == runs[Len(runs)].id
<1>5. /\ journal'.kind = "finalize" /\ journal'.phase = "Prepared" /\ journal'.run = r
      /\ journal'.before = runs /\ journal'.out = o /\ journal' # NoJournal
  BY <1>1, <1>4 DEF NoJournal
<1>6. Base' = Base /\ Busy' = {r} /\ Held' = {o} /\ BaseIds' = BaseIds
  BY <1>3, <1>5 DEF Base, Busy, Held, BaseIds
<1>7. FilesAgree /\ artifacts.staging = Absent
  BY <1>2, InNone DEF FInv, JournalFiles
<1>8. RunsAgree' /\ OutsAgree'
  BY <1>1, <1>3, <1>6, <1>7 DEF FilesAgree, RunsAgree, OutsAgree, Exported, EvidenceVerifies,
                                BundleValid, Absent
<1>9. FilesAgree'
  BY <1>1, <1>3, <1>6, <1>7, <1>8 DEF FilesAgree, Leftover
<1>10. JournalFiles'
  BY <1>1, <1>5, <1>7 DEF JournalFiles, FinalizeFiles, Absent
<1>11. "archive" \in FinalizeSteps \ SealedSteps /\ "archive" \in FinalizeLabels
       /\ "archive" \notin RecoverFinalizeSteps \cup CompletingSteps \cup PublishedSteps
       /\ "finalize" \in Labels /\ "Prepared" \notin SealedPhases
  BY DEF FinalizeSteps, SealedSteps, FinalizeLabels, RecoverFinalizeSteps, CompletingSteps,
         PublishedSteps, Labels, Commands, SealedPhases
<1>12. FinalizeFits("archive")'
  BY <1>5, <1>11 DEF FinalizeFits
<1>13. FilesFit("archive")'
  BY <1>11, <1>12, FinalizeLabelFits
<1> QED BY <1>1, <1>9, <1>10, <1>11, <1>13, StepFInv

LEMMA ArchiveStateFInv ==
  ASSUME IInv, FInv, NEW p \in Operators, ArchiveState(p)
  PROVE  FInv'
<1>1. /\ Step(p, "archive", "ArchivedStateWritten") /\ pc[p] = "archive"
      /\ UNCHANGED <<journal, artifacts>>
  BY DEF ArchiveState, Step
<1>2. /\ "archive" \in FinalizeSteps \ SealedSteps /\ "archive" \in FinalizeLabels
      /\ "ArchivedStateWritten" \in FinalizeLabels /\ "archive" \in Labels
      /\ "ArchivedStateWritten" \notin RecoverFinalizeSteps \cup CompletingSteps
                                          \cup PublishedSteps \cup SealedSteps
  BY DEF FinalizeSteps, SealedSteps, FinalizeLabels, RecoverFinalizeSteps, CompletingSteps,
         PublishedSteps, Labels
<1>3. journal.kind = "finalize" /\ journal.phase \notin SealedPhases
  BY <1>1, <1>2, FinalizeFacts DEF FinalizeFits
<1>4. FinalizeFits("ArchivedStateWritten")'
  BY <1>1, <1>2, <1>3 DEF FinalizeFits
<1>5. FilesAgree' /\ JournalFiles' /\ FilesFit("ArchivedStateWritten")'
  BY <1>1, <1>2, <1>3, <1>4, FinalizeKeeps, FinalizeLabelFits
<1> QED BY <1>1, <1>2, <1>5, StepFInv

LEMMA WriteFinalStateFInv ==
  ASSUME IInv, FInv, NEW p \in Operators, WriteFinalState(p)
  PROVE  FInv'
<1>1. /\ Step(p, "finalState", "FinalStateWritten") /\ pc[p] = "finalState"
      /\ UNCHANGED <<journal, artifacts>> /\ runs' = Archived /\ EvidenceVerified
  BY DEF WriteFinalState, Step, Archived, EvidenceVerified
<1>2. /\ "finalState" \in SealedSteps /\ "finalState" \in FinalizeLabels
      /\ "FinalStateWritten" \in FinalizeLabels /\ "finalState" \in Labels
      /\ "finalState" \in PublishedSteps
      /\ "FinalStateWritten" \notin RecoverFinalizeSteps \cup CompletingSteps
      /\ "FinalStateWritten" \in SealedSteps
  BY DEF FinalizeSteps, SealedSteps, FinalizeLabels, RecoverFinalizeSteps, CompletingSteps,
         PublishedSteps, Labels
<1>3. /\ journal.kind = "finalize" /\ journal.phase \in SealedPhases
      /\ artifacts.staging = Absent
  BY <1>1, <1>2, FinalizeFacts DEF FinalizeFits
<1>4. EvidenceVerified' /\ runs' = Archived'
  BY <1>1 DEF EvidenceVerified, EvidenceVerifies, Archived, Archive
<1>5. FinalizeFits("FinalStateWritten")'
  BY <1>1, <1>2, <1>3, <1>4 DEF FinalizeFits
<1>6. FilesAgree' /\ JournalFiles' /\ FilesFit("FinalStateWritten")'
  BY <1>1, <1>2, <1>3, <1>5, FinalizeKeeps, FinalizeLabelFits
<1> QED BY <1>1, <1>2, <1>6, StepFInv

\* The steps that build the evidence in its staging directory.
BuildsEvidence(p) ==
    \/ CreateStaging(p) \/ ExportFinal(p)
    \/ WriteEvidence(p, "qualification", "qualification", "FinalQualificationCopied")
    \/ WriteEvidence(p, "json", "json", "JsonReportWritten")
    \/ WriteEvidence(p, "markdown", "markdown", "MarkdownReportWritten")
    \/ WriteEvidence(p, "checksums", "checksums", "rename")

LEMMA BuildsEvidenceFInv ==
  ASSUME IInv, FInv, NEW p \in Operators, BuildsEvidence(p)
  PROVE  FInv'
<1>1. ASSUME NEW from \in {"staging", "export", "qualification", "json", "markdown", "checksums"},
             NEW to \in {"StagingCreated", "ExportWritten", "FinalQualificationCopied",
                         "JsonReportWritten", "MarkdownReportWritten", "rename"},
             Step(p, from, to), UNCHANGED <<runs, journal>>, OnlyThisEvidence,
             artifacts'.out = artifacts.out,
             from # "checksums" =>
                 "checksums" \notin artifacts'.staging.files
                 \/ "checksums" \in artifacts.staging.files,
             to = "rename" <=> from = "checksums",
             artifacts'.staging.run \in {artifacts.staging.run, journal.run}
      PROVE  FInv'
  <2>1. /\ from \in FinalizeLabels /\ to \in FinalizeLabels
        /\ from \in (FinalizeSteps \ SealedSteps) \cup {"checksums"} /\ "checksums" \in SealedSteps
        /\ to \in (FinalizeSteps \ SealedSteps) \cup {"rename"} /\ "rename" \in SealedSteps
        /\ to \notin PublishedSteps \cup RecoverFinalizeSteps \cup CompletingSteps
    BY DEF FinalizeLabels, FinalizeSteps, SealedSteps, PublishedSteps, RecoverFinalizeSteps,
           CompletingSteps
  <2>2. pc[p] = from
    BY <1>1 DEF Step
  <2>3. journal.kind = "finalize" /\ FinalizeFits(from) /\ FilesAgree /\ FinalizeFiles
    BY <2>1, <2>2, FinalizeFacts
  <2>4. /\ from # "checksums" => journal.phase \notin SealedPhases
        /\ from = "checksums" => journal.phase \in SealedPhases
    BY <2>1, <2>3 DEF FinalizeFits
  <2>5. journal.out \in Outs /\ Held = {journal.out} /\ Busy = {journal.run}
    BY <2>3, InFinalize
  <2>6. artifacts'.out[journal.out].run \in {NoRun, journal.run}
    BY <1>1, <2>3, <2>5 DEF FilesAgree, OutsAgree
  <2>7. artifacts'.staging.run \in {NoRun, journal.run}
    BY <1>1, <2>3 DEF FinalizeFiles
  <2>8. journal.phase \notin SealedPhases =>
            "checksums" \notin artifacts'.staging.files /\ artifacts'.out[journal.out] = Absent
    BY <1>1, <2>3, <2>4 DEF FinalizeFiles
  <2>9. FinalizeFits(to)'
    BY <1>1, <2>1, <2>4 DEF FinalizeFits
  <2> QED BY <1>1, <2>1, <2>3, <2>6, <2>7, <2>8, <2>9, EvidenceFInv
<1>2. artifacts \in Artifacts /\ artifacts.staging \in Evidence /\ artifacts.export \subseteq RunIds
  BY DEF IInv, TypeOK, Artifacts
<1>3. CASE CreateStaging(p)
  <2>1. /\ Step(p, "staging", "StagingCreated") /\ UNCHANGED <<runs, journal>>
        /\ artifacts' = [artifacts EXCEPT !.staging =
                            [run |-> journal.run, files |-> {}, covers |-> readLen[p]]]
    BY <1>3 DEF CreateStaging
  <2>2. /\ artifacts'.staging.run = journal.run /\ artifacts'.staging.files = {}
        /\ OnlyThisEvidence /\ artifacts'.out = artifacts.out
    BY <1>2, <2>1 DEF Artifacts, OnlyThisEvidence
  <2> QED BY <1>1, <2>1, <2>2
<1>4. CASE ExportFinal(p)
  <2>1. /\ Step(p, "export", "ExportWritten") /\ pc[p] = "export" /\ UNCHANGED <<runs, journal>>
        /\ artifacts' = [artifacts EXCEPT !.export = @ \cup {journal.run}]
    BY <1>4 DEF ExportFinal, Step
  <2>2. journal.run \in RunIds
    BY <2>1, InFinalize DEF IInv, Fits, FinalizeSteps
  <2>3. /\ artifacts'.staging = artifacts.staging /\ artifacts'.out = artifacts.out
        /\ OnlyThisEvidence
    BY <1>2, <2>1, <2>2 DEF Artifacts, OnlyThisEvidence
  <2> QED BY <1>1, <2>1, <2>3
<1>5. ASSUME NEW file \in EvidenceFiles, UNCHANGED <<runs, journal>>,
             artifacts' = [artifacts EXCEPT !.staging.files = @ \cup {file}]
      PROVE  /\ OnlyThisEvidence /\ artifacts'.out = artifacts.out
             /\ artifacts'.staging.run = artifacts.staging.run
             /\ artifacts'.staging.files = artifacts.staging.files \cup {file}
  BY <1>2, <1>5 DEF Artifacts, Evidence, OnlyThisEvidence
<1>6. ASSUME NEW file \in {"qualification", "json", "markdown"},
             NEW to \in {"FinalQualificationCopied", "JsonReportWritten", "MarkdownReportWritten"},
             WriteEvidence(p, file, file, to)
      PROVE  FInv'
  <2>1. /\ Step(p, file, to) /\ UNCHANGED <<runs, journal>>
        /\ artifacts' = [artifacts EXCEPT !.staging.files = @ \cup {file}]
        /\ file \in EvidenceFiles /\ file # "checksums"
    BY <1>6 DEF WriteEvidence, EvidenceFiles
  <2>2. PICK f \in EvidenceFiles : f = file
    BY <2>1
  <2>3. /\ OnlyThisEvidence /\ artifacts'.out = artifacts.out
        /\ artifacts'.staging.run = artifacts.staging.run
        /\ artifacts'.staging.files = artifacts.staging.files \cup {f}
    BY <1>5, <2>1, <2>2
  <2>4. "checksums" \in artifacts'.staging.files => "checksums" \in artifacts.staging.files
    BY <2>1, <2>2, <2>3
  <2> QED BY <1>1, <2>1, <2>3, <2>4
<1>7. CASE WriteEvidence(p, "checksums", "checksums", "rename")
  <2>1. /\ Step(p, "checksums", "rename") /\ UNCHANGED <<runs, journal>>
        /\ artifacts' = [artifacts EXCEPT !.staging.files = @ \cup {"checksums"}]
        /\ "checksums" \in EvidenceFiles
    BY <1>7 DEF WriteEvidence, EvidenceFiles
  <2>2. /\ OnlyThisEvidence /\ artifacts'.out = artifacts.out
        /\ artifacts'.staging.run = artifacts.staging.run
    BY <1>5, <2>1
  <2> QED BY <1>1, <2>1, <2>2
<1> QED BY <1>3, <1>4, <1>6, <1>7 DEF BuildsEvidence

\* The evidence is renamed into place, by finalize or by recovery.
LEMMA PublishFields ==
  ASSUME IInv, journal.kind = "finalize",
         artifacts' = [artifacts EXCEPT !.out[journal.out] = artifacts.staging, !.staging = Absent]
  PROVE  /\ OnlyThisEvidence /\ artifacts'.export = artifacts.export
         /\ artifacts'.staging = Absent /\ artifacts'.out[journal.out] = artifacts.staging
<1>1. /\ artifacts \in Artifacts /\ artifacts.out \in [Outs -> Evidence] /\ journal.out \in Outs
      /\ artifacts.export \subseteq RunIds
  BY InFinalize DEF IInv, TypeOK, Artifacts
<1> DEFINE out == [artifacts.out EXCEPT ![journal.out] = artifacts.staging]
<1>2. out[journal.out] = artifacts.staging /\ \A o \in Outs \ {journal.out} : out[o] = artifacts.out[o]
  BY <1>1
<1>3. artifacts' = [artifacts EXCEPT !.out = out, !.staging = Absent]
  BY <1>1 DEF Artifacts
<1> HIDE DEF out
<1>4. /\ artifacts'.out = out /\ artifacts'.staging = Absent /\ artifacts'.export = artifacts.export
      /\ artifacts'.backup = artifacts.backup /\ artifacts'.bundle = artifacts.bundle
  BY <1>1, <1>3 DEF Artifacts
<1> QED BY <1>1, <1>2, <1>4 DEF OnlyThisEvidence

LEMMA RenameEvidenceFInv ==
  ASSUME IInv, FInv, NEW p \in Operators, RenameEvidence(p)
  PROVE  FInv'
<1>1. /\ Step(p, "rename", "EvidenceActivated") /\ pc[p] = "rename" /\ UNCHANGED <<runs, journal>>
      /\ artifacts' = [artifacts EXCEPT !.out[journal.out] = artifacts.staging, !.staging = Absent]
  BY DEF RenameEvidence, Step
<1>2. /\ "rename" \in SealedSteps /\ "rename" \in FinalizeLabels
      /\ "EvidenceActivated" \in FinalizeLabels /\ "EvidenceActivated" \in SealedSteps
      /\ "EvidenceActivated" \notin RecoverFinalizeSteps \cup CompletingSteps
  BY DEF SealedSteps, FinalizeLabels, FinalizeSteps, PublishedSteps, RecoverFinalizeSteps,
         CompletingSteps
<1>3. journal.kind = "finalize" /\ journal.phase \in SealedPhases /\ FinalizeFiles
  BY <1>1, <1>2, FinalizeFacts DEF FinalizeFits
<1>4. /\ OnlyThisEvidence /\ artifacts'.staging = Absent
      /\ artifacts'.out[journal.out] = artifacts.staging
  BY <1>1, <1>3, PublishFields
<1>5. /\ artifacts'.out[journal.out].run \in {NoRun, journal.run}
      /\ artifacts'.staging.run \in {NoRun, journal.run}
  BY <1>3, <1>4 DEF FinalizeFiles, Absent
<1>6. FinalizeFits("EvidenceActivated")'
  BY <1>1, <1>2, <1>3, <1>4 DEF FinalizeFits
<1> QED BY <1>1, <1>2, <1>3, <1>4, <1>5, <1>6, EvidenceFInv

-----------------------------------------------------------------------------
\* Recovery of a finalization

\* Evidence that verifies was sealed.
LEMMA VerifiedIsSealed ==
  ASSUME IInv, FInv, journal.kind = "finalize", Published \/ Publishable
  PROVE  journal.phase \in SealedPhases
<1>1. FinalizeFiles /\ journal.run \in RunIds /\ NoRun \notin RunIds
  BY InFinalize, TransactionConstants DEF FInv, JournalFiles
<1>2. CASE Published
  <2>1. artifacts.out[journal.out] # Absent
    BY <1>1, <1>2 DEF Published, EvidenceVerifies, Absent
  <2> QED BY <1>1, <2>1 DEF FinalizeFiles
<1>3. CASE Publishable
  <2>1. "checksums" \in artifacts.staging.files
    BY <1>3 DEF Publishable, EvidenceVerifies, EvidenceFiles
  <2> QED BY <1>1, <2>1 DEF FinalizeFiles
<1> QED BY <1>2, <1>3

LEMMA RecoverLabels ==
  /\ "reconcile" \in Labels /\ "reconcile" \in FinalizeLabels \cup {"reconcile"}
  /\ {"recoverState", "dropStaging", "clearFinalized"} \subseteq FinalizeLabels \cap CompletingSteps
  /\ {"discardOut", "discardExport", "restoreOriginal"}
         \subseteq FinalizeLabels \cap (RecoverFinalizeSteps \ CompletingSteps)
  /\ {"recoverState", "dropStaging", "clearFinalized", "discardOut", "discardExport",
      "restoreOriginal"} \cap FinalizeSteps = {}
  /\ PublishedSteps \subseteq SealedSteps /\ SealedSteps \subseteq FinalizeSteps
  /\ {"FinalStateWritten", "clearFinalize"} \subseteq FinalizeSteps
BY FinalizeSets DEF Labels, FinalizeLabels, CompletingSteps, RecoverFinalizeSteps, FinalizeSteps

LEMMA RecoverPublishedFInv ==
  ASSUME IInv, FInv, NEW p \in Operators, RecoverPublished(p) \/ RecoverRename(p)
  PROVE  FInv'
<1>1. journal.kind = "finalize" /\ journal.phase \in SealedPhases
  BY VerifiedIsSealed DEF RecoverPublished, RecoverRename
<1>2. FinalizeFiles /\ FilesAgree /\ journal.out \in Outs /\ Held = {journal.out} /\ Busy = {journal.run}
  BY <1>1, InFinalize DEF FInv, JournalFiles
<1>3. CASE RecoverPublished(p)
  <2>1. /\ Step(p, "reconcile", "recoverState") /\ UNCHANGED <<runs, journal, artifacts>>
        /\ EvidenceVerified
    BY <1>3 DEF RecoverPublished, disk, Published, EvidenceVerified
  <2>2. EvidenceVerified'
    BY <2>1 DEF EvidenceVerified, EvidenceVerifies
  <2>3. FinalizeFits("recoverState")'
    BY <1>1, <2>1, <2>2, RecoverLabels DEF FinalizeFits
  <2>4. FilesFit("recoverState")'
    BY <2>3, RecoverLabels, FinalizeLabelFits
  <2> QED BY <2>1, <2>4, RecoverLabels, QuietStep
<1>4. CASE RecoverRename(p)
  <2>1. /\ Step(p, "reconcile", "recoverState") /\ UNCHANGED <<runs, journal>>
        /\ artifacts' = [artifacts EXCEPT !.out[journal.out] = artifacts.staging,
                                          !.staging = Absent]
        /\ EvidenceVerifies(artifacts.staging, journal.run)
    BY <1>4 DEF RecoverRename, Publishable
  <2>2. /\ OnlyThisEvidence /\ artifacts'.staging = Absent /\ artifacts'.export = artifacts.export
        /\ artifacts'.out[journal.out] = artifacts.staging
    BY <1>1, <2>1, PublishFields
  <2>3. EvidenceVerified'
    BY <2>1, <2>2 DEF EvidenceVerified, EvidenceVerifies
  <2>4. /\ artifacts'.out[journal.out].run \in {NoRun, journal.run}
        /\ artifacts'.staging.run \in {NoRun, journal.run}
    BY <1>2, <2>2 DEF FinalizeFiles, Absent
  <2>5. FinalizeFits("recoverState")'
    BY <1>1, <2>1, <2>3, RecoverLabels DEF FinalizeFits
  <2> QED BY <1>1, <2>1, <2>2, <2>4, <2>5, RecoverLabels, EvidenceFInv
<1> QED BY <1>3, <1>4

LEMMA RecoverStateFInv ==
  ASSUME IInv, FInv, NEW p \in Operators, RecoverState(p)
  PROVE  FInv'
<1>1. /\ Step(p, "recoverState", "dropStaging") /\ pc[p] = "recoverState"
      /\ UNCHANGED <<journal, artifacts>> /\ runs' = Archived
  BY DEF RecoverState, Step, Archived
<1>2. journal.kind = "finalize" /\ journal.phase \in SealedPhases /\ EvidenceVerified
  BY <1>1, RecoverLabels, FinalizeFacts DEF FinalizeFits
<1>3. EvidenceVerified' /\ runs' = Archived'
  BY <1>1, <1>2 DEF EvidenceVerified, EvidenceVerifies, Archived, Archive
<1>4. FinalizeFits("dropStaging")'
  BY <1>1, <1>2, <1>3, RecoverLabels DEF FinalizeFits
<1>5. FilesAgree' /\ JournalFiles' /\ FilesFit("dropStaging")'
  BY <1>1, <1>2, <1>4, RecoverLabels, FinalizeKeeps, FinalizeLabelFits
<1>6. "recoverState" \in Labels /\ "recoverState" # "idle"
  BY DEF Labels, RecoverFinalizeSteps
<1> QED BY <1>1, <1>5, <1>6, StepFInv

\* The staging directory is dropped, behind published evidence or by a rollback.
LEMMA DropStagingFInv ==
  ASSUME IInv, FInv, NEW p \in Operators, DropStaging(p) \/ DiscardStaging(p)
  PROVE  FInv'
<1>1. /\ artifacts' = [artifacts EXCEPT !.staging = Absent] /\ UNCHANGED <<runs, journal>>
      /\ journal.kind = "finalize"
  <2>1. CASE DropStaging(p)
    BY <2>1, RecoverLabels, FinalizeFacts DEF DropStaging, Step
  <2>2. CASE DiscardStaging(p)
    BY <2>2 DEF DiscardStaging
  <2> QED BY <2>1, <2>2
<1>2. /\ artifacts'.staging = Absent /\ artifacts'.out = artifacts.out
      /\ artifacts'.export = artifacts.export /\ OnlyThisEvidence
  BY <1>1 DEF IInv, TypeOK, Artifacts, OnlyThisEvidence
<1>3. /\ FinalizeFiles /\ FilesAgree /\ journal.out \in Outs /\ Held = {journal.out}
      /\ Busy = {journal.run}
  BY <1>1, InFinalize DEF FInv, JournalFiles
<1>4. /\ artifacts'.out[journal.out].run \in {NoRun, journal.run}
      /\ artifacts'.staging.run \in {NoRun, journal.run}
      /\ journal.phase \notin SealedPhases =>
            "checksums" \notin artifacts'.staging.files /\ artifacts'.out[journal.out] = Absent
  BY <1>2, <1>3 DEF FilesAgree, OutsAgree, FinalizeFiles, Absent
<1>5. CASE DropStaging(p)
  <2>1. Step(p, "dropStaging", "clearFinalized") /\ pc[p] = "dropStaging"
    BY <1>5 DEF DropStaging, Step
  <2>2. journal.phase \in SealedPhases /\ EvidenceVerified /\ runs = Archived
    BY <2>1, RecoverLabels, FinalizeFacts DEF FinalizeFits
  <2>3. EvidenceVerified' /\ runs' = Archived'
    BY <1>1, <1>2, <2>2 DEF EvidenceVerified, EvidenceVerifies, Archived, Archive
  <2>4. FinalizeFits("clearFinalized")'
    BY <1>1, <1>2, <2>2, <2>3, RecoverLabels DEF FinalizeFits
  <2> QED BY <1>1, <1>2, <1>4, <2>1, <2>4, RecoverLabels, EvidenceFInv
<1>6. CASE DiscardStaging(p)
  <2>1. Step(p, "reconcile", "discardOut")
    BY <1>6 DEF DiscardStaging
  <2>2. FinalizeFits("discardOut")'
    BY <1>2, RecoverLabels DEF FinalizeFits
  <2> QED BY <1>1, <1>2, <1>4, <2>1, <2>2, RecoverLabels, EvidenceFInv
<1> QED BY <1>5, <1>6

LEMMA DiscardFInv ==
  ASSUME IInv, FInv, NEW p \in Operators, DiscardOut(p) \/ DiscardExport(p)
  PROVE  FInv'
<1>1. pc[p] \in {"discardOut", "discardExport"} /\ UNCHANGED <<runs, journal>>
  BY DEF DiscardOut, DiscardExport, Step
<1>2. /\ journal.kind = "finalize" /\ FilesAgree /\ FinalizeFiles
      /\ artifacts.staging = Absent
      /\ pc[p] = "discardExport" => artifacts.out[journal.out] = Absent
  BY <1>1, RecoverLabels, FinalizeFacts DEF FinalizeFits
<1>3. artifacts \in Artifacts /\ journal.out \in Outs /\ artifacts.export \subseteq RunIds
  BY <1>2, InFinalize DEF IInv, TypeOK, Artifacts
<1>4. CASE DiscardOut(p)
  <2>1. /\ Step(p, "discardOut", "discardExport")
        /\ artifacts' = [artifacts EXCEPT !.out[journal.out] = Absent]
    BY <1>4 DEF DiscardOut
  <2>2. /\ OnlyThisEvidence /\ artifacts'.staging = Absent /\ artifacts'.out[journal.out] = Absent
    BY <1>2, <1>3, <2>1 DEF Artifacts, OnlyThisEvidence
  <2>3. FinalizeFits("discardExport")'
    BY <1>1, <2>2, RecoverLabels DEF FinalizeFits
  <2>4. Absent.run = NoRun /\ "checksums" \notin Absent.files
    BY DEF Absent
  <2> QED BY <1>1, <1>2, <2>1, <2>2, <2>3, <2>4, RecoverLabels, EvidenceFInv
<1>5. CASE DiscardExport(p)
  <2>1. /\ Step(p, "discardExport", "restoreOriginal") /\ pc[p] = "discardExport"
        /\ artifacts' = [artifacts EXCEPT !.export = @ \ {journal.run}]
    BY <1>5 DEF DiscardExport, Step
  <2>2. /\ OnlyThisEvidence /\ artifacts'.staging = Absent /\ artifacts'.out[journal.out] = Absent
        /\ journal.run \notin artifacts'.export
    BY <1>2, <1>3, <2>1 DEF Artifacts, OnlyThisEvidence
  <2>3. FinalizeFits("restoreOriginal")'
    BY <1>1, <2>2, RecoverLabels DEF FinalizeFits
  <2>4. Absent.run = NoRun /\ "checksums" \notin Absent.files
    BY DEF Absent
  <2> QED BY <1>1, <1>2, <2>1, <2>2, <2>3, <2>4, RecoverLabels, EvidenceFInv
<1> QED BY <1>4, <1>5

LEMMA RestoreOriginalFInv ==
  ASSUME IInv, FInv, NEW p \in Operators, RestoreOriginal(p)
  PROVE  FInv'
<1>1. /\ Step(p, "restoreOriginal", "clearRollback") /\ pc[p] = "restoreOriginal"
      /\ UNCHANGED <<journal, artifacts>> /\ runs' = journal.before
  BY DEF RestoreOriginal, Step
<1>2. /\ journal.kind = "finalize" /\ artifacts.staging = Absent
      /\ artifacts.out[journal.out] = Absent /\ journal.run \notin artifacts.export
  BY <1>1, RecoverLabels, FinalizeFacts DEF FinalizeFits
<1>3. RolledBack'
  BY <1>1, <1>2 DEF RolledBack, NoJournal
<1>4. FilesAgree' /\ JournalFiles' /\ FilesFit("clearRollback")'
  BY <1>1, <1>2, <1>3, FinalizeKeeps, ClearRollbackFits
<1>5. "restoreOriginal" \in Labels /\ "restoreOriginal" # "idle"
  BY DEF Labels, RecoverFinalizeSteps
<1> QED BY <1>1, <1>4, <1>5, StepFInv

-----------------------------------------------------------------------------
\* Every step of an operator

LEMMA AbortFInv ==
  ASSUME IInv, FInv, NEW p \in Operators, Abort(p)
  PROVE  FInv'
<1>1. pc[p] = "abort" /\ pc[p] # "idle" /\ Exit(p) /\ UNCHANGED <<journal, artifacts>>
  BY DEF Abort
<1>2. journal = NoJournal
  BY <1>1 DEF IInv, Fits, Commands
<1>3. /\ Base = runs /\ Busy = {} /\ Held = {} /\ runs \in Seq(Run) /\ FilesAgree
      /\ artifacts.staging = Absent
  BY <1>2, InNone DEF FInv, JournalFiles
<1>4. Base' = runs' /\ Busy' = {} /\ Held' = {}
  BY <1>1, <1>2, <1>3 DEF Base, Busy, Held
<1>5. PICK i \in ActiveIn(runs) : runs' = [runs EXCEPT ![i].status = "aborted"]
  BY DEF Abort
<1> DEFINE rec == [runs[i] EXCEPT !.status = "aborted"]
<1>6. i \in DOMAIN runs /\ runs[i] \in Run /\ runs[i].status = "active"
  BY <1>3, <1>5 DEF ActiveIn
<1>7. rec.id = runs[i].id /\ rec.exported = runs[i].exported /\ rec.status = "aborted"
  BY <1>6 DEF Run
<1>8. runs' = [runs EXCEPT ![i] = rec]
  BY <1>5
<1> HIDE DEF rec
<1>9. /\ DOMAIN runs' = DOMAIN runs
      /\ \A j \in DOMAIN runs :
            /\ runs'[j].id = runs[j].id /\ runs'[j].exported = runs[j].exported
            /\ runs'[j].status = "finalized" <=> runs[j].status = "finalized"
  BY <1>6, <1>7, <1>8
<1>10. BaseIds' = BaseIds
  BY <1>3, <1>4, <1>9 DEF BaseIds
<1>11. RunsAgree'
  <2>1. \A j \in DOMAIN runs : Exported(runs[j]) => Exported(runs[j])'
    BY <1>1, <1>9 DEF Exported, EvidenceVerifies
  <2> QED BY <1>1, <1>3, <1>4, <1>9, <2>1 DEF FilesAgree, RunsAgree, BundleValid
<1>12. OutsAgree'
  BY <1>1, <1>3, <1>4, <1>9 DEF FilesAgree, OutsAgree
<1>13. FilesAgree'
  BY <1>1, <1>3, <1>4, <1>9, <1>10, <1>11, <1>12 DEF FilesAgree, Leftover
<1>14. JournalFiles'
  BY <1>1, <1>2, <1>3 DEF JournalFiles, NoJournal
<1> QED BY <1>1, <1>13, <1>14, ExitIsQuiet, QuietFInv

LEMMA QuietExitFInv ==
  ASSUME IInv, FInv, NEW p \in Operators, Status(p) \/ Bail(p) \/ Crash(p) \/ Review(p)
  PROVE  FInv'
<1>1. pc[p] # "idle" /\ Exit(p) /\ UNCHANGED <<runs, journal, artifacts>>
  BY DEF Status, Bail, Crash, Review, Commands, disk
<1> QED BY <1>1, SameFiles, ExitIsQuiet, QuietFInv DEF FInv

LEMMA BeginsOrFailsFInv ==
  ASSUME IInv, FInv, NEW p \in Operators, Fail(p) \/ \E c \in Commands : Begin(p, c)
  PROVE  FInv'
<1>1. UNCHANGED <<runs, journal, artifacts>> /\ pc' = [pc EXCEPT ![p] = "reconcile"]
  BY DEF Fail, Begin, disk
<1>2. \A q \in Operators : q # p => pc[q] = "idle"
  <2>1. CASE Fail(p)
    <3>1. pc[p] # "idle"
      BY <2>1, StartSets, FinalizeSets DEF Fail
    <3> QED BY <3>1, OthersIdle DEF IInv
  <2>2. CASE \E c \in Commands : Begin(p, c)
    BY <2>2 DEF Begin, IInv, Locks
  <2> QED BY <2>1, <2>2
<1>3. \A q \in Operators : pc'[q] \in Commands \cup {"idle", "reconcile"}
  BY <1>1, <1>2 DEF IInv, TypeOK
<1> QED BY <1>1, <1>3, SameFiles, QuietFInv DEF FInv

LEMMA StartCommandFInv ==
  ASSUME IInv, FInv, NEW p \in Operators, StartCommand(p)
  PROVE  FInv'
<1>1. CASE \E r \in RunIds : JournalStart(p, r)
  BY <1>1, JournalStartFInv
<1>2. CASE ExportBackup(p) \/ ReserveDirectory(p) \/ CopyBundle(p)
  BY <1>2, StartArtifactsFInv
<1>3. CASE WriteAutopilot(p) \/ WriteGateMode(p)
  BY <1>3, StartConfigFInv
<1>4. CASE Activate(p) \/ ClearJournal(p, "clearStart")
  BY <1>4, ActivateFInv, EndsFInv
<1> QED BY <1>1, <1>2, <1>3, <1>4, StartPhasesFInv DEF StartCommand

LEMMA FinalizeCommandFInv ==
  ASSUME IInv, FInv, NEW p \in Operators, FinalizeCommand(p)
  PROVE  FInv'
<1>1. CASE \E o \in Outs : JournalFinalize(p, o)
  BY <1>1, JournalFinalizeFInv
<1>2. CASE ArchiveState(p) \/ WriteFinalState(p)
  BY <1>2, ArchiveStateFInv, WriteFinalStateFInv
<1>3. CASE BuildsEvidence(p)
  BY <1>3, BuildsEvidenceFInv
<1>4. CASE RenameEvidence(p) \/ ClearJournal(p, "clearFinalize")
  BY <1>4, RenameEvidenceFInv, EndsFInv
<1> QED BY <1>1, <1>2, <1>3, <1>4, FinalizePhasesFInv DEF FinalizeCommand, BuildsEvidence

LEMMA ReconcileFInv ==
  ASSUME IInv, FInv, NEW p \in Operators, Reconcile(p)
  PROVE  FInv'
<1>1. CASE \/ ReconcileNothing(p) \/ ReconcileStartActivated(p) \/ ClearRollback(p)
           \/ ClearFinalized(p)
  BY <1>1, EndsFInv
<1>2. CASE RestoreState(p) \/ RestoreAutopilot(p) \/ RestoreGateMode(p)
  BY <1>2, RestoreStateFInv, RestoreConfigFInv
<1>3. CASE RemoveBackup(p) \/ RemoveBundle(p)
  BY <1>3, RemoveFInv
<1>4. CASE RecoverPublished(p) \/ RecoverRename(p)
  BY <1>4, RecoverPublishedFInv
<1>5. CASE RecoverState(p) \/ RestoreOriginal(p)
  BY <1>5, RecoverStateFInv, RestoreOriginalFInv
<1>6. CASE DropStaging(p) \/ DiscardStaging(p)
  BY <1>6, DropStagingFInv
<1>7. CASE DiscardOut(p) \/ DiscardExport(p)
  BY <1>7, DiscardFInv
<1> QED BY <1>1, <1>2, <1>3, <1>4, <1>5, <1>6, <1>7 DEF Reconcile

\* Writers that leave the operators and the files of the invariant alone.
LEMMA WritersFInv ==
  ASSUME FInv, UNCHANGED <<runs, journal, artifacts, pc>>
  PROVE  FInv'
<1>1. FilesAgree' /\ JournalFiles'
  BY SameFiles DEF FInv
<1>2. ASSUME NEW q \in Operators PROVE FilesFit(pc[q])'
  <2>1. FilesFit(pc[q])
    BY DEF FInv
  <2>2. StartFits(pc[q])'
    BY <2>1 DEF FilesFit, StartFits, Started, BundleValid
  <2>3. FinalizeFits(pc[q])'
    BY <2>1 DEF FilesFit, FinalizeFits, EvidenceVerified, EvidenceVerifies, Archived, Archive
  <2>4. RolledBack => RolledBack'
    BY DEF RolledBack, Leftover
  <2> QED BY <2>1, <2>2, <2>3, <2>4 DEF FilesFit
<1> QED BY <1>1, <1>2 DEF FInv

-----------------------------------------------------------------------------
LEMMA InitFInv == Init => FInv
<1> SUFFICES ASSUME Init PROVE FInv
  OBVIOUS
<1>1. /\ journal = NoJournal /\ journal.kind = "none" /\ runs = <<>> /\ DOMAIN runs = {}
      /\ Base = runs /\ Busy = {} /\ Held = {} /\ BaseIds = {}
  BY DEF Init, NoJournal, Base, Busy, Held, BaseIds
<1>2. FilesAgree
  BY <1>1 DEF Init, FilesAgree, RunsAgree, OutsAgree, Leftover
<1>3. JournalFiles
  BY <1>1 DEF Init, JournalFiles
<1>4. ASSUME NEW q \in Operators PROVE FilesFit(pc[q])
  <2>1. pc[q] = "idle" /\ FilesFit("idle")
    BY QuietLabels DEF Init
  <2> QED BY <2>1
<1> QED BY <1>2, <1>3, <1>4 DEF FInv

LEMMA NextFInv == IInv /\ FInv /\ [Next]_vars => FInv'
<1> SUFFICES ASSUME IInv, FInv, [Next]_vars PROVE FInv'
  OBVIOUS
<1>1. CASE UNCHANGED vars
  BY <1>1, WritersFInv DEF vars, disk, local
<1>2. CASE \E p \in Operators : Operator(p)
  BY <1>2, ReconcileFInv, StartCommandFInv, FinalizeCommandFInv, AbortFInv, QuietExitFInv
     DEF Operator
<1>3. CASE \E p \in Operators : Crash(p) \/ Fail(p) \/ \E c \in Commands : Begin(p, c)
  BY <1>3, QuietExitFInv, BeginsOrFailsFInv
<1>4. CASE RecordDecision
  BY <1>4, WritersFInv DEF RecordDecision, local
<1>5. CASE \E field \in {"gateMode", "autopilot"}, mode \in Modes : SetConfig(field, mode)
  BY <1>5, WritersFInv DEF SetConfig, local
<1>6. CASE \E g \in Gates : GateEvaluate(g) \/ GateAppend(g) \/ GateRetry(g)
  BY <1>6, WritersFInv DEF GateEvaluate, GateAppend, GateRetry, disk, local
<1> QED BY <1>1, <1>2, <1>3, <1>4, <1>5, <1>6 DEF Next

LEMMA FilesInvariant == Spec => [](IInv /\ FInv)
BY InitIInv, NextIInv, InitFInv, NextFInv, PTL DEF Spec

\* With no transaction pending the files agree with each other, whatever crashed,
\* failed or recovered before.
THEOREM SettledFilesAgreeHolds == Spec => []SettledFilesAgree
<1>1. IInv /\ FInv => SettledFilesAgree
  <2> SUFFICES ASSUME IInv, FInv, journal = NoJournal PROVE SettledFilesAgree
    BY DEF SettledFilesAgree
  <2>1. /\ Base = runs /\ Busy = {} /\ Held = {} /\ FilesAgree /\ BaseIds = RunsInState
        /\ artifacts.staging = Absent
    BY InNone DEF FInv, JournalFiles, BaseIds, RunsInState
  <2>2. \A i \in DOMAIN runs :
            /\ runs[i].id \in artifacts.backup /\ BundleValid(runs[i].id)
            /\ runs[i].exported <=> runs[i].status = "finalized"
            /\ runs[i].exported <=> runs[i].id \in artifacts.export
            /\ runs[i].exported <=> \E o \in Outs : EvidenceVerifies(artifacts.out[o], runs[i].id)
    BY <2>1 DEF FilesAgree, RunsAgree, Exported
  <2>3. \A o \in Outs : artifacts.out[o] = Absent \/ artifacts.out[o].run \in RunsInState
    BY <2>1 DEF FilesAgree, OutsAgree, RunsInState
  <2>4. \A r \in Orphans :
            artifacts.bundle[r] = (IF r \in artifacts.backup THEN "absent" ELSE "reserved")
    BY <2>1 DEF FilesAgree, Leftover, Orphans
  <2> QED BY <2>1, <2>2, <2>3, <2>4 DEF SettledFilesAgree
<1> QED BY <1>1, FilesInvariant, PTL

\* Recovery changes the run a writer records under only by lifting the block of a
\* sealed finalization.
LEMMA RecoveryContext ==
  ASSUME IInv, FInv, NEW p \in Operators, Reconcile(p)
  PROVE  RunContext \in {RunContext', "blocked"}
<1>1. ASSUME UNCHANGED <<runs, journal>> PROVE RunContext' = RunContext
  BY <1>1 DEF RunContext, ActiveId, ActiveIn
<1>2. ASSUME journal.kind = "finalize", UNCHANGED journal PROVE RunContext' = RunContext
  BY <1>2 DEF RunContext, ActiveId, ActiveIn
<1>3. CASE \/ ReconcileNothing(p) \/ RestoreAutopilot(p) \/ RestoreGateMode(p)
           \/ RemoveBackup(p) \/ RemoveBundle(p) \/ RecoverPublished(p) \/ RecoverRename(p)
           \/ DropStaging(p) \/ DiscardStaging(p) \/ DiscardOut(p) \/ DiscardExport(p)
  <2>1. UNCHANGED <<runs, journal>>
    BY <1>3 DEF ReconcileNothing, RestoreAutopilot, RestoreGateMode, RemoveBackup, RemoveBundle,
                RecoverPublished, RecoverRename, DropStaging, DiscardStaging, DiscardOut,
                DiscardExport, disk
  <2> QED BY <1>1, <2>1
<1>4. CASE RecoverState(p) \/ RestoreOriginal(p)
  <2>1. UNCHANGED journal /\ pc[p] \in {"recoverState", "restoreOriginal"}
    BY <1>4 DEF RecoverState, RestoreOriginal, Step
  <2> QED BY <1>2, <2>1, RecoverLabels, FinalizeFacts
<1>5. CASE RestoreState(p)
  <2>1. UNCHANGED <<runs, journal>>
    BY <1>5, StartedIsValid DEF RestoreState
  <2> QED BY <1>1, <2>1
<1>6. ASSUME journal' = NoJournal, UNCHANGED runs PROVE RunContext' = ActiveId(runs)
  BY <1>6 DEF RunContext, NoJournal, ActiveId, ActiveIn
<1>7. CASE ReconcileStartActivated(p)
  <2>1. RunContext = ActiveId(runs)
    BY <1>7 DEF ReconcileStartActivated, StartActivationValid, RunContext
  <2> QED BY <1>6, <1>7, <2>1 DEF ReconcileStartActivated
<1>8. CASE ClearRollback(p)
  <2>1. runs = journal.before
    BY <1>8, AtStep DEF ClearRollback, Reconciled, FilesFit, RolledBack
  <2>2. RunContext \in {ActiveId(runs), "blocked"}
    BY <2>1 DEF RunContext
  <2> QED BY <1>6, <1>8, <2>2 DEF ClearRollback
<1>9. CASE ClearFinalized(p)
  <2>1. pc[p] = "clearFinalized"
    BY <1>9 DEF ClearFinalized, Reconciled
  <2>2. journal.kind = "finalize" /\ journal.phase \in SealedPhases
    BY <2>1, RecoverLabels, FinalizeFacts DEF FinalizeFits
  <2> QED BY <2>2 DEF RunContext
<1> QED BY <1>3, <1>4, <1>5, <1>7, <1>8, <1>9 DEF Reconcile

\* No step of a recovery changes the run that writers record under, except that it
\* lifts the block of a sealed finalization.
THEOREM RecoveryIsInvisible == Spec => RecoveryKeepsRunContext
<1>1. IInv /\ FInv =>
          [(\E p \in Operators : Reconcile(p)) => RunContext \in {RunContext', "blocked"}]_vars
  BY RecoveryContext
<1> QED BY <1>1, FilesInvariant, PTL DEF RecoveryKeepsRunContext

-----------------------------------------------------------------------------
(***************************************************************************)
(* DogfoodTransaction implements DogfoodRun: every step of the protocol is *)
(* a step of the atomic runs or changes nothing they show, for any number  *)
(* of operators, gates, run ids, evidence directories and modes.           *)
(***************************************************************************)

\* The ledger ends with the final review of the run being finalized.
Reviewed ==
    /\ Len(ledger) > journal.before[Len(journal.before)].from
    /\ LastEvent.kind = "review"

\* What was read of the ledger is still all of it, while an operator holds its lock.
StagedSteps ==
    {"StagingCreated", "export", "ExportWritten", "qualification", "FinalQualificationCopied",
     "json", "JsonReportWritten", "markdown", "MarkdownReportWritten", "ChecksumsWritten",
     "checksums"}
UnsealedSteps == {"archive", "ArchivedStateWritten", "staging"} \cup StagedSteps
Reads(l, n) ==
    /\ l \in BodySteps => n = Len(ledger)
    /\ l \in IntentSteps \ {"clearStart"} => journal.from = Len(ledger)
    /\ l \in UnsealedSteps => Reviewed
    /\ l \in StagedSteps =>
          artifacts.staging.run = journal.run /\ artifacts.staging.covers = Len(ledger)
    /\ l \in {"checksums", "rename"} => artifacts.out[journal.out] = Absent
    /\ l = "discardOut" => ~Published

\* Evidence that was published has left the staging directory.
OneEvidence ==
    journal.kind = "finalize" /\ artifacts.out[journal.out] # Absent => artifacts.staging = Absent

RInv == OneEvidence /\ \A p \in Operators : Reads(pc[p], readLen[p])

-----------------------------------------------------------------------------
\* RInv is an invariant.

LEMMA ReadSets ==
  /\ UnsealedSteps \cup {"rename"} \cup PublishedSteps = FinalizeSteps
  /\ StagedSteps \subseteq UnsealedSteps /\ UnsealedSteps \subseteq FinalizeSteps
  /\ IntentSteps \subseteq StartSteps
  /\ StartSteps \subseteq BodySteps /\ FinalizeSteps \subseteq BodySteps
  /\ {"checksums", "rename"} \subseteq FinalizeSteps
  /\ StartSteps \cap FinalizeSteps = {} /\ "discardOut" \notin BodySteps
  /\ UnsealedSteps \ {"checksums"} = FinalizeSteps \ SealedSteps
  /\ ({"rename"} \cup PublishedSteps) \cap UnsealedSteps = {} /\ "rename" \notin PublishedSteps
BY DEF UnsealedSteps, StagedSteps, PublishedSteps, SealedSteps, FinalizeSteps, IntentSteps,
       StartSteps, BodySteps, Commands

\* Outside command bodies nothing is remembered of the ledger.
LEMMA NoReads ==
  ASSUME NEW l, l \notin BodySteps, l # "discardOut", NEW n
  PROVE  Reads(l, n) /\ Reads(l, n)'
BY ReadSets DEF Reads

LEMMA ReadsAt ==
  ASSUME NEW q \in Operators, NEW l, NEW n, pc'[q] = l, readLen'[q] = n, Reads(l, n)'
  PROVE  Reads(pc[q], readLen[q])'
<1>1. (l \in BodySteps => n = Len(ledger')) => (pc'[q] \in BodySteps => readLen'[q] = Len(ledger'))
  OBVIOUS
<1> QED BY <1>1 DEF Reads

LEMMA StepRInv ==
  ASSUME IInv, NEW p \in Operators, NEW from \in Labels, NEW to, Step(p, from, to),
         from # "idle", OneEvidence', NEW n, n = readLen[p], Reads(to, n)'
  PROVE  RInv'
<1>1. /\ pc[p] = from /\ pc' = [pc EXCEPT ![p] = to] /\ pc \in [Operators -> Labels]
      /\ readLen' = readLen
  BY DEF Step, IInv, TypeOK
<1>2. \A q \in Operators : q # p => pc'[q] = "idle"
  BY <1>1, OthersIdle DEF IInv
<1>3. ASSUME NEW q \in Operators PROVE Reads(pc[q], readLen[q])'
  <2>1. CASE q = p
    <3>1. pc'[q] = to /\ readLen'[q] = n
      BY <1>1, <2>1
    <3> QED BY <3>1, ReadsAt
  <2>2. CASE q # p
    <3>1. PICK m : readLen'[q] = m
      OBVIOUS
    <3>2. pc'[q] = "idle" /\ "idle" \notin BodySteps
      BY <1>2, <2>2 DEF BodySteps, Commands, StartSteps, FinalizeSteps
    <3>3. Reads("idle", m)'
      BY <3>2, NoReads
    <3> QED BY <3>1, <3>2, <3>3, ReadsAt
  <2> QED BY <2>1, <2>2
<1> QED BY <1>3 DEF RInv

LEMMA QuietRInv ==
  ASSUME OneEvidence', \A q \in Operators : pc'[q] \notin BodySteps /\ pc'[q] # "discardOut"
  PROVE  RInv'
<1>1. ASSUME NEW q \in Operators PROVE Reads(pc[q], readLen[q])'
  <2>1. PICK l : pc'[q] = l
    OBVIOUS
  <2>2. PICK m : readLen'[q] = m
    OBVIOUS
  <2>3. Reads(l, m)'
    BY <2>1, NoReads
  <2> QED BY <2>1, <2>2, <2>3, ReadsAt
<1> QED BY <1>1 DEF RInv

LEMMA ExitRInv ==
  ASSUME IInv, OneEvidence', NEW p \in Operators, pc[p] # "idle", Exit(p)
  PROVE  RInv'
<1>1. \A q \in Operators : pc'[q] = "idle"
  BY ExitLocks DEF IInv
<1>2. "idle" \notin BodySteps
  BY DEF BodySteps, Commands, StartSteps, FinalizeSteps
<1> QED BY <1>1, <1>2, QuietRInv

\* A command body starts with the whole ledger read.
LEMMA ReconciledRInv ==
  ASSUME IInv, OneEvidence', NEW p \in Operators,
         NEW from \in {"reconcile", "clearRollback", "clearFinalized"}, NEW outcome,
         Reconciled(p, from, outcome), ledger' = ledger
  PROVE  RInv'
<1>1. pc[p] = from /\ pc[p] # "idle"
  BY DEF Reconciled
<1>2. CASE Exit(p)
  BY <1>1, <1>2, ExitRInv
<1>3. CASE /\ cmd[p] # "recover" /\ pc' = [pc EXCEPT ![p] = cmd[p]]
           /\ readLen' = [readLen EXCEPT ![p] = Len(ledger)]
  <2>1. cmd[p] \in Commands
    BY <1>1, <1>3 DEF IInv, Locks
  <2>2. \A q \in Operators : q # p => pc[q] = "idle"
    BY <1>1, OthersIdle DEF IInv
  <2>3. /\ pc'[p] \in Commands /\ readLen'[p] = Len(ledger')
        /\ \A q \in Operators : q # p => pc'[q] = "idle"
    BY <1>3, <2>1, <2>2 DEF IInv, TypeOK
  <2>4. ASSUME NEW q \in Operators PROVE Reads(pc[q], readLen[q])'
    <3>1. pc'[q] \notin StartSteps \cup FinalizeSteps \cup {"discardOut"}
      BY <2>3 DEF Commands, StartSteps, FinalizeSteps
    <3>2. pc'[q] \in BodySteps => readLen'[q] = Len(ledger')
      <4>1. "idle" \notin BodySteps
        BY DEF BodySteps, Commands, StartSteps, FinalizeSteps
      <4> QED BY <2>3, <4>1
    <3> QED BY <3>1, <3>2, ReadSets DEF Reads
  <2> QED BY <2>4 DEF RInv
<1> QED BY <1>2, <1>3 DEF Reconciled

\* Steps that are part of no finalization, or leave its evidence as it is.
LEMMA SameEvidenceStays ==
  ASSUME OneEvidence, UNCHANGED <<journal, artifacts>>
  PROVE  OneEvidence'
BY DEF OneEvidence

LEMMA NoEvidence ==
  ASSUME journal'.kind # "finalize" PROVE OneEvidence'
BY DEF OneEvidence

LEMMA WritersRInv ==
  ASSUME IInv, RInv, UNCHANGED <<journal, artifacts, pc, readLen>>,
         ledger' = ledger \/ ledgerLock = {}
  PROVE  RInv'
<1>1. OneEvidence'
  BY SameEvidenceStays DEF RInv
<1>2. ASSUME NEW q \in Operators PROVE Reads(pc[q], readLen[q])'
  <2>1. Reads(pc[q], readLen[q])
    BY DEF RInv
  <2>2. CASE ledger' = ledger
    <3>1. Published' = Published
      BY DEF Published, EvidenceVerifies, BundleValid
    <3>2. Reviewed' = Reviewed
      BY <2>2 DEF Reviewed, LastEvent
    <3> QED BY <2>1, <2>2, <3>1, <3>2 DEF Reads
  <2>3. CASE ledgerLock = {}
    <3>1. pc[q] \notin BodySteps
      BY <2>3 DEF IInv, Locks, BodySteps
    <3>2. Published' = Published
      BY DEF Published, EvidenceVerifies, BundleValid
    <3> QED BY <2>1, <3>1, <3>2, ReadSets DEF Reads
  <2> QED BY <2>2, <2>3
<1> QED BY <1>1, <1>2 DEF RInv

LEMMA ReadsOf ==
  ASSUME RInv, NEW p \in Operators, NEW l, NEW n, pc[p] = l, readLen[p] = n
  PROVE  Reads(l, n)
BY DEF RInv

\* A step of start: it has read the whole ledger, and an intended run says so.
LEMMA StartStepRInv ==
  ASSUME IInv, RInv, NEW p \in Operators, NEW from \in StartSteps \cup {"start"},
         NEW to \in StartSteps, Step(p, from, to), ledger' = ledger, journal'.kind = "start",
         to \in IntentSteps \ {"clearStart"} =>
             \/ journal'.from = readLen[p]
             \/ from \in IntentSteps \ {"clearStart"} /\ journal'.from = journal.from
  PROVE  RInv'
<1>0. PICK n : n = readLen[p]
  OBVIOUS
<1>1. /\ from \in Labels /\ from # "idle" /\ from \in BodySteps /\ pc[p] = from
      /\ to \notin FinalizeSteps \cup {"discardOut"}
  BY ReadSets, StartSets DEF Step, Labels, Commands, BodySteps
<1>2. Reads(from, n)
  BY <1>0, <1>1, ReadsOf
<1>3. n = Len(ledger) /\ (from \in IntentSteps \ {"clearStart"} => journal.from = Len(ledger))
  BY <1>1, <1>2 DEF Reads
<1>4. OneEvidence'
  BY NoEvidence
<1>5. Reads(to, n)'
  BY <1>0, <1>1, <1>3, ReadSets DEF Reads
<1> QED BY <1>0, <1>1, <1>4, <1>5, StepRInv

LEMMA StartCommandRInv ==
  ASSUME IInv, RInv, NEW p \in Operators, StartCommand(p)
  PROVE  RInv'
<1>1. ASSUME NEW from \in StartSteps, NEW phase, NEW to \in StartSteps,
             JournalPhase(p, from, phase, to),
             to \in IntentSteps \ {"clearStart"} => from \in IntentSteps \ {"clearStart"}
      PROVE  RInv'
  <2>1. Step(p, from, to) /\ ledger' = ledger /\ journal' = [journal EXCEPT !.phase = phase]
    BY <1>1 DEF JournalPhase
  <2>2. pc[p] \in StartSteps
    BY <2>1 DEF Step
  <2>3. journal \in StartJournal
    BY <2>2, InStart DEF IInv, Fits
  <2>4. journal'.kind = "start" /\ journal'.from = journal.from
    BY <2>1, <2>3 DEF StartJournal
  <2> QED BY <1>1, <2>1, <2>4, StartStepRInv
<1>2. ASSUME NEW from \in StartSteps, NEW to \in StartSteps, Step(p, from, to),
             ledger' = ledger, journal' = journal,
             to \in IntentSteps \ {"clearStart"} => from \in IntentSteps \ {"clearStart"}
      PROVE  RInv'
  <2>1. pc[p] \in StartSteps
    BY <1>2 DEF Step
  <2>2. journal.kind = "start"
    BY <2>1 DEF IInv, Fits
  <2> QED BY <1>2, <2>2, StartStepRInv
<1>3. CASE \E r \in RunIds : JournalStart(p, r)
  <2>1. PICK r \in RunIds : JournalStart(p, r)
    BY <1>3
  <2>2. Step(p, "start", "backup") /\ ledger' = ledger /\ journal'.kind = "start"
    BY <2>1 DEF JournalStart
  <2>3. "backup" \in StartSteps /\ "backup" \notin IntentSteps
    BY DEF StartSteps, IntentSteps
  <2> QED BY <2>2, <2>3, StartStepRInv
<1>4. CASE ExportBackup(p) \/ ReserveDirectory(p) \/ CopyBundle(p)
  <2>1. /\ {"backup", "BackupCreated", "directory", "QualificationDirectoryPrepared",
            "bundle", "QualificationBundleCopied"} \subseteq StartSteps \ IntentSteps
    BY DEF StartSteps, IntentSteps
  <2>2. CASE ExportBackup(p)
    BY <1>2, <2>1, <2>2 DEF ExportBackup
  <2>3. CASE ReserveDirectory(p)
    BY <1>2, <2>1, <2>3 DEF ReserveDirectory
  <2>4. CASE CopyBundle(p)
    BY <1>2, <2>1, <2>4 DEF CopyBundle
  <2> QED BY <1>4, <2>2, <2>3, <2>4
<1>5. CASE \/ JournalPhase(p, "BackupCreated", "BackupCreated", "directory")
           \/ JournalPhase(p, "QualificationDirectoryPrepared",
                           "QualificationDirectoryPrepared", "bundle")
           \/ JournalPhase(p, "QualificationBundleCopied", "QualificationBundleCopied",
                           "IntentRecorded")
  <2>1. {"BackupCreated", "directory", "QualificationDirectoryPrepared", "bundle",
         "QualificationBundleCopied", "IntentRecorded"} \subseteq StartSteps \ IntentSteps
    BY DEF StartSteps, IntentSteps
  <2> QED BY <1>1, <1>5, <2>1
<1>6. CASE JournalIntent(p)
  <2>1. /\ Step(p, "IntentRecorded", "autopilot") /\ ledger' = ledger
        /\ journal' = [journal EXCEPT !.phase = "IntentRecorded", !.from = readLen[p]]
        /\ "IntentRecorded" \in StartSteps /\ "autopilot" \in StartSteps
    BY <1>6 DEF JournalIntent, StartSteps
  <2>2. pc[p] \in StartSteps
    BY <2>1 DEF Step
  <2>3. journal \in StartJournal
    BY <2>2, InStart DEF IInv, Fits
  <2> DEFINE n == readLen[p]
  <2>4. journal' = [journal EXCEPT !.phase = "IntentRecorded", !.from = n]
    BY <2>1
  <2> HIDE DEF n
  <2>5. journal'.kind = "start" /\ journal'.from = n
    BY <2>3, <2>4 DEF StartJournal
  <2>6. journal'.from = readLen[p]
    BY <2>5 DEF n
  <2> QED BY <2>1, <2>5, <2>6, StartStepRInv
<1>7. CASE \/ JournalPhase(p, "AutopilotWritten", "AutopilotWritten", "gateMode")
           \/ JournalPhase(p, "GateModeWritten", "GateModeWritten", "activate")
           \/ WriteAutopilot(p) \/ WriteGateMode(p) \/ Activate(p)
  <2>1. /\ {"autopilot", "AutopilotWritten", "gateMode", "GateModeWritten", "activate"}
               \subseteq StartSteps \cap (IntentSteps \ {"clearStart"})
        /\ "clearStart" \in StartSteps
    BY DEF StartSteps, IntentSteps
  <2>2. CASE JournalPhase(p, "AutopilotWritten", "AutopilotWritten", "gateMode")
    BY <1>1, <2>1, <2>2
  <2>3. CASE JournalPhase(p, "GateModeWritten", "GateModeWritten", "activate")
    BY <1>1, <2>1, <2>3
  <2>4. CASE WriteAutopilot(p)
    BY <1>2, <2>1, <2>4 DEF WriteAutopilot
  <2>5. CASE WriteGateMode(p)
    BY <1>2, <2>1, <2>5 DEF WriteGateMode
  <2>6. CASE Activate(p)
    BY <1>2, <2>1, <2>6 DEF Activate
  <2> QED BY <1>7, <2>2, <2>3, <2>4, <2>5, <2>6
<1>8. CASE ClearJournal(p, "clearStart")
  <2>1. pc[p] # "idle" /\ Exit(p) /\ journal'.kind # "finalize"
    BY <1>8 DEF ClearJournal, NoJournal
  <2> QED BY <2>1, NoEvidence, ExitRInv
<1> QED BY <1>3, <1>4, <1>5, <1>6, <1>7, <1>8 DEF StartCommand

\* A step of finalize after the journal: what was read and reviewed stays so.
LEMMA FinalizeStepRInv ==
  ASSUME IInv, RInv, NEW p \in Operators, NEW from \in FinalizeSteps, NEW to \in FinalizeSteps,
         Step(p, from, to), ledger' = ledger, journal'.before = journal.before, OneEvidence',
         to \in UnsealedSteps => from \in UnsealedSteps,
         to \in StagedSteps =>
             \/ artifacts'.staging.run = journal'.run /\ artifacts'.staging.covers = readLen[p]
             \/ /\ from \in StagedSteps /\ journal'.run = journal.run
                /\ artifacts'.staging.run = artifacts.staging.run
                /\ artifacts'.staging.covers = artifacts.staging.covers,
         to \in {"checksums", "rename"} => artifacts'.out[journal'.out] = Absent
  PROVE  RInv'
<1>0. PICK n : n = readLen[p]
  OBVIOUS
<1>1. /\ from \in Labels /\ from # "idle" /\ from \in BodySteps /\ pc[p] = from
      /\ to \notin IntentSteps \cup {"discardOut"}
  BY ReadSets, FinalizeSets DEF Step
<1>2. Reads(from, n)
  BY <1>0, <1>1, ReadsOf
<1>3. /\ n = Len(ledger) /\ (from \in UnsealedSteps => Reviewed)
      /\ from \in StagedSteps =>
            artifacts.staging.run = journal.run /\ artifacts.staging.covers = Len(ledger)
  BY <1>1, <1>2 DEF Reads
<1>4. Reviewed => Reviewed'
  BY DEF Reviewed, LastEvent
<1>5. /\ to \in BodySteps => n = Len(ledger')
      /\ to \in UnsealedSteps => Reviewed'
      /\ to \in StagedSteps =>
            artifacts'.staging.run = journal'.run /\ artifacts'.staging.covers = Len(ledger')
  BY <1>0, <1>3, <1>4
<1>6. Reads(to, n)'
  BY <1>1, <1>5 DEF Reads
<1> QED BY <1>0, <1>1, <1>6, StepRInv

LEMMA UnsealedIsAbsent ==
  ASSUME IInv, FInv, NEW p \in Operators, pc[p] \in FinalizeSteps \ SealedSteps
  PROVE  journal.kind = "finalize" /\ artifacts.out[journal.out] = Absent
<1>1. journal.kind = "finalize" /\ FinalizeFits(pc[p]) /\ FinalizeFiles
  BY FinalizeFacts, FinalizeSets
<1> QED BY <1>1 DEF FinalizeFits, FinalizeFiles

LEMMA FinalizePhasesRInv ==
  ASSUME IInv, FInv, RInv, NEW p \in Operators,
         \/ JournalPhase(p, "ArchivedStateWritten", "ArchivedStateWritten", "staging")
         \/ JournalPhase(p, "StagingCreated", "StagingCreated", "export")
         \/ JournalPhase(p, "ExportWritten", "ExportWritten", "qualification")
         \/ JournalPhase(p, "FinalQualificationCopied", "QualificationBundleCopied", "json")
         \/ JournalPhase(p, "JsonReportWritten", "JsonReportWritten", "markdown")
         \/ JournalPhase(p, "MarkdownReportWritten", "MarkdownReportWritten", "ChecksumsWritten")
         \/ JournalPhase(p, "ChecksumsWritten", "ChecksumsWritten", "checksums")
         \/ JournalPhase(p, "EvidenceActivated", "EvidenceActivated", "finalState")
         \/ JournalPhase(p, "FinalStateWritten", "FinalStateWritten", "clearFinalize")
         \/ ArchiveState(p) \/ WriteFinalState(p)
  PROVE  RInv'
<1>1. ASSUME NEW from \in FinalizeSteps, NEW to \in FinalizeSteps, Step(p, from, to),
             UNCHANGED <<artifacts, ledger>>,
             \/ journal' = journal
             \/ \E phase : journal' = [journal EXCEPT !.phase = phase],
             to \in UnsealedSteps => from \in UnsealedSteps,
             to \in StagedSteps => from \in StagedSteps,
             to = "checksums" => from \notin SealedSteps,
             to # "rename"
      PROVE  RInv'
  <2>1. pc[p] = from
    BY <1>1 DEF Step
  <2>2. journal.kind = "finalize"
    BY <2>1 DEF IInv, Fits
  <2>3. journal \in FinalizeJournal
    BY <2>2, InFinalize
  <2>4. /\ journal'.kind = journal.kind /\ journal'.run = journal.run
        /\ journal'.before = journal.before /\ journal'.out = journal.out
    BY <1>1, <2>3 DEF FinalizeJournal
  <2>5. OneEvidence'
    BY <1>1, <2>4 DEF OneEvidence, RInv
  <2>6. to = "checksums" => artifacts'.out[journal'.out] = Absent
    BY <1>1, <2>1, <2>4, UnsealedIsAbsent
  <2> QED BY <1>1, <2>4, <2>5, <2>6, FinalizeStepRInv
<1>2. /\ {"StagingCreated", "export", "ExportWritten", "qualification", "FinalQualificationCopied",
          "json", "JsonReportWritten", "markdown", "MarkdownReportWritten", "ChecksumsWritten"}
             \subseteq (FinalizeSteps \cap StagedSteps) \ SealedSteps
      /\ {"archive", "ArchivedStateWritten", "staging"}
             \subseteq (FinalizeSteps \cap UnsealedSteps) \ (SealedSteps \cup StagedSteps)
      /\ {"EvidenceActivated", "finalState", "FinalStateWritten", "clearFinalize"}
             \subseteq FinalizeSteps \ (UnsealedSteps \cup StagedSteps)
      /\ "checksums" \in FinalizeSteps \cap StagedSteps
      /\ StagedSteps \subseteq UnsealedSteps
  BY DEF FinalizeSteps, StagedSteps, UnsealedSteps, SealedSteps, PublishedSteps
<1>3. ASSUME NEW from \in FinalizeSteps, NEW phase, NEW to \in FinalizeSteps,
             JournalPhase(p, from, phase, to),
             to \in UnsealedSteps => from \in UnsealedSteps,
             to \in StagedSteps => from \in StagedSteps,
             to = "checksums" => from \notin SealedSteps, to # "rename"
      PROVE  RInv'
  <2>1. Step(p, from, to) /\ UNCHANGED <<artifacts, ledger>>
        /\ journal' = [journal EXCEPT !.phase = phase]
    BY <1>3 DEF JournalPhase
  <2> QED BY <1>1, <1>3, <2>1
<1>4. CASE \/ JournalPhase(p, "ArchivedStateWritten", "ArchivedStateWritten", "staging")
           \/ JournalPhase(p, "StagingCreated", "StagingCreated", "export")
           \/ JournalPhase(p, "ExportWritten", "ExportWritten", "qualification")
           \/ JournalPhase(p, "FinalQualificationCopied", "QualificationBundleCopied", "json")
  BY <1>2, <1>3, <1>4
<1>5. CASE \/ JournalPhase(p, "JsonReportWritten", "JsonReportWritten", "markdown")
           \/ JournalPhase(p, "MarkdownReportWritten", "MarkdownReportWritten", "ChecksumsWritten")
           \/ JournalPhase(p, "ChecksumsWritten", "ChecksumsWritten", "checksums")
  BY <1>2, <1>3, <1>5
<1>6. CASE \/ JournalPhase(p, "EvidenceActivated", "EvidenceActivated", "finalState")
           \/ JournalPhase(p, "FinalStateWritten", "FinalStateWritten", "clearFinalize")
  BY <1>2, <1>3, <1>6
<1>7. CASE ArchiveState(p)
  BY <1>1, <1>2, <1>7 DEF ArchiveState
<1>8. CASE WriteFinalState(p)
  BY <1>1, <1>2, <1>8 DEF WriteFinalState
<1> QED BY <1>4, <1>5, <1>6, <1>7, <1>8

\* A finalization is journalled only when the final review covers the ledger.
LEMMA JournalFinalizeRInv ==
  ASSUME IInv, FInv, RInv, NEW p \in Operators, NEW o \in Outs, JournalFinalize(p, o)
  PROVE  RInv'
<1>0. PICK n : n = readLen[p]
  OBVIOUS
<1>1. /\ Step(p, "finalize", "archive") /\ pc[p] = "finalize" /\ UNCHANGED <<artifacts, ledger>>
      /\ journal' = [kind |-> "finalize", phase |-> "Prepared", run |-> ActiveId(runs),
                     before |-> runs, out |-> o]
      /\ FinalReviewCoversLedger /\ artifacts.out[o] = Absent
      /\ "finalize" \in Labels \cap BodySteps
      /\ "archive" \in FinalizeSteps \ (StagedSteps \cup SealedSteps)
  BY DEF JournalFinalize, Step, Labels, Commands, BodySteps, FinalizeSteps, StagedSteps,
         SealedSteps, PublishedSteps
<1>2. journal'.before = runs /\ journal'.out = o
  BY <1>1
<1>3. OneEvidence'
  BY <1>1, <1>2 DEF OneEvidence
<1>4. Reads("finalize", n)
  BY <1>0, <1>1, ReadsOf
<1>5. n = Len(ledger)
  BY <1>1, <1>4 DEF Reads
<1>6. Reviewed'
  BY <1>1, <1>2 DEF Reviewed, FinalReviewCoversLedger, LastEvent
<1>7. "archive" \notin IntentSteps /\ "archive" \notin {"checksums", "rename", "discardOut"}
  BY DEF IntentSteps
<1>8. Reads("archive", n)'
  BY <1>0, <1>1, <1>5, <1>6, <1>7 DEF Reads
<1> QED BY <1>0, <1>1, <1>3, <1>8, StepRInv

LEMMA BuildsEvidenceRInv ==
  ASSUME IInv, FInv, RInv, NEW p \in Operators, BuildsEvidence(p)
  PROVE  RInv'
<1>1. ASSUME NEW from \in {"staging", "export", "qualification", "json", "markdown", "checksums"},
             NEW to \in {"StagingCreated", "ExportWritten", "FinalQualificationCopied",
                         "JsonReportWritten", "MarkdownReportWritten", "rename"},
             Step(p, from, to), UNCHANGED <<runs, journal, ledger>>,
             artifacts'.out = artifacts.out,
             \/ artifacts'.staging.run = journal.run /\ artifacts'.staging.covers = readLen[p]
             \/ /\ from # "staging"
                /\ artifacts'.staging.run = artifacts.staging.run
                /\ artifacts'.staging.covers = artifacts.staging.covers,
             to = "rename" <=> from = "checksums"
      PROVE  RInv'
  <2>1. /\ from \in FinalizeSteps \cap UnsealedSteps /\ to \in FinalizeSteps
        /\ to # "rename" => to \in StagedSteps
        /\ from # "staging" => from \in StagedSteps
        /\ to # "checksums" /\ "rename" \notin StagedSteps
        /\ from # "checksums" => from \notin SealedSteps
    BY DEF FinalizeSteps, UnsealedSteps, StagedSteps, SealedSteps, PublishedSteps
  <2>2. pc[p] = from
    BY <1>1 DEF Step
  <2>3. artifacts.out[journal.out] = Absent
    <3>1. CASE from = "checksums"
      BY <2>2, <3>1 DEF RInv, Reads
    <3>2. CASE from # "checksums"
      BY <2>1, <2>2, <3>2, UnsealedIsAbsent
    <3> QED BY <3>1, <3>2
  <2>4. OneEvidence'
    BY <1>1, <2>3 DEF OneEvidence
  <2> QED BY <1>1, <2>1, <2>3, <2>4, FinalizeStepRInv
<1>2. artifacts \in Artifacts /\ artifacts.staging \in Evidence
  BY DEF IInv, TypeOK, Artifacts
<1>3. CASE CreateStaging(p)
  <2> DEFINE n == readLen[p]
  <2>1. /\ Step(p, "staging", "StagingCreated") /\ UNCHANGED <<runs, journal, ledger>>
        /\ artifacts' = [artifacts EXCEPT !.staging =
                            [run |-> journal.run, files |-> {}, covers |-> n]]
    BY <1>3 DEF CreateStaging
  <2> HIDE DEF n
  <2>2. /\ artifacts'.staging.run = journal.run /\ artifacts'.staging.covers = n
        /\ artifacts'.out = artifacts.out
    BY <1>2, <2>1 DEF Artifacts
  <2> QED BY <1>1, <2>1, <2>2 DEF n
<1>4. CASE ExportFinal(p)
  <2>1. /\ Step(p, "export", "ExportWritten") /\ UNCHANGED <<runs, journal, ledger>>
        /\ artifacts'.out = artifacts.out /\ artifacts'.staging = artifacts.staging
    BY <1>2, <1>4 DEF ExportFinal, Artifacts
  <2> QED BY <1>1, <2>1
<1>5. ASSUME NEW from \in {"qualification", "json", "markdown", "checksums"},
             NEW to \in {"FinalQualificationCopied", "JsonReportWritten",
                         "MarkdownReportWritten", "rename"},
             to = "rename" <=> from = "checksums", NEW file,
             WriteEvidence(p, from, file, to)
      PROVE  RInv'
  <2>1. /\ Step(p, from, to) /\ UNCHANGED <<runs, journal, ledger>>
        /\ artifacts' = [artifacts EXCEPT !.staging.files = @ \cup {file}]
    BY <1>5 DEF WriteEvidence
  <2>2. /\ artifacts'.out = artifacts.out
        /\ artifacts'.staging.run = artifacts.staging.run
        /\ artifacts'.staging.covers = artifacts.staging.covers
    BY <1>2, <2>1 DEF Artifacts, Evidence
  <2> QED BY <1>1, <1>5, <2>1, <2>2
<1> QED BY <1>3, <1>4, <1>5 DEF BuildsEvidence

LEMMA FinalizeCommandRInv ==
  ASSUME IInv, FInv, RInv, NEW p \in Operators, FinalizeCommand(p)
  PROVE  RInv'
<1>1. CASE \E o \in Outs : JournalFinalize(p, o)
  BY <1>1, JournalFinalizeRInv
<1>2. CASE BuildsEvidence(p)
  BY <1>2, BuildsEvidenceRInv
<1>3. CASE RenameEvidence(p)
  <2>1. /\ Step(p, "rename", "EvidenceActivated") /\ UNCHANGED <<journal, ledger>>
        /\ artifacts'.staging = Absent
        /\ {"rename", "EvidenceActivated"} \subseteq FinalizeSteps
        /\ "EvidenceActivated" \notin UnsealedSteps /\ "EvidenceActivated" \notin StagedSteps
    <3>1. pc[p] = "rename" /\ "rename" \in FinalizeSteps
      BY <1>3 DEF RenameEvidence, Step, FinalizeSteps
    <3>2. journal.kind = "finalize"
      BY <3>1 DEF IInv, Fits
    <3> QED BY <1>3, <3>2, PublishFields
            DEF RenameEvidence, UnsealedSteps, StagedSteps, FinalizeSteps
  <2>2. OneEvidence'
    BY <2>1 DEF OneEvidence
  <2> QED BY <2>1, <2>2, FinalizeStepRInv
<1>4. CASE ClearJournal(p, "clearFinalize")
  <2>1. pc[p] # "idle" /\ Exit(p) /\ journal'.kind # "finalize"
    BY <1>4 DEF ClearJournal, NoJournal
  <2> QED BY <2>1, NoEvidence, ExitRInv
<1> QED BY <1>1, <1>2, <1>3, <1>4, FinalizePhasesRInv DEF FinalizeCommand, BuildsEvidence

\* A step of recovery forgets what was read.
LEMMA RecoveryStepRInv ==
  ASSUME IInv, RInv, NEW p \in Operators, NEW from, NEW to, Step(p, from, to), from # "idle",
         to \notin BodySteps, OneEvidence', to = "discardOut" => ~Published'
  PROVE  RInv'
<1>0. PICK n : n = readLen[p]
  OBVIOUS
<1>1. from \in Labels
  BY DEF Step, IInv, TypeOK
<1>2. Reads(to, n)'
  <2>1. CASE to # "discardOut"
    BY <2>1, NoReads
  <2>2. CASE to = "discardOut"
    BY <2>2, ReadSets DEF Reads
  <2> QED BY <2>1, <2>2
<1> QED BY <1>0, <1>1, <1>2, StepRInv

LEMMA ReconcileRInv ==
  ASSUME IInv, FInv, RInv, NEW p \in Operators, Reconcile(p)
  PROVE  RInv'
<1>1. (UndoStartSteps \cup RecoverFinalizeSteps \cup {"clearRollback"}) \cap BodySteps = {}
  BY DEF UndoStartSteps, RecoverFinalizeSteps, BodySteps, Commands, StartSteps, FinalizeSteps
<1>2. CASE \/ ReconcileNothing(p) \/ ReconcileStartActivated(p) \/ ClearRollback(p)
           \/ ClearFinalized(p)
  <2>1. journal'.kind # "finalize" /\ ledger' = ledger
    BY <1>2 DEF ReconcileNothing, ReconcileStartActivated, ClearRollback, ClearFinalized,
                NoJournal, disk
  <2>2. \E from, outcome : /\ from \in {"reconcile", "clearRollback", "clearFinalized"}
                        /\ Reconciled(p, from, outcome)
    BY <1>2 DEF ReconcileNothing, ReconcileStartActivated, ClearRollback, ClearFinalized
  <2> QED BY <2>1, <2>2, NoEvidence, ReconciledRInv
<1>3. CASE RestoreState(p) \/ RestoreAutopilot(p) \/ RestoreGateMode(p)
           \/ RemoveBackup(p) \/ RemoveBundle(p)
  <2>1. PICK from, to : /\ Step(p, from, to) /\ from # "idle"
                        /\ to \in UndoStartSteps \cup {"clearRollback"}
                        /\ from = "reconcile" \/ from \in UndoStartSteps
                        /\ from = "reconcile" => journal.kind = "start"
                        /\ journal' = journal
    BY <1>3 DEF RestoreState, RestoreAutopilot, RestoreGateMode, RemoveBackup, RemoveBundle,
                UndoStartSteps
  <2>2. journal.kind = "start"
    BY <2>1 DEF IInv, Fits, Step
  <2>3. to # "discardOut"
    BY <2>1 DEF UndoStartSteps
  <2> QED BY <1>1, <2>1, <2>2, <2>3, NoEvidence, RecoveryStepRInv
<1>4. CASE RecoverPublished(p) \/ RecoverState(p) \/ RestoreOriginal(p)
  <2>1. PICK from, to : /\ Step(p, from, to) /\ from # "idle" /\ to # "discardOut"
                        /\ to \in RecoverFinalizeSteps \cup {"clearRollback"}
                        /\ UNCHANGED <<journal, artifacts>>
    BY <1>4 DEF RecoverPublished, RecoverState, RestoreOriginal, RecoverFinalizeSteps, disk
  <2> QED BY <1>1, <2>1, SameEvidenceStays, RecoveryStepRInv DEF RInv
<1>5. CASE RecoverRename(p)
  <2>1. /\ Step(p, "reconcile", "recoverState") /\ artifacts'.staging = Absent
        /\ "recoverState" \in RecoverFinalizeSteps
    BY <1>5, PublishFields DEF RecoverRename, RecoverFinalizeSteps
  <2>2. OneEvidence'
    BY <2>1 DEF OneEvidence
  <2> QED BY <1>1, <2>1, <2>2, RecoveryStepRInv
<1>6. /\ artifacts \in Artifacts /\ artifacts.staging \in Evidence
      /\ artifacts.out \in [Outs -> Evidence]
  BY DEF IInv, TypeOK, Artifacts
<1>7. CASE DropStaging(p)
  <2>1. /\ Step(p, "dropStaging", "clearFinalized") /\ artifacts'.staging = Absent
        /\ "clearFinalized" \in RecoverFinalizeSteps
    BY <1>6, <1>7 DEF DropStaging, Artifacts, RecoverFinalizeSteps
  <2>2. OneEvidence'
    BY <2>1 DEF OneEvidence
  <2> QED BY <1>1, <2>1, <2>2, RecoveryStepRInv
<1>8. CASE DiscardStaging(p)
  <2>1. /\ Step(p, "reconcile", "discardOut") /\ ~Published /\ UNCHANGED journal
        /\ artifacts'.staging = Absent /\ artifacts'.out = artifacts.out
        /\ artifacts'.bundle = artifacts.bundle /\ artifacts'.export = artifacts.export
        /\ "discardOut" \in RecoverFinalizeSteps
    BY <1>6, <1>8 DEF DiscardStaging, Artifacts, RecoverFinalizeSteps
  <2>2. OneEvidence'
    BY <2>1 DEF OneEvidence
  <2>3. ~Published'
    BY <2>1 DEF Published, BundleValid, EvidenceVerifies
  <2> QED BY <1>1, <2>1, <2>2, <2>3, RecoveryStepRInv
<1>9. CASE DiscardOut(p)
  <2>1. /\ Step(p, "discardOut", "discardExport") /\ UNCHANGED journal
        /\ artifacts' = [artifacts EXCEPT !.out[journal.out] = Absent]
        /\ "discardExport" \in RecoverFinalizeSteps
    BY <1>9 DEF DiscardOut, RecoverFinalizeSteps
  <2>2. journal.kind = "finalize"
    BY <2>1 DEF IInv, Fits, Step, RecoverFinalizeSteps
  <2>3. artifacts'.out[journal.out] = Absent
    BY <1>6, <2>1, <2>2, InFinalize DEF Artifacts
  <2>4. OneEvidence'
    BY <2>1, <2>3 DEF OneEvidence
  <2> QED BY <1>1, <2>1, <2>4, RecoveryStepRInv
<1>10. CASE DiscardExport(p)
  <2>1. /\ Step(p, "discardExport", "restoreOriginal") /\ UNCHANGED journal
        /\ artifacts'.staging = artifacts.staging /\ artifacts'.out = artifacts.out
        /\ "restoreOriginal" \in RecoverFinalizeSteps
    BY <1>6, <1>10 DEF DiscardExport, Artifacts, RecoverFinalizeSteps
  <2>2. OneEvidence'
    BY <2>1 DEF OneEvidence, RInv
  <2> QED BY <1>1, <2>1, <2>2, RecoveryStepRInv
<1> QED BY <1>2, <1>3, <1>4, <1>5, <1>7, <1>8, <1>9, <1>10 DEF Reconcile

LEMMA InitRInv == Init => RInv
<1> SUFFICES ASSUME Init PROVE RInv
  OBVIOUS
<1>1. OneEvidence
  BY DEF Init, OneEvidence, NoJournal
<1>2. ASSUME NEW q \in Operators PROVE Reads(pc[q], readLen[q])
  <2>1. PICK n : readLen[q] = n
    OBVIOUS
  <2>2. pc[q] = "idle" /\ "idle" \notin BodySteps
    BY DEF Init, BodySteps, Commands, StartSteps, FinalizeSteps
  <2>3. Reads("idle", n)
    BY <2>2, NoReads
  <2> QED BY <2>1, <2>2, <2>3
<1> QED BY <1>1, <1>2 DEF RInv

LEMMA NextRInv == IInv /\ FInv /\ RInv /\ [Next]_vars => RInv'
<1> SUFFICES ASSUME IInv, FInv, RInv, [Next]_vars PROVE RInv'
  OBVIOUS
<1>1. CASE UNCHANGED vars
  BY <1>1, WritersRInv DEF vars, disk, local
<1>2. CASE \E p \in Operators : Status(p) \/ Review(p) \/ Abort(p) \/ Bail(p) \/ Crash(p)
  <2>1. PICK p \in Operators : pc[p] # "idle" /\ Exit(p) /\ UNCHANGED <<journal, artifacts>>
    BY <1>2 DEF Status, Review, Abort, Bail, Crash, Commands, disk
  <2> QED BY <2>1, SameEvidenceStays, ExitRInv DEF RInv
<1>3. CASE \E p \in Operators : Fail(p) \/ \E c \in Commands : Begin(p, c)
  <2>1. PICK p \in Operators : Fail(p) \/ \E c \in Commands : Begin(p, c)
    BY <1>3
  <2>2. UNCHANGED <<journal, artifacts>> /\ pc' = [pc EXCEPT ![p] = "reconcile"]
    BY <2>1 DEF Fail, Begin, disk
  <2>3. \A q \in Operators : q # p => pc[q] = "idle"
    <3>1. CASE Fail(p)
      <4>1. pc[p] # "idle"
        BY <3>1, StartSets, FinalizeSets DEF Fail
      <4> QED BY <4>1, OthersIdle DEF IInv
    <3>2. CASE \E c \in Commands : Begin(p, c)
      BY <3>2 DEF Begin, IInv, Locks
    <3> QED BY <2>1, <3>1, <3>2
  <2>4. \A q \in Operators : pc'[q] \in {"idle", "reconcile"}
    BY <2>2, <2>3 DEF IInv, TypeOK
  <2>5. {"idle", "reconcile"} \cap BodySteps = {}
    BY DEF BodySteps, Commands, StartSteps, FinalizeSteps
  <2> QED BY <2>2, <2>4, <2>5, SameEvidenceStays, QuietRInv DEF RInv
<1>4. CASE \E p \in Operators : Reconcile(p) \/ StartCommand(p) \/ FinalizeCommand(p)
  BY <1>4, ReconcileRInv, StartCommandRInv, FinalizeCommandRInv
<1>5. CASE RecordDecision
  BY <1>5, WritersRInv DEF RecordDecision, local
<1>6. CASE \E field \in {"gateMode", "autopilot"}, mode \in Modes : SetConfig(field, mode)
  BY <1>6, WritersRInv DEF SetConfig, local
<1>7. CASE \E g \in Gates : GateEvaluate(g) \/ GateAppend(g) \/ GateRetry(g)
  BY <1>7, WritersRInv DEF GateEvaluate, GateAppend, GateRetry, disk, local
<1> QED BY <1>1, <1>2, <1>3, <1>4, <1>5, <1>6, <1>7 DEF Next, Operator

-----------------------------------------------------------------------------
\* The runs that the atomic specification sees.

LEMMA EffectiveTypes ==
  ASSUME IInv
  PROVE  EffectiveRuns \in Seq(Run)
<1>1. runs \in Seq(Run)
  BY DEF IInv, TypeOK
<1>2. CASE journal.kind = "start"
  BY <1>1, <1>2, InStart DEF EffectiveRuns
<1>3. CASE journal.kind = "finalize"
  BY <1>3, InFinalize, ArchiveRetires DEF EffectiveRuns
<1>4. CASE journal.kind \notin {"start", "finalize"}
  BY <1>1, <1>4 DEF EffectiveRuns
<1> QED BY <1>2, <1>3, <1>4

\* The evidence of run r, which is constant over the step.
LEMMA SameSeal ==
  ASSUME NEW r, CompleteEvidence(r)' = CompleteEvidence(r)
  PROVE  Sealed(r)' = Sealed(r)
BY DEF Sealed

\* A run that is finalized keeps its evidence.
KeepsEvidence(r) == CompleteEvidence(r)' = CompleteEvidence(r)
EvidenceKept ==
    \A r \in RunIds :
        (\E i \in DOMAIN EffectiveRuns :
            EffectiveRuns[i].id = r /\ EffectiveRuns[i].status = "finalized")
        => KeepsEvidence(r)

LEMMA SameView ==
  ASSUME IInv, EvidenceKept, NEW i \in DOMAIN EffectiveRuns, i \in DOMAIN EffectiveRuns',
         EffectiveRuns'[i] = EffectiveRuns[i]
  PROVE  PromisedRuns'[i] = PromisedRuns[i]
<1>1. PICK rec \in Run : rec = EffectiveRuns[i]
  BY EffectiveTypes
<1>2. PICK r \in RunIds : r = rec.id
  BY DEF Run
<1>3. rec.status = "finalized" => Sealed(r)' = Sealed(r)
  BY <1>1, <1>2, SameSeal DEF EvidenceKept, KeepsEvidence
<1>4. PromisedRuns[i] = [id |-> rec.id, status |-> rec.status, from |-> rec.from,
                         upto |-> IF rec.status = "finalized" THEN Sealed(r) ELSE 0]
  BY <1>1, <1>2 DEF PromisedRuns, Promised
<1>5. PromisedRuns'[i] = [id |-> rec.id, status |-> rec.status, from |-> rec.from,
                          upto |-> IF rec.status = "finalized" THEN Sealed(r)' ELSE 0]
  <2>1. EffectiveRuns'[i] = rec
    BY <1>1
  <2>2. PromisedRuns'[i] = Promised(EffectiveRuns[i])'
    BY DEF PromisedRuns
  <2> QED BY <1>2, <2>1, <2>2 DEF Promised, Sealed, CompleteEvidence
<1> QED BY <1>3, <1>4, <1>5

\* A step that changes neither the runs nor the evidence of a finalized one.
LEMMA Stutters ==
  ASSUME IInv, EvidenceKept, EffectiveRuns' = EffectiveRuns
  PROVE  PromisedRuns' = PromisedRuns
<1>1. \A i \in DOMAIN EffectiveRuns : PromisedRuns'[i] = PromisedRuns[i]
  BY SameView
<1> QED BY <1>1 DEF PromisedRuns

\* What the next recovery would make of the files, by the transaction pending.
Settles ==
    /\ journal.kind # "finalize" => EffectiveRuns = runs
    /\ journal.kind = "finalize" /\ journal.phase \notin SealedPhases =>
          ~Published /\ ~Publishable

LEMMA NowSettles == IInv /\ FInv => Settles
<1> SUFFICES ASSUME IInv, FInv PROVE Settles
  OBVIOUS
<1>1. CASE journal.kind = "start"
  BY <1>1, StartedIsValid DEF Settles, EffectiveRuns
<1>2. CASE journal.kind = "finalize"
  BY <1>2, VerifiedIsSealed DEF Settles
<1>3. CASE journal.kind \notin {"start", "finalize"}
  BY <1>3 DEF Settles, EffectiveRuns
<1> QED BY <1>1, <1>2, <1>3

LEMMA NextSettles == (IInv /\ FInv)' => Settles'
BY NowSettles, PTL

LEMMA SameEvidence ==
  ASSUME artifacts'.staging = artifacts.staging, artifacts'.out = artifacts.out
  PROVE  EvidenceKept
BY DEF EvidenceKept, KeepsEvidence, CompleteEvidence

\* While no finalization is pending, a step shows when it changes the runs.
LEMMA LiveStutters ==
  ASSUME IInv, FInv, IInv', FInv', journal.kind # "finalize", journal'.kind # "finalize",
         runs' = runs, artifacts'.staging = artifacts.staging, artifacts'.out = artifacts.out
  PROVE  PromisedRuns' = PromisedRuns
<1>1. EffectiveRuns = runs
  BY NowSettles DEF Settles
<1>2. EffectiveRuns' = runs'
  BY NextSettles DEF Settles
<1> QED BY <1>1, <1>2, SameEvidence, Stutters

\* A step of a finalization that leaves its evidence as it is.
LEMMA FinalStutters ==
  ASSUME IInv, journal.kind = "finalize", journal'.kind = "finalize", artifacts' = artifacts,
         journal'.before = journal.before, journal'.run = journal.run, journal'.out = journal.out
  PROVE  PromisedRuns' = PromisedRuns
<1>1. Published' = Published /\ Publishable' = Publishable
  BY DEF Published, Publishable, BundleValid, EvidenceVerifies
<1>2. EffectiveRuns' = EffectiveRuns
  BY <1>1 DEF EffectiveRuns, Archive
<1> QED BY <1>2, SameEvidence, Stutters

LEMMA QuietStutters ==
  ASSUME IInv, FInv, IInv', FInv', UNCHANGED <<runs, journal, artifacts>>
  PROVE  PromisedRuns' = PromisedRuns
BY LiveStutters, FinalStutters

\* A step of a finalization that writes evidence of its own run only.
LEMMA OtherEvidence ==
  ASSUME IInv, FInv, journal.kind = "finalize", NEW r \in RunIds, r # journal.run,
         artifacts'.staging.run \in {NoRun, journal.run},
         artifacts'.out[journal.out].run \in {NoRun, journal.run},
         \A o \in Outs \ {journal.out} : artifacts'.out[o] = artifacts.out[o]
  PROVE  KeepsEvidence(r)
<1>1. /\ artifacts.staging.run \in {NoRun, journal.run} /\ journal.out \in Outs
      /\ artifacts.out[journal.out].run \in {NoRun, journal.run}
  BY InFinalize DEF FInv, JournalFiles, FinalizeFiles, FilesAgree, OutsAgree
<1>2. r \notin {NoRun, journal.run}
  BY TransactionConstants
<1>3. CompleteEvidence(r) = {e \in {artifacts.out[o] : o \in Outs \ {journal.out}} :
                                e.run = r /\ e.files = EvidenceFiles}
  BY <1>1, <1>2 DEF CompleteEvidence
<1>4. CompleteEvidence(r)' = {e \in {artifacts'.out[o] : o \in Outs \ {journal.out}} :
                                e.run = r /\ e.files = EvidenceFiles}
  BY <1>1, <1>2 DEF CompleteEvidence
<1> QED BY <1>3, <1>4 DEF KeepsEvidence

\* Before the evidence is complete, and once it is discarded, nothing shows.
LEMMA OpenStutters ==
  ASSUME IInv, FInv, journal.kind = "finalize", UNCHANGED journal,
         ~Published, ~Publishable, ~Published', ~Publishable',
         artifacts'.staging.run \in {NoRun, journal.run},
         artifacts'.out[journal.out].run \in {NoRun, journal.run},
         \A o \in Outs \ {journal.out} : artifacts'.out[o] = artifacts.out[o]
  PROVE  PromisedRuns' = PromisedRuns
<1>1. EffectiveRuns = journal.before /\ EffectiveRuns' = journal.before
  BY DEF EffectiveRuns
<1>2. ASSUME NEW i \in DOMAIN journal.before, journal.before[i].id = journal.run
      PROVE  journal.before[i].status = "active"
  <2>1. /\ Base = journal.before /\ Len(Base) \in DOMAIN Base
        /\ Base[Len(Base)].id = journal.run /\ Base[Len(Base)].status = "active"
    BY InFinalize DEF FInv, JournalFiles, FinalizeFiles
  <2>2. i = Len(Base)
    BY <1>2, <2>1 DEF FInv, FilesAgree
  <2> QED BY <2>1, <2>2
<1>3. EvidenceKept
  BY <1>1, <1>2, OtherEvidence DEF EvidenceKept
<1> QED BY <1>1, <1>3, Stutters

-----------------------------------------------------------------------------
\* The steps that change nothing the atomic specification sees.

LEMMA StartStutters ==
  ASSUME IInv, FInv, IInv', FInv', NEW p \in Operators, StartCommand(p), ~Activate(p)
  PROVE  PromisedRuns' = PromisedRuns
<1>1. artifacts \in Artifacts
  BY DEF IInv, TypeOK
<1>2. CASE \E r \in RunIds : JournalStart(p, r)
  <2>1. /\ journal'.kind = "start" /\ UNCHANGED <<runs, artifacts>> /\ pc[p] \in Commands
    BY <1>2 DEF JournalStart, Step, Commands
  <2>2. journal.kind # "finalize"
    BY <2>1, InNone DEF IInv, Fits
  <2> QED BY <2>1, <2>2, LiveStutters
<1>3. CASE /\ pc[p] \in StartSteps
           /\ JournalIntent(p) \/ \E from, phase, to : JournalPhase(p, from, phase, to)
  <2>1. journal.kind = "start"
    BY <1>3 DEF IInv, Fits
  <2>2. journal \in StartJournal
    BY <2>1, InStart
  <2>3. journal'.kind = "start" /\ UNCHANGED <<runs, artifacts>>
    BY <1>3, <2>2 DEF JournalIntent, JournalPhase, StartJournal
  <2> QED BY <2>1, <2>3, LiveStutters
<1>4. CASE \/ ExportBackup(p) \/ ReserveDirectory(p) \/ CopyBundle(p) \/ WriteAutopilot(p)
           \/ WriteGateMode(p)
  <2>1. pc[p] \in StartSteps
    BY <1>4 DEF ExportBackup, ReserveDirectory, CopyBundle, WriteAutopilot, WriteGateMode, Step,
                StartSteps
  <2>2. journal.kind = "start"
    BY <2>1 DEF IInv, Fits
  <2>3. /\ UNCHANGED <<runs, journal>>
        /\ artifacts'.staging = artifacts.staging /\ artifacts'.out = artifacts.out
    BY <1>1, <1>4 DEF ExportBackup, ReserveDirectory, CopyBundle, WriteAutopilot, WriteGateMode,
                      Artifacts
  <2> QED BY <2>2, <2>3, LiveStutters
<1>5. CASE ClearJournal(p, "clearStart")
  <2>1. pc[p] \in StartSteps
    BY <1>5 DEF ClearJournal, StartSteps
  <2>2. journal.kind = "start" /\ journal'.kind # "finalize"
    BY <1>5, <2>1 DEF IInv, Fits, ClearJournal, NoJournal
  <2> QED BY <1>5, <2>2, LiveStutters DEF ClearJournal
<1>6. JournalIntent(p) => pc[p] \in StartSteps
  BY DEF JournalIntent, Step, StartSteps
<1>7. ASSUME \/ JournalPhase(p, "BackupCreated", "BackupCreated", "directory")
             \/ JournalPhase(p, "QualificationDirectoryPrepared",
                             "QualificationDirectoryPrepared", "bundle")
             \/ JournalPhase(p, "QualificationBundleCopied", "QualificationBundleCopied",
                             "IntentRecorded")
             \/ JournalPhase(p, "AutopilotWritten", "AutopilotWritten", "gateMode")
             \/ JournalPhase(p, "GateModeWritten", "GateModeWritten", "activate")
      PROVE  pc[p] \in StartSteps
  BY <1>7 DEF JournalPhase, Step, StartSteps
<1> QED BY <1>2, <1>3, <1>4, <1>5, <1>6, <1>7 DEF StartCommand

\* A finalization that ends with its evidence in place had published it.
LEMMA ClearFinalStutters ==
  ASSUME IInv, FInv, IInv', FInv', journal.kind = "finalize", runs = Archived, EvidenceVerified,
         journal' = NoJournal, UNCHANGED <<runs, artifacts>>
  PROVE  PromisedRuns' = PromisedRuns
<1>1. BundleValid(journal.run)
  BY InFinalize DEF FInv, JournalFiles, FinalizeFiles, FilesAgree, RunsAgree
<1>2. EffectiveRuns = runs
  BY <1>1 DEF EffectiveRuns, Published, EvidenceVerified, Archived
<1>3. EffectiveRuns' = runs'
  BY NextSettles DEF Settles, NoJournal
<1> QED BY <1>2, <1>3, SameEvidence, Stutters

LEMMA FinalPhasesStutter ==
  ASSUME IInv, FInv, NEW p \in Operators, pc[p] \in FinalizeSteps,
         \/ \E from, phase, to : JournalPhase(p, from, phase, to)
         \/ ArchiveState(p) \/ WriteFinalState(p)
  PROVE  PromisedRuns' = PromisedRuns
<1>1. journal.kind = "finalize"
  BY DEF IInv, Fits
<1>2. journal \in FinalizeJournal
  BY <1>1, InFinalize
<1>3. /\ journal'.kind = "finalize" /\ journal'.before = journal.before
      /\ journal'.run = journal.run /\ journal'.out = journal.out /\ artifacts' = artifacts
  BY <1>2 DEF JournalPhase, ArchiveState, WriteFinalState, FinalizeJournal
<1> QED BY <1>1, <1>3, FinalStutters

LEMMA RenameStutters ==
  ASSUME IInv, FInv, journal.kind = "finalize", artifacts.out[journal.out] = Absent,
         artifacts' = [artifacts EXCEPT !.out[journal.out] = artifacts.staging, !.staging = Absent],
         UNCHANGED journal
  PROVE  PromisedRuns' = PromisedRuns
<1>1. /\ journal.out \in Outs /\ journal.run \in RunIds /\ NoRun \notin RunIds
  BY InFinalize, TransactionConstants
<1>2. /\ artifacts'.export = artifacts.export /\ artifacts'.bundle = artifacts.bundle
      /\ artifacts'.staging = Absent /\ artifacts'.out[journal.out] = artifacts.staging
      /\ \A o \in Outs \ {journal.out} : artifacts'.out[o] = artifacts.out[o]
  BY PublishFields DEF OnlyThisEvidence
<1>3. ~Published /\ ~Publishable'
  BY <1>1, <1>2 DEF Published, Publishable, EvidenceVerifies, Absent
<1>4. Published' <=> Publishable
  BY <1>2 DEF Published, Publishable, EvidenceVerifies, BundleValid
<1>5. EffectiveRuns' = EffectiveRuns
  BY <1>3, <1>4 DEF EffectiveRuns, Archive
<1>6. {artifacts'.staging} \cup {artifacts'.out[o] : o \in Outs}
      = {artifacts.staging} \cup {artifacts.out[o] : o \in Outs}
  BY <1>1, <1>2
<1>7. EvidenceKept
  BY <1>6 DEF EvidenceKept, KeepsEvidence, CompleteEvidence
<1> QED BY <1>5, <1>7, Stutters

LEMMA JournalFinalizeStutters ==
  ASSUME IInv, FInv, IInv', FInv', NEW p \in Operators, NEW o \in Outs, JournalFinalize(p, o)
  PROVE  PromisedRuns' = PromisedRuns
<1>1. /\ pc[p] \in Commands /\ UNCHANGED <<runs, artifacts>>
      /\ journal' = [kind |-> "finalize", phase |-> "Prepared", run |-> ActiveId(runs),
                     before |-> runs, out |-> o]
  BY DEF JournalFinalize, Step, Commands
<1>2. journal'.kind = "finalize" /\ journal'.phase \notin SealedPhases /\ journal'.before = runs
  BY <1>1 DEF SealedPhases
<1>3. journal.kind # "finalize"
  BY <1>1, InNone DEF IInv, Fits
<1>4. EffectiveRuns = runs
  BY <1>3, NowSettles DEF Settles
<1>5. EffectiveRuns' = runs
  BY <1>2, NextSettles DEF Settles, EffectiveRuns
<1> QED BY <1>1, <1>4, <1>5, SameEvidence, Stutters

\* The steps that build the evidence, all but its last file.
LEMMA BuildsStutter ==
  ASSUME IInv, FInv, IInv', FInv', NEW p \in Operators, BuildsEvidence(p),
         ~WriteEvidence(p, "checksums", "checksums", "rename")
  PROVE  PromisedRuns' = PromisedRuns
<1>1. /\ UNCHANGED journal
      /\ pc[p] \in {"staging", "export", "qualification", "json", "markdown"}
  BY DEF BuildsEvidence, CreateStaging, ExportFinal, WriteEvidence, Step
<1>2. pc[p] \in FinalizeSteps \ SealedSteps
  BY <1>1 DEF FinalizeSteps, SealedSteps, PublishedSteps
<1>3. journal.kind = "finalize" /\ FinalizeFits(pc[p]) /\ FinalizeFiles /\ FilesAgree
  BY <1>2, FinalizeFacts, FinalizeSets
<1>4. journal.phase \notin SealedPhases
  BY <1>2, <1>3 DEF FinalizeFits
<1>5. ~Published /\ ~Publishable /\ ~Published' /\ ~Publishable'
  BY <1>1, <1>3, <1>4, NowSettles, NextSettles DEF Settles
<1>6. artifacts \in Artifacts /\ artifacts.staging \in Evidence
  BY DEF IInv, TypeOK, Artifacts
<1>7. artifacts'.out = artifacts.out
  BY <1>6 DEF BuildsEvidence, CreateStaging, ExportFinal, WriteEvidence, Artifacts
<1>8. artifacts'.out[journal.out].run \in {NoRun, journal.run}
  BY <1>3, <1>7, InFinalize DEF FilesAgree, OutsAgree
<1>9. artifacts'.staging.run \in {NoRun, journal.run}
  BY <1>1, <1>3 DEF FInv, JournalFiles, FinalizeFiles
<1> QED BY <1>1, <1>3, <1>5, <1>7, <1>8, <1>9, OpenStutters

LEMMA FinalizeStutters ==
  ASSUME IInv, FInv, RInv, IInv', FInv', NEW p \in Operators, FinalizeCommand(p),
         ~WriteEvidence(p, "checksums", "checksums", "rename")
  PROVE  PromisedRuns' = PromisedRuns
<1>1. CASE \E o \in Outs : JournalFinalize(p, o)
  BY <1>1, JournalFinalizeStutters
<1>2. CASE BuildsEvidence(p)
  BY <1>2, BuildsStutter
<1>3. CASE ArchiveState(p) \/ WriteFinalState(p)
  <2>1. pc[p] \in FinalizeSteps
    BY <1>3 DEF ArchiveState, WriteFinalState, Step, FinalizeSteps
  <2> QED BY <1>3, <2>1, FinalPhasesStutter
<1>4. ASSUME \/ JournalPhase(p, "ArchivedStateWritten", "ArchivedStateWritten", "staging")
             \/ JournalPhase(p, "StagingCreated", "StagingCreated", "export")
             \/ JournalPhase(p, "ExportWritten", "ExportWritten", "qualification")
             \/ JournalPhase(p, "FinalQualificationCopied", "QualificationBundleCopied", "json")
             \/ JournalPhase(p, "JsonReportWritten", "JsonReportWritten", "markdown")
             \/ JournalPhase(p, "MarkdownReportWritten", "MarkdownReportWritten",
                             "ChecksumsWritten")
             \/ JournalPhase(p, "ChecksumsWritten", "ChecksumsWritten", "checksums")
             \/ JournalPhase(p, "EvidenceActivated", "EvidenceActivated", "finalState")
             \/ JournalPhase(p, "FinalStateWritten", "FinalStateWritten", "clearFinalize")
      PROVE  PromisedRuns' = PromisedRuns
  <2>1. pc[p] \in FinalizeSteps
    BY <1>4 DEF JournalPhase, Step, FinalizeSteps
  <2> QED BY <1>4, <2>1, FinalPhasesStutter
<1>5. CASE RenameEvidence(p)
  <2>1. pc[p] \in FinalizeSteps
    BY <1>5 DEF RenameEvidence, Step, FinalizeSteps
  <2>2. journal.kind = "finalize"
    BY <2>1 DEF IInv, Fits
  <2> QED BY <1>5, <2>2, RenameStutters DEF RenameEvidence
<1>6. CASE ClearJournal(p, "clearFinalize")
  <2>1. /\ pc[p] = "clearFinalize" /\ journal' = NoJournal /\ UNCHANGED <<runs, artifacts>>
        /\ "clearFinalize" \in FinalizeLabels
    BY <1>6 DEF ClearJournal, FinalizeLabels, FinalizeSteps
  <2>2. journal.kind = "finalize" /\ runs = Archived /\ EvidenceVerified
    BY <2>1, FinalizeFacts DEF FinalizeFits
  <2> QED BY <2>1, <2>2, ClearFinalStutters
<1> QED BY <1>1, <1>2, <1>3, <1>4, <1>5, <1>6 DEF FinalizeCommand, BuildsEvidence

LEMMA ReconcileStutters ==
  ASSUME IInv, FInv, RInv, IInv', FInv', NEW p \in Operators, Reconcile(p)
  PROVE  PromisedRuns' = PromisedRuns
<1>1. /\ artifacts \in Artifacts /\ artifacts.staging \in Evidence
      /\ artifacts.out \in [Outs -> Evidence]
  BY DEF IInv, TypeOK, Artifacts
<1>2. CASE ReconcileNothing(p) \/ RecoverPublished(p)
  BY <1>2, QuietStutters DEF ReconcileNothing, RecoverPublished, disk
<1>3. CASE ReconcileStartActivated(p)
  BY <1>3, LiveStutters DEF ReconcileStartActivated, NoJournal
<1>4. CASE RestoreState(p)
  <2>1. journal.kind = "start" /\ runs' = runs /\ UNCHANGED <<journal, artifacts>>
    BY <1>4, StartedIsValid DEF RestoreState
  <2> QED BY <2>1, LiveStutters
<1>5. CASE RestoreAutopilot(p) \/ RestoreGateMode(p) \/ RemoveBackup(p) \/ RemoveBundle(p)
  <2>1. pc[p] \in UndoStartSteps
    BY <1>5 DEF RestoreAutopilot, RestoreGateMode, RemoveBackup, RemoveBundle, Step, UndoStartSteps
  <2>2. journal.kind = "start"
    BY <2>1 DEF IInv, Fits
  <2>3. /\ UNCHANGED <<runs, journal>>
        /\ artifacts'.staging = artifacts.staging /\ artifacts'.out = artifacts.out
    BY <1>1, <1>5 DEF RestoreAutopilot, RestoreGateMode, RemoveBackup, RemoveBundle, Artifacts
  <2> QED BY <2>2, <2>3, LiveStutters
<1>6. CASE ClearRollback(p)
  <2>1. /\ pc[p] = "clearRollback" /\ journal' = NoJournal /\ UNCHANGED <<runs, artifacts>>
    BY <1>6 DEF ClearRollback, Reconciled
  <2>2. RolledBack
    BY <2>1 DEF FInv, FilesFit
  <2>3. CASE journal.kind # "finalize"
    BY <2>1, <2>3, LiveStutters DEF NoJournal
  <2>4. CASE journal.kind = "finalize"
    <3>1. ~Published /\ ~Publishable
      BY <2>2, <2>4, InFinalize, TransactionConstants
         DEF RolledBack, Published, Publishable, EvidenceVerifies, Absent
    <3>2. EffectiveRuns = runs
      BY <2>2, <2>4, <3>1 DEF RolledBack, EffectiveRuns
    <3>3. EffectiveRuns' = runs'
      BY <2>1, NextSettles DEF Settles, NoJournal
    <3> QED BY <2>1, <3>2, <3>3, SameEvidence, Stutters
  <2> QED BY <2>3, <2>4
<1>7. CASE RecoverRename(p)
  BY <1>7, RenameStutters DEF RecoverRename, Publishable
<1>8. /\ {"recoverState", "dropStaging", "clearFinalized", "discardOut", "discardExport",
          "restoreOriginal"} \subseteq FinalizeLabels
      /\ {"dropStaging", "clearFinalized"} \subseteq CompletingSteps
      /\ {"discardOut", "discardExport"} \subseteq RecoverFinalizeSteps \ CompletingSteps
  BY DEF FinalizeLabels, RecoverFinalizeSteps, CompletingSteps
<1>9. CASE RecoverState(p) \/ RestoreOriginal(p)
  <2>1. pc[p] \in {"recoverState", "restoreOriginal"} /\ UNCHANGED <<journal, artifacts>>
    BY <1>9 DEF RecoverState, RestoreOriginal, Step
  <2>2. journal.kind = "finalize"
    BY <1>8, <2>1, FinalizeFacts
  <2> QED BY <2>1, <2>2, FinalStutters
<1>10. CASE DropStaging(p)
  <2>1. /\ pc[p] = "dropStaging" /\ UNCHANGED <<runs, journal>>
        /\ artifacts' = [artifacts EXCEPT !.staging = Absent]
    BY <1>10 DEF DropStaging, Step
  <2>2. journal.kind = "finalize" /\ EvidenceVerified
    BY <1>8, <2>1, FinalizeFacts DEF FinalizeFits
  <2>3. artifacts.out[journal.out] # Absent
    BY <2>2, InFinalize, TransactionConstants DEF EvidenceVerified, EvidenceVerifies, Absent
  <2>4. artifacts.staging = Absent
    BY <2>2, <2>3 DEF RInv, OneEvidence
  <2>5. artifacts' = artifacts
    BY <1>1, <2>1, <2>4 DEF Artifacts
  <2> QED BY <2>1, <2>5, QuietStutters
<1>11. CASE ClearFinalized(p)
  <2>1. /\ pc[p] = "clearFinalized" /\ journal' = NoJournal /\ UNCHANGED <<runs, artifacts>>
    BY <1>11 DEF ClearFinalized, Reconciled
  <2>2. journal.kind = "finalize" /\ EvidenceVerified /\ runs = Archived
    BY <1>8, <2>1, FinalizeFacts DEF FinalizeFits
  <2> QED BY <2>1, <2>2, ClearFinalStutters
<1>12. ASSUME journal.kind = "finalize"
       PROVE  /\ journal.out \in Outs /\ journal.run \in RunIds /\ NoRun \notin RunIds
              /\ artifacts.out[journal.out].run \in {NoRun, journal.run}
              /\ artifacts.staging.run \in {NoRun, journal.run}
  BY <1>12, InFinalize, TransactionConstants
     DEF FInv, JournalFiles, FinalizeFiles, FilesAgree, OutsAgree
<1>13. CASE DiscardStaging(p)
  <2>1. /\ journal.kind = "finalize" /\ ~Published /\ ~Publishable /\ UNCHANGED <<runs, journal>>
        /\ artifacts'.staging = Absent /\ artifacts'.out = artifacts.out
        /\ artifacts'.bundle = artifacts.bundle /\ artifacts'.export = artifacts.export
    BY <1>1, <1>13 DEF DiscardStaging, Artifacts
  <2>2. ~Published' /\ ~Publishable'
    BY <1>12, <2>1 DEF Published, Publishable, BundleValid, EvidenceVerifies, Absent
  <2> QED BY <1>12, <2>1, <2>2, OpenStutters DEF Absent
<1>14. CASE DiscardOut(p)
  <2>1. /\ pc[p] = "discardOut" /\ UNCHANGED <<runs, journal>>
        /\ artifacts' = [artifacts EXCEPT !.out[journal.out] = Absent]
    BY <1>14 DEF DiscardOut, Step
  <2>2. journal.kind = "finalize" /\ artifacts.staging = Absent
    BY <1>8, <2>1, FinalizeFacts DEF FinalizeFits
  <2>3. ~Published
    BY <2>1 DEF RInv, Reads
  <2>4. /\ artifacts'.staging = Absent /\ artifacts'.out[journal.out] = Absent
        /\ \A o \in Outs \ {journal.out} : artifacts'.out[o] = artifacts.out[o]
    BY <1>1, <1>12, <2>1, <2>2 DEF Artifacts
  <2>5. ~Publishable /\ ~Published' /\ ~Publishable'
    BY <1>12, <2>1, <2>2, <2>4 DEF Published, Publishable, EvidenceVerifies, Absent
  <2> QED BY <1>12, <2>1, <2>2, <2>3, <2>4, <2>5, OpenStutters DEF Absent
<1>15. CASE DiscardExport(p)
  <2>1. /\ pc[p] = "discardExport" /\ UNCHANGED <<runs, journal>>
        /\ artifacts'.staging = artifacts.staging /\ artifacts'.out = artifacts.out
    BY <1>1, <1>15 DEF DiscardExport, Step, Artifacts
  <2>2. /\ journal.kind = "finalize" /\ artifacts.staging = Absent
        /\ artifacts.out[journal.out] = Absent
    BY <1>8, <2>1, FinalizeFacts DEF FinalizeFits
  <2>3. ~Published /\ ~Publishable /\ ~Published' /\ ~Publishable'
    BY <1>12, <2>1, <2>2 DEF Published, Publishable, EvidenceVerifies, Absent
  <2> QED BY <1>12, <2>1, <2>2, <2>3, OpenStutters
<1> QED BY <1>2, <1>3, <1>4, <1>5, <1>6, <1>7, <1>9, <1>10, <1>11, <1>13, <1>14, <1>15
        DEF Reconcile

-----------------------------------------------------------------------------
\* The steps that the atomic specification sees.

LEMMA PromisedFields ==
  ASSUME IInv
  PROVE  /\ \E S : PromisedRuns \in Seq(S)
         /\ DOMAIN PromisedRuns = DOMAIN EffectiveRuns
         /\ Len(PromisedRuns) = Len(EffectiveRuns)
         /\ \A i \in DOMAIN EffectiveRuns :
               /\ PromisedRuns[i].id = EffectiveRuns[i].id
               /\ PromisedRuns[i].status = EffectiveRuns[i].status
               /\ PromisedRuns[i].from = EffectiveRuns[i].from
               /\ EffectiveRuns[i].status # "finalized" =>
                     PromisedRuns[i] = [id |-> EffectiveRuns[i].id,
                                        status |-> EffectiveRuns[i].status,
                                        from |-> EffectiveRuns[i].from, upto |-> 0]
<1>1. EffectiveRuns \in Seq(Run)
  BY EffectiveTypes
<1>2. PICK n \in Nat : n = Len(EffectiveRuns) /\ DOMAIN EffectiveRuns = 1..n
  BY <1>1
<1> DEFINE S == {Promised(EffectiveRuns[i]) : i \in 1..n}
<1>3. PromisedRuns \in [1..n -> S]
  BY <1>2 DEF PromisedRuns
<1>4. PromisedRuns \in Seq(S) /\ Len(PromisedRuns) = n
  <2> HIDE DEF S
  <2> QED BY <1>3
<1>5. \A i \in DOMAIN EffectiveRuns : PromisedRuns[i] = Promised(EffectiveRuns[i])
  BY DEF PromisedRuns
<1>6. DOMAIN PromisedRuns = DOMAIN EffectiveRuns
  BY DEF PromisedRuns
<1>7. ASSUME NEW rec
      PROVE  /\ Promised(rec).id = rec.id /\ Promised(rec).status = rec.status
             /\ Promised(rec).from = rec.from
             /\ rec.status # "finalized" =>
                   Promised(rec) = [id |-> rec.id, status |-> rec.status,
                                    from |-> rec.from, upto |-> 0]
  BY DEF Promised
<1> HIDE DEF S
<1> QED BY <1>2, <1>4, <1>5, <1>6, <1>7

\* An active state that is written starts the run, at the ledger it read.
LEMMA ActivateStarts ==
  ASSUME IInv, FInv, RInv, IInv', FInv', NEW p \in Operators, Activate(p)
  PROVE  \E r \in RunIds : Abstract!Start(r)
<1>1. pc[p] = "activate" /\ UNCHANGED <<journal, config, artifacts, ledger>>
  BY DEF Activate, Step
<1>2. /\ journal.kind = "start" /\ runs = journal.before /\ journal.from = Len(ledger)
      /\ StartFiles
  <2>1. journal.kind = "start"
    BY <1>1 DEF IInv, Fits, StartSteps
  <2>2. FilesFit("activate") /\ Reads("activate", readLen[p])
    BY <1>1 DEF FInv, RInv
  <2> QED BY <2>1, <2>2 DEF FilesFit, StartFits, StartSteps, Reads, IntentSteps, FInv, JournalFiles
<1>3. /\ runs \in Seq(Run) /\ ActiveIn(runs) = {} /\ Base = runs /\ journal.run \in RunIds
  BY <1>2, InStart
<1>4. PICK r \in RunIds : r = journal.run
  BY <1>3
<1> DEFINE new == [id |-> r, status |-> "active", from |-> Len(ledger), exported |-> FALSE]
           rec == [id |-> r, status |-> "active", from |-> Len(ledger), upto |-> 0]
<1>5. /\ EffectiveRuns = runs /\ EffectiveRuns' = runs'
      /\ runs' = Append(runs, new) /\ new.status = "active"
  BY <1>1, <1>2, <1>4, NowSettles, NextSettles DEF Settles, Activate
<1>6. /\ DOMAIN runs' = 1..(Len(runs) + 1) /\ DOMAIN runs = 1..Len(runs)
      /\ \A i \in DOMAIN runs : runs'[i] = runs[i]
      /\ runs'[Len(runs) + 1] = new
  BY <1>3, <1>5
<1>7. EvidenceKept
  BY <1>1, SameEvidence
<1>8. \A i \in DOMAIN runs : PromisedRuns'[i] = PromisedRuns[i]
  BY <1>5, <1>6, <1>7, SameView
<1>9. PromisedRuns'[Len(runs) + 1] = rec
  <2>1. PICK n \in Nat : n = Len(runs) + 1
    BY <1>3
  <2>2. EffectiveRuns'[n] = new /\ n \in DOMAIN EffectiveRuns'
    BY <1>3, <1>5, <1>6, <2>1
  <2>3. PromisedRuns'[n] = Promised(EffectiveRuns[n])'
    BY <2>2 DEF PromisedRuns
  <2> QED BY <2>1, <2>2, <2>3 DEF Promised
<1>10. /\ DOMAIN PromisedRuns' = 1..(Len(runs) + 1)
       /\ PromisedRuns' = [i \in DOMAIN PromisedRuns' |-> PromisedRuns'[i]]
  BY <1>5, <1>6 DEF PromisedRuns
<1>11. PICK S : PromisedRuns \in Seq(S) /\ Len(PromisedRuns) = Len(runs)
  BY <1>5, PromisedFields
<1> HIDE DEF rec
<1>12. PromisedRuns' = Append(PromisedRuns, rec)
  BY <1>3, <1>6, <1>8, <1>9, <1>10, <1>11
<1>13. Abstract!NoneActive
  BY <1>3, <1>5, PromisedFields DEF Abstract!NoneActive, ActiveIn
<1>14. \A i \in DOMAIN PromisedRuns : PromisedRuns[i].id # r
  <2>1. \A i \in DOMAIN runs : runs[i].id # r
    BY <1>2, <1>3, <1>4 DEF StartFiles, BaseIds
  <2> QED BY <1>5, <2>1, PromisedFields
<1> QED BY <1>1, <1>12, <1>13, <1>14 DEF Abstract!Start, rec

LEMMA AbortAborts ==
  ASSUME IInv, FInv, IInv', FInv', NEW p \in Operators, Abort(p)
  PROVE  \E i \in DOMAIN PromisedRuns : Abstract!Abort(i)
<1>1. /\ pc[p] \in Commands /\ UNCHANGED <<journal, config, artifacts, ledger>>
  BY DEF Abort, Commands
<1>2. journal.kind # "finalize" /\ runs \in Seq(Run)
  BY <1>1, InNone DEF IInv, Fits, TypeOK
<1>3. EffectiveRuns = runs /\ EffectiveRuns' = runs'
  BY <1>1, <1>2, NowSettles, NextSettles DEF Settles
<1>4. PICK i \in ActiveIn(runs) : runs' = [runs EXCEPT ![i].status = "aborted"]
  BY DEF Abort
<1>5. i \in DOMAIN runs /\ runs[i].status = "active" /\ runs[i] \in Run
  BY <1>2, <1>4 DEF ActiveIn
<1> DEFINE rec == [runs[i] EXCEPT !.status = "aborted"]
<1>6. /\ rec.id = runs[i].id /\ rec.status = "aborted" /\ rec.from = runs[i].from
  BY <1>5 DEF Run
<1>7. runs' = [runs EXCEPT ![i] = rec]
  BY <1>4
<1> HIDE DEF rec
<1>8. /\ DOMAIN runs' = DOMAIN runs /\ runs'[i] = rec
      /\ \A j \in DOMAIN runs : j # i => runs'[j] = runs[j]
  BY <1>2, <1>5, <1>7
<1>9. EvidenceKept
  BY <1>1, SameEvidence
<1>10. \A j \in DOMAIN runs : j # i => PromisedRuns'[j] = PromisedRuns[j]
  BY <1>3, <1>8, <1>9, SameView
<1>11. /\ PromisedRuns[i] = [id |-> runs[i].id, status |-> "active", from |-> runs[i].from,
                             upto |-> 0]
       /\ DOMAIN PromisedRuns = DOMAIN runs
       /\ PromisedRuns = [j \in DOMAIN runs |-> PromisedRuns[j]]
  BY <1>3, <1>5, PromisedFields DEF PromisedRuns
<1>12. PromisedRuns'[i] = [id |-> runs[i].id, status |-> "aborted", from |-> runs[i].from,
                           upto |-> 0]
  <2>1. EffectiveRuns'[i] = rec /\ i \in DOMAIN EffectiveRuns'
    BY <1>3, <1>5, <1>8
  <2>2. PromisedRuns'[i] = Promised(EffectiveRuns[i])'
    BY <2>1 DEF PromisedRuns
  <2> QED BY <1>6, <2>1, <2>2 DEF Promised
<1>13. PromisedRuns' = [j \in DOMAIN runs |-> PromisedRuns'[j]]
  BY <1>3, <1>8 DEF PromisedRuns
<1>14. PromisedRuns' = [PromisedRuns EXCEPT ![i].status = "aborted"]
  BY <1>5, <1>10, <1>11, <1>12, <1>13
<1>15. i \in DOMAIN PromisedRuns /\ PromisedRuns[i].status = "active"
  BY <1>5, <1>11
<1> QED BY <1>1, <1>14, <1>15 DEF Abstract!Abort, Abstract!IsActive

\* No other evidence names the run that is being finalized.
LEMMA OnlyEvidence ==
  ASSUME IInv, FInv, journal.kind = "finalize", NEW o \in Outs, o # journal.out
  PROVE  artifacts.out[o].run # journal.run
<1>1. /\ Base = journal.before /\ Len(Base) \in DOMAIN Base /\ Base[Len(Base)].id = journal.run
      /\ Base[Len(Base)].status = "active" /\ Held = {journal.out} /\ FilesAgree
      /\ journal.run # NoRun
  BY InFinalize, TransactionConstants DEF FInv, JournalFiles, FinalizeFiles
<1>2. CASE artifacts.out[o] = Absent
  BY <1>1, <1>2 DEF Absent
<1>3. CASE artifacts.out[o] # Absent
  <2>1. PICK i \in DOMAIN Base : Base[i].id = artifacts.out[o].run /\ Base[i].exported
    BY <1>1, <1>3 DEF FilesAgree, OutsAgree
  <2>2. Base[i].status = "finalized"
    BY <1>1, <2>1 DEF FilesAgree, RunsAgree
  <2> QED BY <1>1, <2>1, <2>2 DEF FilesAgree
<1> QED BY <1>2, <1>3

\* SHA256SUMS completes the evidence: from then on the run is finalized, and its
\* evidence covers the whole ledger, which ends with the final review.
LEMMA ChecksumsFinalize ==
  ASSUME IInv, FInv, RInv, NEW p \in Operators, WriteEvidence(p, "checksums", "checksums", "rename")
  PROVE  \/ PromisedRuns' = PromisedRuns
         \/ \E i \in DOMAIN PromisedRuns : Abstract!Finalize(i)
<1>1. /\ pc[p] = "checksums" /\ UNCHANGED <<runs, journal, config, ledger>>
      /\ artifacts' = [artifacts EXCEPT !.staging.files = @ \cup {"checksums"}]
      /\ "checksums" \in FinalizeSteps
  BY DEF WriteEvidence, Step, FinalizeSteps
<1>2. journal.kind = "finalize" /\ FinalizeFiles /\ FilesAgree
  BY <1>1 DEF IInv, Fits, FInv, JournalFiles
<1>3. /\ artifacts.out[journal.out] = Absent /\ Reviewed
      /\ artifacts.staging.run = journal.run /\ artifacts.staging.covers = Len(ledger)
  BY <1>1 DEF RInv, Reads, UnsealedSteps, StagedSteps
<1>4. /\ journal.before \in Seq(Run) /\ Len(journal.before) \in DOMAIN journal.before
      /\ journal.before[Len(journal.before)].id = journal.run
      /\ journal.before[Len(journal.before)].status = "active"
      /\ \A i, j \in DOMAIN journal.before :
            journal.before[i].id = journal.before[j].id => i = j
      /\ journal.run \in RunIds /\ NoRun \notin RunIds /\ journal.out \in Outs
  BY <1>2, InFinalize, TransactionConstants DEF FinalizeFiles, FilesAgree
<1>5. artifacts \in Artifacts /\ artifacts.staging \in Evidence
  BY DEF IInv, TypeOK, Artifacts
<1>6. /\ artifacts'.out = artifacts.out /\ artifacts'.bundle = artifacts.bundle
      /\ artifacts'.export = artifacts.export
      /\ artifacts'.staging.run = artifacts.staging.run
      /\ artifacts'.staging.covers = artifacts.staging.covers
      /\ artifacts'.staging.files = artifacts.staging.files \cup {"checksums"}
      /\ artifacts'.staging \in Evidence
      /\ artifacts.staging = [run |-> artifacts.staging.run, files |-> artifacts.staging.files,
                              covers |-> artifacts.staging.covers]
      /\ artifacts'.staging = [run |-> artifacts'.staging.run, files |-> artifacts'.staging.files,
                               covers |-> artifacts'.staging.covers]
  BY <1>1, <1>5 DEF Artifacts, Evidence, EvidenceFiles
<1>7. ~Published /\ ~Published'
  BY <1>1, <1>3, <1>4, <1>6 DEF Published, EvidenceVerifies, Absent
<1>8. CASE Publishable
  <2>1. artifacts.staging.files = EvidenceFiles /\ "checksums" \in EvidenceFiles
    BY <1>8 DEF Publishable, EvidenceVerifies, EvidenceFiles
  <2>2. artifacts'.staging.files = artifacts.staging.files
    BY <1>6, <2>1
  <2>3. artifacts'.staging = artifacts.staging
    BY <1>6, <2>2
  <2>4. Publishable'
    BY <1>1, <1>6, <1>8, <2>3 DEF Publishable, EvidenceVerifies, BundleValid
  <2>5. EffectiveRuns' = EffectiveRuns
    BY <1>1, <1>2, <1>8, <2>4 DEF EffectiveRuns, Archive
  <2> QED BY <1>6, <2>3, <2>5, SameEvidence, Stutters
<1>9. artifacts.out[journal.out].run = NoRun
  BY <1>3 DEF Absent
<1>10. CASE ~Publishable /\ ~Publishable'
  <2>1. PromisedRuns' = PromisedRuns
    BY <1>1, <1>2, <1>3, <1>6, <1>7, <1>9, <1>10, OpenStutters
  <2> QED BY <2>1
<1>11. CASE ~Publishable /\ Publishable'
  <2>1. EffectiveRuns = journal.before /\ EffectiveRuns' = Archived
    BY <1>1, <1>2, <1>7, <1>11 DEF EffectiveRuns, Archived, Archive
  <2>2. PICK n \in DOMAIN journal.before : n = Len(journal.before)
    BY <1>4
  <2>3. /\ DOMAIN Archived = DOMAIN journal.before /\ Archived[n].id = journal.run
        /\ Archived[n].status = "finalized" /\ Archived[n].from = journal.before[n].from
        /\ \A i \in DOMAIN journal.before : i # n => Archived[i] = journal.before[i]
    <3> DEFINE rs == journal.before
               rec == [rs[n] EXCEPT !.status = "finalized", !.exported = TRUE]
    <3>1. rec.from = rs[n].from /\ Archived = [rs EXCEPT ![n] = rec]
      BY <1>4, <2>2 DEF Archived, Archive, Run
    <3> HIDE DEF rec
    <3>2. Archived[n].from = journal.before[n].from
      BY <3>1
    <3> QED BY <1>4, <2>2, <3>2, ArchivedRuns
  <2>4. EvidenceKept
    <3>1. \A r \in RunIds : r # journal.run => KeepsEvidence(r)
      BY <1>2, <1>3, <1>6, <1>9, OtherEvidence
    <3>2. \A i \in DOMAIN journal.before : journal.before[i].id = journal.run =>
              journal.before[i].status = "active"
      BY <1>4
    <3> QED BY <2>1, <3>1, <3>2 DEF EvidenceKept
  <2>5. \A i \in DOMAIN journal.before : i # n => PromisedRuns'[i] = PromisedRuns[i]
    BY <2>1, <2>3, <2>4, SameView
  <2>6. PICK r \in RunIds : r = journal.run
    BY <1>4
  <2>7. PICK e : e = artifacts'.staging
    OBVIOUS
  <2>8. e.run = r /\ e.files = EvidenceFiles /\ e.covers = Len(ledger)
    BY <1>1, <1>3, <1>6, <1>11, <2>6, <2>7 DEF Publishable, EvidenceVerifies
  <2>9. \A o \in Outs : artifacts'.out[o].run # r
    BY <1>2, <1>4, <1>6, <1>9, <2>6, OnlyEvidence
  <2>10. CompleteEvidence(r)' = {e}
    BY <2>7, <2>8, <2>9 DEF CompleteEvidence
  <2>11. Sealed(r)' = Len(ledger)
    BY <2>8, <2>10 DEF Sealed
  <2>12. PromisedRuns'[n] = [id |-> r, status |-> "finalized", from |-> journal.before[n].from,
                             upto |-> Len(ledger)]
    <3>1. PICK rec : rec = EffectiveRuns'[n]
      OBVIOUS
    <3>2. /\ rec.id = r /\ rec.status = "finalized" /\ rec.from = journal.before[n].from
          /\ n \in DOMAIN EffectiveRuns'
      BY <2>1, <2>3, <2>6, <3>1
    <3>3. PromisedRuns'[n] = Promised(EffectiveRuns[n])'
      BY <3>2 DEF PromisedRuns
    <3>4. PromisedRuns'[n] = [id |-> rec.id, status |-> rec.status, from |-> rec.from,
                              upto |-> IF rec.status = "finalized" THEN Sealed(r)' ELSE 0]
      BY <3>1, <3>2, <3>3 DEF Promised, Sealed, CompleteEvidence
    <3> QED BY <2>11, <3>2, <3>4
  <2>13. /\ DOMAIN PromisedRuns = DOMAIN journal.before
         /\ PromisedRuns = [j \in DOMAIN journal.before |-> PromisedRuns[j]]
         /\ PromisedRuns[n] = [id |-> r, status |-> "active", from |-> journal.before[n].from,
                               upto |-> 0]
    <3>1. PromisedRuns = [j \in DOMAIN journal.before |-> Promised(EffectiveRuns[j])]
      BY <2>1 DEF PromisedRuns
    <3>2. PromisedRuns = [j \in DOMAIN journal.before |-> PromisedRuns[j]]
      BY <3>1
    <3>3. EffectiveRuns[n].status # "finalized" /\ n \in DOMAIN EffectiveRuns
      BY <1>4, <2>1, <2>2
    <3>4. PromisedRuns[n] = [id |-> EffectiveRuns[n].id, status |-> EffectiveRuns[n].status,
                             from |-> EffectiveRuns[n].from, upto |-> 0]
      BY <3>3, PromisedFields
    <3>5. /\ EffectiveRuns[n].id = r /\ EffectiveRuns[n].status = "active"
          /\ EffectiveRuns[n].from = journal.before[n].from
      BY <1>4, <2>1, <2>2, <2>6
    <3>6. DOMAIN PromisedRuns = DOMAIN journal.before
      BY <2>1 DEF PromisedRuns
    <3> QED BY <3>2, <3>4, <3>5, <3>6
  <2>14. PromisedRuns' = [j \in DOMAIN journal.before |-> PromisedRuns'[j]]
    BY <2>1, <2>3 DEF PromisedRuns
  <2> DEFINE rec == [id |-> r, status |-> "finalized", from |-> journal.before[n].from,
                     upto |-> Len(ledger)]
  <2>15. rec = [PromisedRuns[n] EXCEPT !.status = "finalized", !.upto = Len(ledger)]
    <3>1. PICK old, f, k : /\ old = PromisedRuns[n] /\ f = journal.before[n].from
                           /\ k = Len(ledger)
      OBVIOUS
    <3>2. old = [id |-> r, status |-> "active", from |-> f, upto |-> 0]
      BY <2>13, <3>1
    <3>3. [old EXCEPT !.status = "finalized", !.upto = k]
          = [id |-> r, status |-> "finalized", from |-> f, upto |-> k]
      <4>1. PICK mid : mid = [old EXCEPT !.status = "finalized"]
        OBVIOUS
      <4>2. old \in [id: {r}, status: {"active"}, from: {f}, upto: {0}]
        BY <3>2
      <4>3. mid = [id |-> r, status |-> "finalized", from |-> f, upto |-> 0]
        BY <3>2, <4>1, <4>2
      <4>4. mid \in [id: {r}, status: {"finalized"}, from: {f}, upto: {0}]
        BY <4>3
      <4>5. [mid EXCEPT !.upto = k] = [id |-> r, status |-> "finalized", from |-> f, upto |-> k]
        BY <4>3, <4>4
      <4>6. [old EXCEPT !.status = "finalized", !.upto = k] = [mid EXCEPT !.upto = k]
        BY <4>1
      <4> QED BY <4>5, <4>6
    <3> QED BY <3>1, <3>3
  <2>16. [PromisedRuns EXCEPT ![n] = rec]
         = [PromisedRuns EXCEPT ![n].status = "finalized", ![n].upto = Len(ledger)]
    BY <2>13, <2>15
  <2> HIDE DEF rec
  <2>17. PromisedRuns' = [PromisedRuns EXCEPT ![n] = rec]
    BY <2>5, <2>12, <2>13, <2>14 DEF rec
  <2>18. /\ Len(ledger) > PromisedRuns[n].from /\ ledger[Len(ledger)].kind = "review"
         /\ n \in DOMAIN PromisedRuns /\ PromisedRuns[n].status = "active"
    BY <1>3, <2>2, <2>13 DEF Reviewed, LastEvent
  <2>19. Abstract!Finalize(n)
    BY <1>1, <2>16, <2>17, <2>18 DEF Abstract!Finalize, Abstract!IsActive
  <2> QED BY <2>18, <2>19
<1> QED BY <1>8, <1>10, <1>11

\* A writer that is not blocked records under the run that is active in the atomic runs.
LEMMA ContextIsActive ==
  ASSUME IInv, FInv, RunContext # "blocked"
  PROVE  RunContext = ActiveId(EffectiveRuns)
<1>1. CASE journal.kind = "start"
  <2>1. EffectiveRuns = runs
    BY <1>1, NowSettles DEF Settles
  <2>2. /\ ActiveIn(journal.before) = {}
        /\ \/ ActiveIn(runs) = {}
           \/ journal.phase \in IntentPhases /\ ActiveId(runs) = journal.run
    BY <1>1 DEF IInv, JournalSound
  <2> QED BY <1>1, <2>1, <2>2 DEF RunContext, ActiveId
<1>2. CASE journal.kind = "finalize"
  <2>1. journal.phase \notin SealedPhases /\ RunContext = ActiveId(journal.before)
    BY <1>2 DEF RunContext
  <2>2. EffectiveRuns = journal.before
    BY <1>2, <2>1, NowSettles DEF Settles, EffectiveRuns
  <2> QED BY <2>1, <2>2
<1>3. CASE journal.kind \notin {"start", "finalize"}
  BY <1>3 DEF RunContext, EffectiveRuns
<1> QED BY <1>1, <1>2, <1>3

LEMMA ContextCarries ==
  ASSUME IInv, FInv, RunContext # "blocked", NEW r, r = RunContext
  PROVE  r \in RunIds \cup {NoRun} /\ Abstract!Carries(r)
<1>1. r = ActiveId(EffectiveRuns) /\ EffectiveRuns \in Seq(Run)
  BY ContextIsActive, EffectiveTypes
<1>2. CASE ActiveIn(EffectiveRuns) = {}
  <2>1. r = NoRun
    BY <1>1, <1>2, ActiveIdType
  <2>2. Abstract!NoneActive
    BY <1>2, PromisedFields DEF ActiveIn, Abstract!NoneActive
  <2> QED BY <2>1, <2>2 DEF Abstract!Carries
<1>3. CASE ActiveIn(EffectiveRuns) # {}
  <2>1. PICK i \in ActiveIn(EffectiveRuns) : r = EffectiveRuns[i].id
    BY <1>1, <1>3 DEF ActiveId
  <2>2. i \in DOMAIN EffectiveRuns /\ EffectiveRuns[i].status = "active"
    BY <2>1 DEF ActiveIn
  <2>3. /\ i \in DOMAIN PromisedRuns /\ PromisedRuns[i].status = "active"
        /\ PromisedRuns[i].id = r
    BY <2>1, <2>2, PromisedFields
  <2>4. ~Abstract!NoneActive /\ Abstract!IsActive(i)
    BY <2>3 DEF Abstract!NoneActive, Abstract!IsActive
  <2>5. r \in RunIds
    BY <1>1, <1>3, ActiveIdType
  <2> QED BY <2>3, <2>4, <2>5 DEF Abstract!Carries
<1> QED BY <1>2, <1>3

LEMMA RecordRecords ==
  ASSUME IInv, FInv, IInv', FInv', RunContext # "blocked", NEW r, r = RunContext,
         AppendEvent(r), UNCHANGED <<runs, journal, artifacts>>
  PROVE  \E a \in RunIds \cup {NoRun} : Abstract!Record(a)
<1>1. PromisedRuns' = PromisedRuns
  BY QuietStutters
<1>2. r \in RunIds \cup {NoRun} /\ Abstract!Carries(r)
  BY ContextCarries
<1> QED BY <1>1, <1>2 DEF AppendEvent, Abstract!Record

LEMMA ReviewReviews ==
  ASSUME IInv, FInv, IInv', FInv', NEW p \in Operators, Review(p)
  PROVE  \E i \in DOMAIN PromisedRuns : Abstract!Review(i)
<1>1. /\ pc[p] \in Commands /\ UNCHANGED <<runs, journal, config, artifacts>>
      /\ ActiveIn(runs) # {} /\ Len(ledger) < MaxLedger
      /\ ledger' = Append(ledger, [kind |-> "review", run |-> ActiveId(runs)])
  BY DEF Review, Commands
<1>2. PromisedRuns' = PromisedRuns
  BY <1>1, QuietStutters
<1>3. journal.kind # "finalize"
  BY <1>1, InNone DEF IInv, Fits
<1>4. EffectiveRuns = runs
  BY <1>3, NowSettles DEF Settles
<1>5. PICK i \in ActiveIn(runs) : ActiveId(runs) = runs[i].id
  BY <1>1 DEF ActiveId
<1>6. /\ i \in DOMAIN PromisedRuns /\ PromisedRuns[i].status = "active"
      /\ PromisedRuns[i].id = ActiveId(runs)
  BY <1>4, <1>5, PromisedFields DEF ActiveIn
<1> QED BY <1>1, <1>2, <1>6 DEF Abstract!Review, Abstract!IsActive

-----------------------------------------------------------------------------
Simulated == [Abstract!Next]_(Abstract!runVars)

\* Every step is a step of the atomic runs, or changes nothing they show.
LEMMA NextSimulates == IInv /\ FInv /\ RInv /\ (IInv /\ FInv)' /\ [Next]_vars => Simulated
<1> SUFFICES ASSUME IInv, FInv, RInv, IInv', FInv', [Next]_vars PROVE Simulated
  OBVIOUS
<1>1. ASSUME PromisedRuns' = PromisedRuns, ledger' = ledger PROVE Simulated
  BY <1>1 DEF Simulated, Abstract!runVars
<1>2. ASSUME UNCHANGED <<runs, journal, artifacts, ledger>> PROVE Simulated
  BY <1>1, <1>2, QuietStutters
<1>3. CASE UNCHANGED vars
  BY <1>2, <1>3 DEF vars, disk
<1>4. CASE \E p \in Operators : \/ Status(p) \/ Bail(p) \/ Crash(p) \/ Fail(p)
                               \/ \E c \in Commands : Begin(p, c)
  BY <1>2, <1>4 DEF Status, Bail, Crash, Fail, Begin, disk
<1>5. CASE \E p \in Operators : Reconcile(p)
  <2>1. ledger' = ledger
    BY <1>5 DEF Reconcile, ReconcileNothing, ReconcileStartActivated, RestoreState,
                RestoreAutopilot, RestoreGateMode, RemoveBackup, RemoveBundle, ClearRollback,
                RecoverPublished, RecoverRename, RecoverState, DropStaging, ClearFinalized,
                DiscardStaging, DiscardOut, DiscardExport, RestoreOriginal, disk
  <2> QED BY <1>1, <1>5, <2>1, ReconcileStutters
<1>6. CASE \E p \in Operators : StartCommand(p)
  <2>1. PICK p \in Operators : StartCommand(p)
    BY <1>6
  <2>2. CASE Activate(p)
    BY <2>2, ActivateStarts DEF Simulated, Abstract!Next
  <2>3. CASE ~Activate(p)
    <3>1. ledger' = ledger
      BY <2>1 DEF StartCommand, JournalStart, JournalPhase, JournalIntent, ExportBackup,
                  ReserveDirectory, CopyBundle, WriteAutopilot, WriteGateMode, Activate,
                  ClearJournal
    <3> QED BY <1>1, <2>1, <2>3, <3>1, StartStutters
  <2> QED BY <2>2, <2>3
<1>7. CASE \E p \in Operators : FinalizeCommand(p)
  <2>1. PICK p \in Operators : FinalizeCommand(p)
    BY <1>7
  <2>2. ledger' = ledger
    BY <2>1 DEF FinalizeCommand, JournalFinalize, JournalPhase, ArchiveState, CreateStaging,
                ExportFinal, WriteEvidence, RenameEvidence, WriteFinalState, ClearJournal
  <2>3. CASE WriteEvidence(p, "checksums", "checksums", "rename")
    BY <1>1, <2>2, <2>3, ChecksumsFinalize DEF Simulated, Abstract!Next
  <2>4. CASE ~WriteEvidence(p, "checksums", "checksums", "rename")
    BY <1>1, <2>1, <2>2, <2>4, FinalizeStutters
  <2> QED BY <2>3, <2>4
<1>8. CASE \E p \in Operators : Review(p) \/ Abort(p)
  BY <1>8, ReviewReviews, AbortAborts DEF Simulated, Abstract!Next
<1>9. CASE RecordDecision
  <2>1. PICK r : r = RunContext
    OBVIOUS
  <2> QED BY <1>9, <2>1, RecordRecords DEF RecordDecision, Simulated, Abstract!Next
<1>10. CASE \E field \in {"gateMode", "autopilot"}, mode \in Modes : SetConfig(field, mode)
  BY <1>2, <1>10 DEF SetConfig
<1>11. CASE \E g \in Gates : GateEvaluate(g) \/ GateRetry(g)
  BY <1>2, <1>11 DEF GateEvaluate, GateRetry, disk
<1>12. CASE \E g \in Gates : GateAppend(g)
  <2>1. PICK g \in Gates : GateAppend(g)
    BY <1>12
  <2>2. PICK r : r = seen[g]
    OBVIOUS
  <2>3. r = RunContext /\ AppendEvent(r) /\ UNCHANGED <<runs, journal, artifacts>>
    BY <2>1, <2>2 DEF GateAppend, AppendEvent
  <2>4. RunContext # "blocked"
    BY <2>1, TransactionConstants DEF GateAppend, IInv, TypeOK
  <2> QED BY <2>3, <2>4, RecordRecords DEF Simulated, Abstract!Next
<1> QED BY <1>3, <1>4, <1>5, <1>6, <1>7, <1>8, <1>9, <1>10, <1>11, <1>12 DEF Next, Operator

LEMMA InitSimulates == Init => Abstract!Init
<1> SUFFICES ASSUME Init PROVE Abstract!Init
  OBVIOUS
<1>1. EffectiveRuns = <<>>
  BY DEF Init, EffectiveRuns, NoJournal
<1>2. PromisedRuns = <<>>
  BY <1>1 DEF PromisedRuns
<1> QED BY <1>2 DEF Init, Abstract!Init

\* The file-level protocol implements the atomic runs of DogfoodRun: with every crash,
\* error and recovery, a run starts at one instant and is finalized at one instant.
THEOREM Refinement == Spec => Implements
<1>1. Spec => [](IInv /\ FInv /\ RInv)
  BY FilesInvariant, InitRInv, NextRInv, PTL DEF Spec
<1>2. IInv /\ FInv /\ RInv /\ (IInv /\ FInv /\ RInv)' /\ [Next]_vars
          => [Abstract!Next]_(Abstract!runVars)
  BY NextSimulates DEF Simulated
<1> QED BY <1>1, <1>2, InitSimulates, PTL DEF Spec, Implements, Abstract!Spec

-----------------------------------------------------------------------------
\* What DogfoodRunProofs proves of the atomic runs, read in the files.
Promises == INSTANCE DogfoodRunProofs WITH runs <- PromisedRuns

\* With every crash, error, recovery and writer: the run that is active is the newest
\* and owns every event since it started, and the evidence a finalized run has on disk
\* covers every event that names the run, and no other.
THEOREM PromisesAreKept ==
  Spec => [](/\ Promises!OnlyNewestActive
             /\ Promises!ActiveRunOwnsSuffix
             /\ Promises!EvidenceSealsRun)
<1>1. Abstract!Init => Promises!Init
  BY DEF Abstract!Init, Promises!Init
<1>2. [Abstract!Next]_(Abstract!runVars) => [Promises!Next]_(Promises!runVars)
  BY DEF Abstract!Next, Abstract!Start, Abstract!Record, Abstract!Carries, Abstract!NoneActive,
         Abstract!Review, Abstract!Abort, Abstract!Finalize, Abstract!IsActive, Abstract!runVars,
         Promises!Next, Promises!Start, Promises!Record, Promises!Carries, Promises!NoneActive,
         Promises!Review, Promises!Abort, Promises!Finalize, Promises!IsActive, Promises!runVars
<1>3. Spec => Promises!Spec
  BY <1>1, <1>2, Refinement, PTL DEF Implements, Abstract!Spec, Promises!Spec
<1>4. NoRun \notin RunIds /\ MaxLedger \in Nat
  BY TransactionConstants
<1>5. Promises!Spec => []Promises!OnlyNewestActive
  BY <1>4, Promises!OnlyNewestActiveHolds
<1>6. Promises!Spec => []Promises!ActiveRunOwnsSuffix
  BY <1>4, Promises!ActiveRunOwnsSuffixHolds
<1>7. Promises!Spec => []Promises!EvidenceSealsRun
  BY <1>4, Promises!EvidenceSealsRunHolds
<1> QED BY <1>3, <1>5, <1>6, <1>7, PTL
=============================================================================
