------------------------- MODULE DogfoodTransaction -------------------------
(***************************************************************************)
(* The dogfood commands of dogfood.rs at the granularity of the files they *)
(* write: start, status, review, abort and finalize, the transaction       *)
(* journal, crashes and in-process errors at every step, and the recovery  *)
(* every command runs first.  Beside them run the ledger writers that take *)
(* only the ledger lock: gate evaluation (two steps), record-decision, and *)
(* the gate-mode and autopilot setters.                                    *)
(*                                                                         *)
(* One step is one durable effect (write_atomic, rename, remove, export).  *)
(* pc[p] names the next effect of operator process p.  A crash forgets the *)
(* process and releases its locks; the files stay as they are.             *)
(***************************************************************************)
EXTENDS Naturals, Sequences

CONSTANTS Operators,   \* processes that run dogfood commands
          Gates,       \* processes that evaluate gates
          RunIds, NoRun,
          Outs,        \* evidence directories an operator may name
          Modes,       \* contents of gate-mode and autopilot.json, beside "missing"
          MaxLedger    \* bound on the length of the ledger

ASSUME TransactionConstants ==
    /\ NoRun \notin RunIds
    /\ {"none", "blocked"} \cap (RunIds \cup {NoRun}) = {}
    /\ "shadow" \in Modes
    /\ "missing" \notin Modes
    /\ MaxLedger \in Nat

VARIABLES
    runs,        \* .brainmap/dogfood-state.json
    journal,     \* .brainmap/locks/dogfood-transaction.json, or NoJournal
    config,      \* .brainmap/gate-mode and .brainmap/autopilot.json
    artifacts,   \* start backups, qualification bundles, final exports, evidence
    ledger,      \* 90-calibration/decision-ledger.jsonl
    maintenance, \* holder of the vault maintenance lock
    ledgerLock,  \* holder of the ledger lock across steps
    pc, cmd, readLen,   \* per operator: next effect, command, ledger length it read
    seen                \* per gate: run context it evaluated under

disk == <<runs, journal, config, artifacts, ledger>>
locks == <<maintenance, ledgerLock>>
local == <<pc, cmd, readLen>>
vars == <<disk, locks, local, seen>>

-----------------------------------------------------------------------------
Statuses == {"active", "aborted", "finalized"}
Run == [id: RunIds, status: Statuses, from: 0..MaxLedger, exported: BOOLEAN]
Event == [kind: {"event", "review"}, run: RunIds \cup {NoRun}]
FileContents == Modes \cup {"missing"}
Config == [gateMode: FileContents, autopilot: FileContents]

IntentPhases == {"IntentRecorded", "AutopilotWritten", "GateModeWritten"}
OwnsBundlePhases ==
    {"QualificationDirectoryPrepared", "QualificationBundleCopied"} \cup IntentPhases
StartPhases == {"Prepared", "BackupCreated"} \cup OwnsBundlePhases

FinalizePhases ==
    {"Prepared", "ArchivedStateWritten", "StagingCreated", "ExportWritten",
     "QualificationBundleCopied", "JsonReportWritten", "MarkdownReportWritten",
     "ChecksumsWritten", "EvidenceActivated", "FinalStateWritten"}

\* Mutant: recording is blocked only once the evidence has been renamed into place.
SealedOnceActivated == {"EvidenceActivated", "FinalStateWritten"}

\* Phases in which the evidence may already be complete: nothing more may be recorded.
SealedPhases == {"ChecksumsWritten", "EvidenceActivated", "FinalStateWritten"}

\* before: previous_state of a start, original_state of a finalization, whose
\* active_index is always the last run.  intended_run is run and from.
NoJournal == [kind |-> "none"]
StartJournal ==
    [kind: {"start"}, phase: StartPhases, run: RunIds, before: Seq(Run),
     prior: Config, from: 0..MaxLedger]
FinalizeJournal ==
    [kind: {"finalize"}, phase: FinalizePhases, run: RunIds, before: Seq(Run), out: Outs]

EvidenceFiles == {"qualification", "json", "markdown", "checksums"}
Absent == [run |-> NoRun, files |-> {}, covers |-> 0]
Evidence == [run: RunIds \cup {NoRun}, files: SUBSET EvidenceFiles, covers: 0..MaxLedger]

Artifacts ==
    [backup: SUBSET RunIds,
     bundle: [RunIds -> {"absent", "reserved", "copied"}],
     export: SUBSET RunIds,
     staging: Evidence,
     out: [Outs -> Evidence]]

-----------------------------------------------------------------------------
\* What the code reads back from the files.

EffectiveMode(contents) == IF contents = "missing" THEN "shadow" ELSE contents
ConfigIsShadow ==
    /\ EffectiveMode(config.gateMode) = "shadow"
    /\ EffectiveMode(config.autopilot) = "shadow"

ActiveIn(rs) == {i \in DOMAIN rs : rs[i].status = "active"}
ActiveId(rs) == IF ActiveIn(rs) = {} THEN NoRun ELSE rs[CHOOSE i \in ActiveIn(rs) : TRUE].id
LastEvent == ledger[Len(ledger)]

\* Mutant: a finalization in progress is judged by the archived state on disk.
ContextOfLiveState ==
    IF journal.kind = "finalize" /\ journal.phase \in SealedPhases THEN "blocked"
    ELSE ActiveId(runs)

\* active_run_context: the run an event recorded now belongs to, or "blocked".
RunContext ==
    IF journal.kind = "finalize" /\ journal.phase \in SealedPhases THEN "blocked"
    ELSE IF journal.kind = "finalize" THEN ActiveId(journal.before)
    ELSE IF journal.kind = "start" THEN
        IF journal.phase \in IntentPhases /\ ActiveId(runs) = journal.run
        THEN journal.run
        ELSE ActiveId(journal.before)
    ELSE ActiveId(runs)

BundleValid(r) == artifacts.bundle[r] = "copied"

StartActivationValid ==
    /\ journal.phase \in IntentPhases
    /\ ActiveId(runs) = journal.run
    /\ journal.run \in artifacts.backup
    /\ BundleValid(journal.run)
    /\ ConfigIsShadow

EvidenceVerifies(evidence, r) ==
    /\ evidence.run = r
    /\ evidence.files = EvidenceFiles
    /\ r \in artifacts.export

\* verify_run_provenance
RunProvenanceValid(r) ==
    /\ ConfigIsShadow
    /\ BundleValid(r)
    /\ r \in artifacts.backup

Archive(rs, exported) ==
    [rs EXCEPT ![Len(rs)].status = "finalized", ![Len(rs)].exported = exported]

-----------------------------------------------------------------------------
\* Control of an operator process.

Step(p, from, to) ==
    /\ pc[p] = from
    /\ pc' = [pc EXCEPT ![p] = to]
    /\ UNCHANGED <<locks, cmd, readLen, seen>>

Exit(p) ==
    /\ pc' = [pc EXCEPT ![p] = "idle"]
    /\ cmd' = [cmd EXCEPT ![p] = "none"]
    /\ readLen' = [readLen EXCEPT ![p] = 0]
    /\ maintenance' = maintenance \ {p}
    /\ ledgerLock' = ledgerLock \ {p}
    /\ UNCHANGED seen

Commands == {"start", "status", "review", "abort", "finalize"}

\* acquire_vault_maintenance bails when the lock is held; lock_jsonl waits.
Begin(p, c) ==
    /\ pc[p] = "idle"
    /\ maintenance = {}
    /\ ledgerLock = {}
    /\ maintenance' = {p}
    /\ ledgerLock' = {p}
    /\ pc' = [pc EXCEPT ![p] = "reconcile"]
    /\ cmd' = [cmd EXCEPT ![p] = c]
    /\ UNCHANGED <<disk, readLen, seen>>

\* The end of reconcile_pending_transaction_locked, with its outcome: a start that
\* recovered its own activation, a finalize that recovered its own evidence and an
\* error path are done; every other command goes on and reads the ledger.
Reconciled(p, from, outcome) ==
    /\ pc[p] = from
    /\ IF cmd[p] = "recover" \/ <<cmd[p], outcome>> \in
              {<<"start", "StartActivated">>, <<"finalize", "Finalized">>}
       THEN Exit(p)
       ELSE /\ pc' = [pc EXCEPT ![p] = cmd[p]]
            /\ readLen' = [readLen EXCEPT ![p] = Len(ledger)]
            /\ UNCHANGED <<locks, cmd, seen>>

\* A killed process: its flocks are released by the kernel.
Crash(p) ==
    /\ pc[p] # "idle"
    /\ Exit(p)
    /\ UNCHANGED disk

StartSteps ==
    {"backup", "BackupCreated", "directory", "QualificationDirectoryPrepared", "bundle",
     "QualificationBundleCopied", "IntentRecorded", "autopilot", "AutopilotWritten",
     "gateMode", "GateModeWritten", "activate", "clearStart"}
FinalizeSteps ==
    {"archive", "ArchivedStateWritten", "staging", "StagingCreated", "export", "ExportWritten",
     "qualification", "FinalQualificationCopied", "json", "JsonReportWritten", "markdown",
     "MarkdownReportWritten", "ChecksumsWritten", "checksums", "rename", "EvidenceActivated",
     "finalState", "FinalStateWritten", "clearFinalize"}

UndoStartSteps ==
    {"restoreAutopilot", "restoreGateMode", "removeBackup", "removeBundle"}
RecoverFinalizeSteps ==
    {"recoverState", "dropStaging", "clearFinalized", "discardOut", "discardExport",
     "restoreOriginal"}
Labels ==
    {"idle", "reconcile", "clearRollback"} \cup UndoStartSteps \cup RecoverFinalizeSteps
        \cup Commands \cup StartSteps \cup FinalizeSteps

\* An effect returns an error.  Start drops the ledger lock before it recovers;
\* finalize keeps it.
Fail(p) ==
    /\ pc[p] \in StartSteps \cup FinalizeSteps
    /\ pc' = [pc EXCEPT ![p] = "reconcile"]
    /\ cmd' = [cmd EXCEPT ![p] = "recover"]
    /\ ledgerLock' = IF pc[p] \in StartSteps THEN ledgerLock \ {p} ELSE ledgerLock
    /\ UNCHANGED <<disk, maintenance, readLen, seen>>

\* A command body bails: wrong arguments, no active run, failed validation.
Bail(p) ==
    /\ pc[p] \in Commands
    /\ Exit(p)
    /\ UNCHANGED disk

-----------------------------------------------------------------------------
\* reconcile_pending_transaction_locked

ReconcileNothing(p) ==
    /\ journal = NoJournal
    /\ Reconciled(p, "reconcile", "None")
    /\ UNCHANGED disk

ReconcileStartActivated(p) ==
    /\ journal.kind = "start"
    /\ StartActivationValid
    /\ journal' = NoJournal
    /\ Reconciled(p, "reconcile", "StartActivated")
    /\ UNCHANGED <<runs, config, artifacts, ledger>>

\* rollback_start_transaction, one restored file at a time
RestoreState(p) ==
    /\ journal.kind = "start"
    /\ ~StartActivationValid
    /\ runs' = journal.before
    /\ Step(p, "reconcile", "restoreAutopilot")
    /\ UNCHANGED <<journal, config, artifacts, ledger>>

RestoreAutopilot(p) ==
    /\ Step(p, "restoreAutopilot", "restoreGateMode")
    /\ config' = [config EXCEPT !.autopilot = journal.prior.autopilot]
    /\ UNCHANGED <<runs, journal, artifacts, ledger>>

RestoreGateMode(p) ==
    /\ Step(p, "restoreGateMode", "removeBackup")
    /\ config' = [config EXCEPT !.gateMode = journal.prior.gateMode]
    /\ UNCHANGED <<runs, journal, artifacts, ledger>>

RemoveBackup(p) ==
    /\ Step(p, "removeBackup", "removeBundle")
    /\ artifacts' = IF journal.phase # "Prepared"
                    THEN [artifacts EXCEPT !.backup = @ \ {journal.run}]
                    ELSE artifacts
    /\ UNCHANGED <<runs, journal, config, ledger>>

RemoveBundle(p) ==
    /\ Step(p, "removeBundle", "clearRollback")
    /\ artifacts' = IF journal.phase \in OwnsBundlePhases
                    THEN [artifacts EXCEPT !.bundle[journal.run] = "absent"]
                    ELSE artifacts
    /\ UNCHANGED <<runs, journal, config, ledger>>

\* Mutant: the rollback ends without removing its journal.
RollbackKeepsJournal(p) ==
    /\ Reconciled(p, "clearRollback", "RolledBack")
    /\ UNCHANGED disk

ClearRollback(p) ==
    /\ journal' = NoJournal
    /\ Reconciled(p, "clearRollback", "RolledBack")
    /\ UNCHANGED <<runs, config, artifacts, ledger>>

\* Recovery completes a finalization only from evidence that verifies in full.
Published == BundleValid(journal.run) /\ EvidenceVerifies(artifacts.out[journal.out], journal.run)
Publishable ==
    /\ BundleValid(journal.run)
    /\ artifacts.out[journal.out] = Absent
    /\ EvidenceVerifies(artifacts.staging, journal.run)

RecoverPublished(p) ==
    /\ journal.kind = "finalize"
    /\ Published
    /\ Step(p, "reconcile", "recoverState")
    /\ UNCHANGED disk

RecoverRename(p) ==
    /\ journal.kind = "finalize"
    /\ ~Published /\ Publishable
    /\ Step(p, "reconcile", "recoverState")
    /\ artifacts' = [artifacts EXCEPT !.out[journal.out] = artifacts.staging, !.staging = Absent]
    /\ UNCHANGED <<runs, journal, config, ledger>>

RecoverState(p) ==
    /\ Step(p, "recoverState", "dropStaging")
    /\ runs' = Archive(journal.before, TRUE)
    /\ UNCHANGED <<journal, config, artifacts, ledger>>

DropStaging(p) ==
    /\ Step(p, "dropStaging", "clearFinalized")
    /\ artifacts' = [artifacts EXCEPT !.staging = Absent]
    /\ UNCHANGED <<runs, journal, config, ledger>>

ClearFinalized(p) ==
    /\ journal' = NoJournal
    /\ Reconciled(p, "clearFinalized", "Finalized")
    /\ UNCHANGED <<runs, config, artifacts, ledger>>

\* Mutant: recovery refuses to roll back a sealed finalization.
DiscardUnsealedStaging(p) ==
    /\ journal.kind = "finalize"
    /\ journal.phase \notin SealedPhases
    /\ ~Published /\ ~Publishable
    /\ Step(p, "reconcile", "discardOut")
    /\ artifacts' = [artifacts EXCEPT !.staging = Absent]
    /\ UNCHANGED <<runs, journal, config, ledger>>

DiscardStaging(p) ==
    /\ journal.kind = "finalize"
    /\ ~Published /\ ~Publishable
    /\ Step(p, "reconcile", "discardOut")
    /\ artifacts' = [artifacts EXCEPT !.staging = Absent]
    /\ UNCHANGED <<runs, journal, config, ledger>>

DiscardOut(p) ==
    /\ Step(p, "discardOut", "discardExport")
    /\ artifacts' = [artifacts EXCEPT !.out[journal.out] = Absent]
    /\ UNCHANGED <<runs, journal, config, ledger>>

\* Mutant: the rollback of a finalization forgets the private final export.
KeepExport(p) ==
    /\ Step(p, "discardExport", "restoreOriginal")
    /\ UNCHANGED disk

DiscardExport(p) ==
    /\ Step(p, "discardExport", "restoreOriginal")
    /\ artifacts' = [artifacts EXCEPT !.export = @ \ {journal.run}]
    /\ UNCHANGED <<runs, journal, config, ledger>>

RestoreOriginal(p) ==
    /\ Step(p, "restoreOriginal", "clearRollback")
    /\ runs' = journal.before
    /\ UNCHANGED <<journal, config, artifacts, ledger>>

Reconcile(p) ==
    \/ ReconcileNothing(p) \/ ReconcileStartActivated(p)
    \/ RestoreState(p) \/ RestoreAutopilot(p) \/ RestoreGateMode(p)
    \/ RemoveBackup(p) \/ RemoveBundle(p) \/ ClearRollback(p)
    \/ RecoverPublished(p) \/ RecoverRename(p) \/ RecoverState(p)
    \/ DropStaging(p) \/ ClearFinalized(p)
    \/ DiscardStaging(p) \/ DiscardOut(p) \/ DiscardExport(p) \/ RestoreOriginal(p)

-----------------------------------------------------------------------------
\* start_at_with_verifier

\* util::id never repeats: a new run id has left no trace on disk.
FreshRun(r) ==
    /\ \A i \in DOMAIN runs : runs[i].id # r
    /\ r \notin artifacts.backup
    /\ artifacts.bundle[r] = "absent"

\* Mutant: start does not look for a run that is already active.
JournalSecondStart(p, r) ==
    /\ FreshRun(r)
    /\ Step(p, "start", "backup")
    /\ journal' = [kind |-> "start", phase |-> "Prepared", run |-> r, before |-> runs,
                   prior |-> config, from |-> 0]
    /\ UNCHANGED <<runs, config, artifacts, ledger>>

JournalStart(p, r) ==
    /\ ActiveIn(runs) = {}
    /\ FreshRun(r)
    /\ Step(p, "start", "backup")
    /\ journal' = [kind |-> "start", phase |-> "Prepared", run |-> r, before |-> runs,
                   prior |-> config, from |-> 0]
    /\ UNCHANGED <<runs, config, artifacts, ledger>>

\* write_transaction of the next phase; IntentRecorded also records the intended run.
JournalPhase(p, step, phase, next) ==
    /\ Step(p, step, next)
    /\ journal' = [journal EXCEPT !.phase = phase]
    /\ UNCHANGED <<runs, config, artifacts, ledger>>

JournalIntent(p) ==
    /\ Step(p, "IntentRecorded", "autopilot")
    /\ journal' = [journal EXCEPT !.phase = "IntentRecorded", !.from = readLen[p]]
    /\ UNCHANGED <<runs, config, artifacts, ledger>>

ExportBackup(p) ==
    /\ Step(p, "backup", "BackupCreated")
    /\ artifacts' = [artifacts EXCEPT !.backup = @ \cup {journal.run}]
    /\ UNCHANGED <<runs, journal, config, ledger>>

ReserveDirectory(p) ==
    /\ Step(p, "directory", "QualificationDirectoryPrepared")
    /\ artifacts.bundle[journal.run] = "absent"
    /\ artifacts' = [artifacts EXCEPT !.bundle[journal.run] = "reserved"]
    /\ UNCHANGED <<runs, journal, config, ledger>>

CopyBundle(p) ==
    /\ Step(p, "bundle", "QualificationBundleCopied")
    /\ artifacts' = [artifacts EXCEPT !.bundle[journal.run] = "copied"]
    /\ UNCHANGED <<runs, journal, config, ledger>>

WriteAutopilot(p) ==
    /\ Step(p, "autopilot", "AutopilotWritten")
    /\ config' = [config EXCEPT !.autopilot = "shadow"]
    /\ UNCHANGED <<runs, journal, artifacts, ledger>>

WriteGateMode(p) ==
    /\ Step(p, "gateMode", "GateModeWritten")
    /\ config' = [config EXCEPT !.gateMode = "shadow"]
    /\ UNCHANGED <<runs, journal, artifacts, ledger>>

Activate(p) ==
    /\ Step(p, "activate", "clearStart")
    /\ runs' = Append(journal.before, [id |-> journal.run, status |-> "active",
                                       from |-> journal.from, exported |-> FALSE])
    /\ UNCHANGED <<journal, config, artifacts, ledger>>

ClearJournal(p, from) ==
    /\ pc[p] = from
    /\ journal' = NoJournal
    /\ Exit(p)
    /\ UNCHANGED <<runs, config, artifacts, ledger>>

StartCommand(p) ==
    \/ \E r \in RunIds : JournalStart(p, r)
    \/ ExportBackup(p)
    \/ JournalPhase(p, "BackupCreated", "BackupCreated", "directory")
    \/ ReserveDirectory(p)
    \/ JournalPhase(p, "QualificationDirectoryPrepared", "QualificationDirectoryPrepared", "bundle")
    \/ CopyBundle(p)
    \/ JournalPhase(p, "QualificationBundleCopied", "QualificationBundleCopied", "IntentRecorded")
    \/ JournalIntent(p)
    \/ WriteAutopilot(p)
    \/ JournalPhase(p, "AutopilotWritten", "AutopilotWritten", "gateMode")
    \/ WriteGateMode(p)
    \/ JournalPhase(p, "GateModeWritten", "GateModeWritten", "activate")
    \/ Activate(p)
    \/ ClearJournal(p, "clearStart")

-----------------------------------------------------------------------------
\* status, review_at and abort: at most one write after the recovery

Status(p) ==
    /\ pc[p] = "status"
    /\ Exit(p)
    /\ UNCHANGED disk

Review(p) ==
    /\ pc[p] = "review"
    /\ ActiveIn(runs) # {}
    /\ RunProvenanceValid(ActiveId(runs))
    /\ Len(ledger) < MaxLedger
    /\ ledger' = Append(ledger, [kind |-> "review", run |-> ActiveId(runs)])
    /\ Exit(p)
    /\ UNCHANGED <<runs, journal, config, artifacts>>

Abort(p) ==
    /\ pc[p] = "abort"
    /\ \E i \in ActiveIn(runs) : runs' = [runs EXCEPT ![i].status = "aborted"]
    /\ Exit(p)
    /\ UNCHANGED <<journal, config, artifacts, ledger>>

-----------------------------------------------------------------------------
\* finalize_at_with_fault

\* validate_review_for_finalize: the run's last review is the last ledger event.
FinalReviewCoversLedger ==
    /\ Len(ledger) > runs[Len(runs)].from
    /\ LastEvent.kind = "review"

JournalFinalize(p, o) ==
    /\ ActiveIn(runs) # {}
    /\ RunProvenanceValid(ActiveId(runs))
    /\ FinalReviewCoversLedger
    /\ artifacts.out[o] = Absent
    /\ Step(p, "finalize", "archive")
    /\ journal' = [kind |-> "finalize", phase |-> "Prepared", run |-> ActiveId(runs),
                   before |-> runs, out |-> o]
    /\ UNCHANGED <<runs, config, artifacts, ledger>>

ArchiveState(p) ==
    /\ Step(p, "archive", "ArchivedStateWritten")
    /\ runs' = Archive(journal.before, FALSE)
    /\ UNCHANGED <<journal, config, artifacts, ledger>>

CreateStaging(p) ==
    /\ Step(p, "staging", "StagingCreated")
    /\ artifacts' = [artifacts EXCEPT !.staging =
                        [run |-> journal.run, files |-> {}, covers |-> readLen[p]]]
    /\ UNCHANGED <<runs, journal, config, ledger>>

ExportFinal(p) ==
    /\ Step(p, "export", "ExportWritten")
    /\ journal.run \notin artifacts.export
    /\ artifacts' = [artifacts EXCEPT !.export = @ \cup {journal.run}]
    /\ UNCHANGED <<runs, journal, config, ledger>>

\* The qualification copy, both reports and SHA256SUMS, each into staging.
WriteEvidence(p, step, file, next) ==
    /\ Step(p, step, next)
    /\ artifacts' = [artifacts EXCEPT !.staging.files = @ \cup {file}]
    /\ UNCHANGED <<runs, journal, config, ledger>>

RenameEvidence(p) ==
    /\ Step(p, "rename", "EvidenceActivated")
    /\ artifacts.out[journal.out] = Absent
    /\ artifacts' = [artifacts EXCEPT !.out[journal.out] = artifacts.staging, !.staging = Absent]
    /\ UNCHANGED <<runs, journal, config, ledger>>

WriteFinalState(p) ==
    /\ Step(p, "finalState", "FinalStateWritten")
    /\ EvidenceVerifies(artifacts.out[journal.out], journal.run)
    /\ runs' = Archive(journal.before, TRUE)
    /\ UNCHANGED <<journal, config, artifacts, ledger>>

\* ChecksumsWritten is journalled before SHA256SUMS is written.
FinalizeCommand(p) ==
    \/ \E o \in Outs : JournalFinalize(p, o)
    \/ ArchiveState(p)
    \/ JournalPhase(p, "ArchivedStateWritten", "ArchivedStateWritten", "staging")
    \/ CreateStaging(p)
    \/ JournalPhase(p, "StagingCreated", "StagingCreated", "export")
    \/ ExportFinal(p)
    \/ JournalPhase(p, "ExportWritten", "ExportWritten", "qualification")
    \/ WriteEvidence(p, "qualification", "qualification", "FinalQualificationCopied")
    \/ JournalPhase(p, "FinalQualificationCopied", "QualificationBundleCopied", "json")
    \/ WriteEvidence(p, "json", "json", "JsonReportWritten")
    \/ JournalPhase(p, "JsonReportWritten", "JsonReportWritten", "markdown")
    \/ WriteEvidence(p, "markdown", "markdown", "MarkdownReportWritten")
    \/ JournalPhase(p, "MarkdownReportWritten", "MarkdownReportWritten", "ChecksumsWritten")
    \/ JournalPhase(p, "ChecksumsWritten", "ChecksumsWritten", "checksums")
    \/ WriteEvidence(p, "checksums", "checksums", "rename")
    \/ RenameEvidence(p)
    \/ JournalPhase(p, "EvidenceActivated", "EvidenceActivated", "finalState")
    \/ WriteFinalState(p)
    \/ JournalPhase(p, "FinalStateWritten", "FinalStateWritten", "clearFinalize")
    \/ ClearJournal(p, "clearFinalize")

-----------------------------------------------------------------------------
\* Writers that take only the ledger lock, each in one critical section.

AppendEvent(r) ==
    /\ Len(ledger) < MaxLedger
    /\ ledger' = Append(ledger, [kind |-> "event", run |-> r])

\* record_decision_quiet, learn_feedback_quiet_with_rejected
RecordDecision ==
    /\ ledgerLock = {}
    /\ RunContext # "blocked"
    /\ AppendEvent(RunContext)
    /\ UNCHANGED <<runs, journal, config, artifacts, locks, local, seen>>

\* Mutant: the setters do not look for an active run.
SetConfigAnyTime(field, mode) ==
    /\ ledgerLock = {}
    /\ RunContext # "blocked"
    /\ config' = [config EXCEPT ![field] = mode]
    /\ UNCHANGED <<runs, journal, artifacts, ledger, locks, local, seen>>

\* gate_mode and autopilot_set refuse to change an active run's configuration.
SetConfig(field, mode) ==
    /\ ledgerLock = {}
    /\ RunContext = NoRun
    /\ config' = [config EXCEPT ![field] = mode]
    /\ UNCHANGED <<runs, journal, artifacts, ledger, locks, local, seen>>

\* evaluate_internal: evaluate without the lock, then lock, read the context
\* again and append only if it is the one evaluated under.
GateEvaluate(g) ==
    /\ seen[g] = "none"
    /\ RunContext # "blocked"
    /\ RunContext # NoRun => ConfigIsShadow
    /\ seen' = [seen EXCEPT ![g] = RunContext]
    /\ UNCHANGED <<disk, locks, local>>

GateAppend(g) ==
    /\ seen[g] # "none"
    /\ ledgerLock = {}
    /\ RunContext = seen[g]
    /\ AppendEvent(seen[g])
    /\ seen' = [seen EXCEPT ![g] = "none"]
    /\ UNCHANGED <<runs, journal, config, artifacts, locks, local>>

\* The context changed or is blocked: evaluate again, or give up.
GateRetry(g) ==
    /\ seen[g] # "none"
    /\ ledgerLock = {}
    /\ RunContext # seen[g]
    /\ seen' = [seen EXCEPT ![g] = "none"]
    /\ UNCHANGED <<disk, locks, local>>

-----------------------------------------------------------------------------
Init ==
    /\ runs = <<>>
    /\ journal = NoJournal
    /\ config \in [gateMode: FileContents, autopilot: FileContents]
    /\ artifacts = [backup |-> {}, bundle |-> [r \in RunIds |-> "absent"], export |-> {},
                    staging |-> Absent, out |-> [o \in Outs |-> Absent]]
    /\ ledger = <<>>
    /\ maintenance = {}
    /\ ledgerLock = {}
    /\ pc = [p \in Operators |-> "idle"]
    /\ cmd = [p \in Operators |-> "none"]
    /\ readLen = [p \in Operators |-> 0]
    /\ seen = [g \in Gates |-> "none"]

Operator(p) ==
    \/ Reconcile(p)
    \/ StartCommand(p)
    \/ Status(p)
    \/ Review(p)
    \/ Abort(p)
    \/ FinalizeCommand(p)
    \/ Bail(p)

Next ==
    \/ \E p \in Operators, c \in Commands : Begin(p, c)
    \/ \E p \in Operators : Operator(p)
    \/ \E p \in Operators : Crash(p)
    \/ \E p \in Operators : Fail(p)
    \/ RecordDecision
    \/ \E field \in {"gateMode", "autopilot"}, mode \in Modes : SetConfig(field, mode)
    \/ \E g \in Gates : GateEvaluate(g) \/ GateAppend(g) \/ GateRetry(g)

Spec == Init /\ [][Next]_vars

-----------------------------------------------------------------------------
\* What the next recovery makes of the files: the runs as every command sees them.
EffectiveRuns ==
    IF journal.kind = "start" THEN IF StartActivationValid THEN runs ELSE journal.before
    ELSE IF journal.kind = "finalize" THEN
        IF Published \/ Publishable THEN Archive(journal.before, TRUE) ELSE journal.before
    ELSE runs

CompleteEvidence(r) ==
    {e \in {artifacts.staging} \cup {artifacts.out[o] : o \in Outs} :
        e.run = r /\ e.files = EvidenceFiles}

Sealed(r) == (CHOOSE e \in CompleteEvidence(r) : TRUE).covers

Promised(rec) ==
    [id |-> rec.id, status |-> rec.status, from |-> rec.from,
     upto |-> IF rec.status = "finalized" THEN Sealed(rec.id) ELSE 0]

PromisedRuns == [i \in DOMAIN EffectiveRuns |-> Promised(EffectiveRuns[i])]

Abstract == INSTANCE DogfoodRun WITH runs <- PromisedRuns

\* The protocol implements the atomic runs of DogfoodRun: a run starts at one
\* instant, the write of the active state, and is finalized at one instant, the
\* write of SHA256SUMS, whatever crash or error comes before or after it.
Implements == Abstract!Spec

\* Every file holds what its readers can parse, and in the state file only the
\* newest run may be active: validate_state_snapshot refuses a second one for good,
\* and status and finalize take the last run for the one they acted on.
TypeOK ==
    /\ runs \in Seq(Run)
    /\ ActiveIn(runs) \subseteq {Len(runs)}
    /\ journal \in {NoJournal} \cup StartJournal \cup FinalizeJournal
    /\ config \in Config
    /\ artifacts \in Artifacts
    /\ ledger \in Seq(Event)
    /\ Len(ledger) <= MaxLedger
    /\ maintenance \in SUBSET Operators
    /\ ledgerLock \in SUBSET Operators
    /\ pc \in [Operators -> Labels]
    /\ cmd \in [Operators -> Commands \cup {"none", "recover"}]
    /\ readLen \in [Operators -> 0..MaxLedger]
    /\ seen \in [Gates -> {"none", NoRun} \cup RunIds]

RunsInState == {runs[i].id : i \in DOMAIN runs}
Orphans == {r \in RunIds \ RunsInState : r \in artifacts.backup \/ artifacts.bundle[r] # "absent"}

\* With no transaction pending the files agree with each other: an active run has
\* its backup and bundle and no trace of a finalization, a finalized run has its
\* evidence and final export, no staging directory is left behind, and a start
\* that was rolled back left at most one artifact, the one it had created but not
\* journalled: a backup, or an empty run directory.
SettledFilesAgree ==
    journal = NoJournal =>
        /\ artifacts.staging = Absent
        /\ \A i \in DOMAIN runs :
               LET r == runs[i].id IN
               /\ r \in artifacts.backup /\ BundleValid(r)
               /\ runs[i].exported <=> runs[i].status = "finalized"
               /\ runs[i].exported <=> r \in artifacts.export
               /\ runs[i].exported <=>
                      \E o \in Outs : EvidenceVerifies(artifacts.out[o], r)
        /\ \A o \in Outs : artifacts.out[o] = Absent \/ artifacts.out[o].run \in RunsInState
        /\ \A r \in Orphans :
               artifacts.bundle[r] = (IF r \in artifacts.backup THEN "absent" ELSE "reserved")

\* While any writer would record under a run, the gate mode and autopilot on disk
\* are the frozen shadow configuration that run was started with.
RunConfigurationFrozen == RunContext \in RunIds => ConfigIsShadow

\* Recovery is invisible to the ledger writers: none of its steps changes the run
\* they record under, except that it lifts the block of a sealed finalization.
\* The recovery of a failed start runs without the ledger lock, so a record may
\* fall between any two of its steps.
RecoveryKeepsRunContext ==
    [][(\E p \in Operators : Reconcile(p)) => RunContext \in {RunContext', "blocked"}]_vars

\* every_start_crash_boundary_reconciles_to_prior_state_or_active asserts that a
\* rolled-back start leaves no backup and no run directory.
RolledBackStartLeavesNothing == journal = NoJournal => Orphans = {}

-----------------------------------------------------------------------------
\* Fairness: a started process takes its steps, and an operator who is told that
\* recovery is required runs some dogfood command again.
Fairness ==
    /\ \A p \in Operators : WF_vars(Operator(p))
    /\ WF_vars(\E p \in Operators, c \in Commands : Begin(p, c))

FairSpec == Spec /\ Fairness

\* A crash or error that interrupts a transaction or its recovery.  (A crash with no
\* journal pending, or in a command body, changes what a bail changes.)
Fault ==
    \E p \in Operators :
        \/ Fail(p)
        \/ Crash(p) /\ journal # NoJournal /\ pc[p] \notin Commands
FaultsStop == <>[][~Fault]_vars

\* Once crashes stop, a blocked ledger is unblocked: recovery always ends, and no
\* crash leaves a journal that recovery cannot finish.
RecordingResumes == FaultsStop => (RunContext = "blocked" ~> RunContext # "blocked")

\* Once crashes stop, every pending transaction is settled.
TransactionsSettle == FaultsStop => (journal # NoJournal ~> journal = NoJournal)
=============================================================================
