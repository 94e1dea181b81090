# Brainmap: TLA+ models, checks and proofs

This directory models the core of the `brainmap` command line tool
(`crates/brainmap-cli/src`, Rust) in TLA+, checks the models with TLC and proves
the facts that matter most with TLAPS. `PROJECT.json` lists the components, the
runs, the theorems, the hazards of the code, and the source lines every
definition models.

## 1. The system

A Brainmap vault is a directory of Markdown notes with a compiled SQLite index,
an append-only decision ledger and a handful of small state files. It is used by
short-lived processes: the command line, an MCP server, a daemon. They share
nothing but files, and coordinate with three kinds of advisory file lock.

### Shared state

| File | Written by | Module: state |
| --- | --- | --- |
| `.brainmap/dogfood-state.json` | start, abort, finalize, recovery | `DogfoodTransaction`: `runs` |
| `.brainmap/locks/dogfood-transaction.json` | start, finalize, recovery | `DogfoodTransaction`: `journal` |
| `.brainmap/gate-mode`, `.brainmap/autopilot.json` | setters, promote, start, recovery | `DogfoodTransaction`, `DecisionGate`: `config`; `ShadowLedger`: `autopilot` |
| `90-calibration/decision-ledger.jsonl` | gates, record-decision, feedback, packets, review | `ledger` of `DogfoodRun`, `DogfoodTransaction`, `ShadowLedger`, `RunReview`, `LearningLifecycle` |
| `99-meta/backups/<run>-start…`, `…-final…`, `.brainmap/dogfood/<run>/`, evidence directories | start, finalize, recovery | `DogfoodTransaction`: `artifacts` |
| `99-meta/pending-update-packets/` | learn, feedback, apply | `LearningLifecycle`: `packet` |
| `60-decision-examples/`, the archive of imports | apply, prune-imports | `LearningLifecycle`: `notes`, `archived`; `DecisionGate`: `notes` |
| `.brainmap/brainmap.sqlite`, `index-manifest.json` | index rebuild | `LearningLifecycle`: `db`, `manifest`; `DecisionGate`: `rules` |
| the vault directory itself, snapshots | restore, snapshot | `RestoreSwap`: `content`, `target` |
| `brainmap`, `brainmapd` in a directory on PATH | install candidate | `CandidateInstall`: `dest`, `backups` |
| the adapter files of Codex | install and uninstall of the harness | `HarnessInstall`: `file`, `backups` |
| the thread and the ledger of a host session | a host and others; read by the script that finalizes its evidence | `HostEvidence`: `calls`, `entries` |
| the vault of the FIA-6 workers | 64 processes; read by the script that reports on them | `RunnerEvidence`: `ledger`, `captures`, `packets` |
| a qualification bundle | the runner, scripts; read and copied by verify and start | `QualificationBundle`: `source`, `copies` |

### Locks

* The *vault maintenance lock* (`util::acquire_vault_maintenance`) is a try-lock
  outside the vault: a second holder bails. Every dogfood command, apply,
  export, snapshot, restore and the index rebuild command take it.
* The *ledger lock* (`util::lock_jsonl`) is a blocking lock on the ledger file
  itself. Dogfood commands and apply take it after the maintenance lock; gates,
  record-decision, feedback, preview and the two configuration setters take only
  this one.
* `update-apply.lock` and `index.lock` are try-locks inside the vault.
* `install candidate` has a lock of its own: a directory beside the executables,
  which a killed installer leaves behind. The harness installer has none.

The order is maintenance, update-apply, ledger, index, so there is no cycle.
Every lock but the installer's is a kernel lock, released when its process dies.

### Components, their operations, and what makes them correct

| Component | Operations | Hard behaviour | What must hold |
| --- | --- | --- | --- |
| Dogfood runs (`dogfood.rs`) | start, status, review, abort, finalize, recovery | crash or error after every durable step, recovery that is itself killed, writers beside it | a run is started and finalized atomically; its evidence covers its events exactly; recovery always ends |
| Reviews (`dogfood.rs:1182-1317`) | review, the checks of status and finalize | every receipt is validated again over the lines it saw; the clock is read before the locks are had | an accepted receipt stays accepted; what is finalized was reviewed and clean; status tells the truth |
| Decision gate (`decision_engine_impl.rs`, `gate.rs`) | evaluate and record | made without the lock and recorded under it; safety, rules, thresholds and modes outrank each other | every event carries its run; the gate proceeds only on what was learned; shadow predictions are honest |
| Learning (`learning.rs`) | learn, feedback, preview, apply, prune, gate-mode, autopilot set and promote, shadow metrics | packet, note, index and ledger event are four files written in turn; torn lines | no correction is lost; an applied one is indexed; counters vanish only when nothing is open |
| Index (`index.rs`) | rebuild, rule resolution | database replaced before its manifest; staged and bounded lookups | a rebuild fails on bad controls in any order; a staged lookup decides as a scan would |
| Export, restore, snapshot (`export.rs`, `snapshot.rs`) | export, verify, restore, rollback | two renames swap the vault; writers hold its ledger open | an error leaves the old or the new vault; no vault is removed, even when the rollback fails |
| Candidate installation (`install.rs`) | plan, back up, write two executables, verify, roll back | others write to the same directory; each step fails or is killed | a failed installation changes nothing; a new client never meets an old daemon |
| Harness installation (`install.rs`) | merge and unmerge four files | edits of the user, older versions, other executables, no lock | healthy afterwards; what the user wrote survives |
| Qualification (`qualification.rs`, three of the `m8` scripts) | finalize and report, validate that evidence, verify and copy bundles | documents of literals, so that what a script asserts decides; counts that could cancel out; files read while they are written | evidence only of what went well; one candidate; the copy is what was verified |
| MCP, web, daemon, CLI | dispatch | none of their own | not modelled |

## 2. Plan and how far it is

Most important first. All modules of the table are written and checked.

| # | Module | Models | Composes or refines | Theorems |
| --- | --- | --- | --- | --- |
| 1 | `DogfoodRun` | what a run promises, commands atomic | abstract specification | inductive invariant, type correctness, three safety properties |
| 2 | `DogfoodTransaction` | files, journal, crash, error, recovery, locks, writers | refines `DogfoodRun` | type correctness, frozen configuration, settled files agree, recovery is invisible, refinement of `DogfoodRun` |
| 3 | `LearningLifecycle` | packets, notes, index, ledger, under crash and failure | | no correction is lost, withdrawn feedback is inert, announced rules are compiled |
| 4 | `RestoreSwap` | staging, swap, rollback, crash, ledger writers | | restores fail safely, also where a rollback fails; no vault is removed |
| 5 | `DecisionRules`, `DecisionGate` | compilation and resolution of rules; the verdict | `DecisionGate` extends `DecisionRules` | rebuilds fail closed, the staged lookup decides like a scan, proceeding is learned, caution is monotonic, shadow predictions are honest |
| 6 | `ShadowMetrics`, `ShadowLedger`, `RunReview` | what a ledger amounts to; promotion; receipts and finalization | both extend `ShadowMetrics` | integrity is closure, every incident is counted, promotions need a closed ledger; receipts stay valid, finalized runs were reviewed and are clean, health is finalizability |
| 7 | `HostEvidence`, `RunnerEvidence`, `QualificationBundle` | what evidence is published, accepted and copied | | evidence is of sessions that learned, accepted commands ran, what is asserted of the workers tells that nothing went wrong; one candidate, a copy is what was verified, copiers do not remove each other's copies |
| 8 | `CandidateInstall`, `HarnessInstall` | replacing executables and merging adapter files | | success is the pair, failure restores, no new client beside an old daemon; what users wrote survives, an installation ends healthy |

Left: the cached run context of the gate (`dogfood.rs:1707`), keyed by the version of the
ledger; onboarding; snapshots chosen by `rollback-last`.

## 3. The modules

### `DogfoodRun`: what a run promises

State: `runs`, oldest first, and `ledger`, an append-only sequence of events,
each with the run id it carries (`NoRun` outside a run). `Start`, `Record`,
`Review`, `Abort` and `Finalize` are atomic. A run has the ledger length at its
start (`from`) and, once finalized, the length its evidence covers (`upto`).
`Record` appends only events that carry the run active at that instant.

### `DogfoodTransaction`: how the code keeps it

One step is one durable effect: a `write_atomic`, a rename, a removal, an
export, the copy of a bundle. `pc[p]` names the next effect of process `p`; the
journal is written between effects exactly where the code writes it, so the
start has thirteen steps after its journal is prepared and the finalization
nineteen. `reconcile` is the first step of each command body and the one an
error path returns to.

* `Crash` may happen before and after each step of a command or a recovery. It
  forgets the process, releases its locks and leaves the files.
* `Fail` is an effect that returns an error; the code then recovers in the same
  process. Start has dropped the ledger lock by then (`dogfood.rs:1552`) and
  finalize has not, as in the code.
* `Bail` is every check of a command body that returns before its first write.
* `RunContext` is `active_run_context`: the run an event recorded now belongs
  to, or `"blocked"` when a sealed finalization is pending.
* `RecordDecision`, `SetConfig` and the two halves of a gate evaluation take
  only the ledger lock, so they interleave with recovery after a failed start
  and with everything a crash leaves behind.
* Contents are abstracted to what recovery tells apart: a bundle is absent,
  reserved or copied; an evidence directory has a run, the set of its files and
  the ledger length it covers; the state of a run is its status, its boundary
  and whether its final export is recorded.

The refinement mapping (`Implements`) reads the files the way the next recovery
will: `EffectiveRuns`. Under it a start happens at the write of the active state
and a finalization at the write of `SHA256SUMS`; every other step, crash and
recovery is a stutter.

### `LearningLifecycle`: from a correction to a rule

`packet[p]` is the file of a packet and where it is; `notes`, `archived`, `db`
and `manifest` are what becomes of it; `ledger` has the lines that account for
it, and `open` says that its last line has no end. `job[x]` names the next effect of process `x`.

* `Feedback` writes the packet and then, in `FeedbackEvent`, its ledger line,
  under the ledger lock. `FeedbackFails` is an append that fails in the write
  (`Tears`) or in the sync after it (the line is there, `util.rs:291`);
  `FeedbackTakesBack` removes the packet. A removal that fails is not noticed
  (`FeedbackKeepsPacket`, `learning.rs:550`): the packet of a feedback that reported an error
  then waits like any other. `Learn` writes a packet without lock.
* `ApplyBegin`, `ApplyLocks`, then per packet `ApplyNote` and `ApplyRename`, or
  `ApplyRefuses`; then the rebuild, then `ApplyEvent` per packet.
* `RebuildLoads`, `RebuildReplaces`, `RebuildManifest` run under `index.lock`;
  `RebuildBusy` is the try-lock that is refused. `RebuildCommand` is the command
  alone, `Prune` the command that rebuilds without the maintenance lock.
* `Crash` kills a process before any effect, and may tear the line it was writing. A
  line appended after a torn one is joined to it and lost (`Appends`).

A packet's content is its source, whether its rule validates, and what
`is_decision_signal` says of its note.

### `DecisionRules` and `DecisionGate`: the decision itself

`CompileNote` is one turn of the loop of `rebuild` and `Compile` the loop, over
the notes in the order of their paths, which are the numbers up to `NumPaths`. `Resolve` is `resolve_decision_rule`: `ExactCandidates`
(one row per available choice, or one unavailable choice), else
`FuzzyCandidates` (the best row per choice, at most `MaxUnavailable` that are not
offered), then `ResolveCandidates`. Similarity is a table in percent, normalized
text and substring are relations given as constants, so that an instance says
exactly which texts are near. A key is a tuple compared lexicographically, as
the SQL and the `sort_by` chain compare their columns.

`Decide` is `evaluate_with_context`: `Evaluate`, its branches in their order (empty, secret,
hard no, privacy boundary, risk, hook, rule, default), `Thresholded`, then
`Enforce` for shadow mode and the kill switches. Text classifiers are flags of
the request. The state is what the decision reads: the notes, the index, which
may be older, and the configuration; `Apply`, `WriteNote`, `Rebuild` and the two
setters change it.

### `ShadowMetrics`, `ShadowLedger`, `RunReview`: reading the ledger

`Read` is the pass of `shadow_metrics_from_bytes` over the lines of a run (`Scan` reads one,
`Passes` all of them);
`Integrity`, `Intensive` and `IncidentCount` are its counters, `Metrics` what it
returns. `Broken` is a line that does not parse and makes every later reading fail.

`ShadowLedger` has every command that writes the ledger, with what it asks of it
first, and the autopilot: `autopilot_promote` and `autopilot_set_threshold` read before
they take the lock and are two steps each (`PromoteLooks`, `PromoteSets`). Preview and
apply only write events while a run is active, as in the code.

`RunReview` has the receipts. `Review` appends a receipt when
`TransitionValid` and the metrics of the lines before it allow it;
`ReviewsValid` is `validate_review_receipts`, which does all of it again for all
receipts. Time is counted in half seconds because ledger events carry whole seconds and
receipts finer ones; a command uses any time `now` up to the present, since it
reads the clock before it waits for its locks. `Finalize` is one step here (its
journal is in `DogfoodTransaction`). `Drift` is any of the frozen things (settings,
binaries, backup, bundle) changing or being put back.

### `RestoreSwap`: replacing a vault

Directories keep their identity when they are renamed; `target` is the one that
has the vault's name. `Stage`, `WriteFiles`, `BuildIndex`, `MoveAway`,
`Activate`, `Sync` are the steps of `restore_verified_archive_with_fault`, each
may fail, and `UndoTarget`, `UndoRename`, `UndoStaging` are
`rollback_restore_swap`. Each of these three may fail as well, for whatever reason: a removal leaves
some or all of its directory (`Leftovers`), and after `UndoTargetFails` or `UndoRenameFails` the
rollback ends where it is (`"stuck"`), also with the name free and nothing under it. Writers open the ledger by its path (`Open`, or
`OpenNew` where the vault has no directory, which makes one) and write later to
what they opened. `Snapshot` and restores of snapshots take the maintenance lock.
The verification of an archive is the guard of `Begin`: archives are those that verify.

### `CandidateInstall` and `HarnessInstall`

`CandidateInstall` follows `install_candidate`: lock directory, plan, snapshots,
backups, comparison, then the daemon and the client (a file appears without its
permissions and gets them in a second step), hashes and PATH, verification,
rollback in the other order. `Others` change an installed file, the source or PATH;
`late` are the files they changed after the installer's last comparison, about
which no installer without a lock of the file system can promise anything. A file is the
build its bytes stem from and whether it may be run. `NewBrainmapNeverBesideOldDaemon`
says what holds for as long as nobody changed the files or the sources (`changes = 0`).

`HarnessInstall` merges four files one after the other: the skill, which is
Brainmap's; `AGENTS.md` and the configuration, of which it owns a block; the
hooks, of which it owns the commands in `ManagedCommands`. A user's content is a
number that grows with every edit. The doctor (`Healthy`) is that of the
executable that runs it. `Foreign` commands are hooks of Brainmap's that this executable does
not know for its own: an installation of which nobody touched the files ends healthy
exactly when there are none (`InstallIsHealthy`). The two hook events are changed alike in one write, so one
stands for both. A file that vanished between the read and the backup is written without a backup by an
installation and refused by an uninstallation. The other hosts use subsets of the same four kinds of file.

### `HostEvidence`, `RunnerEvidence`, `QualificationBundle`

The evidence that qualifies a candidate is produced by scripts and judged by `qualification.rs`. What
the scripts publish is mostly literal: three identifiers, some counts, and constants. What evidence
means is decided by what they assert before, and the modules model both sides.

`HostEvidence` has a session: `calls` is its thread, with whether the user spoke before a call, and `entries`
the ledger since it began, which hooks and other processes write too. The assistant may call any tool at
any time with any decision or packet at hand, and a call may be refused. `Finalize` is
`finalize_state` of `m8-codex-fia5.sh`: `CallsProve` is what `query_brainmap_calls` asks of the
thread, `Correlates` what `validate_ledger_correlation` asks of the ledger, each read twice, with everything
else going on in between. `Observation` and `Events` are the documents as the script writes them,
and `HostQualifies` is the verifier.

`RunnerEvidence` has two parts of a run of `m8-integrated-qualification.sh`. A command that does not exit as expected
ends the run; lines of the list may be lost or doubled. The FIA-6 workers write the ledger, the
capture queue and packets; one that exits with an error ends the run, while lines and packets that are lost,
doubled, left or given another's identifier go unseen until `Fia6Asserted`, what the script counts in these
files. `Fia6Report` is what it then writes, literals of `PerKind`, and `Fia6Qualifies` the verifier.

`QualificationBundle` reads a bundle file by file while `Writer`
puts another one together over it, a directory at a time, verifies what was read, copies it, reads the
copy back file by file (`ReadBack`), and verifies and compares that. Others may put another bundle at the
destination (`Swap`) or remove what is there (`Clear`) at any moment; `owner` is who made what is there,
and nobody once they have. A copier that fails removes what is at the destination by its path (`RemoveCopy`), in full or
only in part. A document is its path and
the attempt that wrote it; `LeaveLitter` is a file that belongs to no bundle.

## 4. Runs

| Run | Bounds | Shows |
| --- | --- | --- |
| `dogfood_run` | 3 run ids, ledger up to 5 | The invariants of `DogfoodRun`. Three runs and five events allow a finalized, an aborted and an active run in every order, with events before, inside, between and after them. 18 552 states. |
| `dogfood_transaction` | 2 operators, 1 gate, 2 run ids, 2 evidence directories, modes shadow and active, ledger up to 2 | Type and file invariants, the frozen configuration, recovery invisible to writers, and the refinement. Two operators are enough: the maintenance lock admits one, and a second stands for every later process that finds what the first one left. Two events are a review and one other event, in either order. 1 116 873 states (with symmetry); deadlock is checked. |
| `dogfood_recovery` | 1 operator, 1 run, 1 directory | Liveness: after the last crash or error, a pending transaction is settled and a blocked ledger resumes. One operator is the worst case, since nobody else can recover for it. 23 753 states. |
| `decision_gate` | Three control files in every order and of every kind, and a rule too many; three rules that contradict each other, six lists of options, one unavailable choice; two rules and a bad control, a request for each branch, two thresholds, every mode and kill switch | Compilation fails closed in any order of the files; the staged lookup agrees with a scan; the verdict. Three rules are the least with an exact, a near and a forbidding answer at once. 21 871 states, most of the time spent on evaluating them. |
| `learning_lifecycle` | 2 processes, 2 packets, 1 event per packet and process, 2 crashes, a packet of each source and kind | Corrections are conserved, what is announced is compiled, feedback that was taken back stays inert, and every applied rule reaches an index (liveness). Two crashes are the one that leaves something behind and one in the process that repairs it. 831 041 states; deadlock is checked. |
| `ledger` | Lines of one decision and its outcome, incident, repeat and orphan, 4 to 6 lines, times up to 3, a conservative promotion from 1 decision and a balanced one from 2 | The counters of the metrics, promotion, receipts and finalization. Minima of 1 and 2 put a ledger at, below and above each. 1 709 223 states. |
| `qualification` | Host: 8 calls, 3 messages of the user, 2 decisions and an earlier one, a packet and one that waits, 1 call out of order or entry of another process; 3 commands, 2 workers of each kind, 3 faults; bundles of 4 assemblies, one written over another, one change of the destination by others, or 2 copiers | Evidence comes only from what went as it should; a copy is what was verified. Eight calls are one more than the seven that are asked for; three faults are two that hide each other and a third; two workers are the least of whom one can write under the identifier of the other. Two copiers and changes by others are parts of their own here, and only the proofs have them together. 1 702 266 states. |
| `replacement` | Restore: 2 processes, 1 writer, 1 event, 4 directories, 2 crashes or errors; candidate: 2 crashes and 2 errors, or 2 disturbances: changes by others, or one and an error; harness: 2 executables, 2 runs, 1 edit, 1 crash | Replacing a vault, two executables and four files, with a rollback that may fail at each step. Four directories are the vault, its successor, a staging, and one that a late writer makes. 2 533 493 states. |
| `dogfood_orphans`, `option_order`, `promotion_race`, `harness_moved` | as above | The findings below: expected to be violated. |

### How the four wide runs are put together

`MCDecisionGate`, `MCLedger`, `MCQualification` and `MCReplacement` each put several
machines together that share no state: a behaviour takes one `part` at its start and stays in
it, and the variables of the other parts do not change. The number of states is the sum over the
parts, not their product.

Each of them extends its components (`DecisionGate`; `RunReview` and `ShadowLedger`;
`HostEvidence`, `RunnerEvidence` and `QualificationBundle`; `RestoreSwap`, `CandidateInstall` and
`HarnessInstall`), so that a run checks the very definition a theorem is about. Their parts are
behaviours of the component, whose constants the configuration gives, and leave steps out that
make the instance too large (`InPart`, `InHarness`, `ShapesOf`): a part takes fewer changes, crashes,
executables or notes than the constants allow.

The deadlock check is on for `dogfood_transaction`, `dogfood_recovery` and
`learning_lifecycle`, where a process can always go on. The other runs set
`CHECK_DEADLOCK FALSE`: their bounds on run ids, lines, calls, writes and runs
end every behaviour.

Named bounds: `MaxLedger`, `MaxEvents`, `MaxCrashes`, `MaxErrors`, `MaxChanges`,
`MaxRuns`, `MaxEdits`, `MaxKills`, `MaxWrites`, `MaxSwaps`, `MaxCalls`, `MaxTurns`, `MaxSlips`,
`MaxCommands`, `MaxFaults`, and
the finite sets of ids, directories and packets. `FreshRun` models `util::id`, whose
ids never repeat, by requiring an id without a trace on disk.

### Fairness

`dogfood_recovery` assumes weak fairness of the steps of a started process (it is
scheduled) and of beginning *some* dogfood command: the ledger writers fail with
"dogfood finalization recovery is required", so an operator runs a dogfood
command, and each of the five recovers first. Nothing forces a process to start or
finalize a run. The properties are stated under `FaultsStop`: crashes may happen
any finite number of times, at any steps, also in recovery.

`learning_lifecycle` assumes weak fairness of the steps of each process that has
begun a command, and strong fairness of beginning `index rebuild`: an operator
who sees that the index is behind runs it again and again, and now and then finds the
maintenance lock free. No process is made to apply a packet or to give feedback.

### Findings

`dogfood_orphans`. Start exports its backup and then journals `BackupCreated`;
rollback deletes the backup only in a phase past `Prepared`. A crash, or an
archive verification error, in between leaves `<run>-start.brainmap.tar.zst`
behind for good; the same holds for the reserved run directory. The test
`every_start_crash_boundary_reconciles_to_prior_state_or_active` asserts that a
rollback leaves no backup and no run directory, but injects its faults only
after a phase has been journalled. `SettledFilesAgree` states what does hold: at most
that one artifact per start.

`option_order`. The gate looks for the option that belongs to a learned choice by
containment of text, in the order of the request, after the index has already
matched it exactly. Beside the option `redis` the option `redis cluster` is selected
whenever it comes first. `ProceedsOnLearnedOption` is what holds in either order:
the selected option is related to the learned choice by that text comparison.

`promotion_race`. `autopilot_promote` reads the statistics under the ledger lock,
lets it go and takes it again to set the mode. An incident between the two does not
prevent the promotion it denies. `PromotedOnClosedLedger` is what holds:
the ledger was closed and clean at the first of the two.

`harness_moved`. The command of a previous executable is recognized only in the form
without `--vault`, which present versions no longer write; after a
reinstallation from elsewhere both hooks remain and the doctor is never content.

### Further observations

These configurations are kept beside the runs; each is violated by the code as it is.

| Configuration (module) | Property | What happens |
| --- | --- | --- |
| `RestoreCrash` (`MCReplacement`) | `RestingVaultIsThere` | A kill between the two renames of a restore, or a rollback whose own rename fails, leaves no vault under its name. The old one is beside it, and nothing puts it back. |
| `RestoreOpen` (`MCReplacement`) | `AnsweredEventsAreOnDisk` | A gate that opens the ledger between the renames makes a bare directory with the event in it; if the restore then fails, its rollback removes that directory, and the answered event with it. |
| `CandidateLost` (`MCReplacement`) | `DetectedChangeIsBackedUp` | The installer notices that a file appeared after its backups, fails, and its rollback removes that file; no backup has it. |
| `CandidateRollback` (`MCReplacement`) | `RollsBothBack` | When restoring `brainmap` fails, restoring `brainmapd` is not tried (`install.rs:284`). |
| `CandidateShadow` (`MCReplacement`) | `ShadowedMeansShadowed` | An installer killed after the bytes of a file and before its permissions leaves one that may not be run; every later installation plans it as unchanged and fails as "shadowed on PATH", though nothing shadows it. |
| `Demotion` (`MCLedger`) | `EnforcementRequiresEvidence` | `autopilot set` enforces without the evidence `autopilot promote` asks for. |
| `OneMismatch` (`MCLedger`) | `OneMismatchIsTolerated` | A denial names fewer than two serious mismatches as its condition, but outside of runs no preview and apply events are written, so one correction already makes the ledger incomplete. |
| `FeedbackKept` (`MCLearningLifecycle`) | `UnreportedFeedbackIsNotApplied` | When the event of a feedback cannot be written and its packet cannot be removed either, the command reports the error and the packet waits; a later apply takes it. |
| `CopyRemoved` (`MCQualification`) | `OthersCopiesStay` | A copier that fails removes the destination by its path, also when another process has put its own bundle there since. |
| `PruneImports` (`MCLearningLifecycle`) | `OnlyImportsAreArchived` | Pruning archives applied notes that no import wrote, when they are no decision signals. |

## 5. Proofs

`DogfoodRunProofs` proves that `IInv` is an inductive invariant of `DogfoodRun`
and derives `TypeOK`, `OnlyNewestActive`, `ActiveRunOwnsSuffix` and
`EvidenceSealsRun`, for any set of run ids and any ledger bound. None of the
last three is inductive alone: a sealed run stays sealed only because later events carry
another id, which needs unique ids, boundaries in order, and the fact that every event
carries a known id.

`DogfoodTransactionProofs` proves `TypeOK` and `RunConfigurationFrozen` of
`DogfoodTransaction`, for any number of operators, gates, runs, directories and
modes. The inductive invariant `IInv` joins

* `Locks`: at most one operator is past the maintenance lock, and command bodies
  hold the ledger lock, which is what keeps a setter out of a start between its
  configuration writes and its activation;
* `JournalSound`: the previous state of a start has no active run, the original
  state of a finalization has exactly its last one active, and beside a start
  journal the only run that can be active is the intended one;
* `Frozen`: an active run, live or in a finalize journal, has the shadow
  configuration on disk;
* `Fits(pc[p])`: what a process may rely on at each label.

There is one lemma per action or group of actions that write the same file;
`StepIInv`, `ExitIInv` and `LedgerIInv` carry the parts no file write disturbs.

Its second part proves `SettledFilesAgree` and
`RecoveryKeepsRunContext` by a second invariant, `FInv`. It says of the files at
every instant what `SettledFilesAgree` says only when no journal is on disk:

* `FilesAgree` is that agreement about `Base`, the runs a pending transaction would be
  rolled back to. It leaves the run of the journal (`Busy`) and the evidence directory
  of a finalization (`Held`) open, and bounds what a rolled-back start leaves (`Leftover`);
* `JournalFiles` is what the files hold of that run, by kind and phase of the journal:
  a started run has its backup and bundle, evidence that is not sealed has no checksums
  and is not published;
* `FilesFit(pc[p])` is what a process may rely on at each label.

A journal ends in one of three ways, with a lemma each: a rollback (`RolledBackAgrees`), a
start (`StartedAgrees`) and a finalization (`FinalizedAgrees`) give back `FilesAgree`
about the new `Base`.

Its third part proves the refinement, `Spec => Implements`. It needs a third
invariant, `RInv`: what a command has read of the ledger is still all of it, at every
label up to the one that uses it (`Reads`), and evidence is staged or published but
never both (`OneEvidence`). Without `Reads` a start could promise a boundary, or an
evidence directory a length, that the ledger has outgrown. `NextSimulates` then goes through
the actions: the write of the active state is `Start`, the write of `SHA256SUMS` is
`Finalize`, an abort, a review and a recorded event are the steps of the same name, and
every other action leaves `PromisedRuns` and the ledger as they are. `PromisesAreKept`
reads the theorems of `DogfoodRunProofs` through the mapping: in the files, too, the
active run owns every event since it started, and finalized evidence covers exactly the
events of its run.

`LearningLifecycleProofs` proves `CorrectionsAreNeverLost` and
`WithdrawnFeedbackIsInert` for any number of processes, packets, events and kills. `IInv` joins
`TypeOK`, the property itself, `NotesHavePackets` (a note stems from a packet that was
pending or is applied) and, per process, `Sound`: `Announcing` (a feedback that waits for
its event holds the ledger lock, and its packet is pending, not noted and not
acknowledged), `Applying` (an apply holds the ledger lock, what it has to do is pending
and what it has done has notes) and `Rebuilding` (what was loaded was once a note). The
argument is the ledger lock: apply holds it from its first note to its last event, and a
feedback from its packet to its event, so neither finds the other's packet half way. That is
why a feedback may take its packet back without taking a note with it.

The same module proves `AnnouncedRulesAreCompiled` by a second
invariant, `AInv`: a packet is promised once its `apply-update` event is in the ledger or a
running apply is about to write it. Promised packets are applied, so no later apply
writes their notes again (`Marking`); promised notes are in the index; only one process is
between reading the notes and writing the manifest, by the index lock (`Indexing`); and
what it read covers everything promised (`Covering`), although other processes prune
notes and append events meanwhile.

`RestoreSwapProofs` proves `FailureLeavesOldOrNew` and `OnlyStagingsAreRemoved` for
any number of processes, directories, writers and events. `IInv` joins `TypeOK`,
`WholeIsThere` (what was once a whole vault is still a directory) and, per process,
`Restoring`: it holds the maintenance lock (`HoldsLock`), its staging stands
(`StagingStands`), so does the old vault (`OldStands`), the name is free between
the renames or taken by a writer's bare ledger (`NameIsFree`), the
new vault stands once it is in place (`NewStands`), and a failure was reported on one of
these (`FailedSafely`). A rollback that fails is covered too: `TargetIsThere` says that what has the
name of the vault is a directory, `OldIsThere` that the old vault is one at every label up to the return.

`InstallProofs` proves, of `CandidateInstall`, `SuccessIsThePair` and `FailedInstallLeavesOriginal` for any
number of installers, builds, kills, errors and changes by others. `IInv` joins `TypeOK`,
`Exclusive` (whoever is past the lock owns its directory, a killed installer for good),
`Decided` (what the plan says at each step) and `FoundStands`: a file that is not `late` is
as the installer found it, up to the first write and again from the step that put it back.
The two files go back one after the other and their permissions in steps of their own, so it
speaks of `brainmap` earlier than of `brainmapd`.
`NewBrainmapNeverBesideOldDaemon` needs `OrderInv`, while nobody changed anything, on top of
it: before its turn to be
written the planned `brainmap` is not installed, whatever a dead installer left; the daemon
is, from its own turn on; and what a rollback would put back is not the candidate.

Its second part proves `UserContentSurvives` and `InstallIsHealthy` of `HarnessInstall`, for any
number of processes, executables, vaults, runs, edits and kills, whatever files were found.
`HarnessInv` joins types (`HarnessTyped`, `Planned`) and, per run,

* `SafeRun`: when a text is about to be overwritten, what the user wrote last is in a backup or
  in what is written, unless it came between the two;
* `Placed`: an installation beside which nobody wrote has put in place what it came by, and what
  it is about to write is in place.

A file is in place (`InPlace`) when it has Brainmap's part and, of the hooks, exactly one that the
installer manages (`Registered`). `Hooks` is a recursive function over the commands:
`LoopOfHooks` takes the shortest prefix on which it would fail. `HooksMatchUnlessForeign` then says that the
doctor is content with such hooks exactly unless a foreign one is among them.

`QualificationProofs` has three theorems about evidence and three about bundles, for any number
of identifiers, calls, commands, workers, faults, copiers and writes.

* `EvidenceMeansLearned` (`HostEvidence`) has the invariant `HostMeans`: a call that came from the gate or
  from an apply has what such a call can have, the ledger has an entry of every decision, record and correction
  of the thread, under the number of its call (`Covered`), and what the finalizer holds
  is a thread that proves and a ledger that correlates and covers it, although both go on growing. From seven calls that prove
  (`ProvedCalls`) follows that the correction was learned (`SevenCallsAreLearned`), and from a ledger that correlates that
  its five entries are those of these calls, so that no other process wrote one
  (`NobodyElse`). `DocumentsQualify` computes the verifier on the documents.
* `AcceptedCommandsRan` (`RunnerEvidence`) rests on `LinesAreCommands`: every line written down is the
  command that was run under its number, whatever was left out or written twice.
* `ReportMeansNothingWasLost` says that the assertions tell. `WorkersAddUp` counts what faults took from lines and
  packets as long as all identifiers are different (`Balanced`), and says that otherwise there was a fault:
  since nothing ever makes a doubled identifier single again, no two faults cancel out (`AssertionsTell`).
  That the literals then qualify needs `PerKind >= MinWorkers`.
* `AcceptedIsOneCandidate` follows from the verifier alone: the root checksums bind
  every document to one assembly and the checksums of a directory bind its files
  to one attempt, so an inventory that passes is one candidate's however it was put together.
* `CopyIsWhatWasVerified` and `CopierRemovesItsOwn` have an invariant: as long as only copiers use
  the destination, who is at work on it has made it (`Made`); while it belongs to a copier, what that one has read
  back is what is there (`Owns`); and what a copier holds was verified (`CopiesWhatItVerified`).
  That what was read back is what was verified does not depend on the destination at all: two
  inventories that are verified and have the same identity have the same files (`SameIdentitySameFiles`).

`LedgerProofs` has four theorems about `RunReview`.

* `AcceptedReviewsStayValid` rests on `ReviewInv`. An accepted receipt is validated again
  against the lines before it, which never change, and against a time, which only grows:
  `ReceiptsHold` says that all receipts of the active run hold at any time from now on. The
  metrics are not expanded in this proof; it would hold of any others.
* `HealthAgreesWithFinalize` is the equivalence of two lists of conditions.
* `FinalizedRunsWereReviewed` follows the transitions of the receipts: after an
  investigation nothing is clear before it was resolved, and after a failed candidate there is
  no receipt at all; the last receipt is the last line of a finalized run.
* `FinalizedRunsWereClean` opens the metrics. `ReadSoFar` relates what the pass knows after
  `n` lines to these lines, and `PassReads` shows it for every `n`; from counters of zero follow
  then the facts about lines (`ValidIsClean`). The counter of corrections counts packets and
  the property speaks of lines, so it also needs `LinesInv`: no packet is
  fed back twice.

It has three about `ShadowLedger`, for any number of lines, decisions, packets and processes.

* `IntegrityMeansClosed` is an equivalence. `PassReads` says exactly what the pass over the lines
  knows, for every number of lines and also outside of runs; `IntegrityCloses` reads from
  counters of zero what the lines are, and `ClosedHasIntegrity` shows that closed lines leave no
  counter open. Two counters only compare sizes of sets, actions with decisions and known with
  given feedback, so both directions count: `AllGatesMatched` and `AllFeedbackKnown` one way,
  `ClosedMatches` and `ClosedKnows` the other. The equivalence is one of ledgers that the
  commands write, and fails of others: `LogInv` says that a decision has one gate line,
  that nothing is recorded of a packet before its feedback or after its apply
  (`PacketsInOrder`, from `PacketsTold`: the file of the packet tells which of these
  lines there can be), and that the lines of a run carry its id.
* `NoIncidentEscapes` follows: in an intact ledger all feedback is known, and
  known feedback is counted line by line (`CountsTheReports`).
* `PromotedOnClosedLedger` follows: only `PromoteLooks` grants, on statistics with integrity.

`DecisionGateProofs` proves all five gate properties, for all notes, rules, texts,
similarities, requests and limits. Its invariant `GateInv` only says that an index consists of
rules that notes compile to; the weight is on the operators.

* `RebuildFailsClosed`. `CompiledTo` holds after every path: the rules are those of distinct
  executable notes, every executable note has a rule of its id, and the loop has failed exactly
  when a control was invalid or shared its id, or there are too many rules. `CompileNoteKeeps`
  shows one turn, `CompileIsTheLoop` that the recursion does them in order.
* `ProceedsTakeLearnedOptions`. `VerdictFor` is what every branch, the threshold and the
  enforcement give back, and `ResolveNamesARule` that the resolution stems from one rule of the index.
* `CautionTakesNothingNew` and `ShadowPredictsAndHandsOutNothing` compare two evaluations
  branch by branch; the prediction does not look at the override.
* `StagedLookupDecidesLikeAScan`. `Beats` is a total order on the keys of a set
  (`BeatsTotal`, `BeatsTransitive`), so every set of rules has one best (`BestExists`,
  `BestIsUnique`). `StandsFor` says when a part of the rules may stand for all of them: it holds
  the leading rule of every choice that is offered, and, if there is one that is not offered, an
  unavailable rule that is behind none of these. `PartStandsForAll` shows that resolution then agrees, and
  `ExactStands` and `FuzzyStands` that the rows of the two stages are such a part.

Recursive definitions. `Compile`, `Passes` and the choice of a best element are about data
of any size. The induction theorems of the library cannot be used here, but every
set of naturals that is not empty has a smallest element (`SmallestExists`, from the
well-founded order of the naturals), so these proofs take a smallest counterexample:
a number of lines, of paths, or the size of a set, for which the statement fails first.

Assumptions. `RunConstants`, `TransactionConstants`, `LifecycleConstants`, `BundleConstants`,
`RunnerConstants`, `InstallConstants`, `HarnessConstants` and `RestoreSwap`'s `NoneIsNothing`, `SomeDir`, `OldIsNoMark` and
`ExportsAreArchives` state that null values are no values, that labels differ from ids, that
bounds are natural numbers, that constants have their types, that there is a directory, and
that archives are those of exports. `ReviewConstants` and `LedgerConstants` type their
constants; the latter says, too, that "manual" is no id of a decision. `GateConstants` also says what a
similarity and a normalization are: at most 100 percent, 100 percent of a text to itself, every text
within itself; and that `general` and `global` are names of their own.

Only model-checked: the liveness properties, `AppliedRulesReachTheIndex` and the two of
`dogfood_recovery` (`RecordingResumes`, `TransactionsSettle`). Liveness under fairness and `ENABLED` are
beyond the prover. Every other property of a passing run is stated by a theorem.

## 6. What is restricted, and what is not modelled

Three properties are restricted, and say so:

* `FailureLeavesOldOrNew` admits a third outcome beside the old and the new vault: the bare
  directory a gate makes when it opens the ledger between the two renames. Where
  the rollback fails itself, since the name is taken or by an error of the file system, it promises
  nothing of the name, which may be free; the old vault is still whole on the disk, under the name of its backup.
* `NewBrainmapNeverBesideOldDaemon` holds for as long as nobody else changed the
  sources or the installed files; the installer compares hashes only after the fact.
* `CopierRemovesItsOwn` holds for as long as only copiers use the destination (`swaps = 0`), since the removal
  goes by the path; `CopyRemoved` shows what happens otherwise.

Two hazards have no property: the rollback of a start restores the gate mode and the
autopilot over a change another process made since (`dogfood.rs:805`; no document
promises that change to last), and the three retries of a gate
(`decision_engine_impl.rs:15`; giving up only returns an error).

Not modelled at all: argument parsing, the MCP and web request loops, the daemon,
text assembly, redaction and the evaluation tools, which keep no shared state; of the
shell scripts all but what `HostEvidence`, `RunnerEvidence` and `QualificationBundle` say of three of them: the
other FIA reports, the hooks, settings and project files the finalizer also compares, the release scripts; onboarding, which asks questions and calls the operations above;
full-text search; the choice of the latest snapshot; the cache of the run context,
which is keyed by the version of the ledger it was read from.

Abstracted inside the modelled part: the contents of archives and checksums (a
verified archive is one that was written completely), host and binary identity
checks of dogfood commands (they only make a command bail), build stamps, the classifiers
of text (flags of a request or a note), and the bundle writer, who works a directory
at a time. Processes outside the model can change a modelled file: restore replaces the
whole vault under the maintenance lock, which is modelled on its own in
`RestoreSwap`, and a user may edit files by hand.
