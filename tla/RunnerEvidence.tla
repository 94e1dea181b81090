---------------------------- MODULE RunnerEvidence ----------------------------
(***************************************************************************)
(* The evidence of a qualification run (scripts/m8-integrated-             *)
(* qualification.sh) and what the verifier makes of it (qualification.rs,  *)
(* validate_runner_commands and validate_fia_reports): a list of commands  *)
(* with the exits that were expected, and a wave of worker processes on    *)
(* one vault, about which the script asserts what its files hold and then  *)
(* writes a report of literals.  What goes wrong with what is written is   *)
(* bounded, and may cancel out in one count or another.                    *)
(***************************************************************************)
EXTENDS Naturals, Sequences, SequencesExt

CONSTANTS Required, Precheck,     \* what commands may be part of
          Ids,                    \* the names of commands
          PerKind,                \* processes of each kind in the script's waves
          MinWorkers,             \* processes of each kind that the verifier asks for
          MaxCommands, MaxFaults  \* bounds

\* What an instance has to assume; the first for the two literals of 16.
RunnerConstants ==
    /\ PerKind \in Nat /\ MinWorkers \in Nat /\ PerKind >= MinWorkers
    /\ MaxCommands \in Nat /\ MaxFaults \in Nat

VARIABLES ran,        \* the commands that were run
          commands,   \* the commands that were written down
          workers,    \* processes of each kind that ended as they should
          ledger, captures,   \* the identifiers in the two files
          packets,    \* packets that wait, were applied, and have their note
          ended,      \* how far the wave of workers came
          faults      \* what went wrong unseen, in the commands and the workers

runnerVars == <<ran, commands, workers, ledger, captures, packets, ended, faults>>

WorkerKinds == {"gate", "record", "capture", "feedback"}

RunnerInit ==
    /\ ran = <<>> /\ commands = <<>>
    /\ workers = [k \in WorkerKinds |-> 0]
    /\ ledger = <<>> /\ captures = <<>>
    /\ packets = [pending |-> 0, applied |-> 0, notes |-> 0]
    /\ ended = "running"
    /\ faults = [commands |-> 0, workers |-> 0]

Fault(where, n) ==
    /\ faults.commands + faults.workers + n <= MaxFaults
    /\ faults' = [faults EXCEPT ![where] = @ + n]

-----------------------------------------------------------------------------
\* A number is the exit that was expected; otherwise any but zero was.
Nonzero == <<>>
AsExpected(c) == IF c.expected = Nonzero THEN c.exit # 0 ELSE c.exit = c.expected[1]

\* run_command, run_expected_failure and append_result: the first command that does not exit
\* as expected ends the run.
Run ==
    /\ Len(ran) < MaxCommands
    /\ \A i \in 1..Len(ran) : AsExpected(ran[i])
    /\ \E fia \in Required \cup {Precheck}, id \in Ids, expected \in {<<0>>, Nonzero},
          exit \in {0, 1} :
          LET c == [sequence |-> Len(ran) + 1, fia |-> fia, id |-> id, expected |-> expected,
                    exit |-> exit, passed |-> (exit = 0 <=> expected = <<0>>)]
          IN /\ ran' = Append(ran, c)
             /\ \/ commands' = Append(commands, c) /\ UNCHANGED faults
                \/ commands' = commands /\ Fault("commands", 1)
                \/ commands' = commands \o <<c, c>> /\ Fault("commands", 1)
    /\ UNCHANGED <<workers, ledger, captures, packets, ended>>

-----------------------------------------------------------------------------
\* What one process adds to a file: its line, nothing, its line twice, or a line under an
\* identifier that another line has.  The second number is what went wrong.
Appended(s) ==
    {<<Append(s, Len(s) + 1), 0>>, <<s, 1>>, <<s \o <<Len(s) + 1, Len(s) + 1>>, 1>>}
        \cup IF s = <<>> THEN {} ELSE {<<Append(s, s[1]), 1>>}

FirstWave == {"gate", "record"}
SecondWave == WorkerKinds \ FirstWave
Ran(kinds) == \A k \in kinds : workers[k] = PerKind

\* Each wave is released together; the second when every process of the first has exited.
Worker(k) ==
    /\ ended = "running" /\ workers[k] < PerKind
    /\ k \in SecondWave => Ran(FirstWave)
    /\ workers' = [workers EXCEPT ![k] = @ + 1]
    /\ UNCHANGED <<ran, commands, ended>>

Decide(k) ==
    /\ k \in FirstWave /\ Worker(k)
    /\ \E a \in Appended(ledger) : ledger' = a[1] /\ Fault("workers", a[2])
    /\ UNCHANGED <<captures, packets>>

CaptureWorker ==
    /\ Worker("capture")
    /\ \E a \in Appended(captures) : captures' = a[1] /\ Fault("workers", a[2])
    /\ UNCHANGED <<ledger, packets>>

FeedbackWorker ==
    /\ Worker("feedback")
    /\ \E a \in Appended(ledger), lost \in {0, 1} :
          /\ ledger' = a[1]
          /\ packets' = [packets EXCEPT !.pending = @ + 1 - lost]
          /\ Fault("workers", a[2] + lost)
    /\ UNCHANGED captures

\* A process that exits with an error, a worker or apply, ends the run.
Exits ==
    /\ ended = "running" /\ ended' = "died"
    /\ UNCHANGED <<ran, commands, workers, ledger, captures, packets, faults>>

\* apply --pending: some packet may keep waiting, or be applied and leave no note.
ApplyPending ==
    /\ ended = "running" /\ Ran(WorkerKinds)
    /\ \E left, unwritten \in {0, 1} :
          /\ left + unwritten <= packets.pending
          /\ packets' = [pending |-> left, applied |-> packets.pending - left,
                         notes |-> packets.pending - left - unwritten]
          /\ Fault("workers", left + unwritten)
    /\ ended' = "applied"
    /\ UNCHANGED <<ran, commands, workers, ledger, captures>>

-----------------------------------------------------------------------------
\* Mutant: lines are counted, identifiers are not.
LinesAsserted ==
    /\ Len(ledger) = 3 * PerKind /\ Len(captures) = PerKind
    /\ packets = [pending |-> 0, applied |-> PerKind, notes |-> PerKind]

\* What the script finds in the files of the vault, or dies.
Fia6Asserted ==
    /\ Len(ledger) = 3 * PerKind /\ Cardinality(ToSet(ledger)) = 3 * PerKind
    /\ Len(captures) = PerKind /\ Cardinality(ToSet(captures)) = PerKind
    /\ packets = [pending |-> 0, applied |-> PerKind, notes |-> PerKind]

Report ==
    /\ ended = "applied"
    /\ ended' = IF Fia6Asserted THEN "reported" ELSE "died"
    /\ UNCHANGED <<ran, commands, workers, ledger, captures, packets, faults>>

\* The report: literals.
Fia6Report ==
    [processes |-> 4 * PerKind, workers |-> [k \in WorkerKinds |-> PerKind],
     ledgerEvents |-> 3 * PerKind, uniqueLedgerIds |-> 3 * PerKind,
     captureEvents |-> PerKind, uniqueCaptureIds |-> PerKind,
     appliedPackets |-> PerKind, canonicalNotes |-> PerKind, pendingPackets |-> 0]

-----------------------------------------------------------------------------
\* The verifier.

\* Mutant: commands need not be numbered from one without a gap.
SequenceRises(s) == \A i \in 1..(Len(s) - 1) : s[i].sequence < s[i + 1].sequence

Contiguous(s) == \A i \in 1..Len(s) : s[i].sequence = i

CommandsValid(s) ==
    /\ s # <<>>
    /\ Contiguous(s)
    /\ \A i, j \in 1..Len(s) : i # j => s[i].id # s[j].id
    /\ \A i \in 1..Len(s) : s[i].fia \in Required \cup {Precheck} /\ s[i].passed /\ AsExpected(s[i])
    /\ Required \subseteq {s[i].fia : i \in 1..Len(s)}

Fia6Qualifies(r) ==
    LET gateAndRecord == r.workers["gate"] + r.workers["record"]
    IN /\ r.processes >= 4 * MinWorkers /\ \A k \in WorkerKinds : r.workers[k] >= MinWorkers
       /\ r.processes = gateAndRecord + r.workers["capture"] + r.workers["feedback"]
       /\ r.ledgerEvents = gateAndRecord + r.workers["feedback"]
       /\ r.captureEvents = r.workers["capture"]
       /\ r.appliedPackets = r.workers["feedback"] /\ r.canonicalNotes = r.workers["feedback"]
       /\ r.uniqueLedgerIds = r.ledgerEvents /\ r.uniqueCaptureIds = r.captureEvents
       /\ r.pendingPackets = 0

-----------------------------------------------------------------------------
\* The wave of workers.
Working == \/ \E k \in FirstWave : Decide(k)
           \/ CaptureWorker \/ FeedbackWorker \/ Exits \/ ApplyPending \/ Report

RunnerNext == Run \/ Working

RunnerSpec == RunnerInit /\ [][RunnerNext]_runnerVars

-----------------------------------------------------------------------------
\* Accepted commands were run in this order, under names of their own, each with the exit it
\* was expected to have, and for every part that is required (validate_runner_commands); only
\* what was run after the last of them may be missing.
AcceptedCommandsRan ==
    CommandsValid(commands) =>
        /\ IsPrefix(commands, ran)
        /\ \A i \in 1..Len(commands) : AsExpected(commands[i])
        /\ Required \subseteq {ran[i].fia : i \in 1..Len(ran)}

\* The script reports on the wave of workers exactly when nothing of what they wrote was lost,
\* doubled, confused or left behind: no two faults cancel out in what it asserts
\* (m8-integrated-qualification.sh, FIA-6), and what it then reports qualifies
\* (validate_fia_reports), though the report says nothing of the run any more.
ReportMeansNothingWasLost ==
    /\ ended = "applied" => (Fia6Asserted <=> faults.workers = 0)
    /\ ended = "reported" => faults.workers = 0 /\ Fia6Qualifies(Fia6Report)
=============================================================================
