---------------------------- MODULE ShadowMetrics ----------------------------
(***************************************************************************)
(* What the decision ledger amounts to (learning.rs,                       *)
(* shadow_metrics_from_bytes): one pass over the events of the active run, *)
(* or over all of them when no run is active, and the counters that decide *)
(* on promotion and qualification.                                         *)
(*                                                                         *)
(* An event is a record with its kind, the run it was recorded under and   *)
(* its time; a run is a record with its id, its boundary (the number of    *)
(* ledger lines before it) and its start time.  Event ids are unique, as   *)
(* util::id makes them, so the counters of duplicate ids stay 0.           *)
(***************************************************************************)
EXTENDS Integers, FiniteSets, SequencesExt

CONSTANTS Decisions, Packets, Options, Scenarios, Areas, NoRun,
          MinPairs, MinScenarios, MinAreas   \* 30, 5 and 3 in the code

\* What an instance has to assume.
MetricConstants ==
    /\ MinPairs \in Nat /\ MinScenarios \in Nat /\ MinAreas \in Nat

Incidents == {"false-proceed", "confirmed-collision", "cross-domain-application",
              "privacy-violation", "hard-rule-violation"}
NoIncident == "none"
Manual == "manual"      \* an action recorded without a decision id
NoChoice == "nothing"
Broken == [kind |-> "broken"]   \* a line that does not parse

\* The part of a gate event the metrics look at; area stands for scope and decision type.
GateKind == [outcome: {"proceed", "ask_user"}, selected: Options \cup {NoChoice},
             harness: BOOLEAN, collision: BOOLEAN, learned: BOOLEAN,
             scenario: Scenarios, area: Areas]

-----------------------------------------------------------------------------
\* The pass over the lines.

Nothing == [failed |-> FALSE, gates |-> {}, records |-> {}, again |-> 0, feedback |-> <<>>,
            previewed |-> {}, applied |-> {}, outside |-> 0]

AddGate(seen, event) ==
    IF event.gate.harness THEN seen ELSE [seen EXCEPT !.gates = @ \cup {event}]

\* Mutant: the last action recorded for a decision replaces the first.
AddRecordLast(seen, event, run) ==
    [seen EXCEPT !.records = {r \in @ : r.decision # event.decision} \cup {event}]

AddRecord(seen, event, run) ==
    IF event.decision = Manual /\ run # NoRun THEN [seen EXCEPT !.failed = TRUE]
    ELSE IF event.decision # Manual /\ \E r \in seen.records : r.decision = event.decision
    THEN [seen EXCEPT !.again = @ + 1]
    ELSE [seen EXCEPT !.records = @ \cup {event}]

\* The first event of a packet counts.
AddFirst(positions, packet, i) ==
    IF \E q \in positions : q.packet = packet THEN positions
    ELSE positions \cup {[packet |-> packet, at |-> i]}

Outside(event, run, now) ==
    run # NoRun /\ (event.at < run.started \/ event.at > now)

Scan(seen, i, event, run, now) ==
    LET counted == [seen EXCEPT !.outside = @ + IF Outside(event, run, now) THEN 1 ELSE 0] IN
    IF event = Broken THEN [seen EXCEPT !.failed = TRUE]
    ELSE IF event.kind = "dogfood-review" THEN seen
    ELSE IF run # NoRun /\ event.run # run.id THEN [seen EXCEPT !.failed = TRUE]
    ELSE
    CASE event.kind = "decision-gate" -> AddGate(counted, event)
      [] event.kind = "record-decision" -> AddRecord(counted, event, run)
      [] event.kind = "learn-feedback" ->
            [counted EXCEPT !.feedback = Append(@, [event |-> event, at |-> i])]
      [] event.kind = "preview-update" ->
            [counted EXCEPT !.previewed = AddFirst(@, event.packet, i)]
      [] event.kind = "apply-update" ->
            [counted EXCEPT !.applied = AddFirst(@, event.packet, i)]

\* The lines the active run owns, or all of them.
Slice(ledger, run) ==
    IF run = NoRun THEN ledger ELSE SubSeq(ledger, run.boundary + 1, Len(ledger))

\* What the pass knows after each of the lines.
Passes(lines, run, now) ==
    LET seen[n \in 0..Len(lines)] ==
            IF n = 0 THEN Nothing ELSE Scan(seen[n - 1], n, lines[n], run, now)
    IN seen

Read(ledger, run, now) ==
    LET lines == Slice(ledger, run) IN Passes(lines, run, now)[Len(lines)]

-----------------------------------------------------------------------------
\* The counters.

GateOf(seen, decision) == {g \in seen.gates : g.decision = decision}
Chronological(seen, record, run) ==
    run = NoRun \/ \A g \in GateOf(seen, record.decision) : record.at >= g.at
ValidActual(seen, record, run) ==
    /\ record.chosen # NoChoice \/ record.asked
    /\ Chronological(seen, record, run)
Matched(seen) == {r \in seen.records : GateOf(seen, r.decision) # {}}
Pairs(seen, run) == {r \in Matched(seen) : ValidActual(seen, r, run)}

KnownFeedback(seen) ==
    {f \in {seen.feedback[i] : i \in DOMAIN seen.feedback} :
        GateOf(seen, f.event.decision) # {}}

FeedbackPackets(seen) == {f.event.packet : f \in KnownFeedback(seen)}
PacketsOf(positions) == {q.packet : q \in positions}
FirstFeedback(seen, packet) ==
    CHOOSE f \in KnownFeedback(seen) :
        /\ f.event.packet = packet
        /\ \A g \in KnownFeedback(seen) : g.event.packet = packet => f.at <= g.at
PositionOf(positions, packet) == (CHOOSE q \in positions : q.packet = packet).at

\* packet_lifecycle_order_violations
Disordered(seen) ==
    {p \in FeedbackPackets(seen) \cap PacketsOf(seen.previewed) \cap PacketsOf(seen.applied) :
        \/ FirstFeedback(seen, p).at >= PositionOf(seen.previewed, p)
        \/ PositionOf(seen.previewed, p) >= PositionOf(seen.applied, p)}

IncidentCount(seen, incident) ==
    Cardinality({f \in KnownFeedback(seen) : f.event.incident = incident})

\* Mutant: feedback on a gate that is not counted is not held against the ledger.
IntegrityWithOrphans(seen, run) ==
    /\ seen.again = 0
    /\ Matched(seen) = seen.records
    /\ Cardinality(seen.gates) = Cardinality(Matched(seen))
    /\ Pairs(seen, run) = Matched(seen)
    /\ FeedbackPackets(seen) \subseteq PacketsOf(seen.previewed)
    /\ FeedbackPackets(seen) \subseteq PacketsOf(seen.applied)
    /\ PacketsOf(seen.previewed) \subseteq FeedbackPackets(seen)
    /\ PacketsOf(seen.applied) \subseteq FeedbackPackets(seen)
    /\ Disordered(seen) = {}

\* ledger_integrity_valid
Integrity(seen, run) ==
    /\ seen.again = 0                                               \* duplicate actions
    /\ Matched(seen) = seen.records                                 \* orphan actions
    /\ Cardinality(KnownFeedback(seen)) = Len(seen.feedback)        \* orphan feedback
    /\ Cardinality(seen.gates) = Cardinality(Matched(seen))         \* missing actions
    /\ Pairs(seen, run) = Matched(seen)                             \* invalid actions
    /\ FeedbackPackets(seen) \subseteq PacketsOf(seen.previewed)    \* unpreviewed
    /\ FeedbackPackets(seen) \subseteq PacketsOf(seen.applied)      \* unapplied
    /\ PacketsOf(seen.previewed) \subseteq FeedbackPackets(seen)    \* orphan previews
    /\ PacketsOf(seen.applied) \subseteq FeedbackPackets(seen)      \* orphan applies
    /\ Disordered(seen) = {}
    /\ seen.outside = 0

GatesOfPairs(seen, run) == UNION {GateOf(seen, r.decision) : r \in Pairs(seen, run)}
Intensive(seen, run) ==
    /\ Cardinality(Pairs(seen, run)) >= MinPairs
    /\ Cardinality({g.gate.scenario : g \in GatesOfPairs(seen, run)}) >= MinScenarios
    /\ Cardinality({g.gate.area : g \in GatesOfPairs(seen, run)}) >= MinAreas

Agreement(gate, record) ==
    CASE gate.outcome = "proceed" -> ~record.asked /\ record.chosen = gate.selected
                                     /\ record.chosen # NoChoice
      [] OTHER -> record.asked

\* What is compared and reported: the counters without rates, latencies and margins.
Metrics(ledger, run, now) ==
    LET seen == Read(ledger, run, now)
        pairs == Pairs(seen, run)
    IN [failed |-> seen.failed \/ (run # NoRun /\ now < run.started),
        decisions |-> Cardinality(seen.gates),
        pairs |-> Cardinality(pairs),
        agreements |-> Cardinality({r \in pairs :
                          \E g \in GateOf(seen, r.decision) : Agreement(g.gate, r)}),
        collisions |-> Cardinality({g \in seen.gates : g.gate.collision}),
        corrections |-> Cardinality({f.event.decision : f \in KnownFeedback(seen)}),
        incidents |-> [i \in Incidents |-> IncidentCount(seen, i)],
        integrity |-> Integrity(seen, run),
        intensive |-> Intensive(seen, run)]

UnsafeIncidents == Incidents \ {"confirmed-collision"}
SafetyClean(metrics) == \A i \in UnsafeIncidents : metrics.incidents[i] = 0
=============================================================================
