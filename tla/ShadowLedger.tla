---------------------------- MODULE ShadowLedger -----------------------------
(***************************************************************************)
(* The commands that write the decision ledger, inside and outside a       *)
(* dogfood run, and the autopilot settings that are promoted on what the   *)
(* ledger says (learning.rs).  A command that holds the ledger lock from   *)
(* end to end is one step; promote and set-threshold look first and take   *)
(* the lock later, so they are two.                                        *)
(***************************************************************************)
EXTENDS ShadowMetrics

CONSTANTS Procs, Sessions, Thresholds,
          Verdicts,     \* the kinds of gate event that are recorded
          Reportable,   \* the incidents that are reported
          Actions,      \* the actions that are recorded
          MinConservative, MinBalanced, MaxMismatches,   \* 30, 100 and 2 in the code
          MaxLines      \* lines in the ledger

\* What an instance has to assume.
LedgerConstants ==
    /\ MetricConstants
    /\ Manual \notin Decisions
    /\ Verdicts \subseteq GateKind
    /\ Reportable \subseteq Incidents
    /\ Actions \subseteq [chosen: Options \cup {NoChoice}, asked: BOOLEAN]
    /\ MinConservative \in Nat /\ MinBalanced \in Nat
    /\ MaxMismatches \in Nat /\ MaxLines \in Nat

VARIABLES log,         \* the lines of decision-ledger.jsonl
          session,     \* the active run, or NoRun
          started,     \* the runs that were started
          packets,     \* what became of each update packet
          autopilot,   \* .brainmap/autopilot.json
          job          \* a settings command between its two steps

ledgerVars == <<log, session, started, packets, autopilot, job>>

Modes == {"shadow", "disabled", "conservative", "balanced"}
Enforcing == {"conservative", "balanced"}
PacketStates == {"none", "pending", "previewed", "applied", "applied unseen"}
Idle == [pc |-> "idle"]

LedgerInit ==
    /\ log = <<>> /\ session = NoRun /\ started = {}
    /\ packets = [p \in Packets |-> "none"]
    /\ autopilot \in [mode: {"shadow"}, threshold: Thresholds]
    /\ job = [x \in Procs |-> Idle]

-----------------------------------------------------------------------------
SessionId == IF session = NoRun THEN NoRun ELSE session.id
Logs(event) ==
    /\ Len(log) < MaxLines
    /\ log' = Append(log, event)

GatesLogged == {log[i] : i \in {j \in DOMAIN log : log[j].kind = "decision-gate"}}

\* evaluate_internal
Evaluate(d) ==
    /\ ~\E g \in GatesLogged : g.decision = d
    /\ \E gate \in Verdicts :
          Logs([kind |-> "decision-gate", run |-> SessionId, at |-> 0, decision |-> d,
                   gate |-> gate])
    /\ UNCHANGED <<session, started, packets, autopilot, job>>

\* record_decision: the decision need not be in the ledger.
RecordDecision(d, action) ==
    /\ session # NoRun => d # Manual /\ (action.chosen # NoChoice \/ action.asked)
    /\ Logs([kind |-> "record-decision", run |-> SessionId, at |-> 0, decision |-> d,
                chosen |-> action.chosen, asked |-> action.asked])
    /\ UNCHANGED <<session, started, packets, autopilot, job>>

\* decision_context_from_bytes
Readable(g) ==
    \E i \in DOMAIN log : log[i] = g /\ \A j \in DOMAIN log : j > i => log[j] # Broken

\* validate_feedback_incident
Plausible(incident, gate) ==
    CASE incident = "false-proceed" -> gate.outcome = "proceed"
      [] incident = "confirmed-collision" -> gate.collision
      [] incident = "cross-domain-application" -> gate.learned
      [] OTHER -> TRUE

\* learn_feedback: the packet and its event.
LearnFeedback(p, incident) ==
    /\ packets[p] = "none"
    /\ \E g \in GatesLogged :
          /\ Readable(g) /\ Plausible(incident, g.gate)
          /\ Logs([kind |-> "learn-feedback", run |-> SessionId, at |-> 0,
                      decision |-> g.decision, packet |-> p, incident |-> incident])
    /\ packets' = [packets EXCEPT ![p] = "pending"]
    /\ UNCHANGED <<session, started, autopilot, job>>

\* learn_decision
LearnDecision(p) ==
    /\ packets[p] = "none"
    /\ packets' = [packets EXCEPT ![p] = "pending"]
    /\ UNCHANGED <<log, session, started, autopilot, job>>

\* append_packet_lifecycle_event: only a run keeps these events.
LifecycleEvent(kind, p) ==
    IF session = NoRun THEN UNCHANGED log
    ELSE Logs([kind |-> kind, run |-> SessionId, at |-> 0, packet |-> p])

Preview(p) ==
    /\ packets[p] \in {"pending", "previewed"}
    /\ LifecycleEvent("preview-update", p)
    /\ packets' = [packets EXCEPT ![p] = "previewed"]
    /\ UNCHANGED <<session, started, autopilot, job>>

Apply(p) ==
    /\ packets[p] \in {"pending", "previewed"}
    /\ LifecycleEvent("apply-update", p)
    /\ packets' = [packets EXCEPT ![p] = IF @ = "previewed" THEN "applied" ELSE "applied unseen"]
    /\ UNCHANGED <<session, started, autopilot, job>>

\* A process is killed in an append; the event joined to its line is lost with it.
TearLog ==
    /\ Logs(Broken)
    /\ UNCHANGED <<session, started, packets, autopilot, job>>

-----------------------------------------------------------------------------
\* dogfood start and abort, as far as the ledger and the settings see them.
StartRun(r) ==
    /\ session = NoRun /\ r \notin started
    /\ session' = [id |-> r, boundary |-> Len(log), started |-> 0]
    /\ started' = started \cup {r}
    /\ autopilot' = [autopilot EXCEPT !.mode = "shadow"]
    /\ UNCHANGED <<log, packets, job>>

AbortRun ==
    /\ session # NoRun
    /\ session' = NoRun
    /\ UNCHANGED <<log, started, packets, autopilot, job>>

-----------------------------------------------------------------------------
\* autopilot_set, under the ledger lock: enable, disable and demote.
SetAutopilot(mode, threshold) ==
    /\ session = NoRun
    /\ autopilot' = [mode |-> mode, threshold |-> threshold]

Disable ==
    /\ SetAutopilot("disabled", autopilot.threshold)
    /\ UNCHANGED <<log, session, started, packets, job>>

Demote(mode) ==
    /\ SetAutopilot(mode, autopilot.threshold)
    /\ UNCHANGED <<log, session, started, packets, job>>

\* Mutant: promotion does not ask whether the ledger is whole.
EligibleByCounts(to, metrics) ==
    /\ ~metrics.failed
    /\ metrics.decisions >= MinConservative
    /\ metrics.incidents["privacy-violation"] = 0

\* autopilot_promote: what the statistics must say.
Eligible(to, metrics) ==
    /\ ~metrics.failed /\ metrics.integrity
    /\ CASE to = "shadow" -> TRUE
         [] to = "conservative" ->
               /\ metrics.decisions >= MinConservative
               /\ metrics.corrections < MaxMismatches
         [] to = "balanced" ->
               /\ metrics.decisions >= MinBalanced
               /\ metrics.incidents["false-proceed"] = 0
    /\ to # "shadow" =>
          /\ metrics.incidents["privacy-violation"] = 0
          /\ metrics.incidents["cross-domain-application"] = 0

Statistics == Metrics(log, session, 0)

PromoteLooks(x, to) ==
    /\ job[x] = Idle
    /\ Eligible(to, Statistics)
    /\ job' = [job EXCEPT ![x] = [pc |-> "promote", mode |-> to]]
    /\ UNCHANGED <<log, session, started, packets, autopilot>>

PromoteSets(x) ==
    /\ job[x].pc = "promote"
    /\ IF session = NoRun THEN SetAutopilot(job[x].mode, autopilot.threshold)
       ELSE UNCHANGED autopilot
    /\ job' = [job EXCEPT ![x] = Idle]
    /\ UNCHANGED <<log, session, started, packets>>

\* autopilot_set_threshold: the mode is read before the lock is taken.
ThresholdLooks(x, threshold) ==
    /\ job[x] = Idle
    /\ job' = [job EXCEPT ![x] = [pc |-> "threshold", mode |-> autopilot.mode,
                                  threshold |-> threshold]]
    /\ UNCHANGED <<log, session, started, packets, autopilot>>

ThresholdSets(x) ==
    /\ job[x].pc = "threshold"
    /\ IF session = NoRun THEN SetAutopilot(job[x].mode, job[x].threshold)
       ELSE UNCHANGED autopilot
    /\ job' = [job EXCEPT ![x] = Idle]
    /\ UNCHANGED <<log, session, started, packets>>

-----------------------------------------------------------------------------
Logging ==
    \/ \E d \in Decisions : Evaluate(d)
    \/ \E d \in Decisions \cup {Manual}, action \in Actions : RecordDecision(d, action)
    \/ \E p \in Packets : \/ \E i \in Reportable \cup {NoIncident} : LearnFeedback(p, i)
                          \/ LearnDecision(p) \/ Preview(p) \/ Apply(p)

\* promote and set-threshold
Deciding ==
    \E x \in Procs : \/ \E to \in {"shadow"} \cup Enforcing : PromoteLooks(x, to)
                     \/ PromoteSets(x)
                     \/ \E t \in Thresholds : ThresholdLooks(x, t)
                     \/ ThresholdSets(x)

Settings == Disable \/ Deciding \/ \E m \in Modes : Demote(m)

Runnings == AbortRun \/ \E r \in Sessions : StartRun(r)

\* The ledger alone.
LogNext == Logging \/ TearLog \/ Runnings

LedgerNext == LogNext \/ Settings
LedgerSpec == LedgerInit /\ [][LedgerNext]_ledgerVars

-----------------------------------------------------------------------------
Seen == Read(log, session, 0)
Intact == LET seen == Seen IN ~seen.failed /\ Integrity(seen, session)

Reported(i) == {j \in DOMAIN Slice(log, session) :
                    /\ Slice(log, session)[j].kind = "learn-feedback"
                    /\ Slice(log, session)[j].incident = i}

\* Where the ledger counts as intact every incident the user reported is counted, although
\* feedback whose gate is not among the lines is passed over (shadow_metrics).
NoIncidentEscapes ==
    Intact => \A i \in Incidents : IncidentCount(Seen, i) = Cardinality(Reported(i))

Lines == Slice(log, session)
LinesOf(kind) == {i \in DOMAIN Lines : Lines[i].kind = kind}
DecisionLines == {i \in LinesOf("decision-gate") : ~Lines[i].gate.harness}

\* What integrity is for, without its counters: every decision has one usable action, every
\* action and correction has its decision, and every correction, and nothing else, was
\* previewed after it was given and applied after it was previewed.
Closed ==
    /\ \A i \in DOMAIN Lines : Lines[i] # Broken
    /\ \A i \in DecisionLines :
          \E j \in LinesOf("record-decision") : /\ Lines[j].decision = Lines[i].decision
                                                /\ Lines[j].chosen # NoChoice \/ Lines[j].asked
    /\ \A j, k \in LinesOf("record-decision") : Lines[j].decision = Lines[k].decision => j = k
    /\ \A j \in LinesOf("record-decision") \cup LinesOf("learn-feedback") :
          \E i \in DecisionLines : Lines[i].decision = Lines[j].decision
    /\ \A f \in LinesOf("learn-feedback") :
          \E p \in LinesOf("preview-update"), a \in LinesOf("apply-update") :
              /\ f < p /\ p < a
              /\ Lines[p].packet = Lines[f].packet /\ Lines[a].packet = Lines[f].packet
    /\ \A e \in LinesOf("preview-update") \cup LinesOf("apply-update") :
          \E f \in LinesOf("learn-feedback") : Lines[f].packet = Lines[e].packet

\* The sixteen counters of shadow_metrics vanish together exactly when the ledger is closed.
IntegrityMeansClosed == Intact <=> Closed

\* A promotion is granted only on statistics of a ledger that was closed (autopilot_promote).
PromotedOnClosedLedger ==
    [][\A x \in Procs : job[x].pc = "idle" /\ job'[x].pc = "promote" => Closed]_ledgerVars

\* "promotion denied: need ..." (autopilot_promote): what the denial asks for holds of the
\* ledger the promotion is written beside.
PromotionRestsOnLedger ==
    [][\A x \in Procs :
          job[x].pc = "promote" /\ job'[x].pc = "idle" /\ autopilot' # autopilot
             => Eligible(job[x].mode, Statistics)]_ledgerVars

-----------------------------------------------------------------------------
\* "autopilot_promotion_requires_evidence" (learning.rs, test): autopilot enforces only if
\* some earlier ledger made it eligible.
EnforcementRequiresEvidence ==
    autopilot.mode \in Enforcing =>
        \E n \in 0..Len(log) : Eligible(autopilot.mode, Metrics(SubSeq(log, 1, n), NoRun, 0))

\* A tidy history outside of runs: closed but for the preview and apply events that are only
\* written inside a run, while every correction was in fact previewed and then applied.
Tidy ==
    /\ session = NoRun /\ started = {}
    /\ \A i \in DOMAIN Lines : Lines[i] # Broken
    /\ \A i \in DecisionLines :
          \E j \in LinesOf("record-decision") : /\ Lines[j].decision = Lines[i].decision
                                                /\ Lines[j].chosen # NoChoice \/ Lines[j].asked
    /\ \A j, k \in LinesOf("record-decision") : Lines[j].decision = Lines[k].decision => j = k
    /\ \A j \in LinesOf("record-decision") \cup LinesOf("learn-feedback") :
          \E i \in DecisionLines : Lines[i].decision = Lines[j].decision
    /\ \A p \in Packets : packets[p] \in {"none", "applied"}

\* "<2 serious mismatches": one correction that was previewed and applied does not make the
\* ledger "invalid or action recording ... incomplete".
OneMismatchIsTolerated == Tidy => Statistics.integrity
=============================================================================
