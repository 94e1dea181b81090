------------------------------ MODULE RunReview ------------------------------
(***************************************************************************)
(* The review receipts of a dogfood run and what finalization asks of them *)
(* (dogfood.rs).  A receipt is a line of the ledger that is bound to all   *)
(* lines before it; each later review, status and finalization checks all  *)
(* of them again.                                                          *)
(*                                                                         *)
(* Time is counted in half seconds: events carry whole seconds             *)
(* (util::now_iso), receipts and the start of the run carry finer ones.  A *)
(* command reads the clock before it waits for its locks, so the time it   *)
(* uses is any time up to now.  The journal of finalize is in              *)
(* DogfoodTransaction; here its checks and its effect are one step.        *)
(***************************************************************************)
EXTENDS ShadowMetrics

CONSTANTS Runs,
          GateKinds, Reports,
          Tolerance,   \* START_CLOCK_TOLERANCE
          MaxClock,    \* bound of the clock
          MaxEvents    \* bound of the ledger's lines

\* What an instance has to assume.
ReviewConstants ==
    /\ MetricConstants
    /\ GateKinds \subseteq GateKind /\ Reports \subseteq Incidents \cup {NoIncident}
    /\ Tolerance \in Nat /\ MaxClock \in Nat /\ MaxEvents \in Nat

VARIABLES ledger,     \* the lines of decision-ledger.jsonl
          run,        \* the active run, or NoRun
          used,       \* the ids of the runs that were started
          intact,     \* settings, binaries, backup and bundle are those of the start
          finalized,  \* each finalized run with its ledger and its time
          clock

vars == <<ledger, run, used, intact, finalized, clock>>

Status == {"clear", "investigating", "resolved-no-violation", "candidate-failed"}
NoStatus == "none"

Init ==
    /\ ledger = <<>> /\ run = NoRun /\ used = {} /\ intact = TRUE
    /\ finalized = {} /\ clock = 0

Second(time) == time - (time % 2)
Appends(event) ==
    /\ Len(ledger) < MaxEvents
    /\ ledger' = Append(ledger, event)
RunId == IF run = NoRun THEN NoRun ELSE run.id

-----------------------------------------------------------------------------
\* Receipts.

ReviewsIn(lines) == {i \in DOMAIN lines : lines[i].kind = "dogfood-review"}
Of(r) == {i \in ReviewsIn(ledger) : i > r.boundary}

\* Mutant: a failed candidate can be cleared by a later review.
TransitionAfterFailure(previous, next) ==
    /\ next = "resolved-no-violation" => previous \notin {NoStatus, "clear"}
    /\ next = "clear" => previous # "investigating"

\* incident_transition_valid
TransitionValid(previous, next) ==
    /\ previous # "candidate-failed"
    /\ next = "resolved-no-violation" => previous \notin {NoStatus, "clear"}
    /\ next = "clear" => previous # "investigating"

\* The receipt before line i, and its status and time.
Before(r, i) == {j \in Of(r) : j < i}
StatusBefore(r, i) ==
    IF Before(r, i) = {} THEN NoStatus ELSE ledger[Max(Before(r, i))].status

\* The metrics a receipt is bound to, without the settings they also depend on.
MetricsBefore(r, i, time) == Metrics(SubSeq(ledger, 1, i - 1), r, time)

ReceiptValid(r, i, ended) ==
    LET receipt == ledger[i] IN
    /\ receipt.run = r.id
    /\ receipt.prefix = i - 1
    /\ r.started <= receipt.at /\ receipt.at <= ended
    /\ \A j \in Before(r, i) : ledger[j].at < receipt.at
    /\ TransitionValid(StatusBefore(r, i), receipt.status)
    /\ ~MetricsBefore(r, i, receipt.at).failed
    /\ receipt.metrics = MetricsBefore(r, i, receipt.at)

\* validate_review_receipts: the receipts hold, at the time the check ends at.
ReviewsValid(r, ended) ==
    /\ \A i \in r.boundary + 1..Len(ledger) : ledger[i] # Broken
    /\ Of(r) # {} => intact
    /\ \A i \in Of(r) : ReceiptValid(r, i, ended)

CurrentStatus(r) == StatusBefore(r, Len(ledger) + 1)
ReviewReady(r) ==
    /\ Of(r) # {} /\ Max(Of(r)) = Len(ledger)
    /\ CurrentStatus(r) \in {"clear", "resolved-no-violation"}

\* Mutant: a review is accepted though a later one was written while it waited.
ReviewUnordered(now, status) ==
    /\ run # NoRun /\ intact
    /\ TransitionValid(CurrentStatus(run), status)
    /\ now >= run.started
    /\ ~Metrics(ledger, run, now).failed
    /\ Appends([kind |-> "dogfood-review", run |-> run.id, at |-> now, status |-> status,
                prefix |-> Len(ledger), metrics |-> Metrics(ledger, run, now)])
    /\ UNCHANGED <<run, used, intact, finalized, clock>>

\* review_at
Review(now, status) ==
    /\ run # NoRun /\ intact
    /\ ReviewsValid(run, now)
    /\ TransitionValid(CurrentStatus(run), status)
    /\ now >= run.started
    /\ \A i \in Of(run) : ledger[i].at < now
    /\ ~Metrics(ledger, run, now).failed
    /\ Appends([kind |-> "dogfood-review", run |-> run.id, at |-> now, status |-> status,
                prefix |-> Len(ledger), metrics |-> Metrics(ledger, run, now)])
    /\ UNCHANGED <<run, used, intact, finalized, clock>>

-----------------------------------------------------------------------------
\* The rest of the ledger (learning.rs, decision_engine_impl.rs).

Gates == {ledger[i] : i \in {j \in DOMAIN ledger : ledger[j].kind = "decision-gate"}}
Begun == IF run = NoRun THEN clock ELSE run.begun

\* The gate was evaluated in the run it is recorded in, at some time since it began.
Gate(d) ==
    /\ run # NoRun => intact
    /\ ~\E g \in Gates : g.decision = d
    /\ \E kind \in GateKinds, time \in Begun..clock :
          Appends([kind |-> "decision-gate", run |-> RunId, at |-> Second(time),
                   decision |-> d, gate |-> kind])
    /\ UNCHANGED <<run, used, intact, finalized, clock>>

Record(d, choice) ==
    /\ Appends([kind |-> "record-decision", run |-> RunId, at |-> Second(clock), decision |-> d,
                chosen |-> choice, asked |-> FALSE])
    /\ UNCHANGED <<run, used, intact, finalized, clock>>

PacketsIn(kind) == {ledger[i].packet : i \in {j \in DOMAIN ledger : ledger[j].kind = kind}}

Feedback(p, incident) ==
    /\ p \notin PacketsIn("learn-feedback")
    /\ \E g \in Gates :
          Appends([kind |-> "learn-feedback", run |-> RunId, at |-> Second(clock),
                   decision |-> g.decision, packet |-> p, incident |-> incident])
    /\ UNCHANGED <<run, used, intact, finalized, clock>>

PacketEvent(kind, p) ==
    /\ run # NoRun
    /\ p \in PacketsIn("learn-feedback") /\ p \notin PacketsIn("apply-update")
    /\ Appends([kind |-> kind, run |-> RunId, at |-> Second(clock), packet |-> p])
    /\ UNCHANGED <<run, used, intact, finalized, clock>>

Tear ==
    /\ Appends(Broken)
    /\ UNCHANGED <<run, used, intact, finalized, clock>>

\* A setting, a binary, the backup or the bundle changes, or is put back.
Drift ==
    /\ run # NoRun
    /\ intact' = ~intact
    /\ UNCHANGED <<ledger, run, used, finalized, clock>>

Tick ==
    /\ clock < MaxClock
    /\ clock' = clock + 1
    /\ UNCHANGED <<ledger, run, used, intact, finalized>>

-----------------------------------------------------------------------------
\* Runs.

\* start_at_with_verifier
Start(r, now, time) ==
    /\ run = NoRun /\ r \notin used
    /\ time - now <= Tolerance /\ now - time <= Tolerance
    /\ run' = [id |-> r, boundary |-> Len(ledger), started |-> time, begun |-> clock]
    /\ used' = used \cup {r}
    /\ intact' = TRUE
    /\ UNCHANGED <<ledger, finalized, clock>>

\* abort
Abort ==
    /\ run # NoRun
    /\ run' = NoRun
    /\ UNCHANGED <<ledger, used, intact, finalized, clock>>

\* Mutant: the safety counters are left to the reviewer.
MetricsValidWithoutSafety(metrics) ==
    ~metrics.failed /\ metrics.integrity /\ metrics.intensive

\* validate_metrics
MetricsValid(metrics) ==
    /\ ~metrics.failed /\ metrics.integrity
    /\ metrics.intensive
    /\ metrics.incidents["false-proceed"] = 0
    /\ metrics.incidents["cross-domain-application"] = 0
    /\ metrics.incidents["privacy-violation"] = 0
    /\ metrics.incidents["hard-rule-violation"] = 0

\* finalize_at_with_fault, its checks: metrics, reviews, sign-off.
Finalizable(now) ==
    /\ run # NoRun /\ intact
    /\ MetricsValid(Metrics(ledger, run, now))
    /\ ReviewsValid(run, now)
    /\ ReviewReady(run)

Finalize(now) ==
    /\ Finalizable(now)
    /\ finalized' = finalized \cup {[run |-> run, lines |-> Slice(ledger, run), at |-> now]}
    /\ run' = NoRun
    /\ UNCHANGED <<ledger, used, intact, clock>>

\* Mutant: the health of a run does not look at hard-rule violations.
SafetyCleanButHardRules(metrics) ==
    \A i \in UnsafeIncidents \ {"hard-rule-violation"} : metrics.incidents[i] = 0

\* metrics_safety_clean
MetricsSafetyClean(metrics) == SafetyClean(metrics)

\* run_health, as status shows it.
Health ==
    LET metrics == Metrics(ledger, run, clock) IN
    [healthy |-> /\ intact /\ ~metrics.failed /\ metrics.integrity
                 /\ MetricsSafetyClean(metrics) /\ ReviewsValid(run, clock),
     sessionReady |-> metrics.intensive,
     reviewReady |-> ReviewsValid(run, clock) /\ ReviewReady(run)]

-----------------------------------------------------------------------------
Recording ==
    \/ \E d \in Decisions : \/ Gate(d)
                            \/ \E choice \in Options : Record(d, choice)
    \/ \E p \in Packets : \/ \E incident \in Reports : Feedback(p, incident)
                          \/ \E kind \in {"preview-update", "apply-update"} : PacketEvent(kind, p)
    \/ Tear

Next ==
    \/ Recording \/ Drift \/ Tick \/ Abort
    \/ \E now \in 0..clock : \/ \E status \in Status : Review(now, status)
                             \/ Finalize(now)
                             \/ \E r \in Runs, time \in 0..MaxClock : Start(r, now, time)

Spec == Init /\ [][Next]_vars

-----------------------------------------------------------------------------
\* A receipt that was once accepted never spoils its run: whatever is recorded after it, and
\* however long a review waited for its locks, validate_review_receipts accepts it again.
AcceptedReviewsStayValid ==
    run # NoRun /\ intact /\ (\A i \in DOMAIN ledger : ledger[i] # Broken)
        => ReviewsValid(run, clock)

IsReview(line) == line.kind = "dogfood-review"

\* What a finalized run was: a reviewer had seen every line of it, found no failed candidate,
\* and resolved each investigation.
FinalizedRunsWereReviewed ==
    \A f \in finalized :
        LET lines == f.lines
            last == lines[Len(lines)]
        IN /\ IsReview(last) /\ last.status \in {"clear", "resolved-no-violation"}
           /\ \A i \in DOMAIN lines :
                 IsReview(lines[i]) =>
                     /\ lines[i].status # "candidate-failed"
                     /\ lines[i].status = "investigating" =>
                            \E j \in i + 1..Len(lines) :
                                IsReview(lines[j]) /\ lines[j].status = "resolved-no-violation"

\* A finalized run holds no unsafe incident, no decision without its action (a host hook asks
\* for none), no correction that was not applied, and nothing recorded before its start or
\* after its end.
FinalizedRunsWereClean ==
    \A f \in finalized :
        LET lines == f.lines
            Of2(kind) == {i \in DOMAIN lines : lines[i].kind = kind}
        IN /\ \A i \in Of2("learn-feedback") :
                 /\ lines[i].incident \notin UnsafeIncidents
                 /\ \E j \in Of2("apply-update") : j > i /\ lines[j].packet = lines[i].packet
           /\ \A i \in Of2("decision-gate") :
                 ~lines[i].gate.harness =>
                     \E j \in Of2("record-decision") : lines[j].decision = lines[i].decision
           /\ \A i \in DOMAIN lines : lines[i].at \in f.run.started..f.at

\* What status shows and what finalize checks are written apart and agree: a healthy run with
\* a ready session and a ready review can be finalized, and no other can.
HealthAgreesWithFinalize ==
    run # NoRun =>
        (Health.healthy /\ Health.sessionReady /\ Health.reviewReady <=> Finalizable(clock))
=============================================================================
