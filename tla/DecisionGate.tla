---------------------------- MODULE DecisionGate ----------------------------
(***************************************************************************)
(* The decision a gate makes (decision_engine_impl.rs,                     *)
(* evaluate_with_context) from a request, the compiled rules and the       *)
(* configuration; and what changes these: notes are written, the index is  *)
(* rebuilt, the configuration is set.  The index may be older than the     *)
(* notes.  Confidences are in basis points (0.82 is 8200).                 *)
(***************************************************************************)
EXTENDS DecisionRules

CONSTANTS NoteShapes,    \* the notes that are written
          Requests,      \* the requests that are asked
          AskTexts,      \* choices that learned_rule_requires_ask recognises
          Thresholds

VARIABLES notes, rules, config

vars == <<notes, rules, config>>

AutopilotModes == {"shadow", "disabled", "conservative", "balanced"}
GateModes == {"ask-always", "suggest-only", "shadow", "active"}

\* flags: what the text tests find in the request (empty, secret, hardNo,
\* privacyBoundary, ambiguous, redundant) and who asks (hook, preToolUse).
\* override: BRAINMAP_DISABLE_AUTOPILOT or BRAINMAP_GATE_MODE stops this process.
Flags == {"empty", "secret", "hardNo", "privacyBoundary", "ambiguous", "redundant",
          "hook", "preToolUse"}
Request == [flags: SUBSET Flags, risk: {"low", "medium", "high", "critical"},
            reversible: BOOLEAN, situation: Situations, type: Types, scope: Scopes,
            options: Seq(Texts), override: BOOLEAN]

\* What an instance has to assume.
GateConstants ==
    /\ RuleConstants
    /\ NoteShapes \subseteq Note /\ Requests \subseteq Request /\ Thresholds \subseteq Nat

-----------------------------------------------------------------------------
\* calibrated_confidence, in basis points
AtMost(bound, x) == IF x > bound THEN bound ELSE x
AtLeast(bound, x) == IF x < bound THEN bound ELSE x
Confidence(res, q) ==
    AtMost(9700,
        4000 + Score(res.rule, q) * 45 + res.rule.base * 8
        + (IF res.exact THEN 500 ELSE 0)
        + AtLeast(1, AtMost(4, res.rule.evidence)) * 100
        + (IF res.rule.priority >= 300 THEN 200 ELSE 0)
        + ScopeExact(res.rule, q) * 200
        + AtMost(20, res.margin) * 10)

\* choose_learned_option: the first option, in their order, whose text contains the
\* choice or is contained in it, and that the rule does not reject; "none" if there
\* is none.
Fits(option, rule) ==
    /\ ~\E r \in rule.rejected : SameText(option, r)
    /\ <<option, rule.chosen>> \in Within \/ <<rule.chosen, option>> \in Within

\* Mutant: the choice itself is taken, without looking at the rejected options.
ChooseUnfiltered(options, rule) ==
    LET fitting == {i \in DOMAIN options : \/ <<options[i], rule.chosen>> \in Within
                                           \/ <<rule.chosen, options[i]>> \in Within} IN
    IF fitting = {} THEN "none" ELSE options[Min(fitting)]

Choose(options, rule) ==
    LET fitting == {i \in DOMAIN options : Fits(options[i], rule)} IN
    IF fitting = {} THEN "none" ELSE options[Min(fitting)]

Verdict(outcome, selected, confidence) ==
    [outcome |-> outcome, selected |-> selected, confidence |-> confidence]

Ask == Verdict("ask_user", "none", 5600)

HighRisk(q) == q.risk = "critical" \/ (q.risk = "high" /\ ~q.reversible)

RuleVerdict(res, q) ==
    LET selected == Choose(q.options, res.rule)
        confidence == Confidence(res, q) IN
    CASE res.kind = "Applicable" ->
            IF res.rule.chosen \in AskTexts THEN Verdict("ask_user", selected, confidence)
            ELSE IF selected # "none" THEN Verdict("proceed", selected, confidence)
            ELSE Verdict("ask_user", "none", confidence)
      [] res.kind = "OptionMismatch" -> Verdict("ask_user", "none", confidence)
      [] res.kind = "Ambiguous" -> Verdict("ask_user", "none", AtMost(6500, confidence))

\* Without a rule the gate never proceeds: the rest only chooses how to ask.
DefaultVerdict(q) ==
    IF "redundant" \in q.flags /\ "ambiguous" \notin q.flags
    THEN Verdict("no_action", "none", 8400) ELSE Ask

\* The branches of evaluate_with_context: what outranks every rule, the rule, the rest.
Evaluate(res, q) ==
    IF "empty" \in q.flags THEN Verdict("needs_more_context", "none", 2000)
    ELSE IF "secret" \in q.flags THEN Verdict("block", "none", 9900)
    ELSE IF "hardNo" \in q.flags THEN Verdict("block", "none", 9600)
    ELSE IF "privacyBoundary" \in q.flags \/ HighRisk(q) THEN Ask
    ELSE IF {"hook", "preToolUse"} \subseteq q.flags THEN Verdict("proceed", "none", 9500)
    ELSE IF "hook" \in q.flags THEN Verdict("no_action", "none", 9500)
    ELSE IF res.kind # "NoMatch" THEN RuleVerdict(res, q)
    ELSE DefaultVerdict(q)

\* Mutant: the threshold is applied only while autopilot is balanced.
ThresholdedIfBalanced(verdict, cfg) ==
    IF /\ verdict.outcome = "proceed" /\ verdict.confidence < cfg.threshold
       /\ cfg.autopilot = "balanced"
    THEN [verdict EXCEPT !.outcome = "ask_user"] ELSE verdict

Thresholded(verdict, cfg) ==
    IF verdict.outcome = "proceed" /\ verdict.confidence < cfg.threshold
    THEN [verdict EXCEPT !.outcome = "ask_user"] ELSE verdict

Predict(compiled, q, cfg) ==
    Thresholded(Evaluate(Resolve(compiled, q), q), cfg)

Shadow(cfg) == cfg.gateMode = "shadow" \/ cfg.autopilot = "shadow"
Stopped(q, cfg) ==
    q.override \/ cfg.autopilot = "disabled" \/ cfg.gateMode \in {"ask-always", "suggest-only"}

\* Mutant: shadow mode hides the outcome but still hands out the selected option.
EnforceShowingSelection(predicted, q, cfg) ==
    IF predicted.outcome = "proceed" /\ (Shadow(cfg) \/ Stopped(q, cfg))
    THEN [predicted EXCEPT !.outcome = "ask_user"] ELSE predicted

Enforce(predicted, q, cfg) ==
    IF Shadow(cfg) /\ predicted.outcome \in {"proceed", "ask_user"}
    THEN [predicted EXCEPT !.outcome = "ask_user", !.selected = "none"]
    ELSE IF Stopped(q, cfg) /\ predicted.outcome = "proceed"
    THEN [predicted EXCEPT !.outcome = "ask_user"]
    ELSE predicted

\* What the gate answers, and what it predicts beside it.
Answer(predicted, enforced) ==
    [outcome |-> enforced.outcome, selected |-> enforced.selected,
     predictedOutcome |-> predicted.outcome, predictedSelected |-> predicted.selected]

Decide(compiled, q, cfg) ==
    LET predicted == Predict(compiled, q, cfg)
    IN Answer(predicted, Enforce(predicted, q, cfg))

-----------------------------------------------------------------------------
\* autopilot_config and gate_mode_config: missing files read as shadow at 0.82.
Init ==
    /\ notes = [p \in Paths |-> NoNote]
    /\ rules = {}
    /\ config = [autopilot |-> "shadow", gateMode |-> "shadow", threshold |-> 8200]

WriteNote(p, note) ==
    /\ notes' = [notes EXCEPT ![p] = note]
    /\ UNCHANGED <<rules, config>>

\* rebuild fails before it replaces the index.
Rebuild ==
    /\ ~Compile(notes).failed
    /\ rules' = Compile(notes).rules
    /\ UNCHANGED <<notes, config>>

SetAutopilot(mode, threshold) ==
    /\ config' = [config EXCEPT !.autopilot = mode, !.threshold = threshold]
    /\ UNCHANGED <<notes, rules>>

SetGateMode(mode) ==
    /\ config' = [config EXCEPT !.gateMode = mode]
    /\ UNCHANGED <<notes, rules>>

\* apply writes a note and rebuilds; when the rebuild fails the old index stays.
Apply(p, note) ==
    /\ notes' = [notes EXCEPT ![p] = note]
    /\ rules' = IF Compile(notes').failed THEN rules ELSE Compile(notes').rules
    /\ UNCHANGED config

Learn == \E p \in Paths, note \in NoteShapes : Apply(p, note)

Next ==
    \/ Learn
    \/ \E p \in Paths, note \in NoteShapes \cup {NoNote} : WriteNote(p, note)
    \/ Rebuild
    \/ \E mode \in AutopilotModes, t \in Thresholds : SetAutopilot(mode, t)
    \/ \E mode \in GateModes : SetGateMode(mode)

Spec == Init /\ [][Next]_vars

-----------------------------------------------------------------------------
\* A rebuild fails exactly when a control policy is invalid, a control policy shares
\* its id with another executable note, or there are too many rules: which of two
\* notes comes first in path order makes no difference.
ControlsFailClosed ==
    LET executable == {p \in Present(notes) : Executable(notes[p])} IN
    Compile(notes).failed <=>
        \/ \E p \in Present(notes) \ executable : IsControl(notes[p])
        \/ \E p, o \in executable :
              p # o /\ notes[p].id = notes[o].id /\ IsControl(notes[p])
        \/ Cardinality({notes[p].id : p \in executable}) > MaxRules

\* What a resolution lets the gate do: take a choice, ask about one, or nothing.
Standing(res) ==
    IF res.kind = "Applicable" THEN Norm[res.rule.chosen]
    ELSE IF res.kind = "NoMatch" THEN "nothing" ELSE "ask"

\* Every rule that matches, resolved without staging and without limits.
Relevant(q) ==
    LET near == {r \in rules : InReach(r, q) /\ Score(r, q) >= MinRuleScore}
        exact == {r \in near : r.situation = q.situation}
        offered == {r \in exact : Available(q, r.chosen)} IN
    IF offered # {} THEN offered ELSE IF exact # {} THEN exact
    ELSE {r \in near : Available(q, r.chosen) \/ Score(r, q) >= MinMismatchScore}

\* The keyed lookups, the best row per choice and the bounded number of unavailable
\* choices find what a scan of all matching rules would.
StagedQueryAgrees ==
    \A q \in Requests :
        LET all == Relevant(q) IN
        Standing(Resolve(rules, q)) =
            Standing(ResolveCandidates(all, q, \E r \in all : r.situation = q.situation))

\* Shadow mode predicts what the same gate would do when enforced, and hands out
\* none of it.
ShadowPredictsEnforcement ==
    Shadow(config) =>
        \A q \in Requests :
            LET decided == Decide(rules, q, config)
                live == [config EXCEPT !.autopilot = "balanced", !.gateMode = "active"]
                enforced == Decide(rules, [q EXCEPT !.override = FALSE], live) IN
            /\ decided.outcome # "proceed" /\ decided.selected = "none"
            /\ decided.predictedOutcome = enforced.outcome
            /\ decided.predictedSelected = enforced.selected

Autonomy(mode) == CASE mode = "conservative" -> 1 [] mode = "balanced" -> 2 [] OTHER -> 0
NoBolder(a, b) ==
    /\ a.threshold >= b.threshold
    /\ Autonomy(a.autopilot) <= Autonomy(b.autopilot)
    /\ a.gateMode = "active" => b.gateMode = "active"

\* Under a more cautious configuration the gate proceeds with nothing that it would
\* not proceed with, in the same way, under a bolder one.
CautionIsMonotonic ==
    \A mode \in AutopilotModes, t \in Thresholds :
        LET bolder == [autopilot |-> mode, gateMode |-> "active", threshold |-> t] IN
        NoBolder(config, bolder) =>
            \A q \in Requests :
                Decide(rules, q, config).outcome = "proceed" =>
                    Decide(rules, q, bolder) = Decide(rules, q, config)

\* A gate that proceeds was asked by a host hook about a tool call, or takes an offered
\* option that no rule it follows has rejected and that an active rule in its type and
\* scope has learned.
ProceedsOnLearnedOption ==
    \A q \in Requests :
        LET decided == Decide(rules, q, config) IN
        decided.outcome = "proceed" =>
            \/ {"hook", "preToolUse"} \subseteq q.flags
            \/ /\ decided.selected \in Options(q)
               /\ \E r \in rules : InReach(r, q) /\ Fits(decided.selected, r)

\* option_order_and_repeated_evaluation_do_not_change_substantive_results: the order of
\* the options of a request changes nothing the gate answers.
OptionOrderIsIrrelevant ==
    \A q \in Requests :
        Decide(rules, [q EXCEPT !.options = Reverse(@)], config) = Decide(rules, q, config)
=============================================================================
