---------------------------- MODULE MCDecisionGate ----------------------------
(***************************************************************************)
(* DecisionGate in three parts, of which a behaviour takes one:            *)
(*   "controls"  every order of files with valid and invalid controls;     *)
(*   "rules"     every index of up to three rules that conflict;           *)
(*   "gate"      two rules, every configuration, a request for each branch.*)
(***************************************************************************)
EXTENDS DecisionGate

CONSTANT Parts

VARIABLE part

all == <<part, vars>>

\* "cluster" (a redis cluster) contains "redis".
Names == {"redis", "cluster", "sqlite"}
Exactly == [t \in Names |-> t]
Alphabet == [t \in Names |-> CASE t = "cluster" -> 1 [] t = "redis" -> 2 [] OTHER -> 3]
Contained == {<<t, t>> : t \in Names} \cup {<<"redis", "cluster">>}

\* q is asked; "same" has its words in another order, "near" and "far" share 13 of 14
\* and 11 of 13 of them.  No two scores differ by exactly the margin.
Asked == {"q", "same", "near", "far"}
WithQ == [s \in Asked |->
             CASE s = "near" -> 93 [] s = "far" -> 85 [] OTHER -> 100]
Alike == [p \in Asked \X Asked |->
                IF p[1] = p[2] THEN 100 ELSE IF "q" \in {p[1], p[2]}
                THEN (IF p[1] = "q" THEN WithQ[p[2]] ELSE WithQ[p[1]]) ELSE 0]

NoteOf(id, kind, situation, chosen) ==
    [id |-> id, kind |-> kind, wellFormed |-> TRUE, active |-> TRUE, situation |-> situation,
     type |-> "general", scope |-> "global", chosen |-> chosen, rejected |-> {},
     base |-> 70, evidence |-> 1]

\* Rules that conflict in every way; one that rejects, one retired, one malformed.
RuleShapes ==
    {NoteOf("a", "decision-example", s, c) : s \in Asked, c \in Names}
        \cup {NoteOf("b", "corrected-decision", s, c) : s \in {"q", "near"}, c \in {"redis", "sqlite"}}
        \cup {NoteOf("c", "decision-example", s, c) : s \in {"q", "near"}, c \in {"redis", "sqlite"}}
        \cup {[NoteOf("b", "decision-example", "q", "redis") EXCEPT !.rejected = {"cluster"}],
              [NoteOf("c", "decision-example", "near", "redis") EXCEPT !.scope = "s"],
              [NoteOf("c", "decision-example", "q", "sqlite") EXCEPT !.type = "t"],
              [NoteOf("c", "decision-example", "q", "sqlite") EXCEPT !.active = FALSE]}

RequestOf(options) ==
    [flags |-> {}, risk |-> "low", reversible |-> TRUE, situation |-> "q", type |-> "t",
     scope |-> "s", options |-> options, override |-> FALSE]
RuleRequests ==
    {RequestOf(o) : o \in {<<>>, <<"redis">>, <<"sqlite">>, <<"redis", "sqlite">>,
                           <<"cluster", "redis">>, <<"redis", "cluster", "sqlite">>}}

\* Controls and duplicates of ids, in every order of three files, and a rule too many.
ControlShapes ==
    {[NoteOf(i, k, "q", "redis") EXCEPT !.wellFormed = w] :
        i \in {"a", "b"}, k \in {"decision-policy", "decision-example"}, w \in BOOLEAN}
        \cup {NoteOf("c", k, "q", "sqlite") : k \in {"decision-example", "unsupported"}}
Fourth == NoteOf("d", "decision-example", "q", "sqlite")

\* Two files of rules, one of which may become a control that does not compile, and a request
\* for each branch of the gate.
GateShapes ==
    {NoteOf("a", "decision-example", "q", "redis"),
     [NoteOf("b", "decision-example", "near", "redis") EXCEPT !.rejected = {"cluster"}],
     [NoteOf("b", "decision-policy", "q", "redis") EXCEPT !.wellFormed = FALSE]}
Found == {"empty", "secret", "hardNo", "privacyBoundary", "ambiguous", "redundant"}
GateFlags ==
    {{}} \cup {{f} : f \in Found \cup {"hook"}} \cup {{"hook", "preToolUse"}}
        \cup {{f, "hook", "preToolUse"} : f \in {"secret", "hardNo", "privacyBoundary"}}
RiskOf(k, v, d) == [risk |-> k, reversible |-> v, override |-> d]
GateRequests ==
    {[RequestOf(o) EXCEPT !.flags = f] :
        o \in {<<"redis", "sqlite">>, <<"cluster", "redis">>}, f \in GateFlags}
    \cup {[RequestOf(<<"cluster", "redis">>) EXCEPT !.flags = f, !.risk = r.risk,
                                                    !.reversible = r.reversible,
                                                    !.override = r.override] :
             f \in {{}, {"redundant"}, {"hook", "preToolUse"}},
             r \in {RiskOf("high", TRUE, FALSE), RiskOf("high", FALSE, FALSE),
                   RiskOf("critical", TRUE, FALSE), RiskOf("low", TRUE, TRUE),
                   RiskOf("high", FALSE, TRUE)}}

ShapesOf(p, path) ==
    CASE p = "controls" -> IF path = 4 THEN {Fourth} ELSE ControlShapes
      [] p = "rules" -> IF path = 4 THEN {} ELSE RuleShapes
      [] p = "gate" -> IF path <= 2 THEN GateShapes ELSE {}

AllShapes == ControlShapes \cup {Fourth} \cup RuleShapes \cup GateShapes
AllRequests == RuleRequests \cup GateRequests

ASSUME GateConstants

AnyInit == part \in Parts /\ Init

\* Resolution depends neither on the configuration nor on notes that are not compiled yet, and
\* compilation on nothing but notes.
AnyNext ==
    /\ \/ part = "controls" /\ \E p \in Paths, note \in NoteShapes : WriteNote(p, note)
       \/ part = "rules" /\ Learn
       \/ part = "gate" /\ Next
    /\ \A p \in Paths : notes'[p] \in {NoNote} \cup ShapesOf(part, p)
    /\ UNCHANGED part

AnySpec == AnyInit /\ [][AnyNext]_all
=============================================================================
