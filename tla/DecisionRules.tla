---------------------------- MODULE DecisionRules ----------------------------
(***************************************************************************)
(* How notes become decision rules (index.rs, rebuild) and how a request   *)
(* finds its rule (index.rs, resolve_decision_rule).                       *)
(*                                                                         *)
(* A text is a member of Texts: Norm is normalize_decision_text, Within    *)
(* the substring relation of lower-cased texts, Order the binary order of  *)
(* normalized texts.  Similar is decision_rule_score in percent, 0 where   *)
(* the code returns None.  Paths are numbered in the order load_notes      *)
(* sorts them.                                                             *)
(***************************************************************************)
EXTENDS Integers, FiniteSets, SequencesExt

CONSTANTS NumPaths, Ids, Situations, Similar, Texts, Norm, Within, Order,
          Types, Scopes,   \* beside "general" and "global"
          MaxRules,        \* MAX_DECISION_RULES
          MaxUnavailable   \* MAX_DECISION_UNAVAILABLE_CHOICES

Paths == 1..NumPaths

\* What an instance has to assume.
RuleConstants ==
    /\ NumPaths \in Nat /\ "none" \notin Ids
    /\ Similar \in [Situations \X Situations -> 0..100]
    /\ \A s \in Situations : Similar[<<s, s>>] = 100
    /\ Norm \in [Texts -> Texts]
    /\ Order \in [Texts -> Nat]
    /\ Within \subseteq Texts \X Texts
    /\ \A t \in Texts : <<t, t>> \in Within
    /\ "general" \notin Types /\ "global" \notin Scopes
    /\ MaxRules \in Nat /\ MaxUnavailable \in Nat \ {0}

MinRuleScore == 75       \* MIN_DECISION_RULE_SCORE
MinMismatchScore == 90   \* MIN_DECISION_OPTION_MISMATCH_SCORE
AmbiguousMargin == 10    \* MAX_AMBIGUOUS_MATCH_MARGIN

-----------------------------------------------------------------------------
Kinds == {"corrected-decision", "decision-policy", "decision-example", "unsupported"}
Priority(kind) ==
    CASE kind = "corrected-decision" -> 300
      [] kind = "decision-policy" -> 200
      [] OTHER -> 100
IsControl(note) == note.kind = "decision-policy"

\* A note with a rule marker; wellFormed: marker, frontmatter and metadata parse.
Note == [id: Ids, kind: Kinds, wellFormed: BOOLEAN, active: BOOLEAN, situation: Situations,
         type: Types \cup {"general"}, scope: Scopes \cup {"global"}, chosen: Texts,
         rejected: SUBSET Texts, base: {55, 70, 90}, evidence: Nat]
NoNote == [id |-> "none"]

\* eq_ignore_ascii_case
SameText(a, b) == <<a, b>> \in Within /\ <<b, a>> \in Within

\* validate_decision_rule and validate_executable_note
Executable(note) ==
    /\ note.wellFormed
    /\ note.kind # "unsupported"
    /\ ~\E t \in note.rejected : SameText(t, note.chosen)

Compiled(path, note) ==
    [path |-> path, id |-> note.id, control |-> IsControl(note), active |-> note.active,
     situation |-> note.situation, type |-> note.type, scope |-> note.scope,
     chosen |-> note.chosen, rejected |-> note.rejected,
     priority |-> Priority(note.kind), base |-> note.base, evidence |-> note.evidence]

\* Mutant: only the note met second is asked whether it is a control.
CompileNoteSecondOnly(compilation, entry) ==
    LET note == entry.note
        twins == {r \in compilation.rules : r.id = note.id} IN
    IF ~Executable(note) THEN [compilation EXCEPT !.failed = @ \/ IsControl(note)]
    ELSE IF twins # {} THEN [compilation EXCEPT !.failed = @ \/ IsControl(note)]
    ELSE [failed |-> compilation.failed \/ Cardinality(compilation.rules) >= MaxRules,
          rules |-> compilation.rules \cup {Compiled(entry.path, note)}]

\* One note of the loop in rebuild: an invalid or duplicate rule is excluded, unless
\* a control policy is involved, which fails the rebuild.
CompileNote(compilation, entry) ==
    LET note == entry.note
        twins == {r \in compilation.rules : r.id = note.id} IN
    IF ~Executable(note) THEN [compilation EXCEPT !.failed = @ \/ IsControl(note)]
    ELSE IF twins # {} THEN
        [compilation EXCEPT !.failed = @ \/ IsControl(note) \/ \E r \in twins : r.control]
    ELSE [failed |-> compilation.failed \/ Cardinality(compilation.rules) >= MaxRules,
          rules |-> compilation.rules \cup {Compiled(entry.path, note)}]

Present(notes) == {p \in Paths : notes[p] # NoNote}

Compile(notes) ==
    LET upTo[p \in 0..NumPaths] ==
            IF p = 0 THEN [failed |-> FALSE, rules |-> {}]
            ELSE IF p \in Present(notes)
            THEN CompileNote(upTo[p - 1], [path |-> p, note |-> notes[p]])
            ELSE upTo[p - 1]
    IN upTo[NumPaths]

-----------------------------------------------------------------------------
\* A request names a situation, a type, a scope and its options in order.

Options(q) == {q.options[i] : i \in DOMAIN q.options}
Available(q, text) == \E o \in Options(q) : Norm[o] = Norm[text]
ScopeExact(r, q) == IF r.scope = q.scope THEN 1 ELSE 0
TypeExact(r, q) == IF r.type = q.type THEN 1 ELSE 0
Choosable(r, q) == IF Available(q, r.chosen) THEN 1 ELSE 0

InReach(r, q) ==
    /\ r.active
    /\ r.type \in {q.type, "general"}
    /\ r.scope \in {q.scope, "global"}

Score(r, q) == Similar[<<r.situation, q.situation>>]

Beats(a, b) ==
    \E i \in DOMAIN a : a[i] > b[i] /\ \A j \in 1..(i - 1) : a[j] = b[j]

\* The member of S with the greatest key; keys end in the path, so they are distinct.
Best(S, key) == CHOOSE r \in S : \A s \in S \ {r} : Beats(key[r], key[s])
ChoicesOf(S) == {Norm[r.chosen] : r \in S}
BestPerChoice(S, key) ==
    {Best({r \in S : Norm[r.chosen] = c}, key) : c \in ChoicesOf(S)}

\* One row per available option, or else the row of one unavailable choice.
ExactCandidates(rules, q) ==
    LET exact == {r \in rules : InReach(r, q) /\ r.situation = q.situation}
        offered == {r \in exact : Available(q, r.chosen)}
        rowKey == [r \in exact |-> <<ScopeExact(r, q), TypeExact(r, q), r.priority, r.path>>]
        choiceKey == [r \in exact |-> <<ScopeExact(r, q), TypeExact(r, q),
                                       -Order[Norm[r.chosen]], r.path>>]
    IN IF offered # {} THEN BestPerChoice(offered, rowKey)
       ELSE IF exact = {} THEN {}
       ELSE LET choice == Norm[Best(exact, choiceKey).chosen] IN
            {Best({r \in exact : Norm[r.chosen] = choice}, rowKey)}

\* Mutant: the limit on unavailable choices is applied before they are ranked.
UnrankedFirst(S, n, key) == {r \in S : Cardinality({s \in S : s.path < r.path}) < n}

\* The n greatest of S.
Top(S, n, key) == {r \in S : Cardinality({s \in S : Beats(key[s], key[r])}) < n}

FuzzyCandidates(rules, q) ==
    LET eligible == {r \in rules : InReach(r, q) /\ Score(r, q) >= MinRuleScore}
        rowKey == [r \in eligible |->
            <<Score(r, q), ScopeExact(r, q), TypeExact(r, q), r.priority, r.path>>]
        choiceKey == [r \in eligible |->
            <<Score(r, q), ScopeExact(r, q), TypeExact(r, q), r.priority,
              -Order[Norm[r.chosen]], r.path>>]
        best == BestPerChoice(eligible, rowKey)
        offered == {r \in best : Available(q, r.chosen)}
        others == {r \in best \ offered : Score(r, q) >= MinMismatchScore}
    IN offered \cup Top(others, MaxUnavailable, choiceKey)

-----------------------------------------------------------------------------
\* resolve_candidates

ResolutionKey(r, q) ==
    <<Score(r, q), ScopeExact(r, q), TypeExact(r, q), Choosable(r, q), r.priority, r.path>>

EquallyRelevant(a, b, q) ==
    /\ Score(a, q) - Score(b, q) < AmbiguousMargin
    /\ a.priority = b.priority
    /\ ScopeExact(a, q) = ScopeExact(b, q)
    /\ TypeExact(a, q) = TypeExact(b, q)
    /\ Choosable(a, q) = Choosable(b, q)

NoMatch == [kind |-> "NoMatch"]
Resolution(kind, rule, margin, exact) ==
    [kind |-> kind, rule |-> rule, margin |-> margin, exact |-> exact]

ResolveCandidates(S, q, exact) ==
    IF S = {} THEN NoMatch
    ELSE
    LET best == Best(S, [r \in S |-> ResolutionKey(r, q)])
        rivals == {r \in S : Norm[r.chosen] # Norm[best.chosen]}
        rival == Best(rivals, [r \in rivals |-> ResolutionKey(r, q)])
        margin == IF rivals = {} THEN 0 ELSE Score(best, q) - Score(rival, q)
    IN IF rivals # {} /\ EquallyRelevant(best, rival, q)
       THEN Resolution("Ambiguous", best, margin, exact)
       ELSE IF Available(q, best.chosen) THEN Resolution("Applicable", best, margin, exact)
       ELSE IF exact \/ Score(best, q) >= MinMismatchScore
            THEN Resolution("OptionMismatch", best, margin, exact)
       ELSE NoMatch

\* resolve_decision_rule: the exact lookup, and the fuzzy one only when it is empty.
Resolve(rules, q) ==
    LET exact == ExactCandidates(rules, q) IN
    IF exact # {} THEN ResolveCandidates(exact, q, TRUE)
    ELSE ResolveCandidates(FuzzyCandidates(rules, q), q, FALSE)
=============================================================================
