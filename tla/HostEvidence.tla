----------------------------- MODULE HostEvidence -----------------------------
(***************************************************************************)
(* The evidence of a session with a real host.  An assistant talks to      *)
(* brainmap over MCP: it asks the gate, records what the user chose, sends *)
(* a correction, previews and applies its packet, and asks again.  The     *)
(* finalizer (scripts/m8-codex-fia5.sh) reads the calls from the thread of *)
(* the session and the events from the ledger, dies unless both are those  *)
(* of one correction that was learned, and writes documents that hold      *)
(* three identifiers of the session and literals.  The verifier            *)
(* (qualification.rs, validate_host and what it calls) has only these.     *)
(*                                                                         *)
(* The assistant may call anything, the user may refuse a call, and other  *)
(* processes may write to the ledger, also while the finalizer works.      *)
(***************************************************************************)
EXTENDS Naturals, Sequences, FiniteSets

CONSTANTS Decisions, Packets, Unset,
          Earlier,              \* a decision of before, with a packet that waits
          Waiting,
          MaxCalls, MaxTurns,   \* calls, and messages of the user: bounds
          MaxSlips              \* calls that are not as directed and entries of other processes
                                \* together: a bound

VARIABLES setting,   \* whether the host is the pinned one, and whether its hooks run
          calls,     \* the thread: the calls in order, each with whether the user spoke before it
          entries,   \* the ledger since the session began
          final      \* what the finalizer has read

hostVars == <<setting, calls, entries, final>>

-----------------------------------------------------------------------------
CallOrder == <<"gate", "record", "feedback", "preview", "apply", "gate", "record">>
Tools(s) == [i \in 1..Len(s) |-> s[i].tool]

Call(said, tool, question, d, p, outcome, chosen) ==
    [said |-> said, tool |-> tool, question |-> question, decision |-> d, packet |-> p,
     outcome |-> outcome, chosen |-> chosen]

\* Mutant: the packet that is applied is not compared with the one of the correction.
ProvesWithAnyPacket(s, i) ==
    /\ s[i].tool = CallOrder[i] /\ s[i].outcome # "denied"
    /\ i = 1 => /\ s[i].said /\ s[i].question = "formatter"
                /\ s[i].outcome = "ask_user" /\ s[i].chosen = Unset
    /\ i = 2 => /\ s[i].said /\ s[i].decision = s[1].decision
                /\ s[i].chosen = "biome" /\ s[i].outcome = "asked"
    /\ i = 3 => s[i].decision = s[1].decision /\ s[i].chosen = "prettier"
    /\ i = 4 => s[i].packet = s[3].packet /\ s[i].chosen = "prettier"
    /\ i = 6 => /\ s[i].question = "formatter" /\ s[i].decision # s[1].decision
                /\ s[i].outcome = "proceed" /\ s[i].chosen = "prettier"
    /\ i = 7 => /\ ~s[i].said /\ s[i].decision = s[6].decision
                /\ s[i].chosen = "prettier" /\ s[i].outcome = "told"

\* The i-th call is the one it has to be, given those before it.
Proves(s, i) ==
    /\ s[i].tool = CallOrder[i] /\ s[i].outcome # "denied"
    /\ i = 1 => /\ s[i].said /\ s[i].question = "formatter"
                /\ s[i].outcome = "ask_user" /\ s[i].chosen = Unset
    /\ i = 2 => /\ s[i].said /\ s[i].decision = s[1].decision
                /\ s[i].chosen = "biome" /\ s[i].outcome = "asked"
    /\ i = 3 => s[i].decision = s[1].decision /\ s[i].chosen = "prettier"
    /\ i = 4 => s[i].packet = s[3].packet /\ s[i].chosen = "prettier"
    /\ i = 5 => s[i].packet = s[3].packet
    /\ i = 6 => /\ s[i].question = "formatter" /\ s[i].decision # s[1].decision
                /\ s[i].outcome = "proceed" /\ s[i].chosen = "prettier"
    /\ i = 7 => /\ ~s[i].said /\ s[i].decision = s[6].decision
                /\ s[i].chosen = "prettier" /\ s[i].outcome = "told"

CallsProve(s) == Len(s) = Len(CallOrder) /\ \A i \in 1..Len(s) : Proves(s, i)

-----------------------------------------------------------------------------
\* The session.

Of(s, tool) == {i \in 1..Len(s) : s[i].tool = tool /\ s[i].outcome # "denied"}
Asked(s) == {Earlier} \cup {s[i].decision : i \in Of(s, "gate")}
Created(s) == {Waiting} \cup {s[i].packet : i \in Of(s, "feedback")}
Applied(s) == {s[i].packet : i \in Of(s, "apply")}
Teaches(s, p) == {s[i].chosen : i \in {j \in Of(s, "feedback") : s[j].packet = p}}
                     \cup IF p = Waiting THEN {"prettier"} ELSE {}

Foreigners == {i \in 1..Len(entries) : entries[i].by = 0 /\ entries[i].what.tool # "hook"}
Slips(s) == Cardinality({i \in 1..Len(s) : i > Len(CallOrder) \/ ~Proves(s, i)})
                + Cardinality(Foreigners)
Turns(s) == {i \in 1..Len(s) : s[i].said}

Entry(n, c) == [by |-> n, what |-> c]
Hook == Call(TRUE, "hook", Unset, Unset, Unset, "ask_user", Unset)

\* A message of the user runs the hook, which asks the gate; then the call leaves its own entry.
Calls(c, written) ==
    LET s == Append(calls, c)
        hook == IF c.said /\ setting.hooks THEN <<Entry(0, Hook)>> ELSE <<>>
        own == IF written THEN <<Entry(Len(s), c)>> ELSE <<>>
    IN /\ Len(s) <= MaxCalls /\ Slips(s) <= MaxSlips
       /\ Cardinality(Turns(s)) <= MaxTurns
       /\ calls' = s /\ entries' = entries \o hook \o own
       /\ UNCHANGED <<setting, final>>

Denied(said, tool) == Calls(Call(said, tool, Unset, Unset, Unset, "denied", Unset), FALSE)

\* A gate proceeds with what it was taught, or has nothing to go by.
Gate(said) ==
    \E d \in Decisions \ Asked(calls), question \in {"formatter", "other"} :
        \/ Calls(Call(said, "gate", question, d, Unset, "ask_user", Unset), TRUE)
        \/ \E p \in Applied(calls) : \E option \in Teaches(calls, p) :
              Calls(Call(said, "gate", question, d, Unset, "proceed", option), TRUE)

Record(said) ==
    \E d \in Asked(calls), chosen \in {"biome", "prettier"}, outcome \in {"asked", "told"} :
        Calls(Call(said, "record", Unset, d, Unset, outcome, chosen), TRUE)

Feedback(said) ==
    \E d \in Asked(calls), p \in Packets \ Created(calls), chosen \in {"biome", "prettier"} :
        Calls(Call(said, "feedback", Unset, d, p, "created", chosen), TRUE)

Preview(said) ==
    \E p \in Created(calls) \ Applied(calls) : \E option \in Teaches(calls, p) :
        Calls(Call(said, "preview", Unset, Unset, p, "shown", option), FALSE)

Apply(said) ==
    \E p \in Created(calls) \ Applied(calls) :
        Calls(Call(said, "apply", Unset, Unset, p, "applied", Unset), FALSE)

\* Another process decides in the same vault, or records or corrects what anybody decided.
Foreign ==
    /\ Slips(calls) < MaxSlips
    /\ \E d \in Asked(calls) :
        \E c \in {Call(FALSE, "gate", "formatter", Earlier, Unset, "proceed", "prettier"),
                  Call(FALSE, "gate", "other", Earlier, Unset, "ask_user", Unset),
                  Call(FALSE, "record", Unset, d, Unset, "asked", "biome"),
                  Call(FALSE, "feedback", Unset, d, Waiting, "created", "prettier")} :
            entries' = Append(entries, Entry(0, c))
    /\ UNCHANGED <<setting, calls, final>>

-----------------------------------------------------------------------------
\* The finalizer.

Kind(e, tool) == {i \in 1..Len(e) : e[i].what.tool = tool}
Gates(e) == {i \in Kind(e, "gate") : e[i].what.question = "formatter"}

\* What is taken from the calls: the two decisions and the packet.
Summary(s) == [first |-> s[1].decision, second |-> s[6].decision, packet |-> s[3].packet]

\* The ledger since the session began: hooks, and two decisions about the formatter, the first
\* recorded and corrected before the second.
Correlates(e, sum) ==
    \E g, h \in Gates(e), a, b \in Kind(e, "record"), f \in Kind(e, "feedback") :
        /\ g < a /\ a < f /\ f < h /\ h < b
        /\ Gates(e) = {g, h} /\ Kind(e, "record") = {a, b} /\ Kind(e, "feedback") = {f}
        /\ Kind(e, "hook") # {}
        /\ 1..Len(e) = {g, a, f, h, b} \cup Kind(e, "hook")
        /\ e[g].what.decision = sum.first /\ e[g].what.outcome = "ask_user"
        /\ e[a].what.decision = sum.first /\ e[a].what.chosen = "biome"
        /\ e[a].what.outcome = "asked"
        /\ e[f].what.decision = sum.first /\ e[f].what.packet = sum.packet
        /\ e[f].what.chosen = "prettier"
        /\ e[h].what.decision = sum.second /\ e[h].what.outcome = "proceed"
        /\ e[h].what.chosen = "prettier"
        /\ e[b].what.decision = sum.second /\ e[b].what.chosen = "prettier"
        /\ e[b].what.outcome = "told"

Open == [pc |-> "open", calls |-> <<>>, entries |-> <<>>]

\* Whatever is not as it must be ends the finalizer, and it can be run again.
ReadCalls ==
    /\ final.pc = "open" /\ CallsProve(calls)
    /\ final' = [pc |-> "calls", calls |-> calls, entries |-> <<>>]
    /\ UNCHANGED <<setting, calls, entries>>

ReadLedger ==
    /\ final.pc = "calls"
    /\ final' = IF Correlates(entries, Summary(final.calls))
                THEN [pc |-> "ledger", calls |-> final.calls, entries |-> entries] ELSE Open
    /\ UNCHANGED <<setting, calls, entries>>

\* Both are read once more before the documents are published.
ReadLedgerAgain ==
    /\ final.pc = "ledger"
    /\ final' = IF entries = final.entries THEN [final EXCEPT !.pc = "again"] ELSE Open
    /\ UNCHANGED <<setting, calls, entries>>

ReadCallsAgain ==
    /\ final.pc = "again"
    /\ final' = IF CallsProve(calls) /\ Summary(calls) = Summary(final.calls)
                THEN [final EXCEPT !.pc = "published"] ELSE Open
    /\ UNCHANGED <<setting, calls, entries>>

\* The documents: what is not taken from the session is literal.
Observation(s, e) ==
    [eligible |-> setting.eligible,
     order |-> Tools(s),
     first |-> [decision |-> s[1].decision, outcome |-> s[1].outcome, selected |-> s[1].chosen,
                chosen |-> "biome", asked |-> TRUE],
     packet |-> s[3].packet, previewed |-> TRUE, approved |-> TRUE,
     second |-> [decision |-> s[6].decision, outcome |-> s[6].outcome, selected |-> s[6].chosen,
                 changed |-> s[1].outcome # s[6].outcome \/ s[1].chosen # s[6].chosen,
                 chosen |-> "prettier", asked |-> FALSE],
     hooks |-> Kind(e, "hook"), correlated |-> 5, total |-> Len(e)]

EventKinds ==
    <<"installer-dry-run", "installed", "doctor-healthy", "host-launched", "initial-gate",
      "initial-outcome-followed", "initial-action-recorded", "feedback-created",
      "preview-observed", "update-approved", "changed-outcome-followed",
      "changed-action-recorded">>

Event(i, d, p, changed, outcome, selected) ==
    [sequence |-> i, kind |-> EventKinds[i], success |-> TRUE, decision |-> d, packet |-> p,
     changed |-> changed, outcome |-> outcome, selected |-> selected]

Events(sum) ==
    [i \in 1..12 |->
        Event(i, IF i < 5 THEN Unset ELSE IF i < 11 THEN sum.first ELSE sum.second,
              IF i < 8 THEN Unset ELSE sum.packet,
              IF i = 11 THEN TRUE ELSE Unset,
              IF i = 11 THEN "proceed" ELSE Unset, IF i = 11 THEN "prettier" ELSE Unset)]

-----------------------------------------------------------------------------
\* The verifier.

CallsValid(o) ==
    /\ o.order = CallOrder
    /\ o.first.decision \in Decisions /\ o.second.decision \in Decisions \ {o.first.decision}
    /\ o.first.outcome = "ask_user" /\ o.first.selected = Unset
    /\ o.first.chosen = "biome" /\ o.first.asked
    /\ o.packet \in Packets /\ o.previewed /\ o.approved
    /\ o.second.outcome = "proceed" /\ o.second.selected = "prettier" /\ o.second.changed
    /\ o.second.chosen = "prettier" /\ ~o.second.asked

LedgerValid(o) == o.hooks # {} /\ o.correlated = 5 /\ o.total >= 6

SequenceValid(e) ==
    /\ Len(e) = Len(EventKinds)
    /\ \A i \in 1..Len(e) : e[i].sequence = i /\ e[i].kind = EventKinds[i] /\ e[i].success
    /\ \A i \in 1..4 : /\ e[i].decision = Unset /\ e[i].packet = Unset /\ e[i].changed = Unset
                       /\ e[i].outcome = Unset /\ e[i].selected = Unset

DecisionsCorrelate(e) ==
    /\ e[5].decision \in Decisions
    /\ \A i \in 5..10 : e[i].decision = e[5].decision
    /\ e[11].decision \in Decisions
    /\ e[11].decision # e[5].decision /\ e[12].decision = e[11].decision

PacketsCorrelate(e) ==
    /\ \A i \in 5..7 : e[i].packet = Unset /\ e[i].changed = Unset
    /\ e[8].packet \in Packets
    /\ \A i \in 8..12 : e[i].packet = e[8].packet

ChangeFollowsApproval(e) ==
    /\ \A i \in 8..10 : e[i].changed = Unset
    /\ e[11].changed = TRUE
    /\ e[11].outcome = "proceed" /\ e[11].selected = "prettier"
    /\ e[12].changed = Unset /\ e[12].outcome = Unset /\ e[12].selected = Unset

EventsMatch(e, o) ==
    /\ e[5].decision = o.first.decision
    /\ e[11].decision = o.second.decision
    /\ e[8].packet = o.packet

EventsValid(e, o) ==
    /\ SequenceValid(e) /\ DecisionsCorrelate(e) /\ PacketsCorrelate(e)
    /\ ChangeFollowsApproval(e) /\ EventsMatch(e, o)

HostQualifies(o, e) == o.eligible /\ CallsValid(o) /\ LedgerValid(o) /\ EventsValid(e, o)

-----------------------------------------------------------------------------
HostInit ==
    /\ setting \in [eligible : BOOLEAN, hooks : BOOLEAN]
    /\ calls = <<>> /\ entries = <<>> /\ final = Open

Session ==
    \E said \in BOOLEAN :
        \/ Gate(said) \/ Record(said) \/ Feedback(said) \/ Preview(said) \/ Apply(said)
        \/ \E tool \in {"gate", "record", "feedback", "preview", "apply"} : Denied(said, tool)

Finalize == ReadCalls \/ ReadLedger \/ ReadLedgerAgain \/ ReadCallsAgain

HostNext == Session \/ Foreign \/ Finalize

HostSpec == HostInit /\ [][HostNext]_hostVars

-----------------------------------------------------------------------------
After(s, i, tool) == {j \in (i + 1)..Len(s) : s[j].tool = tool}

\* The gate asked, the user chose, one correction of that very decision was previewed and then
\* applied, and a later decision went its way without asking.
Learned(s) ==
    \E g \in After(s, 0, "gate") :
        /\ s[g].outcome = "ask_user"
        /\ \E r \in After(s, g, "record") :
            /\ s[r].said /\ s[r].decision = s[g].decision /\ s[r].chosen = "biome"
            /\ \E f \in After(s, r, "feedback") :
                /\ s[f].decision = s[g].decision
                /\ \E v \in After(s, f, "preview"), a \in After(s, f, "apply") :
                    /\ v < a /\ s[v].packet = s[f].packet /\ s[a].packet = s[f].packet
                    /\ s[v].outcome = "shown" /\ s[a].outcome = "applied"
                    /\ \E h \in After(s, a, "gate") :
                        /\ s[h].outcome = "proceed" /\ s[h].chosen = s[f].chosen
                        /\ \E k \in After(s, h, "record") :
                            s[k].decision = s[h].decision /\ ~s[k].said /\ s[k].chosen = s[h].chosen

\* Host evidence is published only of a session in which the correction of one decision changed
\* the next, and in whose ledger nobody else decided, recorded or corrected, whatever was called
\* or written while the finalizer read the two; and the verifier accepts what is published
\* exactly when the host was the pinned one (query_brainmap_calls, validate_ledger_correlation,
\* validate_host): the documents themselves no longer tell, they hold literals.
EvidenceMeansLearned ==
    final.pc = "published" =>
        /\ Learned(final.calls)
        /\ \A i \in 1..Len(final.entries) :
              final.entries[i].what.tool # "hook" => final.entries[i].by # 0
        /\ HostQualifies(Observation(final.calls, final.entries), Events(Summary(final.calls)))
              <=> setting.eligible
=============================================================================
