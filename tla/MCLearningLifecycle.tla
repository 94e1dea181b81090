------------------------ MODULE MCLearningLifecycle ------------------------
EXTENDS LearningLifecycle
CONSTANTS p1, p2, c1, c2

\* A rule the user gave by hand, a correction that is no decision signal, one that does
\* not validate.
Written == {[source |-> "decision", rule |-> "valid", signal |-> TRUE],
            [source |-> "feedback", rule |-> "valid", signal |-> FALSE],
            [source |-> "feedback", rule |-> "invalid", signal |-> FALSE]}
Everything == [source: Sources, rule: {"valid", "none"}, signal: BOOLEAN]

-----------------------------------------------------------------------------
\* The operator rebuilds again and again, and a started command goes on.
FairSpec ==
    /\ Spec
    /\ \A x \in Procs : WF_vars(Step(x))
    /\ SF_vars(\E x \in Procs : RebuildCommand(x))

\* A packet marked applied reaches an index that status calls valid, even if the apply that
\* marked it was killed or refused before its rebuild, or a rebuild between the database and
\* its manifest (apply, rebuild, index.rs status).
AppliedRulesReachTheIndex ==
    \A p \in Ids :
        packet[p].place = "applied" ~> (p \in db /\ StatusValid) \/ p \notin notes

-----------------------------------------------------------------------------
\* "archived {} knowledge-like import note(s)", "knowledge-like AgentMemory import"
\* (learning.rs, prune_imports): the notes archived are imports.
OnlyImportsAreArchived ==
    \A p \in archived : packet[p].content.source = "agentmemory"

-----------------------------------------------------------------------------
\* A feedback that never reported its correction leaves nothing that is applied.  The code
\* does not keep this one: neither a kill nor a removal that fails takes the packet back.
UnreportedFeedbackIsNotApplied ==
    \A p \in notes : packet[p].content.source = "feedback" => p \in acked
=============================================================================
