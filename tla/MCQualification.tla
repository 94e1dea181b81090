---------------------------- MODULE MCQualification ----------------------------
(***************************************************************************)
(* The evidence that qualifies a candidate: six parts, of which a          *)
(* behaviour takes one:                                                    *)
(*   "host"                 HostEvidence, a session and its finalizer;     *)
(*   "commands", "workers"  RunnerEvidence, one part of a run;             *)
(*   "bundle"   QualificationBundle, the source is put together anew;      *)
(*   "swaps"    the same, and others change the destination;               *)
(*   "copies"   the same, with two copiers.                                *)
(***************************************************************************)
EXTENDS HostEvidence, RunnerEvidence, QualificationBundle

CONSTANT Parts

VARIABLE part

bundle == vars
all == <<part, hostVars, runnerVars, bundle>>

Build(c, n) == [candidate |-> c, no |-> n, identical |-> TRUE]
Attempt(b, n) == [build |-> b, no |-> n, passed |-> TRUE]
Sitting(c, n, passed) == [candidate |-> c, no |-> n, passed |-> passed]
Assembly(c, b, r, h, l, extra) ==
    [candidate |-> c, build |-> b, runner |-> r, host |-> h, release |-> l, extra |-> extra]

First == Assembly("A", Build("A", 1), Attempt(Build("A", 1), 1), Sitting("A", 1, TRUE),
                  Attempt(Build("A", 1), 1), FALSE)
\* Another session and another release of the same build, and a file more.
Second == Assembly("A", Build("A", 1), Attempt(Build("A", 1), 1), Sitting("A", 2, TRUE),
                   Attempt(Build("A", 1), 2), TRUE)
\* The runner of a second build of the candidate.
Patched == Assembly("A", Build("A", 1), Attempt(Build("A", 2), 1), Sitting("A", 2, TRUE),
                    Attempt(Build("A", 1), 1), FALSE)
Other == Assembly("B", Build("B", 1), Attempt(Build("B", 1), 1), Sitting("B", 1, TRUE),
                  Attempt(Build("B", 1), 1), FALSE)

Bundles == {First, Patched, Other}
Consistent == {First, Second}
Assembled == Bundles \cup Consistent

\* What a part is put together from, and what it leaves out.
AssembliesOf(p) == IF p = "bundle" THEN Bundles ELSE Consistent
InPart ==
    /\ part # "copies" => copy'["x2"] = Idle
    /\ part # "swaps" => swaps' = swaps
    /\ part = "copies" => writes' = writes
    /\ writing' # None => writing'.of \in AssembliesOf(part)
    /\ swaps' # swaps => copies' \in {None} \cup {Bundle(a) : a \in AssembliesOf(part)}

ASSUME BundleConstants /\ RunnerConstants

-----------------------------------------------------------------------------
NoHost == HostInit /\ setting = [eligible |-> TRUE, hooks |-> TRUE]
NoBundle == Init /\ source = Bundle(First)

AnyInit ==
    /\ part \in Parts
    /\ RunnerInit
    /\ \/ part = "host" /\ HostInit /\ NoBundle
       \/ part \in {"commands", "workers"} /\ NoHost /\ NoBundle
       \/ /\ part \in {"bundle", "swaps", "copies"} /\ NoHost
          /\ Init /\ source \in {Bundle(a) : a \in AssembliesOf(part)}

AnyNext ==
    \/ part = "host" /\ HostNext /\ UNCHANGED <<part, runnerVars, bundle>>
    \/ part = "commands" /\ Run /\ UNCHANGED <<part, hostVars, bundle>>
    \/ part = "workers" /\ Working /\ UNCHANGED <<part, hostVars, bundle>>
    \/ /\ part \in {"bundle", "swaps", "copies"}
       /\ Next /\ InPart /\ UNCHANGED <<part, hostVars, runnerVars>>

AnySpec == AnyInit /\ [][AnyNext]_all
=============================================================================
