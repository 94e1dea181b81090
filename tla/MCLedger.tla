------------------------------- MODULE MCLedger -------------------------------
(***************************************************************************)
(* What is read out of the decision ledger: four parts, of which a         *)
(* behaviour takes one:                                                    *)
(*   "metrics"    ShadowLedger, one decision, every kind of event;         *)
(*   "promotion"  ShadowLedger, two decisions and the settings commands;   *)
(*   "reviews"    RunReview, the clock and the order of the receipts;      *)
(*   "finalize"   RunReview, a whole session with a correction.            *)
(***************************************************************************)
EXTENDS RunReview, ShadowLedger

CONSTANT Parts

VARIABLE part

all == <<part, vars, ledgerVars>>

\* A gate that would proceed on a learned rule, and a host hook.
Proceeds == [outcome |-> "proceed", selected |-> "o1", harness |-> FALSE, collision |-> TRUE,
             learned |-> TRUE, scenario |-> "s1", area |-> "a1"]
Hook == [Proceeds EXCEPT !.outcome = "ask_user", !.selected = "nothing", !.collision = FALSE,
                         !.learned = FALSE, !.harness = TRUE]
Chooses == [chosen |-> "o1", asked |-> FALSE]
SaysNothing == [chosen |-> "nothing", asked |-> FALSE]

GatesThatProceed == {Proceeds}
ProceedsAndHook == {Proceeds, Hook}
AnyAction == {Chooses, SaysNothing}

ASSUME ReviewConstants /\ LedgerConstants

-----------------------------------------------------------------------------
\* What the parts leave out. Metrics: the settings, which the metrics do not look at, and the
\* second decision. Promotion: hooks, useless actions, long ledgers and what becomes of a
\* packet. Reviews: the second decision and corrections. Finalize: the second decision, torn
\* lines and a long time.
Only(lines, decisions) ==
    \A i \in DOMAIN lines : "decision" \in DOMAIN lines[i] => lines[i].decision \in decisions
Useful(lines) ==
    \A i \in DOMAIN lines : /\ lines[i].kind = "decision-gate" => lines[i].gate = Proceeds
                            /\ lines[i].kind = "record-decision" => lines[i].chosen = "o1"

InPart ==
    \/ part = "metrics" /\ Only(log', {"d1", Manual}) /\ job' = job
                        /\ (autopilot' # autopilot => session' # session)
    \/ part = "promotion" /\ Len(log') <= 4 /\ Useful(log')
                          /\ \A p \in Packets : packets'[p] \in {"none", "pending"}
    \/ part = "reviews" /\ Len(ledger') <= 4 /\ Only(ledger', {"d1"})
                        /\ PacketsIn("learn-feedback")' = {}
    \/ part = "finalize" /\ clock' <= 1 /\ (run' # NoRun => run'.started <= 1)
                         /\ Only(ledger', {"d1"}) /\ \A i \in DOMAIN ledger' : ledger'[i] # Broken

AnyInit == part \in Parts /\ Init /\ LedgerInit

AnyNext ==
    /\ \/ part \in {"metrics", "promotion"} /\ LedgerNext /\ UNCHANGED vars
       \/ part \in {"reviews", "finalize"} /\ Next /\ UNCHANGED ledgerVars
    /\ InPart /\ UNCHANGED part

AnySpec == AnyInit /\ [][AnyNext]_all
=============================================================================
