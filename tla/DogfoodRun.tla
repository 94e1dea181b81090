----------------------------- MODULE DogfoodRun -----------------------------
(***************************************************************************)
(* What a dogfood qualification run promises, with every command atomic.   *)
(* A run is active from its start until it is aborted or finalized; the    *)
(* decision ledger is append-only; each ledger event carries the id of the *)
(* run that was active when it was appended; a finalized run is sealed by  *)
(* evidence that covers the ledger up to and including its last review.    *)
(*                                                                         *)
(* DogfoodTransaction, the file-level protocol with journals, crashes and  *)
(* recovery, is checked to implement this module.                          *)
(***************************************************************************)
EXTENDS Naturals, Sequences

CONSTANTS RunIds,     \* the ids util::id can hand to a run
          NoRun,      \* "dogfoodRunId": null
          MaxLedger   \* bound on the length of the ledger

ASSUME RunConstants ==
    /\ NoRun \notin RunIds
    /\ MaxLedger \in Nat

VARIABLES runs,    \* sequence of runs, oldest first
          ledger   \* sequence of events

runVars == <<runs, ledger>>

Statuses == {"active", "aborted", "finalized"}

\* from: ledger length when the run started; upto: ledger length its evidence covers
RunRecord == [id: RunIds, status: Statuses, from: Nat, upto: Nat]
Event == [kind: {"event", "review"}, run: RunIds \cup {NoRun}]

TypeOK ==
    /\ runs \in Seq(RunRecord)
    /\ ledger \in Seq(Event)

Init ==
    /\ runs = <<>>
    /\ ledger = <<>>

IsActive(i) == i \in DOMAIN runs /\ runs[i].status = "active"

NoneActive == \A i \in DOMAIN runs : runs[i].status # "active"

\* Mutant: an event evaluated before the run started is still recorded without it.
CarriesStale(r) ==
    r = NoRun \/ \E i \in DOMAIN runs : IsActive(i) /\ runs[i].id = r

\* The run id an event appended now must carry.
Carries(r) ==
    IF NoneActive THEN r = NoRun ELSE \E i \in DOMAIN runs : IsActive(i) /\ runs[i].id = r

\* Mutant: start does not look for a run that is already active.
StartBesideActive(r) ==
    /\ \A i \in DOMAIN runs : runs[i].id # r
    /\ runs' = Append(runs, [id |-> r, status |-> "active", from |-> Len(ledger), upto |-> 0])
    /\ UNCHANGED ledger

Start(r) ==
    /\ NoneActive
    /\ \A i \in DOMAIN runs : runs[i].id # r
    /\ runs' = Append(runs, [id |-> r, status |-> "active", from |-> Len(ledger), upto |-> 0])
    /\ UNCHANGED ledger

Record(r) ==
    /\ Len(ledger) < MaxLedger
    /\ Carries(r)
    /\ ledger' = Append(ledger, [kind |-> "event", run |-> r])
    /\ UNCHANGED runs

\* Mutant: the receipt names the run by its index in the state file.
ReviewByIndex(i) ==
    /\ IsActive(i)
    /\ Len(ledger) < MaxLedger
    /\ ledger' = Append(ledger, [kind |-> "review", run |-> i])
    /\ UNCHANGED runs

Review(i) ==
    /\ IsActive(i)
    /\ Len(ledger) < MaxLedger
    /\ ledger' = Append(ledger, [kind |-> "review", run |-> runs[i].id])
    /\ UNCHANGED runs

Abort(i) ==
    /\ IsActive(i)
    /\ runs' = [runs EXCEPT ![i].status = "aborted"]
    /\ UNCHANGED ledger

\* Mutant: events may follow the final review.
FinalizeUncovered(i) ==
    /\ IsActive(i)
    /\ \E k \in DOMAIN ledger : k > runs[i].from /\ ledger[k].kind = "review"
    /\ runs' = [runs EXCEPT ![i].status = "finalized", ![i].upto = Len(ledger)]
    /\ UNCHANGED ledger

\* The final review must be the last event of the ledger the evidence covers.
Finalize(i) ==
    /\ IsActive(i)
    /\ Len(ledger) > runs[i].from
    /\ ledger[Len(ledger)].kind = "review"
    /\ runs' = [runs EXCEPT ![i].status = "finalized", ![i].upto = Len(ledger)]
    /\ UNCHANGED ledger

Next ==
    \/ \E r \in RunIds : Start(r)
    \/ \E r \in RunIds \cup {NoRun} : Record(r)
    \/ \E i \in DOMAIN runs : Review(i)
    \/ \E i \in DOMAIN runs : Abort(i)
    \/ \E i \in DOMAIN runs : Finalize(i)

Spec == Init /\ [][Next]_runVars

-----------------------------------------------------------------------------
\* At most one run is active, and it is the newest: status and finalize read
\* state.runs.last() and report it as the run they acted on.
OnlyNewestActive == \A i \in DOMAIN runs : IsActive(i) => i = Len(runs)

\* Every event past the boundary of the active run carries that run's id, so no
\* gate evaluated before the run started slips into the run without it.
ActiveRunOwnsSuffix ==
    \A i \in DOMAIN runs : IsActive(i) =>
        \A k \in DOMAIN ledger : k > runs[i].from => ledger[k].run = runs[i].id

\* The evidence of a finalized run covers every event the ledger attributes to
\* it, and exactly the events between its boundary and its last review.
EvidenceSealsRun ==
    \A i \in DOMAIN runs : runs[i].status = "finalized" =>
        /\ runs[i].upto \in DOMAIN ledger
        /\ ledger[runs[i].upto].kind = "review"
        /\ \A k \in DOMAIN ledger :
               ledger[k].run = runs[i].id <=> k \in (runs[i].from + 1) .. runs[i].upto
=============================================================================
