-------------------------- MODULE DogfoodRunProofs --------------------------
(* The promises of DogfoodRun, for any set of run ids and any ledger bound. *)
EXTENDS DogfoodRun, TLAPS

UniqueIds == \A i, j \in DOMAIN runs : runs[i].id = runs[j].id => i = j

BoundariesInLedger == \A i \in DOMAIN runs : runs[i].from <= Len(ledger)

\* An event belongs to no run, or to a recorded run whose boundary precedes it.
EventsBelong ==
    \A k \in DOMAIN ledger :
        \/ ledger[k].run = NoRun
        \/ \E i \in DOMAIN runs : runs[i].id = ledger[k].run /\ k > runs[i].from

IInv ==
    /\ TypeOK
    /\ UniqueIds
    /\ OnlyNewestActive
    /\ BoundariesInLedger
    /\ EventsBelong
    /\ ActiveRunOwnsSuffix
    /\ EvidenceSealsRun

LEMMA InitIInv == Init => IInv
  BY DEF Init, IInv, TypeOK, UniqueIds, OnlyNewestActive, BoundariesInLedger, EventsBelong,
         ActiveRunOwnsSuffix, EvidenceSealsRun, IsActive

LEMMA RunFields ==
  ASSUME TypeOK, NEW i \in DOMAIN runs
  PROVE  /\ runs[i] \in RunRecord
         /\ runs[i].id \in RunIds /\ runs[i].id # NoRun
         /\ runs[i].from \in Nat /\ runs[i].upto \in Nat
         /\ runs[i].status \in Statuses
<1>1. runs[i] \in RunRecord
  BY DEF TypeOK
<1> QED BY <1>1, RunConstants DEF RunRecord

\* What replacing one run does to the sequence of runs.
LEMMA ReplaceRun ==
  ASSUME TypeOK, NEW i \in DOMAIN runs, NEW rec \in RunRecord, runs' = [runs EXCEPT ![i] = rec]
  PROVE  /\ runs' \in Seq(RunRecord)
         /\ DOMAIN runs' = DOMAIN runs
         /\ Len(runs') = Len(runs)
         /\ runs'[i] = rec
         /\ \A j \in DOMAIN runs : j # i => runs'[j] = runs[j]
  BY DEF TypeOK

\* What appending an event of run e does to the ledger.
LEMMA AppendLedger ==
  ASSUME TypeOK, NEW e \in Event, ledger' = Append(ledger, e)
  PROVE  /\ ledger' \in Seq(Event)
         /\ Len(ledger') = Len(ledger) + 1
         /\ DOMAIN ledger' = DOMAIN ledger \cup {Len(ledger) + 1}
         /\ Len(ledger) + 1 \notin DOMAIN ledger
         /\ \A k \in DOMAIN ledger : ledger'[k] = ledger[k]
         /\ ledger'[Len(ledger) + 1] = e
  BY DEF TypeOK

\* An event may be appended when it carries the id of the active run, if there is one.
LEMMA RecordStep ==
  ASSUME IInv, NEW e \in Event, Carries(e.run), ledger' = Append(ledger, e), UNCHANGED runs
  PROVE  IInv'
<1>1. /\ ledger' \in Seq(Event)
      /\ Len(ledger') = Len(ledger) + 1
      /\ DOMAIN ledger' = DOMAIN ledger \cup {Len(ledger) + 1}
      /\ Len(ledger) + 1 \notin DOMAIN ledger
      /\ \A k \in DOMAIN ledger : ledger'[k] = ledger[k]
      /\ ledger'[Len(ledger) + 1] = e
  BY AppendLedger DEF IInv
<1>2. TypeOK'
  BY <1>1 DEF IInv, TypeOK
<1>3. UniqueIds' /\ OnlyNewestActive'
  BY DEF IInv, UniqueIds, OnlyNewestActive, IsActive
<1>a. \A i \in DOMAIN runs : runs[i].from \in Nat /\ runs[i].from < Len(ledger) + 1
  <2> SUFFICES ASSUME NEW i \in DOMAIN runs
               PROVE  runs[i].from \in Nat /\ runs[i].from < Len(ledger) + 1
    OBVIOUS
  <2>1. Len(ledger) \in Nat
    BY DEF IInv, TypeOK
  <2>2. runs[i].from \in Nat /\ runs[i].from <= Len(ledger)
    BY RunFields DEF IInv, BoundariesInLedger
  <2> QED BY <2>1, <2>2
<1>b. Len(ledger) \in Nat
  BY DEF IInv, TypeOK
<1>4. BoundariesInLedger'
  BY <1>1, <1>a, <1>b DEF BoundariesInLedger
<1>5. EventsBelong'
  <2> SUFFICES ASSUME NEW k \in DOMAIN ledger'
               PROVE  \/ ledger'[k].run = NoRun
                      \/ \E i \in DOMAIN runs : runs[i].id = ledger'[k].run /\ k > runs[i].from
    BY DEF EventsBelong
  <2>1. CASE k \in DOMAIN ledger
    BY <2>1, <1>1 DEF IInv, EventsBelong
  <2>2. CASE k = Len(ledger) + 1
    <3>1. \A i \in DOMAIN runs : Len(ledger) + 1 > runs[i].from
      BY <1>a, <1>b
    <3> QED BY <2>2, <3>1, <1>1 DEF Carries, NoneActive, IsActive
  <2> QED BY <1>1, <2>1, <2>2
<1>6. ActiveRunOwnsSuffix'
  <2> SUFFICES ASSUME NEW i \in DOMAIN runs, IsActive(i),
                      NEW k \in DOMAIN ledger', k > runs[i].from
               PROVE  ledger'[k].run = runs[i].id
    BY DEF ActiveRunOwnsSuffix, IsActive
  <2>1. CASE k \in DOMAIN ledger
    BY <2>1, <1>1 DEF IInv, ActiveRunOwnsSuffix
  <2>2. CASE k = Len(ledger) + 1
    BY <2>2, <1>1 DEF IInv, OnlyNewestActive, Carries, NoneActive, IsActive
  <2> QED BY <1>1, <2>1, <2>2
<1>7. EvidenceSealsRun'
  <2> SUFFICES ASSUME NEW i \in DOMAIN runs, runs[i].status = "finalized"
               PROVE  /\ runs[i].upto \in DOMAIN ledger'
                      /\ ledger'[runs[i].upto].kind = "review"
                      /\ \A k \in DOMAIN ledger' :
                           ledger'[k].run = runs[i].id
                              <=> k \in (runs[i].from + 1) .. runs[i].upto
    BY DEF EvidenceSealsRun
  <2>1. /\ runs[i].upto \in DOMAIN ledger
        /\ ledger[runs[i].upto].kind = "review"
        /\ \A k \in DOMAIN ledger :
              ledger[k].run = runs[i].id <=> k \in (runs[i].from + 1) .. runs[i].upto
    BY DEF IInv, EvidenceSealsRun
  <2>2. e.run # runs[i].id
    <3>1. runs[i].id # NoRun
      BY RunFields DEF IInv
    <3>2. ASSUME NEW j \in DOMAIN runs, IsActive(j)
          PROVE  runs[j].id # runs[i].id
      BY <3>2 DEF IInv, UniqueIds, IsActive
    <3> QED BY <3>1, <3>2 DEF Carries
  <2>3. Len(ledger) + 1 \notin (runs[i].from + 1) .. runs[i].upto
    BY <2>1 DEF IInv, TypeOK, RunRecord
  <2> QED BY <1>1, <2>1, <2>2, <2>3
<1> QED BY <1>2, <1>3, <1>4, <1>5, <1>6, <1>7 DEF IInv

LEMMA StartStep ==
  ASSUME IInv, NEW r \in RunIds, Start(r)
  PROVE  IInv'
<1> DEFINE new == [id |-> r, status |-> "active", from |-> Len(ledger), upto |-> 0]
<1>1. /\ runs' = Append(runs, new)
      /\ new \in RunRecord
      /\ UNCHANGED ledger
      /\ NoneActive
      /\ \A i \in DOMAIN runs : runs[i].id # r
  BY DEF Start, IInv, TypeOK, RunRecord, Statuses
<1>2. /\ runs' \in Seq(RunRecord)
      /\ Len(runs') = Len(runs) + 1
      /\ DOMAIN runs' = DOMAIN runs \cup {Len(runs) + 1}
      /\ Len(runs) + 1 \notin DOMAIN runs
      /\ \A i \in DOMAIN runs : runs'[i] = runs[i]
      /\ runs'[Len(runs) + 1] = new
  BY <1>1 DEF IInv, TypeOK
<1>3. TypeOK'
  BY <1>1, <1>2 DEF IInv, TypeOK
<1>4. UniqueIds'
  BY <1>1, <1>2 DEF IInv, UniqueIds
<1>5. OnlyNewestActive'
  BY <1>1, <1>2 DEF OnlyNewestActive, IsActive, NoneActive
<1>6. BoundariesInLedger'
  BY <1>1, <1>2 DEF IInv, BoundariesInLedger, TypeOK
<1>7. EventsBelong'
  BY <1>1, <1>2 DEF IInv, EventsBelong
<1>8. ActiveRunOwnsSuffix'
  BY <1>1, <1>2 DEF IInv, TypeOK, ActiveRunOwnsSuffix, IsActive, NoneActive
<1>9. EvidenceSealsRun'
  BY <1>1, <1>2 DEF IInv, EvidenceSealsRun
<1> QED BY <1>3, <1>4, <1>5, <1>6, <1>7, <1>8, <1>9 DEF IInv

LEMMA AbortStep ==
  ASSUME IInv, NEW i \in DOMAIN runs, Abort(i)
  PROVE  IInv'
<1>1. /\ DOMAIN runs' = DOMAIN runs
      /\ Len(runs') = Len(runs)
      /\ runs' \in Seq(RunRecord)
      /\ \A j \in DOMAIN runs :
            /\ runs'[j].id = runs[j].id
            /\ runs'[j].from = runs[j].from
            /\ runs'[j].upto = runs[j].upto
            /\ runs'[j].status = (IF j = i THEN "aborted" ELSE runs[j].status)
      /\ UNCHANGED ledger
  <2> DEFINE rec == [runs[i] EXCEPT !.status = "aborted"]
  <2>1. rec \in RunRecord /\ runs' = [runs EXCEPT ![i] = rec]
    BY RunFields DEF Abort, IInv, RunRecord, Statuses
  <2>2. /\ rec.id = runs[i].id /\ rec.from = runs[i].from /\ rec.upto = runs[i].upto
        /\ rec.status = "aborted"
    BY RunFields DEF IInv, RunRecord
  <2> HIDE DEF rec
  <2> QED BY <2>1, <2>2, ReplaceRun DEF IInv, Abort
<1>2. TypeOK' /\ UniqueIds' /\ BoundariesInLedger'
  BY <1>1 DEF IInv, TypeOK, UniqueIds, BoundariesInLedger
<1>3. EventsBelong'
  BY <1>1 DEF IInv, EventsBelong
<1>4. OnlyNewestActive' /\ ActiveRunOwnsSuffix'
  BY <1>1 DEF IInv, OnlyNewestActive, ActiveRunOwnsSuffix, IsActive
<1>5. EvidenceSealsRun'
  BY <1>1 DEF IInv, EvidenceSealsRun
<1> QED BY <1>2, <1>3, <1>4, <1>5 DEF IInv

LEMMA FinalizeStep ==
  ASSUME IInv, NEW i \in DOMAIN runs, Finalize(i)
  PROVE  IInv'
<1>1. /\ DOMAIN runs' = DOMAIN runs
      /\ Len(runs') = Len(runs)
      /\ runs' \in Seq(RunRecord)
      /\ \A j \in DOMAIN runs :
            /\ runs'[j].id = runs[j].id
            /\ runs'[j].from = runs[j].from
            /\ runs'[j].upto = (IF j = i THEN Len(ledger) ELSE runs[j].upto)
            /\ runs'[j].status = (IF j = i THEN "finalized" ELSE runs[j].status)
      /\ UNCHANGED ledger
      /\ IsActive(i)
      /\ Len(ledger) > runs[i].from
      /\ ledger[Len(ledger)].kind = "review"
  <2> DEFINE rec == [runs[i] EXCEPT !.status = "finalized", !.upto = Len(ledger)]
  <2>1. Len(ledger) \in Nat
    BY DEF IInv, TypeOK
  <2>2. rec \in RunRecord /\ runs' = [runs EXCEPT ![i] = rec]
    BY <2>1, RunFields DEF Finalize, IInv, RunRecord, Statuses
  <2>3. /\ rec.id = runs[i].id /\ rec.from = runs[i].from /\ rec.upto = Len(ledger)
        /\ rec.status = "finalized"
    BY RunFields DEF IInv, RunRecord
  <2> HIDE DEF rec
  <2> QED BY <2>2, <2>3, ReplaceRun DEF IInv, Finalize
<1>2. TypeOK' /\ UniqueIds' /\ OnlyNewestActive' /\ BoundariesInLedger' /\ EventsBelong'
      /\ ActiveRunOwnsSuffix'
  BY <1>1 DEF IInv, TypeOK, UniqueIds, OnlyNewestActive, BoundariesInLedger, EventsBelong,
              ActiveRunOwnsSuffix, IsActive
<1>3. EvidenceSealsRun'
  <2> SUFFICES ASSUME NEW j \in DOMAIN runs', runs'[j].status = "finalized"
               PROVE  /\ runs'[j].upto \in DOMAIN ledger'
                      /\ ledger'[runs'[j].upto].kind = "review"
                      /\ \A k \in DOMAIN ledger' :
                           ledger'[k].run = runs'[j].id
                              <=> k \in (runs'[j].from + 1) .. runs'[j].upto
    BY DEF EvidenceSealsRun
  <2>1. CASE j # i
    BY <1>1, <2>1 DEF IInv, EvidenceSealsRun
  <2>2. CASE j = i
    <3>1. Len(ledger) \in DOMAIN ledger /\ runs[i].from \in Nat
      <4>1. runs[i].from \in Nat /\ Len(ledger) \in Nat
        BY RunFields DEF IInv, TypeOK
      <4>2. DOMAIN ledger = 1 .. Len(ledger)
        BY DEF IInv, TypeOK
      <4> QED BY <1>1, <4>1, <4>2
    <3>2. ASSUME NEW k \in DOMAIN ledger, ledger[k].run = runs[i].id
          PROVE  k > runs[i].from
      BY <3>2, RunFields DEF IInv, UniqueIds, EventsBelong
    <3>3. ASSUME NEW k \in DOMAIN ledger, k > runs[i].from
          PROVE  ledger[k].run = runs[i].id
      BY <3>3, <1>1 DEF IInv, ActiveRunOwnsSuffix
    <3>4. \A k \in DOMAIN ledger : k \in 1 .. Len(ledger)
      BY DEF IInv, TypeOK
    <3> QED BY <1>1, <2>2, <3>1, <3>2, <3>3, <3>4
  <2> QED BY <2>1, <2>2
<1> QED BY <1>2, <1>3 DEF IInv

LEMMA NextIInv == IInv /\ [Next]_runVars => IInv'
<1> SUFFICES ASSUME IInv, [Next]_runVars
             PROVE  IInv'
  OBVIOUS
<1>1. ASSUME NEW r \in RunIds, Start(r) PROVE IInv'
  BY <1>1, StartStep
<1>2. ASSUME NEW r \in RunIds \cup {NoRun}, Record(r) PROVE IInv'
  <2> DEFINE e == [kind |-> "event", run |-> r]
  <2>1. e \in Event /\ Carries(e.run) /\ ledger' = Append(ledger, e) /\ UNCHANGED runs
    BY <1>2 DEF Record, Event
  <2> HIDE DEF e
  <2> QED BY <2>1, RecordStep
<1>3. ASSUME NEW i \in DOMAIN runs, Review(i) PROVE IInv'
  <2> DEFINE e == [kind |-> "review", run |-> runs[i].id]
  <2>1. e \in Event /\ ledger' = Append(ledger, e) /\ UNCHANGED runs
    BY <1>3, RunFields DEF Review, Event, IInv
  <2>2. Carries(e.run)
    BY <1>3 DEF Review, Carries, IsActive, NoneActive
  <2> HIDE DEF e
  <2> QED BY <2>1, <2>2, RecordStep
<1>4. ASSUME NEW i \in DOMAIN runs, Abort(i) PROVE IInv'
  BY <1>4, AbortStep
<1>5. ASSUME NEW i \in DOMAIN runs, Finalize(i) PROVE IInv'
  BY <1>5, FinalizeStep
<1>6. CASE UNCHANGED runVars
  BY <1>6 DEF runVars, IInv, TypeOK, UniqueIds, OnlyNewestActive, BoundariesInLedger,
              EventsBelong, ActiveRunOwnsSuffix, EvidenceSealsRun, IsActive
<1> QED BY <1>1, <1>2, <1>3, <1>4, <1>5, <1>6 DEF Next

\* The strengthening is an invariant of the atomic runs.
THEOREM RunInvariant == Spec => []IInv
  BY InitIInv, NextIInv, PTL DEF Spec

\* Every run keeps the fields and a status of the life cycle, and every event of the ledger
\* names no run or an id a run was given (dogfood_start, dogfood_finalize).
THEOREM TypeCorrect == Spec => []TypeOK
<1>1. IInv => TypeOK
  BY DEF IInv
<1> QED BY <1>1, RunInvariant, PTL

\* At most one run is active and it is the newest, so state.runs.last() is the run
\* that status and finalize acted on.
THEOREM OnlyNewestActiveHolds == Spec => []OnlyNewestActive
<1>1. IInv => OnlyNewestActive
  BY DEF IInv
<1> QED BY <1>1, RunInvariant, PTL

\* No event without the active run's id lies past its boundary.
THEOREM ActiveRunOwnsSuffixHolds == Spec => []ActiveRunOwnsSuffix
<1>1. IInv => ActiveRunOwnsSuffix
  BY DEF IInv
<1> QED BY <1>1, RunInvariant, PTL

\* The evidence of a finalized run covers exactly the events attributed to it.
THEOREM EvidenceSealsRunHolds == Spec => []EvidenceSealsRun
<1>1. IInv => EvidenceSealsRun
  BY DEF IInv
<1> QED BY <1>1, RunInvariant, PTL
=============================================================================
