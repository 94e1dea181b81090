----------------------------- MODULE LedgerProofs -----------------------------
(***************************************************************************)
(* What is read out of the ledger: the receipts of a run stay valid, a     *)
(* finalized run was reviewed to its last line, and the counters of the    *)
(* metrics mean what they are for. Proofs for every ledger, clock and set  *)
(* of runs.                                                                *)
(*                                                                         *)
(* The first part does not expand the metrics: a receipt is bound to the   *)
(* metrics of the lines before it, and these lines do not change, whatever *)
(* the metrics are.                                                        *)
(***************************************************************************)
EXTENDS RunReview, ShadowLedger, SequenceTheorems, FiniteSetTheorems, WellFoundedInduction, TLAPS

-----------------------------------------------------------------------------
\* Largest and smallest elements.

\* A set of naturals that is not empty has a smallest element.
LEMMA SmallestExists ==
    ASSUME NEW S \in SUBSET Nat, S # {}
    PROVE  \E x \in S : \A y \in S : x <= y
<1>1. \E x \in S : \A y \in S : ~(<<y, x>> \in OpToRel(<, Nat))
  BY NatLessThanWellFounded, WFMin
<1>2. PICK x \in S : \A y \in S : ~(<<y, x>> \in OpToRel(<, Nat))
  BY <1>1
<1>3. \A y \in S : ~(y < x)
  BY <1>2 DEF OpToRel
<1> QED  BY <1>3

\* Max of a bounded set of naturals is its largest element.
LEMMA LargestIsMax ==
    ASSUME NEW n \in Nat, NEW S \in SUBSET (0..n), S # {}
    PROVE  Max(S) \in S /\ \A y \in S : y <= Max(S)
<1> DEFINE Below == {n - x : x \in S}
<1>1. Below \in SUBSET Nat /\ Below # {}
  <2>1. \A x \in S : n - x \in Nat
    OBVIOUS
  <2>2. \E x \in S : n - x \in Below
    OBVIOUS
  <2> QED  BY <2>1, <2>2
<1>2. PICK b \in Below : \A y \in Below : b <= y
  BY <1>1, SmallestExists
<1>3. PICK x \in S : b = n - x
  BY <1>2
<1>4. \A y \in S : x >= y
  <2> SUFFICES ASSUME NEW y \in S PROVE x >= y
    OBVIOUS
  <2>1. b <= n - y
    BY <1>2
  <2> QED  BY <2>1, <1>3
<1>5. Max(S) \in S /\ \A y \in S : Max(S) >= y
  BY <1>4, Zenon DEF Max
<1>6. \A y \in S : y \in Int
  OBVIOUS
<1> QED  BY <1>5, <1>6

-----------------------------------------------------------------------------
\* The ledger grows at its end.

LedgerIsSeq == \E S : ledger \in Seq(S)

\* The lines that were there are there, at their places.
LEMMA AppendKeeps ==
    ASSUME NEW lines, \E S : lines \in Seq(S), NEW event
    PROVE  LET longer == Append(lines, event) IN
           /\ \E S : longer \in Seq(S)
           /\ Len(lines) \in Nat /\ Len(longer) = Len(lines) + 1
           /\ DOMAIN lines = 1..Len(lines) /\ DOMAIN longer = 1..Len(longer)
           /\ \A i \in 1..Len(lines) : longer[i] = lines[i]
           /\ longer[Len(longer)] = event
<1> DEFINE longer == Append(lines, event)
<1>1. PICK S : lines \in Seq(S)
  OBVIOUS
<1> DEFINE T == S \cup {event}
<1>2. lines \in Seq(T) /\ event \in T
  BY <1>1, SeqMonotonic
<1> HIDE DEF T
<1>3. longer \in Seq(T)
  BY <1>2
<1>4. Len(lines) \in Nat /\ DOMAIN lines = 1..Len(lines)
  BY <1>2, LenProperties
<1>5. Len(longer) = Len(lines) + 1
  BY <1>2
<1>6. \A i \in 1..Len(lines) : longer[i] = lines[i]
  BY <1>2
<1>7. longer[Len(lines) + 1] = event
  BY <1>2, <1>4
<1> HIDE DEF longer
<1>8. DOMAIN longer = 1..Len(longer)
  BY <1>3, LenProperties
<1> QED  BY <1>3, <1>4, <1>5, <1>6, <1>7, <1>8 DEF longer

LEMMA LinesStay ==
    ASSUME LedgerIsSeq, NEW event, ledger' = Append(ledger, event)
    PROVE  /\ LedgerIsSeq'
           /\ Len(ledger) \in Nat /\ Len(ledger') = Len(ledger) + 1
           /\ DOMAIN ledger = 1..Len(ledger) /\ DOMAIN ledger' = 1..Len(ledger')
           /\ \A i \in 1..Len(ledger) : ledger'[i] = ledger[i]
           /\ ledger'[Len(ledger')] = event
<1> DEFINE longer == Append(ledger, event)
<1>1. /\ \E S : longer \in Seq(S)
      /\ Len(ledger) \in Nat /\ Len(longer) = Len(ledger) + 1
      /\ DOMAIN ledger = 1..Len(ledger) /\ DOMAIN longer = 1..Len(longer)
      /\ \A i \in 1..Len(ledger) : longer[i] = ledger[i]
      /\ longer[Len(longer)] = event
  BY AppendKeeps DEF LedgerIsSeq
<1>2. ledger' = longer
  OBVIOUS
<1> HIDE DEF longer
<1> QED  BY <1>1, <1>2 DEF LedgerIsSeq

\* So the lines before a line are the same lines.
LEMMA PrefixStays ==
    ASSUME LedgerIsSeq, NEW event, ledger' = Append(ledger, event),
           NEW i \in 1..Len(ledger) + 1
    PROVE  SubSeq(ledger, 1, i - 1)' = SubSeq(ledger, 1, i - 1)
<1>1. PICK S : ledger \in Seq(S)
  BY DEF LedgerIsSeq
<1>2. /\ Len(ledger) \in Nat /\ DOMAIN ledger = 1..Len(ledger)
      /\ \A j \in 1..Len(ledger) : ledger'[j] = ledger[j]
  BY LinesStay
<1>3. \A j \in 1..i - 1 : ledger[j] \in S /\ ledger'[j] \in S /\ ledger'[j] = ledger[j]
  BY <1>1, <1>2, ElementOfSeq
<1>4. i - 1 \in Int /\ 1 \in Int
  BY <1>2
<1> DEFINE old == SubSeq(ledger, 1, i - 1)
           new == SubSeq(ledger', 1, i - 1)
<1>5. /\ old \in Seq(S) /\ Len(old) = (IF 1 <= i - 1 THEN i - 1 - 1 + 1 ELSE 0)
      /\ \A j \in 1..i - 1 - 1 + 1 : old[j] = ledger[1 + j - 1]
  BY <1>3, <1>4, SubSeqProperties
<1>6. /\ new \in Seq(S) /\ Len(new) = (IF 1 <= i - 1 THEN i - 1 - 1 + 1 ELSE 0)
      /\ \A j \in 1..i - 1 - 1 + 1 : new[j] = ledger'[1 + j - 1]
  BY <1>3, <1>4, SubSeqProperties
<1> HIDE DEF old, new
<1>7. Len(new) = Len(old)
  BY <1>5, <1>6
<1>8. ASSUME NEW j \in 1..Len(new) PROVE new[j] = old[j]
  <2>1. j \in 1..i - 1 /\ j \in 1..i - 1 - 1 + 1 /\ 1 + j - 1 = j
    BY <1>2, <1>6
  <2> QED  BY <2>1, <1>3, <1>5, <1>6
<1>9. new = old
  BY <1>5, <1>6, <1>7, <1>8, SeqEqual
<1> QED  BY <1>9 DEF old, new

-----------------------------------------------------------------------------
\* The receipts.

\* A review line has the status and the time of a receipt.
ReviewLines ==
    \A i \in ReviewsIn(ledger) : ledger[i].status \in Status /\ ledger[i].at \in Nat

RunTyped ==
    run # NoRun => run.boundary \in 0..Len(ledger) /\ run.started \in Nat

\* Every receipt of the active run holds at any time from now on: whether the settings are
\* intact and whether a line is torn decides on a review, never on an earlier receipt.
ReceiptsHold ==
    run # NoRun => \A i \in Of(run) : ReceiptValid(run, i, clock)

\* The inductive invariant.
ReviewInv == LedgerIsSeq /\ clock \in Nat /\ ReviewLines /\ RunTyped /\ ReceiptsHold

\* The receipts of a run are lines of the ledger.
LEMMA ReceiptsAreLines ==
    ASSUME LedgerIsSeq, NEW r, NEW i
    PROVE  /\ Of(r) \in SUBSET (1..Len(ledger)) /\ Before(r, i) \in SUBSET Of(r)
           /\ Len(ledger) \in Nat /\ DOMAIN ledger = 1..Len(ledger)
<1>1. PICK S : ledger \in Seq(S)
  BY DEF LedgerIsSeq
<1>2. Len(ledger) \in Nat /\ DOMAIN ledger = 1..Len(ledger)
  BY <1>1, LenProperties
<1> QED  BY <1>2 DEF Of, Before, ReviewsIn

\* The last receipt before a line.
LEMMA LastBefore ==
    ASSUME LedgerIsSeq, NEW r, NEW i, Before(r, i) # {}
    PROVE  /\ Max(Before(r, i)) \in Before(r, i)
           /\ \A j \in Before(r, i) : j <= Max(Before(r, i))
<1>1. Before(r, i) \in SUBSET (0..Len(ledger)) /\ Len(ledger) \in Nat
  BY ReceiptsAreLines
<1> QED  BY <1>1, LargestIsMax

\* What comes before a line, or before the end, is not touched by what is appended.
LEMMA BeforeStays ==
    ASSUME LedgerIsSeq, NEW event, ledger' = Append(ledger, event), NEW r,
           NEW i \in 1..Len(ledger) + 1
    PROVE  Before(r, i)' = Before(r, i) /\ StatusBefore(r, i)' = StatusBefore(r, i)
<1>1. /\ Len(ledger) \in Nat /\ Len(ledger') = Len(ledger) + 1
      /\ DOMAIN ledger = 1..Len(ledger) /\ DOMAIN ledger' = 1..Len(ledger')
      /\ \A j \in 1..Len(ledger) : ledger'[j] = ledger[j]
  BY LinesStay
<1>2. Before(r, i)' = Before(r, i)
  BY <1>1 DEF Before, Of, ReviewsIn
<1>3. CASE Before(r, i) = {}
  BY <1>2, <1>3 DEF StatusBefore
<1>4. CASE Before(r, i) # {}
  <2>1. Max(Before(r, i)) \in 1..Len(ledger)
    BY <1>4, LastBefore, ReceiptsAreLines
  <2>2. ledger'[Max(Before(r, i)')] = ledger[Max(Before(r, i))]
    BY <1>1, <1>2, <2>1
  <2> QED  BY <1>2, <1>4, <2>2 DEF StatusBefore
<1> QED  BY <1>3, <1>4

\* A receipt that holds goes on to hold when a line is appended.
LEMMA ReceiptStays ==
    ASSUME LedgerIsSeq, NEW event, ledger' = Append(ledger, event), NEW r, NEW time,
           NEW i \in 1..Len(ledger), ReceiptValid(r, i, time)
    PROVE  ReceiptValid(r, i, time)'
<1>1. i \in 1..Len(ledger) + 1 /\ ledger'[i] = ledger[i]
  BY LinesStay
<1>2. Before(r, i)' = Before(r, i) /\ StatusBefore(r, i)' = StatusBefore(r, i)
  BY <1>1, BeforeStays
<1>3. \A j \in Before(r, i) : ledger'[j] = ledger[j]
  BY LinesStay, ReceiptsAreLines
<1>4. \A at : MetricsBefore(r, i, at)' = MetricsBefore(r, i, at)
  BY <1>1, PrefixStays DEF MetricsBefore
<1> QED  BY <1>1, <1>2, <1>3, <1>4 DEF ReceiptValid

-----------------------------------------------------------------------------
\* The invariant.

LEMMA ReviewInit ==
    ASSUME ReviewConstants, Init
    PROVE  ReviewInv
<1>1. ledger \in Seq({}) /\ Len(ledger) = 0 /\ DOMAIN ledger = {}
  <2>1. ledger = <<>>
    BY DEF Init
  <2>2. <<>> \in Seq({}) /\ Len(<<>>) = 0
    BY EmptySeq
  <2>3. DOMAIN ledger = 1..Len(ledger)
    BY <2>1, <2>2, LenProperties
  <2> QED  BY <2>1, <2>2, <2>3
<1>2. LedgerIsSeq
  BY <1>1 DEF LedgerIsSeq
<1>3. clock \in Nat /\ run = NoRun
  BY DEF Init
<1>4. ReviewsIn(ledger) = {}
  BY <1>1 DEF ReviewsIn
<1> QED  BY <1>2, <1>3, <1>4 DEF ReviewInv, ReviewLines, RunTyped, ReceiptsHold

\* What a line that is no receipt leaves alone.
LEMMA OtherLine ==
    ASSUME ReviewInv, NEW event, Appends(event), event.kind # "dogfood-review",
           run' = run, clock' = clock
    PROVE  ReviewInv'
<1>1. LedgerIsSeq /\ clock \in Nat /\ ledger' = Append(ledger, event)
  BY DEF ReviewInv, Appends
<1>2. /\ LedgerIsSeq'
      /\ Len(ledger) \in Nat /\ Len(ledger') = Len(ledger) + 1
      /\ DOMAIN ledger = 1..Len(ledger) /\ DOMAIN ledger' = 1..Len(ledger')
      /\ \A i \in 1..Len(ledger) : ledger'[i] = ledger[i]
      /\ ledger'[Len(ledger')] = event
  BY <1>1, LinesStay
<1>3. ReviewsIn(ledger') = ReviewsIn(ledger) /\ ReviewsIn(ledger) \in SUBSET (1..Len(ledger))
  <2>1. \A i \in 1..Len(ledger') : i \in 1..Len(ledger) \/ i = Len(ledger')
    BY <1>2
  <2> QED  BY <1>2, <2>1 DEF ReviewsIn
<1>4. ReviewLines'
  BY <1>2, <1>3 DEF ReviewInv, ReviewLines
<1>5. RunTyped'
  BY <1>2 DEF ReviewInv, RunTyped
<1>6. ReceiptsHold'
  <2> SUFFICES ASSUME run # NoRun, NEW i \in Of(run)'
               PROVE  ReceiptValid(run, i, clock)'
    BY DEF ReceiptsHold
  <2>1. PICK r, now : r = run /\ now = clock
    OBVIOUS
  <2>2. i \in Of(r) /\ i \in 1..Len(ledger)
    BY <1>3, <2>1 DEF Of
  <2>3. ReceiptValid(r, i, now)
    BY <2>1, <2>2 DEF ReviewInv, ReceiptsHold
  <2>4. ReceiptValid(r, i, now)'
    BY <1>1, <2>2, <2>3, ReceiptStays
  <2>5. run' = r /\ clock' = now
    BY <2>1
  <2> QED  BY <2>4, <2>5
<1> QED  BY <1>1, <1>2, <1>4, <1>5, <1>6 DEF ReviewInv

\* A review that is accepted writes a receipt that holds, and spoils no earlier one.
LEMMA ReviewStep ==
    ASSUME ReviewInv, NEW now \in 0..clock, NEW status \in Status, Review(now, status)
    PROVE  ReviewInv'
<1> DEFINE receipt == [kind |-> "dogfood-review", run |-> run.id, at |-> now,
                       status |-> status, prefix |-> Len(ledger),
                       metrics |-> Metrics(ledger, run, now)]
<1>1. /\ LedgerIsSeq /\ clock \in Nat /\ ledger' = Append(ledger, receipt)
      /\ run' = run /\ clock' = clock /\ run # NoRun
  BY DEF ReviewInv, Review, Appends
<1>2. PICK r, time : r = run /\ time = clock
  OBVIOUS
<1>3. PICK event : event = receipt
  OBVIOUS
<1>4. /\ event.kind = "dogfood-review" /\ event.run = r.id /\ event.at = now
      /\ event.status = status /\ event.prefix = Len(ledger)
      /\ event.metrics = Metrics(ledger, r, now)
  BY <1>2, <1>3
<1>5. ledger' = Append(ledger, event)
  BY <1>1, <1>3
<1> HIDE DEF receipt
<1>6. /\ LedgerIsSeq'
      /\ Len(ledger) \in Nat /\ Len(ledger') = Len(ledger) + 1
      /\ DOMAIN ledger = 1..Len(ledger) /\ DOMAIN ledger' = 1..Len(ledger')
      /\ \A i \in 1..Len(ledger) : ledger'[i] = ledger[i]
      /\ ledger'[Len(ledger')] = event
  BY <1>1, <1>5, LinesStay
<1>7. \A i \in 1..Len(ledger') : i \in 1..Len(ledger) \/ i = Len(ledger) + 1
  BY <1>6
<1>8. r.boundary \in 0..Len(ledger) /\ r.started \in Nat
  BY <1>1, <1>2 DEF ReviewInv, RunTyped
<1>9. /\ TransitionValid(CurrentStatus(r), status) /\ now >= r.started
      /\ \A i \in Of(r) : ledger[i].at < now
      /\ ~Metrics(ledger, r, now).failed
  BY <1>2 DEF Review
<1>10. ReviewLines'
  <2> SUFFICES ASSUME NEW i \in ReviewsIn(ledger')
               PROVE  ledger'[i].status \in Status /\ ledger'[i].at \in Nat
    BY DEF ReviewLines
  <2>1. CASE i \in 1..Len(ledger)
    <3>1. i \in ReviewsIn(ledger) /\ ledger'[i] = ledger[i]
      BY <1>6, <2>1 DEF ReviewsIn
    <3> QED  BY <3>1 DEF ReviewInv, ReviewLines
  <2>2. CASE i = Len(ledger) + 1
    BY <1>1, <1>4, <1>6, <2>2
  <2> QED  BY <1>6, <1>7, <2>1, <2>2 DEF ReviewsIn
<1>11. RunTyped'
  BY <1>1, <1>2, <1>6, <1>8 DEF RunTyped
<1>12. ReceiptsHold'
  <2> SUFFICES ASSUME NEW i \in Of(r)'
               PROVE  ReceiptValid(r, i, time)'
    BY <1>1, <1>2 DEF ReceiptsHold
  <2>1. i \in 1..Len(ledger')
    BY <1>6 DEF Of, ReviewsIn
  <2>2. CASE i \in 1..Len(ledger)
    <3>1. i \in Of(r)
      BY <1>6, <2>2 DEF Of, ReviewsIn
    <3>2. ReceiptValid(r, i, time)
      BY <1>1, <1>2, <3>1 DEF ReviewInv, ReceiptsHold
    <3> QED  BY <1>1, <1>5, <2>2, <3>2, ReceiptStays
  <2>3. CASE i = Len(ledger) + 1
    <3>1. i \in 1..Len(ledger) + 1 /\ ledger'[i] = event /\ i - 1 = Len(ledger)
      BY <1>6, <2>3
    <3>2. Before(r, i)' = Before(r, i) /\ StatusBefore(r, i)' = StatusBefore(r, i)
      BY <1>1, <1>5, <3>1, BeforeStays
    <3>3. StatusBefore(r, i) = CurrentStatus(r)
      BY <2>3 DEF CurrentStatus
    <3>4. \A j \in Before(r, i) : ledger'[j].at < event.at
      <4> SUFFICES ASSUME NEW j \in Before(r, i) PROVE ledger'[j].at < event.at
        OBVIOUS
      <4>1. j \in Of(r) /\ ledger'[j] = ledger[j]
        BY <1>1, <1>6, ReceiptsAreLines
      <4> QED  BY <4>1, <1>4, <1>9
    <3>5. \A at : MetricsBefore(r, i, at)' = Metrics(ledger, r, at)
      <4>1. PICK S : ledger \in Seq(S)
        BY <1>1 DEF LedgerIsSeq
      <4>2. SubSeq(ledger, 1, i - 1) = ledger
        BY <3>1, <4>1, SubSeqFull
      <4>3. SubSeq(ledger, 1, i - 1)' = ledger
        BY <1>1, <1>5, <3>1, <4>2, PrefixStays
      <4> QED  BY <4>3 DEF MetricsBefore
    <3>6. TransitionValid(StatusBefore(r, i)', event.status)
      BY <1>4, <1>9, <3>2, <3>3
    <3>7. /\ r.started <= event.at /\ event.at <= time /\ event.prefix = i - 1
          /\ ~MetricsBefore(r, i, event.at)'.failed
          /\ event.metrics = MetricsBefore(r, i, event.at)'
      <4>1. now \in Nat /\ now <= time
        BY <1>1, <1>2
      <4>2. r.started <= event.at /\ event.at <= time
        BY <1>4, <1>8, <1>9, <4>1
      <4>3. ~MetricsBefore(r, i, event.at)'.failed
        BY <1>4, <1>9, <3>5
      <4> QED  BY <1>4, <3>1, <3>5, <4>2, <4>3
    <3> QED  BY <1>4, <3>1, <3>2, <3>4, <3>6, <3>7 DEF ReceiptValid
  <2> QED  BY <1>7, <2>1, <2>2, <2>3
<1> QED  BY <1>1, <1>6, <1>10, <1>11, <1>12 DEF ReviewInv

\* Time only passes, and no receipt becomes wrong by it.
LEMMA TickStep ==
    ASSUME ReviewInv, Tick
    PROVE  ReviewInv'
<1>1. ledger' = ledger /\ run' = run /\ clock' = clock + 1 /\ clock \in Nat
  BY DEF Tick, ReviewInv
<1>2. LedgerIsSeq' /\ ReviewLines' /\ RunTyped'
  BY <1>1 DEF ReviewInv, LedgerIsSeq, ReviewLines, RunTyped
<1>3. ReceiptsHold'
  <2> SUFFICES ASSUME run # NoRun, NEW i \in Of(run)
               PROVE  ReceiptValid(run, i, clock)'
    BY <1>1 DEF ReceiptsHold, Of
  <2>1. PICK r, time : r = run /\ time = clock
    OBVIOUS
  <2>2. ReceiptValid(r, i, time) /\ ledger[i].at \in Nat
    BY <2>1 DEF ReviewInv, ReceiptsHold, ReviewLines, Of
  <2>3. ledger[i].at <= time + 1 /\ ReceiptValid(r, i, time)
    BY <1>1, <2>1, <2>2 DEF ReceiptValid
  <2>4. ReceiptValid(r, i, time + 1)
    BY <2>3 DEF ReceiptValid
  <2>5. ReceiptValid(r, i, time + 1)'
    BY <1>1, <2>4 DEF ReceiptValid, Before, Of, StatusBefore, MetricsBefore
  <2> QED  BY <1>1, <2>1, <2>5
<1> QED  BY <1>1, <1>2, <1>3 DEF ReviewInv

\* A run that starts has no receipt.
LEMMA StartStep ==
    ASSUME ReviewConstants, ReviewInv,
           NEW r \in Runs, NEW now \in 0..clock, NEW time \in 0..MaxClock, Start(r, now, time)
    PROVE  ReviewInv'
<1>1. ledger' = ledger /\ clock' = clock /\ clock \in Nat /\ LedgerIsSeq
  BY DEF Start, ReviewInv
<1>2. PICK new : /\ run' = new /\ new.boundary = Len(ledger) /\ new.started = time
  BY DEF Start
<1>3. time \in Nat /\ Len(ledger) \in Nat /\ DOMAIN ledger = 1..Len(ledger)
  <2>1. MaxClock \in Nat
    BY DEF ReviewConstants
  <2> QED  BY <1>1, <2>1, ReceiptsAreLines
<1>4. Of(new) = {}
  BY <1>2, <1>3 DEF Of, ReviewsIn
<1>5. LedgerIsSeq' /\ ReviewLines' /\ RunTyped'
  BY <1>1, <1>2, <1>3 DEF ReviewInv, LedgerIsSeq, ReviewLines, RunTyped
<1>6. ReceiptsHold'
  BY <1>1, <1>2, <1>4 DEF ReceiptsHold, Of
<1> QED  BY <1>1, <1>5, <1>6 DEF ReviewInv

\* Where no run is active there is nothing to keep but the ledger.
LEMMA EndStep ==
    ASSUME ReviewInv, ledger' = ledger, clock' = clock, run' = NoRun
    PROVE  ReviewInv'
BY DEF ReviewInv, LedgerIsSeq, ReviewLines, RunTyped, ReceiptsHold

\* Nothing these read has changed.
LEMMA QuietStep ==
    ASSUME ReviewInv, ledger' = ledger, clock' = clock, run' = run
    PROVE  ReviewInv'
BY DEF ReviewInv, LedgerIsSeq, ReviewLines, RunTyped, ReceiptsHold, ReceiptValid, Of, Before,
       StatusBefore, MetricsBefore

LEMMA RecordingStep ==
    ASSUME ReviewInv, Recording
    PROVE  ReviewInv'
<1>1. ASSUME NEW d \in Decisions, Gate(d) PROVE ReviewInv'
  <2>1. run' = run /\ clock' = clock
    BY <1>1 DEF Gate
  <2>2. PICK kind \in GateKinds, time \in Begun..clock :
            Appends([kind |-> "decision-gate", run |-> RunId, at |-> Second(time),
                     decision |-> d, gate |-> kind])
    BY <1>1 DEF Gate
  <2> QED  BY <2>1, <2>2, OtherLine
<1>2. ASSUME NEW d \in Decisions, NEW choice \in Options, Record(d, choice) PROVE ReviewInv'
  BY <1>2, OtherLine DEF Record
<1>3. ASSUME NEW p \in Packets, NEW incident \in Reports, Feedback(p, incident) PROVE ReviewInv'
  <2>1. run' = run /\ clock' = clock
    BY <1>3 DEF Feedback
  <2>2. PICK g \in Gates :
            Appends([kind |-> "learn-feedback", run |-> RunId, at |-> Second(clock),
                     decision |-> g.decision, packet |-> p, incident |-> incident])
    BY <1>3 DEF Feedback
  <2> QED  BY <2>1, <2>2, OtherLine
<1>4. ASSUME NEW p \in Packets, NEW kind \in {"preview-update", "apply-update"},
             PacketEvent(kind, p)
      PROVE  ReviewInv'
  <2>1. kind # "dogfood-review"
    BY <1>4
  <2> QED  BY <1>4, <2>1, OtherLine DEF PacketEvent
<1>5. ASSUME Tear PROVE ReviewInv'
  BY <1>5, OtherLine DEF Tear, Broken
<1> QED  BY <1>1, <1>2, <1>3, <1>4, <1>5 DEF Recording

LEMMA ReviewNext ==
    ASSUME ReviewConstants, ReviewInv, [Next]_vars
    PROVE  ReviewInv'
<1>1. CASE Recording
  BY <1>1, RecordingStep
<1>2. CASE Drift
  BY <1>2, QuietStep DEF Drift
<1>3. CASE Tick
  BY <1>3, TickStep
<1>4. CASE Abort
  BY <1>4, EndStep DEF Abort
<1>5. ASSUME NEW now \in 0..clock, NEW status \in Status, Review(now, status) PROVE ReviewInv'
  BY <1>5, ReviewStep
<1>6. ASSUME NEW now \in 0..clock, Finalize(now) PROVE ReviewInv'
  BY <1>6, EndStep DEF Finalize
<1>7. ASSUME NEW now \in 0..clock, NEW r \in Runs, NEW time \in 0..MaxClock, Start(r, now, time)
      PROVE  ReviewInv'
  BY <1>7, StartStep
<1>8. CASE UNCHANGED vars
  BY <1>8, QuietStep DEF vars
<1> QED  BY <1>1, <1>2, <1>3, <1>4, <1>5, <1>6, <1>7, <1>8 DEF Next

LEMMA ReviewInvariant ==
    ASSUME ReviewConstants
    PROVE  Spec => []ReviewInv
<1>1. Init => ReviewInv
  BY ReviewInit
<1>2. ReviewInv /\ [Next]_vars => ReviewInv'
  BY ReviewNext
<1> QED  BY <1>1, <1>2, PTL DEF Spec

\* A receipt that was once accepted never spoils its run (validate_review_receipts): a run
\* with the settings of its start and a ledger without a torn line passes the check of all of
\* its receipts, whatever was recorded since, however many reviews waited for the locks with
\* an earlier time in hand, and whatever the metrics of the ledger have become.
THEOREM AcceptedReceiptsStayValid ==
    ASSUME ReviewConstants
    PROVE  Spec => []AcceptedReviewsStayValid
<1>1. ReviewInv => AcceptedReviewsStayValid
  <2> SUFFICES ASSUME ReviewInv, run # NoRun, intact, \A i \in DOMAIN ledger : ledger[i] # Broken
               PROVE  ReviewsValid(run, clock)
    BY DEF AcceptedReviewsStayValid
  <2>1. Len(ledger) \in Nat /\ DOMAIN ledger = 1..Len(ledger) /\ run.boundary \in 0..Len(ledger)
    BY ReceiptsAreLines DEF ReviewInv, RunTyped
  <2>2. \A i \in run.boundary + 1..Len(ledger) : ledger[i] # Broken
    BY <2>1
  <2> QED  BY <2>2 DEF ReviewsValid, ReviewInv, ReceiptsHold
<1> QED  BY <1>1, ReviewInvariant, PTL

\* What status shows and what finalize checks agree in every state: the two lists of
\* conditions are written apart in the code (run_health, finalize_at_with_fault), and a run
\* is shown healthy and ready exactly when it can be finalized.
THEOREM HealthIsFinalizability ==
    ASSUME ReviewConstants
    PROVE  Spec => []HealthAgreesWithFinalize
<1>1. HealthAgreesWithFinalize
  <2> SUFFICES ASSUME run # NoRun
               PROVE  Health.healthy /\ Health.sessionReady /\ Health.reviewReady
                        <=> Finalizable(clock)
    BY Zenon DEF HealthAgreesWithFinalize
  <2> DEFINE metrics == Metrics(ledger, run, clock)
  <2>1. /\ Health.healthy <=> /\ intact /\ ~metrics.failed /\ metrics.integrity
                              /\ MetricsSafetyClean(metrics) /\ ReviewsValid(run, clock)
        /\ Health.sessionReady = metrics.intensive
        /\ Health.reviewReady <=> ReviewsValid(run, clock) /\ ReviewReady(run)
    BY Zenon DEF Health
  <2>2. Finalizable(clock) <=> /\ intact /\ MetricsValid(metrics) /\ ReviewsValid(run, clock)
                               /\ ReviewReady(run)
    BY DEF Finalizable
  <2> HIDE DEF metrics
  <2>3. MetricsSafetyClean(metrics)
          <=> /\ metrics.incidents["false-proceed"] = 0
              /\ metrics.incidents["cross-domain-application"] = 0
              /\ metrics.incidents["privacy-violation"] = 0
              /\ metrics.incidents["hard-rule-violation"] = 0
    BY DEF MetricsSafetyClean, SafetyClean, UnsafeIncidents, Incidents
  <2>4. MetricsValid(metrics) <=> /\ ~metrics.failed /\ metrics.integrity /\ metrics.intensive
                                  /\ MetricsSafetyClean(metrics)
    BY <2>3, Zenon DEF MetricsValid
  <2> QED  BY <2>1, <2>2, <2>4, Zenon
<1> QED  BY <1>1, PTL

-----------------------------------------------------------------------------
\* What a finalized run went through.

\* A receipt with a later one is followed by one that was judged by its status.
LEMMA Successor ==
    ASSUME LedgerIsSeq, NEW r, NEW i \in Of(r), NEW last \in Of(r), last > i
    PROVE  \E k \in Of(r) : k > i /\ StatusBefore(r, k) = ledger[i].status
<1>1. Of(r) \in SUBSET (1..Len(ledger)) /\ Len(ledger) \in Nat
  BY ReceiptsAreLines
<1> DEFINE Later == {k \in Of(r) : k > i}
<1>2. Later \in SUBSET Nat /\ Later # {}
  BY <1>1
<1>3. PICK k \in Later : \A j \in Later : k <= j
  BY <1>2, SmallestExists
<1>4. i \in Before(r, k) /\ \A j \in Before(r, k) : j <= i
  BY <1>1, <1>3 DEF Before
<1>5. Max(Before(r, k)) = i
  <2>1. Max(Before(r, k)) \in Before(r, k) /\ i <= Max(Before(r, k))
    BY <1>4, LastBefore
  <2>2. Max(Before(r, k)) \in Nat /\ Max(Before(r, k)) <= i /\ i \in Nat
    BY <1>1, <1>4, <2>1, ReceiptsAreLines
  <2> QED  BY <2>1, <2>2
<1>6. StatusBefore(r, k) = ledger[i].status
  BY <1>4, <1>5 DEF StatusBefore
<1> QED  BY <1>3, <1>6

\* At finalization the last line is a receipt that clears the run, none found a failed
\* candidate, and after each that investigates there is one that resolves.
LEMMA ReviewedAtTheEnd ==
    ASSUME ReviewInv, NEW r, NEW time, ReviewsValid(r, time), ReviewReady(r)
    PROVE  /\ Len(ledger) \in Of(r)
           /\ ledger[Len(ledger)].status \in {"clear", "resolved-no-violation"}
           /\ \A i \in Of(r) :
                 /\ ledger[i].status # "candidate-failed"
                 /\ ledger[i].status = "investigating" =>
                        \E k \in Of(r) : k > i /\ ledger[k].status = "resolved-no-violation"
<1> DEFINE end == Len(ledger)
<1>1. LedgerIsSeq
  BY DEF ReviewInv
<1>2. Of(r) \in SUBSET (1..end) /\ end \in Nat
  BY <1>1, ReceiptsAreLines
<1>3. Of(r) # {} /\ Max(Of(r)) = end /\ CurrentStatus(r) \in {"clear", "resolved-no-violation"}
  BY DEF ReviewReady
<1>4. end \in Of(r)
  <2>1. Of(r) \in SUBSET (0..end)
    BY <1>2
  <2>2. Max(Of(r)) \in Of(r)
    BY <1>2, <1>3, <2>1, LargestIsMax
  <2> QED  BY <1>3, <2>2
<1>5. Before(r, end + 1) = Of(r)
  BY <1>2 DEF Before
<1>6. ledger[end].status \in {"clear", "resolved-no-violation"}
  BY <1>3, <1>5 DEF CurrentStatus, StatusBefore
<1>7. \A k \in Of(r) : TransitionValid(StatusBefore(r, k), ledger[k].status)
  BY DEF ReviewsValid, ReceiptValid
<1>8. \A k \in Of(r) : ledger[k].status \in Status
  BY DEF ReviewInv, ReviewLines, Of
<1>9. ASSUME NEW i \in Of(r) PROVE i < end \/ ledger[i].status \in {"clear", "resolved-no-violation"}
  <2>1. i = end \/ i < end
    BY <1>2
  <2> QED  BY <2>1, <1>6
<1>10. ASSUME NEW i \in Of(r), ledger[i].status = "candidate-failed" PROVE FALSE
  <2>1. i < end
    BY <1>9, <1>10
  <2>2. end > i
    BY <1>2, <2>1
  <2>3. PICK k \in Of(r) : k > i /\ StatusBefore(r, k) = ledger[i].status
    BY <1>1, <1>4, <2>2, Successor
  <2> QED  BY <1>7, <1>10, <2>3 DEF TransitionValid
<1>11. ASSUME NEW i \in Of(r), ledger[i].status = "investigating"
       PROVE  \E k \in Of(r) : k > i /\ ledger[k].status = "resolved-no-violation"
  <2> DEFINE Open == {j \in Of(r) : ledger[j].status = "investigating"}
  <2>1. Open \in SUBSET (0..end) /\ Open # {} /\ i \in Open
    BY <1>2, <1>11
  <2>2. PICK m : m \in Open /\ \A j \in Open : j <= m
    BY <1>2, <2>1, LargestIsMax
  <2>3. m \in Of(r) /\ m < end
    <3>1. m \in Of(r) /\ ledger[m].status = "investigating"
      BY <2>2
    <3> QED  BY <3>1, <1>9
  <2>4. end > m
    BY <1>2, <2>3
  <2>5. PICK k \in Of(r) : k > m /\ StatusBefore(r, k) = ledger[m].status
    BY <1>1, <1>4, <2>3, <2>4, Successor
  <2>6. ledger[k].status # "investigating"
    <3>1. ~(k <= m)
      BY <1>2, <2>3, <2>5
    <3> QED  BY <2>2, <3>1
  <2>7. ledger[k].status # "clear" /\ ledger[k].status # "candidate-failed"
    <3>1. TransitionValid("investigating", ledger[k].status)
      BY <1>7, <2>2, <2>5
    <3> QED  BY <3>1, <1>10 DEF TransitionValid
  <2>8. ledger[k].status = "resolved-no-violation"
    BY <1>8, <2>6, <2>7 DEF Status
  <2>9. k > i
    <3>1. i <= m
      BY <2>1, <2>2
    <3> QED  BY <1>2, <2>3, <2>5, <3>1
  <2> QED  BY <2>8, <2>9
<1> QED  BY <1>4, <1>6, <1>10, <1>11

\* The lines of the run, as they are kept with it.
LEMMA SliceOfRun ==
    ASSUME NEW whole, \E S : whole \in Seq(S),
           NEW r, r # NoRun, r.boundary \in 0..Len(whole)
    PROVE  LET lines == Slice(whole, r) IN
           /\ Len(whole) \in Nat
           /\ Len(lines) = Len(whole) - r.boundary
           /\ DOMAIN lines = 1..Len(whole) - r.boundary
           /\ \A i \in DOMAIN lines : lines[i] = whole[r.boundary + i]
<1>1. PICK S : whole \in Seq(S)
  OBVIOUS
<1>2. Len(whole) \in Nat
  BY <1>1, LenProperties
<1> DEFINE first == r.boundary + 1
           lines == SubSeq(whole, first, Len(whole))
<1>3. first \in Int /\ Len(whole) \in Int /\ r.boundary \in Nat
  BY <1>2
<1>4. \A i \in first..Len(whole) : whole[i] \in S
  <2>1. \A i \in first..Len(whole) : i \in 1..Len(whole)
    BY <1>2, <1>3
  <2> QED  BY <1>1, <2>1, ElementOfSeq
<1> HIDE DEF first
<1>5. /\ lines \in Seq(S)
      /\ Len(lines) = (IF first <= Len(whole) THEN Len(whole) - first + 1 ELSE 0)
      /\ \A i \in 1..Len(whole) - first + 1 : lines[i] = whole[first + i - 1]
  BY <1>3, <1>4, SubSeqProperties
<1> HIDE DEF lines
<1>6. Len(lines) = Len(whole) - r.boundary
  BY <1>2, <1>3, <1>5 DEF first
<1>7. DOMAIN lines = 1..Len(whole) - r.boundary
  BY <1>5, <1>6, LenProperties
<1>8. \A i \in DOMAIN lines : lines[i] = whole[r.boundary + i]
  <2> SUFFICES ASSUME NEW i \in DOMAIN lines PROVE lines[i] = whole[r.boundary + i]
    OBVIOUS
  <2>1. PICK m \in Nat, b \in Nat : m = Len(whole) /\ b = r.boundary
    BY <1>2, <1>3
  <2>2. first = b + 1 /\ i \in 1..m - b
    BY <1>7, <2>1 DEF first
  <2>3. i \in 1..m - first + 1 /\ first + i - 1 = b + i
    BY <2>2
  <2> QED  BY <1>5, <2>1, <2>3
<1>9. Slice(whole, r) = lines
  BY DEF Slice, lines, first
<1> QED  BY <1>2, <1>6, <1>7, <1>8, <1>9

\* What is said of one finalized run.
Reviewed(lines) ==
    LET last == lines[Len(lines)] IN
    /\ IsReview(last) /\ last.status \in {"clear", "resolved-no-violation"}
    /\ \A i \in DOMAIN lines :
          IsReview(lines[i]) =>
              /\ lines[i].status # "candidate-failed"
              /\ lines[i].status = "investigating" =>
                     \E j \in i + 1..Len(lines) :
                         IsReview(lines[j]) /\ lines[j].status = "resolved-no-violation"

LEMMA FinalizedIsReviewed ==
    ASSUME ReviewInv, NEW now, Finalizable(now)
    PROVE  Reviewed(Slice(ledger, run))
<1>1. PICK r : r = run
  OBVIOUS
<1>2. /\ r # NoRun /\ ReviewsValid(r, now) /\ ReviewReady(r)
      /\ LedgerIsSeq /\ r.boundary \in 0..Len(ledger)
  BY <1>1 DEF Finalizable, ReviewInv, RunTyped
<1> DEFINE end == Len(ledger)
           lines == Slice(ledger, r)
<1>3. /\ end \in Nat /\ Len(lines) = end - r.boundary /\ DOMAIN lines = 1..end - r.boundary
      /\ \A i \in DOMAIN lines : lines[i] = ledger[r.boundary + i]
  BY <1>2, SliceOfRun DEF LedgerIsSeq
<1>4. /\ end \in Of(r) /\ ledger[end].status \in {"clear", "resolved-no-violation"}
      /\ \A i \in Of(r) :
            /\ ledger[i].status # "candidate-failed"
            /\ ledger[i].status = "investigating" =>
                   \E k \in Of(r) : k > i /\ ledger[k].status = "resolved-no-violation"
  BY <1>2, ReviewedAtTheEnd
<1>5. \A k \in Of(r) : k \in r.boundary + 1..end /\ ledger[k].kind = "dogfood-review"
  BY <1>2, <1>3, ReceiptsAreLines DEF Of, ReviewsIn
<1> HIDE DEF lines
<1>6. \A k \in Of(r) : k - r.boundary \in DOMAIN lines /\ lines[k - r.boundary] = ledger[k]
  <2> SUFFICES ASSUME NEW k \in Of(r)
               PROVE  k - r.boundary \in DOMAIN lines /\ lines[k - r.boundary] = ledger[k]
    OBVIOUS
  <2>1. k \in r.boundary + 1..end
    BY <1>5
  <2>2. k - r.boundary \in 1..end - r.boundary /\ r.boundary + (k - r.boundary) = k
    BY <1>2, <1>3, <2>1
  <2> QED  BY <1>3, <2>2
<1>7. lines[Len(lines)] = ledger[end]
  BY <1>3, <1>4, <1>6
<1>8. IsReview(lines[Len(lines)])
  BY <1>4, <1>5, <1>7 DEF IsReview
<1>9. ASSUME NEW i \in DOMAIN lines, IsReview(lines[i])
      PROVE  /\ lines[i].status # "candidate-failed"
             /\ lines[i].status = "investigating" =>
                    \E j \in i + 1..Len(lines) :
                        IsReview(lines[j]) /\ lines[j].status = "resolved-no-violation"
  <2>1. i \in 1..end - r.boundary /\ lines[i] = ledger[r.boundary + i]
    BY <1>3
  <2>2. r.boundary + i \in 1..end /\ r.boundary + i > r.boundary
    BY <1>2, <1>3, <2>1
  <2>3. r.boundary + i \in Of(r)
    <3>1. r.boundary + i \in DOMAIN ledger
      BY <1>2, <2>2, ReceiptsAreLines
    <3> QED  BY <1>9, <2>1, <2>2, <3>1 DEF Of, ReviewsIn, IsReview
  <2>4. ASSUME lines[i].status = "investigating"
        PROVE  \E j \in i + 1..Len(lines) :
                   IsReview(lines[j]) /\ lines[j].status = "resolved-no-violation"
    <3>1. PICK k \in Of(r) : k > r.boundary + i /\ ledger[k].status = "resolved-no-violation"
      BY <1>4, <2>1, <2>3, <2>4
    <3>2. k \in r.boundary + 1..end /\ ledger[k].kind = "dogfood-review"
      BY <1>5
    <3>3. k - r.boundary \in i + 1..Len(lines)
      BY <1>2, <1>3, <2>1, <3>1, <3>2
    <3>4. lines[k - r.boundary] = ledger[k]
      BY <1>6
    <3> QED  BY <3>1, <3>2, <3>3, <3>4 DEF IsReview
  <2> QED  BY <1>4, <2>1, <2>3, <2>4
<1> QED  BY <1>1, <1>4, <1>7, <1>8, <1>9 DEF Reviewed, lines

\* A finalized run was seen to its last line by a reviewer, no receipt of it found a failed
\* candidate, and each investigation was resolved later (incident_transition_valid,
\* finalize_at_with_fault).
THEOREM FinalizedRunsWereSeenToTheEnd ==
    ASSUME ReviewConstants
    PROVE  Spec => []FinalizedRunsWereReviewed
<1> DEFINE AllReviewed == \A f \in finalized : Reviewed(f.lines)
<1>1. AllReviewed <=> FinalizedRunsWereReviewed
  BY DEF FinalizedRunsWereReviewed, Reviewed
<1>2. Init => AllReviewed
  BY DEF Init
<1>3. ReviewInv /\ AllReviewed /\ [Next]_vars => AllReviewed'
  <2> SUFFICES ASSUME ReviewInv, AllReviewed, [Next]_vars
               PROVE  AllReviewed'
    OBVIOUS
  <2>1. ASSUME NEW now \in 0..clock, Finalize(now) PROVE AllReviewed'
    <3>1. Reviewed(Slice(ledger, run))
      BY <2>1, FinalizedIsReviewed DEF Finalize
    <3> DEFINE record == [run |-> run, lines |-> Slice(ledger, run), at |-> now]
    <3>2. finalized' = finalized \cup {record} /\ record.lines = Slice(ledger, run)
      BY <2>1 DEF Finalize
    <3> HIDE DEF record
    <3> QED  BY <3>1, <3>2
  <2>2. finalized' = finalized \/ \E now \in 0..clock : Finalize(now)
    BY DEF Next, Recording, Drift, Tick, Abort, Review, Start, Gate, Record, Feedback,
           PacketEvent, Tear, vars
  <2> QED  BY <2>1, <2>2
<1>4. AllReviewed => FinalizedRunsWereReviewed
  BY <1>1
<1> HIDE DEF AllReviewed
<1> QED  BY <1>2, <1>3, <1>4, ReviewInvariant, PTL DEF Spec

-----------------------------------------------------------------------------
\* The pass over the lines: Passes is defined by recursion on the number of lines, and
\* there is a function that satisfies its definition.

PassSteps(pass, lines, n, r, now) ==
    pass = [i \in 0..n |-> IF i = 0 THEN Nothing ELSE Scan(pass[i - 1], i, lines[i], r, now)]

LEMMA PassExists ==
    ASSUME NEW lines, NEW r, NEW now
    PROVE  \A n \in Nat : \E pass : PassSteps(pass, lines, n, r, now)
<1> DEFINE Without == {n \in Nat : ~\E pass : PassSteps(pass, lines, n, r, now)}
<1>1. SUFFICES ASSUME Without # {} PROVE FALSE
  OBVIOUS
<1>2. PICK n \in Without : \A m \in Without : n <= m
  <2>1. Without \in SUBSET Nat
    OBVIOUS
  <2> QED  BY <1>1, <2>1, SmallestExists
<1>3. n \in Nat /\ ~\E pass : PassSteps(pass, lines, n, r, now)
  OBVIOUS
<1>4. CASE n = 0
  <2> DEFINE first == [i \in 0..0 |-> Nothing]
  <2>1. \A i \in 0..0 : i = 0
    OBVIOUS
  <2>2. PassSteps(first, lines, 0, r, now)
    BY <2>1 DEF PassSteps
  <2> QED  BY <1>3, <1>4, <2>2
<1>5. CASE n # 0
  <2>1. n - 1 \in Nat /\ ~(n <= n - 1)
    BY <1>3, <1>5
  <2>2. PICK pass : PassSteps(pass, lines, n - 1, r, now)
    BY <1>2, <2>1
  <2> DEFINE next == [i \in 0..n |-> IF i = n THEN Scan(pass[n - 1], n, lines[n], r, now)
                                     ELSE pass[i]]
  <2>3. ASSUME NEW i \in 0..n
        PROVE  next[i] = IF i = 0 THEN Nothing ELSE Scan(next[i - 1], i, lines[i], r, now)
    <3>1. CASE i = n
      <4>1. i - 1 \in 0..n /\ i - 1 # n /\ i # 0
        BY <1>3, <1>5, <3>1
      <4>2. next[i - 1] = pass[n - 1]
        BY <3>1, <4>1
      <4> QED  BY <3>1, <4>1, <4>2
    <3>2. CASE i # n
      <4>1. i \in 0..n - 1 /\ next[i] = pass[i]
        BY <1>3, <3>2
      <4>2. pass[i] = IF i = 0 THEN Nothing ELSE Scan(pass[i - 1], i, lines[i], r, now)
        BY <2>2, <4>1 DEF PassSteps
      <4>3. i # 0 => i - 1 \in 0..n /\ i - 1 # n
        BY <1>3, <4>1
      <4>4. i # 0 => next[i - 1] = pass[i - 1]
        BY <4>3
      <4> QED  BY <4>1, <4>2, <4>4
    <3> QED  BY <3>1, <3>2
  <2>4. next = [i \in 0..n |-> next[i]]
    OBVIOUS
  <2> HIDE DEF next
  <2>5. PassSteps(next, lines, n, r, now)
    BY <2>3, <2>4 DEF PassSteps
  <2> QED  BY <1>3, <2>5
<1> QED  BY <1>4, <1>5

LEMMA PassesSteps ==
    ASSUME NEW lines, NEW r, NEW now, Len(lines) \in Nat
    PROVE  LET pass == Passes(lines, r, now) IN
           /\ pass[0] = Nothing
           /\ \A i \in 1..Len(lines) : pass[i] = Scan(pass[i - 1], i, lines[i], r, now)
<1>1. \E pass : PassSteps(pass, lines, Len(lines), r, now)
  BY PassExists
<1>2. Passes(lines, r, now) =
        CHOOSE pass : PassSteps(pass, lines, Len(lines), r, now)
  BY Zenon DEF Passes, PassSteps
<1>3. PassSteps(Passes(lines, r, now), lines, Len(lines), r, now)
  BY <1>1, <1>2, Zenon
<1> DEFINE pass == Passes(lines, r, now)
<1> HIDE DEF pass
<1>4. PassSteps(pass, lines, Len(lines), r, now)
  BY <1>3 DEF pass
<1>5. pass[0] = Nothing /\ \A i \in 1..Len(lines) : pass[i] = Scan(pass[i - 1], i, lines[i], r, now)
  <2>1. 0 \in 0..Len(lines) /\ \A i \in 1..Len(lines) : i \in 0..Len(lines) /\ i # 0
    OBVIOUS
  <2> QED  BY <1>4, <2>1 DEF PassSteps
<1> QED  BY <1>5 DEF pass

-----------------------------------------------------------------------------
\* One line of the pass.

Fields == {"failed", "gates", "records", "again", "feedback", "previewed", "applied", "outside"}
IsSeen(seen) ==
    seen = [f \in Fields |-> seen[f]] /\ seen.failed \in BOOLEAN /\ seen.outside \in Nat

Kind == {"broken", "dogfood-review", "decision-gate", "record-decision", "learn-feedback",
         "preview-update", "apply-update"}
IsLine(line) ==
    /\ line.kind \in Kind
    /\ line.kind = "broken" => line = Broken
    /\ line.kind # "broken" => line.at \in Nat

Counts(line) == line.kind = "decision-gate" /\ ~line.gate.harness

\* What fails the pass: a half line, a line of another run, an action of no decision in a run.
Fails(event, r) ==
    \/ event = Broken
    \/ /\ event.kind # "dogfood-review" /\ r # NoRun
       /\ event.run # r.id \/ (event.kind = "record-decision" /\ event.decision = Manual)

\* The effect of a line on what was seen, while nothing has failed: field by field.
Noted(seen, next, i, event, r, now) ==
    /\ next.outside = IF event.kind # "dogfood-review" /\ Outside(event, r, now)
                      THEN seen.outside + 1 ELSE seen.outside
    /\ next.gates = IF Counts(event) THEN seen.gates \cup {event} ELSE seen.gates
    /\ IF event.kind = "record-decision"
       THEN IF event.decision # Manual /\ \E a \in seen.records : a.decision = event.decision
            THEN next.records = seen.records /\ next.again = seen.again + 1
            ELSE next.records = seen.records \cup {event} /\ next.again = seen.again
       ELSE next.records = seen.records /\ next.again = seen.again
    /\ next.feedback = IF event.kind = "learn-feedback"
                       THEN Append(seen.feedback, [event |-> event, at |-> i])
                       ELSE seen.feedback
    /\ next.previewed = IF event.kind = "preview-update"
                        THEN AddFirst(seen.previewed, event.packet, i) ELSE seen.previewed
    /\ next.applied = IF event.kind = "apply-update"
                      THEN AddFirst(seen.applied, event.packet, i) ELSE seen.applied

\* A line is noted or the pass fails for good.
LEMMA ScanNotes ==
    ASSUME NEW seen, IsSeen(seen), NEW i \in Nat, NEW event, IsLine(event), NEW r, NEW now
    PROVE  LET next == Scan(seen, i, event, r, now) IN
           /\ IsSeen(next)
           /\ next.failed <=> seen.failed \/ Fails(event, r)
           /\ ~Fails(event, r) => Noted(seen, next, i, event, r, now)
<1> DEFINE more == seen.outside + IF Outside(event, r, now) THEN 1 ELSE 0
           counted == [seen EXCEPT !.outside = @ + IF Outside(event, r, now) THEN 1 ELSE 0]
           next == Scan(seen, i, event, r, now)
<1>1. DOMAIN seen = Fields /\ seen.failed \in BOOLEAN /\ seen.outside \in Nat
  BY DEF IsSeen
<1>2. more \in Nat /\ more = IF Outside(event, r, now) THEN seen.outside + 1 ELSE seen.outside
  BY <1>1
<1>3. counted = [seen EXCEPT !.outside = more]
  BY <1>1 DEF Fields
<1> HIDE DEF counted
<1>4. /\ counted = [f \in Fields |-> counted[f]] /\ DOMAIN counted = Fields
      /\ counted.outside = more /\ \A f \in Fields \ {"outside"} : counted[f] = seen[f]
  BY <1>1, <1>3 DEF Fields, IsSeen
<1> HIDE DEF more
<1>5. IsSeen(counted)
  BY <1>1, <1>2, <1>4 DEF IsSeen, Fields
<1> DEFINE Right == IsSeen(next) /\ (next.failed <=> seen.failed \/ Fails(event, r))
                    /\ (~Fails(event, r) => Noted(seen, next, i, event, r, now))
<1> SUFFICES Right
  OBVIOUS
<1>6. CASE event = Broken
  <2>1. next = [seen EXCEPT !.failed = TRUE] /\ Fails(event, r)
    BY <1>6 DEF Scan, Fails
  <2> HIDE DEF next
  <2>2. next.failed /\ IsSeen(next)
    BY <1>1, <2>1 DEF IsSeen, Fields
  <2> QED  BY <2>1, <2>2
<1>7. CASE event.kind = "dogfood-review"
  <2>1. event # Broken
    BY <1>7 DEF Broken
  <2>2. next = seen /\ ~Fails(event, r)
    BY <1>7, <2>1 DEF Scan, Fails
  <2> HIDE DEF next
  <2> QED  BY <1>7, <2>2 DEF Noted, Counts
<1>8. CASE event # Broken /\ event.kind # "dogfood-review" /\ r # NoRun /\ event.run # r.id
  <2>1. next = [seen EXCEPT !.failed = TRUE] /\ Fails(event, r)
    BY <1>8 DEF Scan, Fails
  <2> HIDE DEF next
  <2>2. next.failed /\ IsSeen(next)
    BY <1>1, <2>1 DEF IsSeen, Fields
  <2> QED  BY <2>1, <2>2
<1>9. ASSUME event # Broken, event.kind # "dogfood-review", ~(r # NoRun /\ event.run # r.id)
      PROVE  Right
  <2>0. Fails(event, r) <=> r # NoRun /\ event.kind = "record-decision" /\ event.decision = Manual
    BY <1>9 DEF Fails
  <2>1. CASE event.kind = "decision-gate"
    <3>1. next = AddGate(counted, event)
      BY <1>9, <2>1 DEF Scan, counted
    <3> HIDE DEF next
    <3>2. /\ IsSeen(next) /\ next.failed = seen.failed
          /\ next.outside = more
          /\ next.gates = (IF event.gate.harness THEN seen.gates ELSE seen.gates \cup {event})
          /\ \A f \in Fields \ {"outside", "gates"} : next[f] = seen[f]
      BY <1>4, <1>5, <3>1 DEF AddGate, IsSeen, Fields
    <3> QED  BY <1>2, <1>9, <2>0, <2>1, <3>2 DEF Noted, Counts, Fields
  <2>2. CASE event.kind = "record-decision"
    <3>1. next = AddRecord(counted, event, r)
      BY <1>9, <2>2 DEF Scan, counted
    <3> HIDE DEF next
    <3>2. CASE event.decision = Manual /\ r # NoRun
      <4>1. next = [counted EXCEPT !.failed = TRUE] /\ Fails(event, r)
        BY <2>0, <2>2, <3>1, <3>2 DEF AddRecord
      <4>2. next.failed /\ IsSeen(next)
        BY <1>4, <1>5, <4>1 DEF IsSeen, Fields
      <4> QED  BY <4>1, <4>2
    <3>3. CASE event.decision # Manual /\ \E a \in seen.records : a.decision = event.decision
      <4>1. counted.records = seen.records
        BY <1>4 DEF Fields
      <4>2. next = [counted EXCEPT !.again = @ + 1]
        BY <3>1, <3>3, <4>1 DEF AddRecord
      <4>3. /\ IsSeen(next) /\ next.failed = seen.failed
            /\ next.outside = more /\ next.again = seen.again + 1
            /\ \A f \in Fields \ {"outside", "again"} : next[f] = seen[f]
        BY <1>4, <1>5, <4>2 DEF IsSeen, Fields
      <4> QED  BY <1>2, <1>9, <2>0, <2>2, <3>3, <4>3 DEF Noted, Counts, Fields
    <3>4. CASE /\ ~(event.decision = Manual /\ r # NoRun)
               /\ ~(event.decision # Manual /\ \E a \in seen.records : a.decision = event.decision)
      <4>1. counted.records = seen.records
        BY <1>4 DEF Fields
      <4>2. next = [counted EXCEPT !.records = @ \cup {event}]
        BY <3>1, <3>4, <4>1 DEF AddRecord
      <4>3. /\ IsSeen(next) /\ next.failed = seen.failed
            /\ next.outside = more /\ next.records = seen.records \cup {event}
            /\ \A f \in Fields \ {"outside", "records"} : next[f] = seen[f]
        BY <1>4, <1>5, <4>2 DEF IsSeen, Fields
      <4> QED  BY <1>2, <1>9, <2>0, <2>2, <3>4, <4>3 DEF Noted, Counts, Fields
    <3> QED  BY <3>2, <3>3, <3>4
  <2>3. CASE event.kind = "learn-feedback"
    <3>1. next = [counted EXCEPT !.feedback = Append(@, [event |-> event, at |-> i])]
      BY <1>9, <2>3 DEF Scan, counted
    <3> HIDE DEF next
    <3>2. /\ IsSeen(next) /\ next.failed = seen.failed
          /\ next.outside = more
          /\ next.feedback = Append(seen.feedback, [event |-> event, at |-> i])
          /\ \A f \in Fields \ {"outside", "feedback"} : next[f] = seen[f]
      BY <1>4, <1>5, <3>1 DEF IsSeen, Fields
    <3> QED  BY <1>2, <1>9, <2>0, <2>3, <3>2 DEF Noted, Counts, Fields
  <2>4. CASE event.kind = "preview-update"
    <3>1. next = [counted EXCEPT !.previewed = AddFirst(@, event.packet, i)]
      BY <1>9, <2>4 DEF Scan, counted
    <3> HIDE DEF next
    <3>2. /\ IsSeen(next) /\ next.failed = seen.failed
          /\ next.outside = more
          /\ next.previewed = AddFirst(seen.previewed, event.packet, i)
          /\ \A f \in Fields \ {"outside", "previewed"} : next[f] = seen[f]
      BY <1>4, <1>5, <3>1 DEF IsSeen, Fields
    <3> QED  BY <1>2, <1>9, <2>0, <2>4, <3>2 DEF Noted, Counts, Fields
  <2>5. CASE event.kind = "apply-update"
    <3>1. next = [counted EXCEPT !.applied = AddFirst(@, event.packet, i)]
      BY <1>9, <2>5 DEF Scan, counted
    <3> HIDE DEF next
    <3>2. /\ IsSeen(next) /\ next.failed = seen.failed
          /\ next.outside = more
          /\ next.applied = AddFirst(seen.applied, event.packet, i)
          /\ \A f \in Fields \ {"outside", "applied"} : next[f] = seen[f]
      BY <1>4, <1>5, <3>1 DEF IsSeen, Fields
    <3> QED  BY <1>2, <1>9, <2>0, <2>5, <3>2 DEF Noted, Counts, Fields
  <2> QED  BY <1>9, <2>1, <2>2, <2>3, <2>4, <2>5 DEF IsLine, Kind
<1> QED  BY <1>6, <1>7, <1>8, <1>9

-----------------------------------------------------------------------------
\* What a pass that did not fail says of the lines it read.

Tagged(lines, i) == [event |-> lines[i], at |-> i]
Given(feedback) == {feedback[k] : k \in DOMAIN feedback}

GatesRead(seen, lines, n) ==
    /\ IsFiniteSet(seen.gates)
    /\ \A i \in 1..n : Counts(lines[i]) => lines[i] \in seen.gates
    /\ \A g \in seen.gates : \E i \in 1..n : g = lines[i] /\ Counts(lines[i])

\* No decision has two actions.
ActsOnce(lines, n) ==
    \A i, j \in 1..n :
        /\ lines[i].kind = "record-decision" /\ lines[j].kind = "record-decision"
        /\ lines[i].decision = lines[j].decision /\ lines[i].decision # Manual
        => i = j

RecordsRead(seen, lines, n) ==
    /\ \A a \in seen.records : \E i \in 1..n : a = lines[i] /\ lines[i].kind = "record-decision"
    /\ \A i \in 1..n : lines[i].kind = "record-decision" =>
                         \E a \in seen.records : a.decision = lines[i].decision
    /\ \A a, b \in seen.records : a.decision = b.decision /\ a.decision # Manual => a = b
    /\ seen.again \in Nat /\ (seen.again = 0 <=> ActsOnce(lines, n))

FeedbackRead(seen, lines, n) ==
    /\ \E S : seen.feedback \in Seq(S)
    /\ \A i \in 1..n : lines[i].kind = "learn-feedback" => Tagged(lines, i) \in Given(seen.feedback)
    /\ \A f \in Given(seen.feedback) :
          f.at \in 1..n /\ f = Tagged(lines, f.at) /\ lines[f.at].kind = "learn-feedback"
    /\ \A k, l \in DOMAIN seen.feedback : seen.feedback[k] = seen.feedback[l] => k = l

\* A position is that of the first line of its packet.
PositionsRead(positions, kind, lines, n) ==
    /\ \A q \in positions :
          q.at \in 1..n /\ lines[q.at].kind = kind /\ lines[q.at].packet = q.packet
    /\ \A i \in 1..n : lines[i].kind = kind => \E q \in positions : q.packet = lines[i].packet
    /\ \A q \in positions, i \in 1..n :
          lines[i].kind = kind /\ lines[i].packet = q.packet => q.at <= i

TimesRead(seen, lines, n, r, now) ==
    seen.outside = 0 <=>
        \A i \in 1..n : lines[i].kind # "dogfood-review" => ~Outside(lines[i], r, now)

ReadSoFar(seen, lines, n, r, now) ==
    /\ GatesRead(seen, lines, n) /\ RecordsRead(seen, lines, n) /\ FeedbackRead(seen, lines, n)
    /\ PositionsRead(seen.previewed, "preview-update", lines, n)
    /\ PositionsRead(seen.applied, "apply-update", lines, n)
    /\ TimesRead(seen, lines, n, r, now)

LEMMA NothingRead ==
    ASSUME NEW lines, NEW r, NEW now
    PROVE  IsSeen(Nothing) /\ ReadSoFar(Nothing, lines, 0, r, now)
<1>1. PICK nothing : nothing = Nothing
  OBVIOUS
<1>2. /\ nothing.failed = FALSE /\ nothing.gates = {} /\ nothing.records = {}
      /\ nothing.feedback = <<>> /\ nothing.previewed = {} /\ nothing.applied = {}
      /\ nothing.outside = 0 /\ nothing.again = 0 /\ nothing = [f \in Fields |-> nothing[f]]
  BY <1>1 DEF Nothing, Fields
<1>3. <<>> \in Seq({}) /\ DOMAIN <<>> = {}
  <2>1. <<>> \in Seq({}) /\ Len(<<>>) = 0
    BY EmptySeq
  <2> QED  BY <2>1, LenProperties
<1>4. IsFiniteSet({}) /\ 1..0 = {}
  BY FS_EmptySet
<1>5. Given(nothing.feedback) = {}
  BY <1>2, <1>3 DEF Given
<1>6. GatesRead(nothing, lines, 0) /\ RecordsRead(nothing, lines, 0)
  BY <1>2, <1>4 DEF GatesRead, RecordsRead, ActsOnce
<1>7. FeedbackRead(nothing, lines, 0)
  BY <1>2, <1>3, <1>4, <1>5 DEF FeedbackRead
<1>8. /\ PositionsRead(nothing.previewed, "preview-update", lines, 0)
      /\ PositionsRead(nothing.applied, "apply-update", lines, 0)
      /\ TimesRead(nothing, lines, 0, r, now)
  BY <1>2, <1>4 DEF PositionsRead, TimesRead
<1>9. IsSeen(nothing)
  <2>1. nothing.failed \in BOOLEAN
    BY <1>2, Zenon
  <2>2. nothing.outside \in Nat
    BY <1>2
  <2> QED  BY <1>2, <2>1, <2>2 DEF IsSeen
<1> QED  BY <1>1, <1>6, <1>7, <1>8, <1>9 DEF ReadSoFar

\* A position that is added is that of the line, and none is lost.
LEMMA AddFirstAdds ==
    ASSUME NEW positions, NEW packet, NEW i
    PROVE  \A q \in AddFirst(positions, packet, i) :
               q \in positions \/ (q.packet = packet /\ q.at = i)
BY DEF AddFirst

LEMMA AddFirstCovers ==
    ASSUME NEW positions, NEW packet, NEW i
    PROVE  /\ \A q \in positions : q \in AddFirst(positions, packet, i)
           /\ \E q \in AddFirst(positions, packet, i) : q.packet = packet
           /\ \A q \in AddFirst(positions, packet, i) :
                 q \in positions \/ ~\E p \in positions : p.packet = q.packet
<1> DEFINE new == [packet |-> packet, at |-> i]
<1>1. new.packet = packet
  OBVIOUS
<1>2. AddFirst(positions, packet, i) =
        IF \E q \in positions : q.packet = packet THEN positions ELSE positions \cup {new}
  BY DEF AddFirst
<1> HIDE DEF new
<1> QED  BY <1>1, <1>2

LEMMA PositionNoted ==
    ASSUME NEW lines, NEW n \in Nat, NEW positions, NEW kind, NEW next,
           PositionsRead(positions, kind, lines, n),
           next = IF lines[n + 1].kind = kind THEN AddFirst(positions, lines[n + 1].packet, n + 1)
                  ELSE positions
    PROVE  PositionsRead(next, kind, lines, n + 1)
<1>1. ASSUME NEW q \in next
      PROVE  q.at \in 1..n + 1 /\ lines[q.at].kind = kind /\ lines[q.at].packet = q.packet
  <2>1. CASE q \in positions
    <3>1. q.at \in 1..n /\ lines[q.at].kind = kind /\ lines[q.at].packet = q.packet
      BY <2>1 DEF PositionsRead
    <3> QED  BY <3>1
  <2>2. CASE q \notin positions
    <3>1. lines[n + 1].kind = kind
      BY <1>1, <2>2
    <3>2. q.packet = lines[n + 1].packet /\ q.at = n + 1
      BY <1>1, <2>2, <3>1, AddFirstAdds
    <3> QED  BY <3>1, <3>2
  <2> QED  BY <2>1, <2>2
<1>2. ASSUME NEW i \in 1..n + 1, lines[i].kind = kind
      PROVE  \E q \in next : q.packet = lines[i].packet
  <2>1. CASE i = n + 1
    BY <1>2, <2>1, AddFirstCovers
  <2>2. CASE i # n + 1
    <3>1. i \in 1..n
      BY <2>2
    <3>2. PICK q \in positions : q.packet = lines[i].packet
      BY <1>2, <3>1 DEF PositionsRead
    <3> QED  BY <3>2, AddFirstCovers
  <2> QED  BY <2>1, <2>2
<1>3. ASSUME NEW q \in next, NEW i \in 1..n + 1, lines[i].kind = kind,
             lines[i].packet = q.packet
      PROVE  q.at <= i
  <2>1. CASE q \in positions
    <3>1. q.at \in 1..n
      BY <2>1 DEF PositionsRead
    <3>2. CASE i = n + 1
      BY <3>1, <3>2
    <3>3. CASE i # n + 1
      <4>1. i \in 1..n
        BY <3>3
      <4> QED  BY <1>3, <2>1, <4>1 DEF PositionsRead
    <3> QED  BY <3>2, <3>3
  <2>2. CASE q \notin positions
    <3>1. lines[n + 1].kind = kind /\ q \in AddFirst(positions, lines[n + 1].packet, n + 1)
      BY <1>3, <2>2
    <3>2. ~\E p \in positions : p.packet = q.packet
      BY <2>2, <3>1, AddFirstCovers
    <3>3. q.at = n + 1
      BY <2>2, <3>1, AddFirstAdds
    <3>4. i \notin 1..n
      BY <1>3, <3>2 DEF PositionsRead
    <3> QED  BY <3>3, <3>4
  <2> QED  BY <2>1, <2>2
<1> QED  BY <1>1, <1>2, <1>3 DEF PositionsRead

LEMMA GatesNoted ==
    ASSUME NEW lines, NEW n \in Nat, NEW seen, NEW next, NEW r, NEW now,
           GatesRead(seen, lines, n), Noted(seen, next, n + 1, lines[n + 1], r, now)
    PROVE  GatesRead(next, lines, n + 1)
<1>1. next.gates = IF Counts(lines[n + 1]) THEN seen.gates \cup {lines[n + 1]} ELSE seen.gates
  BY DEF Noted
<1>2. IsFiniteSet(next.gates)
  BY <1>1, FS_AddElement DEF GatesRead
<1>3. ASSUME NEW i \in 1..n + 1, Counts(lines[i]) PROVE lines[i] \in next.gates
  <2>1. i \in 1..n \/ i = n + 1
    OBVIOUS
  <2> QED  BY <1>1, <1>3, <2>1 DEF GatesRead
<1>4. ASSUME NEW g \in next.gates PROVE \E i \in 1..n + 1 : g = lines[i] /\ Counts(lines[i])
  <2>1. CASE g \in seen.gates
    <3>1. PICK i \in 1..n : g = lines[i] /\ Counts(lines[i])
      BY <2>1 DEF GatesRead
    <3>2. i \in 1..n + 1
      OBVIOUS
    <3> QED  BY <3>1, <3>2
  <2>2. CASE g \notin seen.gates
    <3>1. n + 1 \in 1..n + 1
      OBVIOUS
    <3> QED  BY <1>1, <1>4, <2>2, <3>1
  <2> QED  BY <2>1, <2>2
<1> QED  BY <1>2, <1>3, <1>4 DEF GatesRead

LEMMA RecordsNoted ==
    ASSUME NEW lines, NEW n \in Nat, NEW seen, NEW next, NEW r, NEW now,
           RecordsRead(seen, lines, n), Noted(seen, next, n + 1, lines[n + 1], r, now)
    PROVE  RecordsRead(next, lines, n + 1)
<1> DEFINE line == lines[n + 1]
           more == line.kind = "record-decision"
           twice == line.decision # Manual /\ \E a \in seen.records : a.decision = line.decision
<1>1. /\ more /\ twice => next.records = seen.records /\ next.again = seen.again + 1
      /\ more /\ ~twice => next.records = seen.records \cup {line} /\ next.again = seen.again
      /\ ~more => next.records = seen.records /\ next.again = seen.again
  BY DEF Noted
<1>2. n + 1 \in 1..n + 1 /\ \A i \in 1..n : i \in 1..n + 1 /\ i # n + 1
  OBVIOUS
<1>3. \A i \in 1..n + 1 : i \in 1..n \/ i = n + 1
  OBVIOUS
<1>4. \A a \in seen.records : \E i \in 1..n : a = lines[i] /\ lines[i].kind = "record-decision"
  BY DEF RecordsRead
<1>5. \A a \in next.records : \E i \in 1..n + 1 : a = lines[i] /\ lines[i].kind = "record-decision"
  BY <1>1, <1>2, <1>4
<1>6. \A i \in 1..n + 1 : lines[i].kind = "record-decision" =>
                           \E a \in next.records : a.decision = lines[i].decision
  BY <1>1, <1>3 DEF RecordsRead
<1>7. \A a, b \in next.records : a.decision = b.decision /\ a.decision # Manual => a = b
  BY <1>1 DEF RecordsRead
<1>8. next.again \in Nat /\ seen.again \in Nat
  BY <1>1 DEF RecordsRead
<1>9. next.again = 0 <=> ActsOnce(lines, n + 1)
  <2>1. ActsOnce(lines, n + 1) => ActsOnce(lines, n)
    BY <1>2 DEF ActsOnce
  <2>2. CASE more /\ twice
    <3>1. PICK a \in seen.records : a.decision = line.decision /\ line.decision # Manual
      BY <2>2
    <3>2. PICK i \in 1..n : a = lines[i] /\ lines[i].kind = "record-decision"
      BY <1>4
    <3>3. ~ActsOnce(lines, n + 1)
      BY <1>2, <2>2, <3>1, <3>2 DEF ActsOnce
    <3> QED  BY <1>1, <1>8, <2>2, <3>3
  <2>3. CASE ~(more /\ twice)
    <3>1. next.again = 0 <=> ActsOnce(lines, n)
      BY <1>1, <2>3 DEF RecordsRead
    <3>2. ASSUME ActsOnce(lines, n),
                 NEW i \in 1..n + 1, NEW j \in 1..n + 1,
                 lines[i].kind = "record-decision", lines[j].kind = "record-decision",
                 lines[i].decision = lines[j].decision, lines[i].decision # Manual
          PROVE  i = j
      <4>1. \A k \in 1..n : lines[k].kind = "record-decision" =>
                             \E a \in seen.records : a.decision = lines[k].decision
        BY DEF RecordsRead
      <4>2. CASE i \in 1..n /\ j \in 1..n
        BY <3>2, <4>2 DEF ActsOnce
      <4>3. CASE i = n + 1 /\ j \in 1..n
        BY <2>3, <3>2, <4>1, <4>3
      <4>4. CASE i \in 1..n /\ j = n + 1
        BY <2>3, <3>2, <4>1, <4>4
      <4> QED  BY <1>3, <4>2, <4>3, <4>4
    <3>3. ActsOnce(lines, n) => ActsOnce(lines, n + 1)
      BY <3>2 DEF ActsOnce
    <3> QED  BY <2>1, <3>1, <3>3
  <2> QED  BY <2>2, <2>3
<1> QED  BY <1>5, <1>6, <1>7, <1>8, <1>9 DEF RecordsRead

LEMMA FeedbackNoted ==
    ASSUME NEW lines, NEW n \in Nat, NEW seen, NEW next, NEW r, NEW now,
           FeedbackRead(seen, lines, n), Noted(seen, next, n + 1, lines[n + 1], r, now)
    PROVE  FeedbackRead(next, lines, n + 1)
<1> DEFINE last == Tagged(lines, n + 1)
<1>1. next.feedback = IF lines[n + 1].kind = "learn-feedback" THEN Append(seen.feedback, last)
                      ELSE seen.feedback
  BY DEF Noted, Tagged
<1>2. last.at = n + 1 /\ n + 1 \in 1..n + 1
  BY DEF Tagged
<1> HIDE DEF last
<1>3. PICK S : seen.feedback \in Seq(S)
  BY DEF FeedbackRead
<1>4. CASE lines[n + 1].kind # "learn-feedback"
  <2>1. next.feedback = seen.feedback
    BY <1>1, <1>4
  <2>2. ASSUME NEW i \in 1..n + 1, lines[i].kind = "learn-feedback"
        PROVE  Tagged(lines, i) \in Given(seen.feedback)
    <3>1. i \in 1..n
      BY <1>4, <2>2
    <3> QED  BY <2>2, <3>1 DEF FeedbackRead
  <2>3. \A f \in Given(seen.feedback) :
            f.at \in 1..n + 1 /\ f = Tagged(lines, f.at) /\ lines[f.at].kind = "learn-feedback"
    <3>1. \A j \in 1..n : j \in 1..n + 1
      OBVIOUS
    <3> QED  BY <3>1 DEF FeedbackRead
  <2>4. \A k, l \in DOMAIN seen.feedback : seen.feedback[k] = seen.feedback[l] => k = l
    BY DEF FeedbackRead
  <2> QED  BY <1>3, <2>1, <2>2, <2>3, <2>4 DEF FeedbackRead
<1>5. CASE lines[n + 1].kind = "learn-feedback"
  <2>1. next.feedback = Append(seen.feedback, last)
    BY <1>1, <1>5
  <2> DEFINE T == S \cup {last}
  <2>2. seen.feedback \in Seq(T) /\ last \in T
    BY <1>3, SeqMonotonic
  <2> HIDE DEF T
  <2>3. next.feedback \in Seq(T)
    BY <2>1, <2>2
  <2>4. Len(seen.feedback) \in Nat /\ DOMAIN seen.feedback = 1..Len(seen.feedback)
    BY <2>2, LenProperties
  <2>5. Len(next.feedback) = Len(seen.feedback) + 1 /\ DOMAIN next.feedback = 1..Len(next.feedback)
    BY <2>1, <2>2, <2>3, LenProperties
  <2>6. \A k \in 1..Len(seen.feedback) : next.feedback[k] = seen.feedback[k]
    BY <2>1, <2>2
  <2>7. next.feedback[Len(seen.feedback) + 1] = last
    BY <2>1, <2>2, <2>4
  <2>8. Given(next.feedback) = Given(seen.feedback) \cup {last}
    <3>1. Len(seen.feedback) + 1 \in DOMAIN next.feedback
      BY <2>4, <2>5
    <3>2. \A k \in DOMAIN next.feedback : k \in DOMAIN seen.feedback \/ k = Len(seen.feedback) + 1
      BY <2>4, <2>5
    <3>3. \A k \in DOMAIN seen.feedback : k \in DOMAIN next.feedback
      BY <2>4, <2>5
    <3> QED  BY <2>4, <2>6, <2>7, <3>1, <3>2, <3>3 DEF Given
  <2>9. ASSUME NEW i \in 1..n + 1, lines[i].kind = "learn-feedback"
        PROVE  Tagged(lines, i) \in Given(next.feedback)
    <3>1. CASE i = n + 1
      BY <2>8, <3>1 DEF last
    <3>2. CASE i # n + 1
      <4>1. i \in 1..n
        BY <3>2
      <4> QED  BY <2>8, <2>9, <4>1 DEF FeedbackRead
    <3> QED  BY <3>1, <3>2
  <2>10. ASSUME NEW f \in Given(next.feedback)
         PROVE  f.at \in 1..n + 1 /\ f = Tagged(lines, f.at) /\ lines[f.at].kind = "learn-feedback"
    <3>1. CASE f = last
      BY <1>2, <1>5, <3>1 DEF last
    <3>2. CASE f # last
      <4>1. f.at \in 1..n /\ f = Tagged(lines, f.at) /\ lines[f.at].kind = "learn-feedback"
        BY <2>8, <3>2 DEF FeedbackRead
      <4> QED  BY <4>1
    <3> QED  BY <3>1, <3>2
  <2>11. ASSUME NEW k \in DOMAIN next.feedback, NEW l \in DOMAIN next.feedback,
                next.feedback[k] = next.feedback[l]
         PROVE  k = l
    <3>1. \A m \in DOMAIN next.feedback : m \in DOMAIN seen.feedback \/ m = Len(seen.feedback) + 1
      BY <2>4, <2>5
    <3>2. \A m \in DOMAIN seen.feedback : seen.feedback[m].at \in 1..n
      BY DEF FeedbackRead, Given
    <3>3. \A m \in DOMAIN seen.feedback : next.feedback[m] = seen.feedback[m]
      BY <2>4, <2>6
    <3>4. \A m \in DOMAIN seen.feedback : next.feedback[m] # last
      BY <1>2, <3>2, <3>3
    <3>5. CASE k \in DOMAIN seen.feedback /\ l \in DOMAIN seen.feedback
      BY <2>11, <3>3, <3>5 DEF FeedbackRead
    <3> QED  BY <2>7, <2>11, <3>1, <3>4, <3>5
  <2> QED  BY <2>3, <2>9, <2>10, <2>11 DEF FeedbackRead
<1> QED  BY <1>4, <1>5

LEMMA TimesNoted ==
    ASSUME NEW lines, NEW n \in Nat, NEW seen, NEW next, NEW r, NEW now, IsSeen(seen),
           TimesRead(seen, lines, n, r, now), Noted(seen, next, n + 1, lines[n + 1], r, now)
    PROVE  TimesRead(next, lines, n + 1, r, now)
<1>1. next.outside = IF lines[n + 1].kind # "dogfood-review" /\ Outside(lines[n + 1], r, now)
                     THEN seen.outside + 1 ELSE seen.outside
  BY DEF Noted
<1>2. seen.outside \in Nat
  BY DEF IsSeen
<1>3. next.outside = 0 <=> /\ seen.outside = 0
                           /\ lines[n + 1].kind # "dogfood-review" => ~Outside(lines[n + 1], r, now)
  BY <1>1, <1>2
<1>4. \A i : i \in 1..n + 1 <=> i \in 1..n \/ i = n + 1
  OBVIOUS
<1> QED  BY <1>3, <1>4 DEF TimesRead

LEMMA ReadFurther ==
    ASSUME NEW lines, NEW n \in Nat, NEW seen, NEW next, NEW r, NEW now, IsSeen(seen),
           ReadSoFar(seen, lines, n, r, now), Noted(seen, next, n + 1, lines[n + 1], r, now)
    PROVE  ReadSoFar(next, lines, n + 1, r, now)
<1>1. /\ next.previewed = IF lines[n + 1].kind = "preview-update"
                          THEN AddFirst(seen.previewed, lines[n + 1].packet, n + 1)
                          ELSE seen.previewed
      /\ next.applied = IF lines[n + 1].kind = "apply-update"
                        THEN AddFirst(seen.applied, lines[n + 1].packet, n + 1)
                        ELSE seen.applied
  BY DEF Noted
<1>2. /\ PositionsRead(next.previewed, "preview-update", lines, n + 1)
      /\ PositionsRead(next.applied, "apply-update", lines, n + 1)
  BY <1>1, PositionNoted DEF ReadSoFar
<1>3. /\ GatesRead(next, lines, n + 1) /\ RecordsRead(next, lines, n + 1)
      /\ FeedbackRead(next, lines, n + 1) /\ TimesRead(next, lines, n + 1, r, now)
  BY GatesNoted, RecordsNoted, FeedbackNoted, TimesNoted DEF ReadSoFar
<1> QED  BY <1>2, <1>3 DEF ReadSoFar

\* The pass over the whole of the lines.
LEMMA PassReads ==
    ASSUME NEW lines, Len(lines) \in Nat, \A i \in 1..Len(lines) : IsLine(lines[i]),
           NEW r, NEW now
    PROVE  LET seen == Passes(lines, r, now)[Len(lines)] IN
           /\ seen.failed <=> \E i \in 1..Len(lines) : Fails(lines[i], r)
           /\ ~seen.failed => ReadSoFar(seen, lines, Len(lines), r, now)
<1> DEFINE pass == Passes(lines, r, now)
           Right(n) == /\ IsSeen(pass[n])
                       /\ pass[n].failed <=> \E i \in 1..n : Fails(lines[i], r)
                       /\ ~pass[n].failed => ReadSoFar(pass[n], lines, n, r, now)
           Wrong == {n \in 0..Len(lines) : ~Right(n)}
<1>1. SUFFICES ASSUME Wrong # {} PROVE FALSE
  <2>1. Len(lines) \in 0..Len(lines)
    OBVIOUS
  <2> QED  BY <1>1, <2>1
<1>2. PICK n \in Wrong : \A m \in Wrong : n <= m
  <2>1. Wrong \in SUBSET Nat
    OBVIOUS
  <2> QED  BY <1>1, <2>1, SmallestExists
<1>3. /\ pass[0] = Nothing
      /\ \A i \in 1..Len(lines) : pass[i] = Scan(pass[i - 1], i, lines[i], r, now)
  BY PassesSteps
<1>4. n \in 0..Len(lines) /\ ~Right(n)
  OBVIOUS
<1> HIDE DEF pass
<1>5. CASE n = 0
  <2>1. ~Nothing.failed /\ 1..0 = {}
    BY DEF Nothing
  <2>2. Right(0)
    BY <1>3, <2>1, NothingRead
  <2> QED  BY <1>4, <1>5, <2>2
<1>6. CASE n # 0
  <2>1. PICK m \in Nat : n = m + 1 /\ m \in 0..Len(lines) /\ m < n
    <3>1. n - 1 \in Nat /\ n = (n - 1) + 1 /\ n - 1 \in 0..Len(lines) /\ n - 1 < n
      BY <1>4, <1>6
    <3> QED  BY <3>1
  <2>2. Right(m)
    <3>1. ~(n <= m)
      BY <1>4, <2>1
    <3> QED  BY <1>2, <2>1, <3>1
  <2>3. m + 1 \in 1..Len(lines) /\ m + 1 \in Nat /\ (m + 1) - 1 = m
    BY <1>4, <2>1
  <2>4. pass[m + 1] = Scan(pass[m], m + 1, lines[m + 1], r, now)
    BY <1>3, <2>3
  <2>5. /\ IsSeen(pass[m + 1])
        /\ pass[m + 1].failed <=> pass[m].failed \/ Fails(lines[m + 1], r)
        /\ ~Fails(lines[m + 1], r) => Noted(pass[m], pass[m + 1], m + 1, lines[m + 1], r, now)
    BY <2>2, <2>3, <2>4, ScanNotes
  <2>6. \A i : i \in 1..m + 1 <=> i \in 1..m \/ i = m + 1
    OBVIOUS
  <2>7. pass[m + 1].failed <=> \E i \in 1..m + 1 : Fails(lines[i], r)
    BY <2>2, <2>5, <2>6
  <2>8. ~pass[m + 1].failed => ReadSoFar(pass[m + 1], lines, m + 1, r, now)
    BY <2>2, <2>5, ReadFurther
  <2> QED  BY <1>4, <2>1, <2>5, <2>7, <2>8
<1> QED  BY <1>5, <1>6

-----------------------------------------------------------------------------
\* What the counters say of the lines.

\* A count of known feedback that reaches the number of feedbacks knows each of them.
LEMMA AllFeedbackKnown ==
    ASSUME NEW seen, \E S : seen.feedback \in Seq(S),
           Cardinality(KnownFeedback(seen)) = Len(seen.feedback)
    PROVE  KnownFeedback(seen) = Given(seen.feedback) /\ IsFiniteSet(KnownFeedback(seen))
<1> DEFINE feedback == seen.feedback
           known == KnownFeedback(seen)
           Places == {k \in 1..Len(feedback) : feedback[k] \in known}
           place == [k \in Places |-> feedback[k]]
<1>1. PICK S : feedback \in Seq(S)
  OBVIOUS
<1>2. Len(feedback) \in Nat /\ DOMAIN feedback = 1..Len(feedback)
  BY <1>1, LenProperties
<1>3. known \subseteq Given(feedback)
  BY DEF KnownFeedback, Given
<1>4. \A f \in known : \E k \in Places : f = feedback[k]
  BY <1>2, <1>3 DEF Given
<1> HIDE DEF feedback, known
<1>5. place \in Surjection(Places, known)
  BY <1>4 DEF Surjection
<1>6. IsFiniteSet(1..Len(feedback)) /\ Cardinality(1..Len(feedback)) = Len(feedback)
  <2>1. /\ IsFiniteSet(1..Len(feedback))
        /\ Cardinality(1..Len(feedback)) = IF 1 > Len(feedback) THEN 0 ELSE Len(feedback) - 1 + 1
    <3>1. Len(feedback) \in Int /\ 1 \in Int
      BY <1>2
    <3> QED  BY <3>1, FS_Interval
  <2> QED  BY <1>2, <2>1
<1>7. IsFiniteSet(Places) /\ Cardinality(Places) <= Len(feedback)
  BY <1>6, FS_Subset
<1> HIDE DEF place
<1>8. IsFiniteSet(known) /\ Cardinality(known) <= Cardinality(Places)
  BY <1>5, <1>7, FS_Surjection
<1>9. Cardinality(known) \in Nat /\ Cardinality(Places) \in Nat
  BY <1>7, <1>8, FS_CardinalityType
<1>10. Cardinality(Places) = Cardinality(1..Len(feedback))
  BY <1>2, <1>6, <1>7, <1>8, <1>9 DEF feedback, known
<1>11. Places = 1..Len(feedback)
  <2>1. Places \in SUBSET (1..Len(feedback))
    OBVIOUS
  <2> HIDE DEF Places
  <2> QED  BY <1>6, <1>10, <2>1, FS_Subset
<1>12. Given(feedback) \subseteq known
  BY <1>2, <1>11 DEF Given
<1> QED  BY <1>3, <1>8, <1>12 DEF feedback, known

\* As many matched actions as decisions, none twice, leave no decision without its action.
LEMMA AllGatesMatched ==
    ASSUME NEW seen, IsFiniteSet(seen.gates),
           \A a, b \in Matched(seen) : a.decision = b.decision => a = b,
           Cardinality(seen.gates) = Cardinality(Matched(seen))
    PROVE  \A g \in seen.gates : \E a \in seen.records : a.decision = g.decision
<1> DEFINE matched == Matched(seen)
           gates == seen.gates
           gateOf == [a \in matched |-> CHOOSE g \in gates : g.decision = a.decision]
<1>1. \A a \in matched : a \in seen.records /\ \E g \in gates : g.decision = a.decision
  BY DEF Matched, GateOf
<1> HIDE DEF matched
<1>2. \A a \in matched : gateOf[a] \in gates /\ gateOf[a].decision = a.decision
  BY <1>1
<1>3. gateOf = [a \in matched |-> gateOf[a]] /\ DOMAIN gateOf = matched
  OBVIOUS
<1> HIDE DEF gateOf, gates
<1>4. gateOf \in [matched -> gates]
  BY <1>2, <1>3
<1>5. \A a, b \in matched : gateOf[a] = gateOf[b] => a = b
  BY <1>2 DEF matched
<1>6. gateOf \in Injection(matched, gates)
  BY <1>3, <1>4, <1>5 DEF Injection, IsInjective
<1>7. gateOf \in Surjection(matched, gates)
  BY <1>6, FS_Injection DEF gates, matched
<1>8. \A g \in gates : \E a \in matched : gateOf[a] = g
  BY <1>7 DEF Surjection
<1> QED  BY <1>1, <1>2, <1>8 DEF gates

\* Whatever was given is a feedback line, with its place.
LEMMA GivenIsALine ==
    ASSUME NEW lines, NEW n \in Nat, NEW seen, FeedbackRead(seen, lines, n),
           NEW g \in Given(seen.feedback)
    PROVE  /\ g.at \in 1..n /\ g = Tagged(lines, g.at)
           /\ g.event = lines[g.at] /\ lines[g.at].kind = "learn-feedback"
<1>1. g.at \in 1..n /\ g = Tagged(lines, g.at) /\ lines[g.at].kind = "learn-feedback"
  BY DEF FeedbackRead
<1>2. PICK k : k = g.at
  OBVIOUS
<1>3. g.event = lines[k]
  BY <1>1, <1>2 DEF Tagged
<1> QED  BY <1>1, <1>2, <1>3

\* A feedback that is the only one of its packet is the first.
LEMMA OnlyIsFirst ==
    ASSUME NEW lines, NEW n \in Nat, NEW seen, FeedbackRead(seen, lines, n),
           NEW i \in 1..n, Tagged(lines, i) \in KnownFeedback(seen),
           \A j \in 1..n : lines[j].kind = "learn-feedback" /\ lines[j].packet = lines[i].packet
                              => j = i
    PROVE  FirstFeedback(seen, lines[i].packet) = Tagged(lines, i)
<1> DEFINE packet == lines[i].packet
           mine == Tagged(lines, i)
           known == KnownFeedback(seen)
<1>1. mine.event = lines[i] /\ mine.at = i /\ mine \in known
  BY DEF Tagged
<1>2. ASSUME NEW g \in known, g.event.packet = packet PROVE g = mine
  <2>1. g \in Given(seen.feedback)
    BY DEF KnownFeedback, Given
  <2> QED  BY <1>2, <2>1, GivenIsALine
<1> HIDE DEF mine, known
<1>3. mine.event.packet = packet /\ \A g \in known : g.event.packet = packet => mine.at <= g.at
  BY <1>1, <1>2
<1>4. \A f \in known : f.event.packet = packet => f = mine
  BY <1>2
<1> DEFINE First(f) == f.event.packet = packet
                          /\ \A g \in known : g.event.packet = packet => f.at <= g.at
<1>5. First(mine) /\ \A f \in known : First(f) => f = mine
  BY <1>3, <1>4
<1>6. FirstFeedback(seen, packet) = CHOOSE f \in known : First(f)
  BY DEF FirstFeedback, known
<1> HIDE DEF First
<1>7. FirstFeedback(seen, packet) = mine
  BY <1>1, <1>5, <1>6
<1> QED  BY <1>7 DEF mine, packet

\* A feedback that is the only one of its packet was previewed and then applied.
LEMMA FeedbackFollowed ==
    ASSUME NEW lines, NEW n \in Nat, NEW seen, NEW r,
           FeedbackRead(seen, lines, n),
           PositionsRead(seen.previewed, "preview-update", lines, n),
           PositionsRead(seen.applied, "apply-update", lines, n),
           Integrity(seen, r), NEW i \in 1..n, Tagged(lines, i) \in KnownFeedback(seen),
           \A j \in 1..n : lines[j].kind = "learn-feedback" /\ lines[j].packet = lines[i].packet
                              => j = i
    PROVE  \E p, a \in 1..n :
               /\ i < p /\ p < a
               /\ lines[p].kind = "preview-update" /\ lines[p].packet = lines[i].packet
               /\ lines[a].kind = "apply-update" /\ lines[a].packet = lines[i].packet
<1> DEFINE packet == lines[i].packet
           mine == Tagged(lines, i)
<1>1. mine.event = lines[i] /\ mine.at = i
  BY DEF Tagged
<1> HIDE DEF mine
<1>2. FirstFeedback(seen, packet) = mine
  BY OnlyIsFirst DEF mine
<1>3. packet \in FeedbackPackets(seen)
  BY <1>1 DEF FeedbackPackets, mine
<1>4. packet \in PacketsOf(seen.previewed) /\ packet \in PacketsOf(seen.applied)
      /\ packet \notin Disordered(seen)
  BY <1>3 DEF Integrity
<1>5. ~(mine.at >= PositionOf(seen.previewed, packet))
      /\ ~(PositionOf(seen.previewed, packet) >= PositionOf(seen.applied, packet))
  BY <1>2, <1>3, <1>4 DEF Disordered
<1>6. PICK q \in seen.previewed : q.packet = packet /\ PositionOf(seen.previewed, packet) = q.at
  BY <1>4 DEF PacketsOf, PositionOf
<1>7. PICK b \in seen.applied : b.packet = packet /\ PositionOf(seen.applied, packet) = b.at
  BY <1>4 DEF PacketsOf, PositionOf
<1>8. /\ q.at \in 1..n /\ lines[q.at].kind = "preview-update" /\ lines[q.at].packet = q.packet
      /\ b.at \in 1..n /\ lines[b.at].kind = "apply-update" /\ lines[b.at].packet = b.packet
  BY DEF PositionsRead
<1>9. i < q.at /\ q.at < b.at
  BY <1>1, <1>5, <1>6, <1>7, <1>8
<1> QED  BY <1>6, <1>7, <1>8, <1>9

\* A count of zero is an empty set.
LEMMA NoneCounted ==
    ASSUME NEW seen, IsFiniteSet(KnownFeedback(seen)), NEW incident,
           IncidentCount(seen, incident) = 0
    PROVE  \A f \in KnownFeedback(seen) : f.event.incident # incident
<1> DEFINE reported == {f \in KnownFeedback(seen) : f.event.incident = incident}
<1>1. IsFiniteSet(reported)
  BY FS_Subset
<1>2. Cardinality(reported) = 0
  BY DEF IncidentCount
<1>3. reported = {}
  BY <1>1, <1>2, FS_EmptySet
<1> QED  BY <1>3

-----------------------------------------------------------------------------
\* A second invariant: the lines of the ledger are lines the pass can read, and a packet is
\* fed back once.

LinesRead == \A i \in DOMAIN ledger : IsLine(ledger[i])
FedBackOnce ==
    \A i, j \in DOMAIN ledger :
        ledger[i].kind = "learn-feedback" /\ ledger[j].kind = "learn-feedback"
            => (ledger[i].packet = ledger[j].packet => i = j)
Begins == run # NoRun => run.begun \in Nat

LinesInv == LinesRead /\ FedBackOnce /\ Begins

LEMMA LineAppended ==
    ASSUME LedgerIsSeq, LinesInv, NEW event, Appends(event), IsLine(event), run' = run,
           event.kind = "learn-feedback" => event.packet \notin PacketsIn("learn-feedback")
    PROVE  LinesInv'
<1>1. /\ Len(ledger) \in Nat /\ Len(ledger') = Len(ledger) + 1
      /\ DOMAIN ledger = 1..Len(ledger) /\ DOMAIN ledger' = 1..Len(ledger')
      /\ \A i \in 1..Len(ledger) : ledger'[i] = ledger[i]
      /\ ledger'[Len(ledger')] = event
  BY LinesStay DEF Appends
<1>2. \A i \in DOMAIN ledger' : i \in DOMAIN ledger \/ i = Len(ledger')
  BY <1>1
<1>3. \A i \in DOMAIN ledger : ledger'[i] = ledger[i]
  BY <1>1
<1>4. LinesRead'
  BY <1>1, <1>2, <1>3 DEF LinesRead, LinesInv
<1>5. ASSUME NEW i \in DOMAIN ledger', NEW j \in DOMAIN ledger',
             ledger'[i].kind = "learn-feedback", ledger'[j].kind = "learn-feedback",
             ledger'[i].packet = ledger'[j].packet
      PROVE  i = j
  <2>1. CASE i \in DOMAIN ledger /\ j \in DOMAIN ledger
    BY <1>3, <1>5, <2>1 DEF LinesInv, FedBackOnce
  <2>2. \A k \in DOMAIN ledger :
            ledger[k].kind = "learn-feedback" => ledger[k].packet \in PacketsIn("learn-feedback")
    BY DEF PacketsIn
  <2>3. CASE i \in DOMAIN ledger /\ j = Len(ledger')
    BY <1>1, <1>3, <1>5, <2>2, <2>3
  <2>4. CASE i = Len(ledger') /\ j \in DOMAIN ledger
    BY <1>1, <1>3, <1>5, <2>2, <2>4
  <2> QED  BY <1>2, <2>1, <2>3, <2>4
<1> QED  BY <1>4, <1>5 DEF LinesInv, FedBackOnce, Begins

LEMMA SecondIsNat == \A time \in Nat : Second(time) \in Nat
BY DEF Second

LEMMA LinesInit ==
    ASSUME Init
    PROVE  LinesInv
<1>1. ledger = <<>> /\ run = NoRun
  BY DEF Init
<1>2. DOMAIN ledger = {}
  <2>1. <<>> \in Seq({}) /\ Len(<<>>) = 0
    BY EmptySeq
  <2> QED  BY <1>1, <2>1, LenProperties
<1> QED  BY <1>1, <1>2 DEF LinesInv, LinesRead, FedBackOnce, Begins

LEMMA LinesNext ==
    ASSUME ReviewConstants, ReviewInv, LinesInv, [Next]_vars
    PROVE  LinesInv'
<1>1. LedgerIsSeq /\ clock \in Nat
  BY DEF ReviewInv
<1>2. ASSUME ledger' = ledger, run' = run \/ run' = NoRun \/ run'.begun \in Nat
      PROVE  LinesInv'
  BY <1>2 DEF LinesInv, LinesRead, FedBackOnce, Begins
<1>3. ASSUME NEW d \in Decisions, Gate(d) PROVE LinesInv'
  <2>1. PICK kind \in GateKinds, time \in Begun..clock :
            Appends([kind |-> "decision-gate", run |-> RunId, at |-> Second(time),
                     decision |-> d, gate |-> kind])
    BY <1>3 DEF Gate
  <2>2. Begun \in Nat
    BY <1>1 DEF Begun, LinesInv, Begins
  <2>3. Second(time) \in Nat
    BY <1>1, <2>2, SecondIsNat
  <2> DEFINE event == [kind |-> "decision-gate", run |-> RunId, at |-> Second(time),
                       decision |-> d, gate |-> kind]
  <2>4. event.kind = "decision-gate" /\ IsLine(event)
    BY <2>3 DEF IsLine, Kind
  <2>5. Appends(event) /\ run' = run
    BY <1>3, <2>1 DEF Gate
  <2> HIDE DEF event
  <2> QED  BY <1>1, <2>4, <2>5, LineAppended
<1>4. ASSUME NEW d \in Decisions, NEW choice \in Options, Record(d, choice) PROVE LinesInv'
  <2> DEFINE event == [kind |-> "record-decision", run |-> RunId, at |-> Second(clock),
                       decision |-> d, chosen |-> choice, asked |-> FALSE]
  <2>1. event.kind = "record-decision" /\ IsLine(event)
    BY <1>1, SecondIsNat DEF IsLine, Kind
  <2>2. Appends(event) /\ run' = run
    BY <1>4 DEF Record
  <2> HIDE DEF event
  <2> QED  BY <1>1, <2>1, <2>2, LineAppended
<1>5. ASSUME NEW p \in Packets, NEW incident \in Reports, Feedback(p, incident) PROVE LinesInv'
  <2>1. PICK g \in Gates :
            Appends([kind |-> "learn-feedback", run |-> RunId, at |-> Second(clock),
                     decision |-> g.decision, packet |-> p, incident |-> incident])
    BY <1>5 DEF Feedback
  <2> DEFINE event == [kind |-> "learn-feedback", run |-> RunId, at |-> Second(clock),
                       decision |-> g.decision, packet |-> p, incident |-> incident]
  <2>2. event.kind = "learn-feedback" /\ event.packet = p /\ IsLine(event)
    BY <1>1, SecondIsNat DEF IsLine, Kind
  <2>3. Appends(event) /\ run' = run /\ p \notin PacketsIn("learn-feedback")
    BY <1>5, <2>1 DEF Feedback
  <2> HIDE DEF event
  <2> QED  BY <1>1, <2>2, <2>3, LineAppended
<1>6. ASSUME NEW p \in Packets, NEW kind \in {"preview-update", "apply-update"},
             PacketEvent(kind, p)
      PROVE  LinesInv'
  <2> DEFINE event == [kind |-> kind, run |-> RunId, at |-> Second(clock), packet |-> p]
  <2>1. event.kind = kind /\ kind # "learn-feedback" /\ IsLine(event)
    BY <1>1, SecondIsNat DEF IsLine, Kind
  <2>2. Appends(event) /\ run' = run
    BY <1>6 DEF PacketEvent
  <2> HIDE DEF event
  <2> QED  BY <1>1, <2>1, <2>2, LineAppended
<1>7. ASSUME Tear PROVE LinesInv'
  <2>1. Broken.kind = "broken" /\ IsLine(Broken)
    BY DEF Broken, IsLine, Kind
  <2> QED  BY <1>1, <1>7, <2>1, LineAppended DEF Tear
<1>8. CASE Recording
  BY <1>3, <1>4, <1>5, <1>6, <1>7, <1>8 DEF Recording
<1>9. CASE Drift \/ Tick \/ Abort \/ UNCHANGED vars
  BY <1>2, <1>9 DEF Drift, Tick, Abort, vars
<1>10. ASSUME NEW now \in 0..clock, NEW status \in Status, Review(now, status) PROVE LinesInv'
  <2> DEFINE event == [kind |-> "dogfood-review", run |-> run.id, at |-> now,
                       status |-> status, prefix |-> Len(ledger),
                       metrics |-> Metrics(ledger, run, now)]
  <2>1. event.kind = "dogfood-review" /\ IsLine(event)
    BY <1>1 DEF IsLine, Kind
  <2>2. Appends(event) /\ run' = run
    BY <1>10 DEF Review
  <2> HIDE DEF event
  <2> QED  BY <1>1, <2>1, <2>2, LineAppended
<1>11. ASSUME NEW now \in 0..clock, Finalize(now) PROVE LinesInv'
  BY <1>2, <1>11 DEF Finalize
<1>12. ASSUME NEW now \in 0..clock, NEW r \in Runs, NEW time \in 0..MaxClock, Start(r, now, time)
       PROVE  LinesInv'
  <2>1. ledger' = ledger /\ run'.begun = clock
    BY <1>12 DEF Start
  <2> QED  BY <1>1, <1>2, <2>1
<1> QED  BY <1>8, <1>9, <1>10, <1>11, <1>12 DEF Next

-----------------------------------------------------------------------------
\* What is said of one finalized run.
Clean(f) ==
    LET lines == f.lines
        Of2(kind) == {i \in DOMAIN lines : lines[i].kind = kind}
    IN /\ \A i \in Of2("learn-feedback") :
             /\ lines[i].incident \notin UnsafeIncidents
             /\ \E j \in Of2("apply-update") : j > i /\ lines[j].packet = lines[i].packet
       /\ \A i \in Of2("decision-gate") :
             ~lines[i].gate.harness =>
                 \E j \in Of2("record-decision") : lines[j].decision = lines[i].decision
       /\ \A i \in DOMAIN lines : lines[i].at \in f.run.started..f.at

\* Counters that validate_metrics accepts are those of a clean run.
LEMMA ValidIsClean ==
    ASSUME NEW lines, NEW n \in Nat, DOMAIN lines = 1..n, NEW seen, NEW r, NEW now \in Nat,
           r # NoRun, r.started \in Nat,
           ReadSoFar(seen, lines, n, r, now), Integrity(seen, r),
           \A incident \in UnsafeIncidents : IncidentCount(seen, incident) = 0,
           \A i \in 1..n : IsLine(lines[i]) /\ ~Fails(lines[i], r),
           \A i \in 1..n : lines[i].kind = "dogfood-review" => lines[i].at \in r.started..now,
           \A i, j \in 1..n :
               lines[i].kind = "learn-feedback" /\ lines[j].kind = "learn-feedback"
                   => (lines[i].packet = lines[j].packet => i = j)
    PROVE  Clean([run |-> r, lines |-> lines, at |-> now])
<1>1. PICK f : f = [run |-> r, lines |-> lines, at |-> now]
  OBVIOUS
<1>2. f.run = r /\ f.lines = lines /\ f.at = now
  BY <1>1
<1>3. KnownFeedback(seen) = Given(seen.feedback) /\ IsFiniteSet(KnownFeedback(seen))
  BY AllFeedbackKnown DEF ReadSoFar, FeedbackRead, Integrity
<1>4. ASSUME NEW i \in 1..n, lines[i].kind = "learn-feedback"
      PROVE  /\ lines[i].incident \notin UnsafeIncidents
             /\ \E j \in 1..n : /\ j > i /\ lines[j].kind = "apply-update"
                                /\ lines[j].packet = lines[i].packet
  <2>1. Tagged(lines, i) \in KnownFeedback(seen)
    BY <1>3, <1>4 DEF ReadSoFar, FeedbackRead
  <2>2. Tagged(lines, i).event = lines[i]
    BY DEF Tagged
  <2>3. lines[i].incident \notin UnsafeIncidents
    BY <1>3, <2>1, <2>2, NoneCounted
  <2>4. \A j \in 1..n :
            lines[j].kind = "learn-feedback" /\ lines[j].packet = lines[i].packet => j = i
    BY <1>4
  <2>5. \E j \in 1..n : /\ j > i /\ lines[j].kind = "apply-update"
                        /\ lines[j].packet = lines[i].packet
    <3>1. PICK p, a \in 1..n : /\ i < p /\ p < a /\ lines[a].kind = "apply-update"
                               /\ lines[a].packet = lines[i].packet
      BY <2>1, <2>4, FeedbackFollowed DEF ReadSoFar
    <3> QED  BY <3>1
  <2> QED  BY <2>3, <2>5
<1>5. ASSUME NEW i \in 1..n, lines[i].kind = "decision-gate", ~lines[i].gate.harness
      PROVE  \E j \in 1..n : /\ lines[j].kind = "record-decision"
                             /\ lines[j].decision = lines[i].decision
  <2>1. lines[i] \in seen.gates
    BY <1>5 DEF ReadSoFar, GatesRead, Counts
  <2>2. \A g \in seen.gates : \E a \in seen.records : a.decision = g.decision
    <3>1. \A a \in seen.records : a.decision # Manual
      BY DEF ReadSoFar, RecordsRead, Fails
    <3>2. \A a, b \in Matched(seen) : a.decision = b.decision => a = b
      BY <3>1 DEF ReadSoFar, RecordsRead, Matched
    <3> QED  BY <3>2, AllGatesMatched DEF ReadSoFar, GatesRead, Integrity
  <2>3. PICK a \in seen.records : a.decision = lines[i].decision
    BY <2>1, <2>2
  <2>4. PICK j \in 1..n : a = lines[j] /\ lines[j].kind = "record-decision"
    BY DEF ReadSoFar, RecordsRead
  <2> QED  BY <2>3, <2>4
<1>6. ASSUME NEW i \in 1..n PROVE lines[i].at \in r.started..now
  <2>1. CASE lines[i].kind = "dogfood-review"
    BY <2>1
  <2>2. CASE lines[i].kind # "dogfood-review"
    <3>1. seen.outside = 0
      BY DEF Integrity
    <3>2. ~Outside(lines[i], r, now)
      BY <2>2, <3>1 DEF ReadSoFar, TimesRead
    <3>3. lines[i].at \in Nat
      BY DEF IsLine, Fails
    <3> QED  BY <3>2, <3>3 DEF Outside
  <2> QED  BY <2>1, <2>2
<1>7. \A i \in 1..n :
          lines[i].kind = "learn-feedback" =>
             /\ lines[i].incident \notin UnsafeIncidents
             /\ \E j \in 1..n : /\ j > i /\ lines[j].kind = "apply-update"
                                /\ lines[j].packet = lines[i].packet
  BY <1>4
<1>8. \A i \in 1..n :
          lines[i].kind = "decision-gate" /\ ~lines[i].gate.harness =>
             \E j \in 1..n : /\ lines[j].kind = "record-decision"
                             /\ lines[j].decision = lines[i].decision
  BY <1>5
<1>9. \A i \in 1..n : lines[i].at \in r.started..now
  BY <1>6
<1>10. Clean(f)
  <2> DEFINE OfKind(kind) == {i \in DOMAIN f.lines : f.lines[i].kind = kind}
  <2>1. \A kind : \A i : i \in OfKind(kind) <=> i \in 1..n /\ lines[i].kind = kind
    BY <1>2
  <2>2. Clean(f) <=> /\ \A i \in OfKind("learn-feedback") :
                            /\ f.lines[i].incident \notin UnsafeIncidents
                            /\ \E j \in OfKind("apply-update") :
                                   j > i /\ f.lines[j].packet = f.lines[i].packet
                     /\ \A i \in OfKind("decision-gate") :
                            ~f.lines[i].gate.harness =>
                                \E j \in OfKind("record-decision") :
                                    f.lines[j].decision = f.lines[i].decision
                     /\ \A i \in DOMAIN f.lines :
                            f.lines[i].at \in f.run.started..f.at
    BY Zenon DEF Clean
  <2> HIDE DEF OfKind
  <2>3. \A i \in OfKind("learn-feedback") :
            /\ f.lines[i].incident \notin UnsafeIncidents
            /\ \E j \in OfKind("apply-update") :
                   j > i /\ f.lines[j].packet = f.lines[i].packet
    BY <1>2, <1>7, <2>1
  <2>4. \A i \in OfKind("decision-gate") :
            ~f.lines[i].gate.harness =>
                \E j \in OfKind("record-decision") :
                    f.lines[j].decision = f.lines[i].decision
    BY <1>2, <1>8, <2>1
  <2>5. \A i \in DOMAIN f.lines : f.lines[i].at \in f.run.started..f.at
    BY <1>2, <1>9
  <2> QED  BY <2>2, <2>3, <2>4, <2>5
<1> QED  BY <1>1, <1>10

LEMMA FinalizedIsClean ==
    ASSUME ReviewInv, LinesInv, NEW now \in Nat, Finalizable(now)
    PROVE  Clean([run |-> run, lines |-> Slice(ledger, run), at |-> now])
<1>1. PICK r : r = run
  OBVIOUS
<1>2. /\ r # NoRun /\ ReviewsValid(r, now) /\ MetricsValid(Metrics(ledger, r, now))
      /\ LedgerIsSeq /\ r.boundary \in 0..Len(ledger) /\ r.started \in Nat
  BY <1>1 DEF Finalizable, ReviewInv, RunTyped
<1> DEFINE lines == Slice(ledger, r)
           n == Len(ledger) - r.boundary
           seen == Passes(lines, r, now)[Len(lines)]
<1>3. /\ Len(ledger) \in Nat /\ Len(lines) = n /\ DOMAIN lines = 1..n
      /\ \A i \in 1..n : lines[i] = ledger[r.boundary + i]
  BY <1>2, SliceOfRun DEF LedgerIsSeq
<1>4. n \in Nat /\ \A i \in 1..n : r.boundary + i \in r.boundary + 1..Len(ledger)
  BY <1>2, <1>3
<1>5. DOMAIN ledger = 1..Len(ledger)
  BY <1>2, ReceiptsAreLines
<1>6. \A i \in 1..n : r.boundary + i \in DOMAIN ledger
  BY <1>2, <1>3, <1>4, <1>5
<1>7. \A i \in 1..n : IsLine(lines[i]) /\ lines[i] # Broken
  BY <1>2, <1>3, <1>4, <1>6 DEF ReviewsValid, LinesInv, LinesRead
<1>8. ~seen.failed /\ Integrity(seen, r)
      /\ \A incident \in UnsafeIncidents : IncidentCount(seen, incident) = 0
  <2>1. seen = Read(ledger, r, now)
    BY DEF Read
  <2> HIDE DEF seen
  <2> DEFINE metrics == Metrics(ledger, r, now)
  <2>2. /\ metrics.failed <=> seen.failed \/ (r # NoRun /\ now < r.started)
        /\ metrics.incidents = [i \in Incidents |-> IncidentCount(seen, i)]
        /\ metrics.integrity = Integrity(seen, r)
    BY <2>1, Zenon DEF Metrics
  <2> HIDE DEF metrics
  <2>3. /\ ~metrics.failed /\ metrics.integrity
        /\ metrics.incidents["false-proceed"] = 0
        /\ metrics.incidents["cross-domain-application"] = 0
        /\ metrics.incidents["privacy-violation"] = 0
        /\ metrics.incidents["hard-rule-violation"] = 0
    BY <1>2 DEF MetricsValid, metrics
  <2>4. ~seen.failed /\ Integrity(seen, r)
    BY <2>2, <2>3, Zenon
  <2>5. \A incident \in UnsafeIncidents : IncidentCount(seen, incident) = 0
    BY <2>2, <2>3 DEF UnsafeIncidents, Incidents
  <2> QED  BY <2>4, <2>5
<1> HIDE DEF lines, n
<1>9. ReadSoFar(seen, lines, n, r, now) /\ \A i \in 1..n : ~Fails(lines[i], r)
  <2>1. /\ seen.failed <=> \E i \in 1..Len(lines) : Fails(lines[i], r)
        /\ ~seen.failed => ReadSoFar(seen, lines, Len(lines), r, now)
    BY <1>2, <1>3, <1>4, <1>7, PassReads
  <2> QED  BY <1>3, <1>8, <2>1
<1> HIDE DEF seen
<1>10. ASSUME NEW i \in 1..n, lines[i].kind = "dogfood-review"
       PROVE  lines[i].at \in r.started..now
  <2> DEFINE k == r.boundary + i
  <2>1. lines[i] = ledger[k] /\ k \in DOMAIN ledger /\ k > r.boundary
    BY <1>2, <1>3, <1>4, <1>6
  <2> HIDE DEF k
  <2>2. k \in Of(r)
    BY <1>10, <2>1 DEF Of, ReviewsIn
  <2>3. r.started <= ledger[k].at /\ ledger[k].at <= now
    BY <1>2, <2>2 DEF ReviewsValid, ReceiptValid
  <2>4. ledger[k].at \in Nat
    BY <1>10, <2>1, <2>2 DEF ReviewInv, ReviewLines, Of
  <2> QED  BY <1>2, <2>1, <2>3, <2>4
<1>11. ASSUME NEW i \in 1..n, NEW j \in 1..n,
              lines[i].kind = "learn-feedback", lines[j].kind = "learn-feedback",
              lines[i].packet = lines[j].packet
       PROVE  i = j
  <2>1. r.boundary + i = r.boundary + j
    BY <1>3, <1>6, <1>11 DEF LinesInv, FedBackOnce
  <2> QED  BY <1>2, <1>4, <2>1
<1>12. \A i \in 1..n : lines[i].kind = "dogfood-review" => lines[i].at \in r.started..now
  BY <1>10
<1>13. \A i, j \in 1..n :
           lines[i].kind = "learn-feedback" /\ lines[j].kind = "learn-feedback"
               => (lines[i].packet = lines[j].packet => i = j)
  BY <1>11
<1>14. DOMAIN lines = 1..n /\ r # NoRun /\ r.started \in Nat /\ n \in Nat
  BY <1>2, <1>3, <1>4
<1>15. Integrity(seen, r) /\ \A incident \in UnsafeIncidents : IncidentCount(seen, incident) = 0
  BY <1>8
<1>16. Clean([run |-> r, lines |-> lines, at |-> now])
  BY <1>7, <1>9, <1>12, <1>13, <1>14, <1>15, ValidIsClean
<1> QED  BY <1>1, <1>16 DEF lines

\* A finalized run holds no unsafe incident, no decision without its action, no correction
\* that was not applied after it was given, and nothing from before its start or after its
\* end (validate_metrics and the counters of shadow_metrics_from_bytes).
THEOREM FinalizedRunsAreClean ==
    ASSUME ReviewConstants
    PROVE  Spec => []FinalizedRunsWereClean
<1> DEFINE AllClean == \A f \in finalized : Clean(f)
<1>1. AllClean => FinalizedRunsWereClean
  BY DEF FinalizedRunsWereClean, Clean
<1>2. Init => LinesInv /\ AllClean
  BY LinesInit DEF Init
<1>3. ReviewInv /\ LinesInv /\ AllClean /\ [Next]_vars => LinesInv' /\ AllClean'
  <2> SUFFICES ASSUME ReviewInv, LinesInv, AllClean, [Next]_vars
               PROVE  LinesInv' /\ AllClean'
    OBVIOUS
  <2>1. ASSUME NEW now \in 0..clock, Finalize(now) PROVE AllClean'
    <3> DEFINE record == [run |-> run, lines |-> Slice(ledger, run), at |-> now]
    <3>1. now \in Nat
      BY DEF ReviewInv
    <3>2. Clean(record)
      BY <2>1, <3>1, FinalizedIsClean DEF Finalize
    <3>3. finalized' = finalized \cup {record}
      BY <2>1 DEF Finalize
    <3> HIDE DEF record
    <3> QED  BY <3>2, <3>3
  <2>2. finalized' = finalized \/ \E now \in 0..clock : Finalize(now)
    BY DEF Next, Recording, Drift, Tick, Abort, Review, Start, Gate, Record, Feedback,
           PacketEvent, Tear, vars
  <2> QED  BY <2>1, <2>2, LinesNext
<1> HIDE DEF AllClean
<1> QED  BY <1>1, <1>2, <1>3, ReviewInvariant, PTL DEF Spec

-----------------------------------------------------------------------------
\* The sixteen counters and what they are for: the counters of lines as the commands write
\* them vanish exactly when the lines are closed.

Usable(line) == line.chosen # NoChoice \/ line.asked
ActionsGiven(lines, n) ==
    \A i \in 1..n : Counts(lines[i]) =>
        \E j \in 1..n : /\ lines[j].kind = "record-decision" /\ Usable(lines[j])
                        /\ lines[j].decision = lines[i].decision
OneAction(lines, n) ==
    \A j, k \in 1..n :
        lines[j].kind = "record-decision" /\ lines[k].kind = "record-decision"
            => (lines[j].decision = lines[k].decision => j = k)
DecisionsKnown(lines, n) ==
    \A j \in 1..n : lines[j].kind \in {"record-decision", "learn-feedback"} =>
        \E i \in 1..n : Counts(lines[i]) /\ lines[i].decision = lines[j].decision
CorrectionsFollowed(lines, n) ==
    \A f \in 1..n : lines[f].kind = "learn-feedback" =>
        \E p, a \in 1..n :
            /\ f < p /\ p < a
            /\ lines[p].kind = "preview-update" /\ lines[p].packet = lines[f].packet
            /\ lines[a].kind = "apply-update" /\ lines[a].packet = lines[f].packet
OnlyCorrections(lines, n) ==
    \A e \in 1..n : lines[e].kind \in {"preview-update", "apply-update"} =>
        \E f \in 1..n : lines[f].kind = "learn-feedback" /\ lines[f].packet = lines[e].packet
IsClosed(lines, n) ==
    /\ ActionsGiven(lines, n) /\ OneAction(lines, n) /\ DecisionsKnown(lines, n)
    /\ CorrectionsFollowed(lines, n) /\ OnlyCorrections(lines, n)

\* What the commands keep of the lines: one gate for a decision, and nothing of a packet
\* before its feedback or after it was applied.
PacketKind == {"learn-feedback", "preview-update", "apply-update"}
OneGate(lines, n) ==
    /\ \A i \in 1..n : lines[i].kind = "decision-gate" => lines[i].decision # Manual
    /\ \A i, j \in 1..n : lines[i].kind = "decision-gate" /\ lines[j].kind = "decision-gate"
                              => (lines[i].decision = lines[j].decision => i = j)
PacketsInOrder(lines, n) ==
    \A i, j \in 1..n :
        /\ i < j /\ lines[i].kind \in PacketKind /\ lines[j].kind \in PacketKind
        /\ lines[i].packet = lines[j].packet
        => lines[i].kind # "apply-update" /\ lines[j].kind # "learn-feedback"

\* Two sets that are mapped onto each other one to one have as many elements.
LEMMA SameNumber ==
    ASSUME NEW S, IsFiniteSet(S), NEW T, NEW f, f = [x \in S |-> f[x]],
           \A x \in S : f[x] \in T, \A x, y \in S : f[x] = f[y] => x = y,
           \A y \in T : \E x \in S : f[x] = y
    PROVE  IsFiniteSet(T) /\ Cardinality(T) = Cardinality(S)
<1>1. f \in [S -> T] /\ DOMAIN f = S
  OBVIOUS
<1>2. f \in Surjection(S, T)
  BY <1>1 DEF Surjection
<1>3. f \in Injection(S, T)
  BY <1>1 DEF Injection, IsInjective
<1> QED  BY <1>2, <1>3, FS_Surjection

\* A packet is fed back once.
LEMMA CorrectedOnce ==
    ASSUME NEW lines, NEW n \in Nat, PacketsInOrder(lines, n),
           NEW i \in 1..n, NEW j \in 1..n, lines[i].kind = "learn-feedback",
           lines[j].kind = "learn-feedback", lines[i].packet = lines[j].packet
    PROVE  i = j
<1>1. ~(i < j) /\ ~(j < i)
  BY DEF PacketsInOrder, PacketKind
<1> QED  BY <1>1

LEMMA IntegrityCloses ==
    ASSUME NEW lines, NEW n \in Nat, NEW seen, NEW r, NEW now,
           ReadSoFar(seen, lines, n, r, now), OneGate(lines, n), PacketsInOrder(lines, n),
           Integrity(seen, r)
    PROVE  IsClosed(lines, n)
<1>1. /\ GatesRead(seen, lines, n) /\ RecordsRead(seen, lines, n) /\ FeedbackRead(seen, lines, n)
      /\ PositionsRead(seen.previewed, "preview-update", lines, n)
      /\ PositionsRead(seen.applied, "apply-update", lines, n)
  BY DEF ReadSoFar
<1>2. KnownFeedback(seen) = Given(seen.feedback)
  BY <1>1, AllFeedbackKnown DEF FeedbackRead, Integrity
<1>3. \A a \in seen.records : \E g \in seen.gates : g.decision = a.decision
  BY DEF Integrity, Matched, GateOf
<1>4. \A a \in seen.records : \E i \in 1..n : Counts(lines[i]) /\ lines[i].decision = a.decision
  BY <1>1, <1>3 DEF GatesRead
<1>5. \A a \in seen.records : a.decision # Manual
  BY <1>4 DEF OneGate, Counts
<1>6. OneAction(lines, n)
  <2>1. ActsOnce(lines, n)
    BY <1>1 DEF Integrity, RecordsRead
  <2>2. \A j \in 1..n : lines[j].kind = "record-decision" => lines[j].decision # Manual
    BY <1>1, <1>5 DEF RecordsRead
  <2> QED  BY <2>1, <2>2 DEF OneAction, ActsOnce
<1>7. ASSUME NEW j \in 1..n, lines[j].kind = "learn-feedback"
      PROVE  /\ Tagged(lines, j) \in KnownFeedback(seen)
             /\ \E i \in 1..n : Counts(lines[i]) /\ lines[i].decision = lines[j].decision
  <2>1. Tagged(lines, j) \in KnownFeedback(seen) /\ Tagged(lines, j).event = lines[j]
    BY <1>1, <1>2, <1>7 DEF FeedbackRead, Tagged
  <2>2. \E g \in seen.gates : g.decision = lines[j].decision
    BY <2>1 DEF KnownFeedback, GateOf
  <2> QED  BY <1>1, <2>1, <2>2 DEF GatesRead
<1>8. DecisionsKnown(lines, n)
  <2> SUFFICES ASSUME NEW j \in 1..n, lines[j].kind \in {"record-decision", "learn-feedback"}
               PROVE  \E i \in 1..n : Counts(lines[i]) /\ lines[i].decision = lines[j].decision
    BY DEF DecisionsKnown
  <2>1. CASE lines[j].kind = "record-decision"
    <3>1. PICK a \in seen.records : a.decision = lines[j].decision
      BY <1>1, <2>1 DEF RecordsRead
    <3> QED  BY <1>4, <3>1
  <2>2. CASE lines[j].kind = "learn-feedback"
    BY <1>7, <2>2
  <2> QED  BY <2>1, <2>2
<1>9. ActionsGiven(lines, n)
  <2> SUFFICES ASSUME NEW i \in 1..n, Counts(lines[i])
               PROVE  \E j \in 1..n : /\ lines[j].kind = "record-decision" /\ Usable(lines[j])
                                      /\ lines[j].decision = lines[i].decision
    BY DEF ActionsGiven
  <2>1. \A a, b \in Matched(seen) : a.decision = b.decision => a = b
    BY <1>1, <1>5 DEF RecordsRead, Matched
  <2>2. \A g \in seen.gates : \E a \in seen.records : a.decision = g.decision
    BY <1>1, <2>1, AllGatesMatched DEF GatesRead, Integrity
  <2>3. PICK a \in seen.records : a.decision = lines[i].decision
    BY <1>1, <2>2 DEF GatesRead
  <2>4. Usable(a)
    BY DEF Integrity, Pairs, ValidActual, Usable
  <2> QED  BY <1>1, <2>3, <2>4 DEF RecordsRead
<1>10. CorrectionsFollowed(lines, n)
  <2> SUFFICES ASSUME NEW f \in 1..n, lines[f].kind = "learn-feedback"
               PROVE  \E p, a \in 1..n :
                          /\ f < p /\ p < a
                          /\ lines[p].kind = "preview-update" /\ lines[p].packet = lines[f].packet
                          /\ lines[a].kind = "apply-update" /\ lines[a].packet = lines[f].packet
    BY DEF CorrectionsFollowed
  <2>1. \A j \in 1..n : lines[j].kind = "learn-feedback" /\ lines[j].packet = lines[f].packet
                            => j = f
    BY CorrectedOnce
  <2>2. Tagged(lines, f) \in KnownFeedback(seen)
    BY <1>7
  <2> QED  BY <1>1, <2>1, <2>2, FeedbackFollowed
<1>11. OnlyCorrections(lines, n)
  <2> SUFFICES ASSUME NEW e \in 1..n, lines[e].kind \in {"preview-update", "apply-update"}
               PROVE  \E f \in 1..n : /\ lines[f].kind = "learn-feedback"
                                      /\ lines[f].packet = lines[e].packet
    BY DEF OnlyCorrections
  <2>1. \E q \in seen.previewed \cup seen.applied : q.packet = lines[e].packet
    BY <1>1 DEF PositionsRead
  <2>2. lines[e].packet \in FeedbackPackets(seen)
    BY <2>1 DEF Integrity, PacketsOf
  <2>3. PICK g \in Given(seen.feedback) : g.event.packet = lines[e].packet
    BY <1>2, <2>2 DEF FeedbackPackets
  <2> QED  BY <1>1, <2>3, GivenIsALine
<1> QED  BY <1>6, <1>8, <1>9, <1>10, <1>11 DEF IsClosed

\* In closed lines every action has one gate, and each gate one action.
LEMMA ClosedMatches ==
    ASSUME NEW lines, NEW n \in Nat, NEW seen, GatesRead(seen, lines, n),
           RecordsRead(seen, lines, n), OneGate(lines, n), IsClosed(lines, n)
    PROVE  /\ Matched(seen) = seen.records
           /\ Cardinality(seen.gates) = Cardinality(Matched(seen))
           /\ \A a \in seen.records : Usable(a)
<1> DEFINE gates == seen.gates
           records == seen.records
           gateOf == [a \in records |-> CHOOSE g \in gates : g.decision = a.decision]
<1>1. \A a \in records : \E j \in 1..n : a = lines[j] /\ lines[j].kind = "record-decision"
  BY DEF RecordsRead
<1>2. \A a \in records : \E g \in gates : g.decision = a.decision
  BY <1>1 DEF GatesRead, IsClosed, DecisionsKnown
<1>3. \A a, b \in records : a.decision = b.decision => a = b
  BY <1>1 DEF IsClosed, OneAction
<1>4. \A g, h \in gates : g.decision = h.decision => g = h
  BY DEF GatesRead, OneGate, Counts
<1>5. \A g \in gates : \E a \in records : a.decision = g.decision
  <2> SUFFICES ASSUME NEW g \in gates PROVE \E a \in records : a.decision = g.decision
    OBVIOUS
  <2>1. PICK i \in 1..n : g = lines[i] /\ Counts(lines[i])
    BY DEF GatesRead
  <2>2. PICK j \in 1..n : lines[j].kind = "record-decision" /\ lines[j].decision = lines[i].decision
    BY <2>1 DEF IsClosed, ActionsGiven
  <2> QED  BY <2>1, <2>2 DEF RecordsRead
<1>6. ASSUME NEW a \in records PROVE Usable(a)
  <2>1. PICK j \in 1..n : a = lines[j] /\ lines[j].kind = "record-decision"
    BY <1>1
  <2>2. PICK i \in 1..n : Counts(lines[i]) /\ lines[i].decision = lines[j].decision
    BY <2>1 DEF IsClosed, DecisionsKnown
  <2>3. PICK k \in 1..n : /\ lines[k].kind = "record-decision" /\ Usable(lines[k])
                          /\ lines[k].decision = lines[i].decision
    BY <2>2 DEF IsClosed, ActionsGiven
  <2>4. k = j
    BY <2>1, <2>2, <2>3 DEF IsClosed, OneAction
  <2> QED  BY <2>1, <2>3, <2>4
<1>7. Matched(seen) = records
  BY <1>2 DEF Matched, GateOf
<1>8. IsFiniteSet(gates)
  BY DEF GatesRead
<1> DEFINE actionOf == [g \in gates |-> CHOOSE a \in records : a.decision = g.decision]
<1>9. \A g \in gates : actionOf[g] \in records /\ actionOf[g].decision = g.decision
  BY <1>5
<1>10. actionOf = [g \in gates |-> actionOf[g]]
  OBVIOUS
<1> HIDE DEF actionOf, gates, records
<1>11. \A g, h \in gates : actionOf[g] = actionOf[h] => g = h
  BY <1>4, <1>9
<1>12. \A a \in records : \E g \in gates : actionOf[g] = a
  BY <1>2, <1>3, <1>9
<1>13. Cardinality(records) = Cardinality(gates)
  BY <1>8, <1>9, <1>10, <1>11, <1>12, SameNumber
<1> QED  BY <1>6, <1>7, <1>13 DEF gates, records

\* In closed lines all feedback is known, and counted once.
LEMMA ClosedKnows ==
    ASSUME NEW lines, NEW n \in Nat, NEW seen, GatesRead(seen, lines, n),
           FeedbackRead(seen, lines, n), DecisionsKnown(lines, n)
    PROVE  /\ KnownFeedback(seen) = Given(seen.feedback)
           /\ Cardinality(KnownFeedback(seen)) = Len(seen.feedback)
<1>1. ASSUME NEW f \in Given(seen.feedback) PROVE GateOf(seen, f.event.decision) # {}
  <2>1. f.at \in 1..n /\ f.event = lines[f.at] /\ lines[f.at].kind = "learn-feedback"
    BY GivenIsALine
  <2>2. PICK i \in 1..n : Counts(lines[i]) /\ lines[i].decision = f.event.decision
    BY <2>1 DEF DecisionsKnown
  <2> QED  BY <2>2 DEF GatesRead, GateOf
<1>2. KnownFeedback(seen) = Given(seen.feedback)
  BY <1>1 DEF KnownFeedback, Given
<1> DEFINE feedback == seen.feedback
           places == DOMAIN feedback
<1>3. PICK S : feedback \in Seq(S)
  BY DEF FeedbackRead
<1>4. Len(feedback) \in Nat /\ places = 1..Len(feedback) /\ feedback = [k \in places |-> feedback[k]]
  BY <1>3, LenProperties
<1>5. IsFiniteSet(places) /\ Cardinality(places) = Len(feedback)
  <2>1. PICK m \in Nat : m = Len(feedback) /\ places = 1..m
    BY <1>4
  <2>2. IsFiniteSet(1..m) /\ Cardinality(1..m) = IF 1 > m THEN 0 ELSE m - 1 + 1
    BY FS_Interval
  <2> QED  BY <2>1, <2>2
<1>6. \A k, l \in places : feedback[k] = feedback[l] => k = l
  BY DEF FeedbackRead
<1>7. \A f \in Given(feedback) : \E k \in places : feedback[k] = f
  BY DEF Given
<1>8. \A k \in places : feedback[k] \in Given(feedback)
  BY DEF Given
<1> HIDE DEF feedback, places
<1> DEFINE given == Given(feedback)
<1>9. /\ feedback = [k \in places |-> feedback[k]] /\ IsFiniteSet(places)
      /\ \A k \in places : feedback[k] \in given
      /\ \A f \in given : \E k \in places : feedback[k] = f
  BY <1>4, <1>5, <1>7, <1>8
<1> HIDE DEF given
<1>10. Cardinality(given) = Cardinality(places)
  BY <1>6, <1>9, SameNumber
<1> QED  BY <1>2, <1>5, <1>10 DEF feedback, given

\* In closed lines no packet is out of order.
LEMMA ClosedIsOrdered ==
    ASSUME NEW lines, NEW n \in Nat, NEW seen, FeedbackRead(seen, lines, n),
           PositionsRead(seen.previewed, "preview-update", lines, n),
           PositionsRead(seen.applied, "apply-update", lines, n),
           KnownFeedback(seen) = Given(seen.feedback), PacketsInOrder(lines, n)
    PROVE  Disordered(seen) = {}
<1> SUFFICES ASSUME NEW p \in Disordered(seen) PROVE FALSE
  OBVIOUS
<1>0. /\ p \in FeedbackPackets(seen)
      /\ p \in PacketsOf(seen.previewed) /\ p \in PacketsOf(seen.applied)
      /\ \/ FirstFeedback(seen, p).at >= PositionOf(seen.previewed, p)
         \/ PositionOf(seen.previewed, p) >= PositionOf(seen.applied, p)
  BY DEF Disordered
<1>1. PICK f \in KnownFeedback(seen) : f.event.packet = p
  BY <1>0 DEF FeedbackPackets
<1>2. PICK i \in 1..n : f = Tagged(lines, i) /\ lines[i].kind = "learn-feedback"
                        /\ lines[i].packet = p
  <2>1. f \in Given(seen.feedback)
    OBVIOUS
  <2>2. f.at \in 1..n /\ f = Tagged(lines, f.at) /\ lines[f.at].kind = "learn-feedback"
        /\ lines[f.at].packet = p
    BY <1>1, <2>1, GivenIsALine
  <2> QED  BY <2>2
<1>3. \A j \in 1..n : lines[j].kind = "learn-feedback" /\ lines[j].packet = lines[i].packet => j = i
  BY <1>2, CorrectedOnce
<1>4. FirstFeedback(seen, p) = f
  BY <1>2, <1>3, OnlyIsFirst
<1>5. f.at = i
  BY <1>2 DEF Tagged
<1>6. PICK q \in seen.previewed : q.packet = p /\ PositionOf(seen.previewed, p) = q.at
  BY <1>0 DEF PacketsOf, PositionOf
<1>7. PICK b \in seen.applied : b.packet = p /\ PositionOf(seen.applied, p) = b.at
  BY <1>0 DEF PacketsOf, PositionOf
<1>8. PICK k \in 1..n : k = q.at /\ lines[k].kind = "preview-update" /\ lines[k].packet = p
  BY <1>6 DEF PositionsRead
<1>9. PICK m \in 1..n : m = b.at /\ lines[m].kind = "apply-update" /\ lines[m].packet = p
  BY <1>7 DEF PositionsRead
<1>10. ~(k < i) /\ k # i
  BY <1>2, <1>8 DEF PacketsInOrder, PacketKind
<1>11. ~(m < k) /\ m # k
  BY <1>8, <1>9 DEF PacketsInOrder, PacketKind
<1> QED  BY <1>0, <1>4, <1>5, <1>6, <1>7, <1>8, <1>9, <1>10, <1>11

LEMMA ClosedHasIntegrity ==
    ASSUME NEW lines, NEW n \in Nat, NEW seen, NEW r, r # NoRun => r.started = 0,
           ReadSoFar(seen, lines, n, r, 0), OneGate(lines, n), PacketsInOrder(lines, n),
           \A i \in 1..n : lines[i].at = 0, IsClosed(lines, n)
    PROVE  Integrity(seen, r)
<1>1. /\ GatesRead(seen, lines, n) /\ RecordsRead(seen, lines, n) /\ FeedbackRead(seen, lines, n)
      /\ PositionsRead(seen.previewed, "preview-update", lines, n)
      /\ PositionsRead(seen.applied, "apply-update", lines, n)
      /\ TimesRead(seen, lines, n, r, 0)
  BY DEF ReadSoFar
<1>2. seen.again = 0
  BY <1>1 DEF RecordsRead, ActsOnce, IsClosed, OneAction
<1>3. /\ Matched(seen) = seen.records /\ Cardinality(seen.gates) = Cardinality(Matched(seen))
      /\ \A a \in seen.records : Usable(a)
  BY <1>1, ClosedMatches
<1>4. /\ KnownFeedback(seen) = Given(seen.feedback)
      /\ Cardinality(KnownFeedback(seen)) = Len(seen.feedback)
  BY <1>1, ClosedKnows DEF IsClosed
<1>5. Pairs(seen, r) = Matched(seen)
  <2>1. \A a \in seen.records : a.at = 0
    BY <1>1 DEF RecordsRead
  <2>2. \A g \in seen.gates : g.at = 0
    BY <1>1 DEF GatesRead
  <2>3. \A a \in seen.records : ValidActual(seen, a, r)
    BY <1>3, <2>1, <2>2 DEF ValidActual, Chronological, GateOf, Usable
  <2> QED  BY <1>3, <2>3 DEF Pairs
<1>6. ASSUME NEW p \in FeedbackPackets(seen)
      PROVE  p \in PacketsOf(seen.previewed) /\ p \in PacketsOf(seen.applied)
  <2>1. PICK f \in Given(seen.feedback) : f.event.packet = p
    BY <1>4 DEF FeedbackPackets
  <2>2. PICK i \in 1..n : lines[i].kind = "learn-feedback" /\ lines[i].packet = p
    BY <1>1, <2>1, GivenIsALine
  <2>3. PICK k, m \in 1..n : /\ lines[k].kind = "preview-update" /\ lines[k].packet = p
                             /\ lines[m].kind = "apply-update" /\ lines[m].packet = p
    BY <2>2 DEF IsClosed, CorrectionsFollowed
  <2>4. (\E q \in seen.previewed : q.packet = p) /\ (\E q \in seen.applied : q.packet = p)
    BY <1>1, <2>3 DEF PositionsRead
  <2> QED  BY <2>4 DEF PacketsOf
<1>7. ASSUME NEW q \in seen.previewed \cup seen.applied PROVE q.packet \in FeedbackPackets(seen)
  <2>1. PICK e \in 1..n : /\ lines[e].kind \in {"preview-update", "apply-update"}
                          /\ lines[e].packet = q.packet
    BY <1>1 DEF PositionsRead
  <2>2. PICK f \in 1..n : lines[f].kind = "learn-feedback" /\ lines[f].packet = q.packet
    BY <2>1 DEF IsClosed, OnlyCorrections
  <2>3. Tagged(lines, f) \in KnownFeedback(seen) /\ Tagged(lines, f).event = lines[f]
    BY <1>1, <1>4, <2>2 DEF FeedbackRead, Tagged
  <2> QED  BY <2>2, <2>3 DEF FeedbackPackets
<1>8. Disordered(seen) = {}
  BY <1>1, <1>4, ClosedIsOrdered
<1>9. seen.outside = 0
  <2>1. \A i \in 1..n : ~Outside(lines[i], r, 0)
    BY DEF Outside
  <2> QED  BY <1>1, <2>1 DEF TimesRead
<1>10. /\ FeedbackPackets(seen) \subseteq PacketsOf(seen.previewed)
       /\ FeedbackPackets(seen) \subseteq PacketsOf(seen.applied)
       /\ PacketsOf(seen.previewed) \subseteq FeedbackPackets(seen)
       /\ PacketsOf(seen.applied) \subseteq FeedbackPackets(seen)
  BY <1>6, <1>7 DEF PacketsOf
<1> QED  BY <1>2, <1>3, <1>4, <1>5, <1>8, <1>9, <1>10 DEF Integrity

-----------------------------------------------------------------------------
\* The ledger inside and outside of runs: what every command keeps of it.

LogIsSeq == \E S : log \in Seq(S)
LogLine(line) ==
    /\ IsLine(line) /\ line.kind # "dogfood-review"
    /\ line.kind # "broken" => line.at = 0
    /\ line.kind = "decision-gate" => line.decision \in Decisions
    /\ line.kind \in PacketKind => line.packet \in Packets
LogRead == \A i \in DOMAIN log : LogLine(log[i])

\* Nothing is in the ledger of a packet that does not exist yet, and a packet whose apply is
\* in the ledger stays applied.
Done == {"applied", "applied unseen"}
PacketsTold ==
    /\ packets = [p \in Packets |-> packets[p]]
    /\ \A i \in DOMAIN log :
          /\ log[i].kind \in PacketKind => packets[log[i].packet] # "none"
          /\ log[i].kind = "apply-update" => packets[log[i].packet] \in Done

\* The lines since the start of the run are its own, or torn.
OfSession(line) ==
    line.kind # "broken" =>
        line.run = session.id /\ (line.kind = "record-decision" => line.decision # Manual)
SessionTold ==
    session # NoRun =>
        /\ session.boundary \in 0..Len(log) /\ session.started = 0
        /\ \A i \in session.boundary + 1..Len(log) : OfSession(log[i])

\* The inductive invariant.
LogKept ==
    /\ LogIsSeq /\ LogRead /\ SessionTold
    /\ OneGate(log, Len(log)) /\ PacketsInOrder(log, Len(log))
LogInv == LogKept /\ PacketsTold /\ job = [x \in Procs |-> job[x]]

LEMMA LogInit ==
    ASSUME LedgerInit
    PROVE  LogInv
<1>1. log = <<>> /\ session = NoRun /\ packets = [p \in Packets |-> "none"]
      /\ job = [x \in Procs |-> Idle]
  BY DEF LedgerInit
<1>2. log \in Seq({}) /\ Len(log) = 0 /\ DOMAIN log = {} /\ 1..0 = {}
  <2>1. <<>> \in Seq({}) /\ Len(<<>>) = 0
    BY EmptySeq
  <2>2. DOMAIN <<>> = 1..0
    BY <2>1, LenProperties
  <2> QED  BY <1>1, <2>1, <2>2
<1>3. LogKept
  BY <1>1, <1>2 DEF LogKept, LogIsSeq, LogRead, SessionTold, OneGate, PacketsInOrder
<1>4. PacketsTold
  BY <1>1, <1>2 DEF PacketsTold
<1> QED  BY <1>1, <1>3, <1>4 DEF LogInv

\* A line that is appended spoils nothing when its gate is new and its packet is in order.
LEMMA LogAppended ==
    ASSUME LedgerConstants, LogKept, NEW event, Logs(event), LogLine(event), session' = session,
           session # NoRun => OfSession(event),
           event.kind = "decision-gate" => ~\E g \in GatesLogged : g.decision = event.decision,
           event.kind \in PacketKind =>
               \A i \in DOMAIN log : log[i].kind \in PacketKind /\ log[i].packet = event.packet
                   => log[i].kind # "apply-update" /\ event.kind # "learn-feedback"
    PROVE  /\ LogKept'
           /\ \A i \in DOMAIN log' : (i \in DOMAIN log /\ log'[i] = log[i]) \/ log'[i] = event
<1>1. PICK n \in Nat : n = Len(log)
  BY LenProperties DEF LogKept, LogIsSeq
<1>2. /\ LogIsSeq' /\ Len(log') = n + 1 /\ DOMAIN log = 1..n /\ DOMAIN log' = 1..n + 1
      /\ \A i \in 1..n : log'[i] = log[i]
      /\ log'[n + 1] = event
  <2> DEFINE longer == Append(log, event)
  <2>1. /\ \E S : longer \in Seq(S)
        /\ Len(log) \in Nat /\ Len(longer) = Len(log) + 1
        /\ DOMAIN log = 1..Len(log) /\ DOMAIN longer = 1..Len(longer)
        /\ \A i \in 1..Len(log) : longer[i] = log[i]
        /\ longer[Len(longer)] = event
    <3>1. \E S : log \in Seq(S)
      BY DEF LogKept, LogIsSeq
    <3> QED  BY <3>1, AppendKeeps
  <2>2. log' = longer
    BY DEF Logs
  <2> HIDE DEF longer
  <2> QED  BY <1>1, <2>1, <2>2 DEF LogIsSeq
<1>3. \A i \in 1..n + 1 : i \in 1..n \/ i = n + 1
  OBVIOUS
<1>4. LogRead'
  BY <1>2, <1>3 DEF LogKept, LogRead
<1>5. SessionTold'
  <2>1. CASE session # NoRun
    <3>1. PICK b \in 0..n : b = session.boundary
      BY <1>1, <2>1 DEF LogKept, SessionTold
    <3>2. \A i \in b + 1..n + 1 : OfSession(log'[i])
      <4>1. \A i \in b + 1..n : OfSession(log[i])
        BY <1>1, <2>1, <3>1 DEF LogKept, SessionTold
      <4>2. \A i \in b + 1..n + 1 : (i \in b + 1..n /\ i \in 1..n) \/ i = n + 1
        OBVIOUS
      <4> QED  BY <1>2, <2>1, <4>1, <4>2
    <3>3. session.started = 0
      BY <2>1 DEF LogKept, SessionTold
    <3>4. b \in 0..n + 1
      OBVIOUS
    <3> QED  BY <1>2, <2>1, <3>1, <3>2, <3>3, <3>4 DEF SessionTold, OfSession
  <2>2. CASE session = NoRun
    BY <2>2 DEF SessionTold
  <2> QED  BY <2>1, <2>2
<1>6. OneGate(log', n + 1)
  <2>1. OneGate(log, n) /\ \A i \in 1..n : log[i].kind = "decision-gate" => log[i] \in GatesLogged
    BY <1>1, <1>2 DEF LogKept, GatesLogged
  <2>2. event.kind = "decision-gate" => event.decision # Manual
    BY DEF LogLine, LedgerConstants
  <2> QED  BY <1>2, <1>3, <2>1, <2>2 DEF OneGate
<1>7. PacketsInOrder(log', n + 1)
  <2> SUFFICES ASSUME NEW i \in 1..n + 1, NEW j \in 1..n + 1, i < j,
                      log'[i].kind \in PacketKind, log'[j].kind \in PacketKind,
                      log'[i].packet = log'[j].packet
               PROVE  log'[i].kind # "apply-update" /\ log'[j].kind # "learn-feedback"
    BY DEF PacketsInOrder
  <2>1. i \in 1..n /\ log'[i] = log[i]
    BY <1>2
  <2>2. CASE j \in 1..n
    <3>1. log'[j] = log[j] /\ PacketsInOrder(log, n)
      BY <1>1, <1>2, <2>2 DEF LogKept
    <3> QED  BY <2>1, <2>2, <3>1 DEF PacketsInOrder
  <2>3. CASE j = n + 1
    BY <1>2, <2>1, <2>3
  <2> QED  BY <1>3, <2>2, <2>3
<1> QED  BY <1>2, <1>3, <1>4, <1>5, <1>6, <1>7 DEF LogKept

\* The fate of a packet moves on with the line that tells of it.
LEMMA PacketsMove ==
    ASSUME PacketsTold, NEW p \in Packets, NEW fate, fate # "none",
           packets[p] \notin Done, packets' = [packets EXCEPT ![p] = fate],
           \A i \in DOMAIN log' :
               \/ i \in DOMAIN log /\ log'[i] = log[i]
               \/ log'[i].packet = p /\ (log'[i].kind = "apply-update" => fate \in Done),
           \A i \in DOMAIN log : log[i].kind \in PacketKind => log[i].packet \in Packets
    PROVE  PacketsTold'
<1>1. packets' = [q \in Packets |-> packets'[q]] /\ packets'[p] = fate
      /\ \A q \in Packets : q # p => packets'[q] = packets[q]
  BY DEF PacketsTold
<1>2. ASSUME NEW i \in DOMAIN log'
      PROVE  /\ log'[i].kind \in PacketKind => packets'[log'[i].packet] # "none"
             /\ log'[i].kind = "apply-update" => packets'[log'[i].packet] \in Done
  <2>1. CASE i \in DOMAIN log /\ log'[i] = log[i]
    <3>1. CASE log[i].kind \in PacketKind /\ log[i].packet # p
      BY <1>1, <2>1, <3>1 DEF PacketsTold
    <3>2. CASE log[i].kind \in PacketKind /\ log[i].packet = p
      BY <1>1, <2>1, <3>2 DEF PacketsTold
    <3>3. CASE log[i].kind \notin PacketKind
      BY <2>1, <3>3 DEF PacketKind
    <3> QED  BY <3>1, <3>2, <3>3
  <2>2. CASE log'[i].packet = p /\ (log'[i].kind = "apply-update" => fate \in Done)
    BY <1>1, <2>2
  <2> QED  BY <2>1, <2>2
<1> QED  BY <1>1, <1>2 DEF PacketsTold

LEMMA PacketsStay ==
    ASSUME PacketsTold, packets' = packets,
           \A i \in DOMAIN log' :
               (i \in DOMAIN log /\ log'[i] = log[i]) \/ log'[i].kind \notin PacketKind
    PROVE  PacketsTold'
BY DEF PacketsTold, PacketKind

\* A step that leaves the ledger and the packets alone.
LEMMA LogQuiet ==
    ASSUME LogInv, log' = log, packets' = packets,
           session' = session \/ session' = NoRun, job' = [x \in Procs |-> job'[x]]
    PROVE  LogInv'
<1>1. LogKept'
  BY DEF LogInv, LogKept, LogIsSeq, LogRead, SessionTold, OneGate, PacketsInOrder, OfSession
<1>2. PacketsTold'
  BY DEF LogInv, PacketsTold
<1> QED  BY <1>1, <1>2 DEF LogInv

\* A line that tells of no packet.
LEMMA LogOther ==
    ASSUME LedgerConstants, LogInv, NEW event, Logs(event), LogLine(event), session' = session,
           packets' = packets, job' = job,
           session # NoRun => OfSession(event),
           event.kind = "decision-gate" => ~\E g \in GatesLogged : g.decision = event.decision,
           event.kind \notin PacketKind
    PROVE  LogInv'
<1>1. /\ LogKept'
      /\ \A i \in DOMAIN log' : (i \in DOMAIN log /\ log'[i] = log[i]) \/ log'[i] = event
  BY LogAppended DEF LogInv
<1>2. PacketsTold'
  BY <1>1, PacketsStay DEF LogInv
<1> QED  BY <1>1, <1>2 DEF LogInv

\* A line of a packet that is not applied: its feedback is its first line.
LEMMA LogPacket ==
    ASSUME LedgerConstants, LogInv, NEW p \in Packets, NEW fate, fate # "none",
           packets[p] \notin Done, packets' = [packets EXCEPT ![p] = fate],
           session' = session, job' = job,
           NEW event, Logs(event), LogLine(event), session # NoRun => OfSession(event),
           event.kind \in PacketKind, event.packet = p,
           event.kind = "learn-feedback" => packets[p] = "none",
           event.kind = "apply-update" => fate \in Done
    PROVE  LogInv'
<1>1. \A i \in DOMAIN log : log[i].kind \in PacketKind => log[i].packet \in Packets
  BY DEF LogInv, LogKept, LogRead, LogLine
<1>2. \A i \in DOMAIN log : log[i].kind \in PacketKind /\ log[i].packet = p
          => log[i].kind # "apply-update" /\ packets[p] # "none"
  BY DEF LogInv, PacketsTold
<1>3. event.kind # "decision-gate"
  BY DEF PacketKind
<1>4. /\ LogKept'
      /\ \A i \in DOMAIN log' : (i \in DOMAIN log /\ log'[i] = log[i]) \/ log'[i] = event
  BY <1>2, <1>3, LogAppended DEF LogInv
<1>5. PacketsTold'
  BY <1>1, <1>4, PacketsMove DEF LogInv
<1> QED  BY <1>4, <1>5 DEF LogInv

\* The fate of a packet of which no run is told.
LEMMA LogUntold ==
    ASSUME LogInv, NEW p \in Packets, NEW fate, fate # "none", packets[p] \notin Done,
           packets' = [packets EXCEPT ![p] = fate], log' = log, session' = session, job' = job
    PROVE  LogInv'
<1>1. LogKept'
  BY DEF LogInv, LogKept, LogIsSeq, LogRead, SessionTold, OneGate, PacketsInOrder, OfSession
<1>2. \A i \in DOMAIN log : log[i].kind \in PacketKind => log[i].packet \in Packets
  BY DEF LogInv, LogKept, LogRead, LogLine
<1>3. PacketsTold'
  BY <1>2, PacketsMove DEF LogInv
<1> QED  BY <1>1, <1>3 DEF LogInv

LEMMA LoggingStep ==
    ASSUME LedgerConstants, LogInv, Logging
    PROVE  LogInv'
<1>1. ASSUME NEW d \in Decisions, Evaluate(d) PROVE LogInv'
  <2>1. PICK gate \in Verdicts :
            Logs([kind |-> "decision-gate", run |-> SessionId, at |-> 0, decision |-> d,
                  gate |-> gate])
    BY <1>1 DEF Evaluate
  <2> DEFINE event == [kind |-> "decision-gate", run |-> SessionId, at |-> 0, decision |-> d,
                       gate |-> gate]
  <2>2. /\ event.kind = "decision-gate" /\ event.decision = d /\ LogLine(event)
        /\ event.run = SessionId
    BY DEF LogLine, IsLine, Kind, PacketKind
  <2>3. Logs(event)
    BY <2>1
  <2> HIDE DEF event
  <2>4. session # NoRun => OfSession(event)
    BY <2>2 DEF OfSession, SessionId
  <2> QED  BY <1>1, <2>2, <2>3, <2>4, LogOther DEF Evaluate, PacketKind
<1>2. ASSUME NEW d \in Decisions \cup {Manual}, NEW action \in Actions, RecordDecision(d, action)
      PROVE  LogInv'
  <2> DEFINE event == [kind |-> "record-decision", run |-> SessionId, at |-> 0, decision |-> d,
                       chosen |-> action.chosen, asked |-> action.asked]
  <2>1. /\ event.kind = "record-decision" /\ event.decision = d /\ LogLine(event)
        /\ event.run = SessionId
    BY DEF LogLine, IsLine, Kind, PacketKind
  <2>2. Logs(event)
    BY <1>2 DEF RecordDecision
  <2> HIDE DEF event
  <2>3. session # NoRun => OfSession(event)
    BY <1>2, <2>1 DEF OfSession, SessionId, RecordDecision
  <2> QED  BY <1>2, <2>1, <2>2, <2>3, LogOther DEF RecordDecision, PacketKind
<1>3. ASSUME NEW p \in Packets, NEW incident, LearnFeedback(p, incident) PROVE LogInv'
  <2>1. PICK g \in GatesLogged :
            Logs([kind |-> "learn-feedback", run |-> SessionId, at |-> 0,
                  decision |-> g.decision, packet |-> p, incident |-> incident])
    BY <1>3 DEF LearnFeedback
  <2> DEFINE event == [kind |-> "learn-feedback", run |-> SessionId, at |-> 0,
                       decision |-> g.decision, packet |-> p, incident |-> incident]
  <2>2. /\ event.kind = "learn-feedback" /\ event.packet = p /\ LogLine(event)
        /\ event.run = SessionId
    BY DEF LogLine, IsLine, Kind, PacketKind
  <2>3. Logs(event)
    BY <2>1
  <2> HIDE DEF event
  <2>4. session # NoRun => OfSession(event)
    BY <2>2 DEF OfSession, SessionId
  <2> QED  BY <1>3, <2>2, <2>3, <2>4, LogPacket DEF LearnFeedback, PacketKind, Done
<1>4. ASSUME NEW p \in Packets, LearnDecision(p) PROVE LogInv'
  BY <1>4, LogUntold DEF LearnDecision, Done
<1>5. ASSUME NEW p \in Packets, NEW kind \in {"preview-update", "apply-update"}, NEW fate,
             fate # "none", kind = "apply-update" => fate \in Done,
             packets[p] \in {"pending", "previewed"}, LifecycleEvent(kind, p),
             packets' = [packets EXCEPT ![p] = fate], session' = session, job' = job
      PROVE  LogInv'
  <2>1. packets[p] \notin Done
    BY <1>5 DEF Done
  <2>2. CASE session = NoRun
    BY <1>5, <2>1, <2>2, LogUntold DEF LifecycleEvent
  <2>3. CASE session # NoRun
    <3> DEFINE event == [kind |-> kind, run |-> SessionId, at |-> 0, packet |-> p]
    <3>1. event.kind = kind /\ event.packet = p /\ LogLine(event) /\ event.run = SessionId
      BY DEF LogLine, IsLine, Kind, PacketKind
    <3>2. Logs(event)
      BY <1>5, <2>3 DEF LifecycleEvent
    <3> HIDE DEF event
    <3>3. session # NoRun => OfSession(event)
      BY <3>1 DEF OfSession, SessionId
    <3>4. event.kind \in PacketKind /\ event.kind # "learn-feedback"
      BY <3>1 DEF PacketKind
    <3> QED  BY <1>5, <2>1, <3>1, <3>2, <3>3, <3>4, LogPacket
  <2> QED  BY <2>2, <2>3
<1>6. ASSUME NEW p \in Packets, Preview(p) PROVE LogInv'
  BY <1>5, <1>6 DEF Preview
<1>7. ASSUME NEW p \in Packets, Apply(p) PROVE LogInv'
  <2>1. PICK fate \in Done : packets' = [packets EXCEPT ![p] = fate]
    <3>1. packets' = [packets EXCEPT ![p] =
                         IF packets[p] = "previewed" THEN "applied" ELSE "applied unseen"]
      BY <1>7 DEF Apply
    <3> QED  BY <3>1 DEF Done
  <2>2. fate # "none"
    BY DEF Done
  <2> QED  BY <1>5, <1>7, <2>1, <2>2 DEF Apply
<1> QED  BY <1>1, <1>2, <1>3, <1>4, <1>6, <1>7 DEF Logging

LEMMA LogNextStep ==
    ASSUME LedgerConstants, LogInv, [LedgerNext]_ledgerVars
    PROVE  LogInv'
<1>1. ASSUME TearLog PROVE LogInv'
  <2>1. Broken.kind = "broken" /\ LogLine(Broken)
    BY DEF Broken, LogLine, IsLine, Kind, PacketKind
  <2>2. session # NoRun => OfSession(Broken)
    BY <2>1 DEF OfSession
  <2> QED  BY <1>1, <2>1, <2>2, LogOther DEF TearLog, PacketKind
<1>2. ASSUME NEW r \in Sessions, StartRun(r) PROVE LogInv'
  <2>1. PICK n \in Nat : n = Len(log)
    BY LenProperties DEF LogInv, LogKept, LogIsSeq
  <2>2. n + 1..n = {} /\ n \in 0..n
    OBVIOUS
  <2>3. log' = log /\ packets' = packets /\ job' = job
        /\ session'.boundary = n /\ session'.started = 0
    BY <1>2, <2>1 DEF StartRun
  <2>4. LogKept'
    BY <2>1, <2>2, <2>3
       DEF LogInv, LogKept, LogIsSeq, LogRead, SessionTold, OneGate, PacketsInOrder
  <2> QED  BY <2>3, <2>4 DEF LogInv, PacketsTold
<1>3. ASSUME AbortRun \/ Disable \/ (\E m \in Modes : Demote(m)) \/ UNCHANGED ledgerVars
      PROVE  LogInv'
  BY <1>3, LogQuiet DEF AbortRun, Disable, Demote, ledgerVars, LogInv
<1>4. ASSUME Deciding PROVE LogInv'
  <2>1. log' = log /\ packets' = packets /\ session' = session
    BY <1>4 DEF Deciding, PromoteLooks, PromoteSets, ThresholdLooks, ThresholdSets
  <2>2. PICK x \in Procs : \E new : job' = [job EXCEPT ![x] = new]
    BY <1>4 DEF Deciding, PromoteLooks, PromoteSets, ThresholdLooks, ThresholdSets
  <2>3. job' = [y \in Procs |-> job'[y]]
    BY <2>2 DEF LogInv
  <2> QED  BY <2>1, <2>3, LogQuiet
<1> QED  BY <1>1, <1>2, <1>3, <1>4, LoggingStep DEF LedgerNext, LogNext, Runnings, Settings

LEMMA LogInvariant ==
    ASSUME LedgerConstants
    PROVE  LedgerSpec => []LogInv
<1>1. LedgerInit => LogInv
  BY LogInit
<1>2. LogInv /\ [LedgerNext]_ledgerVars => LogInv'
  BY LogNextStep
<1> QED  BY <1>1, <1>2, PTL DEF LedgerSpec

-----------------------------------------------------------------------------
\* What the metrics see of the ledger.

\* The lines of the slice are lines of the ledger, at the same distance.
LEMMA SliceOfLog ==
    ASSUME LogInv
    PROVE  \E b \in Nat :
              /\ Len(Lines) \in Nat /\ DOMAIN Lines = 1..Len(Lines)
              /\ \A i \in 1..Len(Lines) : b + i \in 1..Len(log) /\ Lines[i] = log[b + i]
              /\ session # NoRun => \A i \in 1..Len(Lines) : OfSession(Lines[i])
<1>1. \E S : log \in Seq(S)
  BY DEF LogInv, LogKept, LogIsSeq
<1>2. Len(log) \in Nat /\ DOMAIN log = 1..Len(log)
  BY <1>1, LenProperties
<1>3. CASE session = NoRun
  <2>1. Lines = log
    BY <1>3 DEF Lines, Slice
  <2>2. \A i \in 1..Len(log) : 0 + i = i
    BY <1>2
  <2> QED  BY <1>2, <1>3, <2>1, <2>2
<1>4. CASE session # NoRun
  <2>1. session.boundary \in 0..Len(log)
    BY <1>4 DEF LogInv, LogKept, SessionTold
  <2>2. PICK b \in Nat : \E m \in Nat : b = session.boundary /\ m = Len(log) /\ b <= m
    <3>1. PICK m \in Nat : m = Len(log)
      BY <1>2
    <3>2. \A x \in 0..m : x \in Nat /\ x <= m
      OBVIOUS
    <3>3. session.boundary \in 0..m
      BY <2>1, <3>1
    <3> QED  BY <3>1, <3>2, <3>3
  <2>3. PICK m \in Nat : b = session.boundary /\ m = Len(log) /\ b <= m
    BY <2>2
  <2>4. /\ Len(Lines) = m - b /\ DOMAIN Lines = 1..m - b
        /\ \A i \in DOMAIN Lines : Lines[i] = log[b + i]
    <3> DEFINE lines == Slice(log, session)
    <3>1. /\ Len(lines) = Len(log) - session.boundary
          /\ DOMAIN lines = 1..Len(log) - session.boundary
          /\ \A i \in DOMAIN lines : lines[i] = log[session.boundary + i]
      BY <1>1, <1>4, <2>1, SliceOfRun
    <3> QED  BY <2>3, <3>1 DEF Lines
  <2>5. \A i \in 1..m - b : b + i \in 1..m /\ b + i \in b + 1..m
    BY <2>3
  <2>6. \A i \in b + 1..m : OfSession(log[i])
    BY <1>4, <2>3 DEF LogInv, LogKept, SessionTold
  <2>7. /\ Len(Lines) \in Nat /\ DOMAIN Lines = 1..Len(Lines)
        /\ \A i \in 1..Len(Lines) : b + i \in 1..Len(log) /\ Lines[i] = log[b + i]
    <3>1. m - b \in Nat
      BY <2>3
    <3> QED  BY <2>3, <2>4, <2>5, <3>1
  <2>8. \A i \in 1..Len(Lines) : OfSession(Lines[i])
    BY <2>4, <2>5, <2>6
  <2> QED  BY <2>7, <2>8
<1> QED  BY <1>3, <1>4

\* The lines are whole, or the pass fails; and what it reads is in order.
LEMMA LinesInOrder ==
    ASSUME LogInv
    PROVE  LET n == Len(Lines) IN
           /\ n \in Nat /\ DOMAIN Lines = 1..n
           /\ \A i \in 1..n : LogLine(Lines[i])
           /\ \A i \in 1..n : Fails(Lines[i], session) <=> Lines[i] = Broken
           /\ OneGate(Lines, n) /\ PacketsInOrder(Lines, n)
<1>1. PICK b \in Nat :
          /\ Len(Lines) \in Nat /\ DOMAIN Lines = 1..Len(Lines)
          /\ \A i \in 1..Len(Lines) : b + i \in 1..Len(log) /\ Lines[i] = log[b + i]
          /\ session # NoRun => \A i \in 1..Len(Lines) : OfSession(Lines[i])
  BY SliceOfLog
<1>2. DOMAIN log = 1..Len(log)
  BY LenProperties DEF LogInv, LogKept, LogIsSeq
<1> DEFINE n == Len(Lines)
<1>3. \A i \in 1..n : LogLine(Lines[i])
  BY <1>1, <1>2 DEF LogInv, LogKept, LogRead
<1>4. \A i \in 1..n : Fails(Lines[i], session) <=> Lines[i] = Broken
  <2> SUFFICES ASSUME NEW i \in 1..n, Lines[i] # Broken PROVE ~Fails(Lines[i], session)
    BY DEF Fails
  <2>1. Lines[i].kind # "broken"
    BY <1>3 DEF LogLine, IsLine
  <2> QED  BY <1>1, <2>1 DEF Fails, OfSession
<1>5. OneGate(Lines, n)
  <2>1. OneGate(log, Len(log))
    BY DEF LogInv, LogKept
  <2>2. \A i, j \in 1..n : b + i = b + j => i = j
    OBVIOUS
  <2> QED  BY <1>1, <2>1, <2>2 DEF OneGate
<1>6. PacketsInOrder(Lines, n)
  <2>1. PacketsInOrder(log, Len(log))
    BY DEF LogInv, LogKept
  <2>2. \A i, j \in 1..n : i < j => b + i < b + j
    OBVIOUS
  <2> QED  BY <1>1, <2>1, <2>2 DEF PacketsInOrder
<1> QED  BY <1>1, <1>3, <1>4, <1>5, <1>6

\* Whole lines, of which the pass reads all it has to.
LEMMA SeenReads ==
    ASSUME LogInv
    PROVE  LET n == Len(Lines) IN
           /\ Seen.failed <=> \E i \in 1..n : Lines[i] = Broken
           /\ ~Seen.failed => /\ ReadSoFar(Seen, Lines, n, session, 0)
                              /\ \A i \in 1..n : Lines[i].at = 0
<1> DEFINE n == Len(Lines)
<1>1. /\ n \in Nat /\ \A i \in 1..n : LogLine(Lines[i])
      /\ \A i \in 1..n : Fails(Lines[i], session) <=> Lines[i] = Broken
  BY LinesInOrder
<1>2. Seen = Passes(Lines, session, 0)[Len(Lines)]
  BY DEF Seen, Read, Lines
<1>3. \A i \in 1..Len(Lines) : IsLine(Lines[i])
  BY <1>1 DEF LogLine
<1>4. PICK lines, r : lines = Lines /\ r = session
  OBVIOUS
<1> DEFINE seen == Passes(lines, r, 0)[Len(lines)]
<1>5. /\ seen.failed <=> \E i \in 1..Len(lines) : Fails(lines[i], r)
      /\ ~seen.failed => ReadSoFar(seen, lines, Len(lines), r, 0)
  BY <1>1, <1>3, <1>4, PassReads
<1>6. seen = Seen
  BY <1>2, <1>4
<1> HIDE DEF seen
<1>7. (\A i \in 1..n : Lines[i] # Broken) => \A i \in 1..n : Lines[i].at = 0
  BY <1>1 DEF LogLine, IsLine
<1> QED  BY <1>1, <1>4, <1>5, <1>6, <1>7

LEMMA ClosedOfLines ==
    ASSUME DOMAIN Lines = 1..Len(Lines)
    PROVE  Closed <=> /\ \A i \in 1..Len(Lines) : Lines[i] # Broken
                      /\ IsClosed(Lines, Len(Lines))
<1> DEFINE n == Len(Lines)
<1>1. \A kind : \A i : i \in LinesOf(kind) <=> i \in 1..n /\ Lines[i].kind = kind
  BY DEF LinesOf
<1>2. \A i : i \in DecisionLines <=> i \in 1..n /\ Counts(Lines[i])
  BY <1>1 DEF DecisionLines, Counts
<1> DEFINE
     given == \A i \in DecisionLines :
          \E j \in LinesOf("record-decision") : /\ Lines[j].decision = Lines[i].decision
                                                /\ Lines[j].chosen # NoChoice \/ Lines[j].asked
     once == \A j, k \in LinesOf("record-decision") : Lines[j].decision = Lines[k].decision => j = k
     known == \A j \in LinesOf("record-decision") \cup LinesOf("learn-feedback") :
          \E i \in DecisionLines : Lines[i].decision = Lines[j].decision
     followed == \A f \in LinesOf("learn-feedback") :
          \E p \in LinesOf("preview-update"), a \in LinesOf("apply-update") :
              /\ f < p /\ p < a
              /\ Lines[p].packet = Lines[f].packet /\ Lines[a].packet = Lines[f].packet
     only == \A e \in LinesOf("preview-update") \cup LinesOf("apply-update") :
          \E f \in LinesOf("learn-feedback") : Lines[f].packet = Lines[e].packet
<1>3. given <=> ActionsGiven(Lines, n)
  BY <1>1, <1>2 DEF ActionsGiven, Usable
<1>4. once <=> OneAction(Lines, n)
  BY <1>1 DEF OneAction
<1>5. known <=> DecisionsKnown(Lines, n)
  BY <1>1, <1>2 DEF DecisionsKnown
<1>6. followed <=> CorrectionsFollowed(Lines, n)
  BY <1>1 DEF CorrectionsFollowed
<1>7. only <=> OnlyCorrections(Lines, n)
  BY <1>1 DEF OnlyCorrections
<1>8. Closed <=> (\A i \in DOMAIN Lines : Lines[i] # Broken) /\ given /\ once /\ known
                    /\ followed /\ only
  BY DEF Closed
<1> HIDE DEF given, once, known, followed, only
<1> QED  BY <1>3, <1>4, <1>5, <1>6, <1>7, <1>8 DEF IsClosed

LEMMA IntactIsClosed ==
    ASSUME LogInv
    PROVE  Intact <=> Closed
<1> DEFINE n == Len(Lines)
<1>1. /\ n \in Nat /\ DOMAIN Lines = 1..n /\ OneGate(Lines, n) /\ PacketsInOrder(Lines, n)
  BY LinesInOrder
<1>2. /\ Seen.failed <=> \E i \in 1..n : Lines[i] = Broken
      /\ ~Seen.failed => /\ ReadSoFar(Seen, Lines, n, session, 0)
                         /\ \A i \in 1..n : Lines[i].at = 0
  BY SeenReads
<1>3. Closed <=> (\A i \in 1..n : Lines[i] # Broken) /\ IsClosed(Lines, n)
  BY <1>1, ClosedOfLines
<1>4. session # NoRun => session.started = 0
  BY DEF LogInv, LogKept, SessionTold
<1>5. PICK lines, seen, r : lines = Lines /\ seen = Seen /\ r = session
  OBVIOUS
<1>6. ASSUME ~seen.failed PROVE Integrity(seen, r) <=> IsClosed(lines, n)
  <2>1. /\ ReadSoFar(seen, lines, n, r, 0) /\ \A i \in 1..n : lines[i].at = 0
        /\ OneGate(lines, n) /\ PacketsInOrder(lines, n) /\ (r # NoRun => r.started = 0)
    BY <1>1, <1>2, <1>4, <1>5, <1>6
  <2>2. n \in Nat
    BY <1>1
  <2> HIDE DEF n
  <2>3. Integrity(seen, r) => IsClosed(lines, n)
    BY <2>1, <2>2, IntegrityCloses
  <2>4. IsClosed(lines, n) => Integrity(seen, r)
    BY <2>1, <2>2, ClosedHasIntegrity
  <2> QED  BY <2>3, <2>4
<1>7. Intact <=> ~seen.failed /\ Integrity(seen, r)
  BY <1>5 DEF Intact
<1> QED  BY <1>2, <1>3, <1>5, <1>6, <1>7

\* Where all feedback is known, as many incidents are counted as lines report one.
LEMMA CountsTheReports ==
    ASSUME NEW lines, NEW n \in Nat, NEW seen, FeedbackRead(seen, lines, n),
           KnownFeedback(seen) = Given(seen.feedback), NEW incident
    PROVE  IncidentCount(seen, incident) =
               Cardinality({j \in 1..n : /\ lines[j].kind = "learn-feedback"
                                         /\ lines[j].incident = incident})
<1> DEFINE counted == {f \in KnownFeedback(seen) : f.event.incident = incident}
           reported == {j \in 1..n : /\ lines[j].kind = "learn-feedback"
                                     /\ lines[j].incident = incident}
           told == [j \in reported |-> Tagged(lines, j)]
<1>1. \A j \in reported : told[j] = Tagged(lines, j) /\ told[j].at = j /\ told[j].event = lines[j]
  BY DEF Tagged
<1>2. told = [j \in reported |-> told[j]]
  OBVIOUS
<1>3. \A j \in reported : Tagged(lines, j) \in KnownFeedback(seen)
  BY DEF FeedbackRead
<1> HIDE DEF told
<1>4. \A j \in reported : told[j] \in counted
  BY <1>1, <1>3
<1>5. \A j, k \in reported : told[j] = told[k] => j = k
  BY <1>1
<1>6. ASSUME NEW f \in counted PROVE \E j \in reported : told[j] = f
  <2>1. f.at \in 1..n /\ f = Tagged(lines, f.at) /\ f.event = lines[f.at]
        /\ lines[f.at].kind = "learn-feedback"
    BY GivenIsALine
  <2>2. f.at \in reported
    BY <2>1
  <2> QED  BY <1>1, <2>1, <2>2
<1>7. IsFiniteSet(reported)
  <2>1. IsFiniteSet(1..n)
    BY FS_Interval
  <2>2. reported \in SUBSET (1..n)
    OBVIOUS
  <2> HIDE DEF reported
  <2> QED  BY <2>1, <2>2, FS_Subset
<1> HIDE DEF counted, reported
<1>8. Cardinality(counted) = Cardinality(reported)
  BY <1>2, <1>4, <1>5, <1>6, <1>7, SameNumber
<1>9. IncidentCount(seen, incident) = Cardinality(counted)
  BY DEF IncidentCount, counted
<1> QED  BY <1>8, <1>9 DEF reported

LEMMA IntactCountsAll ==
    ASSUME LogInv, Intact, NEW incident
    PROVE  IncidentCount(Seen, incident) = Cardinality(Reported(incident))
<1>1. PICK lines, n, seen : lines = Lines /\ n = Len(Lines) /\ seen = Seen
  OBVIOUS
<1>2. n \in Nat /\ DOMAIN lines = 1..n
  BY <1>1, LinesInOrder
<1>3. ~seen.failed /\ Integrity(seen, session)
  BY <1>1 DEF Intact
<1>4. FeedbackRead(seen, lines, n)
  BY <1>1, <1>3, SeenReads DEF ReadSoFar
<1>5. KnownFeedback(seen) = Given(seen.feedback)
  BY <1>3, <1>4, AllFeedbackKnown DEF FeedbackRead, Integrity
<1>6. IncidentCount(seen, incident) =
          Cardinality({j \in 1..n : /\ lines[j].kind = "learn-feedback"
                                    /\ lines[j].incident = incident})
  BY <1>2, <1>4, <1>5, CountsTheReports
<1>7. Reported(incident) = {j \in 1..n : /\ lines[j].kind = "learn-feedback"
                                         /\ lines[j].incident = incident}
  BY <1>1, <1>2 DEF Reported, Lines
<1> QED  BY <1>1, <1>6, <1>7

\* In every ledger that counts as intact every incident the user reported is counted: no
\* feedback is passed over by shadow_metrics without a counter that tells.
THEOREM EveryIncidentIsCounted ==
    ASSUME LedgerConstants
    PROVE  LedgerSpec => []NoIncidentEscapes
<1>1. LogInv => NoIncidentEscapes
  BY IntactCountsAll DEF NoIncidentEscapes
<1> QED  BY <1>1, LogInvariant, PTL

\* The counters behind ledger_integrity_valid vanish exactly for the closed ledgers: each
\* decision with its one usable action, each correction previewed and applied, in this order.
THEOREM IntegrityIsClosure ==
    ASSUME LedgerConstants
    PROVE  LedgerSpec => []IntegrityMeansClosed
<1>1. LogInv => IntegrityMeansClosed
  BY IntactIsClosed DEF IntegrityMeansClosed
<1> QED  BY <1>1, LogInvariant, PTL

\* autopilot_promote grants a promotion only on the statistics of a closed ledger.
THEOREM PromotionNeedsClosedLedger ==
    ASSUME LedgerConstants
    PROVE  LedgerSpec => PromotedOnClosedLedger
<1> DEFINE Granted == \A x \in Procs : job[x].pc = "idle" /\ job'[x].pc = "promote" => Closed
<1>1. ASSUME LogInv, [LedgerNext]_ledgerVars, NEW x \in Procs, job[x].pc = "idle",
             job'[x].pc = "promote"
      PROVE  Closed
  <2>1. \E y \in Procs, to \in {"shadow"} \cup Enforcing : PromoteLooks(y, to)
    <3>1. job' # job
      BY <1>1
    <3>2. PICK y \in Procs : \/ \E to \in {"shadow"} \cup Enforcing : PromoteLooks(y, to)
                             \/ PromoteSets(y)
                             \/ \E t \in Thresholds : ThresholdLooks(y, t)
                             \/ ThresholdSets(y)
      BY <1>1, <3>1 DEF LedgerNext, LogNext, Logging, Runnings, Settings, Deciding, TearLog,
         Evaluate, RecordDecision, LearnFeedback, LearnDecision, Preview, Apply, StartRun,
         AbortRun, Disable, Demote, ledgerVars
    <3>3. job = [z \in Procs |-> job[z]]
      BY <1>1 DEF LogInv
    <3>4. CASE PromoteSets(y) \/ ThresholdSets(y)
      <4>1. PICK idle : idle = Idle /\ idle.pc = "idle"
        <5>1. Idle.pc = "idle"
          BY DEF Idle
        <5> QED  BY <5>1, Zenon
      <4>2. job' = [job EXCEPT ![y] = idle]
        BY <3>4, <4>1 DEF PromoteSets, ThresholdSets
      <4> QED  BY <1>1, <3>3, <4>1, <4>2
    <3>5. ASSUME NEW t \in Thresholds, ThresholdLooks(y, t) PROVE FALSE
      <4>1. PICK new : /\ new = [pc |-> "threshold", mode |-> autopilot.mode, threshold |-> t]
                       /\ new.pc = "threshold"
        <5>1. [pc |-> "threshold", mode |-> autopilot.mode, threshold |-> t].pc = "threshold"
          OBVIOUS
        <5> QED  BY <5>1, Zenon
      <4>2. job' = [job EXCEPT ![y] = new]
        BY <3>5, <4>1 DEF ThresholdLooks
      <4> QED  BY <1>1, <3>3, <4>1, <4>2
    <3> QED  BY <3>2, <3>4, <3>5
  <2>2. \E to : Eligible(to, Statistics)
    BY <2>1 DEF PromoteLooks
  <2>3. ~Statistics.failed /\ Statistics.integrity
    BY <2>2 DEF Eligible
  <2>4. /\ Statistics.failed <=> Seen.failed \/ (session # NoRun /\ 0 < session.started)
        /\ Statistics.integrity = Integrity(Seen, session)
    BY Zenon DEF Statistics, Metrics, Seen
  <2>5. Intact
    BY <2>3, <2>4 DEF Intact
  <2> QED  BY <1>1, <2>5, IntactIsClosed
<1>2. LogInv /\ [LedgerNext]_ledgerVars => [Granted]_ledgerVars
  BY <1>1
<1> HIDE DEF Granted
<1>3. LedgerSpec => [][Granted]_ledgerVars
  BY <1>2, LogInvariant, PTL DEF LedgerSpec
<1> QED  BY <1>3 DEF PromotedOnClosedLedger, Granted
=============================================================================
