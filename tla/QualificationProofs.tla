-------------------------- MODULE QualificationProofs --------------------------
(* What the verifiers of qualification.rs accept: a session with a host, the reports of a run *)
(* and a bundle, for any number of identifiers, commands, workers, copiers and writes.        *)
EXTENDS HostEvidence, RunnerEvidence, QualificationBundle, FiniteSetTheorems, TLAPS

-----------------------------------------------------------------------------
(* A session with a host and its finalizer. *)

CallValues ==
  [said : BOOLEAN, tool : {"gate", "record", "feedback", "preview", "apply", "hook"},
   question : {"formatter", "other", Unset},
   decision : Decisions \cup {Earlier, Unset}, packet : Packets \cup {Waiting, Unset},
   outcome : {"ask_user", "proceed", "asked", "told", "created", "shown", "applied", "denied"},
   chosen : {"biome", "prettier", Unset}]

\* What a call of the thread can say.
CallMeans(c) ==
  /\ c.tool # "hook"
  /\ c.tool = "gate" /\ c.outcome # "denied" => c.decision \in Decisions
  /\ c.tool = "feedback" /\ c.outcome # "denied" => c.packet \in Packets
  /\ c.tool = "preview" => c.outcome \in {"shown", "denied"}
  /\ c.tool = "apply" => c.outcome \in {"applied", "denied"}

CallRecords == {c \in CallValues : CallMeans(c)}
EntryRecords == [by : Nat, what : CallValues]

\* Whatever decides, records or corrects leaves its entry.
Covered(s, e) ==
  \A i \in 1..Len(s) : s[i].tool \in {"gate", "record", "feedback"} /\ s[i].outcome # "denied" =>
      \E j \in 1..Len(e) : e[j] = Entry(i, s[i])

HostMeans ==
  /\ calls \in Seq(CallRecords) /\ entries \in Seq(EntryRecords) /\ Covered(calls, entries)
  /\ setting.eligible \in BOOLEAN
  /\ final \in [pc : {"open", "calls", "ledger", "again", "published"},
                calls : Seq(CallRecords), entries : Seq(EntryRecords)]
  /\ final.pc # "open" => /\ CallsProve(final.calls) /\ Len(calls) >= 7
                          /\ \A i \in 1..7 : calls[i] = final.calls[i]
  /\ final.pc \in {"ledger", "again", "published"} =>
        Correlates(final.entries, Summary(final.calls)) /\ Covered(final.calls, final.entries)

LEMMA HostStarts == HostInit => HostMeans
<1> SUFFICES ASSUME HostInit PROVE HostMeans
  OBVIOUS
<1>1. /\ calls = <<>> /\ entries = <<>> /\ setting \in [eligible : BOOLEAN, hooks : BOOLEAN]
      /\ final = [pc |-> "open", calls |-> <<>>, entries |-> <<>>]
  BY DEF HostInit, Open
<1> QED BY <1>1 DEF HostMeans, Covered

LEMMA Concatenated ==
  ASSUME NEW S, NEW s \in Seq(S), NEW t \in Seq(S)
  PROVE  /\ s \o t \in Seq(S) /\ Len(s \o t) = Len(s) + Len(t)
         /\ \A j \in 1..Len(s) : (s \o t)[j] = s[j]
         /\ \A j \in 1..Len(t) : (s \o t)[Len(s) + j] = t[j]
  OBVIOUS

\* The thread and the ledger only grow.
LEMMA CoveredStays ==
  ASSUME HostMeans, NEW e \in Seq(EntryRecords), calls' = calls, entries' = entries \o e
  PROVE  /\ entries' \in Seq(EntryRecords) /\ Covered(calls', entries')
<1>1. /\ entries \in Seq(EntryRecords) /\ Len(entries) \in Nat /\ Len(e) \in Nat
      /\ Covered(calls, entries)
  BY DEF HostMeans
<1>2. /\ entries' \in Seq(EntryRecords) /\ Len(entries') = Len(entries) + Len(e)
      /\ \A j \in 1..Len(entries) : entries'[j] = entries[j]
  BY <1>1
<1>3. \A j \in 1..Len(entries) : j \in 1..Len(entries')
  BY <1>1, <1>2
<1> QED BY <1>1, <1>2, <1>3 DEF Covered

LEMMA CallAdded ==
  ASSUME HostMeans, NEW c \in CallRecords, NEW written, Calls(c, written),
         c.tool \in {"gate", "record", "feedback"} /\ c.outcome # "denied" => written
  PROVE  HostMeans'
<1> DEFINE n == Len(calls)
           hook == IF c.said /\ setting.hooks THEN <<Entry(0, Hook)>> ELSE <<>>
           own == IF written THEN <<Entry(n + 1, c)>> ELSE <<>>
<1>1. /\ n \in Nat /\ calls \in Seq(CallRecords) /\ entries \in Seq(EntryRecords)
      /\ Len(entries) \in Nat /\ Covered(calls, entries)
  BY DEF HostMeans
<1>2. /\ calls' = Append(calls, c) /\ UNCHANGED <<setting, final>>
      /\ entries' = entries \o hook \o own
  <2>1. Len(Append(calls, c)) = n + 1
    BY <1>1
  <2> QED BY <2>1 DEF Calls
<1>3. /\ calls' \in Seq(CallRecords) /\ Len(calls') = n + 1 /\ calls'[n + 1] = c
      /\ \A i \in 1..n : calls'[i] = calls[i]
  BY <1>1, <1>2
<1>4. hook \in Seq(EntryRecords) /\ own \in Seq(EntryRecords)
  <2>1. Hook \in CallValues /\ c \in CallValues
    BY DEF Hook, Call, CallValues, CallRecords
  <2>2. Entry(0, Hook) \in EntryRecords /\ Entry(n + 1, c) \in EntryRecords
    BY <1>1, <2>1 DEF Entry, EntryRecords
  <2> QED BY <2>2
<1>5. /\ own # <<>> <=> written
      /\ written => Len(own) = 1 /\ own[1] = Entry(n + 1, c)
      /\ ~written => Len(own) = 0
  OBVIOUS
<1> HIDE DEF hook, own
<1>6. /\ entries' \in Seq(EntryRecords)
      /\ Len(entries') = Len(entries) + Len(hook) + Len(own)
      /\ \A j \in 1..Len(entries) : entries'[j] = entries[j]
      /\ written => entries'[Len(entries) + Len(hook) + 1] = own[1]
  <2>1. Len(hook) \in Nat /\ Len(own) \in Nat
    BY <1>4
  <2> DEFINE both == entries \o hook
  <2>2. /\ both \in Seq(EntryRecords) /\ Len(both) = Len(entries) + Len(hook)
        /\ \A j \in 1..Len(entries) : both[j] = entries[j]
    BY <1>1, <1>4, <2>1
  <2>3. entries' = both \o own
    BY <1>2
  <2> HIDE DEF both
  <2>4. /\ entries' \in Seq(EntryRecords) /\ Len(entries') = Len(both) + Len(own)
        /\ \A j \in 1..Len(both) : entries'[j] = both[j]
        /\ \A j \in 1..Len(own) : entries'[Len(both) + j] = own[j]
    <3>1. \A x \in Seq(EntryRecords), y \in Seq(EntryRecords) :
            /\ x \o y \in Seq(EntryRecords) /\ Len(x \o y) = Len(x) + Len(y)
            /\ \A j \in 1..Len(x) : (x \o y)[j] = x[j]
            /\ \A j \in 1..Len(y) : (x \o y)[Len(x) + j] = y[j]
      BY Concatenated
    <3>2. both \in Seq(EntryRecords) /\ own \in Seq(EntryRecords)
      BY <1>4, <2>2
    <3> QED BY <2>3, <3>1, <3>2, Zenon
  <2>5. \A j \in 1..Len(entries) : j \in 1..Len(both)
    BY <1>1, <2>1, <2>2
  <2> QED BY <1>1, <1>5, <2>1, <2>2, <2>4, <2>5
<1>7. Covered(calls', entries')
  <2>0. Len(hook) \in Nat /\ Len(own) \in Nat
    BY <1>4
  <2> SUFFICES ASSUME NEW i \in 1..Len(calls'), calls'[i].tool \in {"gate", "record", "feedback"},
                      calls'[i].outcome # "denied"
               PROVE  \E j \in 1..Len(entries') : entries'[j] = Entry(i, calls'[i])
    BY DEF Covered
  <2>1. CASE i \in 1..n
    <3>1. PICK j \in 1..Len(entries) : entries[j] = Entry(i, calls[i])
      BY <1>1, <1>3, <2>1 DEF Covered
    <3>2. j \in 1..Len(entries')
      BY <1>1, <1>6, <2>0
    <3> QED BY <1>3, <1>6, <2>1, <3>1, <3>2
  <2>2. CASE i = n + 1
    <3>1. written
      BY <1>3, <2>2
    <3>2. Len(entries) + Len(hook) + 1 \in 1..Len(entries')
      BY <1>1, <1>5, <1>6, <2>0, <3>1
    <3> QED BY <1>3, <1>5, <1>6, <2>2, <3>1, <3>2
  <2> QED BY <1>1, <1>3, <2>1, <2>2
<1>8. final.pc # "open" => Len(calls') >= 7 /\ \A i \in 1..7 : calls'[i] = calls[i]
  <2>1. final.pc # "open" => n >= 7
    BY DEF HostMeans
  <2> QED BY <1>1, <1>3, <2>1
<1> QED BY <1>2, <1>3, <1>6, <1>7, <1>8 DEF HostMeans

\* What calls are about is of the session, of before, or nothing.
LEMMA Known ==
  ASSUME HostMeans
  PROVE  /\ Asked(calls) \subseteq Decisions \cup {Earlier, Unset}
         /\ Created(calls) \subseteq Packets \cup {Waiting, Unset}
         /\ \A p : Teaches(calls, p) \subseteq {"biome", "prettier", Unset}
<1>1. \A i \in 1..Len(calls) : calls[i] \in CallValues
  BY DEF HostMeans, CallRecords
<1>2. \A i \in 1..Len(calls) : /\ calls[i].decision \in Decisions \cup {Earlier, Unset}
                               /\ calls[i].packet \in Packets \cup {Waiting, Unset}
                               /\ calls[i].chosen \in {"biome", "prettier", Unset}
  BY <1>1 DEF CallValues
<1>3. \A tool : Of(calls, tool) \subseteq 1..Len(calls)
  BY DEF Of
<1> QED BY <1>2, <1>3 DEF Asked, Created, Teaches

LEMMA SessionStep ==
  ASSUME HostMeans, NEW said \in BOOLEAN
  PROVE  /\ Gate(said) => HostMeans'
         /\ Record(said) => HostMeans'
         /\ Feedback(said) => HostMeans'
         /\ Preview(said) => HostMeans'
         /\ Apply(said) => HostMeans'
         /\ \A tool \in {"gate", "record", "feedback", "preview", "apply"} :
                Denied(said, tool) => HostMeans'
<1> USE Known
<1>1. ASSUME Gate(said) PROVE HostMeans'
  <2>1. PICK d \in Decisions \ Asked(calls), question \in {"formatter", "other"} :
        \/ Calls(Call(said, "gate", question, d, Unset, "ask_user", Unset), TRUE)
        \/ \E p \in Applied(calls) : \E option \in Teaches(calls, p) :
              Calls(Call(said, "gate", question, d, Unset, "proceed", option), TRUE)
    BY <1>1 DEF Gate
  <2>2. PICK outcome \in {"ask_user", "proceed"}, option \in {"biome", "prettier", Unset} :
          Calls(Call(said, "gate", question, d, Unset, outcome, option), TRUE)
    BY <2>1
  <2>3. Call(said, "gate", question, d, Unset, outcome, option) \in CallRecords
    BY DEF Call, CallRecords, CallValues, CallMeans
  <2> QED BY <2>2, <2>3, CallAdded
<1>2. ASSUME Record(said) PROVE HostMeans'
  <2>1. PICK d \in Asked(calls), chosen \in {"biome", "prettier"}, outcome \in {"asked", "told"} :
          Calls(Call(said, "record", Unset, d, Unset, outcome, chosen), TRUE)
    BY <1>2 DEF Record
  <2>2. Call(said, "record", Unset, d, Unset, outcome, chosen) \in CallRecords
    BY DEF Call, CallRecords, CallValues, CallMeans
  <2> QED BY <2>1, <2>2, CallAdded
<1>3. ASSUME Feedback(said) PROVE HostMeans'
  <2>1. PICK d \in Asked(calls), p \in Packets \ Created(calls), chosen \in {"biome", "prettier"} :
          Calls(Call(said, "feedback", Unset, d, p, "created", chosen), TRUE)
    BY <1>3 DEF Feedback
  <2>2. Call(said, "feedback", Unset, d, p, "created", chosen) \in CallRecords
    BY DEF Call, CallRecords, CallValues, CallMeans
  <2> QED BY <2>1, <2>2, CallAdded
<1>4. ASSUME Preview(said) PROVE HostMeans'
  <2>1. PICK p \in Created(calls), option \in {"biome", "prettier", Unset} :
          Calls(Call(said, "preview", Unset, Unset, p, "shown", option), FALSE)
    BY <1>4 DEF Preview
  <2>2. /\ Call(said, "preview", Unset, Unset, p, "shown", option) \in CallRecords
        /\ Call(said, "preview", Unset, Unset, p, "shown", option).tool = "preview"
    BY DEF Call, CallRecords, CallValues, CallMeans
  <2> QED BY <2>1, <2>2, CallAdded
<1>5. ASSUME Apply(said) PROVE HostMeans'
  <2>1. PICK p \in Created(calls) :
          Calls(Call(said, "apply", Unset, Unset, p, "applied", Unset), FALSE)
    BY <1>5 DEF Apply
  <2>2. /\ Call(said, "apply", Unset, Unset, p, "applied", Unset) \in CallRecords
        /\ Call(said, "apply", Unset, Unset, p, "applied", Unset).tool = "apply"
    BY DEF Call, CallRecords, CallValues, CallMeans
  <2> QED BY <2>1, <2>2, CallAdded
<1>6. ASSUME NEW tool \in {"gate", "record", "feedback", "preview", "apply"}, Denied(said, tool)
      PROVE  HostMeans'
  <2>1. Calls(Call(said, tool, Unset, Unset, Unset, "denied", Unset), FALSE)
    BY <1>6 DEF Denied
  <2>2. /\ Call(said, tool, Unset, Unset, Unset, "denied", Unset) \in CallRecords
        /\ Call(said, tool, Unset, Unset, Unset, "denied", Unset).outcome = "denied"
    BY DEF Call, CallRecords, CallValues, CallMeans
  <2> QED BY <2>1, <2>2, CallAdded
<1> QED BY <1>1, <1>2, <1>3, <1>4, <1>5, <1>6

LEMMA ForeignStep == ASSUME HostMeans, Foreign PROVE HostMeans'
<1>1. PICK d \in Asked(calls) :
        \E c \in {Call(FALSE, "gate", "formatter", Earlier, Unset, "proceed", "prettier"),
                  Call(FALSE, "gate", "other", Earlier, Unset, "ask_user", Unset),
                  Call(FALSE, "record", Unset, d, Unset, "asked", "biome"),
                  Call(FALSE, "feedback", Unset, d, Waiting, "created", "prettier")} :
            entries' = Append(entries, Entry(0, c))
  BY DEF Foreign
<1>2. PICK c \in CallValues : entries' = Append(entries, Entry(0, c))
  <2>1. d \in Decisions \cup {Earlier, Unset}
    BY Known
  <2>2. /\ Call(FALSE, "gate", "formatter", Earlier, Unset, "proceed", "prettier") \in CallValues
        /\ Call(FALSE, "gate", "other", Earlier, Unset, "ask_user", Unset) \in CallValues
        /\ Call(FALSE, "record", Unset, d, Unset, "asked", "biome") \in CallValues
        /\ Call(FALSE, "feedback", Unset, d, Waiting, "created", "prettier") \in CallValues
    BY <2>1 DEF Call, CallValues
  <2> QED BY <1>1, <2>2
<1>3. UNCHANGED <<setting, calls, final>>
  BY DEF Foreign
<1>4. <<Entry(0, c)>> \in Seq(EntryRecords) /\ entries' = entries \o <<Entry(0, c)>>
  <2>1. Entry(0, c) \in EntryRecords
    BY DEF Entry, EntryRecords
  <2> QED BY <1>2, <2>1 DEF HostMeans
<1>5. entries' \in Seq(EntryRecords) /\ Covered(calls', entries')
  BY <1>3, <1>4, CoveredStays
<1> QED BY <1>3, <1>5 DEF HostMeans

LEMMA FinalizeStep == ASSUME HostMeans, Finalize PROVE HostMeans'
<1> USE DEF HostMeans
<1>0. /\ UNCHANGED <<setting, calls, entries>>
      /\ Open \in [pc : {"open", "calls", "ledger", "again", "published"},
                   calls : Seq(CallRecords), entries : Seq(EntryRecords)]
      /\ Open.pc = "open"
  BY DEF Finalize, ReadCalls, ReadLedger, ReadLedgerAgain, ReadCallsAgain, Open
<1>1. CASE ReadCalls
  <2>1. /\ CallsProve(calls) /\ final' = [pc |-> "calls", calls |-> calls, entries |-> <<>>]
    BY <1>1 DEF ReadCalls
  <2>2. Len(calls) = 7
    BY <2>1 DEF CallsProve, CallOrder
  <2>3. <<>> \in Seq(EntryRecords)
    OBVIOUS
  <2>4. /\ final' \in [pc : {"open", "calls", "ledger", "again", "published"},
                       calls : Seq(CallRecords), entries : Seq(EntryRecords)]
        /\ final'.pc = "calls" /\ final'.calls = calls
    BY <2>1, <2>3
  <2> QED BY <1>0, <2>1, <2>2, <2>4
<1>2. CASE final' = Open
  BY <1>0, <1>2
<1>3. CASE ReadLedger /\ final' # Open
  <2>1. /\ final.pc = "calls" /\ Correlates(entries, Summary(final.calls))
        /\ final' = [pc |-> "ledger", calls |-> final.calls, entries |-> entries]
    BY <1>3 DEF ReadLedger
  <2>2. CallsProve(final.calls) /\ Len(final.calls) = 7
    BY <2>1 DEF CallsProve, CallOrder
  <2>3. Covered(final.calls, entries)
    <3>1. Len(calls) >= 7 /\ Len(calls) \in Nat /\ \A i \in 1..7 : calls[i] = final.calls[i]
      BY <2>1
    <3>2. \A i \in 1..7 : i \in 1..Len(calls)
      BY <3>1
    <3>3. Covered(calls, entries)
      OBVIOUS
    <3> HIDE DEF HostMeans
    <3> QED BY <2>2, <3>1, <3>2, <3>3 DEF Covered
  <2>4. /\ final' \in [pc : {"open", "calls", "ledger", "again", "published"},
                       calls : Seq(CallRecords), entries : Seq(EntryRecords)]
        /\ final'.pc = "ledger" /\ final'.calls = final.calls /\ final'.entries = entries
    BY <2>1
  <2> QED BY <1>0, <2>1, <2>2, <2>3, <2>4
<1>4. CASE (ReadLedgerAgain \/ ReadCallsAgain) /\ final' # Open
  <2>1. PICK pc \in {"again", "published"} : final' = [final EXCEPT !.pc = pc]
    BY <1>4 DEF ReadLedgerAgain, ReadCallsAgain
  <2>2. final.pc \in {"ledger", "again"}
    BY <1>4 DEF ReadLedgerAgain, ReadCallsAgain
  <2>3. /\ final' \in [pc : {"open", "calls", "ledger", "again", "published"},
                      calls : Seq(CallRecords), entries : Seq(EntryRecords)]
        /\ final'.pc = pc /\ final'.calls = final.calls /\ final'.entries = final.entries
    BY <2>1
  <2> QED BY <1>0, <2>2, <2>3
<1> QED BY <1>1, <1>2, <1>3, <1>4 DEF Finalize

LEMMA HostStep == HostMeans /\ [HostNext]_hostVars => HostMeans'
<1> SUFFICES ASSUME HostMeans, [HostNext]_hostVars PROVE HostMeans'
  OBVIOUS
<1>1. CASE Session
  BY <1>1, SessionStep DEF Session
<1>2. CASE UNCHANGED hostVars
  BY <1>2 DEF HostMeans, hostVars
<1> QED BY <1>1, <1>2, ForeignStep, FinalizeStep DEF HostNext

\* What the seven calls have to be.
CallsLearned(s) ==
  /\ s[1].tool = "gate" /\ s[1].outcome = "ask_user" /\ s[1].chosen = Unset
  /\ s[1].question = "formatter"
  /\ s[2].tool = "record" /\ s[2].said /\ s[2].decision = s[1].decision
  /\ s[2].chosen = "biome" /\ s[2].outcome = "asked"
  /\ s[3].tool = "feedback" /\ s[3].outcome # "denied" /\ s[3].decision = s[1].decision
  /\ s[3].chosen = "prettier"
  /\ s[4].tool = "preview" /\ s[4].outcome = "shown" /\ s[4].packet = s[3].packet
  /\ s[5].tool = "apply" /\ s[5].outcome = "applied" /\ s[5].packet = s[3].packet
  /\ s[6].tool = "gate" /\ s[6].outcome = "proceed" /\ s[6].chosen = "prettier"
  /\ s[6].decision # s[1].decision /\ s[6].question = "formatter"
  /\ s[7].tool = "record" /\ ~s[7].said /\ s[7].decision = s[6].decision
  /\ s[7].chosen = "prettier" /\ s[7].outcome = "told"
  /\ {s[1].decision, s[6].decision} \subseteq Decisions /\ s[3].packet \in Packets

LEMMA ProvedCalls ==
  ASSUME NEW s \in Seq(CallRecords), CallsProve(s)
  PROVE  Len(s) = 7 /\ CallsLearned(s)
<1>1. Len(s) = 7 /\ \A i \in 1..7 : Proves(s, i)
  BY DEF CallsProve, CallOrder
<1>2. \A i \in 1..7 : CallMeans(s[i]) /\ s[i] \in CallValues
  BY <1>1 DEF CallRecords
<1>3. /\ CallOrder[1] = "gate" /\ CallOrder[2] = "record" /\ CallOrder[3] = "feedback"
      /\ CallOrder[4] = "preview" /\ CallOrder[5] = "apply" /\ CallOrder[6] = "gate"
      /\ CallOrder[7] = "record"
  BY DEF CallOrder
<1>4. /\ Proves(s, 1) /\ Proves(s, 2) /\ Proves(s, 3) /\ Proves(s, 4)
      /\ Proves(s, 5) /\ Proves(s, 6) /\ Proves(s, 7)
  BY <1>1
<1>5. /\ CallMeans(s[1]) /\ CallMeans(s[3]) /\ CallMeans(s[4]) /\ CallMeans(s[5])
      /\ CallMeans(s[6])
  BY <1>2
<1>6. /\ s[1].tool = "gate" /\ s[1].outcome = "ask_user" /\ s[1].chosen = Unset
      /\ s[1].question = "formatter" /\ s[1].decision \in Decisions
  BY <1>3, <1>4, <1>5 DEF Proves, CallMeans
<1>7. /\ s[2].tool = "record" /\ s[2].said /\ s[2].decision = s[1].decision
      /\ s[2].chosen = "biome" /\ s[2].outcome = "asked"
  BY <1>3, <1>4 DEF Proves
<1>8. /\ s[3].tool = "feedback" /\ s[3].outcome # "denied" /\ s[3].decision = s[1].decision
      /\ s[3].chosen = "prettier" /\ s[3].packet \in Packets
  BY <1>3, <1>4, <1>5 DEF Proves, CallMeans
<1>9. /\ s[4].tool = "preview" /\ s[4].outcome = "shown" /\ s[4].packet = s[3].packet
      /\ s[5].tool = "apply" /\ s[5].outcome = "applied" /\ s[5].packet = s[3].packet
  BY <1>3, <1>4, <1>5 DEF Proves, CallMeans
<1>10. /\ s[6].tool = "gate" /\ s[6].outcome = "proceed" /\ s[6].chosen = "prettier"
       /\ s[6].decision # s[1].decision /\ s[6].question = "formatter"
       /\ s[6].decision \in Decisions
  BY <1>3, <1>4, <1>5 DEF Proves, CallMeans
<1>11. /\ s[7].tool = "record" /\ ~s[7].said /\ s[7].decision = s[6].decision
       /\ s[7].chosen = "prettier" /\ s[7].outcome = "told"
  BY <1>3, <1>4 DEF Proves
<1> QED BY <1>1, <1>6, <1>7, <1>8, <1>9, <1>10, <1>11 DEF CallsLearned

LEMMA SevenCallsAreLearned ==
  ASSUME NEW s, Len(s) = 7, CallsLearned(s)
  PROVE  Learned(s)
<1>1. /\ 1 \in After(s, 0, "gate") /\ 2 \in After(s, 1, "record")
      /\ 3 \in After(s, 2, "feedback") /\ 4 \in After(s, 3, "preview")
      /\ 5 \in After(s, 3, "apply") /\ 6 \in After(s, 5, "gate")
      /\ 7 \in After(s, 6, "record") /\ 4 < 5
  BY DEF After, CallsLearned
<1> QED BY <1>1, Zenon DEF Learned, CallsLearned

\* Five entries and hooks are all there is, and the five are those of the seven calls.
LEMMA NobodyElse ==
  ASSUME NEW s, Len(s) = 7, CallsLearned(s), NEW e \in Seq(EntryRecords),
         Correlates(e, Summary(s)), Covered(s, e)
  PROVE  /\ \A i \in 1..Len(e) : e[i].what.tool # "hook" => e[i].by # 0
         /\ Kind(e, "hook") # {} /\ Len(e) >= 6
<1> DEFINE n == Len(e)
<1>0. n \in Nat
  OBVIOUS
<1>1. PICK g \in Gates(e), h \in Gates(e), a \in Kind(e, "record"), b \in Kind(e, "record"),
           f \in Kind(e, "feedback") :
        /\ g < a /\ a < f /\ f < h /\ h < b
        /\ Gates(e) = {g, h} /\ Kind(e, "record") = {a, b} /\ Kind(e, "feedback") = {f}
        /\ Kind(e, "hook") # {}
        /\ 1..n = {g, a, f, h, b} \cup Kind(e, "hook")
  BY DEF Correlates
<1>2. ASSUME NEW i \in {1, 2, 3, 6, 7}
      PROVE  \E j \in 1..n : e[j] = Entry(i, s[i])
  <2>1. i \in 1..Len(s) /\ s[i].tool \in {"gate", "record", "feedback"} /\ s[i].outcome # "denied"
    BY DEF CallsLearned
  <2> QED BY <2>1 DEF Covered
<1>3. PICK j1 \in 1..n, j2 \in 1..n, j3 \in 1..n, j6 \in 1..n, j7 \in 1..n :
        /\ e[j1] = Entry(1, s[1]) /\ e[j2] = Entry(2, s[2]) /\ e[j3] = Entry(3, s[3])
        /\ e[j6] = Entry(6, s[6]) /\ e[j7] = Entry(7, s[7])
  BY <1>2
<1>4. /\ e[j1].by = 1 /\ e[j1].what = s[1] /\ e[j2].by = 2 /\ e[j2].what = s[2]
      /\ e[j3].by = 3 /\ e[j3].what = s[3] /\ e[j6].by = 6 /\ e[j6].what = s[6]
      /\ e[j7].by = 7 /\ e[j7].what = s[7]
  BY <1>3 DEF Entry
<1>5. j1 \in {g, h} /\ j6 \in {g, h} /\ j1 # j6
  <2>1. /\ e[j1].what.tool = "gate" /\ e[j1].what.question = "formatter"
        /\ e[j6].what.tool = "gate" /\ e[j6].what.question = "formatter"
    BY <1>4 DEF CallsLearned
  <2>2. j1 \in Gates(e) /\ j6 \in Gates(e)
    BY <2>1 DEF Gates, Kind
  <2> QED BY <1>1, <1>4, <2>2
<1>6. j2 \in {a, b} /\ j7 \in {a, b} /\ j2 # j7 /\ j3 = f
  <2>1. /\ e[j2].what.tool = "record" /\ e[j7].what.tool = "record"
        /\ e[j3].what.tool = "feedback"
    BY <1>4 DEF CallsLearned
  <2>2. j2 \in Kind(e, "record") /\ j7 \in Kind(e, "record") /\ j3 \in Kind(e, "feedback")
    BY <2>1 DEF Kind
  <2> QED BY <1>1, <1>4, <2>2
<1>7. /\ e[g].by # 0 /\ e[h].by # 0 /\ e[a].by # 0 /\ e[b].by # 0 /\ e[f].by # 0
  BY <1>4, <1>5, <1>6
<1>8. ASSUME NEW i \in 1..n, e[i].what.tool # "hook" PROVE e[i].by # 0
  <2>1. i \notin Kind(e, "hook")
    BY <1>8 DEF Kind
  <2> QED BY <1>1, <1>7, <2>1
<1>9. n >= 6
  <2>1. PICK k \in Kind(e, "hook") : TRUE
    BY <1>1
  <2>2. k \in 1..n /\ e[k].what.tool = "hook"
    BY DEF Kind
  <2>3. /\ g \in 1..n /\ e[g].what.tool = "gate" /\ h \in 1..n /\ e[h].what.tool = "gate"
        /\ a \in 1..n /\ e[a].what.tool = "record" /\ b \in 1..n /\ e[b].what.tool = "record"
        /\ f \in 1..n /\ e[f].what.tool = "feedback"
    BY DEF Gates, Kind
  <2>4. k \notin {g, h, a, b, f}
    BY <2>2, <2>3
  <2> QED BY <1>0, <1>1, <2>2, <2>3, <2>4
<1> QED BY <1>1, <1>8, <1>9

\* The events are the same for any session with these identifiers.
EventsSay(e, sum) ==
  /\ Len(e) = 12 /\ Len(EventKinds) = 12
  /\ \A i \in 1..12 : e[i].sequence = i /\ e[i].kind = EventKinds[i] /\ e[i].success
  /\ \A i \in 1..12 : /\ i < 5 => e[i].decision = Unset
                      /\ i >= 5 /\ i < 11 => e[i].decision = sum.first
                      /\ i >= 11 => e[i].decision = sum.second
                      /\ i < 8 => e[i].packet = Unset
                      /\ i >= 8 => e[i].packet = sum.packet
  /\ \A i \in 1..12 : i # 11 => /\ e[i].changed = Unset /\ e[i].outcome = Unset
                                /\ e[i].selected = Unset
  /\ e[11].changed = TRUE /\ e[11].outcome = "proceed" /\ e[11].selected = "prettier"

LEMMA EventFields == ASSUME NEW sum PROVE EventsSay(Events(sum), sum)
<1>1. Len(EventKinds) = 12
  BY DEF EventKinds
<1>2. Len(Events(sum)) = 12
  BY DEF Events
<1>3. ASSUME NEW i \in 1..12
      PROVE  Events(sum)[i] =
               Event(i, IF i < 5 THEN Unset ELSE IF i < 11 THEN sum.first ELSE sum.second,
                     IF i < 8 THEN Unset ELSE sum.packet,
                     IF i = 11 THEN TRUE ELSE Unset,
                     IF i = 11 THEN "proceed" ELSE Unset, IF i = 11 THEN "prettier" ELSE Unset)
  BY DEF Events
<1>4. ASSUME NEW i \in 1..12 \ {11}
      PROVE  Events(sum)[i] =
               Event(i, IF i < 5 THEN Unset ELSE IF i < 11 THEN sum.first ELSE sum.second,
                     IF i < 8 THEN Unset ELSE sum.packet, Unset, Unset, Unset)
  BY <1>3
<1>5. Events(sum)[11] = Event(11, sum.second, sum.packet, TRUE, "proceed", "prettier")
  BY DEF Events, Event
<1>6. ASSUME NEW i \in 1..12 \ {11}
      PROVE  /\ Events(sum)[i].sequence = i /\ Events(sum)[i].kind = EventKinds[i]
             /\ Events(sum)[i].success
             /\ Events(sum)[i].decision =
                  IF i < 5 THEN Unset ELSE IF i < 11 THEN sum.first ELSE sum.second
             /\ Events(sum)[i].packet = IF i < 8 THEN Unset ELSE sum.packet
             /\ Events(sum)[i].changed = Unset /\ Events(sum)[i].outcome = Unset
             /\ Events(sum)[i].selected = Unset
  <2> DEFINE d == IF i < 5 THEN Unset ELSE IF i < 11 THEN sum.first ELSE sum.second
             p == IF i < 8 THEN Unset ELSE sum.packet
  <2>1. Events(sum)[i] = Event(i, d, p, Unset, Unset, Unset)
    BY <1>4
  <2> HIDE DEF d, p
  <2>2. /\ Events(sum)[i].sequence = i /\ Events(sum)[i].kind = EventKinds[i]
        /\ Events(sum)[i].success
        /\ Events(sum)[i].decision = d /\ Events(sum)[i].packet = p
        /\ Events(sum)[i].changed = Unset /\ Events(sum)[i].outcome = Unset
        /\ Events(sum)[i].selected = Unset
    BY <2>1 DEF Event
  <2> QED BY <2>2 DEF d, p
<1>7. /\ Events(sum)[11].sequence = 11 /\ Events(sum)[11].kind = EventKinds[11]
      /\ Events(sum)[11].success
      /\ Events(sum)[11].decision = sum.second /\ Events(sum)[11].packet = sum.packet
      /\ Events(sum)[11].changed = TRUE
      /\ Events(sum)[11].outcome = "proceed" /\ Events(sum)[11].selected = "prettier"
  BY <1>5 DEF Event
<1>8. \A i \in 1..12 : /\ i < 5 => Events(sum)[i].decision = Unset
                       /\ i >= 5 /\ i < 11 => Events(sum)[i].decision = sum.first
                       /\ i >= 11 => Events(sum)[i].decision = sum.second
                       /\ i < 8 => Events(sum)[i].packet = Unset
                       /\ i >= 8 => Events(sum)[i].packet = sum.packet
  BY <1>6, <1>7
<1>9. \A i \in 1..12 : /\ Events(sum)[i].sequence = i /\ Events(sum)[i].kind = EventKinds[i]
                       /\ Events(sum)[i].success
  BY <1>6, <1>7
<1> QED BY <1>1, <1>2, <1>6, <1>7, <1>8, <1>9 DEF EventsSay

LEMMA DocumentsQualify ==
  ASSUME NEW s, Len(s) = 7, CallsLearned(s), NEW e, Kind(e, "hook") # {}, Len(e) >= 6
  PROVE  HostQualifies(Observation(s, e), Events(Summary(s))) <=> setting.eligible
<1> DEFINE o == Observation(s, e)
           sum == Summary(s)
           x == Events(sum)
<1>1. sum.first = s[1].decision /\ sum.second = s[6].decision /\ sum.packet = s[3].packet
  BY DEF Summary
<1>2. Tools(s) = CallOrder
  <2>1. Tools(s) = [i \in 1..7 |-> s[i].tool]
    BY DEF Tools
  <2>2. /\ Tools(s)[1] = "gate" /\ Tools(s)[2] = "record" /\ Tools(s)[3] = "feedback"
        /\ Tools(s)[4] = "preview" /\ Tools(s)[5] = "apply"
        /\ Tools(s)[6] = "gate" /\ Tools(s)[7] = "record"
    BY <2>1 DEF CallsLearned
  <2>3. /\ CallOrder = [i \in 1..7 |-> CallOrder[i]]
        /\ \A i \in 1..7 : i = 1 \/ i = 2 \/ i = 3 \/ i = 4 \/ i = 5 \/ i = 6 \/ i = 7
    BY DEF CallOrder
  <2>4. \A i \in 1..7 : Tools(s)[i] = CallOrder[i]
    BY <2>2, <2>3 DEF CallOrder
  <2>5. Tools(s) = [i \in 1..7 |-> Tools(s)[i]]
    BY <2>1
  <2> QED BY <2>3, <2>4, <2>5
<1>3. /\ o.order = Tools(s) /\ o.packet = s[3].packet /\ o.previewed = TRUE /\ o.approved = TRUE
      /\ o.first.decision = s[1].decision /\ o.first.outcome = s[1].outcome
      /\ o.first.selected = s[1].chosen /\ o.first.chosen = "biome" /\ o.first.asked = TRUE
      /\ o.second.decision = s[6].decision /\ o.second.outcome = s[6].outcome
      /\ o.second.selected = s[6].chosen /\ o.second.chosen = "prettier"
      /\ o.second.changed = (s[1].outcome # s[6].outcome \/ s[1].chosen # s[6].chosen)
      /\ o.second.asked = FALSE
      /\ o.hooks = Kind(e, "hook") /\ o.correlated = 5 /\ o.total = Len(e)
      /\ o.eligible = setting.eligible
  BY DEF Observation
<1> HIDE DEF o
<1>4. CallsValid(o)
  <2>1. o.previewed /\ o.approved /\ o.first.asked /\ o.second.changed /\ ~o.second.asked
    BY <1>3 DEF CallsLearned
  <2> QED BY <1>2, <1>3, <2>1 DEF CallsValid, CallsLearned
<1>5. LedgerValid(o)
  BY <1>3 DEF LedgerValid
<1>6. EventsValid(x, o)
  <2>0. EventsSay(x, sum)
    BY EventFields
  <2> HIDE DEF x, sum
  <2> USE DEF EventsSay
  <2>1. /\ Len(x) = 12 /\ Len(EventKinds) = 12
        /\ \A i \in 1..12 : x[i].sequence = i /\ x[i].kind = EventKinds[i] /\ x[i].success
    BY <2>0
  <2>2. \A i \in 1..4 : x[i].decision = Unset /\ x[i].packet = Unset
    BY <2>0
  <2>3. \A i \in 5..10 : x[i].decision = s[1].decision
    BY <1>1, <2>0
  <2>4. x[11].decision = s[6].decision /\ x[12].decision = s[6].decision
    BY <1>1, <2>0
  <2>5. \A i \in 5..7 : x[i].packet = Unset
    BY <2>0
  <2>6. \A i \in 8..12 : x[i].packet = s[3].packet
    BY <1>1, <2>0
  <2>7. \A i \in 1..12 \ {11} : x[i].changed = Unset /\ x[i].outcome = Unset /\ x[i].selected = Unset
    BY <2>0
  <2>8. x[11].changed = TRUE /\ x[11].outcome = "proceed" /\ x[11].selected = "prettier"
    BY <2>0
  <2>9. SequenceValid(x)
    <3>1. \A i \in 1..4 : i \in 1..12 \ {11}
      OBVIOUS
    <3> QED BY <2>1, <2>2, <2>7, <3>1 DEF SequenceValid
  <2>10. DecisionsCorrelate(x)
    BY <2>3, <2>4 DEF DecisionsCorrelate, CallsLearned
  <2>11. PacketsCorrelate(x)
    <3>1. \A i \in 5..7 : i \in 1..12 \ {11}
      OBVIOUS
    <3> QED BY <2>5, <2>6, <2>7, <3>1 DEF PacketsCorrelate, CallsLearned
  <2>12. ChangeFollowsApproval(x)
    <3>1. 12 \in 1..12 \ {11} /\ \A i \in 8..10 : i \in 1..12 \ {11}
      OBVIOUS
    <3> QED BY <2>7, <2>8, <3>1 DEF ChangeFollowsApproval
  <2>13. EventsMatch(x, o)
    BY <1>3, <2>3, <2>4, <2>6 DEF EventsMatch
  <2> QED BY <2>9, <2>10, <2>11, <2>12, <2>13 DEF EventsValid
<1>7. HostQualifies(o, x) <=> o.eligible
  <2> HIDE DEF x
  <2> QED BY <1>4, <1>5, <1>6 DEF HostQualifies
<1> QED BY <1>3, <1>7 DEF o

LEMMA PublishedMeansLearned == HostMeans => EvidenceMeansLearned
<1> SUFFICES ASSUME HostMeans, final.pc = "published"
             PROVE  /\ Learned(final.calls)
                    /\ \A i \in 1..Len(final.entries) :
                          final.entries[i].what.tool # "hook" => final.entries[i].by # 0
                    /\ HostQualifies(Observation(final.calls, final.entries),
                                     Events(Summary(final.calls)))
                          <=> setting.eligible
  BY DEF EvidenceMeansLearned
<1>1. /\ final.calls \in Seq(CallRecords) /\ final.entries \in Seq(EntryRecords)
      /\ CallsProve(final.calls) /\ Correlates(final.entries, Summary(final.calls))
      /\ Covered(final.calls, final.entries)
  BY DEF HostMeans
<1>2. Len(final.calls) = 7 /\ CallsLearned(final.calls)
  BY <1>1, ProvedCalls
<1>3. /\ \A i \in 1..Len(final.entries) :
            final.entries[i].what.tool # "hook" => final.entries[i].by # 0
      /\ Kind(final.entries, "hook") # {} /\ Len(final.entries) >= 6
  BY <1>1, <1>2, NobodyElse
<1> QED BY <1>2, <1>3, SevenCallsAreLearned, DocumentsQualify

\* Evidence of a session with a host is published only when the correction of one decision
\* changed the next and nobody else wrote to the ledger, whatever was called or written while the
\* finalizer read, for any number of calls, identifiers and entries (query_brainmap_calls,
\* validate_ledger_correlation); the verifier then looks at the host alone (validate_host).
THEOREM HostEvidenceIsOfLearning == HostSpec => []EvidenceMeansLearned
<1>1. HostSpec => []HostMeans
  BY HostStarts, HostStep, PTL DEF HostSpec
<1> QED BY <1>1, PublishedMeansLearned, PTL

-----------------------------------------------------------------------------
(* The commands of a run. *)

CommandRecords ==
  [sequence : Nat, fia : Required \cup {Precheck}, id : Ids, expected : {<<0>>, Nonzero},
   exit : {0, 1}, passed : BOOLEAN]

\* Every line of the report is the command that has its number.
LinesAreCommands ==
  /\ ran \in Seq(CommandRecords) /\ commands \in Seq(CommandRecords)
  /\ \A i \in 1..Len(commands) : /\ commands[i].sequence \in 1..Len(ran)
                                 /\ ran[commands[i].sequence] = commands[i]

LEMMA LinesInit == RunnerInit => LinesAreCommands
  BY DEF RunnerInit, LinesAreCommands

LEMMA LinesStep == LinesAreCommands /\ [RunnerNext]_runnerVars => LinesAreCommands'
<1> SUFFICES ASSUME LinesAreCommands, [RunnerNext]_runnerVars PROVE LinesAreCommands'
  OBVIOUS
<1> USE DEF LinesAreCommands
<1>1. CASE Run
  <2>1. PICK fia \in Required \cup {Precheck}, id \in Ids, expected \in {<<0>>, Nonzero},
             exit \in {0, 1} :
          LET c == [sequence |-> Len(ran) + 1, fia |-> fia, id |-> id, expected |-> expected,
                    exit |-> exit, passed |-> (exit = 0 <=> expected = <<0>>)]
          IN /\ ran' = Append(ran, c)
             /\ \/ commands' = Append(commands, c)
                \/ commands' = commands
                \/ commands' = commands \o <<c, c>>
    BY <1>1 DEF Run
  <2> DEFINE c == [sequence |-> Len(ran) + 1, fia |-> fia, id |-> id, expected |-> expected,
                    exit |-> exit, passed |-> (exit = 0 <=> expected = <<0>>)]
  <2>2. c \in CommandRecords /\ c.sequence = Len(ran) + 1
    BY DEF CommandRecords
  <2>3. /\ ran' = Append(ran, c)
        /\ \/ commands' = Append(commands, c)
           \/ commands' = commands
           \/ commands' = commands \o <<c, c>>
    BY <2>1
  <2> HIDE DEF c
  <2>4. /\ ran' \in Seq(CommandRecords) /\ Len(ran') = Len(ran) + 1
        /\ ran'[Len(ran) + 1] = c
        /\ \A j \in 1..Len(ran) : ran'[j] = ran[j]
    BY <2>2, <2>3
  <2>5. CASE commands' = commands
    BY <2>4, <2>5
  <2>6. CASE commands' = Append(commands, c)
    BY <2>2, <2>4, <2>6
  <2>7. CASE commands' = commands \o <<c, c>>
    <3>1. /\ commands' \in Seq(CommandRecords) /\ Len(commands') = Len(commands) + 2
          /\ \A i \in 1..Len(commands) : commands'[i] = commands[i]
          /\ commands'[Len(commands) + 1] = c /\ commands'[Len(commands) + 2] = c
      BY <2>2, <2>7
    <3>2. Len(commands) \in Nat /\ Len(ran) \in Nat
      OBVIOUS
    <3>3. ASSUME NEW i \in 1..Len(commands')
          PROVE  /\ commands'[i].sequence \in 1..Len(ran')
                 /\ ran'[commands'[i].sequence] = commands'[i]
      <4>1. CASE i \in 1..Len(commands)
        BY <2>4, <3>1, <3>2, <4>1
      <4>2. CASE i \in {Len(commands) + 1, Len(commands) + 2}
        <5>1. commands'[i] = c
          BY <3>1, <4>2
        <5> QED BY <2>2, <2>4, <3>2, <5>1
      <4> QED BY <3>1, <3>2, <4>1, <4>2
    <3> QED BY <2>4, <3>1, <3>3
  <2> QED BY <2>3, <2>5, <2>6, <2>7
<1>2. CASE UNCHANGED <<ran, commands>>
  BY <1>2
<1>3. RunnerNext => Run \/ UNCHANGED <<ran, commands>>
  BY DEF RunnerNext, Working, Decide, Worker, CaptureWorker, FeedbackWorker, Exits,
         ApplyPending, Report
<1> QED BY <1>1, <1>2, <1>3 DEF runnerVars

LEMMA AcceptedLinesRan == LinesAreCommands => AcceptedCommandsRan
<1> SUFFICES ASSUME LinesAreCommands, CommandsValid(commands)
             PROVE  /\ IsPrefix(commands, ran)
                    /\ \A i \in 1..Len(commands) : AsExpected(commands[i])
                    /\ Required \subseteq {ran[i].fia : i \in 1..Len(ran)}
  BY DEF AcceptedCommandsRan
<1> USE DEF LinesAreCommands
<1>1. \A i \in 1..Len(commands) : commands[i].sequence = i
  BY DEF CommandsValid, Contiguous
<1>2. \A i \in 1..Len(commands) : i \in 1..Len(ran) /\ ran[i] = commands[i]
  BY <1>1
<1>3. Len(commands) \in Nat /\ Len(ran) \in Nat
  OBVIOUS
<1>4. Len(commands) <= Len(ran)
  <2>1. CASE Len(commands) = 0
    BY <1>3, <2>1
  <2>2. CASE Len(commands) # 0
    BY <1>2, <1>3, <2>2
  <2> QED BY <2>1, <2>2
<1>5. SubSeq(commands, 1, Len(commands)) = SubSeq(ran, 1, Len(commands))
  <2>1. /\ SubSeq(commands, 1, Len(commands)) = [i \in 1..Len(commands) |-> commands[i]]
        /\ SubSeq(ran, 1, Len(commands)) = [i \in 1..Len(commands) |-> ran[i]]
    BY <1>3, <1>4
  <2> QED BY <1>2, <2>1
<1>6. \A i \in 1..Len(commands) : AsExpected(commands[i])
  BY DEF CommandsValid
<1>7. Required \subseteq {ran[i].fia : i \in 1..Len(ran)}
  BY <1>2 DEF CommandsValid
<1> QED BY <1>4, <1>5, <1>6, <1>7 DEF IsPrefix

\* The commands that validate_runner_commands accepts are the first ones of the run, whatever was
\* lost or written twice.
THEOREM AcceptedCommandsWereRun == RunnerSpec => []AcceptedCommandsRan
<1>1. RunnerSpec => []LinesAreCommands
  BY LinesInit, LinesStep, PTL DEF RunnerSpec
<1> QED BY <1>1, AcceptedLinesRan, PTL

-----------------------------------------------------------------------------
(* The wave of workers. *)

LEMMA FaultAdds ==
  ASSUME faults \in [commands : Nat, workers : Nat], NEW n \in Nat,
         NEW where \in {"commands", "workers"}, Fault(where, n)
  PROVE  /\ faults' \in [commands : Nat, workers : Nat]
         /\ where = "workers" => faults'.workers = faults.workers + n
         /\ where # "workers" => faults'.workers = faults.workers
  BY DEF Fault

Distinct(s) == \A i, j \in 1..Len(s) : s[i] = s[j] => i = j

\* Identifiers are counted up: none of a file is beyond its length.
Numbered(s) == s \in Seq(Nat) /\ \A i \in 1..Len(s) : s[i] \in 1..Len(s)

\* As many identifiers as lines are as many different ones.
LEMMA DistinctCounts ==
  ASSUME NEW s, Numbered(s) PROVE Cardinality(ToSet(s)) = Len(s) <=> Distinct(s)
<1>1. /\ Len(s) \in Nat /\ DOMAIN s = 1..Len(s) /\ s = [i \in 1..Len(s) |-> s[i]]
  BY DEF Numbered
<1>2. s \in Surjection(1..Len(s), ToSet(s))
  BY <1>1 DEF Surjection, ToSet
<1>3. IsFiniteSet(1..Len(s)) /\ Cardinality(1..Len(s)) = Len(s)
  <2>1. 1 \in Int /\ Len(s) \in Int
    BY <1>1
  <2>2. /\ IsFiniteSet(1..Len(s))
        /\ Cardinality(1..Len(s)) = IF 1 > Len(s) THEN 0 ELSE Len(s) - 1 + 1
    BY <2>1, FS_Interval
  <2> QED BY <1>1, <2>2
<1>4. Cardinality(ToSet(s)) = Cardinality(1..Len(s)) <=> s \in Injection(1..Len(s), ToSet(s))
  BY <1>2, <1>3, FS_Surjection
<1>5. s \in [1..Len(s) -> ToSet(s)]
  BY <1>2 DEF Surjection
<1>6. s \in Injection(1..Len(s), ToSet(s)) <=> Distinct(s)
  BY <1>1, <1>5 DEF Injection, IsInjective, Distinct
<1> QED BY <1>3, <1>4, <1>6

\* What a worker does to a file is seen in its length or in an identifier that occurs twice.
LEMMA AppendedTells ==
  ASSUME NEW s, Numbered(s), NEW a \in Appended(s)
  PROVE  /\ Numbered(a[1]) /\ a[2] \in {0, 1}
         /\ Distinct(a[1]) => Distinct(s) /\ Len(a[1]) = Len(s) + 1 - a[2]
         /\ ~Distinct(a[1]) => ~Distinct(s) \/ a[2] = 1
<1> DEFINE n == Len(s)
<1>1. n \in Nat /\ s \in Seq(Nat)
  BY DEF Numbered
<1>2. CASE a = <<Append(s, n + 1), 0>>
  <2>1. /\ a[1] \in Seq(Nat) /\ Len(a[1]) = n + 1 /\ a[1][n + 1] = n + 1
        /\ \A i \in 1..n : a[1][i] = s[i]
    BY <1>1, <1>2
  <2>2. Numbered(a[1])
    <3>1. \A i \in 1..n + 1 : i \in 1..n \/ i = n + 1
      BY <1>1
    <3> QED BY <1>1, <2>1, <3>1 DEF Numbered
  <2>3. Distinct(a[1]) => Distinct(s)
    <3>1. \A i \in 1..n : i \in 1..n + 1
      BY <1>1
    <3> QED BY <2>1, <3>1 DEF Distinct
  <2>4. Distinct(s) => Distinct(a[1])
    BY <1>1, <2>1 DEF Distinct, Numbered
  <2> QED BY <1>1, <1>2, <2>1, <2>2, <2>3, <2>4
<1>3. CASE a = <<s, 1>>
  BY <1>1, <1>3
<1>4. CASE a = <<s \o <<n + 1, n + 1>>, 1>>
  <2>1. /\ a[1] \in Seq(Nat) /\ Len(a[1]) = n + 2
        /\ a[1][n + 1] = n + 1 /\ a[1][n + 2] = n + 1
        /\ \A i \in 1..n : a[1][i] = s[i]
    BY <1>1, <1>4
  <2>2. Numbered(a[1])
    <3>1. \A i \in 1..n + 2 : i \in 1..n \/ i = n + 1 \/ i = n + 2
      BY <1>1
    <3>2. n + 1 \in 1..n + 2 /\ \A x \in 1..n : x \in 1..n + 2
      BY <1>1
    <3> QED BY <2>1, <3>1, <3>2 DEF Numbered
  <2>3. ~Distinct(a[1])
    BY <1>1, <2>1 DEF Distinct
  <2> QED BY <1>4, <2>2, <2>3
<1>5. CASE s # <<>> /\ a = <<Append(s, s[1]), 1>>
  <2>1. n > 0 /\ s[1] \in 1..n
    BY <1>1, <1>5 DEF Numbered
  <2>2. /\ a[1] \in Seq(Nat) /\ Len(a[1]) = n + 1 /\ a[1][n + 1] = s[1]
        /\ \A i \in 1..n : a[1][i] = s[i]
    BY <1>1, <1>5, <2>1
  <2>3. Numbered(a[1])
    BY <1>1, <2>1, <2>2 DEF Numbered
  <2>4. ~Distinct(a[1])
    BY <1>1, <2>1, <2>2 DEF Distinct
  <2> QED BY <1>5, <2>3, <2>4
<1> QED BY <1>2, <1>3, <1>4, <1>5 DEF Appended

\* Packets that are neither lost nor without a note.
KeptPackets == IF ended = "running" THEN packets.pending ELSE packets.notes
LedgerWorkers == workers["gate"] + workers["record"] + workers["feedback"]

WorkersTyped ==
  /\ workers \in [WorkerKinds -> Nat]
  /\ packets \in [pending : Nat, applied : Nat, notes : Nat]
  /\ faults \in [commands : Nat, workers : Nat]
  /\ Numbered(ledger) /\ Numbered(captures)
  /\ packets.notes <= packets.applied
  /\ packets.applied + packets.pending <= workers["feedback"]
  /\ ended = "running" => packets.applied = 0

\* What is missing in the two files and among the packets.
Balance(w, l, m, c, f, k, e) ==
  l <= w /\ c <= m /\ k <= f /\ e = (w - l) + (m - c) + (f - k)

Balanced == Balance(LedgerWorkers, Len(ledger), workers["capture"], Len(captures),
                    workers["feedback"], KeptPackets, faults.workers)
AllDistinct == Distinct(ledger) /\ Distinct(captures)

\* While all identifiers are different, the faults are what is missing.
WorkersAddUp ==
  /\ WorkersTyped
  /\ ended # "died" /\ AllDistinct => Balanced
  /\ ~AllDistinct => faults.workers > 0
  /\ ended \in {"applied", "reported"} => Ran(WorkerKinds)
  /\ ended = "reported" => Fia6Asserted

LEMMA BalanceKept ==
  ASSUME NEW w \in Nat, NEW l \in Nat, NEW m \in Nat, NEW c \in Nat, NEW f \in Nat, NEW k \in Nat,
         NEW e \in Nat, Balance(w, l, m, c, f, k, e), NEW x \in {0, 1}
  PROVE  /\ Balance(w + 1, l + 1 - x, m, c, f, k, e + x)
         /\ Balance(w, l, m + 1, c + 1 - x, f, k, e + x)
         /\ \A y \in {0, 1} : Balance(w + 1, l + 1 - x, m, c, f + 1, k + 1 - y, e + x + y)
         /\ \A y \in {0, 1} : x + y <= k => Balance(w, l, m, c, f, k - x - y, e + x + y)
  BY DEF Balance

LEMMA OneMore ==
  \A a, b, c \in Nat : /\ (a + 1) + b + c = a + b + c + 1
                       /\ a + (b + 1) + c = a + b + c + 1
                       /\ a + b + (c + 1) = a + b + c + 1
  OBVIOUS

LEMMA WorkersTypes ==
  ASSUME WorkersTyped
  PROVE  /\ workers["gate"] \in Nat /\ workers["record"] \in Nat
         /\ workers["capture"] \in Nat /\ workers["feedback"] \in Nat
         /\ LedgerWorkers \in Nat /\ KeptPackets \in Nat /\ faults.workers \in Nat
         /\ Len(ledger) \in Nat /\ Len(captures) \in Nat
         /\ packets.pending \in Nat /\ packets.applied \in Nat /\ packets.notes \in Nat
<1>1. /\ workers["gate"] \in Nat /\ workers["record"] \in Nat
      /\ workers["capture"] \in Nat /\ workers["feedback"] \in Nat
  BY DEF WorkersTyped, WorkerKinds
<1>2. LedgerWorkers \in Nat
  BY <1>1 DEF LedgerWorkers
<1>3. packets.pending \in Nat /\ packets.applied \in Nat /\ packets.notes \in Nat
  BY DEF WorkersTyped
<1> QED BY <1>1, <1>2, <1>3 DEF WorkersTyped, KeptPackets, Numbered

LEMMA WorkersInit == RunnerInit => WorkersAddUp
<1> SUFFICES ASSUME RunnerInit PROVE WorkersAddUp
  OBVIOUS
<1>1. Numbered(<<>>) /\ Distinct(<<>>)
  BY DEF Numbered, Distinct
<1>2. /\ workers = [k \in WorkerKinds |-> 0] /\ ledger = <<>> /\ captures = <<>>
      /\ packets = [pending |-> 0, applied |-> 0, notes |-> 0]
      /\ faults = [commands |-> 0, workers |-> 0] /\ ended = "running"
  BY DEF RunnerInit
<1>3. WorkersTyped /\ AllDistinct
  BY <1>1, <1>2 DEF WorkersTyped, AllDistinct, WorkerKinds
<1>4. Balanced
  BY <1>2 DEF Balanced, Balance, LedgerWorkers, KeptPackets, WorkerKinds
<1> QED BY <1>2, <1>3, <1>4 DEF WorkersAddUp

LEMMA DecideStep == ASSUME WorkersAddUp, NEW k \in WorkerKinds, Decide(k) PROVE WorkersAddUp'
<1>1. PICK a \in Appended(ledger) : ledger' = a[1] /\ Fault("workers", a[2])
  BY DEF Decide
<1>2. /\ k \in {"gate", "record"} /\ ended = "running" /\ ended' = ended
      /\ workers' = [workers EXCEPT ![k] = @ + 1]
      /\ captures' = captures /\ packets' = packets
  BY DEF Decide, Worker, FirstWave
<1> DEFINE x == a[2]
<1>3. /\ Numbered(ledger') /\ x \in {0, 1}
      /\ Distinct(ledger') => Distinct(ledger) /\ Len(ledger') = Len(ledger) + 1 - x
      /\ ~Distinct(ledger') => ~Distinct(ledger) \/ x = 1
  BY <1>1, AppendedTells DEF WorkersAddUp, WorkersTyped
<1>4. /\ faults' \in [commands : Nat, workers : Nat]
      /\ faults'.workers = faults.workers + x
  BY <1>1, <1>3, FaultAdds DEF WorkersAddUp, WorkersTyped
<1> HIDE DEF x
<1>5. WorkersTyped
  BY DEF WorkersAddUp
<1>6. /\ workers' \in [WorkerKinds -> Nat]
      /\ workers'["feedback"] = workers["feedback"] /\ workers'["capture"] = workers["capture"]
  BY <1>2, <1>5 DEF WorkersTyped, WorkerKinds
<1>7. LedgerWorkers' = LedgerWorkers + 1
  <2>1. \/ /\ workers'["gate"] = workers["gate"] + 1 /\ workers'["record"] = workers["record"]
        \/ /\ workers'["gate"] = workers["gate"] /\ workers'["record"] = workers["record"] + 1
    BY <1>2, <1>5 DEF WorkersTyped, WorkerKinds
  <2>2. /\ workers["gate"] \in Nat /\ workers["record"] \in Nat /\ workers["feedback"] \in Nat
    BY <1>5, WorkersTypes
  <2>3. CASE workers'["gate"] = workers["gate"] + 1 /\ workers'["record"] = workers["record"]
    BY <1>6, <2>2, <2>3, OneMore DEF LedgerWorkers
  <2>4. CASE workers'["gate"] = workers["gate"] /\ workers'["record"] = workers["record"] + 1
    BY <1>6, <2>2, <2>4, OneMore DEF LedgerWorkers
  <2> QED BY <2>1, <2>3, <2>4
<1>8. WorkersTyped' /\ KeptPackets' = KeptPackets
  BY <1>2, <1>3, <1>4, <1>5, <1>6 DEF WorkersTyped, KeptPackets
<1>9. ASSUME AllDistinct' PROVE Balanced'
  <2>1. AllDistinct /\ Balanced /\ Len(ledger') = Len(ledger) + 1 - x
    BY <1>2, <1>3, <1>9 DEF AllDistinct, WorkersAddUp
  <2>2. Balance(LedgerWorkers + 1, Len(ledger) + 1 - x, workers["capture"], Len(captures),
                workers["feedback"], KeptPackets, faults.workers + x)
    BY <1>3, <1>5, <2>1, WorkersTypes, BalanceKept DEF Balanced
  <2> QED BY <1>2, <1>4, <1>6, <1>7, <1>8, <2>1, <2>2 DEF Balanced
<1>10. ASSUME ~AllDistinct' PROVE faults'.workers > 0
  BY <1>2, <1>3, <1>4, <1>5, <1>10, WorkersTypes DEF AllDistinct, WorkersAddUp
<1> QED BY <1>2, <1>8, <1>9, <1>10 DEF WorkersAddUp

LEMMA CaptureStep == ASSUME WorkersAddUp, CaptureWorker PROVE WorkersAddUp'
<1>1. PICK a \in Appended(captures) : captures' = a[1] /\ Fault("workers", a[2])
  BY DEF CaptureWorker
<1>2. /\ workers' = [workers EXCEPT !["capture"] = @ + 1]
      /\ ledger' = ledger /\ packets' = packets /\ ended = "running" /\ ended' = ended
  BY DEF CaptureWorker, Worker
<1> DEFINE x == a[2]
<1>3. /\ Numbered(captures') /\ x \in {0, 1}
      /\ Distinct(captures') => Distinct(captures) /\ Len(captures') = Len(captures) + 1 - x
      /\ ~Distinct(captures') => ~Distinct(captures) \/ x = 1
  BY <1>1, AppendedTells DEF WorkersAddUp, WorkersTyped
<1>4. /\ faults' \in [commands : Nat, workers : Nat]
      /\ faults'.workers = faults.workers + x
  BY <1>1, <1>3, FaultAdds DEF WorkersAddUp, WorkersTyped
<1> HIDE DEF x
<1>5. WorkersTyped
  BY DEF WorkersAddUp
<1>6. /\ workers' \in [WorkerKinds -> Nat]
      /\ workers'["feedback"] = workers["feedback"]
      /\ workers'["capture"] = workers["capture"] + 1
      /\ workers'["gate"] = workers["gate"] /\ workers'["record"] = workers["record"]
  BY <1>2, <1>5 DEF WorkersTyped, WorkerKinds
<1>7. LedgerWorkers' = LedgerWorkers
  BY <1>6 DEF LedgerWorkers
<1>8. WorkersTyped' /\ KeptPackets' = KeptPackets
  BY <1>2, <1>3, <1>4, <1>5, <1>6 DEF WorkersTyped, KeptPackets
<1>9. ASSUME AllDistinct' PROVE Balanced'
  <2>1. AllDistinct /\ Balanced /\ Len(captures') = Len(captures) + 1 - x
    BY <1>2, <1>3, <1>9 DEF AllDistinct, WorkersAddUp
  <2>2. Balance(LedgerWorkers, Len(ledger), workers["capture"] + 1, Len(captures) + 1 - x,
                workers["feedback"], KeptPackets, faults.workers + x)
    BY <1>3, <1>5, <2>1, WorkersTypes, BalanceKept DEF Balanced
  <2> QED BY <1>2, <1>4, <1>6, <1>7, <1>8, <2>1, <2>2 DEF Balanced
<1>10. ASSUME ~AllDistinct' PROVE faults'.workers > 0
  BY <1>2, <1>3, <1>4, <1>5, <1>10, WorkersTypes DEF AllDistinct, WorkersAddUp
<1> QED BY <1>2, <1>8, <1>9, <1>10 DEF WorkersAddUp

LEMMA FeedbackStep == ASSUME WorkersAddUp, FeedbackWorker PROVE WorkersAddUp'
<1>1. PICK a \in Appended(ledger), lost \in {0, 1} :
          /\ ledger' = a[1]
          /\ packets' = [packets EXCEPT !.pending = @ + 1 - lost]
          /\ Fault("workers", a[2] + lost)
  BY DEF FeedbackWorker
<1>2. /\ workers' = [workers EXCEPT !["feedback"] = @ + 1]
      /\ captures' = captures /\ packets.applied = 0 /\ ended = "running" /\ ended' = ended
  BY DEF FeedbackWorker, Worker, WorkersAddUp, WorkersTyped
<1> DEFINE x == a[2]
<1>3. /\ Numbered(ledger') /\ x \in {0, 1}
      /\ Distinct(ledger') => Distinct(ledger) /\ Len(ledger') = Len(ledger) + 1 - x
      /\ ~Distinct(ledger') => ~Distinct(ledger) \/ x = 1
  BY <1>1, AppendedTells DEF WorkersAddUp, WorkersTyped
<1>4. WorkersTyped
  BY DEF WorkersAddUp
<1>5. /\ faults' \in [commands : Nat, workers : Nat]
      /\ faults'.workers = faults.workers + x + lost
  <2>1. x + lost \in Nat /\ Fault("workers", x + lost)
    BY <1>1, <1>3
  <2>2. /\ faults' \in [commands : Nat, workers : Nat]
        /\ faults'.workers = faults.workers + (x + lost)
    BY <1>4, <2>1, FaultAdds DEF WorkersTyped
  <2> HIDE DEF x
  <2> QED BY <1>3, <1>4, <2>2, WorkersTypes
<1> HIDE DEF x
<1>6. /\ workers' \in [WorkerKinds -> Nat]
      /\ workers'["feedback"] = workers["feedback"] + 1
      /\ workers'["capture"] = workers["capture"]
      /\ workers'["gate"] = workers["gate"] /\ workers'["record"] = workers["record"]
  BY <1>2, <1>4 DEF WorkersTyped, WorkerKinds
<1>7. LedgerWorkers' = LedgerWorkers + 1
  <2>1. /\ workers["gate"] \in Nat /\ workers["record"] \in Nat /\ workers["feedback"] \in Nat
    BY <1>4, WorkersTypes
  <2> QED BY <1>6, <2>1, OneMore DEF LedgerWorkers
<1>8. /\ packets' \in [pending : Nat, applied : Nat, notes : Nat]
      /\ packets'.applied = 0 /\ packets'.notes = packets.notes
      /\ packets'.pending = packets.pending + 1 - lost
  <2>1. packets.pending + 1 - lost \in Nat
    BY <1>4, WorkersTypes
  <2> QED BY <1>1, <1>2, <1>4, <2>1 DEF WorkersTyped
<1>9. WorkersTyped'
  <2>1. packets'.notes <= packets'.applied
    BY <1>2, <1>4, <1>8 DEF WorkersTyped
  <2>2. packets'.applied + packets'.pending <= workers'["feedback"]
    <3>1. packets.applied + packets.pending <= workers["feedback"]
      BY <1>4 DEF WorkersTyped
    <3> QED BY <1>2, <1>4, <1>6, <1>8, <3>1, WorkersTypes
  <2> QED BY <1>2, <1>3, <1>4, <1>5, <1>6, <1>8, <2>1, <2>2 DEF WorkersTyped
<1>10. KeptPackets' = KeptPackets + 1 - lost
  BY <1>2, <1>8 DEF KeptPackets
<1>11. ASSUME AllDistinct' PROVE Balanced'
  <2>1. AllDistinct /\ Balanced /\ Len(ledger') = Len(ledger) + 1 - x
    BY <1>2, <1>3, <1>11 DEF AllDistinct, WorkersAddUp
  <2>2. Balance(LedgerWorkers + 1, Len(ledger) + 1 - x, workers["capture"], Len(captures),
                workers["feedback"] + 1, KeptPackets + 1 - lost, faults.workers + x + lost)
    BY <1>1, <1>3, <1>4, <2>1, WorkersTypes, BalanceKept DEF Balanced
  <2> QED BY <1>2, <1>5, <1>6, <1>7, <1>10, <2>1, <2>2 DEF Balanced
<1>12. ASSUME ~AllDistinct' PROVE faults'.workers > 0
  BY <1>2, <1>3, <1>4, <1>5, <1>12, WorkersTypes DEF AllDistinct, WorkersAddUp
<1> QED BY <1>2, <1>9, <1>11, <1>12 DEF WorkersAddUp

LEMMA ApplyPendingStep == ASSUME WorkersAddUp, ApplyPending PROVE WorkersAddUp'
<1>1. PICK left \in {0, 1}, unwritten \in {0, 1} :
          /\ left + unwritten <= packets.pending
          /\ packets' = [pending |-> left, applied |-> packets.pending - left,
                         notes |-> packets.pending - left - unwritten]
          /\ Fault("workers", left + unwritten)
  BY DEF ApplyPending
<1>2. /\ ended = "running" /\ ended' = "applied" /\ Ran(WorkerKinds)
      /\ UNCHANGED <<workers, ledger, captures>>
  BY DEF ApplyPending
<1>3. WorkersTyped
  BY DEF WorkersAddUp
<1>4. /\ faults' \in [commands : Nat, workers : Nat]
      /\ faults'.workers = faults.workers + left + unwritten
  <2>1. left + unwritten \in Nat /\ Fault("workers", left + unwritten)
    BY <1>1
  <2>2. /\ faults' \in [commands : Nat, workers : Nat]
        /\ faults'.workers = faults.workers + (left + unwritten)
    BY <1>3, <2>1, FaultAdds DEF WorkersTyped
  <2> QED BY <1>3, <2>2, WorkersTypes
<1>5. /\ packets'.applied = packets.pending - left
      /\ packets'.pending = left /\ packets'.notes = packets.pending - left - unwritten
      /\ packets' \in [pending : Nat, applied : Nat, notes : Nat]
  BY <1>1, <1>3, WorkersTypes
<1>6. WorkersTyped'
  <2>1. packets.pending <= workers["feedback"]
    BY <1>2, <1>3, WorkersTypes DEF WorkersTyped
  <2>2. /\ packets'.notes <= packets'.applied
        /\ packets'.applied + packets'.pending <= workers'["feedback"]
    BY <1>1, <1>2, <1>3, <1>5, <2>1, WorkersTypes
  <2> QED BY <1>2, <1>3, <1>4, <1>5, <2>2 DEF WorkersTyped
<1>7. /\ LedgerWorkers' = LedgerWorkers
      /\ KeptPackets = packets.pending /\ KeptPackets' = packets.pending - left - unwritten
  BY <1>2, <1>5 DEF LedgerWorkers, KeptPackets
<1>8. AllDistinct' <=> AllDistinct
  BY <1>2 DEF AllDistinct
<1>9. ASSUME AllDistinct' PROVE Balanced'
  <2>1. Balanced
    BY <1>2, <1>8, <1>9 DEF WorkersAddUp
  <2>2. Balance(LedgerWorkers, Len(ledger), workers["capture"], Len(captures),
                workers["feedback"], KeptPackets - left - unwritten,
                faults.workers + left + unwritten)
    BY <1>1, <1>3, <1>7, <2>1, WorkersTypes, BalanceKept DEF Balanced
  <2> QED BY <1>2, <1>4, <1>7, <2>1, <2>2 DEF Balanced
<1>10. ASSUME ~AllDistinct' PROVE faults'.workers > 0
  BY <1>3, <1>4, <1>8, <1>10, WorkersTypes DEF WorkersAddUp
<1> QED BY <1>2, <1>6, <1>9, <1>10 DEF WorkersAddUp, Ran

LEMMA ExitsStep == ASSUME WorkersAddUp, Exits PROVE WorkersAddUp'
  BY DEF Exits, WorkersAddUp, WorkersTyped, AllDistinct

LEMMA ReportStep == ASSUME WorkersAddUp, Report PROVE WorkersAddUp'
<1>1. /\ ended = "applied" /\ UNCHANGED <<workers, ledger, captures, packets, faults>>
      /\ ended' = IF Fia6Asserted THEN "reported" ELSE "died"
  BY DEF Report
<1>2. /\ WorkersTyped' /\ (AllDistinct' <=> AllDistinct)
      /\ LedgerWorkers' = LedgerWorkers /\ KeptPackets' = KeptPackets
  BY <1>1 DEF WorkersAddUp, WorkersTyped, AllDistinct, LedgerWorkers, KeptPackets
<1>3. Balanced => Balanced'
  BY <1>1, <1>2 DEF Balanced
<1>4. (Ran(WorkerKinds) => Ran(WorkerKinds)') /\ (Fia6Asserted' <=> Fia6Asserted)
  BY <1>1 DEF Ran, Fia6Asserted
<1> QED BY <1>1, <1>2, <1>3, <1>4 DEF WorkersAddUp

LEMMA WorkersStep == WorkersAddUp /\ [RunnerNext]_runnerVars => WorkersAddUp'
<1> SUFFICES ASSUME WorkersAddUp, [RunnerNext]_runnerVars PROVE WorkersAddUp'
  OBVIOUS
<1>1. CASE Working
  <2>1. ASSUME NEW k \in FirstWave, Decide(k) PROVE WorkersAddUp'
    BY <2>1, DecideStep DEF FirstWave, WorkerKinds
  <2> QED BY <1>1, <2>1, CaptureStep, FeedbackStep, ExitsStep, ApplyPendingStep, ReportStep
          DEF Working
<1>2. CASE UNCHANGED <<workers, ledger, captures, packets, ended>>
           /\ faults' \in [commands : Nat, workers : Nat] /\ faults'.workers = faults.workers
  <2>1. /\ WorkersTyped' /\ (AllDistinct' <=> AllDistinct)
        /\ LedgerWorkers' = LedgerWorkers /\ KeptPackets' = KeptPackets
    BY <1>2 DEF WorkersAddUp, WorkersTyped, AllDistinct, LedgerWorkers, KeptPackets
  <2>2. Balanced => Balanced'
    BY <1>2, <2>1 DEF Balanced
  <2>3. (Ran(WorkerKinds) => Ran(WorkerKinds)') /\ (Fia6Asserted' <=> Fia6Asserted)
    BY <1>2 DEF Ran, Fia6Asserted
  <2> QED BY <1>2, <2>1, <2>2, <2>3 DEF WorkersAddUp
<1>3. CASE Run
  <2>1. faults \in [commands : Nat, workers : Nat]
    BY DEF WorkersAddUp, WorkersTyped
  <2>2. UNCHANGED faults \/ Fault("commands", 1)
    BY <1>3 DEF Run
  <2>3. faults' \in [commands : Nat, workers : Nat] /\ faults'.workers = faults.workers
    BY <2>1, <2>2, FaultAdds
  <2>4. UNCHANGED <<workers, ledger, captures, packets, ended>>
    BY <1>3 DEF Run
  <2> QED BY <1>2, <2>3, <2>4
<1>4. CASE UNCHANGED runnerVars
  <2>1. faults \in [commands : Nat, workers : Nat]
    BY DEF WorkersAddUp, WorkersTyped
  <2> QED BY <1>2, <1>4, <2>1 DEF runnerVars
<1> QED BY <1>1, <1>3, <1>4 DEF RunnerNext

LEMMA AssertionsTell ==
  ASSUME RunnerConstants, WorkersAddUp, ended \in {"applied", "reported"}
  PROVE  Fia6Asserted <=> faults.workers = 0
<1>1. /\ PerKind \in Nat /\ workers["gate"] = PerKind /\ workers["record"] = PerKind
      /\ workers["capture"] = PerKind /\ workers["feedback"] = PerKind
  BY DEF RunnerConstants, WorkersAddUp, Ran, WorkerKinds
<1>2. /\ faults.workers \in Nat /\ Len(ledger) \in Nat /\ Len(captures) \in Nat
      /\ packets.pending \in Nat /\ packets.applied \in Nat /\ packets.notes \in Nat
      /\ packets.notes <= packets.applied
      /\ packets.applied + packets.pending <= PerKind
  BY <1>1, WorkersTypes DEF WorkersAddUp, WorkersTyped
<1>3. /\ Cardinality(ToSet(ledger)) = Len(ledger) <=> Distinct(ledger)
      /\ Cardinality(ToSet(captures)) = Len(captures) <=> Distinct(captures)
  BY DistinctCounts DEF WorkersAddUp, WorkersTyped
<1>4. LedgerWorkers = 3 * PerKind
  BY <1>1 DEF LedgerWorkers
<1>5. /\ AllDistinct => Balance(3 * PerKind, Len(ledger), PerKind, Len(captures),
                                PerKind, packets.notes, faults.workers)
      /\ ~AllDistinct => faults.workers > 0
  BY <1>1, <1>4 DEF WorkersAddUp, KeptPackets, Balanced
<1>6. packets = [pending |-> 0, applied |-> PerKind, notes |-> PerKind]
        <=> packets.pending = 0 /\ packets.applied = PerKind /\ packets.notes = PerKind
  BY DEF WorkersAddUp, WorkersTyped
<1>7. Fia6Asserted <=> /\ AllDistinct
                       /\ Len(ledger) = 3 * PerKind /\ Len(captures) = PerKind
                       /\ packets.notes = PerKind
  <2>1. packets.notes = PerKind => packets.applied = PerKind /\ packets.pending = 0
    BY <1>1, <1>2
  <2> QED BY <1>3, <1>6, <2>1 DEF Fia6Asserted, AllDistinct
<1>8. Balance(3 * PerKind, Len(ledger), PerKind, Len(captures), PerKind, packets.notes,
              faults.workers)
        => (faults.workers = 0 <=>
              Len(ledger) = 3 * PerKind /\ Len(captures) = PerKind /\ packets.notes = PerKind)
  BY <1>1, <1>2 DEF Balance
<1> QED BY <1>2, <1>5, <1>7, <1>8

LEMMA ReportQualifies == ASSUME RunnerConstants PROVE Fia6Qualifies(Fia6Report)
<1>1. PerKind \in Nat /\ MinWorkers \in Nat /\ PerKind >= MinWorkers
  BY DEF RunnerConstants
<1>2. \A k \in WorkerKinds : Fia6Report.workers[k] = PerKind
  BY DEF Fia6Report
<1>3. /\ Fia6Report.processes = 4 * PerKind
      /\ Fia6Report.ledgerEvents = 3 * PerKind /\ Fia6Report.uniqueLedgerIds = 3 * PerKind
      /\ Fia6Report.captureEvents = PerKind /\ Fia6Report.uniqueCaptureIds = PerKind
      /\ Fia6Report.appliedPackets = PerKind /\ Fia6Report.canonicalNotes = PerKind
      /\ Fia6Report.pendingPackets = 0
  BY DEF Fia6Report
<1>4. /\ Fia6Report.workers["gate"] = PerKind /\ Fia6Report.workers["record"] = PerKind
      /\ Fia6Report.workers["capture"] = PerKind /\ Fia6Report.workers["feedback"] = PerKind
  BY <1>2 DEF WorkerKinds
<1> QED BY <1>1, <1>2, <1>3, <1>4 DEF Fia6Qualifies

\* What the script asserts of the files tells whether anything that the workers wrote was lost,
\* doubled, confused or left behind, however many workers there are: no two faults cancel out;
\* so a report that qualifies is written of no other wave (validate_fia_reports, FIA-6).
THEOREM AssertionsTellWhetherItWentWell ==
  ASSUME RunnerConstants PROVE RunnerSpec => []ReportMeansNothingWasLost
<1>1. RunnerSpec => []WorkersAddUp
  BY WorkersInit, WorkersStep, PTL DEF RunnerSpec
<1>2. WorkersAddUp => ReportMeansNothingWasLost
  <2> SUFFICES ASSUME WorkersAddUp PROVE ReportMeansNothingWasLost
    OBVIOUS
  <2>1. ended = "reported" => Fia6Asserted
    BY DEF WorkersAddUp
  <2> QED BY <2>1, AssertionsTell, ReportQualifies DEF ReportMeansNothingWasLost
<1> QED BY <1>1, <1>2, PTL

-----------------------------------------------------------------------------
(* Bundles. *)

LEMMA OrderHas ==
  /\ Len(Order) = 16
  /\ Order[3] = <<"host", "manifest">> /\ Order[4] = <<"host", "sums">>
  /\ Order[9] = <<"release", "manifest">> /\ Order[11] = <<"release", "sums">>
  /\ Order[13] = <<"runner", "manifest">> /\ Order[16] = <<"runner", "sums">>
  BY DEF Order

LEMMA SubtreePaths ==
  ASSUME NEW t \in Subtrees
  PROVE  <<t, "manifest">> \in Paths /\ <<t, "sums">> \in Paths
<1>1. \A i \in 1..16 : Order[i] \in Paths
  BY OrderHas DEF Paths
<1> QED BY <1>1, OrderHas DEF Subtrees

\* The checksums of a subtree bind all of its files to the attempt that wrote them.
LEMMA SubtreeIsOneAttempt ==
  ASSUME NEW inv, NEW t \in Subtrees, VerifyChecksumFile(inv, <<t, "sums">>, InSubtree(inv, t))
  PROVE  PartsOf(inv, t) = {inv[<<t, "manifest">>][2]}
<1> DEFINE sums == <<t, "sums">>
           attempt == inv[sums][2]
           listed == {q \in Paths : q[1] = t /\ q[2] # "sums"}
<1>1. inv[sums][1] = sums /\ sums # RootSums
  BY DEF VerifyChecksumFile, RootSums, Subtrees
<1>2. SumsOf(inv[sums]) = [p \in listed |-> IF p[2] = "reproducibility"
                                             THEN <<Reproducibility, attempt.build>>
                                             ELSE <<p, attempt>>]
  BY <1>1 DEF SumsOf
<1>3. /\ listed = InSubtree(inv, t) \ {sums}
      /\ \A p \in listed : p[2] # "reproducibility" => inv[p] = <<p, attempt>>
  BY <1>2 DEF VerifyChecksumFile
<1>4. \A p \in InSubtree(inv, t) : p[2] # "reproducibility" => inv[p][2] = attempt
  BY <1>3
<1>5. <<t, "manifest">> \in listed
  BY SubtreePaths
<1>6. inv[<<t, "manifest">>][2] = attempt /\ <<t, "manifest">> \in InSubtree(inv, t)
  BY <1>3, <1>5
<1> QED BY <1>4, <1>6 DEF PartsOf

LEMMA VerifiedIsOneCandidate ==
  ASSUME NEW inv, Verified(inv) PROVE OneCandidate(inv)
<1> DEFINE attempt(t) == inv[<<t, "manifest">>][2]
<1>1. \A t \in Subtrees : PartsOf(inv, t) = {attempt(t)}
  BY SubtreeIsOneAttempt DEF Verified
<1>2. \A t \in Subtrees : Cardinality(PartsOf(inv, t)) = 1
  BY <1>1, FS_Singleton
<1>3. \A t \in {"runner", "release"} :
         <<Reproducibility, attempt(t).build>> = inv[Reproducibility]
  BY DEF Verified, RunnerValid, ReleaseValid, AttemptValid
<1>4. \A t \in {"runner", "release"} : attempt(t).build = inv[Reproducibility][2]
  BY <1>3
<1>5. /\ attempt("host").candidate = inv[Root][2].candidate /\ attempt("host").passed
      /\ inv[Reproducibility][2].candidate = inv[Root][2].candidate
  BY DEF Verified, HostValid, ReproducibilityValid
<1> QED BY <1>1, <1>2, <1>4, <1>5 DEF OneCandidate, Subtrees

-----------------------------------------------------------------------------
\* Only what the verifier was given in full is accepted.
AcceptedWereVerified == \A inv \in accepted : Verified(inv)

\* Whatever is read while a bundle is written over another, an accepted inventory is the evidence
\* of one candidate, one build and one attempt in each directory (verify_qualification_bundle),
\* for any number of copiers, assemblies and writes.
THEOREM AcceptedEvidenceIsOfOneCandidate == Spec => []AcceptedIsOneCandidate
<1>1. Init => AcceptedWereVerified
  BY DEF Init, AcceptedWereVerified
<1>2. AcceptedWereVerified /\ [Next]_vars => AcceptedWereVerified'
  <2> SUFFICES ASSUME AcceptedWereVerified, [Next]_vars PROVE AcceptedWereVerified'
    OBVIOUS
  <2>1. ASSUME NEW c \in Copiers, Verify(c) PROVE AcceptedWereVerified'
    BY <2>1 DEF Verify, AcceptedWereVerified
  <2>2. ASSUME NEW c \in Copiers, Compare(c) PROVE AcceptedWereVerified'
    BY <2>2 DEF Compare, AcceptedWereVerified
  <2>3. CASE UNCHANGED accepted
    BY <2>3 DEF AcceptedWereVerified
  <2> QED BY <2>1, <2>2, <2>3 DEF vars, Next, Writer, Copier, StartWriting, Swap, WriteDirectory,
          StopWriting, LeaveLitter, Clear, Begin, ReadFile, Create, CopyFile, CopyFails, ReadBack,
          RemoveCopy, Crash
<1>3. AcceptedWereVerified => AcceptedIsOneCandidate
  BY VerifiedIsOneCandidate DEF AcceptedWereVerified, AcceptedIsOneCandidate
<1> QED BY <1>1, <1>2, <1>3, PTL DEF Spec

-----------------------------------------------------------------------------
\* Two verified inventories of one identity are the same.

LEMMA ListedByRoot ==
  ASSUME NEW inv, Verified(inv)
  PROVE  \A p \in Paths : inv[p] = IF p = RootSums THEN inv[RootSums]
                                   ELSE IF p \in DOMAIN SumsOf(inv[RootSums])
                                        THEN SumsOf(inv[RootSums])[p] ELSE Absent
<1> DEFINE sums == SumsOf(inv[RootSums])
<1>1. DOMAIN sums = Listed(inv) \ {RootSums} /\ \A p \in DOMAIN sums : inv[p] = sums[p]
  BY DEF Verified, VerifyChecksumFile
<1> HIDE DEF sums
<1> QED BY <1>1 DEF Listed, sums

LEMMA SameIdentitySameFiles ==
  ASSUME NEW inv \in [Paths -> Documents], NEW other \in [Paths -> Documents],
         Verified(inv), Verified(other), Identity(inv) = Identity(other)
  PROVE  inv = other
<1>1. inv[RootSums] = other[RootSums]
  BY DEF Identity
<1>2. \A p \in Paths : inv[p] = other[p]
  BY <1>1, ListedByRoot
<1> QED BY <1>2

-----------------------------------------------------------------------------
Inventory == [Paths -> Documents]
\* Where a copier that made the destination is at work on it, or done.
AtWork == {"write", "reread", "compare", "remove", "ok"}
Phases == {"read", "verify", "create"} \cup AtWork
CopyRecords == [pc : Phases, i : 1..16, inv : Inventory, again : Inventory]

TypeOK ==
    /\ source \in Inventory
    /\ writing \in {None} \cup [of : Assemblies, left : SUBSET Directories]
    /\ swaps \in Nat
    /\ copies \in {None} \cup Inventory
    /\ copy \in [Copiers -> {Idle} \cup CopyRecords]

\* Until others touch the destination, a copier that is at work on it has made it.
Made(c) == swaps = 0 /\ copy[c].pc \in AtWork => owner = c

\* What is there is what its owner has read back so far.
Owns(c) ==
    owner = c =>
        /\ copies \in Inventory /\ copy[c].pc \in AtWork
        /\ copy[c].pc = "reread" =>
              \A j \in 1..(copy[c].i - 1) : copy[c].again[Order[j]] = copies[Order[j]]
        /\ copy[c].pc \in {"compare", "ok"} => copy[c].again = copies

CopiesWhatItVerified(c) ==
    /\ copy[c].pc \in {"create", "write", "reread", "compare", "ok"} => Verified(copy[c].inv)
    /\ copy[c].pc = "ok" => copy[c].again = copy[c].inv

IInv == TypeOK /\ \A c \in Copiers : Made(c) /\ Owns(c) /\ CopiesWhatItVerified(c)

LEMMA NoneIsNoInventory == ASSUME BundleConstants PROVE None \notin Inventory /\ None \notin Copiers
  BY DEF BundleConstants, Inventory

LEMMA DocumentsTyped ==
  /\ \A a \in Assemblies, p \in Paths : Document(a, p) \in Documents
  /\ \A a \in Assemblies : Bundle(a) \in Inventory
  /\ Absent \in Documents /\ Litter \in Documents
  /\ Empty \in Inventory
<1> DEFINE D == {Document(a, p) : a \in Assemblies, p \in Paths}
<1>1. \A a \in Assemblies, p \in Paths : Document(a, p) \in D
  OBVIOUS
<1>2. Documents = {Absent, Litter} \cup D
  BY DEF Documents
<1> HIDE DEF D
<1> QED BY <1>1, <1>2 DEF Bundle, Inventory, Empty

LEMMA CopyTyped ==
  ASSUME TypeOK, NEW c \in Copiers, copy[c].pc # "idle"
  PROVE  copy[c] \in CopyRecords
  BY DEF TypeOK, Idle

LEMMA InitIInv == ASSUME BundleConstants, Init PROVE IInv
<1>1. TypeOK
  BY DocumentsTyped DEF Init, TypeOK
<1>2. \A c \in Copiers : copy[c].pc = "idle" /\ owner # c
  BY NoneIsNoInventory DEF Init, Idle
<1> QED BY <1>1, <1>2 DEF IInv, Made, Owns, CopiesWhatItVerified, AtWork

\* A step of one copier leaves the others alone: what it does to the destination makes it the
\* owner, or nobody, and it does so only at work or where there is nothing.
LEMMA StepOfOne ==
  ASSUME BundleConstants, IInv, NEW c \in Copiers, UNCHANGED <<source, writing, swaps>>,
         copies' \in {None} \cup Inventory,
         NEW doing \in {Idle} \cup CopyRecords, copy' = [copy EXCEPT ![c] = doing],
         \/ UNCHANGED <<copies, owner>>
         \/ owner' \in {c, None} /\ (copy[c].pc \in AtWork \/ copies = None),
         copy'[c] = doing => Made(c)' /\ Owns(c)' /\ CopiesWhatItVerified(c)'
  PROVE  IInv'
<1>1. /\ copy' \in [Copiers -> {Idle} \cup CopyRecords] /\ copy'[c] = doing
      /\ \A d \in Copiers \ {c} : copy'[d] = copy[d]
  BY DEF IInv, TypeOK
<1>2. TypeOK'
  BY <1>1 DEF IInv, TypeOK
<1>3. ASSUME NEW d \in Copiers, d # c PROVE Made(d)' /\ Owns(d)' /\ CopiesWhatItVerified(d)'
  <2>1. copy'[d] = copy[d] /\ Made(d) /\ Owns(d) /\ CopiesWhatItVerified(d) /\ Made(c)
    BY <1>1, <1>3 DEF IInv
  <2>2. CASE UNCHANGED <<copies, owner>>
    BY <2>1, <2>2 DEF Made, Owns, CopiesWhatItVerified
  <2>3. CASE owner' \in {c, None} /\ (copy[c].pc \in AtWork \/ copies = None)
    <3>1. owner' # d
      BY <1>3, <2>3, NoneIsNoInventory
    <3>2. swaps = 0 => copy[d].pc \notin AtWork
      BY <1>3, <2>1, <2>3, NoneIsNoInventory DEF Made, Owns
    <3> QED BY <2>1, <3>1, <3>2 DEF Made, Owns, CopiesWhatItVerified
  <2> QED BY <2>2, <2>3
<1> QED BY <1>1, <1>2, <1>3 DEF IInv

LEMMA PhaseChanges ==
  ASSUME NEW r \in CopyRecords, NEW pc \in Phases
  PROVE  /\ [r EXCEPT !.pc = pc] \in CopyRecords
         /\ [r EXCEPT !.pc = pc].pc = pc /\ [r EXCEPT !.pc = pc].i = r.i
         /\ [r EXCEPT !.pc = pc].inv = r.inv /\ [r EXCEPT !.pc = pc].again = r.again
  BY DEF CopyRecords

\* Advance goes on to the next file, or to what comes after the last one.
LEMMA Advances ==
  ASSUME NEW c \in Copiers, copy[c] \in CopyRecords, NEW now \in Phases, NEW then \in Phases
  PROVE  /\ Advance(c, now, then) \in CopyRecords
         /\ Advance(c, now, then).inv = copy[c].inv
         /\ Advance(c, now, then).again = copy[c].again
         /\ \/ /\ copy[c].i = 16 /\ Advance(c, now, then).i = 1
               /\ Advance(c, now, then).pc = then
            \/ /\ copy[c].i < 16 /\ Advance(c, now, then).i = copy[c].i + 1
               /\ Advance(c, now, then).pc = now
<1>1. copy[c].i \in 1..16
  BY DEF CopyRecords
<1>2. CASE copy[c].i = 16
  <2>1. Advance(c, now, then) = [copy[c] EXCEPT !.i = 1, !.pc = then] /\ 1 \in 1..16
    BY <1>2, OrderHas DEF Advance
  <2> QED BY <1>2, <2>1 DEF CopyRecords
<1>3. CASE copy[c].i # 16
  <2>1. copy[c].i + 1 \in 1..16 /\ copy[c].i < 16
    BY <1>1, <1>3
  <2>2. Advance(c, now, then) = [copy[c] EXCEPT !.i = @ + 1, !.pc = now]
    BY <1>3, OrderHas DEF Advance
  <2> QED BY <2>1, <2>2 DEF CopyRecords
<1> QED BY <1>2, <1>3

LEMMA BeginStep == ASSUME BundleConstants, IInv, NEW c \in Copiers, Begin(c) PROVE IInv'
<1>1. Copying(1, Empty) \in CopyRecords /\ Copying(1, Empty).pc = "read"
  BY DocumentsTyped DEF Copying, CopyRecords, Phases
<1>2. /\ copy' = [copy EXCEPT ![c] = Copying(1, Empty)]
      /\ UNCHANGED <<source, writing, swaps, copies, owner>> /\ owner # c
  BY DEF Begin, IInv, Owns, AtWork
<1>3. copies' \in {None} \cup Inventory
  BY <1>2 DEF IInv, TypeOK
<1>4. copy'[c] = Copying(1, Empty) => Made(c)' /\ Owns(c)' /\ CopiesWhatItVerified(c)'
  BY <1>1, <1>2 DEF Made, Owns, CopiesWhatItVerified, AtWork
<1> QED BY <1>1, <1>2, <1>3, <1>4, StepOfOne

LEMMA ReadFileStep == ASSUME BundleConstants, IInv, NEW c \in Copiers, ReadFile(c) PROVE IInv'
<1> DEFINE p == Order[copy[c].i]
           next == Advance(c, "read", "verify")
           inv == [next.inv EXCEPT ![p] = source[p]]
           read == [next EXCEPT !.inv = inv]
<1>1. copy[c] \in CopyRecords /\ source \in Inventory
  BY CopyTyped DEF IInv, ReadFile, TypeOK
<1>2. next \in CopyRecords /\ next.pc \in {"read", "verify"} /\ next.inv \in Inventory
  <2>1. next \in CopyRecords /\ next.pc \in {"read", "verify"}
    BY <1>1, Advances DEF Phases
  <2> QED BY <2>1 DEF CopyRecords
<1> HIDE DEF next
<1>3. inv \in Inventory
  BY <1>1, <1>2 DEF Inventory
<1>4. /\ copy' = [copy EXCEPT ![c] = [next EXCEPT !.inv[p] = source[p]]]
      /\ UNCHANGED <<source, writing, swaps, copies, owner>> /\ owner # c
  BY DEF ReadFile, IInv, Owns, AtWork, next
<1>5. copy' = [copy EXCEPT ![c] = read]
  BY <1>2, <1>4
<1> HIDE DEF inv
<1>6. read \in CopyRecords /\ read.pc \in {"read", "verify"}
  BY <1>2, <1>3 DEF CopyRecords
<1> HIDE DEF read
<1>7. copies' \in {None} \cup Inventory
  BY <1>4 DEF IInv, TypeOK
<1>8. copy'[c] = read => Made(c)' /\ Owns(c)' /\ CopiesWhatItVerified(c)'
  BY <1>4, <1>6 DEF Made, Owns, CopiesWhatItVerified, AtWork
<1> QED BY <1>4, <1>5, <1>6, <1>7, <1>8, StepOfOne

\* A copier goes on, or fails, or stops, and leaves the destination alone.
LEMMA PhaseStep ==
  ASSUME BundleConstants, IInv, NEW c \in Copiers, copy[c].pc # "idle", NEW pc \in Phases,
         copy' = [copy EXCEPT ![c].pc = pc],
         UNCHANGED <<source, writing, swaps, copies, owner>>,
         \/ pc = "create" /\ copy[c].pc = "verify" /\ Verified(copy[c].inv)
         \/ pc = "remove" /\ copy[c].pc \in AtWork
         \/ pc = "ok" /\ copy[c].pc = "compare" /\ copy[c].again = copy[c].inv
  PROVE  IInv'
<1> DEFINE next == [copy[c] EXCEPT !.pc = pc]
<1>1. copy[c] \in CopyRecords /\ Made(c) /\ Owns(c) /\ CopiesWhatItVerified(c)
  BY CopyTyped DEF IInv
<1>2. next \in CopyRecords /\ next.pc = pc /\ next.inv = copy[c].inv /\ next.again = copy[c].again
  BY <1>1, PhaseChanges
<1>3. copy' = [copy EXCEPT ![c] = next] /\ copies' \in {None} \cup Inventory
  BY DEF IInv, TypeOK
<1> HIDE DEF next
<1>4. copy'[c] = next => Made(c)' /\ Owns(c)' /\ CopiesWhatItVerified(c)'
  BY <1>1, <1>2 DEF Made, Owns, CopiesWhatItVerified, AtWork
<1> QED BY <1>2, <1>3, <1>4, StepOfOne

LEMMA StopStep ==
  ASSUME BundleConstants, IInv, NEW c \in Copiers, copy' = [copy EXCEPT ![c] = Idle],
         UNCHANGED <<source, writing, swaps>>, copies' \in {None} \cup Inventory,
         \/ UNCHANGED <<copies, owner>> /\ owner # c
         \/ owner' = None /\ copy[c].pc \in AtWork
  PROVE  IInv'
<1>1. copy'[c] = Idle => Made(c)' /\ Owns(c)' /\ CopiesWhatItVerified(c)'
  BY NoneIsNoInventory DEF Made, Owns, CopiesWhatItVerified, AtWork, Idle
<1> QED BY <1>1, StepOfOne

LEMMA VerifyStep == ASSUME BundleConstants, IInv, NEW c \in Copiers, Verify(c) PROVE IInv'
<1>1. /\ UNCHANGED <<source, writing, swaps, copies, owner>> /\ copy[c].pc = "verify"
      /\ owner # c /\ copies \in {None} \cup Inventory
  BY DEF Verify, IInv, TypeOK, Owns, AtWork
<1>2. CASE Verified(copy[c].inv) /\ copy' = [copy EXCEPT ![c].pc = "create"]
  BY <1>1, <1>2, PhaseStep DEF Phases
<1>3. CASE copy' = [copy EXCEPT ![c] = Idle]
  BY <1>1, <1>3, StopStep
<1> QED BY <1>2, <1>3 DEF Verify

LEMMA CreateStep == ASSUME BundleConstants, IInv, NEW c \in Copiers, Create(c) PROVE IInv'
<1>1. /\ UNCHANGED <<source, writing, swaps>> /\ copy[c].pc = "create"
      /\ owner # c /\ copies \in {None} \cup Inventory
      /\ CopiesWhatItVerified(c) /\ copy[c] \in CopyRecords
  BY CopyTyped DEF Create, IInv, TypeOK, Owns, AtWork
<1>2. CASE /\ copies = None /\ copies' = Empty /\ owner' = c
           /\ copy' = [copy EXCEPT ![c].pc = "write"]
  <2> DEFINE next == [copy[c] EXCEPT !.pc = "write"]
  <2>1. next \in CopyRecords /\ next.pc = "write" /\ next.inv = copy[c].inv
    BY <1>1, PhaseChanges DEF Phases, AtWork
  <2>2. copy' = [copy EXCEPT ![c] = next] /\ copies' \in Inventory
    BY <1>2, DocumentsTyped DEF IInv, TypeOK
  <2> HIDE DEF next
  <2>3. copy'[c] = next => Made(c)' /\ Owns(c)' /\ CopiesWhatItVerified(c)'
    BY <1>1, <1>2, <2>1, <2>2 DEF Made, Owns, CopiesWhatItVerified, AtWork
  <2> QED BY <1>1, <1>2, <2>1, <2>2, <2>3, StepOfOne
<1>3. CASE copy' = [copy EXCEPT ![c] = Idle] /\ UNCHANGED <<copies, owner>>
  BY <1>1, <1>3, StopStep
<1> QED BY <1>2, <1>3 DEF Create

LEMMA CopyFileStep == ASSUME BundleConstants, IInv, NEW c \in Copiers, CopyFile(c) PROVE IInv'
<1> DEFINE p == Order[copy[c].i]
           absent == copy[c].inv[p] = Absent
           next == Advance(c, "write", "reread")
<1>1. /\ copy[c].pc = "write" /\ copy[c] \in CopyRecords /\ copies \in {None} \cup Inventory
      /\ Made(c) /\ Owns(c) /\ Verified(copy[c].inv)
      /\ UNCHANGED <<source, writing, swaps>>
  BY CopyTyped DEF CopyFile, IInv, TypeOK, CopiesWhatItVerified
<1>2. CASE copy' = [copy EXCEPT ![c].pc = "remove"] /\ UNCHANGED <<copies, owner>>
  BY <1>1, <1>2, PhaseStep DEF Phases, AtWork
<1>3. CASE /\ absent \/ copies # None
           /\ copy' = [copy EXCEPT ![c] = next]
           /\ copies' = IF absent THEN copies ELSE [copies EXCEPT ![p] = copy[c].inv[p]]
           /\ owner' = IF absent \/ owner = c THEN owner ELSE None
  <2>1. /\ next \in CopyRecords /\ next.inv = copy[c].inv
        /\ next.pc \in {"write", "reread"} /\ (next.pc = "reread" => next.i = 1)
    BY <1>1, Advances DEF Phases, AtWork
  <2>2. copies' \in {None} \cup Inventory
    BY <1>1, <1>3 DEF CopyRecords, Inventory
  <2>3. copies \in Inventory => copies' \in Inventory
    BY <1>1, <1>3 DEF CopyRecords, Inventory
  <2>4. UNCHANGED <<copies, owner>> \/ (owner' \in {c, None} /\ copy[c].pc \in AtWork)
    BY <1>1, <1>3 DEF AtWork
  <2>5. (owner' = c => owner = c) /\ (owner = c => owner' = c)
    BY <1>3, NoneIsNoInventory
  <2>6. ASSUME copy'[c] = next PROVE Made(c)' /\ Owns(c)' /\ CopiesWhatItVerified(c)'
    <3>1. Made(c)'
      BY <1>1, <2>5 DEF Made, AtWork
    <3>2. Owns(c)'
      BY <1>1, <2>1, <2>3, <2>5, <2>6 DEF Owns, AtWork
    <3>3. CopiesWhatItVerified(c)'
      BY <1>1, <2>1, <2>6 DEF CopiesWhatItVerified
    <3> QED BY <3>1, <3>2, <3>3
  <2> QED BY <1>1, <1>3, <2>1, <2>2, <2>4, <2>6, StepOfOne
<1> QED BY <1>2, <1>3 DEF CopyFile

LEMMA FailStep == ASSUME BundleConstants, IInv, NEW c \in Copiers, CopyFails(c) PROVE IInv'
  BY PhaseStep DEF CopyFails, Phases, AtWork

\* An owner that has read back every file has read back what is there.
LEMMA ReadBackInFull ==
  ASSUME NEW f \in Inventory, NEW g \in Inventory, \A j \in 1..16 : f[Order[j]] = g[Order[j]]
  PROVE  f = g
  BY OrderHas DEF Inventory, Paths

LEMMA ReadBackStep == ASSUME BundleConstants, IInv, NEW c \in Copiers, ReadBack(c) PROVE IInv'
<1> DEFINE p == Order[copy[c].i]
           next == Advance(c, "reread", "compare")
           again == [next.again EXCEPT ![p] = copies[p]]
           read == [next EXCEPT !.again = again]
<1>1. /\ copy[c].pc = "reread" /\ copy[c] \in CopyRecords /\ copies \in {None} \cup Inventory
      /\ Made(c) /\ Owns(c) /\ Verified(copy[c].inv)
      /\ UNCHANGED <<source, writing, swaps, copies, owner>>
  BY CopyTyped DEF ReadBack, IInv, TypeOK, CopiesWhatItVerified
<1>2. CASE copies = None
  <2>1. copy' = [copy EXCEPT ![c].pc = "remove"]
    BY <1>2 DEF ReadBack, IInv, TypeOK
  <2> QED BY <1>1, <2>1, PhaseStep DEF Phases, AtWork
<1>3. CASE copies # None
  <2>1. /\ next \in CopyRecords /\ next.inv = copy[c].inv /\ next.again = copy[c].again
        /\ \/ copy[c].i = 16 /\ next.pc = "compare"
           \/ copy[c].i < 16 /\ next.i = copy[c].i + 1 /\ next.pc = "reread"
    BY <1>1, Advances DEF Phases, AtWork
  <2>2. copies \in Inventory /\ copy[c].again \in Inventory /\ copy[c].i \in 1..16
    BY <1>1, <1>3 DEF CopyRecords
  <2>3. copy' = [copy EXCEPT ![c] = [next EXCEPT !.again[p] = copies[p]]]
    BY <1>3 DEF ReadBack
  <2> HIDE DEF next
  <2>4. copy' = [copy EXCEPT ![c] = read]
    BY <2>1, <2>3 DEF CopyRecords
  <2>5. /\ again \in Inventory
        /\ \A q \in Paths : again[q] = IF q = p THEN copies[p] ELSE copy[c].again[q]
    BY <2>1, <2>2 DEF Inventory
  <2>6. \A j \in 1..16 : Order[j] \in Paths
    BY OrderHas DEF Paths
  <2>7. ASSUME owner = c PROVE \A j \in 1..copy[c].i : again[Order[j]] = copies[Order[j]]
    <3>1. \A j \in 1..(copy[c].i - 1) : copy[c].again[Order[j]] = copies[Order[j]]
      BY <1>1, <2>7 DEF Owns
    <3> QED BY <2>2, <2>5, <2>6, <3>1
  <2> HIDE DEF again
  <2>8. /\ read \in CopyRecords /\ read.pc = next.pc /\ read.i = next.i
        /\ read.inv = copy[c].inv /\ read.again = again
    BY <2>1, <2>5 DEF CopyRecords
  <2> HIDE DEF read
  <2>9. ASSUME copy'[c] = read PROVE Made(c)' /\ Owns(c)' /\ CopiesWhatItVerified(c)'
    <3>1. Made(c)'
      BY <1>1 DEF Made, AtWork
    <3>2. CopiesWhatItVerified(c)'
      BY <1>1, <2>1, <2>8, <2>9 DEF CopiesWhatItVerified
    <3>3. ASSUME owner = c PROVE Owns(c)'
      <4>1. CASE copy[c].i = 16 /\ next.pc = "compare"
        <5>1. again = copies
          BY <2>2, <2>5, <2>7, <3>3, <4>1, ReadBackInFull
        <5> QED BY <1>1, <2>2, <2>8, <2>9, <4>1, <5>1 DEF Owns, AtWork
      <4>2. CASE copy[c].i < 16 /\ next.i = copy[c].i + 1 /\ next.pc = "reread"
        <5>1. (copy[c].i + 1) - 1 = copy[c].i
          BY <2>2
        <5>2. \A j \in 1..(next.i - 1) : again[Order[j]] = copies[Order[j]]
          BY <2>7, <3>3, <4>2, <5>1
        <5> QED BY <1>1, <2>2, <2>8, <2>9, <4>2, <5>2 DEF Owns, AtWork
      <4> QED BY <2>1, <4>1, <4>2
    <3>4. owner # c => Owns(c)'
      BY <1>1 DEF Owns
    <3> QED BY <3>1, <3>2, <3>3, <3>4
  <2> QED BY <1>1, <2>4, <2>8, <2>9, StepOfOne
<1> QED BY <1>2, <1>3

LEMMA CompareStep == ASSUME BundleConstants, IInv, NEW c \in Copiers, Compare(c) PROVE IInv'
<1>1. /\ UNCHANGED <<source, writing, swaps, copies, owner>> /\ copy[c].pc = "compare"
      /\ CopiesWhatItVerified(c) /\ copy[c] \in CopyRecords
  BY CopyTyped DEF Compare, IInv
<1>2. CASE /\ Verified(copy[c].again) /\ Identity(copy[c].again) = Identity(copy[c].inv)
           /\ copy' = [copy EXCEPT ![c].pc = "ok"]
  <2>1. copy[c].again = copy[c].inv
    BY <1>1, <1>2, SameIdentitySameFiles DEF CopiesWhatItVerified, CopyRecords, Inventory
  <2> QED BY <1>1, <1>2, <2>1, PhaseStep DEF Phases, AtWork
<1>3. CASE copy' = [copy EXCEPT ![c].pc = "remove"]
  BY <1>1, <1>3, PhaseStep DEF Phases, AtWork
<1> QED BY <1>2, <1>3 DEF Compare

LEMMA RemoveStep == ASSUME BundleConstants, IInv, NEW c \in Copiers, RemoveCopy(c) PROVE IInv'
<1>1. /\ UNCHANGED <<source, writing, swaps>> /\ copies' \in {None} \cup Inventory
      /\ copy[c].pc \in AtWork /\ copy' = [copy EXCEPT ![c] = Idle]
      /\ owner' = IF copies' # copies \/ owner = c THEN None ELSE owner
  BY DocumentsTyped DEF RemoveCopy, IInv, TypeOK, AtWork
<1>2. owner' = None \/ (UNCHANGED <<copies, owner>> /\ owner # c)
  BY <1>1
<1> QED BY <1>1, <1>2, StopStep

LEMMA CrashStep == ASSUME BundleConstants, IInv, NEW c \in Copiers, Crash(c) PROVE IInv'
<1>1. /\ UNCHANGED <<source, writing, swaps, copies>> /\ copies \in {None} \cup Inventory
      /\ copy' = [copy EXCEPT ![c] = Idle] /\ (owner = c => copy[c].pc \in AtWork)
      /\ owner' = IF owner = c THEN None ELSE owner
  BY DEF Crash, IInv, TypeOK, Owns
<1> QED BY <1>1, StopStep

\* Others touch the destination: what is there is nobody's from then on.
LEMMA OthersStep ==
  ASSUME BundleConstants, IInv, UNCHANGED <<source, writing, copy>>,
         copies' \in {None} \cup Inventory, owner' = None, swaps' = swaps + 1
  PROVE  IInv'
<1>1. TypeOK' /\ swaps' # 0
  BY DEF IInv, TypeOK
<1> QED BY <1>1, NoneIsNoInventory DEF IInv, Made, Owns, CopiesWhatItVerified

\* The writer of another bundle, and whoever touches the destination.
LEMMA WriterStep == ASSUME BundleConstants, IInv, Writer PROVE IInv'
<1>1. TypeOK
  BY DEF IInv
<1>2. ASSUME UNCHANGED <<copy, copies, owner, swaps>>, source' \in Inventory,
             writing' \in {None} \cup [of : Assemblies, left : SUBSET Directories]
      PROVE  IInv'
  BY <1>1, <1>2 DEF IInv, TypeOK, Made, Owns, CopiesWhatItVerified
<1>3. ASSUME NEW a \in Assemblies, StartWriting(a) PROVE IInv'
  <2>1. Changed(a) \subseteq Directories
    BY DEF Changed
  <2> QED BY <1>1, <1>2, <1>3, <2>1 DEF StartWriting, TypeOK
<1>4. ASSUME NEW t \in Directories, WriteDirectory(t) PROVE IInv'
  <2>1. writing \in [of : Assemblies, left : SUBSET Directories]
    BY <1>1, <1>4 DEF WriteDirectory, TypeOK
  <2>2. source' = [p \in Paths |-> IF p[1] = t THEN Document(writing.of, p) ELSE source[p]]
    BY <1>4 DEF WriteDirectory
  <2>3. \A p \in Paths : Document(writing.of, p) \in Documents /\ source[p] \in Documents
    BY <1>1, <2>1, DocumentsTyped DEF TypeOK, Inventory
  <2>4. source' \in Inventory
    BY <2>2, <2>3 DEF Inventory
  <2>5. [writing EXCEPT !.left = @ \ {t}] \in [of : Assemblies, left : SUBSET Directories]
    BY <2>1
  <2> QED BY <1>2, <1>4, <2>4, <2>5 DEF WriteDirectory
<1>5. CASE StopWriting
  BY <1>1, <1>2, <1>5 DEF StopWriting, TypeOK
<1>6. CASE LeaveLitter
  <2>1. source' \in Inventory
    BY <1>1, <1>6, DocumentsTyped DEF LeaveLitter, TypeOK, Inventory
  <2> QED BY <1>1, <1>2, <1>6, <2>1 DEF LeaveLitter, TypeOK
<1>7. ASSUME NEW a \in Assemblies, Swap(a) PROVE IInv'
  BY <1>7, DocumentsTyped, OthersStep DEF Swap
<1>8. CASE Clear
  BY <1>8, OthersStep DEF Clear
<1> QED BY <1>3, <1>4, <1>5, <1>6, <1>7, <1>8 DEF Writer

LEMMA NextIInv == ASSUME BundleConstants, IInv, [Next]_vars PROVE IInv'
<1>1. CASE UNCHANGED vars
  BY <1>1 DEF vars, IInv, TypeOK, Made, Owns, CopiesWhatItVerified
<1>2. ASSUME NEW c \in Copiers, Copier(c) PROVE IInv'
  BY <1>2, BeginStep, ReadFileStep, VerifyStep, CreateStep, CopyFileStep, FailStep, ReadBackStep,
     CompareStep, RemoveStep, CrashStep DEF Copier
<1> QED BY <1>1, <1>2, WriterStep DEF Next

LEMMA Invariance == ASSUME BundleConstants PROVE Spec => []IInv
<1>1. Init => IInv
  BY InitIInv
<1>2. IInv /\ [Next]_vars => IInv'
  BY NextIInv
<1> QED BY <1>1, <1>2, PTL DEF Spec

\* A copy that is reported as made was read back, file for file, as the inventory its copier
\* verified, whatever became of the source and of the destination while they were read, and it is
\* what is there until others touch the destination (copy_verified_bundle).
THEOREM CopiedAsVerified == ASSUME BundleConstants PROVE Spec => []CopyIsWhatWasVerified
<1>1. IInv => CopyIsWhatWasVerified
  BY DEF IInv, Owns, CopiesWhatItVerified, CopyIsWhatWasVerified
<1> QED BY <1>1, Invariance, PTL

\* As long as only copiers use the destination, it disappears only by the hand of the one that
\* created it: another one's removal by path never meets it (copy_verified_bundle).
THEOREM OnlyItsMakerRemovesACopy == ASSUME BundleConstants PROVE Spec => CopierRemovesItsOwn
<1>1. ASSUME IInv, [Next]_vars
      PROVE  swaps' = 0 /\ copies # None /\ copies' = None
                => \E c \in Copiers : owner = c /\ copy[c].pc = "remove"
  <2> SUFFICES ASSUME swaps' = 0, copies # None, copies' = None
               PROVE  \E c \in Copiers : owner = c /\ copy[c].pc = "remove"
    OBVIOUS
  <2>1. copies' # copies /\ copies' \notin Inventory /\ swaps \in Nat /\ copies \in Inventory
    BY <1>1, NoneIsNoInventory DEF IInv, TypeOK
  <2>2. (\A a \in Assemblies : ~Swap(a)) /\ ~Clear
    BY <2>1 DEF Swap, Clear
  <2>3. ASSUME NEW c \in Copiers, Create(c) PROVE FALSE
    BY <2>1, <2>3, DocumentsTyped DEF Create
  <2>4. ASSUME NEW c \in Copiers, CopyFile(c) PROVE FALSE
    <3>1. copy[c].inv \in Inventory
      BY <1>1, <2>4, CopyTyped DEF CopyFile, IInv, CopyRecords
    <3>2. copies' \in Inventory
      BY <2>1, <2>4, <3>1 DEF CopyFile, Inventory
    <3> QED BY <2>1, <3>2
  <2>5. ASSUME NEW c \in Copiers, RemoveCopy(c)
        PROVE  \E d \in Copiers : owner = d /\ copy[d].pc = "remove"
    <3>1. swaps = 0 /\ copy[c].pc = "remove" /\ Made(c)
      BY <1>1, <2>5 DEF RemoveCopy, IInv
    <3> QED BY <3>1 DEF Made, AtWork
  <2>6. CASE UNCHANGED copies
    BY <2>1, <2>6
  <2> QED BY <1>1, <2>2, <2>3, <2>4, <2>5, <2>6 DEF vars, Next, Writer, Copier, StartWriting,
          WriteDirectory, StopWriting, LeaveLitter, Begin, ReadFile, Verify, CopyFails, ReadBack,
          Compare, Crash
<1> QED BY <1>1, Invariance, PTL DEF Spec, CopierRemovesItsOwn
=============================================================================
