----------------------- MODULE LearningLifecycleProofs -----------------------
(* What becomes of a correction, for any number of processes, packets and kills. *)
EXTENDS LearningLifecycle, TLAPS

\* What was written as a note, wherever it is by now.
Noted == notes \cup archived
Commands == {"feedback", "apply", "rebuild", "prune"}
Phases == {"announce", "take back", "wait", "next", "rename", "rebuild", "replace", "manifest",
           "announce applied", "archive"}
Working == [command : Commands, pc : Phases, todo : SUBSET Ids, done : SUBSET Ids]

TypeOK ==
    /\ packet \in [Ids -> {NoPacket} \cup Packet]
    /\ notes \subseteq Ids /\ archived \subseteq Ids /\ acked \subseteq Ids
    /\ lock \in [Locks -> Procs \cup {NoProc}]
    /\ job \in [Procs -> {Idle} \cup Working]

\* Only what had a packet has a note, and only what has a note was ever compiled.
NotesHavePackets ==
    /\ \A p \in Noted : packet[p].place \in {"pending", "applied"}
    /\ db \subseteq Noted

\* A feedback holds the ledger over a packet nobody else has seen.
Announcing(x) ==
    job[x].pc \in {"announce", "take back"} =>
        /\ lock["ledger"] = x
        /\ job[x].todo \subseteq Pending
        /\ job[x].todo \cap Noted = {} /\ job[x].todo \cap acked = {}

\* An apply holds the ledger: what it has to do is pending, what it did has its note.
Applying(x) ==
    /\ job[x].pc = "wait" => job[x].done = {}
    /\ job[x].pc \in {"next", "rename"} =>
          /\ lock["ledger"] = x
          /\ job[x].done \subseteq Noted
          /\ job[x].todo \subseteq Pending

Rebuilding(x) == job[x].pc = "replace" => job[x].todo \subseteq Noted

Sound(x) == Announcing(x) /\ Applying(x) /\ Rebuilding(x)

IInv ==
    /\ TypeOK /\ NotesHavePackets /\ CorrectionsAreNeverLost
    /\ \A x \in Procs : Sound(x)

-----------------------------------------------------------------------------
LEMMA PacketFields ==
  ASSUME TypeOK, NEW p \in Ids
  PROVE  /\ packet[p] \in {NoPacket} \cup Packet
         /\ packet[p].place \in {"none", "pending", "applied", "removed"}
         /\ packet[p] = NoPacket => packet[p].place = "none"
  BY DEF TypeOK, Packet, NoPacket

LEMMA WorkingFields ==
  ASSUME TypeOK, NEW x \in Procs, job[x].pc # "idle"
  PROVE  /\ job[x] \in Working
         /\ job[x].todo \subseteq Ids /\ job[x].done \subseteq Ids
  BY DEF TypeOK, Working, Idle

LEMMA InitIInv == Init => IInv
<1> SUFFICES ASSUME Init PROVE IInv
  OBVIOUS
<1>1. TypeOK /\ NotesHavePackets /\ CorrectionsAreNeverLost
  BY DEF Init, TypeOK, NotesHavePackets, CorrectionsAreNeverLost, Noted
<1>2. \A x \in Procs : job[x].pc = "idle"
  BY DEF Init, Idle
<1> QED BY <1>1, <1>2 DEF IInv, Sound, Announcing, Applying, Rebuilding

\* Locks: what a step takes was free, and what it gives back was its own.
OthersKeep(x) == \A y \in Procs : y # x /\ lock["ledger"] = y => lock'["ledger"] = y

LEMMA TakesKeeps ==
  ASSUME TypeOK, NEW x \in Procs, NEW ls \in SUBSET Locks, \A l \in ls : Free(l), Takes(x, ls)
  PROVE  OthersKeep(x) /\ lock' \in [Locks -> Procs \cup {NoProc}]
                       /\ ("ledger" \in ls => lock'["ledger"] = x)
  BY LifecycleConstants DEF Takes, Free, OthersKeep, TypeOK, Locks

LEMMA ExitsKeeps ==
  ASSUME TypeOK, NEW x \in Procs, Exits(x)
  PROVE  /\ OthersKeep(x) /\ lock' \in [Locks -> Procs \cup {NoProc}]
         /\ job' \in [Procs -> {Idle} \cup Working] /\ job'[x].pc = "idle"
         /\ \A y \in Procs : y # x => job'[y] = job[y]
  BY LifecycleConstants DEF Exits, Becomes, OthersKeep, TypeOK, Locks, Idle

LEMMA BecomesKeeps ==
  ASSUME TypeOK, NEW x \in Procs, NEW j \in Working, Becomes(x, j)
  PROVE  /\ job' \in [Procs -> {Idle} \cup Working] /\ job'[x] = j
         /\ \A y \in Procs : y # x => job'[y] = job[y]
  BY DEF Becomes, TypeOK

LEMMA GoesToKeeps ==
  ASSUME TypeOK, NEW x \in Procs, job[x].pc # "idle", NEW pc \in Phases, GoesTo(x, pc)
  PROVE  /\ job' \in [Procs -> {Idle} \cup Working]
         /\ job'[x].pc = pc /\ job'[x].todo = job[x].todo /\ job'[x].done = job[x].done
         /\ \A y \in Procs : y # x => job'[y] = job[y]
<1> DEFINE j == [job[x] EXCEPT !.pc = pc]
<1>1. j = [command |-> job[x].command, pc |-> pc, todo |-> job[x].todo, done |-> job[x].done]
  BY WorkingFields DEF Working
<1>2. j \in Working
  BY <1>1, WorkingFields DEF Working
<1>3. job' = [job EXCEPT ![x] = j]
  BY DEF GoesTo, TypeOK
<1> HIDE DEF j
<1> QED BY <1>1, <1>2, <1>3 DEF TypeOK

\* What is pending stays pending for a holder of the ledger, when only new packets are written.
OnlyNewPackets == \A p \in Ids : packet[p] # NoPacket => packet'[p] = packet[p]

\* A step that writes no note, and no packet but new ones, keeps what the other processes rely on.
LEMMA OthersStaySound ==
  ASSUME IInv, NEW x \in Procs, NEW y \in Procs, y # x, job'[y] = job[y], OthersKeep(x),
         OnlyNewPackets, notes' \cup archived' = Noted,
         \A p \in acked' \ acked : packet[p] = NoPacket \/ lock["ledger"] = x
  PROVE  Sound(y)'
<1>1. job'[y].pc \in {"announce", "take back", "next", "rename"} => job[y].todo \subseteq Pending'
  BY PacketFields DEF IInv, Sound, Announcing, Applying, Pending, OnlyNewPackets
<1>2. Announcing(y)'
  <2>1. SUFFICES ASSUME job[y].pc \in {"announce", "take back"}
                 PROVE  /\ lock'["ledger"] = y /\ job[y].todo \subseteq Pending'
                        /\ job[y].todo \cap Noted' = {} /\ job[y].todo \cap acked' = {}
    BY DEF Announcing
  <2>2. /\ lock["ledger"] = y /\ job[y].todo \subseteq Pending
        /\ job[y].todo \cap Noted = {} /\ job[y].todo \cap acked = {}
    BY <2>1 DEF IInv, Sound, Announcing
  <2>3. \A p \in job[y].todo : packet[p] # NoPacket
    BY <2>2, PacketFields DEF Pending, IInv, NoPacket
  <2>4. job[y].todo \cap acked' = {}
    BY <2>2, <2>3
  <2> QED  BY <1>1, <2>1, <2>2, <2>4 DEF OthersKeep, Noted
<1>3. Applying(y)'
  BY <1>1 DEF IInv, Sound, Applying, OthersKeep, Noted
<1>4. Rebuilding(y)'
  BY DEF IInv, Sound, Rebuilding, Noted
<1> QED BY <1>2, <1>3, <1>4 DEF Sound

\* The holder of the ledger may change packets and write notes: nobody else relies on them.
LEMMA OthersStaySoundUnderLock ==
  ASSUME IInv, NEW x \in Procs, lock["ledger"] = x, NEW y \in Procs, y # x, job'[y] = job[y],
         Noted \subseteq notes' \cup archived'
  PROVE  Sound(y)'
<1>1. job'[y].pc \notin {"announce", "take back", "next", "rename"}
  BY DEF IInv, Sound, Announcing, Applying
<1> QED BY <1>1 DEF IInv, Sound, Announcing, Applying, Rebuilding, Noted

\* A step of one process that changes no packet, no note and no acknowledgement.
LEMMA QuietStep ==
  ASSUME IInv, NEW x \in Procs, UNCHANGED <<packet, notes, archived, db, acked>>,
         OthersKeep(x), lock' \in [Locks -> Procs \cup {NoProc}],
         job' \in [Procs -> {Idle} \cup Working],
         \A y \in Procs : y # x => job'[y] = job[y],
         Sound(x)'
  PROVE  IInv'
<1>1. TypeOK'
  BY DEF IInv, TypeOK
<1>2. NotesHavePackets' /\ CorrectionsAreNeverLost'
  BY DEF IInv, NotesHavePackets, CorrectionsAreNeverLost, Noted
<1>3. ASSUME NEW y \in Procs, y # x PROVE Sound(y)'
  <2>1. OnlyNewPackets /\ notes' \cup archived' = Noted /\ acked' \ acked = {}
    BY DEF OnlyNewPackets, Noted
  <2> QED BY <1>3, <2>1, OthersStaySound
<1> QED BY <1>1, <1>2, <1>3 DEF IInv

LEMMA OthersKeepSame == ASSUME NEW x, lock' = lock PROVE OthersKeep(x)
  BY DEF OthersKeep

LEMMA IdleIsSound == ASSUME NEW x \in Procs, job'[x].pc = "idle" PROVE Sound(x)'
  BY DEF Sound, Announcing, Applying, Rebuilding

\* A command that ends without a trace in the files.
LEMMA ExitStep ==
  ASSUME IInv, NEW x \in Procs, Exits(x), UNCHANGED <<packet, notes, archived, db, acked>>
  PROVE  IInv'
  BY ExitsKeeps, IdleIsSound, QuietStep DEF IInv

\* A process that goes where the invariant asks nothing of it.
LEMMA FreeStep ==
  ASSUME IInv, NEW x \in Procs, NEW j \in Working, Becomes(x, j),
         j.pc \notin {"announce", "take back", "next", "rename", "replace"},
         j.pc = "wait" => j.done = {},
         OthersKeep(x), lock' \in [Locks -> Procs \cup {NoProc}],
         UNCHANGED <<packet, notes, archived, db, acked>>
  PROVE  IInv'
<1>1. job'[x] = j
  BY BecomesKeeps DEF IInv
<1>2. Sound(x)'
  BY <1>1 DEF Sound, Announcing, Applying, Rebuilding
<1> QED BY <1>2, BecomesKeeps, QuietStep DEF IInv

LEMMA FreeGoes ==
  ASSUME IInv, NEW x \in Procs, job[x].pc # "idle", NEW pc \in Phases, GoesTo(x, pc),
         pc \notin {"announce", "take back", "wait", "next", "rename", "replace"},
         OthersKeep(x), lock' \in [Locks -> Procs \cup {NoProc}],
         UNCHANGED <<packet, notes, archived, db, acked>>
  PROVE  IInv'
<1>1. job'[x].pc = pc
  BY GoesToKeeps DEF IInv
<1>2. Sound(x)'
  BY <1>1 DEF Sound, Announcing, Applying, Rebuilding
<1> QED BY <1>2, GoesToKeeps, QuietStep DEF IInv

-----------------------------------------------------------------------------
\* Writing a packet that was not there.
LEMMA WritesKeeps ==
  ASSUME IInv, NEW p \in Ids, NEW content \in Contents, Writes(p, content)
  PROVE  /\ packet' \in [Ids -> {NoPacket} \cup Packet]
         /\ packet[p] = NoPacket /\ packet'[p].place = "pending"
         /\ OnlyNewPackets
         /\ \A q \in Ids : q # p => packet'[q] = packet[q]
         /\ p \notin Noted
<1> DEFINE new == [content |-> content, place |-> "pending"]
<1>1. new \in Packet /\ new.place = "pending"
  BY DEF Packet
<1>2. packet' = [packet EXCEPT ![p] = new] /\ packet[p] = NoPacket
  BY DEF Writes
<1> HIDE DEF new
<1>3. p \notin Noted
  BY <1>2 DEF IInv, NotesHavePackets, NoPacket
<1> QED BY <1>1, <1>2, <1>3 DEF IInv, TypeOK, OnlyNewPackets

LEMMA LearnStep == ASSUME IInv, NEW x \in Procs, NEW p \in Ids, Learn(x, p) PROVE IInv'
<1> PICK content \in Contents : Writes(p, content)
  BY DEF Learn
<1>1. UNCHANGED <<notes, archived, db, lock, job>> /\ acked' = acked \cup {p} /\ job[x].pc = "idle"
  BY DEF Learn, At
<1>2. TypeOK'
  BY <1>1, WritesKeeps DEF IInv, TypeOK
<1>3. NotesHavePackets'
  BY <1>1, WritesKeeps, PacketFields DEF IInv, NotesHavePackets, Noted, OnlyNewPackets, TypeOK
<1>4. CorrectionsAreNeverLost'
  BY <1>1, WritesKeeps, PacketFields DEF IInv, CorrectionsAreNeverLost, OnlyNewPackets, TypeOK
<1>5. Sound(x)'
  BY <1>1, IdleIsSound
<1>6. ASSUME NEW y \in Procs, y # x PROVE Sound(y)'
  BY <1>1, <1>6, WritesKeeps, OthersKeepSame, OthersStaySound DEF Noted
<1> QED BY <1>2, <1>3, <1>4, <1>5, <1>6 DEF IInv

LEMMA FeedbackStep == ASSUME IInv, NEW x \in Procs, NEW p \in Ids, Feedback(x, p) PROVE IInv'
<1> PICK content \in Contents : Writes(p, content)
  BY DEF Feedback
<1> DEFINE j == Job("feedback", "announce", {p}, {})
<1>1. UNCHANGED <<notes, archived, db, acked>> /\ Takes(x, {"ledger"}) /\ Becomes(x, j)
  BY DEF Feedback
<1>2. j \in Working /\ j.pc = "announce" /\ j.todo = {p}
  BY DEF Job, Working, Commands, Phases
<1>3. OthersKeep(x) /\ lock' \in [Locks -> Procs \cup {NoProc}] /\ lock'["ledger"] = x
  BY <1>1, TakesKeeps DEF Feedback, IInv, Locks
<1> HIDE DEF j
<1>4. /\ job' \in [Procs -> {Idle} \cup Working] /\ job'[x] = j
      /\ \A y \in Procs : y # x => job'[y] = job[y]
  BY <1>1, <1>2, BecomesKeeps DEF IInv
<1>5. TypeOK'
  BY <1>1, <1>3, <1>4, WritesKeeps DEF IInv, TypeOK
<1>6. NotesHavePackets'
  BY <1>1, WritesKeeps, PacketFields DEF IInv, NotesHavePackets, Noted, OnlyNewPackets, TypeOK
<1>7. CorrectionsAreNeverLost'
  BY <1>1, WritesKeeps, PacketFields DEF IInv, CorrectionsAreNeverLost, OnlyNewPackets, TypeOK
<1>8. p \notin acked
  BY WritesKeeps DEF IInv, CorrectionsAreNeverLost, NoPacket, Noted
<1>9. Sound(x)'
  <2>1. job'[x].pc = "announce" /\ job'[x].todo = {p}
    BY <1>2, <1>4
  <2>2. p \in Pending' /\ p \notin Noted' /\ p \notin acked'
    BY <1>1, <1>8, WritesKeeps DEF Pending, Noted
  <2>3. Announcing(x)'
    BY <1>3, <2>1, <2>2 DEF Announcing
  <2> QED BY <2>1, <2>3 DEF Sound, Applying, Rebuilding
<1>10. ASSUME NEW y \in Procs, y # x PROVE Sound(y)'
  BY <1>1, <1>3, <1>4, <1>10, WritesKeeps, OthersStaySound DEF Noted
<1> QED BY <1>5, <1>6, <1>7, <1>9, <1>10 DEF IInv

LEMMA FeedbackEventStep == ASSUME IInv, NEW x \in Procs, FeedbackEvent(x) PROVE IInv'
<1> PICK p \in job[x].todo : acked' = acked \cup {p}
  BY DEF FeedbackEvent
<1>1. /\ job[x].pc = "announce" /\ Exits(x) /\ UNCHANGED <<packet, notes, archived, db>>
  BY DEF FeedbackEvent, At, files
<1>2. p \in Ids /\ packet[p].place = "pending" /\ lock["ledger"] = x
  BY <1>1 DEF IInv, Sound, Announcing, Pending
<1>3. TypeOK' /\ NotesHavePackets' /\ CorrectionsAreNeverLost'
  BY <1>1, <1>2, ExitsKeeps DEF IInv, TypeOK, NotesHavePackets, CorrectionsAreNeverLost, Noted
<1>4. Sound(x)'
  BY <1>1, ExitsKeeps, IdleIsSound DEF IInv
<1>5. ASSUME NEW y \in Procs, y # x PROVE Sound(y)'
  BY <1>1, <1>2, <1>5, ExitsKeeps, OthersStaySoundUnderLock DEF IInv, Noted
<1> QED BY <1>3, <1>4, <1>5 DEF IInv

LEMMA FeedbackFailsStep == ASSUME IInv, NEW x \in Procs, FeedbackFails(x) PROVE IInv'
<1>1. /\ job[x].pc = "announce" /\ GoesTo(x, "take back")
      /\ UNCHANGED <<packet, notes, archived, db, acked, lock>>
  BY DEF FeedbackFails, At, files
<1>2. job'[x].pc = "take back" /\ job'[x].todo = job[x].todo
  BY <1>1, GoesToKeeps DEF IInv, Phases
<1>3. Sound(x)'
  BY <1>1, <1>2 DEF IInv, Sound, Announcing, Applying, Rebuilding, Noted, Pending
<1>4. lock' \in [Locks -> Procs \cup {NoProc}]
  BY <1>1 DEF IInv, TypeOK
<1> QED BY <1>1, <1>3, <1>4, GoesToKeeps, OthersKeepSame, QuietStep DEF IInv, Phases

LEMMA FeedbackTakesBackStep == ASSUME IInv, NEW x \in Procs, FeedbackTakesBack(x) PROVE IInv'
<1> DEFINE gone(p) == [packet[p] EXCEPT !.place = "removed"]
<1>1. /\ job[x].pc = "take back" /\ Exits(x) /\ UNCHANGED <<notes, archived, db, acked>>
      /\ packet' = [p \in Ids |-> IF p \in job[x].todo THEN gone(p) ELSE packet[p]]
  BY DEF FeedbackTakesBack, At
<1>2. /\ lock["ledger"] = x /\ job[x].todo \subseteq Pending
      /\ job[x].todo \cap Noted = {} /\ job[x].todo \cap acked = {}
  BY <1>1 DEF IInv, Sound, Announcing
<1>3. \A p \in Pending : gone(p) \in Packet
  <2> SUFFICES ASSUME NEW p \in Pending PROVE gone(p) \in Packet
    OBVIOUS
  <2>1. packet[p] \in Packet
    BY PacketFields DEF IInv, Pending
  <2> QED BY <2>1 DEF Packet
<1> HIDE DEF gone
<1>4. /\ packet' \in [Ids -> {NoPacket} \cup Packet]
      /\ \A p \in Ids \ job[x].todo : packet'[p] = packet[p]
  BY <1>1, <1>2, <1>3 DEF IInv, TypeOK
<1>5. TypeOK'
  BY <1>1, <1>4, ExitsKeeps DEF IInv, TypeOK
<1>6. NotesHavePackets'
  BY <1>1, <1>2, <1>4 DEF IInv, TypeOK, NotesHavePackets, Noted
<1>7. CorrectionsAreNeverLost'
  BY <1>1, <1>2, <1>4 DEF IInv, TypeOK, CorrectionsAreNeverLost
<1>8. Sound(x)'
  BY <1>1, ExitsKeeps, IdleIsSound DEF IInv
<1>9. ASSUME NEW y \in Procs, y # x PROVE Sound(y)'
  BY <1>1, <1>2, <1>9, ExitsKeeps, OthersStaySoundUnderLock DEF IInv, Noted
<1> QED BY <1>5, <1>6, <1>7, <1>8, <1>9 DEF IInv

-----------------------------------------------------------------------------
LEMMA ApplyBeginStep ==
  ASSUME IInv, NEW x \in Procs, NEW wanted \in SUBSET Ids, ApplyBegin(x, wanted)
  PROVE  IInv'
<1> DEFINE j == Job("apply", "wait", wanted, {})
<1>1. /\ Takes(x, {"maintenance"}) /\ Becomes(x, j) /\ Free("maintenance")
      /\ UNCHANGED <<packet, notes, archived, db, acked>>
  BY DEF ApplyBegin, files
<1>2. j \in Working /\ j.pc = "wait" /\ j.done = {}
  BY DEF Job, Working, Commands, Phases
<1>3. OthersKeep(x) /\ lock' \in [Locks -> Procs \cup {NoProc}]
  BY <1>1, TakesKeeps DEF IInv, Locks
<1> HIDE DEF j
<1> QED BY <1>1, <1>2, <1>3, FreeStep

LEMMA ApplyLocksStep == ASSUME IInv, NEW x \in Procs, ApplyLocks(x) PROVE IInv'
<1> DEFINE k == [job[x] EXCEPT !.pc = "next"]
           j == [k EXCEPT !.todo = @ \cap Pending]
<1>1. /\ job[x].pc = "wait" /\ Takes(x, {"ledger"}) /\ Free("ledger")
      /\ Becomes(x, j) /\ UNCHANGED <<packet, notes, archived, db, acked>>
  BY DEF ApplyLocks, At, files
<1>2. k = [command |-> job[x].command, pc |-> "next", todo |-> job[x].todo, done |-> job[x].done]
  BY <1>1, WorkingFields DEF IInv, Working
<1>3. j = [command |-> job[x].command, pc |-> "next", todo |-> job[x].todo \cap Pending,
           done |-> job[x].done]
  <2> HIDE DEF k
  <2> QED BY <1>2
<1>4. j \in Working
  BY <1>1, <1>3, WorkingFields DEF IInv, Working, Phases
<1>5. OthersKeep(x) /\ lock' \in [Locks -> Procs \cup {NoProc}] /\ lock'["ledger"] = x
  BY <1>1, TakesKeeps DEF IInv, Locks
<1> HIDE DEF j, k
<1>6. /\ job' \in [Procs -> {Idle} \cup Working] /\ job'[x] = j
      /\ \A y \in Procs : y # x => job'[y] = job[y]
  BY <1>1, <1>4, BecomesKeeps DEF IInv
<1>7. job'[x].pc = "next" /\ job'[x].todo \subseteq Pending /\ job'[x].done = {}
  <2>1. job[x].done = {}
    BY <1>1 DEF IInv, Sound, Applying
  <2> QED BY <1>3, <1>6, <2>1
<1>8. Announcing(x)' /\ Rebuilding(x)'
  BY <1>7 DEF Announcing, Rebuilding
<1>9. Applying(x)'
  BY <1>1, <1>5, <1>7 DEF Applying, Pending
<1> QED BY <1>1, <1>5, <1>6, <1>8, <1>9, QuietStep DEF Sound

LEMMA ApplyNoteStep == ASSUME IInv, NEW x \in Procs, ApplyNote(x) PROVE IInv'
<1> PICK p \in job[x].todo :
        /\ notes' = notes \cup {p}
        /\ job' = [job EXCEPT ![x] = [job[x] EXCEPT !.pc = "rename", !.done = @ \cup {p}]]
  BY DEF ApplyNote, Becomes
<1> DEFINE k == [job[x] EXCEPT !.pc = "rename"]
           j == [k EXCEPT !.done = @ \cup {p}]
<1>1. job[x].pc = "next" /\ UNCHANGED <<packet, archived, db, lock, acked>>
  BY DEF ApplyNote, At
<1>2. k = [command |-> job[x].command, pc |-> "rename", todo |-> job[x].todo, done |-> job[x].done]
  BY <1>1, WorkingFields DEF IInv, Working
<1>3. j = [command |-> job[x].command, pc |-> "rename", todo |-> job[x].todo,
           done |-> job[x].done \cup {p}]
  <2> HIDE DEF k
  <2> QED BY <1>2
<1>4. /\ lock["ledger"] = x /\ p \in Ids /\ packet[p].place = "pending"
      /\ job[x].done \subseteq Noted /\ job[x].todo \subseteq Pending
  BY <1>1 DEF IInv, Sound, Applying, Pending
<1>5. j \in Working
  <2>1. /\ job[x].command \in Commands /\ job[x].todo \subseteq Ids
        /\ job[x].done \cup {p} \subseteq Ids
    BY <1>1, <1>4, WorkingFields DEF IInv, Working
  <2>2. "rename" \in Phases
    BY DEF Phases
  <2> HIDE DEF j, k
  <2> QED BY <1>3, <2>1, <2>2 DEF Working
<1>6. job' = [job EXCEPT ![x] = j]
  OBVIOUS
<1> HIDE DEF j, k
<1>7. /\ job' \in [Procs -> {Idle} \cup Working] /\ job'[x] = j
      /\ \A y \in Procs : y # x => job'[y] = job[y]
  BY <1>5, <1>6 DEF IInv, TypeOK
<1>8. TypeOK' /\ NotesHavePackets' /\ CorrectionsAreNeverLost'
  BY <1>1, <1>4, <1>7 DEF IInv, TypeOK, NotesHavePackets, CorrectionsAreNeverLost, Noted
<1>9. Sound(x)'
  BY <1>1, <1>3, <1>4, <1>7 DEF Sound, Announcing, Applying, Rebuilding, Noted, Pending
<1>10. ASSUME NEW y \in Procs, y # x PROVE Sound(y)'
  BY <1>1, <1>4, <1>7, <1>10, OthersStaySoundUnderLock DEF Noted
<1> QED BY <1>8, <1>9, <1>10 DEF IInv

LEMMA ApplyRenameStep == ASSUME IInv, NEW x \in Procs, ApplyRename(x) PROVE IInv'
<1> DEFINE kept(p) == [packet[p] EXCEPT !.place = "applied"]
           k == [job[x] EXCEPT !.pc = "next"]
           j == [k EXCEPT !.todo = @ \ job[x].done]
<1>1. /\ job[x].pc = "rename" /\ UNCHANGED <<notes, archived, db, lock, acked>>
      /\ job' = [job EXCEPT ![x] = j]
      /\ packet' = [p \in Ids |-> IF p \in job[x].done THEN kept(p) ELSE packet[p]]
  BY DEF ApplyRename, At, Becomes
<1>2. k = [command |-> job[x].command, pc |-> "next", todo |-> job[x].todo, done |-> job[x].done]
  BY <1>1, WorkingFields DEF IInv, Working
<1>3. j = [command |-> job[x].command, pc |-> "next", todo |-> job[x].todo \ job[x].done,
           done |-> job[x].done]
  <2> HIDE DEF k
  <2> QED BY <1>2
<1>4. /\ lock["ledger"] = x /\ job[x].done \subseteq Noted /\ job[x].todo \subseteq Pending
      /\ job[x].done \subseteq Ids
  BY <1>1, WorkingFields DEF IInv, Sound, Applying
<1>5. j \in Working
  BY <1>1, <1>3, WorkingFields DEF IInv, Working, Phases
<1>6. \A p \in Noted : p \in Ids => kept(p) \in Packet /\ kept(p).place = "applied"
  <2> SUFFICES ASSUME NEW p \in Noted, p \in Ids
               PROVE  kept(p) \in Packet /\ kept(p).place = "applied"
    OBVIOUS
  <2>1. packet[p] \in Packet
    BY PacketFields DEF IInv, NotesHavePackets
  <2> QED BY <2>1 DEF Packet
<1> HIDE DEF j, k, kept
<1>7. /\ job' \in [Procs -> {Idle} \cup Working] /\ job'[x] = j
      /\ \A y \in Procs : y # x => job'[y] = job[y]
  BY <1>1, <1>5 DEF IInv, TypeOK
<1>8. /\ packet' \in [Ids -> {NoPacket} \cup Packet]
      /\ \A p \in Ids \ job[x].done : packet'[p] = packet[p]
      /\ \A p \in job[x].done : packet'[p].place = "applied"
  BY <1>1, <1>4, <1>6 DEF IInv, TypeOK
<1>9. TypeOK'
  BY <1>1, <1>7, <1>8 DEF IInv, TypeOK
<1>10. NotesHavePackets' /\ CorrectionsAreNeverLost'
  BY <1>1, <1>4, <1>8 DEF IInv, TypeOK, NotesHavePackets, CorrectionsAreNeverLost, Noted
<1>11. Sound(x)'
  BY <1>1, <1>3, <1>4, <1>7, <1>8 DEF Sound, Announcing, Applying, Rebuilding, Noted, Pending
<1>12. ASSUME NEW y \in Procs, y # x PROVE Sound(y)'
  BY <1>1, <1>4, <1>7, <1>12, OthersStaySoundUnderLock DEF Noted
<1> QED BY <1>9, <1>10, <1>11, <1>12 DEF IInv

LEMMA ApplyAllDoneStep == ASSUME IInv, NEW x \in Procs, ApplyAllDone(x) PROVE IInv'
<1>1. job[x].pc = "next" /\ UNCHANGED <<packet, notes, archived, db, acked>>
  BY DEF ApplyAllDone, At, files
<1>2. CASE Exits(x)
  BY <1>1, <1>2, ExitStep
<1>3. CASE GoesTo(x, "rebuild") /\ UNCHANGED lock
  <2>1. OthersKeep(x) /\ lock' \in [Locks -> Procs \cup {NoProc}]
    BY <1>3, OthersKeepSame DEF IInv, TypeOK
  <2> QED BY <1>1, <1>3, <2>1, FreeGoes DEF Phases
<1> QED BY <1>2, <1>3 DEF ApplyAllDone

LEMMA ApplyEventStep == ASSUME IInv, NEW x \in Procs, ApplyEvent(x) PROVE IInv'
<1>1. job[x].pc = "announce applied" /\ UNCHANGED <<packet, notes, archived, db, acked>>
  BY DEF ApplyEvent, At, files
<1>2. CASE Exits(x)
  BY <1>1, <1>2, ExitStep
<1>3. ASSUME NEW p \in job[x].done, Becomes(x, [job[x] EXCEPT !.done = @ \ {p}]), UNCHANGED lock
      PROVE  IInv'
  <2> DEFINE j == [job[x] EXCEPT !.done = @ \ {p}]
  <2>1. j = [command |-> job[x].command, pc |-> "announce applied", todo |-> job[x].todo,
             done |-> job[x].done \ {p}]
    <3>1. job[x] \in Working
      BY <1>1, WorkingFields DEF IInv
    <3>2. j = [command |-> job[x].command, pc |-> job[x].pc, todo |-> job[x].todo,
               done |-> job[x].done \ {p}]
      BY <3>1 DEF Working
    <3> HIDE DEF j
    <3> QED BY <1>1, <3>2
  <2>2. j \in Working /\ j.pc = "announce applied"
    BY <1>1, <2>1, WorkingFields DEF IInv, Working, Phases
  <2>3. OthersKeep(x) /\ lock' \in [Locks -> Procs \cup {NoProc}]
    BY <1>3, OthersKeepSame DEF IInv, TypeOK
  <2>4. Becomes(x, j)
    BY <1>3
  <2> HIDE DEF j
  <2> QED BY <1>1, <2>2, <2>3, <2>4, FreeStep
<1> QED BY <1>2, <1>3 DEF ApplyEvent

-----------------------------------------------------------------------------
LEMMA RebuildCommandStep == ASSUME IInv, NEW x \in Procs, RebuildCommand(x) PROVE IInv'
<1> DEFINE j == Job("rebuild", "rebuild", {}, {})
<1>1. /\ Takes(x, {"maintenance"}) /\ Becomes(x, j) /\ Free("maintenance")
      /\ UNCHANGED <<packet, notes, archived, db, acked>>
  BY DEF RebuildCommand, files
<1>2. j \in Working /\ j.pc = "rebuild"
  BY DEF Job, Working, Commands, Phases
<1>3. OthersKeep(x) /\ lock' \in [Locks -> Procs \cup {NoProc}]
  BY <1>1, TakesKeeps DEF IInv, Locks
<1> HIDE DEF j
<1> QED BY <1>1, <1>2, <1>3, FreeStep

LEMMA RebuildLoadsStep == ASSUME IInv, NEW x \in Procs, RebuildLoads(x) PROVE IInv'
<1> DEFINE k == [job[x] EXCEPT !.pc = "replace"]
           j == [k EXCEPT !.todo = notes]
<1>1. /\ job[x].pc = "rebuild" /\ Takes(x, {"index"}) /\ Free("index") /\ Becomes(x, j)
      /\ UNCHANGED <<packet, notes, archived, db, acked>>
  BY DEF RebuildLoads, At, files
<1>2. k = [command |-> job[x].command, pc |-> "replace", todo |-> job[x].todo, done |-> job[x].done]
  BY <1>1, WorkingFields DEF IInv, Working
<1>3. j = [command |-> job[x].command, pc |-> "replace", todo |-> notes, done |-> job[x].done]
  <2> HIDE DEF k
  <2> QED BY <1>2
<1>4. j \in Working
  BY <1>1, <1>3, WorkingFields DEF IInv, TypeOK, Working, Phases
<1>5. OthersKeep(x) /\ lock' \in [Locks -> Procs \cup {NoProc}]
  BY <1>1, TakesKeeps DEF IInv, Locks
<1> HIDE DEF j, k
<1>6. /\ job' \in [Procs -> {Idle} \cup Working] /\ job'[x] = j
      /\ \A y \in Procs : y # x => job'[y] = job[y]
  BY <1>1, <1>4, BecomesKeeps DEF IInv
<1>7. Sound(x)'
  BY <1>1, <1>3, <1>6 DEF Sound, Announcing, Applying, Rebuilding, Noted
<1> QED BY <1>1, <1>5, <1>6, <1>7, QuietStep

LEMMA RebuildReplacesStep == ASSUME IInv, NEW x \in Procs, RebuildReplaces(x) PROVE IInv'
<1>1. /\ job[x].pc = "replace" /\ db' = job[x].todo /\ GoesTo(x, "manifest")
      /\ UNCHANGED <<packet, notes, archived, lock, acked>>
  BY DEF RebuildReplaces, At
<1>2. /\ job' \in [Procs -> {Idle} \cup Working] /\ job'[x].pc = "manifest"
      /\ \A y \in Procs : y # x => job'[y] = job[y]
  BY <1>1, GoesToKeeps DEF IInv, Phases
<1>3. db' \subseteq Noted
  BY <1>1 DEF IInv, Sound, Rebuilding
<1>4. TypeOK' /\ NotesHavePackets' /\ CorrectionsAreNeverLost'
  BY <1>1, <1>2, <1>3 DEF IInv, TypeOK, NotesHavePackets, CorrectionsAreNeverLost, Noted
<1>5. Sound(x)'
  BY <1>2 DEF Sound, Announcing, Applying, Rebuilding
<1>6. ASSUME NEW y \in Procs, y # x PROVE Sound(y)'
  <2>1. OnlyNewPackets /\ notes' \cup archived' = Noted /\ acked' \ acked = {}
    BY <1>1 DEF OnlyNewPackets, Noted
  <2> QED BY <1>1, <1>2, <1>6, <2>1, OthersKeepSame, OthersStaySound
<1> QED BY <1>4, <1>5, <1>6 DEF IInv

LEMMA RebuildManifestStep == ASSUME IInv, NEW x \in Procs, RebuildManifest(x) PROVE IInv'
<1>1. job[x].pc = "manifest" /\ UNCHANGED <<packet, notes, archived, db, acked>>
  BY DEF RebuildManifest, At
<1>2. CASE Exits(x)
  BY <1>1, <1>2, ExitStep
<1>3. CASE GoesTo(x, "announce applied") /\ lock' = [lock EXCEPT !["index"] = NoProc]
  <2>1. OthersKeep(x) /\ lock' \in [Locks -> Procs \cup {NoProc}]
    BY <1>3 DEF IInv, TypeOK, OthersKeep, Locks
  <2> QED BY <1>1, <1>3, <2>1, FreeGoes DEF Phases
<1> QED BY <1>2, <1>3 DEF RebuildManifest

-----------------------------------------------------------------------------
LEMMA PruneStep == ASSUME IInv, NEW x \in Procs, Prune(x) PROVE IInv'
<1> DEFINE plans == {p \in notes : ~packet[p].content.signal}
           j == Job("prune", "archive", plans, {})
<1>1. Becomes(x, j) /\ UNCHANGED <<packet, notes, archived, db, acked, lock>>
  BY DEF Prune, files
<1>2. j \in Working /\ j.pc = "archive"
  BY DEF Job, Working, Commands, Phases, IInv, TypeOK
<1>3. OthersKeep(x) /\ lock' \in [Locks -> Procs \cup {NoProc}]
  BY <1>1, OthersKeepSame DEF IInv, TypeOK
<1> HIDE DEF j
<1> QED BY <1>1, <1>2, <1>3, FreeStep

LEMMA PruneMovesStep == ASSUME IInv, NEW x \in Procs, PruneMoves(x) PROVE IInv'
<1> PICK p \in job[x].todo \cap notes :
        /\ notes' = notes \ {p} /\ archived' = archived \cup {p}
        /\ Becomes(x, [job[x] EXCEPT !.todo = @ \ {p},
                                     !.pc = IF job[x].todo = {p} THEN "rebuild" ELSE "archive"])
  BY DEF PruneMoves
<1> DEFINE pc == IF job[x].todo = {p} THEN "rebuild" ELSE "archive"
           k == [job[x] EXCEPT !.todo = @ \ {p}]
           j == [k EXCEPT !.pc = pc]
<1>1. job[x].pc = "archive" /\ UNCHANGED <<packet, db, lock, acked>> /\ Becomes(x, j)
  BY DEF PruneMoves, At
<1>2. k = [command |-> job[x].command, pc |-> "archive", todo |-> job[x].todo \ {p},
           done |-> job[x].done]
  BY <1>1, WorkingFields DEF IInv, Working
<1>3. j = [command |-> job[x].command, pc |-> pc, todo |-> job[x].todo \ {p}, done |-> job[x].done]
  <2> HIDE DEF k, pc
  <2> QED BY <1>2
<1>4. j \in Working /\ j.pc \in {"rebuild", "archive"}
  BY <1>1, <1>3, WorkingFields DEF IInv, Working, Phases
<1> HIDE DEF j, k, pc
<1>5. /\ job' \in [Procs -> {Idle} \cup Working] /\ job'[x] = j
      /\ \A y \in Procs : y # x => job'[y] = job[y]
  BY <1>1, <1>4, BecomesKeeps DEF IInv
<1>6. notes' \cup archived' = Noted
  BY DEF Noted
<1>7. TypeOK' /\ NotesHavePackets' /\ CorrectionsAreNeverLost'
  BY <1>1, <1>5, <1>6 DEF IInv, TypeOK, NotesHavePackets, CorrectionsAreNeverLost, Noted
<1>8. Sound(x)'
  BY <1>4, <1>5 DEF Sound, Announcing, Applying, Rebuilding
<1>9. ASSUME NEW y \in Procs, y # x PROVE Sound(y)'
  <2>1. OnlyNewPackets /\ acked' \ acked = {}
    BY <1>1 DEF OnlyNewPackets
  <2> QED BY <1>1, <1>5, <1>6, <1>9, <2>1, OthersKeepSame, OthersStaySound
<1> QED BY <1>7, <1>8, <1>9 DEF IInv

\* The steps that append to the ledger, or end.
LEMMA OtherSteps ==
  ASSUME IInv, NEW x \in Procs,
         \/ Gate(x) \/ (\E p \in Ids : Preview(x, p)) \/ FeedbackKeepsPacket(x)
         \/ ApplyRefuses(x) \/ ApplyEventFails(x) \/ RebuildBusy(x) \/ PruneMisses(x) \/ Crash(x)
  PROVE  IInv'
<1>1. UNCHANGED <<packet, notes, archived, db, acked>>
  BY DEF Gate, Preview, FeedbackKeepsPacket, ApplyRefuses, ApplyEventFails, RebuildBusy, PruneMisses,
         Crash, files
<1>2. CASE Exits(x)
  BY <1>1, <1>2, ExitStep
<1>3. CASE UNCHANGED <<lock, job>>
  BY <1>1, <1>3 DEF IInv, TypeOK, NotesHavePackets, CorrectionsAreNeverLost, Noted, Sound, Announcing,
                    Applying, Rebuilding, Pending
<1> QED BY <1>2, <1>3
           DEF Gate, Preview, FeedbackKeepsPacket, ApplyRefuses, ApplyEventFails, RebuildBusy,
               PruneMisses, Crash

LEMMA NextIInv == IInv /\ [Next]_vars => IInv'
<1> SUFFICES ASSUME IInv, [Next]_vars PROVE IInv'
  OBVIOUS
<1>1. ASSUME NEW x \in Procs, Begin(x) PROVE IInv'
  <2>1. Ids \in SUBSET Ids /\ \A p \in Ids : {p} \in SUBSET Ids
    OBVIOUS
  <2> QED BY <1>1, <2>1, OtherSteps, PruneStep, RebuildCommandStep, ApplyBeginStep, LearnStep,
             FeedbackStep DEF Begin
<1>2. ASSUME NEW x \in Procs, Step(x) PROVE IInv'
  BY <1>2, FeedbackEventStep, FeedbackTakesBackStep, ApplyLocksStep, OtherSteps, ApplyNoteStep,
     ApplyRenameStep, ApplyAllDoneStep, ApplyEventStep, RebuildLoadsStep, RebuildReplacesStep,
     RebuildManifestStep, PruneMovesStep DEF Step
<1>3. ASSUME NEW x \in Procs,
             FeedbackFails(x) \/ FeedbackKeepsPacket(x) \/ ApplyEventFails(x) \/ Crash(x)
      PROVE  IInv'
  BY <1>3, FeedbackFailsStep, OtherSteps
<1>4. CASE UNCHANGED vars
  BY <1>4 DEF vars, IInv, TypeOK, NotesHavePackets, CorrectionsAreNeverLost, Noted, Sound,
              Announcing, Applying, Rebuilding, Pending
<1> QED BY <1>1, <1>2, <1>3, <1>4 DEF Next

\* The invariant holds in every behaviour.
LEMMA Invariance == Spec => []IInv
  BY InitIInv, NextIInv, PTL DEF Spec

\* No command, failure, kill or prune loses a correction that was reported: it stays a pending
\* packet until its note is written, and a note is only ever moved (write_applied_packet,
\* prune_imports).
THEOREM NoCorrectionIsLost == Spec => []CorrectionsAreNeverLost
<1>1. IInv => CorrectionsAreNeverLost
  BY DEF IInv
<1> QED BY <1>1, Invariance, PTL

\* A correction that was taken back after its event could not be appended is neither a note nor
\* a rule, no apply is about to write it, and nobody was told of it, whoever applies and rebuilds
\* meanwhile: the ledger is held from the packet to its removal (learn_feedback).
THEOREM WithdrawnFeedbackStaysInert == Spec => []WithdrawnFeedbackIsInert
<1>1. ASSUME IInv, NEW p \in Ids, packet[p].place = "removed"
      PROVE  /\ p \notin notes \cup archived \cup db \cup acked
             /\ \A x \in Procs : job[x].pc \in {"next", "rename"} => p \notin job[x].todo
  <2>1. p \notin Noted /\ p \notin db
    BY <1>1 DEF IInv, NotesHavePackets
  <2>2. p \notin acked
    BY <1>1, <2>1 DEF IInv, CorrectionsAreNeverLost, Noted
  <2>3. \A x \in Procs : job[x].pc \in {"next", "rename"} => p \notin job[x].todo
    BY <1>1 DEF IInv, Sound, Applying, Pending
  <2> QED BY <2>1, <2>2, <2>3 DEF Noted
<1>2. IInv => WithdrawnFeedbackIsInert
  BY <1>1 DEF WithdrawnFeedbackIsInert
<1> QED BY <1>2, Invariance, PTL

-----------------------------------------------------------------------------
\* What apply announces is in the index.

Line == Event \cup {Broken}
Applied == {p \in Ids : packet[p].place = "applied"}
Announced(p) == \E i \in DOMAIN ledger : ledger[i].kind = "apply-update" /\ ledger[i].id = p

\* What is announced, and what an apply announces next.
Promised == {p \in Ids :
    \/ Announced(p)
    \/ \E x \in Procs : job[x].pc \in {"manifest", "announce applied"} /\ p \in job[x].done}

\* Only one process is between reading the notes and writing the manifest.
Indexing(x) == job[x].pc \in {"replace", "manifest"} => lock["index"] = x

\* What an apply has done is marked applied, but for the packet it is about to rename.
Marking(x) ==
    job[x].pc # "idle" =>
        IF job[x].pc = "rename" THEN job[x].done \ job[x].todo \subseteq Applied
        ELSE job[x].done \subseteq Applied

\* The notes that were read are all that was promised, and all that the reader will promise.
Covering(x) ==
    job[x].pc = "replace" => (Promised \cup job[x].done) \cap notes \subseteq job[x].todo

Compiling(x) == Indexing(x) /\ Marking(x) /\ Covering(x)

\* A promised note is never written again, since its packet is no longer pending.
AInv ==
    /\ ledger \in Seq(Line)
    /\ Promised \subseteq Applied
    /\ Promised \cap notes \subseteq db
    /\ \A x \in Procs : Compiling(x)

-----------------------------------------------------------------------------
LEMMA InitAInv == Init => AInv
<1> SUFFICES ASSUME Init PROVE AInv
  OBVIOUS
<1>1. ledger = <<>> /\ notes = {} /\ \A x \in Procs : job[x] = Idle /\ job[x].pc = "idle"
  BY DEF Init, Idle
<1>2. ledger \in Seq(Line) /\ DOMAIN ledger = {}
  BY <1>1
<1>3. Promised = {}
  BY <1>1, <1>2 DEF Promised, Announced
<1>4. \A x \in Procs : Compiling(x)
  BY <1>1 DEF Compiling, Indexing, Marking, Covering
<1> QED BY <1>1, <1>2, <1>3, <1>4 DEF AInv

\* Appending one event announces at most that one; half a line announces nothing.
LEMMA AppendsAnnounces ==
  ASSUME ledger \in Seq(Line), NEW e \in Event, Appends(e)
  PROVE  /\ ledger' \in Seq(Line)
         /\ \A p \in Ids : Announced(p)' => Announced(p) \/ (e.kind = "apply-update" /\ e.id = p)
<1>1. e \in Line
  BY DEF Line
<1>2. CASE ledger' = ledger
  BY <1>2 DEF Announced
<1>3. CASE ledger' = Append(ledger, e)
  <2>1. ledger' \in Seq(Line) /\ Len(ledger') = Len(ledger) + 1 /\ ledger'[Len(ledger) + 1] = e
        /\ \A i \in 1..Len(ledger) : ledger'[i] = ledger[i]
    BY <1>1, <1>3
  <2>2. DOMAIN ledger = 1..Len(ledger) /\ DOMAIN ledger' = 1..Len(ledger') /\ Len(ledger) \in Nat
    BY <2>1
  <2> QED BY <2>1, <2>2 DEF Announced
<1> QED BY <1>2, <1>3 DEF Appends

LEMMA TearsAnnounces ==
  ASSUME ledger \in Seq(Line), Tears
  PROVE  ledger' \in Seq(Line) /\ \A p \in Ids : Announced(p)' => Announced(p)
<1>1. Broken \in Line /\ Broken.kind # "apply-update"
  BY DEF Line, Broken
<1>2. CASE ledger' = ledger
  BY <1>2 DEF Announced
<1>3. CASE ledger' = Append(ledger, Broken)
  <2> DEFINE e == Broken
  <2>1. e \in Line /\ e.kind # "apply-update"
    BY <1>1
  <2> HIDE DEF e
  <2>2. ledger' = Append(ledger, e)
    BY <1>3 DEF e
  <2>3. ledger' \in Seq(Line) /\ Len(ledger') = Len(ledger) + 1 /\ ledger'[Len(ledger) + 1] = e
        /\ \A i \in 1..Len(ledger) : ledger'[i] = ledger[i]
    BY <2>1, <2>2
  <2>4. DOMAIN ledger = 1..Len(ledger) /\ DOMAIN ledger' = 1..Len(ledger') /\ Len(ledger) \in Nat
    BY <2>3
  <2> QED BY <2>1, <2>3, <2>4 DEF Announced
<1> QED BY <1>2, <1>3 DEF Tears

\* The ledger announces nothing that was not promised.
LogGrows == ledger' \in Seq(Line) /\ \A p \in Ids : Announced(p)' => p \in Promised
IndexKept(x) == \A y \in Procs : y # x /\ lock["index"] = y => lock'["index"] = y
OthersGoOn(x) == \A y \in Procs : y # x => job'[y] = job[y]
\* A note that appears is one of a packet that was not applied.
OnlyNewNotes == (notes' \ notes) \cap Applied = {}

LEMMA SameLog == ASSUME AInv, ledger' = ledger PROVE LogGrows
<1>1. \A p \in Ids : Announced(p)' <=> Announced(p)
  BY DEF Announced
<1> QED BY <1>1 DEF AInv, LogGrows, Promised

LEMMA OtherEvent ==
  ASSUME AInv, NEW e \in Event, e.kind # "apply-update", Appends(e) PROVE LogGrows
  BY AppendsAnnounces DEF AInv, LogGrows, Promised

LEMMA TornLog == ASSUME AInv, Tears PROVE LogGrows
  BY TearsAnnounces DEF AInv, LogGrows, Promised

LEMMA PromisedEvent ==
  ASSUME AInv, NEW p \in Ids, p \in Promised, Appends([kind |-> "apply-update", id |-> p])
  PROVE  LogGrows
<1> DEFINE e == [kind |-> "apply-update", id |-> p]
<1>1. e \in Event /\ e.id = p
  BY DEF Event
<1> HIDE DEF e
<1>2. Appends(e)
  BY DEF e
<1> QED BY <1>1, <1>2, AppendsAnnounces DEF AInv, LogGrows, Promised

\* A step of one process that keeps the database and promises nothing new.
LEMMA KeepsPromises ==
  ASSUME AInv, NEW x \in Procs, LogGrows, OthersGoOn(x), IndexKept(x), OnlyNewNotes,
         Applied \subseteq Applied', db' = db,
         job'[x].pc \in {"manifest", "announce applied"} => job'[x].done \subseteq Promised,
         Indexing(x)', Marking(x)',
         job'[x].pc = "replace" =>
             (Promised \cup job'[x].done) \cap notes' \subseteq job'[x].todo
  PROVE  AInv'
<1>1. Promised' \subseteq Promised
  <2> SUFFICES ASSUME NEW p \in Promised' PROVE p \in Promised
    OBVIOUS
  <2>1. CASE Announced(p)'
    BY <2>1 DEF LogGrows, Promised
  <2>2. ASSUME NEW y \in Procs, job'[y].pc \in {"manifest", "announce applied"}, p \in job'[y].done
        PROVE  p \in Promised
    BY <2>2 DEF OthersGoOn, Promised
  <2> QED BY <2>1, <2>2 DEF Promised
<1>2. Promised' \subseteq Applied'
  BY <1>1 DEF AInv
<1>3. Promised' \cap notes' \subseteq db'
  BY <1>1 DEF AInv, OnlyNewNotes
<1>4. Covering(x)'
  BY <1>1 DEF Covering
<1>5. ASSUME NEW y \in Procs, y # x PROVE Compiling(y)'
  <2>1. job'[y] = job[y] /\ Indexing(y) /\ Marking(y) /\ Covering(y)
    BY <1>5 DEF OthersGoOn, AInv, Compiling
  <2>2. Indexing(y)' /\ Marking(y)'
    BY <1>5, <2>1 DEF Indexing, Marking, IndexKept
  <2>3. Covering(y)'
    BY <1>1, <2>1 DEF Covering, Marking, OnlyNewNotes, AInv
  <2> QED BY <2>2, <2>3 DEF Compiling
<1> QED BY <1>2, <1>3, <1>4, <1>5 DEF AInv, Compiling, LogGrows

LEMMA Ends ==
  ASSUME IInv, AInv, NEW x \in Procs, Exits(x), LogGrows, Applied \subseteq Applied',
         notes' \subseteq notes, db' = db
  PROVE  AInv'
<1>1. job'[x].pc = "idle" /\ OthersGoOn(x)
  BY ExitsKeeps DEF IInv, OthersGoOn
<1>2. IndexKept(x)
  BY DEF Exits, IndexKept, Locks
<1> QED BY <1>1, <1>2, KeepsPromises DEF Indexing, Marking, OnlyNewNotes

\* A process that goes where it promises nothing, and has marked what it has done.
LEMMA GoesOn ==
  ASSUME IInv, AInv, NEW x \in Procs, NEW j \in Working, Becomes(x, j), LogGrows, IndexKept(x),
         OnlyNewNotes, Applied \subseteq Applied', db' = db,
         j.pc \notin {"rename", "replace", "manifest", "announce applied"},
         j.done \subseteq Applied'
  PROVE  AInv'
<1>1. job'[x] = j /\ OthersGoOn(x)
  BY BecomesKeeps DEF IInv, OthersGoOn
<1> QED BY <1>1, KeepsPromises DEF Indexing, Marking

LEMMA TakesKeepsIndex ==
  ASSUME TypeOK, NEW x \in Procs, NEW ls \in SUBSET Locks, \A l \in ls : Free(l), Takes(x, ls)
  PROVE  IndexKept(x) /\ ("index" \in ls => lock'["index"] = x)
  BY LifecycleConstants DEF Takes, Free, IndexKept, TypeOK, Locks

-----------------------------------------------------------------------------
LEMMA Fields ==
  ASSUME IInv, NEW x \in Procs, job[x].pc # "idle"
  PROVE  /\ job[x] = [command |-> job[x].command, pc |-> job[x].pc,
                      todo |-> job[x].todo, done |-> job[x].done]
         /\ job[x].command \in Commands
         /\ job[x].todo \in SUBSET Ids /\ job[x].done \in SUBSET Ids
  BY WorkingFields DEF IInv, Working

\* What a job becomes when two of its fields change.
LEMMA Moves ==
  ASSUME IInv, NEW x \in Procs, job[x].pc # "idle", NEW pc, NEW set
  PROVE  /\ [job[x] EXCEPT !.pc = pc, !.todo = set]
              = [command |-> job[x].command, pc |-> pc, todo |-> set, done |-> job[x].done]
         /\ [job[x] EXCEPT !.todo = set, !.pc = pc]
              = [command |-> job[x].command, pc |-> pc, todo |-> set, done |-> job[x].done]
         /\ [job[x] EXCEPT !.pc = pc, !.done = set]
              = [command |-> job[x].command, pc |-> pc, todo |-> job[x].todo, done |-> set]
<1> DEFINE a == [job[x] EXCEPT !.pc = pc]
           b == [job[x] EXCEPT !.todo = set]
<1>1. a = [command |-> job[x].command, pc |-> pc, todo |-> job[x].todo, done |-> job[x].done]
  BY WorkingFields DEF IInv, Working
<1>2. b = [command |-> job[x].command, pc |-> job[x].pc, todo |-> set, done |-> job[x].done]
  BY WorkingFields DEF IInv, Working
<1>3. [a EXCEPT !.todo = set]
        = [command |-> job[x].command, pc |-> pc, todo |-> set, done |-> job[x].done]
  <2> HIDE DEF a
  <2> QED BY <1>1
<1>4. [a EXCEPT !.done = set]
        = [command |-> job[x].command, pc |-> pc, todo |-> job[x].todo, done |-> set]
  <2> HIDE DEF a
  <2> QED BY <1>1
<1>5. [b EXCEPT !.pc = pc]
        = [command |-> job[x].command, pc |-> pc, todo |-> set, done |-> job[x].done]
  <2> HIDE DEF b
  <2> QED BY <1>2
<1> QED BY <1>3, <1>4, <1>5

\* Appending alone: gates and previews.
LEMMA AppendsAlone ==
  ASSUME IInv, AInv, LogGrows, UNCHANGED <<packet, notes, db, lock, job>>
  PROVE  AInv'
<1>1. CASE Procs = {}
  <2>1. Promised' \subseteq Promised /\ Applied' = Applied
    BY <1>1 DEF LogGrows, Promised, Applied
  <2> QED BY <1>1, <2>1 DEF AInv, LogGrows
<1>2. ASSUME NEW x \in Procs PROVE AInv'
  <2>1. Compiling(x) /\ Applied' = Applied
    BY DEF AInv, Applied
  <2>2. job[x].pc \in {"manifest", "announce applied"} => job[x].done \cap Ids \subseteq Promised
    BY DEF Promised
  <2>3. job[x].pc # "idle" => job[x].done \subseteq Ids
    BY Fields
  <2> QED BY <2>1, <2>2, <2>3, KeepsPromises
          DEF OthersGoOn, IndexKept, OnlyNewNotes, Compiling, Indexing, Marking, Covering
<1> QED BY <1>1, <1>2

\* Writing a packet that was not there.
LEMMA WritesApplied ==
  ASSUME IInv, NEW p \in Ids, NEW content \in Contents, Writes(p, content)
  PROVE  Applied \subseteq Applied'
  BY WritesKeeps DEF Applied, OnlyNewPackets, NoPacket

LEMMA LearnAnnounces == ASSUME IInv, AInv, NEW x \in Procs, NEW p \in Ids, Learn(x, p) PROVE AInv'
<1>1. UNCHANGED <<notes, db, lock, job, ledger>> /\ job[x].pc = "idle"
  BY DEF Learn, At, log
<1>2. Applied \subseteq Applied'
  BY WritesApplied DEF Learn
<1> QED BY <1>1, <1>2, SameLog, KeepsPromises
        DEF OthersGoOn, IndexKept, OnlyNewNotes, Indexing, Marking

LEMMA FeedbackAnnounces ==
  ASSUME IInv, AInv, NEW x \in Procs, NEW p \in Ids, Feedback(x, p) PROVE AInv'
<1> DEFINE j == Job("feedback", "announce", {p}, {})
<1>1. UNCHANGED <<notes, db, ledger>> /\ Takes(x, {"ledger"}) /\ Free("ledger") /\ Becomes(x, j)
  BY DEF Feedback, log
<1>2. j \in Working /\ j.pc = "announce" /\ j.done = {}
  BY DEF Job, Working, Commands, Phases
<1>3. IndexKept(x)
  BY <1>1, TakesKeepsIndex DEF IInv, Locks
<1>4. Applied \subseteq Applied'
  BY WritesApplied DEF Feedback
<1> HIDE DEF j
<1> QED BY <1>1, <1>2, <1>3, <1>4, SameLog, GoesOn DEF OnlyNewNotes

LEMMA FeedbackEventAnnounces ==
  ASSUME IInv, AInv, NEW x \in Procs, FeedbackEvent(x) PROVE AInv'
<1> PICK p \in job[x].todo : Appends([kind |-> "learn-feedback", id |-> p])
  BY DEF FeedbackEvent
<1> DEFINE e == [kind |-> "learn-feedback", id |-> p]
<1>1. Exits(x) /\ UNCHANGED <<packet, notes, db>> /\ job[x].pc = "announce"
  BY DEF FeedbackEvent, files, At
<1>2. e \in Event /\ e.kind # "apply-update" /\ Appends(e)
  BY <1>1, Fields DEF Event
<1> HIDE DEF e
<1> QED BY <1>1, <1>2, OtherEvent, Ends DEF Applied

LEMMA FeedbackFailsAnnounces ==
  ASSUME IInv, AInv, NEW x \in Procs, FeedbackFails(x) PROVE AInv'
<1>1. /\ UNCHANGED <<packet, notes, db, lock>> /\ job[x].pc = "announce"
      /\ GoesTo(x, "take back")
  BY DEF FeedbackFails, files, At
<1>2. LogGrows
  <2>1. CASE Tears
    BY <2>1, TornLog
  <2>2. ASSUME NEW p \in job[x].todo, Appends([kind |-> "learn-feedback", id |-> p])
        PROVE  LogGrows
    <3> DEFINE e == [kind |-> "learn-feedback", id |-> p]
    <3>1. e \in Event /\ e.kind # "apply-update" /\ Appends(e)
      BY <1>1, <2>2, Fields DEF Event
    <3> HIDE DEF e
    <3> QED BY <3>1, OtherEvent
  <2> QED BY <2>1, <2>2 DEF FeedbackFails
<1>3. OthersGoOn(x) /\ job'[x].pc = "take back" /\ job'[x].done = job[x].done
  BY <1>1, GoesToKeeps DEF IInv, OthersGoOn, Phases
<1>4. job[x].done \subseteq Applied /\ Applied' = Applied
  BY <1>1 DEF AInv, Compiling, Marking, Applied
<1> QED BY <1>1, <1>2, <1>3, <1>4, KeepsPromises DEF IndexKept, OnlyNewNotes, Indexing, Marking

LEMMA FeedbackTakesBackAnnounces ==
  ASSUME IInv, AInv, NEW x \in Procs, FeedbackTakesBack(x) PROVE AInv'
<1>1. Exits(x) /\ UNCHANGED <<notes, db, ledger>> /\ job[x].pc = "take back"
  BY DEF FeedbackTakesBack, log, At
<1>2. job[x].todo \subseteq Pending
  BY <1>1 DEF IInv, Sound, Announcing
<1>3. \A p \in Ids \ job[x].todo : packet'[p] = packet[p]
  BY DEF FeedbackTakesBack
<1>4. Applied \subseteq Applied'
  BY <1>2, <1>3 DEF Applied, Pending
<1> QED BY <1>1, <1>4, SameLog, Ends

-----------------------------------------------------------------------------
LEMMA ApplyBeginAnnounces ==
  ASSUME IInv, AInv, NEW x \in Procs, NEW wanted \in SUBSET Ids, ApplyBegin(x, wanted)
  PROVE  AInv'
<1> DEFINE j == Job("apply", "wait", wanted, {})
<1>1. /\ Takes(x, {"maintenance"}) /\ Free("maintenance") /\ Becomes(x, j)
      /\ UNCHANGED <<packet, notes, db, ledger>>
  BY DEF ApplyBegin, files, log
<1>2. j \in Working /\ j.pc = "wait" /\ j.done = {}
  BY DEF Job, Working, Commands, Phases
<1>3. IndexKept(x)
  BY <1>1, TakesKeepsIndex DEF IInv, Locks
<1> HIDE DEF j
<1> QED BY <1>1, <1>2, <1>3, SameLog, GoesOn DEF OnlyNewNotes, Applied

LEMMA ApplyLocksAnnounces == ASSUME IInv, AInv, NEW x \in Procs, ApplyLocks(x) PROVE AInv'
<1> DEFINE j == [command |-> job[x].command, pc |-> "next", todo |-> job[x].todo \cap Pending,
                 done |-> job[x].done]
<1>1. /\ job[x].pc = "wait" /\ Takes(x, {"ledger"}) /\ Free("ledger")
      /\ UNCHANGED <<packet, notes, db, ledger>>
  BY DEF ApplyLocks, At, files, log
<1>2. Becomes(x, j)
  <2>1. [job[x] EXCEPT !.pc = "next", !.todo = @ \cap Pending] = j
    BY <1>1, Moves
  <2> QED BY <2>1 DEF ApplyLocks
<1>3. j \in Working
  BY <1>1, Fields DEF Working, Phases
<1>4. j.pc = "next" /\ j.done \subseteq Applied' /\ IndexKept(x)
  BY <1>1, TakesKeepsIndex DEF AInv, Compiling, Marking, Applied, IInv, Locks
<1> HIDE DEF j
<1> QED BY <1>1, <1>2, <1>3, <1>4, SameLog, GoesOn DEF OnlyNewNotes, Applied

LEMMA ApplyNoteAnnounces == ASSUME IInv, AInv, NEW x \in Procs, ApplyNote(x) PROVE AInv'
<1> PICK p \in job[x].todo :
        /\ notes' = notes \cup {p}
        /\ job' = [job EXCEPT ![x] = [job[x] EXCEPT !.pc = "rename", !.done = @ \cup {p}]]
  BY DEF ApplyNote, Becomes
<1> DEFINE j == [command |-> job[x].command, pc |-> "rename", todo |-> job[x].todo,
                 done |-> job[x].done \cup {p}]
<1>1. job[x].pc = "next" /\ UNCHANGED <<packet, db, lock, ledger>>
  BY DEF ApplyNote, At, log
<1>2. job' = [job EXCEPT ![x] = j]
  <2>1. [job[x] EXCEPT !.pc = "rename", !.done = @ \cup {p}] = j
    BY <1>1, Moves
  <2> QED BY <2>1
<1>3. job'[x] = j /\ OthersGoOn(x)
  BY <1>2 DEF IInv, TypeOK, OthersGoOn
<1>4. packet[p].place = "pending"
  BY <1>1 DEF IInv, Sound, Applying, Pending
<1>5. OnlyNewNotes /\ Applied' = Applied
  BY <1>1, <1>4 DEF OnlyNewNotes, Applied
<1>6. job[x].done \subseteq Applied
  BY <1>1 DEF AInv, Compiling, Marking
<1>7. Indexing(x)' /\ Marking(x)' /\ j.pc = "rename"
  BY <1>3, <1>5, <1>6 DEF Indexing, Marking
<1> HIDE DEF j
<1> QED BY <1>1, <1>3, <1>5, <1>7, SameLog, KeepsPromises DEF IndexKept

LEMMA ApplyRenameAnnounces == ASSUME IInv, AInv, NEW x \in Procs, ApplyRename(x) PROVE AInv'
<1> DEFINE j == [command |-> job[x].command, pc |-> "next", todo |-> job[x].todo \ job[x].done,
                 done |-> job[x].done]
           kept(p) == [packet[p] EXCEPT !.place = "applied"]
<1>1. /\ job[x].pc = "rename" /\ UNCHANGED <<notes, db, lock, ledger>>
      /\ packet' = [p \in Ids |-> IF p \in job[x].done THEN kept(p) ELSE packet[p]]
  BY DEF ApplyRename, At, log
<1>2. Becomes(x, j)
  <2>1. [job[x] EXCEPT !.pc = "next", !.todo = @ \ job[x].done] = j
    BY <1>1, Moves
  <2> QED BY <2>1 DEF ApplyRename
<1>3. j \in Working /\ j.pc = "next" /\ j.done = job[x].done
  BY <1>1, Fields DEF Working, Phases
<1>4. job[x].done \subseteq Noted /\ job[x].done \subseteq Ids
  BY <1>1, Fields DEF IInv, Sound, Applying
<1>5. \A p \in job[x].done : kept(p).place = "applied"
  <2> SUFFICES ASSUME NEW p \in job[x].done PROVE kept(p).place = "applied"
    OBVIOUS
  <2>1. packet[p] \in Packet
    BY <1>4, PacketFields DEF IInv, NotesHavePackets
  <2> QED BY <2>1 DEF Packet
<1> HIDE DEF j, kept
<1>6. Applied \subseteq Applied' /\ job[x].done \subseteq Applied'
  BY <1>1, <1>4, <1>5 DEF Applied
<1> QED BY <1>1, <1>2, <1>3, <1>6, SameLog, GoesOn DEF OnlyNewNotes, IndexKept

LEMMA ApplyAllDoneAnnounces == ASSUME IInv, AInv, NEW x \in Procs, ApplyAllDone(x) PROVE AInv'
<1>1. job[x].pc = "next" /\ UNCHANGED <<packet, notes, db, ledger>>
  BY DEF ApplyAllDone, At, files, log
<1>2. CASE Exits(x)
  BY <1>1, <1>2, SameLog, Ends DEF Applied
<1>3. CASE GoesTo(x, "rebuild") /\ UNCHANGED lock
  <2>1. OthersGoOn(x) /\ job'[x].pc = "rebuild" /\ job'[x].done = job[x].done
    BY <1>1, <1>3, GoesToKeeps DEF IInv, OthersGoOn, Phases
  <2>2. Marking(x)' /\ Applied' = Applied
    BY <1>1, <2>1 DEF AInv, Compiling, Marking, Applied
  <2> QED BY <1>1, <1>3, <2>1, <2>2, SameLog, KeepsPromises DEF IndexKept, OnlyNewNotes, Indexing
<1> QED BY <1>2, <1>3 DEF ApplyAllDone

LEMMA ApplyEventAnnounces == ASSUME IInv, AInv, NEW x \in Procs, ApplyEvent(x) PROVE AInv'
<1> PICK p \in job[x].done :
        /\ Appends([kind |-> "apply-update", id |-> p])
        /\ \/ Exits(x)
           \/ Becomes(x, [job[x] EXCEPT !.done = @ \ {p}]) /\ UNCHANGED lock
  BY DEF ApplyEvent
<1>1. job[x].pc = "announce applied" /\ UNCHANGED <<packet, notes, db>> /\ Applied' = Applied
  BY DEF ApplyEvent, At, files, Applied
<1>2. p \in Ids /\ job[x].done \subseteq Promised
  BY <1>1, Fields DEF Promised
<1>3. LogGrows
  BY <1>2, PromisedEvent
<1>4. CASE Exits(x)
  BY <1>1, <1>3, <1>4, Ends
<1>5. CASE Becomes(x, [job[x] EXCEPT !.done = @ \ {p}]) /\ UNCHANGED lock
  <2> DEFINE j == [command |-> job[x].command, pc |-> job[x].pc, todo |-> job[x].todo,
                   done |-> job[x].done \ {p}]
  <2>1. [job[x] EXCEPT !.done = @ \ {p}] = j
    <3> DEFINE w == [command |-> job[x].command, pc |-> job[x].pc, todo |-> job[x].todo,
                     done |-> job[x].done]
    <3>1. job[x] = w
      BY <1>1, Fields
    <3>2. [w EXCEPT !.done = @ \ {p}] = j
      OBVIOUS
    <3> QED BY <3>1, <3>2
  <2>2. job'[x] = j /\ OthersGoOn(x)
    BY <1>5, <2>1 DEF Becomes, IInv, TypeOK, OthersGoOn
  <2>3. job'[x].pc = "announce applied" /\ job'[x].done \subseteq job[x].done
    <3>1. j.pc = "announce applied" /\ j.done \subseteq job[x].done
      BY <1>1
    <3> HIDE DEF j
    <3> QED BY <2>2, <3>1
  <2>4. Marking(x)'
    BY <1>1, <2>3 DEF AInv, Compiling, Marking
  <2> HIDE DEF j
  <2> QED BY <1>1, <1>2, <1>3, <1>5, <2>2, <2>3, <2>4, KeepsPromises
          DEF IndexKept, OnlyNewNotes, Indexing
<1> QED BY <1>4, <1>5

LEMMA ApplyEventFailsAnnounces ==
  ASSUME IInv, AInv, NEW x \in Procs, ApplyEventFails(x) PROVE AInv'
<1>1. /\ job[x].pc = "announce applied" /\ Exits(x)
      /\ UNCHANGED <<packet, notes, db>> /\ Applied' = Applied
  BY DEF ApplyEventFails, At, files, Applied
<1>2. job[x].done \subseteq Ids /\ job[x].done \subseteq Promised
  BY <1>1, Fields DEF Promised
<1>3. LogGrows
  BY <1>2, TornLog, PromisedEvent DEF ApplyEventFails
<1> QED BY <1>1, <1>3, Ends

-----------------------------------------------------------------------------
LEMMA RebuildCommandAnnounces ==
  ASSUME IInv, AInv, NEW x \in Procs, RebuildCommand(x) PROVE AInv'
<1> DEFINE j == Job("rebuild", "rebuild", {}, {})
<1>1. /\ Takes(x, {"maintenance"}) /\ Free("maintenance") /\ Becomes(x, j)
      /\ UNCHANGED <<packet, notes, db, ledger>>
  BY DEF RebuildCommand, files, log
<1>2. j \in Working /\ j.pc = "rebuild" /\ j.done = {}
  BY DEF Job, Working, Commands, Phases
<1>3. IndexKept(x)
  BY <1>1, TakesKeepsIndex DEF IInv, Locks
<1> HIDE DEF j
<1> QED BY <1>1, <1>2, <1>3, SameLog, GoesOn DEF OnlyNewNotes, Applied

\* What is read under the lock is every note there is.
LEMMA RebuildLoadsAnnounces == ASSUME IInv, AInv, NEW x \in Procs, RebuildLoads(x) PROVE AInv'
<1> DEFINE j == [command |-> job[x].command, pc |-> "replace", todo |-> notes,
                 done |-> job[x].done]
<1>1. /\ job[x].pc = "rebuild" /\ Takes(x, {"index"}) /\ Free("index")
      /\ UNCHANGED <<packet, notes, db, ledger>>
  BY DEF RebuildLoads, At, files, log
<1>2. Becomes(x, j)
  <2>1. [job[x] EXCEPT !.pc = "replace", !.todo = notes] = j
    BY <1>1, Moves
  <2> QED BY <2>1 DEF RebuildLoads
<1>3. /\ job'[x].pc = "replace" /\ job'[x].todo = notes /\ job'[x].done = job[x].done
      /\ OthersGoOn(x)
  <2>1. job'[x] = j /\ OthersGoOn(x)
    BY <1>2 DEF Becomes, IInv, TypeOK, OthersGoOn
  <2> QED BY <2>1
<1>4. IndexKept(x) /\ Indexing(x)'
  BY <1>1, TakesKeepsIndex DEF IInv, Locks, Indexing
<1>5. Marking(x)' /\ Applied' = Applied
  BY <1>1, <1>3 DEF AInv, Compiling, Marking, Applied
<1> QED BY <1>1, <1>3, <1>4, <1>5, SameLog, KeepsPromises DEF OnlyNewNotes

\* The one step that replaces the database: nobody else is between reading and replacing.
LEMMA RebuildReplacesAnnounces ==
  ASSUME IInv, AInv, NEW x \in Procs, RebuildReplaces(x) PROVE AInv'
<1>1. /\ job[x].pc = "replace" /\ db' = job[x].todo /\ GoesTo(x, "manifest")
      /\ UNCHANGED <<packet, notes, lock, ledger>>
  BY DEF RebuildReplaces, At, log
<1>2. OthersGoOn(x) /\ job'[x].pc = "manifest" /\ job'[x].done = job[x].done
  BY <1>1, GoesToKeeps DEF IInv, OthersGoOn, Phases
<1>3. Promised' \subseteq Promised \cup job[x].done
  <2>1. LogGrows
    BY <1>1, SameLog
  <2> QED BY <1>2, <2>1 DEF Promised, OthersGoOn, LogGrows
<1>4. Indexing(x) /\ Marking(x) /\ Covering(x) /\ Applied' = Applied
  BY <1>1 DEF AInv, Compiling, Applied
<1>5. Promised' \subseteq Applied' /\ Promised' \cap notes' \subseteq db'
  BY <1>1, <1>3, <1>4 DEF AInv, Marking, Covering
<1>6. Compiling(x)'
  BY <1>1, <1>2, <1>4 DEF Compiling, Indexing, Marking, Covering
<1>7. ASSUME NEW y \in Procs, y # x PROVE Compiling(y)'
  <2>1. job'[y] = job[y] /\ job[y].pc # "replace"
    BY <1>1, <1>2, <1>4, <1>7 DEF OthersGoOn, AInv, Compiling, Indexing
  <2> QED BY <1>1, <1>4, <2>1 DEF AInv, Compiling, Indexing, Marking, Covering
<1> QED BY <1>1, <1>5, <1>6, <1>7 DEF AInv

LEMMA RebuildManifestAnnounces ==
  ASSUME IInv, AInv, NEW x \in Procs, RebuildManifest(x) PROVE AInv'
<1>1. job[x].pc = "manifest" /\ UNCHANGED <<packet, notes, db, ledger>> /\ Applied' = Applied
  BY DEF RebuildManifest, At, log, Applied
<1>2. CASE Exits(x)
  BY <1>1, <1>2, SameLog, Ends
<1>3. CASE GoesTo(x, "announce applied") /\ lock' = [lock EXCEPT !["index"] = NoProc]
  <2>1. /\ OthersGoOn(x) /\ job'[x].pc = "announce applied" /\ job'[x].done = job[x].done
    BY <1>1, <1>3, GoesToKeeps DEF IInv, OthersGoOn, Phases
  <2>2. lock["index"] = x
    BY <1>1 DEF AInv, Compiling, Indexing
  <2>3. job[x].done \subseteq Promised
    BY <1>1, Fields DEF Promised
  <2>4. Indexing(x)' /\ Marking(x)' /\ IndexKept(x)
    BY <1>1, <2>1, <2>2 DEF AInv, Compiling, Indexing, Marking, IndexKept
  <2> QED BY <1>1, <2>1, <2>3, <2>4, SameLog, KeepsPromises DEF OnlyNewNotes
<1> QED BY <1>2, <1>3 DEF RebuildManifest

-----------------------------------------------------------------------------
LEMMA PruneAnnounces == ASSUME IInv, AInv, NEW x \in Procs, Prune(x) PROVE AInv'
<1> DEFINE plans == {p \in notes : ~packet[p].content.signal}
           j == Job("prune", "archive", plans, {})
<1>1. Becomes(x, j) /\ UNCHANGED <<packet, notes, db, ledger, lock>>
  BY DEF Prune, files, log
<1>2. j \in Working /\ j.pc = "archive" /\ j.done = {}
  BY DEF Job, Working, Commands, Phases, IInv, TypeOK
<1> HIDE DEF j
<1> QED BY <1>1, <1>2, SameLog, GoesOn DEF IndexKept, OnlyNewNotes, Applied

LEMMA PruneMovesAnnounces == ASSUME IInv, AInv, NEW x \in Procs, PruneMoves(x) PROVE AInv'
<1> PICK p \in job[x].todo \cap notes :
        /\ notes' = notes \ {p}
        /\ Becomes(x, [job[x] EXCEPT !.todo = @ \ {p},
                                     !.pc = IF job[x].todo = {p} THEN "rebuild" ELSE "archive"])
  BY DEF PruneMoves
<1> DEFINE pc == IF job[x].todo = {p} THEN "rebuild" ELSE "archive"
           j == [command |-> job[x].command, pc |-> pc, todo |-> job[x].todo \ {p},
                 done |-> job[x].done]
<1>1. job[x].pc = "archive" /\ UNCHANGED <<packet, db, lock, ledger>>
  BY DEF PruneMoves, At, log
<1>2. Becomes(x, j)
  <2>1. [job[x] EXCEPT !.todo = @ \ {p}, !.pc = pc] = j
    BY <1>1, Moves
  <2> QED BY <2>1
<1>3. j \in Working /\ j.pc \in {"rebuild", "archive"} /\ j.done \subseteq Applied
  BY <1>1, Fields DEF Working, Phases, AInv, Compiling, Marking
<1> HIDE DEF j
<1> QED BY <1>1, <1>2, <1>3, SameLog, GoesOn DEF IndexKept, OnlyNewNotes, Applied

\* The steps that append another event, or end.
LEMMA OthersAnnounce ==
  ASSUME IInv, AInv, NEW x \in Procs,
         \/ Gate(x) \/ (\E p \in Ids : Preview(x, p)) \/ FeedbackKeepsPacket(x)
         \/ ApplyRefuses(x) \/ RebuildBusy(x) \/ PruneMisses(x) \/ Crash(x)
  PROVE  AInv'
<1>1. UNCHANGED <<packet, notes, db>> /\ Applied' = Applied
  BY DEF Gate, Preview, FeedbackKeepsPacket, ApplyRefuses, RebuildBusy, PruneMisses, Crash, files,
         Applied
<1>2. LogGrows
  <2>1. CASE ledger' = ledger
    BY <2>1, SameLog
  <2>2. CASE Tears
    BY <2>2, TornLog
  <2>3. CASE Appends([kind |-> "gate"])
    <3> DEFINE e == [kind |-> "gate"]
    <3>1. e \in Event /\ e.kind # "apply-update" /\ Appends(e)
      BY <2>3 DEF Event
    <3> HIDE DEF e
    <3> QED BY <3>1, OtherEvent
  <2>4. ASSUME NEW p \in Ids, Appends([kind |-> "preview-update", id |-> p]) PROVE LogGrows
    <3> DEFINE e == [kind |-> "preview-update", id |-> p]
    <3>1. e \in Event /\ e.kind # "apply-update" /\ Appends(e)
      BY <2>4 DEF Event
    <3> HIDE DEF e
    <3> QED BY <3>1, OtherEvent
  <2> QED BY <2>1, <2>2, <2>3, <2>4
          DEF Gate, Preview, FeedbackKeepsPacket, ApplyRefuses, RebuildBusy, PruneMisses, Crash, log
<1>3. CASE Exits(x)
  BY <1>1, <1>2, <1>3, Ends
<1>4. CASE UNCHANGED <<lock, job>>
  BY <1>1, <1>2, <1>4, AppendsAlone
<1> QED BY <1>3, <1>4
        DEF Gate, Preview, FeedbackKeepsPacket, ApplyRefuses, RebuildBusy, PruneMisses, Crash

LEMMA NextAInv == IInv /\ AInv /\ [Next]_vars => AInv'
<1> SUFFICES ASSUME IInv, AInv, [Next]_vars PROVE AInv'
  OBVIOUS
<1>1. ASSUME NEW x \in Procs, Begin(x) PROVE AInv'
  <2>1. Ids \in SUBSET Ids /\ \A p \in Ids : {p} \in SUBSET Ids
    OBVIOUS
  <2> QED BY <1>1, <2>1, OthersAnnounce, PruneAnnounces, RebuildCommandAnnounces,
             ApplyBeginAnnounces, LearnAnnounces, FeedbackAnnounces DEF Begin
<1>2. ASSUME NEW x \in Procs, Step(x) PROVE AInv'
  BY <1>2, FeedbackEventAnnounces, FeedbackTakesBackAnnounces, ApplyLocksAnnounces,
     OthersAnnounce, ApplyNoteAnnounces, ApplyRenameAnnounces, ApplyAllDoneAnnounces,
     ApplyEventAnnounces, RebuildLoadsAnnounces, RebuildReplacesAnnounces,
     RebuildManifestAnnounces, PruneMovesAnnounces DEF Step
<1>3. ASSUME NEW x \in Procs,
             FeedbackFails(x) \/ FeedbackKeepsPacket(x) \/ ApplyEventFails(x) \/ Crash(x)
      PROVE  AInv'
  BY <1>3, FeedbackFailsAnnounces, ApplyEventFailsAnnounces, OthersAnnounce
<1>4. CASE UNCHANGED vars
  BY <1>4, SameLog, AppendsAlone DEF vars
<1> QED BY <1>1, <1>2, <1>3, <1>4 DEF Next

\* As long as its note is there, an applied packet whose apply-update event was written is in the
\* index, whoever rebuilds, prunes, fails or is killed (apply, rebuild under index.lock).
THEOREM AnnouncedIsCompiled == Spec => []AnnouncedRulesAreCompiled
<1>1. IInv /\ AInv => AnnouncedRulesAreCompiled
  BY DEF IInv, TypeOK, AInv, Promised, Announced, AnnouncedRulesAreCompiled
<1> QED BY <1>1, Invariance, InitAInv, NextAInv, PTL DEF Spec
=============================================================================
