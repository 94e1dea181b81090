-------------------------- MODULE LearningLifecycle --------------------------
(***************************************************************************)
(* From a correction to a rule: update packets, the notes they become, the *)
(* index compiled from the notes, and the ledger that accounts for it      *)
(* (learning.rs, index.rs rebuild, util.rs LockedJsonl), run by processes  *)
(* that may be killed after any durable effect.                            *)
(*                                                                         *)
(* A packet's rule is "valid", "invalid" (validate_decision_rule refuses   *)
(* it) or "none"; signal is what is_decision_signal says of its note.      *)
(* The update-apply lock is only ever taken under the maintenance lock,    *)
(* and is part of it here.  A run is active, so lifecycle events are kept. *)
(***************************************************************************)
EXTENDS Integers, FiniteSets, Sequences

CONSTANTS Procs, Ids, NoProc,
          Contents,    \* what packets are written: records [source, rule, signal]
          MaxEvents,   \* gate and preview events are added below this length
          MaxCrashes   \* processes killed, and appends and removals that fail

Sources == {"feedback", "decision", "agentmemory", "interview"}

ASSUME LifecycleConstants ==
    /\ Contents \subseteq [source: Sources, rule: {"valid", "invalid", "none"}, signal: BOOLEAN]
    /\ NoProc \notin Procs
    /\ MaxEvents \in Nat /\ MaxCrashes \in Nat

VARIABLES packet,     \* packet[p]: the file in pending-update-packets
          notes,      \* packets that have a note in 60-decision-examples
          archived,   \* notes moved to archived-knowledge-imports
          db,         \* the notes compiled into brainmap.sqlite
          manifest,   \* how many of them index-manifest.json counts
          ledger,     \* decision-ledger.jsonl, by lines
          open,       \* its last line has no end
          lock,       \* holder of each lock
          job,        \* what each process is doing
          acked,      \* packets whose creation was reported
          crashes

vars == <<packet, notes, archived, db, manifest, ledger, open, lock, job, acked, crashes>>
files == <<packet, notes, archived, db, manifest>>
log == <<ledger, open>>

Locks == {"maintenance", "ledger", "index"}
Packet == [content: Contents, place: {"pending", "applied", "removed"}]
NoPacket == [place |-> "none"]
Broken == [kind |-> "broken"]
Event == [kind: {"learn-feedback", "preview-update", "apply-update"}, id: Ids]
         \cup {[kind |-> "gate"]}
Idle == [pc |-> "idle"]
Job(command, pc, todo, done) == [command |-> command, pc |-> pc, todo |-> todo, done |-> done]

Init ==
    /\ packet = [p \in Ids |-> NoPacket]
    /\ notes = {} /\ archived = {} /\ db = {} /\ manifest = 0
    /\ ledger = <<>> /\ open = FALSE
    /\ lock = [l \in Locks |-> NoProc]
    /\ job = [x \in Procs |-> Idle]
    /\ acked = {} /\ crashes = 0

-----------------------------------------------------------------------------
At(x, pc) == job[x].pc = pc
Pending == {p \in Ids : packet[p].place = "pending"}
Free(l) == lock[l] = NoProc
Becomes(x, next) == job' = [job EXCEPT ![x] = next]
GoesTo(x, pc) == job' = [job EXCEPT ![x].pc = pc]
Takes(x, ls) == lock' = [l \in Locks |-> IF l \in ls THEN x ELSE lock[l]]
Exits(x) ==
    /\ Becomes(x, Idle)
    /\ lock' = [l \in Locks |-> IF lock[l] = x THEN NoProc ELSE lock[l]]

\* LockedJsonl::append: a line written after one without an end is lost in it.
Appends(event) ==
    /\ ledger' = IF open THEN ledger ELSE Append(ledger, event)
    /\ open' = FALSE

\* An append cut short: part of a line, without its end.
Tears ==
    /\ ledger' = IF open THEN ledger ELSE Append(ledger, Broken)
    /\ open' = TRUE

\* decision_context_from_bytes: the lines are read from the last one and each must parse.
DecisionReadable ==
    \E i \in DOMAIN ledger :
        /\ ledger[i].kind = "gate"
        /\ \A j \in DOMAIN ledger : j > i => ledger[j] # Broken

-----------------------------------------------------------------------------
\* One command that only appends, under the ledger lock.
Gate(x) ==
    /\ At(x, "idle") /\ Free("ledger") /\ Len(ledger) < MaxEvents
    /\ Appends([kind |-> "gate"])
    /\ UNCHANGED <<files, lock, job, acked, crashes>>

Preview(x, p) ==
    /\ At(x, "idle") /\ Free("ledger") /\ Len(ledger) < MaxEvents
    /\ p \in Pending
    /\ Appends([kind |-> "preview-update", id |-> p])
    /\ UNCHANGED <<files, lock, job, acked, crashes>>

\* write_packet
Writes(p, content) ==
    /\ packet[p] = NoPacket
    /\ packet' = [packet EXCEPT ![p] = [content |-> content, place |-> "pending"]]

\* learn_decision and build_decision_engine: a packet, without lock or event.
Learn(x, p) ==
    /\ At(x, "idle")
    /\ \E content \in Contents : content.source # "feedback" /\ Writes(p, content)
    /\ acked' = acked \cup {p}
    /\ UNCHANGED <<notes, archived, db, manifest, log, lock, job, crashes>>

\* learn_feedback: the packet first, then its event.
Feedback(x, p) ==
    /\ At(x, "idle") /\ Free("ledger") /\ DecisionReadable
    /\ \E content \in Contents : content.source = "feedback" /\ Writes(p, content)
    /\ Takes(x, {"ledger"})
    /\ Becomes(x, Job("feedback", "announce", {p}, {}))
    /\ UNCHANGED <<notes, archived, db, manifest, log, acked, crashes>>

FeedbackEvent(x) ==
    /\ At(x, "announce")
    /\ \E p \in job[x].todo :
          /\ Appends([kind |-> "learn-feedback", id |-> p])
          /\ acked' = acked \cup {p}
    /\ Exits(x)
    /\ UNCHANGED <<files, crashes>>

\* Mutant: the packet is taken back after the lock is given back.
FeedbackFailsUnlocked(x) ==
    /\ At(x, "announce") /\ crashes < MaxCrashes
    /\ crashes' = crashes + 1
    /\ Tears
    /\ GoesTo(x, "take back")
    /\ lock' = [lock EXCEPT !["ledger"] = NoProc]
    /\ UNCHANGED <<files, acked>>

\* The append fails, in the write or in the sync after it: the packet is taken back.
FeedbackFails(x) ==
    /\ At(x, "announce") /\ crashes < MaxCrashes
    /\ crashes' = crashes + 1
    /\ \/ Tears
       \/ \E p \in job[x].todo : Appends([kind |-> "learn-feedback", id |-> p])
    /\ GoesTo(x, "take back")
    /\ UNCHANGED <<files, lock, acked>>

FeedbackTakesBack(x) ==
    /\ At(x, "take back")
    /\ packet' = [p \in Ids |-> IF p \in job[x].todo THEN [packet[p] EXCEPT !.place = "removed"]
                                ELSE packet[p]]
    /\ Exits(x)
    /\ UNCHANGED <<notes, archived, db, manifest, log, acked, crashes>>

\* The removal fails, and nobody is told of it: the packet stays.
FeedbackKeepsPacket(x) ==
    /\ At(x, "take back") /\ crashes < MaxCrashes
    /\ crashes' = crashes + 1
    /\ Exits(x)
    /\ UNCHANGED <<files, log, acked>>

-----------------------------------------------------------------------------
\* apply and apply_update_by_id: maintenance lock at once, ledger lock when it comes.
ApplyBegin(x, wanted) ==
    /\ At(x, "idle") /\ Free("maintenance")
    /\ Takes(x, {"maintenance"})
    /\ Becomes(x, Job("apply", "wait", wanted, {}))
    /\ UNCHANGED <<files, log, acked, crashes>>

ApplyLocks(x) ==
    /\ At(x, "wait") /\ Free("ledger")
    /\ Takes(x, {"ledger"})
    /\ Becomes(x, [job[x] EXCEPT !.pc = "next", !.todo = @ \cap Pending])
    /\ UNCHANGED <<files, log, acked, crashes>>

Refused(p) == packet[p].content.rule = "invalid"

\* write_applied_packet refuses a rule that does not validate, and apply ends there.
ApplyRefuses(x) ==
    /\ At(x, "next")
    /\ \E p \in job[x].todo : Refused(p)
    /\ Exits(x)
    /\ UNCHANGED <<files, log, acked, crashes>>

\* Mutant: the packet is marked before its note is written.
ApplyMarksFirst(x) ==
    /\ At(x, "next")
    /\ \E p \in job[x].todo :
          /\ ~Refused(p)
          /\ packet' = [packet EXCEPT ![p].place = "applied"]
          /\ Becomes(x, Job("apply", "rename", {p} \cup job[x].todo, job[x].done \cup {p}))
    /\ UNCHANGED <<notes, archived, db, manifest, log, lock, acked, crashes>>

ApplyNote(x) ==
    /\ At(x, "next")
    /\ \E p \in job[x].todo :
          /\ ~Refused(p)
          /\ notes' = notes \cup {p}
          /\ Becomes(x, [job[x] EXCEPT !.pc = "rename", !.done = @ \cup {p}])
    /\ UNCHANGED <<packet, archived, db, manifest, log, lock, acked, crashes>>

ApplyRename(x) ==
    /\ At(x, "rename")
    /\ packet' = [p \in Ids |-> IF p \in job[x].done THEN [packet[p] EXCEPT !.place = "applied"]
                                ELSE packet[p]]
    /\ Becomes(x, [job[x] EXCEPT !.pc = "next", !.todo = @ \ job[x].done])
    /\ UNCHANGED <<notes, archived, db, manifest, log, lock, acked, crashes>>

ApplyAllDone(x) ==
    /\ At(x, "next") /\ job[x].todo = {}
    /\ IF job[x].done = {} THEN Exits(x) ELSE GoesTo(x, "rebuild") /\ UNCHANGED lock
    /\ UNCHANGED <<files, log, acked, crashes>>

ApplyEvent(x) ==
    /\ At(x, "announce applied")
    /\ \E p \in job[x].done :
          /\ Appends([kind |-> "apply-update", id |-> p])
          /\ IF job[x].done = {p} THEN Exits(x)
             ELSE Becomes(x, [job[x] EXCEPT !.done = @ \ {p}]) /\ UNCHANGED lock
    /\ UNCHANGED <<files, acked, crashes>>

\* The append fails: apply ends, and the packets stay applied.
ApplyEventFails(x) ==
    /\ At(x, "announce applied") /\ crashes < MaxCrashes
    /\ crashes' = crashes + 1
    /\ Tears \/ \E p \in job[x].done : Appends([kind |-> "apply-update", id |-> p])
    /\ Exits(x)
    /\ UNCHANGED <<files, acked>>

-----------------------------------------------------------------------------
\* rebuild: load the notes, replace the database, write the manifest, under index.lock.
RebuildCommand(x) ==
    /\ At(x, "idle") /\ Free("maintenance")
    /\ Takes(x, {"maintenance"})
    /\ Becomes(x, Job("rebuild", "rebuild", {}, {}))
    /\ UNCHANGED <<files, log, acked, crashes>>

\* Mutant: the notes are read before the lock is had.
RebuildLoadsUnlocked(x) ==
    /\ At(x, "rebuild")
    /\ Becomes(x, [job[x] EXCEPT !.pc = "replace", !.todo = notes])
    /\ UNCHANGED <<files, log, lock, acked, crashes>>

RebuildLoads(x) ==
    /\ At(x, "rebuild") /\ Free("index")
    /\ Takes(x, {"index"})
    /\ Becomes(x, [job[x] EXCEPT !.pc = "replace", !.todo = notes])
    /\ UNCHANGED <<files, log, acked, crashes>>

RebuildBusy(x) ==
    /\ At(x, "rebuild") /\ ~Free("index")
    /\ Exits(x)
    /\ UNCHANGED <<files, log, acked, crashes>>

\* Mutant: an index that has notes is kept.
RebuildKeepsFilled(x) ==
    /\ At(x, "replace")
    /\ db' = IF db = {} THEN job[x].todo ELSE db
    /\ GoesTo(x, "manifest")
    /\ UNCHANGED <<packet, notes, archived, manifest, log, lock, acked, crashes>>

RebuildReplaces(x) ==
    /\ At(x, "replace")
    /\ db' = job[x].todo
    /\ GoesTo(x, "manifest")
    /\ UNCHANGED <<packet, notes, archived, manifest, log, lock, acked, crashes>>

\* The caller goes on: apply announces what it applied, the others end.
RebuildManifest(x) ==
    /\ At(x, "manifest")
    /\ manifest' = Cardinality(job[x].todo)
    /\ IF job[x].command = "apply"
       THEN GoesTo(x, "announce applied") /\ lock' = [lock EXCEPT !["index"] = NoProc]
       ELSE Exits(x)
    /\ UNCHANGED <<packet, notes, archived, db, log, acked, crashes>>

\* status: the manifest counts the notes of the database.
StatusValid == manifest = Cardinality(db)

-----------------------------------------------------------------------------
\* prune_imports: without lock until its rebuild; every note of a packet is looked at.
Prune(x) ==
    /\ At(x, "idle")
    /\ LET plans == {p \in notes : ~packet[p].content.signal} IN
          /\ plans # {}
          /\ Becomes(x, Job("prune", "archive", plans, {}))
    /\ UNCHANGED <<files, log, lock, acked, crashes>>

PruneMoves(x) ==
    /\ At(x, "archive")
    /\ \E p \in job[x].todo \cap notes :
          /\ notes' = notes \ {p}
          /\ archived' = archived \cup {p}
          /\ Becomes(x, [job[x] EXCEPT !.todo = @ \ {p},
                                       !.pc = IF job[x].todo = {p} THEN "rebuild" ELSE "archive"])
    /\ UNCHANGED <<packet, db, manifest, log, lock, acked, crashes>>

\* Another prune was faster: the rename fails.
PruneMisses(x) ==
    /\ At(x, "archive")
    /\ \E p \in job[x].todo : p \notin notes
    /\ Exits(x)
    /\ UNCHANGED <<files, log, acked, crashes>>

-----------------------------------------------------------------------------
\* A process is killed; an append it was in may leave part of its line.
Crash(x) ==
    /\ ~At(x, "idle") /\ crashes < MaxCrashes
    /\ crashes' = crashes + 1
    /\ Exits(x)
    /\ \/ UNCHANGED log
       \/ /\ job[x].pc \in {"announce", "announce applied"}
          /\ Tears
    /\ UNCHANGED <<files, acked>>

Step(x) ==
    \/ FeedbackEvent(x) \/ FeedbackTakesBack(x)
    \/ ApplyLocks(x) \/ ApplyRefuses(x) \/ ApplyNote(x) \/ ApplyRename(x)
    \/ ApplyAllDone(x) \/ ApplyEvent(x)
    \/ RebuildLoads(x) \/ RebuildBusy(x) \/ RebuildReplaces(x) \/ RebuildManifest(x)
    \/ PruneMoves(x) \/ PruneMisses(x)

Begin(x) ==
    \/ Gate(x) \/ Prune(x) \/ RebuildCommand(x) \/ ApplyBegin(x, Ids)
    \/ \E p \in Ids : Preview(x, p) \/ Learn(x, p) \/ Feedback(x, p) \/ ApplyBegin(x, {p})

Next == \E x \in Procs :
    \/ Begin(x) \/ Step(x)
    \/ FeedbackFails(x) \/ FeedbackKeepsPacket(x) \/ ApplyEventFails(x) \/ Crash(x)

Spec == Init /\ [][Next]_vars

-----------------------------------------------------------------------------
\* A reported correction is somewhere at every instant, whatever is killed: as a pending
\* packet, as a note, or in the archive (write_applied_packet, prune_imports).
CorrectionsAreNeverLost ==
    \A p \in acked : packet[p].place = "pending" \/ p \in notes \cup archived

\* A correction that was taken back, because its event could not be appended, becomes no note
\* and no rule, no apply has it on its list, and its creation was never reported.  A packet
\* whose removal fails, or whose feedback is killed first, stays pending like any other
\* (learn_feedback).
WithdrawnFeedbackIsInert ==
    \A p \in Ids : packet[p].place = "removed" =>
        /\ p \notin notes \cup archived \cup db \cup acked
        /\ \A x \in Procs : job[x].pc \in {"next", "rename"} => p \notin job[x].todo

\* An apply-update event is written after the rebuild of its packet's note, and no
\* rebuild that read the notes earlier can replace the index later: as long as the note
\* is there the index has it (apply, rebuild under index.lock).
AnnouncedRulesAreCompiled ==
    \A i \in DOMAIN ledger :
        ledger[i].kind = "apply-update" /\ ledger[i].id \in notes => ledger[i].id \in db
=============================================================================
