----------------------------- MODULE HarnessInstall -----------------------------
(***************************************************************************)
(* Installing and removing the Codex adapter (install.rs): four files that *)
(* belong to Brainmap, to the user, or to both, are merged one after the   *)
(* other, without a lock and without a rollback, by whatever executable    *)
(* runs the installer and for whatever vault it is given.  The doctor says *)
(* whether what is there is what that executable would install.            *)
(*                                                                         *)
(* What a user wrote into a file is a number that every edit increases.    *)
(* Both hook events are changed alike in one write, so one stands for both.*)
(***************************************************************************)
EXTENDS Naturals, Sequences, SequencesExt, FiniteSets

CONSTANTS Processes, Execs, Vaults,
          Found,         \* what may be there before: functions from Items
          MaxRuns,       \* installations and removals: a bound
          MaxEdits,      \* edits of the user: a bound
          MaxKills,      \* runs that are killed: a bound
          Plain,         \* the command "brainmap", found on PATH
          Nil

Order == <<"skill", "agents", "config", "hooks">>
Items == {Order[i] : i \in 1..Len(Order)}

VARIABLES file,      \* the four files, Nil where there is none
          kept,      \* the contents backups of a file hold
          edits,     \* what the user wrote last into a file
          beside,    \* files the user edited between a backup and the write after it
          run,       \* what an installer is doing
          runs, edited, kills

harnessVars == <<file, kept, edits, beside, run, runs, edited, kills>>

-----------------------------------------------------------------------------
\* A hook command: an executable and the vault it is given, or Nil in the form without one.
Command(x, v) == <<x, v>>
Commands == (Execs \cup {Plain}) \X (Vaults \cup {Nil})

\* What each file may hold: the user's part, and Brainmap's.
Skills == {"shim", "edited"}
Agents == [user : Nat, block : BOOLEAN]
Configs == [user : Nat, block : {Nil} \cup [exec : Execs \cup {Plain}, vault : Vaults],
            unmanaged : BOOLEAN]
HookFiles == [user : Nat, commands : Seq(Commands)]

FilesTyped(files) ==
    /\ DOMAIN files = Items
    /\ files["skill"] \in Skills \cup {Nil}
    /\ files["agents"] \in Agents \cup {Nil}
    /\ files["config"] \in Configs \cup {Nil}
    /\ files["hooks"] \in HookFiles \cup {Nil}

\* What an instance has to assume.
HarnessConstants ==
    /\ {MaxRuns, MaxEdits, MaxKills} \subseteq Nat
    /\ \A files \in Found : FilesTyped(files)
    /\ Nil \notin Processes /\ Nil \notin Execs \cup {Plain} /\ Nil \notin Skills
    /\ Nil \notin Agents /\ Nil \notin Configs /\ Nil \notin HookFiles
    /\ Nil \notin [exec : Execs \cup {Plain}, vault : Vaults]

-----------------------------------------------------------------------------
\* Mutant: the form without a vault is forgotten.
OwnCommand(r) == {Command(r.exec, r.vault)}

\* The commands an installation takes for its own: the form without a vault for this
\* executable, for "brainmap" and for the executable the configuration named when the run was
\* planned, and the form with this vault for this executable only.
ManagedCommands(r) ==
    {Command(x, Nil) : x \in {r.exec, Plain, r.previous} \ {Nil}} \cup {Command(r.exec, r.vault)}

\* The commands of others, in their order.
Hooks(r, commands) ==
    LET upTo[n \in 0..Len(commands)] ==
            IF n = 0 THEN <<>>
            ELSE IF commands[n] \in ManagedCommands(r) THEN upTo[n - 1]
            ELSE Append(upTo[n - 1], commands[n])
    IN upTo[Len(commands)]

\* merge_managed_toml: a table of the user's own is not replaced.
Refuses(r, item, f) ==
    \/ item = "skill" /\ f # Nil /\ f # "shim"
    \/ item = "config" /\ f # Nil /\ f.unmanaged /\ r.sort = "install"

Empty(item) ==
    CASE item = "agents" -> [user |-> 0, block |-> FALSE]
      [] item = "config" -> [user |-> 0, block |-> Nil, unmanaged |-> FALSE]
      [] item = "hooks" -> [user |-> 0, commands |-> <<>>]

\* The contents of a file with the part of Brainmap's replaced, or taken out; a text without
\* contents is no file.
Merged(r, item, f) ==
    LET old == IF f = Nil THEN Empty(item) ELSE f
        block == IF r.sort = "install" THEN [exec |-> r.exec, vault |-> r.vault] ELSE Nil
        own == IF r.sort = "install" THEN <<Command(r.exec, r.vault)>> ELSE <<>>
        new == CASE item = "agents" -> [old EXCEPT !.block = r.sort = "install"]
                 [] item = "config" -> [old EXCEPT !.block = block]
                 [] item = "hooks" -> [old EXCEPT !.commands = Hooks(r, @) \o own]
    IN IF item # "hooks" /\ new = Empty(item) THEN Nil ELSE new

Desired(r, item, f) ==
    IF item = "skill" THEN (IF r.sort = "install" THEN "shim" ELSE Nil) ELSE Merged(r, item, f)

-----------------------------------------------------------------------------
NoRun == [pc |-> "idle"]

HarnessInit ==
    /\ file \in Found
    /\ kept = [i \in Items |-> {}]
    /\ edits = [i \in Items |-> 0]
    /\ beside = {}
    /\ run = [p \in Processes |-> NoRun]
    /\ runs = 0 /\ edited = 0 /\ kills = 0

Item(p) == Order[run[p].i]
RunGoes(p, pc) == run' = [run EXCEPT ![p].pc = pc]

\* The next file, or the end of the run.
ItemDone(r) == IF r.i = Len(Order) THEN [r EXCEPT !.pc = "done"]
             ELSE [r EXCEPT !.pc = "item", !.i = @ + 1]

\* A run that does not know that somebody else wrote meanwhile.
Disturbed(p) ==
    [q \in Processes |-> IF q # p /\ run[q].pc # "idle" THEN [run[q] EXCEPT !.alone = FALSE]
                         ELSE run[q]]

\* plan: the executable the configuration names is remembered.
StartRun(p) ==
    /\ run[p].pc \in {"idle", "done", "refused"} /\ runs < MaxRuns
    /\ runs' = runs + 1
    /\ \E sort \in {"install", "uninstall"}, x \in Execs, v \in Vaults :
          run' = [run EXCEPT ![p] =
                     [pc |-> "preflight", i |-> 1, sort |-> sort, exec |-> x, vault |-> v,
                      previous |-> IF file["config"] # Nil /\ file["config"].block # Nil
                                   THEN file["config"].block.exec ELSE Nil,
                      wants |-> Nil, alone |-> TRUE]]
    /\ UNCHANGED <<file, kept, edits, beside, edited, kills>>

\* Every file is looked at before the first is changed. A dry run ends here.
PreflightItems(p) ==
    /\ run[p].pc = "preflight"
    /\ RunGoes(p, IF \E i \in Items : Refuses(run[p], i, file[i]) THEN "refused" ELSE "item")
    /\ UNCHANGED <<file, kept, edits, beside, runs, edited, kills>>

\* install and uninstall of one file: read and merge, back up, write. A removal backs up
\* before it reads, and writes what was there before too.
BeginItem(p) ==
    /\ run[p].pc = "item"
    /\ LET i == Item(p)
           f == file[i]
           r == run[p]
       IN \/ r.sort = "uninstall" /\ f = Nil /\ run' = [run EXCEPT ![p] = ItemDone(@)]
          \/ /\ r.sort = "uninstall" /\ f # Nil
             /\ RunGoes(p, IF i = "skill" /\ Refuses(r, i, f) THEN "refused" ELSE "backup")
          \/ /\ r.sort = "install"
             /\ IF Refuses(r, i, f) THEN RunGoes(p, "refused")
                ELSE IF f = Desired(r, i, f) THEN run' = [run EXCEPT ![p] = ItemDone(@)]
                ELSE run' = [run EXCEPT ![p].wants = Desired(r, i, f), ![p].pc = "backup"]
    /\ UNCHANGED <<file, kept, edits, beside, runs, edited, kills>>

\* Mutant: an installation keeps a backup of the hooks only.
BackUpHooks(p) ==
    /\ run[p].pc = "backup"
    /\ kept' = IF file[Item(p)] # Nil /\ (Item(p) = "hooks" \/ run[p].sort = "uninstall")
               THEN [kept EXCEPT ![Item(p)] = @ \cup {file[Item(p)]}] ELSE kept
    /\ RunGoes(p, IF run[p].sort = "install" THEN "write" ELSE "merge")
    /\ UNCHANGED <<file, edits, beside, runs, edited, kills>>

\* An installation looks again whether there is a file to back up, a removal does not.
BackUpItem(p) ==
    /\ run[p].pc = "backup"
    /\ IF file[Item(p)] = Nil
       THEN /\ UNCHANGED kept
            /\ RunGoes(p, IF run[p].sort = "install" THEN "write" ELSE "refused")
       ELSE /\ kept' = [kept EXCEPT ![Item(p)] = @ \cup {file[Item(p)]}]
            /\ RunGoes(p, IF run[p].sort = "install" THEN "write" ELSE "merge")
    /\ UNCHANGED <<file, edits, beside, runs, edited, kills>>

MergeItem(p) ==
    /\ run[p].pc = "merge"
    /\ IF file[Item(p)] = Nil /\ Item(p) \notin {"skill", "hooks"} THEN RunGoes(p, "refused")
       ELSE run' = [run EXCEPT ![p].wants = Desired(run[p], Item(p), file[Item(p)]),
                               ![p].pc = "write"]
    /\ UNCHANGED <<file, kept, edits, beside, runs, edited, kills>>

\* A file that somebody else removed cannot be removed.
WriteItem(p) ==
    /\ run[p].pc = "write"
    /\ IF run[p].wants = Nil /\ file[Item(p)] = Nil THEN RunGoes(p, "refused") /\ UNCHANGED file
       ELSE /\ file' = [file EXCEPT ![Item(p)] = run[p].wants]
            /\ run' = [Disturbed(p) EXCEPT ![p] = ItemDone(@)]
    /\ UNCHANGED <<kept, edits, beside, runs, edited, kills>>

\* Nothing is undone.
KillRun(p) ==
    /\ run[p].pc \in {"item", "backup", "merge", "write"} /\ kills < MaxKills
    /\ kills' = kills + 1
    /\ run' = [run EXCEPT ![p] = NoRun]
    /\ UNCHANGED <<file, kept, edits, beside, runs, edited>>

-----------------------------------------------------------------------------
\* The user edits a text file Brainmap has a part of, and leaves that part alone.
Edit(i) ==
    /\ edited < MaxEdits /\ i \in Items \ {"skill"}
    /\ edited' = edited + 1
    /\ edits' = [edits EXCEPT ![i] = edited + 1]
    /\ file' = [file EXCEPT ![i] = [(IF @ = Nil THEN Empty(i) ELSE @) EXCEPT !.user = edited + 1]]
    /\ beside' = IF \E p \in Processes : run[p].pc = "write" /\ Item(p) = i THEN beside \cup {i}
                 ELSE beside \ {i}
    /\ run' = Disturbed(Nil)
    /\ UNCHANGED <<kept, runs, kills>>

HarnessInstaller(p) ==
    StartRun(p) \/ PreflightItems(p) \/ BeginItem(p) \/ BackUpItem(p) \/ MergeItem(p)
        \/ WriteItem(p) \/ KillRun(p)

HarnessNext == (\E i \in Items : Edit(i)) \/ \E p \in Processes : HarnessInstaller(p)

HarnessSpec == HarnessInit /\ [][HarnessNext]_harnessVars

-----------------------------------------------------------------------------
\* codex_mcp_config_status: the table names this executable and this vault.
TableMatches(x, v) == file["config"].block = [exec |-> x, vault |-> v]

\* hook_bindings_installed: of the commands that end like one of Brainmap's own, in the form
\* without a vault or with this one, there is one, and it is the one that would be installed.
HooksMatch(x, v) ==
    LET commands == file["hooks"].commands
        matching == {i \in 1..Len(commands) : commands[i][2] \in {Nil, v}}
    IN \E i \in matching : matching = {i} /\ commands[i] = Command(x, v)

\* integration_doctor, of the files, for the executable that runs it and the vault it is given.
Healthy(x, v) ==
    /\ \A i \in Items : file[i] # Nil
    /\ file["skill"] = "shim" /\ file["agents"].block
    /\ TableMatches(x, v) /\ HooksMatch(x, v)

-----------------------------------------------------------------------------
Done(p, sort) == run[p].pc = "done" /\ run[p].sort = sort

\* What the user wrote last into a file is in it or in a backup of it, or came between the
\* backup and the write of an installer (PlanItem::install, PlanItem::uninstall).
UserContentSurvives ==
    \A i \in Items \ ({"skill"} \cup beside) :
        \/ edits[i] = 0
        \/ \E f \in (kept[i] \cup {file[i]}) \ {Nil} : f.user = edits[i]

\* A hook of an executable that is neither this one nor, in the form without a vault, the one
\* found on PATH or the one this one replaced.
Foreign(r, c) ==
    \/ c[2] = Nil /\ c[1] \notin {r.exec, Plain, r.previous}
    \/ c[2] = r.vault /\ c[1] # r.exec

\* After an installation beside which nobody wrote the doctor that is run by the same executable
\* for the same vault finds it healthy, whatever was there before, installed by an older
\* version, by a run that was killed, or edited (README.md:79-83): unless there is a hook of
\* another executable, which an installation leaves where it is (see NoHookOfAnotherExecutable).
InstallIsHealthy ==
    \A p \in Processes :
        Done(p, "install") /\ run[p].alone =>
            (Healthy(run[p].exec, run[p].vault)
                <=> \A c \in ToSet(file["hooks"].commands) : ~Foreign(run[p], c))

\* After an installation no hook names another executable than the one that installed
\* (tests/smoke.rs:988, codex_global_install_uses_codex_home_and_pins_the_running_binary).
NoHookOfAnotherExecutable ==
    \A p \in Processes :
        Done(p, "install") /\ run[p].alone =>
            \A c \in ToSet(file["hooks"].commands) : c[1] = run[p].exec
=============================================================================
