------------------------------ MODULE MCReplacement ------------------------------
(***************************************************************************)
(* Files that are replaced while they are in use: five parts, of which a   *)
(* behaviour takes one:                                                    *)
(*   "restore"   RestoreSwap;                                              *)
(*   "install"   CandidateInstall, whose steps fail and are killed;        *)
(*   "changes"   CandidateInstall, beside others who change the files;     *)
(*   "harness"   HarnessInstall, over what users and old versions left;    *)
(*   "versions"  HarnessInstall, two executables and two vaults.           *)
(***************************************************************************)
EXTENDS RestoreSwap, CandidateInstall, HarnessInstall

CONSTANT Parts

VARIABLE part

restore == vars
all == <<part, restore, installVars, harnessVars>>

OneExport == {[vault |-> "exported", events |-> {}]}

-----------------------------------------------------------------------------
AnyBuild == {"A", "B", "older"}
CandidateOf == [p \in Installers |-> IF p = "i1" THEN "A" ELSE "B"]
Executable(b) == [build |-> b, exec |-> TRUE]
Pair(m, d) == [f \in Files |-> IF f = "brainmap" THEN m ELSE d]
NoPair == Pair(Nothing, Nothing)
\* Nothing, an older pair, a candidate, and pairs that were left mixed.
InstalledPairs == {NoPair, Pair(Executable("older"), Executable("older")),
                   Pair(Executable("A"), Executable("A")),
                   Pair(Executable("A"), Executable("older")),
                   Pair(Nothing, Executable("older"))}

\* What the two parts of CandidateInstall leave out: changes of others, and crashes.
InPart ==
    \/ part = "install" /\ changes' = 0
    \/ part = "changes" /\ crashes' = 0 /\ errors' <= 1 /\ changes' + errors' <= 2

Config(block, unmanaged) == [user |-> 0, block |-> block, unmanaged |-> unmanaged]
HarnessFiles(skill, agents, config, hooks) ==
    [i \in Items |-> CASE i = "skill" -> skill [] i = "agents" -> agents
                       [] i = "config" -> config [] i = "hooks" -> hooks]
NoFiles == HarnessFiles(Nil, Nil, Nil, Nil)
\* What a user has before Brainmap comes: texts, a table under the same name, an own skill.
Before == {NoFiles,
           HarnessFiles(Nil, [user |-> 0, block |-> FALSE], Config(Nil, FALSE),
                 [user |-> 0, commands |-> <<>>]),
           HarnessFiles(Nil, Nil, Config(Nil, TRUE), Nil),
           HarnessFiles("edited", Nil, Nil, Nil)}
\* What an older version installed, whose hooks did not name a vault: this executable, or the
\* one found on PATH.
Legacy == {HarnessFiles("shim", [user |-> 0, block |-> TRUE],
                 Config([exec |-> "E1", vault |-> "V1"], FALSE),
                 [user |-> 0, commands |-> << <<x, Nil>> >>]) : x \in {"E1", "plain"}}
BeforeHarness == Before \cup Legacy

\* What a part of HarnessInstall leaves out: the second executable and the second vault.
InHarness ==
    \/ /\ part = "harness"
       /\ \A p \in Processes :
             run'[p].pc # "idle" => run'[p].exec = "E1" /\ run'[p].vault = "V1"
    \/ part = "versions"

ASSUME InstallConstants /\ HarnessConstants

-----------------------------------------------------------------------------
NoInstall == InstallInit /\ dest = NoPair
NoHarness == HarnessInit /\ file = NoFiles

AnyInit ==
    /\ part \in Parts
    /\ Init
    /\ \/ part = "restore" /\ NoInstall /\ NoHarness
       \/ part \in {"install", "changes"} /\ InstallInit /\ NoHarness
       \/ part = "harness" /\ HarnessInit /\ NoInstall
       \/ part = "versions" /\ NoHarness /\ NoInstall

AnyNext ==
    \/ part = "restore" /\ Next /\ UNCHANGED <<part, installVars, harnessVars>>
    \/ InstallNext /\ InPart /\ UNCHANGED <<part, restore, harnessVars>>
    \/ HarnessNext /\ InHarness /\ UNCHANGED <<part, restore, installVars>>

AnySpec == AnyInit /\ [][AnyNext]_all
=============================================================================
