-------------------------- MODULE QualificationBundle --------------------------
(***************************************************************************)
(* Qualification bundles (qualification.rs): a directory of evidence about *)
(* one candidate, read file by file, verified as what was read, and copied *)
(* from what was read.  Nothing locks the directory: a bundle is put       *)
(* together over another one while it is read.                             *)
(*                                                                         *)
(* A document is named by its sort and by the attempt that wrote it, and   *)
(* what it says follows from the two.  Documents are the same exactly when *)
(* their digests are, so a digest is the document.                         *)
(***************************************************************************)
EXTENDS Naturals, Sequences, FiniteSets

CONSTANTS Assemblies,    \* what bundles are put together from:
                         \* [candidate, build, runner, host, release, extra]
          Copiers,       \* processes that verify and copy a bundle
          MaxWrites,     \* bundles put together over another: a bound
          MaxSwaps,      \* what others do to the destination: a bound
          None

VARIABLES source,       \* the bundle at its source, by path
          writing,      \* the assembly that is being written over it, and the directories left
          writes, swaps,
          copy,         \* what a copier is doing
          copies,       \* the destination, or None where there is none
          owner,        \* who created it and wrote what is there, alone
          accepted      \* the inventories that were accepted

vars == <<source, writing, writes, swaps, copy, copies, owner, accepted>>

-----------------------------------------------------------------------------
\* The files of a bundle, in the order a directory is visited.
Order == << <<"root", "sums">>, <<"host", "artifact">>, <<"host", "manifest">>,
            <<"host", "sums">>, <<"root", "extra">>, <<"root", "manifest">>,
            <<"release", "gate">>, <<"release", "log">>, <<"release", "manifest">>,
            <<"release", "reproducibility">>, <<"release", "sums">>,
            <<"reproducibility", "manifest">>,
            <<"runner", "manifest">>, <<"runner", "report">>, <<"runner", "reproducibility">>,
            <<"runner", "sums">> >>
Paths == {Order[i] : i \in 1..Len(Order)}
Extra == <<"root", "extra">>
RootSums == <<"root", "sums">>
Root == <<"root", "manifest">>
Reproducibility == <<"reproducibility", "manifest">>
Subtrees == {"host", "release", "runner"}
Directories == Subtrees \cup {"root", "reproducibility"}

Absent == <<None, None>>
Litter == <<Extra, None>>

\* What an assembly puts at a path: the files of its attempts as they left them, the
\* manifest of the build beside each attempt that used it, and its own two files.
Document(a, p) ==
    IF p = Extra THEN (IF a.extra THEN <<Extra, a>> ELSE Absent)
    ELSE IF p = Reproducibility THEN <<Reproducibility, a.build>>
    ELSE IF p[2] = "reproducibility" THEN <<Reproducibility, a[p[1]].build>>
    ELSE IF p[1] = "root" THEN <<p, a>>
    ELSE <<p, a[p[1]]>>
Bundle(a) == [p \in Paths |-> Document(a, p)]
Documents == {Absent, Litter} \cup {Document(a, p) : a \in Assemblies, p \in Paths}

\* What an instance has to assume.
BundleConstants ==
    /\ MaxWrites \in Nat /\ MaxSwaps \in Nat
    /\ None \notin [Paths -> Documents] /\ None \notin Copiers

Listed(files) == {p \in Paths : files[p] # Absent}
InSubtree(files, t) == {p \in Listed(files) : p[1] = t}

\* What a checksum file lists: its directory as it was when the file was written.
SumsOf(d) ==
    IF d[1] = RootSums
    THEN LET b == Bundle(d[2]) IN [p \in Listed(b) \ {RootSums} |-> b[p]]
    ELSE LET t == d[1][1]
             attempt == d[2]
             doc(p) == IF p[2] = "reproducibility" THEN <<Reproducibility, attempt.build>>
                       ELSE <<p, attempt>>
         IN [p \in {q \in Paths : q[1] = t /\ q[2] # "sums"} |-> doc(p)]

-----------------------------------------------------------------------------
\* The verifier, over an inventory: the files as they were read.

VerifyChecksumFile(inv, sums, scope) ==
    /\ inv[sums][1] = sums
    /\ DOMAIN SumsOf(inv[sums]) = scope \ {sums}
    /\ \A p \in DOMAIN SumsOf(inv[sums]) : inv[p] = SumsOf(inv[sums])[p]

\* The references of a root manifest.
RootReferences(inv) ==
    LET a == inv[Root][2]
    IN \A p \in {Reproducibility} \cup {<<t, f>> : t \in Subtrees, f \in {"manifest", "sums"}} :
          /\ inv[p] = Document(a, p)
          /\ SumsOf(inv[RootSums])[p] = inv[p]

ReproducibilityValid(inv) ==
    LET b == inv[Reproducibility][2]
    IN b.candidate = inv[Root][2].candidate /\ b.identical

\* Mutant: an attempt is held against the candidate, not against the build it used.
AttemptOfCandidate(inv, t) ==
    LET attempt == inv[<<t, "manifest">>][2]
    IN /\ attempt.build.candidate = inv[Root][2].candidate /\ attempt.passed

\* What runner and release have in common: they used the build of this bundle and kept its
\* manifest.
AttemptValid(inv, t) ==
    LET attempt == inv[<<t, "manifest">>][2]
    IN /\ attempt.build.candidate = inv[Root][2].candidate /\ attempt.passed
       /\ <<Reproducibility, attempt.build>> = inv[Reproducibility]
       /\ inv[<<t, "reproducibility">>] = inv[Reproducibility]

RunnerValid(inv) ==
    LET run == inv[<<"runner", "manifest">>][2]
    IN AttemptValid(inv, "runner") /\ inv[<<"runner", "report">>] = <<(<<"runner", "report">>), run>>

HostValid(inv) ==
    LET run == inv[<<"host", "manifest">>][2]
    IN /\ run.candidate = inv[Root][2].candidate /\ run.passed
       /\ inv[<<"host", "artifact">>] = <<(<<"host", "artifact">>), run>>

\* The result of a gate names its log.
ReleaseValid(inv) ==
    LET run == inv[<<"release", "manifest">>][2]
        gate == inv[<<"release", "gate">>]
    IN /\ AttemptValid(inv, "release")
       /\ gate = <<(<<"release", "gate">>), run>>
       /\ inv[<<"release", "log">>] = <<(<<"release", "log">>), gate[2]>>

Verified(inv) ==
    /\ {RootSums, Root} \subseteq Listed(inv)
    /\ VerifyChecksumFile(inv, RootSums, Listed(inv))
    /\ inv[Root][1] = Root
    /\ \A t \in Subtrees : VerifyChecksumFile(inv, <<t, "sums">>, InSubtree(inv, t))
    /\ RootReferences(inv)
    /\ ReproducibilityValid(inv) /\ RunnerValid(inv) /\ HostValid(inv) /\ ReleaseValid(inv)

\* The candidate, the digest of the checksums and the build of what was verified.
Identity(inv) == <<inv[Root][2].candidate, inv[RootSums], inv[Reproducibility][2]>>

-----------------------------------------------------------------------------
Idle == [pc |-> "idle"]

Init ==
    /\ source \in {Bundle(a) : a \in Assemblies}
    /\ writing = None
    /\ writes = 0 /\ swaps = 0
    /\ copy = [c \in Copiers |-> Idle]
    /\ copies = None /\ owner = None
    /\ accepted = {}

Changed(a) == {t \in Directories : \E p \in Paths : p[1] = t /\ source[p] # Document(a, p)}

\* Another bundle is put together at the same place, a directory at a time, in any order.
StartWriting(a) ==
    /\ writing = None /\ writes < MaxWrites
    /\ Changed(a) # {}
    /\ writing' = [of |-> a, left |-> Changed(a)] /\ writes' = writes + 1
    /\ UNCHANGED <<source, swaps, copy, copies, owner, accepted>>

WriteDirectory(t) ==
    /\ writing # None /\ t \in writing.left
    /\ source' = [p \in Paths |-> IF p[1] = t THEN Document(writing.of, p) ELSE source[p]]
    /\ writing' = IF writing.left = {t} THEN None ELSE [writing EXCEPT !.left = @ \ {t}]
    /\ UNCHANGED <<writes, swaps, copy, copies, owner, accepted>>

\* The writer is killed or gives up.
StopWriting ==
    /\ writing # None /\ writing' = None
    /\ UNCHANGED <<source, writes, swaps, copy, copies, owner, accepted>>

\* Something leaves a file beside the evidence.
LeaveLitter ==
    /\ source[Extra] = Absent /\ writing = None /\ writes < MaxWrites
    /\ source' = [source EXCEPT ![Extra] = Litter]
    /\ writes' = writes + 1
    /\ UNCHANGED <<writing, swaps, copy, copies, owner, accepted>>

-----------------------------------------------------------------------------
\* copy_verified_bundle

Empty == [p \in Paths |-> Absent]
Copying(i, inv) == [pc |-> "read", i |-> i, inv |-> inv, again |-> Empty]

Begin(c) ==
    /\ copy[c].pc = "idle"
    /\ copy' = [copy EXCEPT ![c] = Copying(1, Empty)]
    /\ UNCHANGED <<source, writing, writes, swaps, copies, owner, accepted>>

\* Where the next file is looked for, or what comes after the last one.
Advance(c, now, then) ==
    IF copy[c].i = Len(Order) THEN [copy[c] EXCEPT !.i = 1, !.pc = then]
    ELSE [copy[c] EXCEPT !.i = @ + 1, !.pc = now]

ReadFile(c) ==
    /\ copy[c].pc = "read"
    /\ LET p == Order[copy[c].i]
       IN copy' = [copy EXCEPT ![c] = [Advance(c, "read", "verify") EXCEPT !.inv[p] = source[p]]]
    /\ UNCHANGED <<source, writing, writes, swaps, copies, owner, accepted>>

Verify(c) ==
    /\ copy[c].pc = "verify"
    /\ IF Verified(copy[c].inv)
       THEN /\ accepted' = accepted \cup {copy[c].inv}
            /\ copy' = [copy EXCEPT ![c].pc = "create"]
       ELSE copy' = [copy EXCEPT ![c] = Idle] /\ UNCHANGED accepted
    /\ UNCHANGED <<source, writing, writes, swaps, copies, owner>>

\* Mutant: a destination that appears meanwhile is taken for the one this copy made.
CreateAnyway(c) ==
    /\ copy[c].pc = "create"
    /\ copies' = IF copies = None THEN Empty ELSE copies
    /\ owner' = IF copies = None THEN c ELSE owner
    /\ copy' = [copy EXCEPT ![c].pc = "write"]
    /\ UNCHANGED <<source, writing, writes, swaps, accepted>>

\* A destination that exists is refused.
Create(c) ==
    /\ copy[c].pc = "create"
    /\ IF copies = None
       THEN /\ copies' = Empty /\ owner' = c
            /\ copy' = [copy EXCEPT ![c].pc = "write"]
       ELSE copy' = [copy EXCEPT ![c] = Idle] /\ UNCHANGED <<copies, owner>>
    /\ UNCHANGED <<source, writing, writes, swaps, accepted>>

\* A file of the copy is new: one that is there is refused, and so is a directory that is not.
CopyFile(c) ==
    /\ copy[c].pc = "write"
    /\ LET p == Order[copy[c].i]
           absent == copy[c].inv[p] = Absent
       IN IF ~absent /\ (copies = None \/ copies[p] # Absent)
          THEN copy' = [copy EXCEPT ![c].pc = "remove"] /\ UNCHANGED <<copies, owner>>
          ELSE /\ copy' = [copy EXCEPT ![c] = Advance(c, "write", "reread")]
               /\ copies' = IF absent THEN copies ELSE [copies EXCEPT ![p] = copy[c].inv[p]]
               /\ owner' = IF absent \/ owner = c THEN owner ELSE None
    /\ UNCHANGED <<source, writing, writes, swaps, accepted>>

CopyFails(c) ==
    /\ copy[c].pc \in {"write", "reread", "compare"}
    /\ copy' = [copy EXCEPT ![c].pc = "remove"]
    /\ UNCHANGED <<source, writing, writes, swaps, copies, owner, accepted>>

\* The copy is read back like the source, a file at a time, and nothing locks it either.
ReadBack(c) ==
    /\ copy[c].pc = "reread"
    /\ LET p == Order[copy[c].i]
       IN copy' = [copy EXCEPT ![c] =
                      IF copies = None THEN [copy[c] EXCEPT !.pc = "remove"]
                      ELSE [Advance(c, "reread", "compare") EXCEPT !.again[p] = copies[p]]]
    /\ UNCHANGED <<source, writing, writes, swaps, copies, owner, accepted>>

\* Mutant: the copy is verified, and not compared with what it is a copy of.
VerifyCopy(c) ==
    /\ copy[c].pc = "compare"
    /\ IF Verified(copy[c].again)
       THEN copy' = [copy EXCEPT ![c].pc = "ok"] /\ accepted' = accepted \cup {copy[c].again}
       ELSE copy' = [copy EXCEPT ![c].pc = "remove"] /\ UNCHANGED accepted
    /\ UNCHANGED <<source, writing, writes, swaps, copies, owner>>

\* What was read back is verified, and its identity compared.
Compare(c) ==
    /\ copy[c].pc = "compare"
    /\ IF Verified(copy[c].again) /\ Identity(copy[c].again) = Identity(copy[c].inv)
       THEN copy' = [copy EXCEPT ![c].pc = "ok"] /\ accepted' = accepted \cup {copy[c].again}
       ELSE copy' = [copy EXCEPT ![c].pc = "remove"] /\ UNCHANGED accepted
    /\ UNCHANGED <<source, writing, writes, swaps, copies, owner>>

\* Whatever is at the destination is removed, by its path; what cannot be removed is left.
RemoveCopy(c) ==
    /\ copy[c].pc = "remove"
    /\ \/ copies' = None
       \/ copies # None /\ copies' \in {copies, Empty}
    /\ owner' = IF copies' # copies \/ owner = c THEN None ELSE owner
    /\ copy' = [copy EXCEPT ![c] = Idle]
    /\ UNCHANGED <<source, writing, writes, swaps, accepted>>

\* What is left is nobody's.
Crash(c) ==
    /\ copy[c].pc \in {"create", "write", "reread", "compare", "remove"}
    /\ copy' = [copy EXCEPT ![c] = Idle]
    /\ owner' = IF owner = c THEN None ELSE owner
    /\ UNCHANGED <<source, writing, writes, swaps, copies, accepted>>

\* Somebody else puts another bundle at the destination, in the place of what is there if
\* anything is, or removes what is there.
Swap(a) ==
    /\ swaps < MaxSwaps
    /\ copies' = Bundle(a) /\ owner' = None /\ swaps' = swaps + 1
    /\ UNCHANGED <<source, writing, writes, copy, accepted>>

Clear ==
    /\ copies # None /\ swaps < MaxSwaps
    /\ copies' = None /\ owner' = None /\ swaps' = swaps + 1
    /\ UNCHANGED <<source, writing, writes, copy, accepted>>

-----------------------------------------------------------------------------
Writer == (\E a \in Assemblies : StartWriting(a) \/ Swap(a))
          \/ (\E t \in Directories : WriteDirectory(t)) \/ StopWriting \/ LeaveLitter \/ Clear
Copier(c) == \/ Begin(c) \/ ReadFile(c) \/ Verify(c) \/ Create(c) \/ CopyFile(c) \/ CopyFails(c)
             \/ ReadBack(c) \/ Compare(c) \/ RemoveCopy(c) \/ Crash(c)
Next == Writer \/ \E c \in Copiers : Copier(c)

Spec == Init /\ [][Next]_vars

-----------------------------------------------------------------------------
\* The attempt or the assembly a document of a bundle stems from.
PartsOf(inv, t) == {inv[p][2] : p \in {q \in InSubtree(inv, t) : q[2] # "reproducibility"}}

\* Whatever was read while what was written, an accepted inventory is the evidence of one
\* candidate: one attempt in each directory, and runner and release used the very build whose
\* manifest is there (README: the bundle "must bind the exact full commit").
OneCandidate(inv) ==
    /\ \A t \in Subtrees : Cardinality(PartsOf(inv, t)) = 1
    /\ \E b \in {inv[Reproducibility][2]}, h \in PartsOf(inv, "host") :
          /\ \A t \in {"runner", "release"} : \A r \in PartsOf(inv, t) : r.build = b
          /\ h.candidate = b.candidate /\ h.passed
          /\ inv[Root][2].candidate = b.candidate

AcceptedIsOneCandidate == \A inv \in accepted : OneCandidate(inv)

\* A copy that succeeded was read back as the inventory that was verified, file for file,
\* whatever others did to the source or put at the destination while either was read; and it is
\* what is there, unless others have touched the destination (copy_verified_bundle).
CopyIsWhatWasVerified ==
    \A c \in Copiers : copy[c].pc = "ok" =>
        /\ copy[c].again = copy[c].inv
        /\ owner = c => copies = copy[c].inv

\* A copier that fails removes what is at the destination by its path.  As long as only copiers
\* use the destination, that is what it made itself: a copy that was there before it came, or
\* that another one is making, stays (copy_verified_bundle).
CopierRemovesItsOwn ==
    [][swaps' = 0 /\ copies # None /\ copies' = None =>
          \E c \in Copiers : owner = c /\ copy[c].pc = "remove"]_vars

\* What somebody else has put in the place of a copy is not removed.  The code does not keep
\* this one.
OthersCopiesStay ==
    [][copies # None /\ copies' = None /\ swaps' = swaps =>
          \E c \in Copiers : owner = c /\ copy[c].pc = "remove"]_vars
=============================================================================
