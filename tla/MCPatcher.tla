----------------------------- MODULE MCPatcher -----------------------------
(***************************************************************************)
(* Patcher for any server and client that its assumption allows, and the   *)
(* values that MCTools gives to its constants.                             *)
(***************************************************************************)
EXTENDS Naturals, Sequences

CONSTANTS Paths, Kind, Chunks, PathPrefixes, Configs, MaxCrashes, MaxPatches

VARIABLES config, disk, summary, log, release, me, dec, crashes, torn

P == INSTANCE Patcher

\* There are paths other than the empty one, of known kinds, and files have chunks; servers
\* and clients are as Fits says.
ASSUME PatcherAssumption ==
    /\ Paths \subseteq Nat \ {P!Nowhere}
    /\ Kind \in [Paths -> {"dir", "empty", "file"}] /\ Chunks \in [Paths -> Nat]
    /\ \A p \in Paths : Kind[p] = "file" => Chunks[p] > 0
    /\ PathPrefixes \in [Paths -> SUBSET Paths]
    /\ MaxCrashes \in Nat
    /\ \A c \in Configs : P!Fits(c)

\* A directory, two files, one of them in two chunks, and an empty file.  Three releases
\* in which the directory, or the empty file, comes and goes, with a client that removes
\* files and one that does not; and a client for which a file may be gone already.
Kinds == <<"dir", "file", "file", "empty">>
ChunksOf == <<0, 1, 2, 0>>
Prefixes == <<{}, {1}, {1}, {}>>
File(p, c, x) == [path |-> p, c |-> c, x |-> x]
Servers ==
    {[remove |-> 1, releases |-> <<{File(2, 1, FALSE)},
                                   {File(1, 1, FALSE), File(2, 2, FALSE), File(3, 1, TRUE)},
                                   {File(2, 2, TRUE), File(3, 2, TRUE)}>>],
     [remove |-> 0, releases |-> <<{File(2, 1, FALSE)}, {File(4, 1, TRUE), File(2, 2, FALSE)},
                                   {File(2, 2, TRUE)}>>],
     [remove |-> 2, releases |-> <<{File(2, 1, FALSE)}, {File(4, 1, FALSE)}>>]}

\* Patcher: a finished session leaves the files of the server, whatever sessions that
\* failed or died left before it, and without a crash the summary and the log describe
\* the disk.
PatchExact == P!TypeOK /\ P!PatchedExactly /\ P!ChunksInOrder /\ P!LogHonest
=============================================================================
