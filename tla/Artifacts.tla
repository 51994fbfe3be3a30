------------------------------- MODULE Artifacts -------------------------------
(***************************************************************************)
(* What the artifact store promises, without files: an artifact is absent  *)
(* or it is complete; a commit puts it there at once, and keeps one that   *)
(* is there already.  SqliteWorker works on these artifacts; ArtifactStore *)
(* implements them file by file.                                           *)
(***************************************************************************)
EXTENDS Integers, FiniteSets

CONSTANT Keys       \* the cache keys, which name the artifacts

VARIABLES
    artifacts,      \* the valid artifacts: [key, gen]
    commits         \* how many manifests have been written; the last one's gen

vars == <<artifacts, commits>>

Init == artifacts = {} /\ commits = 0

Valid(k) == \E a \in artifacts : a.key = k

\* A manifest holds its time of creation, so each commit has a hash of its own.
Gen(k) == (CHOOSE a \in artifacts : a.key = k).gen

\* Mutant: the files are copied but the manifest is not written.
CommitNothing(k) == k \in Keys /\ UNCHANGED vars

Commit(k) ==
    IF Valid(k) THEN UNCHANGED vars
    ELSE /\ artifacts' = artifacts \cup {[key |-> k, gen |-> commits + 1]}
         /\ commits' = commits + 1

\* A file of an artifact is deleted or damaged.
Lose == /\ \E a \in artifacts : artifacts' = artifacts \ {a}
        /\ UNCHANGED commits

\* A manifest is written for files that are not there any more: a commit whose
\* result is lost at once.
Spoil == commits' = commits + 1 /\ UNCHANGED artifacts

\* Artifacts that were committed and are not valid any more.
Lost == commits - Cardinality(artifacts)

Next == \/ \E k \in Keys : Commit(k)
        \/ Lose
        \/ Spoil

Spec == Init /\ [][Next]_vars
=============================================================================
