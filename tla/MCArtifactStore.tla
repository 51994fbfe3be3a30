---------------------------- MODULE MCArtifactStore ----------------------------
(* Instances of ArtifactStore for TLC. *)
EXTENDS ArtifactStore, TLC

CONSTANTS a1, a2, a3, k1, k2, x, y    \* model values

\* The third attempt wants another artifact than the others.
TwoKeys == [a \in Attempts |-> IF a = a3 THEN k2 ELSE k1]

\* All attempts are in one temporary directory.
SharedDir == [a \in Attempts |-> CHOOSE d \in Dirs : TRUE]

\* The files of a1 differ from those of the others (a zip holds its time).
Products2 == [a \in Attempts |-> IF a = a1 THEN x ELSE y]

\* The files of an artifact are interchangeable.
Symmetry == Permutations(Files)
=============================================================================
