---------------------------- MODULE MCSqliteStore ----------------------------
(* Instances of SqliteStore for TLC. *)
EXTENDS SqliteStore, TLC

\* The first step may be tried twice, the others once: both ways out of the
\* last attempt, and a step with no retry at all.
TwoThenOne == [i \in Steps |-> IF i = 1 THEN 2 ELSE 1]

\* Workers and keys are interchangeable: nothing orders them.
Symmetry == Permutations(Workers)
=============================================================================
