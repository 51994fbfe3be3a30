----------------------------- MODULE MCJsonServer -----------------------------
(* Instances of JsonServer for TLC. *)
EXTENDS JsonServer

TwoAttempts == [i \in Steps |-> 2]
OneThenTwo == [i \in Steps |-> IF i = 1 THEN 1 ELSE 2]
TwoThenOne == [i \in Steps |-> IF i = 1 THEN 2 ELSE 1]

\* All runs have the same params.
SameParams == [r \in Runs |-> 1]

\* Only the first step hashes the params; only its filter awaits.
FirstOnly == {1}
=============================================================================
