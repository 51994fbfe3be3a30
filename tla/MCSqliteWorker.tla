---------------------------- MODULE MCSqliteWorker ----------------------------
(* Instances of SqliteWorker for TLC. *)
EXTENDS SqliteWorker

CONSTANTS w1, w2, w3, w4        \* the workers, as model values

\* Every worker serves the first step; one worker serves the second step.
AllServeFirst == [w \in Workers |-> 1]
OnePerStep == [w \in Workers |-> IF w = w2 THEN 2 ELSE 1]

\* Two workers serve the first step, one the second.
TwoForFirst == [w \in Workers |-> IF w = w3 THEN 2 ELSE 1]

\* One worker for each of three steps.
WorkerPerStep == [w \in Workers |-> IF w = w2 THEN 2 ELSE IF w = w3 THEN 3 ELSE 1]

\* No worker is started later / w4 is started when w1 has crashed.
NoReplacement == [w \in Workers |-> Null]
FourthForFirst == [w \in Workers |-> IF w = w4 THEN w1 ELSE Null]

TwoAttempts == [i \in Steps |-> 2]
TwoThenOne == [i \in Steps |-> IF i = 1 THEN 2 ELSE 1]

\* All runs have the same params.
SameParams == [r \in Runs |-> 1]

\* The steps that hash the params: only the first, or fetch_raw and analyze.
FirstOnly == {1}
FetchAndAnalyze == {1, 3}
=============================================================================
