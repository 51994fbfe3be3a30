----------------------------- MODULE RunProgress -----------------------------
(***************************************************************************)
(* What the step queue promises about a run, without rows, statuses, time  *)
(* or artifacts: a run goes through its steps in order; the step at hand   *)
(* has at most one owner; each step is given to a worker at most           *)
(* MaxAttempts times before the run stops and waits for the user; what is  *)
(* finished stays finished.                                                *)
(***************************************************************************)
EXTENDS Pipeline

CONSTANTS NRuns, Workers, Null, ForceRefresh

VARIABLES
    mode,       \* absent, waiting, owned, stopped or done
    stage,      \* how many steps of the run are finished
    owner,      \* the worker that has the next step
    tries       \* how often the next step has been given out

vars == <<mode, stage, owner, tries>>
Runs == 1..NRuns

Init == /\ mode = [r \in Runs |-> "absent"]
        /\ stage = [r \in Runs |-> 0]
        /\ owner = [r \in Runs |-> Null]
        /\ tries = [r \in Runs |-> 0]

\* The number of tries the next step of r may have.
Allowed(r) == MaxAttempts[stage[r] + 1]

Create(r) ==
    /\ mode[r] = "absent"
    /\ mode' = [mode EXCEPT ![r] = "waiting"]
    /\ UNCHANGED <<stage, owner, tries>>

Claim(r, w) ==
    /\ mode[r] = "waiting"
    /\ tries[r] < Allowed(r)
    /\ mode' = [mode EXCEPT ![r] = "owned"]
    /\ owner' = [owner EXCEPT ![r] = w]
    /\ tries' = [tries EXCEPT ![r] = @ + 1]
    /\ UNCHANGED stage

Complete(r) ==
    /\ mode[r] = "owned"
    /\ stage' = [stage EXCEPT ![r] = @ + 1]
    /\ mode' = [mode EXCEPT ![r] = IF stage'[r] = NSteps THEN "done" ELSE "waiting"]
    /\ owner' = [owner EXCEPT ![r] = Null]
    /\ tries' = [tries EXCEPT ![r] = 0]

\* The owners of the runs S lose their steps, at once when recovery finds
\* several leases expired.  A run stops, or goes on waiting if it has tries left.
Lose(S) ==
    /\ S # {}
    /\ \A r \in S : mode[r] = "owned"
    /\ \E stopped \in SUBSET S :
          /\ \A r \in S \ stopped : tries[r] < Allowed(r)
          /\ mode' = [r \in Runs |-> IF r \in stopped THEN "stopped"
                                     ELSE IF r \in S THEN "waiting" ELSE mode[r]]
    /\ owner' = [r \in Runs |-> IF r \in S THEN Null ELSE owner[r]]
    /\ UNCHANGED <<stage, tries>>

\* The user retries.  A run with force_refresh may be retried while it waits:
\* its status can be out of date.
Retry(r) ==
    /\ mode[r] = "stopped" \/ (r \in ForceRefresh /\ mode[r] = "waiting")
    /\ mode' = [mode EXCEPT ![r] = "waiting"]
    /\ tries' = [tries EXCEPT ![r] = 0]
    /\ UNCHANGED <<stage, owner>>

Next == \/ \E r \in Runs : Create(r) \/ Complete(r) \/ Retry(r)
        \/ \E r \in Runs, w \in Workers : Claim(r, w)
        \/ \E S \in SUBSET Runs : Lose(S)

Spec == Init /\ [][Next]_vars
=============================================================================
