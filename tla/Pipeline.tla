------------------------------ MODULE Pipeline ------------------------------
(***************************************************************************)
(* The pipeline template and the vocabulary that every store and worker    *)
(* shares: the chain of steps (pipeline/templates.py), the statuses of a   *)
(* step and of a run (pipeline/models.py) and the rule that derives the    *)
(* status of a run from the statuses of its steps.                         *)
(***************************************************************************)
EXTENDS Integers, FiniteSets

CONSTANTS
    NSteps,         \* number of steps of the template (4 in the code)
    MaxAttempts     \* max_attempts of each step (3, 2, 2, 2 in the code)

ASSUME NStepsAssumption == NSteps \in Nat \ {0}
ASSUME MaxAttemptsAssumption == MaxAttempts \in [1..NSteps -> Nat \ {0}]

Steps == 1..NSteps

\* Every step of the one template depends on the step before it.
DependsOn(i) == {j \in Steps : j = i - 1}

StepStatus == {"pending", "ready", "running", "retrying", "succeeded",
               "succeeded_cached", "failed", "blocked"}
PipelineStatus == {"queued", "running", "succeeded", "failed", "blocked"}

\* The statuses that let a dependent step start.
OK == {"succeeded", "succeeded_cached"}

\* build_steps: a step without dependencies is born ready.
FirstStatus(i) == IF DependsOn(i) = {} THEN "ready" ELSE "pending"

-----------------------------------------------------------------------------
\* The status of a run whose step i has status st[i]: the final step decides
\* success, then a failed step wins over a blocked one.  The code has three
\* copies of this rule; they differ only in what an unsettled run is called.

\* Mutant: any finished step, not the final one, counts as success.
DerivedFromAnyStep(st) ==
    CASE \E i \in Steps : st[i] \in OK         -> "succeeded"
      [] \E i \in Steps : st[i] = "failed"     -> "failed"
      [] \E i \in Steps : st[i] = "blocked"    -> "blocked"
      [] OTHER                                 -> "running"

DerivedStatus(st) ==
    IF st[NSteps] \in OK THEN "succeeded"
    ELSE IF \E i \in Steps : st[i] = "failed" THEN "failed"
    ELSE IF \E i \in Steps : st[i] = "blocked" THEN "blocked"
    ELSE "running"
=============================================================================
