----------------------------- MODULE MCBackground -----------------------------
(* Instances of Background for TLC. *)
EXTENDS Background

CONSTANTS w1, other     \* a worker and a second process with a robot

\* One process with trigger and robot, or two with a robot each.
TriggerOrRobots == {{TriggerTask, api}, Owners}

\* The artifacts of the run created last may be lost.
LastRun == {NRuns}
=============================================================================
