---------------------------- MODULE PeriodicTrigger ----------------------------
(***************************************************************************)
(* periodic.py: every now and then the trigger looks whether a scheduled   *)
(* run is active, and creates one if there is none.  It reads the document *)
(* of every run, then the steps of the scheduled ones, while workers go on *)
(* with them.                                                              *)
(***************************************************************************)
EXTENDS Naturals

CONSTANT NRuns      \* runs are numbered as they are created

VARIABLES
    mode,           \* of each run, see RunProgress
    scheduled,      \* the runs whose request says trigger = "scheduled"
    trigger         \* the state of the task

Runs == 1..NRuns

PC == {"asleep",
       "listing",   \* in list_runs
       "looking",   \* in the loop of has_active_scheduled_job
       "ended"}     \* the task is done, by an exception

\* unread: the run whose turn is next; active: runs whose document was active.
Asleep == [pc |-> "asleep", unread |-> 0, active |-> {}]

Created == {r \in Runs : mode[r] # "absent"}

\* Mutants: a run that waits for a worker does not count; one that waits for the
\* user does.
OwnedOnly(r) == mode[r] = "owned"
Unfinished(r) == mode[r] \in {"waiting", "owned", "stopped"}

\* What the document says of a run (queued, running), and its steps (one is ready,
\* retrying or running): it waits for a worker or has one.
Active(r) == mode[r] \in {"waiting", "owned"}

StartCheck(created) ==
    /\ trigger.pc = "asleep"
    /\ trigger' = [Asleep EXCEPT !.pc = "listing", !.unread = created]

\* list_runs reads the documents one by one.
ReadPipeline(created) ==
    LET r == trigger.unread IN
    /\ trigger.pc = "listing"
    /\ trigger' =
          IF r = 0 THEN [trigger EXCEPT !.pc = "looking", !.unread = created]
          ELSE [trigger EXCEPT !.unread = r - 1,
                               !.active = IF Active(r) THEN @ \cup {r} ELSE @]

\* A scheduled run is active if its document was; otherwise its steps are read, and
\* a run whose steps cannot be read is skipped.
LookAtSteps ==
    LET r == trigger.unread IN
    /\ trigger.pc = "looking" /\ r # 0
    /\ \/ trigger' = [trigger EXCEPT !.unread = r - 1] /\ r \notin scheduled \cap trigger.active
       \/ trigger' = Asleep /\ r \in scheduled /\ (r \in trigger.active \/ Active(r))

\* No scheduled run is active: the caller creates run r.
CreateScheduled(r) ==
    /\ trigger.pc = "looking" /\ trigger.unread = 0
    /\ scheduled' = scheduled \cup {r}
    /\ trigger' = Asleep

\* run_periodic_trigger catches nothing but its cancellation: an exception of the
\* store (a database that stays busy, say) ends the task, and nobody looks.
Raise ==
    /\ trigger.pc \in {"listing", "looking"}
    /\ trigger' = [Asleep EXCEPT !.pc = "ended"]
=============================================================================
