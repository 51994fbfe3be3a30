------------------------------ MODULE Background ------------------------------
(***************************************************************************)
(* What lifespan (main.py) starts beside the server: the periodic trigger  *)
(* and the notification robot, over the runs that RunProgress promises.    *)
(* In the process api, the trigger, the robot and the request handlers     *)
(* share one event loop and none of them awaits before it is done.  The    *)
(* workers are other processes; another one may have a robot, but no       *)
(* trigger (AUTO_PIPELINE_ENABLED=false).                                  *)
(***************************************************************************)
EXTENDS Integers, FiniteSetsExt

CONSTANTS
    NRuns, Workers, Null,       \* see RunProgress
    Owners, api, HistoryLimit, Fragile,     \* see NotificationRobot
    Fleets,         \* the sets of tasks that may be enabled: the trigger of api, and robots
    TriggerTask,    \* the trigger among them
    MaxFaults       \* bound on exceptions, restarts and losses

ASSUME NRunsAssumption == NRuns \in Nat \ {0}
ASSUME MaxFaultsAssumption == MaxFaults \in Nat
ASSUME HistoryLimitAssumption == HistoryLimit \in Nat \ {0}
ASSUME ApiAssumption == api \in Owners
ASSUME FleetsAssumption ==
    TriggerTask \notin Owners /\ Fleets \subseteq SUBSET (Owners \cup {TriggerTask})

VARIABLES
    mode, stage, owner, tries,                  \* see RunProgress
    finished, lost, robot, outbox, history,     \* see NotificationRobot
    scheduled, trigger,                         \* see PeriodicTrigger
    enabled,        \* the tasks that the settings enable
    faults

Progress == INSTANCE RunProgress WITH NSteps <- 1, MaxAttempts <- <<1>>, ForceRefresh <- {}
Robot == INSTANCE NotificationRobot
Trigger == INSTANCE PeriodicTrigger

runVars == <<mode, stage, owner, tries>>
robotVars == <<finished, lost, robot, outbox, history>>
vars == <<runVars, robotVars, scheduled, trigger, enabled, faults>>

Runs == 1..NRuns

Init == /\ Progress!Init /\ Robot!Init
        /\ scheduled = {}
        /\ trigger = Trigger!Asleep
        /\ enabled \in Fleets
        /\ faults = 0

Created == Cardinality(Trigger!Created)

-----------------------------------------------------------------------------
(* The event loop of the process api.  Each handler and each check is over *)
(* before another one gets the loop.                                       *)

TriggerAwaits == trigger.pc \in {"asleep", "ended"}
RobotAwaits == Robot!At(api, "asleep")

UserCreates ==
    /\ TriggerAwaits /\ RobotAwaits
    /\ Created < NRuns /\ Progress!Create(Created + 1)
    /\ UNCHANGED <<robotVars, scheduled, trigger, enabled, faults>>

UserRetries(r) ==
    /\ TriggerAwaits /\ RobotAwaits
    /\ Progress!Retry(r)
    /\ UNCHANGED <<robotVars, scheduled, trigger, enabled, faults>>

TriggerReads ==
    /\ RobotAwaits
    /\ \/ TriggerTask \in enabled /\ Created < NRuns /\ Trigger!StartCheck(Created)
       \/ Trigger!ReadPipeline(Created) \/ Trigger!LookAtSteps
    /\ UNCHANGED <<runVars, robotVars, scheduled, enabled, faults>>

TriggerCreates ==
    /\ Created < NRuns /\ Progress!Create(Created + 1)
    /\ Trigger!CreateScheduled(Created + 1)
    /\ UNCHANGED <<robotVars, enabled, faults>>

TriggerStep == TriggerReads \/ TriggerCreates

RobotStep(p) ==
    /\ p \in enabled
    /\ p = api => TriggerAwaits
    /\ Robot!RobotStep(p, Created)
    /\ UNCHANGED <<runVars, scheduled, trigger, enabled, faults>>

-----------------------------------------------------------------------------
(* Workers. *)

Claim(r, w) ==
    /\ Progress!Claim(r, w)
    /\ UNCHANGED <<robotVars, scheduled, trigger, enabled, faults>>

Finish(r) ==
    /\ Progress!Complete(r)
    /\ Robot!RunFinishes(r)
    /\ UNCHANGED <<scheduled, trigger, enabled, faults>>

LoseStep(r) ==
    /\ Progress!Lose({r})
    /\ UNCHANGED <<robotVars, scheduled, trigger, enabled, faults>>

-----------------------------------------------------------------------------
(* Faults. *)

Fault == faults < MaxFaults /\ faults' = faults + 1

TriggerRaises ==
    /\ Fault /\ Trigger!Raise
    /\ UNCHANGED <<runVars, robotVars, scheduled, enabled>>

\* An exception, or the end of the process that has the robot.
RobotInterrupted(p) ==
    /\ Fault /\ Robot!Interrupt(p)
    /\ UNCHANGED <<runVars, scheduled, trigger, enabled>>

\* The process api ends anywhere and starts again; so does the trigger.
ApiRestarts ==
    /\ Fault
    /\ trigger' = Trigger!Asleep
    /\ robot' = [robot EXCEPT ![api] = Robot!Asleep]
    /\ UNCHANGED <<runVars, finished, lost, outbox, history, scheduled, enabled>>

ArtifactsChange(r) ==
    /\ Fault /\ Robot!ArtifactsChange(r)
    /\ UNCHANGED <<runVars, scheduled, trigger, enabled>>

Next ==
    \/ UserCreates \/ TriggerStep \/ TriggerRaises \/ ApiRestarts
    \/ \E p \in Owners : RobotStep(p) \/ RobotInterrupted(p)
    \/ \E r \in Runs : UserRetries(r) \/ Finish(r) \/ LoseStep(r)
    \/ \E r \in Runs, w \in Workers : Claim(r, w)
    \/ \E r \in Fragile : ArtifactsChange(r)

\* asyncio serves the tasks of a process first come, first served, and the system
\* grants the lock of the robots to whoever waits while it is free again and again.
Fairness == /\ SF_vars(TriggerStep)
            /\ \A p \in Owners : SF_vars(RobotStep(p))

Spec == Init /\ [][Next]_vars
FairSpec == Spec /\ Fairness

-----------------------------------------------------------------------------
(* Properties. *)

TypeOK ==
    /\ Robot!TypeOK
    /\ \A r \in Runs : mode[r] = "done" <=> r \in Robot!Range(finished)
    /\ scheduled \subseteq Trigger!Created
    /\ trigger \in [pc : Trigger!PC, unread : 0..NRuns, active : SUBSET Runs]
    /\ enabled \in Fleets /\ faults \in 0..MaxFaults

\* No pair is sent twice: not by two processes, not after a crash between the two
\* files, not after the state file has forgotten the pair or cannot be read, and
\* not when a loss makes an old pair the newest again.
SentOnce == \A pair \in Robot!Pairs : outbox[pair] <= 1

\* The runs change while the robot reads them; still, the pair it is about to
\* announce leaves out no newer result that was there when it began, unless that
\* result may have been lost.
LeavesOutOnlyNewer ==
    \A p \in Owners, r \in Runs :
        LET pair == robot[p].pair IN
        pair # Robot!NoPair /\ r \in robot[p].before \ {pair[1], pair[2]} =>
            Robot!Position(r) < Robot!Position(pair[1])

\* The two results that finished last are announced sooner or later, or one of
\* them cannot be read, or is not among the last two any more.
NewestAnnounced ==
    LET completed == {r \in Runs : Robot!Completed(r)} IN
    []<>(Cardinality(completed) >= 2 =>
            LET pair == Robot!NewestPair(completed) IN
            outbox[pair] > 0 \/ lost[pair[1]] # "nothing" \/ lost[pair[2]] # "nothing")

\* The scheduled runs that a worker has or may take.
InProgress == {r \in scheduled : mode[r] \in {"waiting", "owned"}}

\* The trigger looks at the runs one after the other and then creates one; even so
\* no other scheduled run is active when it does.
OneScheduled == [][TriggerCreates => InProgress = {}]_vars

\* When no scheduled run is active any more, the trigger creates one, unless an
\* exception has ended it.
ScheduleGoesOn ==
    LET over == TriggerTask \notin enabled \/ trigger.pc = "ended" \/ Created = NRuns IN
    InProgress = {} ~> InProgress # {} \/ over
=============================================================================
