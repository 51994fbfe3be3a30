--------------------------- MODULE NotificationRobot ---------------------------
(***************************************************************************)
(* notification_robot.py: every now and then a robot reads all runs, takes *)
(* the two results that finished last, compares them and writes the        *)
(* message to the outbox, once per pair.  It reads the runs one by one     *)
(* while they go on; what it does after that is under a file lock, because *)
(* a second process may run a robot too.                                   *)
(***************************************************************************)
EXTENDS Integers, SequencesExt

CONSTANTS
    NRuns,          \* runs are numbered as they are created
    Owners,         \* the processes that run a robot
    HistoryLimit,   \* how many pairs the state file remembers (50 in the code)
    Fragile         \* the runs whose artifacts may be lost

VARIABLES
    finished,       \* the finished runs, by finished_at
    lost,           \* what a run has lost: nothing, its inputs or its summary
    robot,          \* the local state of each robot
    outbox,         \* how often the file of a pair has been written
    history         \* "sent" in the state file

vars == <<finished, lost, robot, outbox, history>>

Runs == 1..NRuns
Pairs == {p \in Runs \X Runs : p[1] # p[2]}
NoPair == <<>>

PC == {"asleep",
       "scanning",      \* in _compatible_completed_results
       "paired",        \* has the two newest results; before named_lock
       "comparing",     \* has the lock and a pair that was not sent
       "announced"}     \* has written the outbox file; before the state file

Asleep == [pc |-> "asleep", unread |-> 0, before |-> {}, found |-> {},
           pair |-> NoPair, sent |-> <<>>]

Goto(p, rec) == robot' = [robot EXCEPT ![p] = rec]
At(p, pc) == robot[p].pc = pc

Init == /\ finished = <<>>
        /\ lost = [r \in Runs |-> "nothing"]
        /\ robot = [p \in Owners |-> Asleep]
        /\ outbox = [pair \in Pairs |-> 0]
        /\ history = <<>>

-----------------------------------------------------------------------------
(* check_once. *)

\* The ids are listed at once, the newest run first; each run is read when its
\* turn comes.
StartScan(p, created) ==
    /\ At(p, "asleep")
    /\ Goto(p, [Asleep EXCEPT !.pc = "scanning", !.unread = created,
                              !.before = Range(finished) \ Fragile])
    /\ UNCHANGED <<finished, lost, outbox, history>>

\* A finished run whose summary is valid.
Completed(r) == r \in Range(finished) /\ lost[r] # "summary"

ReadRun(p) ==
    /\ At(p, "scanning") /\ robot[p].unread # 0
    /\ Goto(p, [robot[p] EXCEPT !.unread = @ - 1,
                                !.found = IF Completed(robot[p].unread)
                                          THEN @ \cup {robot[p].unread} ELSE @])
    /\ UNCHANGED <<finished, lost, outbox, history>>

\* Where the results that were found stand among the finished ones.
Positions(found) == {i \in DOMAIN finished : finished[i] \in found}

\* Mutant: the results are sorted the other way round.
OldestPair(found) ==
    LET first == Min(Positions(found)) IN
    <<finished[first], finished[Min(Positions(found) \ {first})]>>

\* The two results that finished last, of those that were found.
NewestPair(found) ==
    LET last == Max(Positions(found)) IN
    <<finished[Max(Positions(found) \ {last})], finished[last]>>

MakePair(p) ==
    /\ At(p, "scanning") /\ robot[p].unread = 0
    /\ Goto(p, IF Cardinality(robot[p].found) < 2 THEN Asleep
               ELSE [robot[p] EXCEPT !.pc = "paired", !.pair = NewestPair(robot[p].found),
                                    !.found = {}])
    /\ UNCHANGED <<finished, lost, outbox, history>>

HoldsLock(p) == robot[p].pc \in {"comparing", "announced"}
LockFree == \A p \in Owners : ~HoldsLock(p)

\* Mutant: a result is announced once, in whatever pair.
ResultSent(pair, sent) == \E i \in DOMAIN sent : sent[i][1] = pair[1]

\* Mutant: only the state file is asked.
SentInHistory(pair, sent) == Contains(sent, pair)

AlreadySent(pair, sent) == outbox[pair] > 0 \/ Contains(sent, pair)

\* Under the lock: a state file that cannot be read counts as empty.
Lock(p) ==
    /\ At(p, "paired")
    /\ LockFree
    /\ \E sent \in {history, <<>>} :
          Goto(p, IF AlreadySent(robot[p].pair, sent) THEN Asleep
                  ELSE [robot[p] EXCEPT !.pc = "comparing", !.sent = sent, !.before = {}])
    /\ UNCHANGED <<finished, lost, outbox, history>>

\* CompareService answers only if the artifacts of both runs are there; its
\* exception ends the pass.
WriteOutbox(p) ==
    /\ At(p, "comparing")
    /\ LET pair == robot[p].pair IN
       IF lost[pair[1]] = "nothing" /\ lost[pair[2]] = "nothing"
       THEN /\ outbox' = [outbox EXCEPT ![pair] = @ + 1]
            /\ Goto(p, [robot[p] EXCEPT !.pc = "announced"])
       ELSE /\ UNCHANGED outbox
            /\ Goto(p, Asleep)
    /\ UNCHANGED <<finished, lost, history>>

\* Mutant: what is new comes on top of what is kept.
RecentAndNew(sent) == SubSeq(sent, IF Len(sent) > HistoryLimit + 1 THEN Len(sent) - HistoryLimit
                                                                   ELSE 1, Len(sent))

\* state["sent"] = sent[-50:]
Recent(sent) == SubSeq(sent, IF Len(sent) > HistoryLimit THEN Len(sent) - HistoryLimit + 1
                                                         ELSE 1, Len(sent))

WriteState(p) ==
    /\ At(p, "announced")
    /\ history' = Recent(Append(robot[p].sent, robot[p].pair))
    /\ Goto(p, Asleep)
    /\ UNCHANGED <<finished, lost, outbox>>

\* An exception, which run_notification_robot swallows, or the end of the
\* process: either way the lock is released and nothing else is.
Interrupt(p) ==
    /\ ~At(p, "asleep")
    /\ Goto(p, Asleep)
    /\ UNCHANGED <<finished, lost, outbox, history>>

-----------------------------------------------------------------------------
(* The runs. *)

\* finish_step reads its clock before it waits for the database: a run may be
\* the last to finish and yet not have the latest finished_at.
RunFinishes(r) ==
    /\ \E i \in {Len(finished), Len(finished) + 1} \ {0} :
          finished' = InsertAt(finished, i, r)
    /\ UNCHANGED <<lost, robot, outbox, history>>

\* An artifact of r is lost, or made again by another run.
ArtifactsChange(r) ==
    /\ \E what \in {"nothing", "inputs", "summary"} \ {lost[r]} :
          lost' = [lost EXCEPT ![r] = what]
    /\ UNCHANGED <<finished, robot, outbox, history>>

RobotStep(p, created) ==
    \/ StartScan(p, created)
    \/ ReadRun(p) \/ MakePair(p) \/ Lock(p) \/ WriteOutbox(p) \/ WriteState(p)

-----------------------------------------------------------------------------
(* Typing. *)

TypeOK ==
    /\ finished \in Seq(Runs) /\ IsInjective(finished)
    /\ lost \in [Runs -> {"nothing", "inputs", "summary"}]
    /\ robot \in [Owners -> [pc : PC, unread : 0..NRuns, before : SUBSET Runs,
                             found : SUBSET Runs, pair : Pairs \cup {NoPair},
                             sent : Seq(Pairs)]]
    /\ outbox \in [Pairs -> Nat]
    /\ history \in Seq(Pairs) /\ Len(history) <= HistoryLimit

\* Where a run stands among the finished ones.
Position(r) == CHOOSE i \in DOMAIN finished : finished[i] = r
=============================================================================
