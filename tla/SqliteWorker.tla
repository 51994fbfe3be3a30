----------------------------- MODULE SqliteWorker -----------------------------
(***************************************************************************)
(* The worker processes of pipeline/step_worker.py and step_executor.py at *)
(* work on the SQLite store: recover, claim, inspect the dependencies,     *)
(* prepare, execute under the artifact lock, heartbeat, finish or fail.    *)
(* With them the API (create, force_refresh, retry), the artifacts on disk *)
(* and the passing of time.  Each action is one transaction of the store,  *)
(* or the work a process does between two of them.                         *)
(*                                                                         *)
(* Every worker is a process of its own (docker-compose.yml starts one per *)
(* step type; nothing prevents a second).  A crashed process does not come *)
(* back: its successor has a fresh worker_id, so it is another worker.     *)
(***************************************************************************)
EXTENDS Pipeline

CONSTANTS
    NRuns, Workers, Null, Lease, RetryDelay, MaxWait, ForceRefresh, \* SqliteStore
    StepOf,         \* the step type a worker serves
    Crashable,      \* the workers that may crash
    Replaces,       \* the worker whose crash a worker waits for to be started, or Null
    ParamsOf,       \* what the cache key sees of a run's params: equal or not
    UsesParams,     \* the steps whose cache key includes the params
    MaxLosses,      \* bound: how many artifacts are lost or damaged
    MaxCommits      \* bound: how many artifacts are committed

ASSUME StepOfAssumption == StepOf \in [Workers -> Steps]
ASSUME CrashableAssumption == Crashable \subseteq Workers
ASSUME ReplacesAssumption == Replaces \in [Workers -> Crashable \cup {Null}]
ASSUME RunsAssumption == NRuns \in Nat \ {0} /\ ForceRefresh \subseteq 1..NRuns
ASSUME TimeAssumption == /\ Lease \in Nat /\ RetryDelay \in Nat /\ MaxWait \in Nat
                         /\ MaxWait <= Lease
ASSUME MaxCommitsAssumption == MaxCommits \in Nat

VARIABLES
    pipelines, steps,   \* the database: see SqliteStore
    artifacts, commits, \* the artifacts on disk: see Artifacts
    worker,             \* the local state of each worker
    copy                \* JobService.create: the pipeline document it read

db == <<pipelines, steps>>
vars == <<pipelines, steps, artifacts, commits, worker, copy>>

Runs == 1..NRuns

-----------------------------------------------------------------------------
(* Cache keys (build_cache_key of the filters). *)

\* What a key sees of the params: a refresh_nonce makes them unique to the run.
Lines == {<<"params", p>> : p \in {ParamsOf[r] : r \in Runs}}
             \cup {<<"refresh", r>> : r \in ForceRefresh} \cup {<<"unused", 0>>}
ArtifactKeys == [step : Steps, line : Lines, input : 0..MaxCommits]

DB == INSTANCE SqliteStore WITH Keys <- ArtifactKeys
Art == INSTANCE Artifacts WITH Keys <- ArtifactKeys

\* The JSON null is none of the values it stands beside in a column.
ASSUME NullAssumption == /\ Null \notin Int /\ Null \notin DB!Errors
                         /\ Null \notin Workers /\ Null \notin ArtifactKeys

Line(r) == IF pipelines[r].nonce THEN <<"refresh", r>> ELSE <<"params", ParamsOf[r]>>

\* The input of step i of run r: the output of the step it depends on.
Inputs(r, i) == {steps[r][j].out : j \in DependsOn(i)}

\* Mutant: the key leaves out the hash of the input manifest.
CacheKeyWithoutInput(r, i) ==
    [step  |-> i,
     line  |-> IF i \in UsesParams THEN Line(r) ELSE <<"unused", 0>>,
     input |-> 0]

CacheKey(r, i) ==
    [step  |-> i,
     line  |-> IF i \in UsesParams THEN Line(r) ELSE <<"unused", 0>>,
     input |-> IF DependsOn(i) = {} THEN 0 ELSE Art!Gen(CHOOSE k \in Inputs(r, i) : TRUE)]

-----------------------------------------------------------------------------
(* The local state of a worker: what claim_one and execute hold in variables. *)

PC == {"unborn",        \* not started yet
       "idle",          \* in run_forever, before recover()
       "polling",       \* before claim_ready_step
       "claimed",       \* has a step, has not looked at its dependencies
       "inspected",     \* knows attempt, verdict and key; before prepare
       "prepared",      \* before execute() reads the step again
       "waiting",       \* in flock of the artifact lock: the event loop is blocked
       "filtering",     \* awaits filt.run under the artifact lock
       "finishing",     \* has an artifact, before finish_step, under the lock
       "failing",       \* in the except clause, before fail_or_retry_step
       "dead"}

Idle == [pc |-> "idle", run |-> 0, attempt |-> 0, owner |-> Null, key |-> Null,
         outcome |-> Null, beating |-> FALSE, shared |-> FALSE]

Goto(w, rec) == worker' = [worker EXCEPT ![w] = rec]
At(w, pc) == worker[w].pc = pc
RowOf(w) == steps[worker[w].run][StepOf[w]]

\* The artifact lock is a file lock: a process that exits releases it.
HoldsLock(w, k) == worker[w].pc \in {"filtering", "finishing"} /\ worker[w].key = k

Init == /\ DB!Init
        /\ Art!Init
        /\ worker = [w \in Workers |-> IF Replaces[w] = Null THEN Idle
                                                          ELSE [Idle EXCEPT !.pc = "unborn"]]
        /\ copy = [r \in Runs |-> Null]

-----------------------------------------------------------------------------
(* run_once: recover(), then claim_one(). *)

Recover(w) ==
    /\ At(w, "idle")
    /\ \E d \in DB!Lags : IF DB!ExpiredRuns(d) = {} THEN UNCHANGED db
                                                    ELSE DB!RecoverExpiredLeases(d)
    /\ Goto(w, [Idle EXCEPT !.pc = "polling"])
    /\ UNCHANGED <<artifacts, commits, copy>>

Claim(w) ==
    /\ At(w, "polling")
    /\ \E r \in Runs, d \in DB!Lags :
          /\ DB!ClaimReadyStep(r, StepOf[w], w, d)
          /\ Goto(w, [Idle EXCEPT !.pc = "claimed", !.run = r])
    /\ UNCHANGED <<artifacts, commits, copy>>

NothingToClaim(w) ==
    /\ At(w, "polling")
    /\ \E d \in DB!Lags : \A r \in Runs : ~DB!Claimable(steps[r], StepOf[w], d)
    /\ Goto(w, Idle)
    /\ UNCHANGED <<db, artifacts, commits, copy>>

\* valid_manifest for the output of a finished step: it is where the row says,
\* and was made under the key that the row has.
OutputValid(row) == row.out # Null /\ row.out = row.key /\ Art!Valid(row.out)

\* _deps: what the worker makes of the dependencies of its step.
Verdict(r, i) ==
    LET deps == {steps[r][j] : j \in DependsOn(i)} IN
    CASE \E x \in deps : x.status \in {"failed", "blocked"} \/ x.error = "LEASE_EXPIRED"
                                                       -> "invalid"
      [] \E x \in deps : x.status \notin OK            -> "unavailable"
      [] \E x \in deps : ~OutputValid(x)               -> "invalid"
      [] OTHER                                         -> "valid"

\* claim_one between its two transactions: the step is read again for its
\* attempt, the dependencies are inspected, the key is computed from the
\* request of the run as it is now.
Inspect(w) ==
    /\ At(w, "claimed")
    /\ LET r == worker[w].run
           verdict == Verdict(r, StepOf[w]) IN
       Goto(w, [worker[w] EXCEPT
                    !.pc = "inspected", !.attempt = RowOf(w).attempt, !.outcome = verdict,
                    !.key = IF verdict = "valid" THEN CacheKey(r, StepOf[w]) ELSE Null])
    /\ UNCHANGED <<db, artifacts, commits, copy>>

\* claim_one gives a step back whose dependencies are not valid.
GiveBack(w) ==
    /\ At(w, "inspected") /\ worker[w].outcome # "valid"
    /\ LET me == worker[w]
           result == IF me.outcome = "invalid" THEN "blocked" ELSE "pending" IN
       \E d \in DB!Lags :
          IF DB!OwnedRunning(RowOf(w), w, me.attempt, d)
          THEN DB!RefuseClaimedStep(me.run, StepOf[w], w, me.attempt, result, d)
          ELSE UNCHANGED db
    /\ Goto(w, Idle)
    /\ UNCHANGED <<artifacts, commits, copy>>

Prepare(w) ==
    /\ At(w, "inspected") /\ worker[w].outcome = "valid"
    /\ LET me == worker[w] IN
       \E d \in DB!Lags :
          IF DB!OwnedRunning(RowOf(w), w, me.attempt, d)
          THEN /\ DB!PrepareClaimedStep(me.run, StepOf[w], w, me.attempt, me.key, d)
               /\ Goto(w, [Idle EXCEPT !.pc = "prepared", !.run = me.run])
          ELSE /\ UNCHANGED db
               /\ Goto(w, Idle)
    /\ UNCHANGED <<artifacts, commits, copy>>

-----------------------------------------------------------------------------
(* execute(). *)

\* The first lines: the step is read from the store, and its worker_id and
\* attempt are what this executor will write under.
Begin(w) ==
    /\ At(w, "prepared")
    /\ Goto(w, [worker[w] EXCEPT !.pc = "waiting", !.owner = RowOf(w).worker,
                                 !.attempt = RowOf(w).attempt, !.key = RowOf(w).key])
    /\ UNCHANGED <<db, artifacts, commits, copy>>

\* Mutant: a worker that gets the lock does not look for the artifact again.
FoundInCacheNever(k) == FALSE /\ Art!Valid(k)

\* The check under the lock: was the artifact made in the meantime, or before?
FoundInCache(k) == Art!Valid(k)

LockFree(k) == \A v \in Workers : ~HoldsLock(v, k)

\* The executors at work in the temporary directory of w, which has the name of
\* the run, the step and the attempt: they have other keys, and other locks.
InTmpOf(w) == {v \in Workers \ {w} :
                 /\ At(v, "filtering") /\ StepOf[v] = StepOf[w]
                 /\ worker[v].run = worker[w].run /\ worker[v].attempt = worker[w].attempt}

Acquire(w) ==
    /\ At(w, "waiting")
    /\ LockFree(worker[w].key)
    /\ IF FoundInCache(worker[w].key)
       THEN Goto(w, [worker[w] EXCEPT !.pc = "finishing", !.outcome = "succeeded_cached"])
       ELSE worker' = [v \in Workers |->
               CASE v = w            -> [worker[w] EXCEPT !.pc = "filtering", !.beating = TRUE,
                                                          !.shared = InTmpOf(w) # {}]
                 [] v \in InTmpOf(w) -> [worker[v] EXCEPT !.shared = TRUE]
                 [] OTHER            -> worker[v]]
    /\ UNCHANGED <<db, artifacts, commits, copy>>

\* _heartbeat, while filt.run gives way to it: it sends the attempt the row has
\* now, and ends when it is refused.
Heartbeat(w) ==
    /\ At(w, "filtering") /\ worker[w].beating
    /\ LET me == worker[w] IN
       \E d \in DB!Lags :
          IF DB!OwnedRunning(RowOf(w), me.owner, RowOf(w).attempt, d)
          THEN /\ DB!HeartbeatStep(me.run, StepOf[w], me.owner, RowOf(w).attempt, d)
               /\ UNCHANGED worker
          ELSE /\ UNCHANGED db
               /\ Goto(w, [me EXCEPT !.beating = FALSE])
    /\ UNCHANGED <<artifacts, commits, copy>>

\* The filter reads its input, works, and the artifact is committed; two
\* executors in one temporary directory may spoil each other's.
FilterSucceeds(w) ==
    /\ At(w, "filtering")
    /\ \A k \in Inputs(worker[w].run, StepOf[w]) : Art!Valid(k)
    /\ commits < MaxCommits
    /\ Art!Commit(worker[w].key) \/ (worker[w].shared /\ Art!Spoil)
    /\ Goto(w, [worker[w] EXCEPT !.pc = "finishing", !.outcome = "succeeded",
                                 !.beating = FALSE, !.shared = FALSE])
    /\ UNCHANGED <<db, copy>>

\* The filter raises: a simulated failure, an invalid input, a full disk...
FilterFails(w) ==
    /\ At(w, "filtering")
    /\ Goto(w, [worker[w] EXCEPT !.pc = "failing", !.beating = FALSE, !.shared = FALSE])
    /\ UNCHANGED <<db, artifacts, commits, copy>>

Finish(w) ==
    /\ At(w, "finishing")
    /\ LET me == worker[w] IN
       \E d \in DB!Lags :
          IF DB!OwnedRunning(RowOf(w), me.owner, me.attempt, d)
          THEN DB!FinishStep(me.run, StepOf[w], me.owner, me.attempt, me.outcome, me.key, d)
          ELSE UNCHANGED db
    /\ Goto(w, Idle)
    /\ UNCHANGED <<artifacts, commits, copy>>

\* finish_step raises: the database stays locked for the whole busy timeout.
FinishRaises(w) ==
    /\ At(w, "finishing")
    /\ Goto(w, [worker[w] EXCEPT !.pc = "failing", !.outcome = Null])
    /\ UNCHANGED <<db, artifacts, commits, copy>>

\* Mutant: the comparison with max_attempts is off by one.
RetryOnceMore(w) == worker[w].attempt <= MaxAttempts[StepOf[w]]

\* The except clause decides from the step as it was read in Begin.
WillRetry(w) == worker[w].attempt < MaxAttempts[StepOf[w]]

Fail(w) ==
    /\ At(w, "failing")
    /\ LET me == worker[w] IN
       \E d \in DB!Lags :
          IF DB!OwnedRunning(RowOf(w), me.owner, me.attempt, d)
          THEN DB!FailOrRetryStep(me.run, StepOf[w], me.owner, me.attempt, WillRetry(w), d)
          ELSE UNCHANGED db
    /\ Goto(w, Idle)
    /\ UNCHANGED <<artifacts, commits, copy>>

\* The process ends at any point, by a signal or by an exception that nothing
\* in run_forever catches.
Crash(w) ==
    /\ w \in Crashable /\ ~At(w, "unborn") /\ ~At(w, "dead")
    /\ Goto(w, [Idle EXCEPT !.pc = "dead"])
    /\ UNCHANGED <<db, artifacts, commits, copy>>

\* systemd, or an operator, starts a process in the place of one that has ended.
Start(w) ==
    /\ At(w, "unborn") /\ At(Replaces[w], "dead")
    /\ Goto(w, Idle)
    /\ UNCHANGED <<db, artifacts, commits, copy>>

-----------------------------------------------------------------------------
(* The API and the environment. *)

Create(r) == DB!Create(r) /\ UNCHANGED <<artifacts, commits, worker, copy>>

\* JobService.create goes on for a run with force_refresh: it reads the
\* pipeline document back, adds the nonce to its copy and saves the copy.
ReadForNonce(r) ==
    /\ r \in ForceRefresh /\ DB!Created(r)
    /\ copy[r] = Null /\ ~pipelines[r].nonce
    /\ copy' = [copy EXCEPT ![r] = pipelines[r]]
    /\ UNCHANGED <<db, artifacts, commits, worker>>

SaveNonce(r) ==
    /\ copy[r] # Null
    /\ DB!SavePipeline(r, [copy[r] EXCEPT !.nonce = TRUE])
    /\ copy' = [copy EXCEPT ![r] = Null]
    /\ UNCHANGED <<artifacts, commits, worker>>

Retry(r) == DB!RetryPipeline(r) /\ UNCHANGED <<artifacts, commits, worker, copy>>

\* A file of a committed artifact is deleted or damaged.
LoseArtifact ==
    /\ Art!Lost < MaxLosses
    /\ Art!Lose
    /\ UNCHANGED <<db, worker, copy>>

Tick == DB!Tick /\ UNCHANGED <<artifacts, commits, worker, copy>>

WorkerStep(w) ==
    \/ Recover(w) \/ Claim(w) \/ NothingToClaim(w) \/ Inspect(w) \/ GiveBack(w)
    \/ Prepare(w) \/ Begin(w) \/ Acquire(w) \/ FilterSucceeds(w) \/ FilterFails(w)
    \/ Finish(w) \/ FinishRaises(w) \/ Fail(w)

Next ==
    \/ \E w \in Workers : WorkerStep(w) \/ Heartbeat(w) \/ Crash(w) \/ Start(w)
    \/ \E r \in Runs : Create(r) \/ ReadForNonce(r) \/ SaveNonce(r) \/ Retry(r)
    \/ LoseArtifact
    \/ Tick

Spec == Init /\ [][Next]_vars

\* A worker that has not crashed goes on: filters terminate, a worker in flock
\* gets a lock that stays free, and the clock runs.  Nothing makes the
\* user create or retry a run, the request handler save its copy, a heartbeat
\* come in time, or a process crash.
FairSpec == /\ Spec
            /\ \A w \in Workers : WF_vars(WorkerStep(w)) /\ WF_vars(Start(w))
            /\ WF_vars(Tick)

-----------------------------------------------------------------------------
(* Properties. *)

TypeOK ==
    /\ DB!TypeOK
    /\ artifacts \subseteq [key : ArtifactKeys, gen : 1..commits]
    /\ commits \in 0..MaxCommits
    /\ worker \in [Workers ->
          [pc : PC, run : Runs \cup {0}, attempt : Nat, owner : Workers \cup {Null},
           key : ArtifactKeys \cup {Null}, beating : BOOLEAN, shared : BOOLEAN,
           outcome : OK \cup {"valid", "invalid", "unavailable", Null}]]
    /\ copy \in [Runs -> DB!Pipeline \cup {Null}]

\* The workers call the store as it expects to be called: whatever they have
\* read or kept in their variables, every write they get through is a step of
\* SqliteStore, with its contract about attempts and refusals.
ImplementsStore == DB!Spec

\* The runs make the progress that RunProgress promises, whatever the workers,
\* the clock, the API and the losses of artifacts do together: step by step in
\* order, one owner at a time, a bounded number of tries for each step.
ImplementsProgress == DB!ImplementsProgress

\* The output of every finished step is of its type, was made from this run's
\* params, and names as its input the output of the preceding step: as long as
\* no artifact is lost, both are there, and it is this very manifest; whatever
\* was lost and made again, it never is a manifest of anything else.
\* (force_refresh is a property of its own.)
ResultTraceable ==
    \A r \in Runs \ ForceRefresh, i \in Steps :
        steps[r][i].status \in OK =>
            LET k == steps[r][i].out IN
            /\ k.step = i
            /\ i \in UsesParams => k.line = <<"params", ParamsOf[r]>>
            /\ \A j \in DependsOn(i), a \in artifacts :
                  a.gen = k.input => a.key = steps[r][j].out
            /\ Art!Lost = 0 => /\ Art!Valid(k)
                               /\ \A j \in DependsOn(i) : k.input = Art!Gen(steps[r][j].out)

\* Nobody computes an artifact that is there: of the workers that want the
\* same artifact, for one run or for several, one makes it and the others,
\* who queue for its lock, find it.
ComputedOnce == \A w \in Workers : At(w, "filtering") => ~Art!Valid(worker[w].key)

\* Two executors have finished the step before step i with two keys: the row has
\* the path of one artifact and the key of another.
Mismatched(r, i) == \E j \in DependsOn(i) : /\ steps[r][j].out # Null
                                            /\ steps[r][j].out # steps[r][j].key

\* As long as no artifact is lost, lost leases, crashes, retries and refused or
\* late writes never look like an invalid dependency, but for one case: in a
\* run with force_refresh a worker that has computed the key without the nonce
\* may end the step of another that has computed it with the nonce.  (The two may
\* also be in one temporary directory and spoil an artifact, which is then lost.)
BlockedForCause ==
    \A r \in Runs, i \in Steps :
        steps[r][i].status = "blocked" =>
            Art!Lost > 0 \/ (r \in ForceRefresh /\ Mismatched(r, i))

\* Every run that has been created or retried settles, although workers crash
\* and leases expire at any time.
Settles ==
    \A r \in Runs : pipelines[r].status \in {"queued", "running"}
                       ~> pipelines[r].status \in {"succeeded", "failed", "blocked"}

-----------------------------------------------------------------------------
(* What the repository says and the code does not keep: see PROJECT.json. *)

\* "A stale executor's finish does not write metadata"
\* (tests/backend/test_sqlite_runtime.py): when finish_step changes a step,
\* the worker that called it is the worker that has the step.
StaleFinishWritesNothing ==
    [][\A w \in Workers :
          At(w, "finishing") /\ worker'[w].pc = "idle" /\ steps' # steps
              => RowOf(w).worker = w]_vars

\* "force_refresh changes the fetch cache key" (tests/backend/
\* test_pipeline_foundations.py): a run whose request has the nonce does not
\* take for its fetch what another run has fetched.
ForceRefreshHonoured ==
    \A r \in ForceRefresh, q \in Runs :
        /\ pipelines[r].nonce
        /\ steps[r][1].status = "succeeded_cached"
        /\ steps[q][1].status = "succeeded"
        => steps[r][1].out # steps[q][1].out
=============================================================================
