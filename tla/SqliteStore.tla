----------------------------- MODULE SqliteStore -----------------------------
(***************************************************************************)
(* The SQLite queue of repositories/sqlite_store.py: the tables runs and   *)
(* steps, and one action per method.  A method is one BEGIN IMMEDIATE      *)
(* transaction, hence one atomic step.  The callers are open: any worker   *)
(* may call any method at any time with any arguments that step_worker.py  *)
(* or step_executor.py could form.                                         *)
(*                                                                         *)
(* Time.  The code compares ISO timestamps with a "now" that each method   *)
(* reads BEFORE its transaction starts, and the transaction may then wait  *)
(* for the write lock up to the busy timeout.  Timestamps are kept here    *)
(* relative to the present (lease and retryIn count down), and each method *)
(* takes the age d \in Lags of the "now" it uses.                          *)
(***************************************************************************)
EXTENDS Pipeline

CONSTANTS
    NRuns,          \* bound: how many runs are ever created
    Workers,        \* worker identities; a restarted worker takes a fresh one
    Keys,           \* cache keys, which name the artifacts
    Null,           \* the JSON null
    Lease,          \* worker_lease_seconds
    RetryDelay,     \* the back-off of execute() (one second)
    MaxWait,        \* the busy timeout: the greatest age of a "now"
    ForceRefresh    \* the runs created with params.force_refresh

\* The error codes of a step that the code tells apart.
Errors == {"LEASE_EXPIRED", "DEPENDENCY_INVALID", "FILTER_ERROR"}

ASSUME NRunsAssumption == NRuns \in Nat \ {0}
ASSUME NullAssumption == /\ Null \notin Int /\ Null \notin Errors
                         /\ Null \notin Workers /\ Null \notin Keys
ASSUME TimeAssumption == /\ Lease \in Nat /\ RetryDelay \in Nat /\ MaxWait \in Nat
                         /\ MaxWait <= Lease
ASSUME ForceRefreshAssumption == ForceRefresh \subseteq 1..NRuns

VARIABLES
    pipelines,      \* runs.pipeline_json: status and request (refresh_nonce)
    steps           \* steps.step_json, by run and step

vars == <<pipelines, steps>>

Runs == 1..NRuns       \* numbered in the order of creation, which is rowid order
Lags == 0..MaxWait

\* A step row.  lease is the time left until lease_until (negative: expired),
\* retryIn the time left until next_retry_at; both are kept no further in the
\* past than a stale "now" can tell apart.  out is output_manifest_path and key
\* is output_cache_key, each named by the artifact's cache key.
Row == [status  : StepStatus \cup {"absent"},
        worker  : Workers \cup {Null},
        attempt : Nat,
        lease   : (-(MaxWait + 1)..Lease) \cup {Null},
        retryIn : (-MaxWait..RetryDelay) \cup {Null},
        error   : Errors \cup {Null},
        key     : Keys \cup {Null},
        out     : Keys \cup {Null}]
Pipeline == [status : PipelineStatus \cup {"absent"}, nonce : BOOLEAN]

\* step_doc: the row of a step that nothing has happened to.
BlankRow(status) ==
    [status |-> status, worker |-> Null, attempt |-> 0, lease |-> Null,
     retryIn |-> Null, error |-> Null, key |-> Null, out |-> Null]

Init == /\ pipelines = [r \in Runs |-> [status |-> "absent", nonce |-> FALSE]]
        /\ steps = [r \in Runs |-> [i \in Steps |-> BlankRow("absent")]]

-----------------------------------------------------------------------------
(* The queries the methods share. *)

Created(r) == pipelines[r].status # "absent"

StatusesOf(rows) == [i \in Steps |-> rows[i].status]

\* _deps_ok: persisted statuses only; the artifacts are not looked at.
DepsOK(rows, i) == \A j \in DependsOn(i) : rows[j].status \in OK

\* Mutant: the lease of the owner is not compared with the clock.
OwnedRunningWithoutLease(row, w, a, d) ==
    row.status = "running" /\ row.worker = w /\ row.attempt = a /\ d \in Lags

\* _owned_running_step: the compare-and-set guard of every write of a worker.
OwnedRunning(row, w, a, d) ==
    /\ row.status = "running" /\ row.worker = w /\ row.attempt = a
    /\ row.lease # Null /\ row.lease + d >= 0

\* The rows recover_expired_leases selects.
Expired(row, d) ==
    row.status = "running" /\ row.lease # Null /\ row.lease + d < 0

\* Mutant: the time of the next try is not looked at, only whether there is one.
ClaimableReadyOnly(rows, i, d) ==
    /\ rows[i].status \in {"ready", "retrying"} /\ rows[i].retryIn = Null
    /\ d \in Lags /\ DepsOK(rows, i)

\* The rows claim_ready_step selects, and its dependency test.
Claimable(rows, i, d) ==
    /\ \/ rows[i].status = "ready"
       \/ /\ rows[i].status = "retrying"
          /\ rows[i].retryIn = Null \/ rows[i].retryIn + d <= 0
    /\ DepsOK(rows, i)

\* Mutant: a step is promoted without looking at its dependencies.
PromotedAll(rows) ==
    [i \in Steps |-> IF rows[i].status \in {"pending", "blocked"}
                     THEN [rows[i] EXCEPT !.status = "ready", !.error = Null]
                     ELSE rows[i]]

\* Mutant: the promotion is forgotten.
PromotedNone(rows) == rows

\* promote_ready_steps, inside the caller's transaction.
Promoted(rows) ==
    [i \in Steps |->
        IF rows[i].status \in {"pending", "blocked"} /\ DepsOK(rows, i)
        THEN [rows[i] EXCEPT !.status = "ready", !.error = Null,
                             !.worker = Null, !.lease = Null]
        ELSE rows[i]]

\* _refresh_pipeline for every run of the set S, whose new rows are all[r].
Refreshed(S, all) ==
    [r \in Runs |->
        IF r \in S
        THEN [pipelines[r] EXCEPT !.status = DerivedStatus(StatusesOf(all[r]))]
        ELSE pipelines[r]]

-----------------------------------------------------------------------------
(* The methods that create and restart runs, called by the API. *)

\* create, after JobService.create filled in the request.
Create(r) ==
    /\ ~Created(r)
    /\ \A q \in 1..(r - 1) : Created(q)
    /\ pipelines' = [pipelines EXCEPT ![r] = [status |-> "queued", nonce |-> FALSE]]
    /\ steps' = [steps EXCEPT ![r] = [i \in Steps |-> BlankRow(FirstStatus(i))]]

\* save_pipeline: the whole document is replaced by the caller's copy p.  Only
\* JobService.create calls it, for a run with force_refresh, to add the nonce
\* to a copy it read earlier.
SavePipeline(r, p) ==
    /\ Created(r)
    /\ pipelines' = [pipelines EXCEPT ![r] = p]
    /\ UNCHANGED steps

\* Mutant: the finished steps are restarted too.
RestartedAll(row, i) ==
    [row EXCEPT !.status = FirstStatus(i), !.attempt = 0, !.error = Null,
                !.retryIn = Null, !.worker = Null, !.lease = Null]

\* Mutant: the attempts are not reset.
RestartedKeepsAttempt(row, i) ==
    IF row.status \in OK THEN row
    ELSE [row EXCEPT !.status = FirstStatus(i), !.error = Null,
                     !.retryIn = Null, !.worker = Null, !.lease = Null]

\* What retry_pipeline makes of a step: an unfinished one starts over.
Restarted(row, i) ==
    IF row.status \in OK THEN row
    ELSE [row EXCEPT !.status = FirstStatus(i), !.attempt = 0, !.error = Null,
                     !.retryIn = Null, !.worker = Null, !.lease = Null]

CanRetry(r) ==
    /\ \A i \in Steps : steps[r][i].status # "running"
    /\ pipelines[r].status \in {"failed", "blocked"}

\* retry_pipeline (otherwise the request is answered 409 and nothing changes).
RetryPipeline(r) ==
    /\ CanRetry(r)
    /\ pipelines' = [pipelines EXCEPT ![r].status = "queued"]
    /\ steps' = [steps EXCEPT ![r] = Promoted([i \in Steps |-> Restarted(@[i], i)])]

-----------------------------------------------------------------------------
(* The methods the workers call.  A worker write that OwnedRunning refuses    *)
(* changes nothing and returns False; it is a stuttering step here.          *)

\* Mutant: the lease is counted from a "now" that is ahead.
ClaimedRowAhead(row, w, d) ==
    [row EXCEPT !.status = "running", !.worker = w, !.lease = Lease + d,
                !.attempt = @ + 1, !.error = Null]

\* What claim_ready_step writes into the row.  next_retry_at is left as it is.
ClaimedRow(row, w, d) ==
    [row EXCEPT !.status = "running", !.worker = w, !.lease = Lease - d,
                !.attempt = @ + 1, !.error = Null]

\* claim_ready_step: a worker of step type i takes the oldest run it can.
ClaimReadyStep(r, i, w, d) ==
    /\ Claimable(steps[r], i, d)
    /\ \A q \in 1..(r - 1) : ~Claimable(steps[q], i, d)
    /\ steps' = [steps EXCEPT ![r][i] = ClaimedRow(@, w, d)]
    /\ pipelines' = [pipelines EXCEPT ![r].status = "running"]

HeartbeatStep(r, i, w, a, d) ==
    /\ OwnedRunning(steps[r][i], w, a, d)
    /\ steps' = [steps EXCEPT ![r][i].lease = Lease - d]
    /\ UNCHANGED pipelines

\* prepare_claimed_step when the dependencies are valid: the inputs and the key.
PrepareClaimedStep(r, i, w, a, k, d) ==
    /\ OwnedRunning(steps[r][i], w, a, d)
    /\ steps' = [steps EXCEPT ![r][i].key = k, ![r][i].error = Null]
    /\ UNCHANGED pipelines

\* prepare_claimed_step when claim_one gives the step back: blocked for an
\* invalid dependency, pending for an unfinished one.  updates has a status,
\* so the run is refreshed.
GivenBack(row, st) ==
    [row EXCEPT !.status = st, !.worker = Null, !.lease = Null,
                !.error = IF st = "blocked" THEN "DEPENDENCY_INVALID" ELSE Null]

RefuseClaimedStep(r, i, w, a, st, d) ==
    /\ OwnedRunning(steps[r][i], w, a, d)
    /\ steps' = [steps EXCEPT ![r][i] = GivenBack(@, st)]
    /\ pipelines' = Refreshed({r}, steps')

\* Mutant: the path of the output is not written.
FinishedRowWithoutPath(row, st, k) ==
    [row EXCEPT !.status = st, !.out = IF k \in Keys THEN Null ELSE k,
                !.error = Null, !.worker = Null, !.lease = Null]

\* What finish_step writes into the row.
FinishedRow(row, st, k) ==
    [row EXCEPT !.status = st, !.out = k, !.error = Null,
                !.worker = Null, !.lease = Null]

FinishStep(r, i, w, a, st, k, d) ==
    /\ OwnedRunning(steps[r][i], w, a, d)
    /\ steps' = [steps EXCEPT ![r] =
                    Promoted([steps[r] EXCEPT ![i] = FinishedRow(@, st, k)])]
    /\ pipelines' = Refreshed({r}, steps')

\* Mutant: the owner and the lease stay in the row.
FailedRowKeepsLease(row, retry, d) ==
    [row EXCEPT !.status = IF retry THEN "retrying" ELSE "failed",
                !.retryIn = IF retry THEN RetryDelay - d ELSE Null,
                !.error = "FILTER_ERROR"]

\* Mutant: the back-off grows with the attempts.
FailedRowWaitsLonger(row, retry, d) ==
    [row EXCEPT !.status = IF retry THEN "retrying" ELSE "failed",
                !.retryIn = IF retry THEN RetryDelay * (row.attempt + 1) - d ELSE Null,
                !.error = "FILTER_ERROR", !.worker = Null, !.lease = Null]

\* fail_or_retry_step: the caller decides whether there is a next attempt, by
\* passing a next_retry_at or not.
FailedRow(row, retry, d) ==
    [row EXCEPT !.status = IF retry THEN "retrying" ELSE "failed",
                !.retryIn = IF retry THEN RetryDelay - d ELSE Null,
                !.error = "FILTER_ERROR", !.worker = Null, !.lease = Null]

FailOrRetryStep(r, i, w, a, retry, d) ==
    /\ OwnedRunning(steps[r][i], w, a, d)
    /\ steps' = [steps EXCEPT ![r][i] = FailedRow(@, retry, d)]
    /\ pipelines' = Refreshed({r}, steps')

\* Mutant: the last attempt is retried too.
RecoveredAlways(row, i, d) ==
    [row EXCEPT !.status = "retrying", !.retryIn = -d,
                !.error = "LEASE_EXPIRED", !.worker = Null, !.lease = Null]

\* What recover_expired_leases writes into an expired row.
Recovered(row, i, d) ==
    [row EXCEPT !.status = IF row.attempt < MaxAttempts[i] THEN "retrying" ELSE "failed",
                !.retryIn = IF row.attempt < MaxAttempts[i] THEN -d ELSE Null,
                !.error = "LEASE_EXPIRED", !.worker = Null, !.lease = Null]

\* The runs recover_expired_leases touches.
ExpiredRuns(d) == {r \in Runs : \E i \in Steps : Expired(steps[r][i], d)}

\* recover_expired_leases: every expired row of every run in one transaction.
RecoverExpiredLeases(d) ==
    /\ ExpiredRuns(d) # {}
    /\ steps' = [r \in Runs |-> [i \in Steps |->
                    IF Expired(steps[r][i], d) THEN Recovered(steps[r][i], i, d)
                                               ELSE steps[r][i]]]
    /\ pipelines' = Refreshed(ExpiredRuns(d), steps')

-----------------------------------------------------------------------------
\* One unit of time passes.  Times further in the past than any "now" are not
\* told apart.
Later(t, floor) == IF t = Null THEN Null ELSE IF t > floor THEN t - 1 ELSE t

Tick ==
    /\ steps' = [r \in Runs |-> [i \in Steps |->
                    [steps[r][i] EXCEPT !.lease = Later(@, -(MaxWait + 1)),
                                        !.retryIn = Later(@, -MaxWait)]]]
    /\ UNCHANGED pipelines

\* The calls of a worker w about step i of run r, in attempt a, that are not
\* refused.  execute() passes a next_retry_at while attempts are left; claim_one
\* says pending only for a dependency that is unfinished.
WorkerCall(r, i, w, a, d) ==
    /\ OwnedRunning(steps[r][i], w, a, d)
    /\ \/ HeartbeatStep(r, i, w, a, d)
       \/ \E k \in Keys : PrepareClaimedStep(r, i, w, a, k, d)
       \/ \E st \in {"blocked", "pending"} :
             /\ st = "pending" => ~DepsOK(steps[r], i)
             /\ RefuseClaimedStep(r, i, w, a, st, d)
       \/ \E st \in OK, k \in Keys : FinishStep(r, i, w, a, st, k, d)
       \/ FailOrRetryStep(r, i, w, a, a < MaxAttempts[i], d)

Next ==
    \/ \E r \in Runs :
          \/ Create(r)
          \/ RetryPipeline(r)
          \/ r \in ForceRefresh
                /\ \E st \in PipelineStatus :
                      SavePipeline(r, [status |-> st, nonce |-> TRUE])
    \/ \E r \in Runs, i \in Steps, w \in Workers, d \in Lags :
          \/ ClaimReadyStep(r, i, w, d)
          \/ \E a \in 1..MaxAttempts[i] : WorkerCall(r, i, w, a, d)
    \/ \E d \in Lags : RecoverExpiredLeases(d)
    \/ Tick

Spec == Init /\ [][Next]_vars

-----------------------------------------------------------------------------
(* Properties. *)

\* The tables hold what the schema and the documents allow.
TypeOK == /\ pipelines \in [Runs -> Pipeline]
          /\ steps \in [Runs -> [Steps -> Row]]

\* A step is pending exactly while the step before it is unfinished: no method
\* starts a step too early, and none forgets to promote one (a pending step
\* whose dependencies are finished would never be looked at again).
PendingIffWaiting ==
    \A r \in Runs, i \in Steps :
        Created(r) => (steps[r][i].status = "pending" <=> ~DepsOK(steps[r], i))

\* Exactly the running steps have an owner and a lease: a running step without
\* a lease would escape recover_expired_leases for ever, and a leftover owner
\* would let a stale worker write.
LeaseIffRunning ==
    \A r \in Runs, i \in Steps :
        LET row == steps[r][i] IN
        /\ row.status = "running" <=> row.worker # Null
        /\ row.status = "running" <=> row.lease # Null

\* The attempts of a step: none before it starts, never more than max_attempts
\* although claim_ready_step does not compare them, and a step has failed only
\* when all of them are used.
AttemptsBounded ==
    \A r \in Runs, i \in Steps :
        LET row == steps[r][i] IN
        /\ row.attempt <= MaxAttempts[i]
        /\ row.status \in {"absent", "pending", "ready"} <=> row.attempt = 0
        /\ row.status = "retrying" => row.attempt < MaxAttempts[i]
        /\ row.status = "failed" => row.attempt = MaxAttempts[i]

\* The status of a run says what its steps say, although the methods refresh it
\* only when they think they must: claim and retry set it outright, heartbeat
\* and a plain prepare leave it alone.  (A run with force_refresh is exempt:
\* save_pipeline may bring back an old document.)
PipelineAgrees ==
    \A r \in Runs \ ForceRefresh :
        LET st == StatusesOf(steps[r]) IN
        Created(r) =>
            /\ pipelines[r].status = "queued" => DerivedStatus(st) = "running"
            /\ pipelines[r].status # "queued" => pipelines[r].status = DerivedStatus(st)

\* A run that is not finished can always go on: either one of its steps is
\* there for a worker to take, to finish or to lose, or the user may retry it;
\* and never both, so that a retry cannot race with a worker.
NeverStuck ==
    \A r \in Runs \ ForceRefresh :
        Created(r) /\ pipelines[r].status # "succeeded" =>
            (CanRetry(r) <=> ~\E i \in Steps :
                                /\ steps[r][i].status \in {"ready", "retrying", "running"}
                                /\ DepsOK(steps[r], i))

\* A finished step is never run, refused, recovered or retried again, and its
\* output stays what it was: the downstream steps rely on it.
FinishedIsFinal ==
    [][\A r \in Runs, i \in Steps :
          steps[r][i].status \in OK =>
              /\ steps'[r][i].status = steps[r][i].status
              /\ steps'[r][i].out = steps[r][i].out]_vars

\* The lease is honoured with clocks that are up to MaxWait behind: recovery
\* never takes a step whose lease has not run out, and the owner never ends a
\* step whose lease has been over for longer than MaxWait.
LeaseHonoured ==
    [][\A r \in Runs, i \in Steps :
          steps[r][i].status = "running" /\ steps'[r][i].status # "running" =>
              IF steps'[r][i].error = "LEASE_EXPIRED" THEN steps[r][i].lease < 0
                                                      ELSE steps[r][i].lease >= -MaxWait]_vars

-----------------------------------------------------------------------------
(* What the queue promises: RunProgress. *)

\* The steps finish in order (PendingIffWaiting), so a run whose rows are rows
\* has finished the steps 1..Stage(rows), and the next one is at hand.
Stage(rows) == Cardinality({i \in Steps : rows[i].status \in OK})
Current(rows) == rows[Stage(rows) + 1]

ModeOf(status) == CASE status = "absent"                -> "absent"
                    [] status = "running"               -> "owned"
                    [] status \in {"failed", "blocked"} -> "stopped"
                    [] OTHER                            -> "waiting"

Mode(rows) == IF Stage(rows) = NSteps THEN "done" ELSE ModeOf(Current(rows).status)
Owner(rows) == IF Stage(rows) = NSteps THEN Null ELSE Current(rows).worker
Tries(rows) == IF Stage(rows) = NSteps THEN 0 ELSE Current(rows).attempt

Progress == INSTANCE RunProgress WITH
    mode  <- [r \in Runs |-> Mode(steps[r])],
    stage <- [r \in Runs |-> Stage(steps[r])],
    owner <- [r \in Runs |-> Owner(steps[r])],
    tries <- [r \in Runs |-> Tries(steps[r])]

\* The store implements the abstract progress of runs: step by step in order,
\* one owner at a time, a bounded number of tries for each step.
ImplementsProgress == Progress!Spec
=============================================================================
