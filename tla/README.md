# Verification of the DataFilter pipeline

The program runs a chain of filters (`fetch_raw`, `unzip_package`,
`analyze_phrase_stats`, `summarize_result`) over batches of data. It runs in two
ways. By default one process holds the API and a worker task per step type, and
keeps runs and steps in JSON files. With `METADATA_STORE=sqlite` an API process
creates runs, and one worker process per step type claims steps from a queue in
SQLite and executes them under file locks. Both commit content-addressed
artifacts to disk, and both have leases: a worker that stops sending heartbeats
loses its step to whoever runs the recovery next.

This directory holds TLA+ models of that machinery, TLC configurations that
check them on small instances, and TLAPS proofs that hold for every value of
the constants.

## Inventory of the system

| Component | Source (`src/backend/app/`) | State | Operations | What makes it correct |
|---|---|---|---|---|
| Template, vocabulary | `pipeline/templates.py`, `pipeline/models.py` | none | the chain, the statuses | the status of a run is derived from its steps |
| SQLite store | `repositories/sqlite_store.py` | tables `runs`, `steps` | create, claim, heartbeat, prepare, finish, fail/retry, recover, promote, retry | steps in order, one owner, bounded attempts, nothing stranded, finished is final |
| Step worker | `pipeline/step_worker.py`, `worker.py`, `pipeline/worker_manager.py` | local variables between two transactions | recover, claim, inspect dependencies, compute key, prepare | keeps to the store's contract although what it read may be old |
| Step executor | `pipeline/step_executor.py` | local copy of the step, heartbeat task | lock, look in the cache, filter, commit, finish or fail | the artifact is computed once, the output belongs to the run |
| Artifact store | `repositories/artifact_store.py` | files under `artifacts/`, `tmp/` | tmp_dir, commit, valid_manifest, clean_tmp | a manifest exists only for a complete artifact |
| File locks | `repositories/lock_store.py` | `flock` files | step, artifact and named locks | mutual exclusion between processes |
| Job service | `services/job_service.py` | none | create (with `force_refresh`), retry | a request is honoured as a whole |
| Recovery | `pipeline/recovery.py` | none | SQLite: expired leases; JSON: a pass over all runs | a crashed worker's step goes on |
| JSON store | `repositories/run_store.py` | one file per run and step, an index | create, save, list, import into SQLite | wherever the process ends, the files add up again |
| Periodic trigger | `pipeline/periodic.py` | none | create a scheduled run unless one is active | it never creates a second active one, and it goes on |
| Notification robot | `pipeline/notification_robot.py` | outbox files, state file | compare the two newest results, send once | no pair is sent twice, the newest one is sent |
| Compare, results | `services/compare_service.py`, `services/result_service.py` | none | check provenance, compute differences | the compared data belong to the runs, a finished run can be read |
| Metrics, routes, auth, config | `services/metrics_service.py`, `api/`, `core/`, `main.py` | none | read and pass on | |
| Legacy runner | `pipeline/runner.py`, `pipeline/scheduler.py` | | dead: nothing starts it | |

Interactions, SQLite. The API and every worker share the database and the data
directory, and nothing else. A worker's pass is: `recover()` (one transaction),
`claim_ready_step` (one transaction), reads of the run, the artifacts and the
request (no transaction), `prepare_claimed_step`, then `execute()`, which reads
the step again, waits for the artifact lock, awaits the filter while a
heartbeat task extends the lease, commits, and calls `finish_step` or
`fail_or_retry_step`. Between any two of these another worker, the API, a crash
or the clock may come.

Interactions, JSON. Everything happens on one event loop. `recover()`,
`claim_one()`, `create`, `retry` and the end of `execute()` are plain calls that
nothing can interrupt but the end of the process; another task gets the loop
only while a filter awaits (`delay_ms`), while `execute()` awaits the heartbeat it
has cancelled, and while an idle worker sleeps. What `execute()` read before it
awaited it writes back whole afterwards.

Beside the server, on its event loop, run a trigger that creates scheduled runs and a
robot that announces the two newest results; requests read results through the
provenance chain of manifests. All of them read runs and artifacts one after the other
while workers go on.

What is hard: identity and attempt are read again in `execute()`; a waiting
`flock` blocks the event loop and with it the heartbeat; every method reads its
clock before it waits for the database; the status of a run is sometimes
refreshed and sometimes set; `force_refresh` is added in a second, unguarded
write; artifacts are shared by runs and may be lost; a JSON run is many files and each is
replaced by itself; the trigger and the robot act on what they read run by run; an
artifact that is made again has a new hash. `PROJECT.json` lists each hazard at its line.

## Modules

| Module | Models |
|---|---|
| `Pipeline` | the chain of steps, the statuses, `DerivedStatus` (`_refresh_pipeline`) |
| `SqliteStore` | the queue: `pipelines` is the table `runs`, `steps` the table `steps`; one action per method, open callers |
| `RunProgress` | the abstract promise of the queue: step by step, one owner, bounded tries |
| `SqliteWorker` | worker processes, artifacts, locks, API and time around an instance `DB` of `SqliteStore` |
| `Artifacts` | the abstract artifact store: an artifact is absent or complete |
| `ArtifactStore` | the same store file by file: attempts under the lock, a reader without it, `clean_tmp` |
| `JsonServer` | the default mode: the event loop, its tasks, the JSON files, the process that ends and starts |
| `RecordDiff` | the record difference of `CompareService`, and what it should be |
| `CompareService` | requests that read results while runs are executed and artifacts are lost |
| `NotificationRobot` | the robot: scan, lock, outbox file, state file |
| `PeriodicTrigger` | the trigger: two passes over the runs, then a creation |
| `Background` | both of them and the request handlers on one event loop, over `RunProgress` |
| `MCSqliteStore`, `MCSqliteWorker`, `MCArtifactStore`, `MCJsonServer`, `MCCompareService`, `MCBackground` | instances for TLC |
| `SqliteStore_proofs`, `ArtifactStore_proofs` | theorems about `SqliteStore` and `ArtifactStore` |
| `SqliteRefinement_proofs` | the proof that `SqliteStore` implements `RunProgress` |
| `SqliteWorker_proofs` | theorems about the worker processes, and that they implement the store |
| `CompareService_proofs`, `RecordDiff_proofs` | theorems about requests, and that the record difference is exact |
| `Background_proofs` | theorems about the robots and the trigger |
| `JsonServer_proofs` | theorems about the default mode |

`SqliteStore`. Each method is a `BEGIN IMMEDIATE` transaction, so it is one
action, with everything the method calls: `FinishStep` writes the row, promotes
the next step and refreshes the run. What a method writes into a row is an
operator (`ClaimedRow`, `FinishedRow`, `FailedRow`, `Recovered`, `Restarted`).
A write of a worker is guarded by `OwnedRunning`, the compare-and-set of
`_owned_running_step`; a refused one changes nothing. Timestamps are relative to
the present: `lease` is the time left, `Tick` lets one unit pass. The `now` of a
call may be up to `MaxWait` old, because it is read before `BEGIN IMMEDIATE`,
which may wait for `sqlite_busy_timeout_ms`: each method takes such an age `d`.
`updated_at`, `heartbeat_at`, `finished_at`, the events table and the input list
are left out; nothing in the queue reads them.

`SqliteWorker`. `worker[w]` holds what `claim_one` and `execute` keep in local
variables, and `pc` says between which two transactions the process is. An
artifact is a pair of a cache key and a generation `gen`, which stands for the
hash of its manifest (the manifest holds its time of creation, so every commit
has its own). `CacheKey` is what the `build_cache_key` methods hash: the step
type, the params where they are hashed, the hash of the input manifest.
`Verdict` is `_deps`: an output counts only if its path is there, its manifest has the
cache key of the row (`OutputValid`) and its files are intact. Path and key of a row may
differ: a stale executor that took its successor's identity from the row works with the
key of that moment, the nonce is saved, the successor prepares another key, and
`finish_step` accepts the path of the first beside the key of the second. The two
executors are then also in one temporary directory (`InTmpOf`), because it has the name of
run, step and attempt; what that may do to their artifacts is `Spoil` for the one that
commits (`shared`), and `ArtifactStore` shows how.
A crashed worker does not come back under its id (`worker_id` is random): `Start`, of
systemd (`Restart=on-failure`), begins another one in its place.
A write that the store refuses leaves the database alone and the worker goes on,
as the code ignores the answer of `finish_step` and `fail_or_retry_step`.

`Artifacts` is what `SqliteWorker` works on (its instance `Art`): `Commit` puts an
artifact there at once and keeps a valid one, `Lose` takes it away, `Spoil` is a
manifest whose files are gone before anyone sees it valid.

`ArtifactStore` takes `execute()`, `tmp_dir` and `commit` apart into one action
per file operation: `Acquire` (lock, look, empty temporary directory),
`WriteFile` (the filter), `BuildManifest` (hash what must be there), `StartCommit`,
`RemoveOld` (`rmtree`, in any order), `ListFiles` (`tmp.iterdir()`), `OpenCopy` and
`EndCopy` (`copy2`), `WriteManifest` (`os.replace`), `Finish`. `Abort` ends an
attempt anywhere, by an exception or by the end of the process, and cleans up
nothing. Temporary directories are named after run, step and attempt number, and not
after the key: a stale attempt and a new one, or two after a retry by the user, where the
numbers start again, may have the same directory. With the same key the lock keeps them
apart; with two keys nothing does, and `Acquire` empties the directory in which another
attempt is at work. An attempt keeps the hashes of the files it had when it built its
manifest (`hashes`); the model compares them with what is copied, as `valid_manifest`
does. `Alone(k)` says that so far nobody has tried to make another artifact in a directory
of an attempt at `k`; the properties that need it say so.
`reader` is `_deps` or a filter: it reads the
manifest, compares the files one by one, and uses the artifact, without the lock.
`clean_tmp` deletes file by file, beside everyone.

`JsonServer`. `pipelines` and `steps` are the files, `loop` is what the task that has
the event loop is about to do, and `task` where each worker waits without it. An
action is one file write together with the reads and decisions before it, so that
`Crash` comes between any two writes. A loop over the steps of a run (`SaveEach`)
writes the files that change one by one, in the order of the template, and goes on
when there is none left; a write that leaves a file as it is, is no step.
`Repaired` and `Rechecked` are the two loops of `recover()`, `Promoted` those of
`_promote` and `_promote_by_dependencies`, `Restarted` that of `retry`. `task[w].doc`
is the document that `execute()` keeps while its filter awaits, with which `Save`
and `SaveFailure` replace the file whatever it holds by then. `lease` and `wait` count
down; both are `Null` where the code would not read them. The order of `list_ids` is
left open; `worker_id` is left out, because one task per step type is the only one
that can run a step of its type; a file is there until it is replaced, and an error
of the file system is not modelled. Time passes while the loop is free and while a
filter runs, nowhere else. A run that a crash left half created keeps the step files
it has.

`CompareService`. Runs are executed as in `SqliteWorker`, but without the queue: what
matters is that a step computes its key from an input (`Prepare`), is executed later
(`Execute`) and finds its artifact or makes it. `made[g]` is what commit `g` has put on
disk: the key, the manifest hash of its input (`ref`) and the request its data come from
(`of`), because the data of `fetch_raw` are a function of the request and those of the
other filters a function of their input. `reader` is the request being answered. It goes
from the summary down: `ValidManifest` reads a manifest, `ReadArtifact` its data file,
`VerifyManifestHash` the hash of the manifest below, three reads without a lock.
A comparison looks at its second run when the first has been read, and ends if that one
is not finished. `compare` checks each hash twice in a row, with only reads of the run in
between, which is one check at the time of the second; `get` reads the manifest of the
summary once for its data and once more in `locate_full_report`, and is modelled with one
read of it: it is the second from which the chain goes on.
`compare` also wants each artifact to be the output of a step of the run (`FindStep`);
`get` and `download` (`"report"`) do not, and stop at the full report. A loss is a deleted
file; a file that is there but damaged is left to `ArtifactStore`. `Difference` builds
the keys of `_record_map` from the text of an id or from the record and a count;
`TrueDifference` says the same without keys, and the two agree when ids that differ
also print differently (`DistinctTexts`): 1 and "1" are one key to the code.

`NotificationRobot`. `robot[p]` is what `check_once` keeps in process `p`. `StartScan`
lists the ids, `ReadRun` reads a run when its turn comes, `MakePair` sorts by `finished_at`
(the order of `finished`), `Lock` takes `named_lock` and looks at the outbox and the state
file, `WriteOutbox` and `WriteState` are the two `os.replace`, with a crash (`Interrupt`)
between any two steps. `lost` says whether the summary of a run, which the scan looks at,
or an artifact below it, which only the comparison needs, is gone.

`PeriodicTrigger`. `ReadPipeline` is the pass of `list_runs`, `LookAtSteps` the loop of
`has_active_scheduled_job`, which trusts a document that was active and otherwise reads
the steps, `CreateScheduled` the creation. What a run looks like comes from
`RunProgress`: its document and its steps call it active exactly while it waits for a
worker or has one (`PipelineAgrees` in the run `store`).

`Background` composes them. In the process `api` the trigger, the robot and the request
handlers never await before they are done, so each excludes the others
(`TriggerAwaits`, `RobotAwaits`), but not the workers, and not a robot of another process.
Runs come from an instance of `RunProgress` with one step and one attempt, because the
robot and the trigger see no more of a run. `enabled` is what the settings switch on.

`RunProgress` is implemented by `SqliteStore` under the mapping at the end of
that module: `stage` counts the finished steps of a run, and the rest is said of the step
after those, the step at hand. `SqliteWorker` in turn implements `SqliteStore`
(`ImplementsStore`): whatever a worker has read or kept, the writes it gets
through are the ones the store allows for, including the contract that
`fail_or_retry_step` retries exactly while attempts are left and that a step is
only given back as pending when a dependency is unfinished. `ImplementsProgress` of
`SqliteWorker` is the sum of both, which TLC checks in `chain`.

## Runs

Pass:

| Run | Instance | Shows |
|---|---|---|
| `store` | 2 runs, one with `force_refresh`, 2 steps (2 and 1 attempts), 2 workers, lease 1, clocks that lag by up to 1 | all invariants and action properties of the queue |
| `sharing` | 2 runs of 2 steps with the same params, an artifact may be lost, a worker may crash | outputs stay traceable to their inputs, also when these were lost and made again |
| `refusals` | 1 run of 2 steps (2 and 1 attempts) with `force_refresh`, 2 workers of the first step and 1 of the second | a step is blocked only by a loss, or after two executors with two keys; of two executors with one key only one computes the artifact; with stale executors, refusals and retries the workers keep the store's contract |
| `chain` | 3 steps, a worker each, the first of which may crash and is replaced, retries with back-off, clocks that lag by up to 1, one loss, fairness | every run settles in spite of all that, its result is traceable, and processes, artifacts and API together implement `RunProgress` |
| `artifacts` | 2 attempts at one artifact and 1 at another, all in one temporary directory, 2 files, different products, one damage or one API start, a reader | what readers see is `Artifacts`; where attempts have their directory for themselves, the manifest comes last, a reader uses what it checked, and what is valid is the work of one attempt |
| `json` | 1 run of 2 steps (2 and 1 attempts) with `force_refresh`, the first step awaits, one loss, lease and back-off 1, 2 crashes anywhere, fairness | outputs traceable, runs and steps agree whenever the loop is free, only a failed step needs the user, finished is final, every run settles |
| `compare` | 2 runs of 4 steps that ask for the same data or for different data, one request at a time (comparison or download), 2 losses | answers are true and come from the artifacts the summary names; without a loss every finished run can be read; the difference is exact on all lists of up to 2 records and some of 3 |
| `background` | 3 runs of 1 step, 1 worker, 1 remembered pair, 1 crash, exception or loss; either trigger and robot in one process or two processes with a robot; fairness | no pair is sent twice, the newest one is sent and leaves out nothing that was there; no second active scheduled run; the schedule goes on |

Violations, each a disagreement between the code and what the repository says:

| Run | What TLC shows |
|---|---|
| `stale_finish` | w1 claims and prepares, its lease expires, w2 claims; w1 enters `execute()`, reads w2's identity from the row, finds or makes an artifact and finishes w2's step |
| `force_refresh` | the run is created, a worker claims and inspects its first step, then the nonce is saved: the step is `succeeded_cached` with the artifact that another run had fetched |
| `backend_starts` | the process ends when `create` has written `pipeline.json` and nothing else; `recover()` of the next start, and of every later one, raises on that run |
| `clean_tmp` | an attempt has hashed its files; a starting API deletes them; the attempt finds nothing to copy and writes the manifest, so its step succeeds with an artifact that no one will find valid |

The second write of `create`, which `force_refresh` is about, also puts the status
`queued` back over one that changed in between; a run that has failed by then is refused
by `retry`. The store's `NeverStuck` leaves the runs with `force_refresh` out for that
reason; the one of JSON mode need not, since nothing but the end of the process
interrupts `create` there.

Bounds and why they are enough. Time matters only through "before or after the
lease", "before or after the back-off" and "older than the oldest `now`", so a
lease and a back-off of one unit with `MaxWait` of zero or one give every order
of these events. `MaxWait` is 1 in `store` and `chain`, where the properties are about the
age of a clock, and 0 where it is not what the run asks about; the proofs are for any. Two workers per step type are the least that contend for a
step, two runs the least that share an artifact, two attempts the least with
both ways out of a failure, and two steps the least with a dependency; three
steps add the step in the middle, which is promoted and promotes. Two runs and two workers of
a step at once are left to the proofs (`SqliteWorker_proofs`), and so is the refinement
of `RunProgress` for more runs than the one of `chain`. `MaxLosses` and
`MaxCommits` bound the artifacts; `MaxCommits` is a guard of the actions that commit
and more than the behaviours of its instance reach, but for `refusals`: there two commits
are enough for the artifacts of both keys of the first step, or for one of them and the
second step, and a third is left out. Runs that are not needed for
a question are left out of its instance. In `artifacts` two files are the least
that can differ in whether they were copied, two attempts at one artifact allow for a
broken one and its successor, and the third wants another artifact in the same directory. A
second directory would be one in which attempts do not meet; the proofs are for any.
`MaxFaults` is one damage or one API start; either ends what the conditional properties
promise. Workers are symmetric in the run `store`, and files in `artifacts`: no action or
constant tells them apart there. In `json` one run is enough for
the properties of a run, because its files are its own and a second one would share
only artifacts, which `sharing` is about; two crashes are the least that end a
recovery from a crash. In `compare` four steps are those of the template, with the two
that only pass data on; two losses are an artifact and the same one made again, or two
of a chain. In `background` three runs are the least with a result that can be left out,
a pair that is forgotten (`HistoryLimit` is 1) and a newest pair that was announced
before; the trigger looks only while a run is left to create (`NRuns` bounds its
actions). Trigger and second robot are not enabled together: they meet only through the
robot of the API. One fault is enough for each hazard there: a crash between two files, or
a loss that brings an old pair back.

Fairness (`FairSpec`). A worker that has not crashed goes on: its loop has no
condition to wait for except the artifact lock, which the operating system
grants while it stays free, and a filter that is assumed to end. The clock runs.
In JSON mode the task that has the
loop goes on, systemd restarts the process (`Restart=on-failure`), and a task that is
ready again and again gets the loop (strong fairness: asyncio serves its ready
tasks first come, first served).
In `background` the trigger and each robot go on in the same sense; a robot that waits
for the lock gets it when it is free again and again. Neither property there needs a
worker or a user to do anything.
There is no fairness for the user, for the request that adds the nonce, for
heartbeats or for crashes, so that in JSON mode `Settles` needs that the user stops
retrying at some time. For worker processes weak fairness is enough: a worker's action stays
enabled until it takes it, and polling alternates between recovery and claim.

Deadlock is checked in every run of the store and the workers; since the clock
always runs, it says little, and `NeverStuck` and `Settles` say it properly, in the
store and in JSON mode. The
runs of `ArtifactStore` do stop, when every attempt has ended and there is no
manifest to read, and so does a run of `CompareService` whose input is lost for good; it
is not checked there.

## Theorems

`SqliteStore_proofs` proves, for any number of steps, runs, workers, keys and
attempts, any lease, back-off and busy timeout (`MaxWait <= Lease`), the type
invariant, the five safety invariants and the two action properties of the run
`store`. The assumptions are those of `Pipeline` and `SqliteStore`: at least one
step and one run, at least one attempt per step, `Null` is none of the values it
stands beside, `ForceRefresh` is a set of runs.

The argument. None of the invariants is inductive alone. `IInv` adds to typing
the *shape* of a run (`Shape`): after an unfinished step every step is pending,
a pending step has an unfinished dependency, and a run whose last step is not
finished has a step at hand, that is, ready, running, retrying, failed or
blocked. With the shape, each method moves at most one step of a run: the
lemmas `SameShape` (the step at hand changes within its class: claim, refuse,
fail, recover), `FinishShape` (it moves on by one, because promotion makes
exactly the next step ready), `RetryShape` and `CreateShape`. `RowInv` ties
owner, lease and attempt to the status of the row; it is what makes it safe that
`claim_ready_step` does not compare `attempt` with `max_attempts`. There is one
lemma per method (`...Inv`), and `NextInv` puts them together.

`PipelineAgrees` needs `IInv` and is then inductive: a run with a step that is
ready, retrying or running derives the status running (`ActiveRun`), so setting
it outright in a claim is right, and a retry is only accepted for a run that is
not finished, which leaves a ready step. `NeverStuck` follows from both. The
action properties follow from `RowStep`, what one step may do to one row.

`SqliteRefinement_proofs` proves that the queue implements `RunProgress`, from the
same assumptions. The mapping looks at the rows of one run, and the shape decides
what it sees: with a step at hand the run stands at that step, with its owner and
its attempts (`HandView`); otherwise it is done (`DoneView`) or has no rows
(`AbsentView`). There is one lemma per method (`...View`): a claim is `Claim`, a
finish is `Complete`, whatever ends a step otherwise is `Lose`, for one run or for
all whose leases are over, and a heartbeat, a prepared key and the passing of time
stutter. A retry is `Retry` only where the run cannot go on by a worker; for runs
without `force_refresh` that is `NeverStuck`, which is why it is part of the
argument.

`ArtifactStore_proofs` proves all properties of the run
`artifacts`, for any keys, files, attempts and temporary directories, shared in any
way, and any number of losses and API starts, from the assumptions of `ArtifactStore` (an
artifact has files; a file that is being written is no complete one, and neither is
`None`). First `Safe`, which holds whatever is lost or cleaned up: typing, `Mutex` (the
lock), and `CommitKnows`: an attempt that removes a target found it invalid, and one that
copies works where there is no manifest. That is all the refinement `Implements` needs:
before its last step a commit touches only artifacts that are invalid before and after
(`InvalidTarget`), so each of its steps stutters, and `WriteManifest` is `Commit`, or `Spoil`
when the files are not there or not those that were hashed.

The rest is relative to `Alone`, which is stable backwards (`AloneBefore`: an attempt that
has started has started for good). Of the attempts in the directory of one whose key is
alone only one is at work (`OneInDir`, from the lock). So `Own`: what it finds, hashes and
copies there is its own, and what a manifest names is the work of one attempt; this
holds whatever is damaged, removed or cleaned up, and `OneAttemptsWork` follows. Then
`Undisturbed`, relative to `Safe` and `Own`: as long as nothing was lost and no API started,
an attempt has its files (`SourceStays`), has copied what it has crossed off, nobody touches
a valid artifact (`ValidStays`), and a reader that has not given up has read the manifest
that is still there. Without `Alone` none of this is true. With two
attempts at two artifacts in one directory (say `Attempts = {a1, a3}` and no fault) TLC
finds `ManifestMarksCompletion` violated: a3 empties the directory when a1 is about to
list it, a1 finds nothing to copy and writes its manifest. That takes the identity of
`stale_finish` and a key that changes in between, and ends like `clean_tmp`.

`SqliteWorker_proofs` proves the four safety properties of the runs of `SqliteWorker`
and that it implements `SqliteStore`, for any number of workers per step type, any of
which may crash. Beside the assumptions of the store it needs that every worker has a
step type and that `Null` is none of the values it stands beside. Its first lemmas say
that the instance `DB` is the store of the other proofs (`Same...`), whose invariant
`IInv` it then uses. The invariant `WInv` says what a copy is still worth when it is used:

- `MadeFor` says that a key belongs to a step of a run: it has the step's type and,
  outside the forced runs, the run's params; the steps before are finished; its input, if
  that manifest is there at all, is the output of the step before, and while nothing is
  lost it is there. A finished step keeps its output (`FinishedIsFinal` of the store), so
  what was made for a step stays so.
- `RowOK` says it of the keys and outputs in the rows, `WorkerOK` of those a worker
  remembers. A worker may have lost its step to another one and not know it: whoever
  finishes the step does it with a key made for it, though in a forced run that need not
  be the key in the row.
- `Blamed` names what may have made a worker refuse a step (`VerdictOK`): a loss, or, in a
  forced run, a preceding step whose row has one key and the output of another. Both
  last, so a step that was blocked for a cause still has one: `BlockedForCause`.
- `LocksOK`: who filters has the lock of its key and found no valid artifact under it,
  and a loss never makes an artifact valid. This is `ComputedOnce`.
- `NonceOK`: only the runs of `ForceRefresh` have a nonce or a copy that will have it.

There is one lemma per action, and each of them also says which method of the store the
action is. From this come `ImplementsStoreCorrect` and, with `SqliteRefinement_proofs`,
`WorkersMakeProgress`: processes, artifacts, clock and API together do nothing
that `RunProgress` does not allow (`SameProgress`: the two instances of the store promise
the same).

`Background_proofs` proves the safety invariants and the action property of the run
`background`, for any number of runs, workers and robots, any `HistoryLimit` and any
number of faults. The invariant `BInv` says what a scan is worth after the runs went on:
of the results that were there when it began, those whose turn is over have been found
(`Scanned`), and since results are found in the order in which they finished, the newest
pair leaves out only older ones (`Paired`). `LockKept` is `SentOnce` made inductive: one
robot has the lock, and the pair it compares was not in the outbox when it took it.
`TriggerFits` does the same for the trigger: a scheduled run that is active now was
already there when the pass began, and is either still unread or noted as active; so when
nothing was noted, nothing is active.

`RecordDiff_proofs` proves `DifferenceExact`: for lists of any length in which no id
occurs twice and different ids print differently, the difference that goes by keys is the
difference of the two lists as bags. A record without an id has as its key its text and the
number of its copies before it; the proof shows that these numbers are exactly those below
the number of copies in the list. What would be an induction over the list is a minimal
counterexample: the places of a list are finite sets, strict inclusion is well founded on
them, and a least set that is not numbered right would have a smaller one.

`CompareService_proofs` proves all five properties of the run `compare`, for any runs,
lists of records and losses, from the assumptions that the lists are sequences and that
`Null` is no key. `MadeFits` says what a key is worth: it contains the hash of its input, so
commits with one key come from the same request, however often the artifact was lost and
made again. `RunsFit` and `ReaderFits` follow a run up and a reader down the chain;
`ReadsWhatWasAsked` is the sum of both, and with `DifferenceExact` it gives `AnswersAreTrue`.
`LossesFit` is relative to the losses since the request began: without one the artifact a
manifest names is still there, which gives the two other properties.

`JsonServer_proofs` proves `TypeOK`, `ResultTraceable`, `PipelineAgrees`, `NeverStuck` and
`FinishedIsFinal` of the default mode, for any number of steps, runs, attempts and losses,
any lease and back-off, and a process that may end between any two writes. A file holds what an action has made of
what it read earlier, so the invariant `JInv` says, place by place, what is still true:

- `FilesFit` and `FilesTraced` say it of a file by itself: a step that runs or is finished
  has a key of its own type, and while nothing is lost the key was made from the output of
  the step before, which is finished.
- `InFlight` is what `execute()` may rely on while its filter awaits: recovery and retry
  may have given the step to be run again, but its file still has the key of the document
  that `Save` will write, and nobody else makes that artifact.
- `LoopFits` goes through the places of the task that has the loop.
- `RunsSettled` lists the runs that may be behind: those that the pass of recovery has yet
  to see (`Busy`), and those of an execution about to be closed.

`MayWrite` says which document may replace a file without disturbing the files beside it;
there is a lemma for every document the code writes (`MayRepair`, `MayClaim`, `MaySave`,
...) and one for every action (`Keep...`). Each of these also shows that a finished step on
a finished basis stays (`FirmKept`), which is `FinishedIsFinal`.

An earlier, stricter form of `PipelineAgrees` could not be proved, and was wrong.
`_set_pipeline_blocked_or_queued` looks for blocked steps and nothing else. Take three
steps: the last is finished, the output of the second is lost and recovery readies it, the
output of the first is lost before the claim, the claim refuses the second step, and the
run is queued although its last step succeeded (or another one failed). The exception in
`Agrees` for `RefusedStatus` says exactly this; it takes a loss, and more steps than the run
`json` has.

`TypeOK` bounds the attempts: `max_attempts`, and one more for every loss since the data
directory was new. Neither half of this is inductive. Recovery takes back a step whose
basis is gone and the next claim counts it again without a look at `max_attempts`, so each
extra attempt must be paid for by a loss, and one loss must not pay twice. What pays is a
*break* (`Breaks`): a place in the chain of a run where a step that is finished, runs or is
still being executed stands behind one without a valid output. A loss makes at most one
break in a run (`LoseArtifactFits`), nothing else makes any (`NoMoreBreaks`), and a step that
is taken back takes its break with it. `AttemptsInv` says that attempts and breaks together
stay within `max_attempts` and the losses, one less for a step that is still to be claimed;
it also says it of the document that `execute()` will save late, because that one may
replace a file with a lower count. It needs `JInv` and is then inductive, with one lemma per
action (`...Fits`).

`NeverStuck` says that, as long as nothing is lost, a run that has neither succeeded nor
failed has a step that goes on without the user. It is where the three pieces of code that
look at waiting steps meet: the promotion at the end of an execution, the second loop of
recovery, and the promotion of a retry; a step that all three miss is `pending` for ever.
Two more invariants, relative to `JInv`, are needed. `StepsTimed`: a running step has a
lease and a retrying one a back-off, so the clock brings them on, and the first step never
waits for another. `WaitsJustified`: in every run each waiting step waits for an unfinished
one (`Justified`), or an execution of the run is about to be closed, or the task that has
the loop has yet to come to the run (`Unpromoted`). Only the end of an execution makes a
step finished, and it leaves `Closing` or `Unpromoted` behind; a crash or a start puts every
run on the list of a pass; and the loop that takes a run off the list ends only when it has
nothing to write, which is `Justified` (`PromotedAll`, `RecheckedAll`). Then `SomeGoesOn`: in
a run at rest with no step that goes on, the steps are finished, waiting or failed; since its
status agrees with them, none has failed and the last one waits, and the first that waits
waits for one that is finished.

Only model-checked: liveness (`Settles`, `NewestAnnounced`, `ScheduleGoesOn`), which is out
of the prover's reach.

## Not modelled

JSON mode with worker processes of their own (`step_lock` does not cover the
writes of recovery and executor, so updates can be lost there), the orderly shutdown
of the server (where an exception that ended the trigger comes up again and keeps
robot and workers from being stopped), `import_json_store`, the list of results.
`CompareService` leaves out the differences of counts and summaries, labels, previews, the
checks of the content, and the refusals that depend on nothing but the request.
The checks of the zip package, the statistics, metrics, events, authentication,
configuration, frontend and deployment files keep no state that the properties are
about. The legacy runner and scheduler are dead code.

## Plan

In this order; each with its instance, properties and mutants.

1. `Pipeline`, `SqliteStore`, `RunProgress`, `SqliteWorker` and the proofs of the
   store's invariants (done).
2. `Artifacts`, `ArtifactStore` and its proofs: `commit` file by file, a crash
   between any two, readers without the lock, `clean_tmp` of a starting API (done).
   This justifies the atomic `Commit` of `SqliteWorker`.
3. `JsonServer`: the default mode on one event loop, one file write as one action
   (done). Later: the same files with a process for each worker, where the
   unguarded saves of executor and recovery meet.
4. `NotificationRobot`, `PeriodicTrigger` and their composition `Background`:
   check-then-act under and without a lock, a crash between outbox and state, the
   truncated history (done).
5. `CompareService` and `RecordDiff`: the way through the manifests while they are lost
   and made again, and the difference checked against its definition (done).
6. Proofs: `SqliteStore` implements `RunProgress`; the safety of `SqliteWorker`,
   `Background`, `CompareService` and `JsonServer`, and that `SqliteWorker` implements
   `SqliteStore` (done). Left: lemmas that prepare the liveness of the store (a measure
   that every step of a worker decreases).
