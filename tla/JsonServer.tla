------------------------------ MODULE JsonServer ------------------------------
(***************************************************************************)
(* The program as it runs by default (METADATA_STORE=json and              *)
(* INPROCESS_WORKERS_ENABLED=true): one process, one event loop, in it the *)
(* API, one worker task per step type (pipeline/worker_manager.py), their  *)
(* heartbeats, and the JSON files of repositories/run_store.py, one for a  *)
(* run and one for each of its steps, without transactions.                *)
(*                                                                         *)
(* A task keeps the loop until it awaits something that is not ready, so   *)
(* the only interleaving points are those of the tasks' local states below.*)
(* The process may end between any two file writes; each action writes at  *)
(* most one file.  Every loop over the steps of a run writes their files   *)
(* in order; writing a file with what it already contains is no step.      *)
(***************************************************************************)
EXTENDS Pipeline, Sequences

CONSTANTS
    NRuns, Null, Lease, RetryDelay, ForceRefresh, ParamsOf, UsesParams,
    MaxLosses, MaxCommits,  \* as in SqliteWorker
    Awaiting,       \* the steps whose filter awaits (delay_ms): fetch_raw, analyze
    MaxCrashes,     \* bound: how often the process ends
    CrashInCreate   \* may it end while a run has no step file yet?

ASSUME NRunsAssumption == NRuns \in Nat \ {0}
ASSUME LeaseAssumption == Lease \in Nat \ {0} /\ RetryDelay \in Nat
ASSUME AwaitingAssumption == Awaiting \subseteq Steps /\ CrashInCreate \in BOOLEAN
ASSUME BoundsAssumption == MaxLosses \in Nat /\ MaxCommits \in Nat /\ MaxCrashes \in Nat

VARIABLES
    pipelines,          \* the file pipeline.json of each run, or Null
    steps,              \* the step files of each run, in the order of the template
    artifacts, commits, \* the artifacts on disk: see Artifacts
    up,                 \* is the process running?
    loop,               \* what the task that has the event loop is doing
    task,               \* where each worker task is while it waits
    crashes             \* how often the process has ended

files == <<pipelines, steps>>
art == <<artifacts, commits>>
life == <<up, crashes>>
vars == <<files, art, life, loop, task>>

Runs == 1..NRuns
Workers == Steps        \* WorkerManager.start: one worker per step type

-----------------------------------------------------------------------------
(* Cache keys, as in SqliteWorker. *)

Lines == {<<"params", p>> : p \in {ParamsOf[r] : r \in Runs}}
             \cup {<<"refresh", r>> : r \in ForceRefresh} \cup {<<"unused", 0>>}
ArtifactKeys == [step : Steps, line : Lines, input : 0..MaxCommits]

Art == INSTANCE Artifacts WITH Keys <- ArtifactKeys

\* Null is none of the values it stands beside.
ASSUME NullAssumption == /\ Null \notin Int /\ Null \notin ArtifactKeys
                         /\ Null \notin [status : PipelineStatus, nonce : BOOLEAN]

Line(r) == IF pipelines[r].nonce THEN <<"refresh", r>> ELSE <<"params", ParamsOf[r]>>
Inputs(r, i) == {steps[r][j].out : j \in DependsOn(i)}

\* Mutant: the hash of the input is not part of the key.
CacheKeyWithoutInput(r, i) ==
    [step |-> i, line |-> IF i \in UsesParams THEN Line(r) ELSE <<"unused", 0>>, input |-> 0]

CacheKey(r, i) ==
    [step  |-> i,
     line  |-> IF i \in UsesParams THEN Line(r) ELSE <<"unused", 0>>,
     input |-> IF DependsOn(i) = {} THEN 0 ELSE Art!Gen(CHOOSE k \in Inputs(r, i) : TRUE)]

-----------------------------------------------------------------------------
(* The files.  lease and wait are the time left until lease_until and      *)
(* next_retry_at; the code reads them only of a running and of a retrying  *)
(* step, so they are Null in the others.  suspect: the error is one of     *)
(* INVALID_OUTPUT_ERRORS.  worker_id is left out: one worker per step type *)
(* means that a running step which a worker executes is its own.           *)

Doc == [status : StepStatus, attempt : Nat, lease : 0..Lease \cup {Null},
        wait : 0..RetryDelay \cup {Null}, suspect : BOOLEAN,
        key : ArtifactKeys \cup {Null}, out : ArtifactKeys \cup {Null}]

NewDoc(i) == [status |-> FirstStatus(i), attempt |-> 0, lease |-> Null, wait |-> Null,
              suspect |-> FALSE, key |-> Null, out |-> Null]

\* s.update(status=..., error=...) where the error is none that recovery knows.
Become(s, status) == [s EXCEPT !.status = status, !.suspect = FALSE,
                               !.lease = Null, !.wait = Null]

\* list_ids and get_run: a run is there when its pipeline.json is.
Listed == {r \in Runs : pipelines[r] # Null}
Present(r) == 1..Len(steps[r])
LastOf(r) == steps[r][Len(steps[r])]

\* The output of a step is where the step says, under the key of the step.
OutputValid(s) == s.out # Null /\ s.out = s.key /\ Art!Valid(s.out)

\* recover looks at expected_output_manifest_path if there is no output yet.
Expected(s) == IF s.out # Null THEN s.out ELSE s.key
ExpectedValid(s) == Expected(s) # Null /\ Expected(s) = s.key /\ Art!Valid(s.key)

Statuses(r) == {steps[r][i].status : i \in Present(r)}

\* The status of a run (recover and _update_pipeline): the last step that is
\* there decides success, and unsettled is what the caller calls the rest.
Derived(r, unsettled) ==
    IF LastOf(r).status \in OK THEN "succeeded"
    ELSE IF "failed" \in Statuses(r) THEN "failed"
    ELSE IF "blocked" \in Statuses(r) THEN "blocked"
    ELSE unsettled

-----------------------------------------------------------------------------
(* What the loops over the steps of a run make of them. *)

\* Mutant: one attempt more.
OneMoreAttempt(i, s) == s.attempt <= MaxAttempts[i]

AttemptsLeft(i, s) == s.attempt < MaxAttempts[i]

\* Mutant: nobody looks for leases that are over.
RepairedDocWithoutLeases(i, s) ==
    CASE s.status = "retrying" /\ s.wait = 0 -> [s EXCEPT !.status = "ready", !.wait = Null]
      [] s.status \in OK /\ ~ExpectedValid(s)
            -> [Become(s, IF AttemptsLeft(i, s) THEN "ready" ELSE "failed")
                   EXCEPT !.suspect = TRUE]
      [] OTHER -> s

\* recover, first loop: a running step whose lease is over, a retry that is
\* due, a finished step whose output is not valid.
RepairedDoc(i, s) ==
    CASE s.status = "running" /\ s.lease = 0 /\ ExpectedValid(s)
            -> [s EXCEPT !.status = "succeeded_cached", !.out = s.key, !.lease = Null]
      [] s.status = "retrying" /\ s.wait = 0
            -> [s EXCEPT !.status = "ready", !.wait = Null]
      [] ~ExpectedValid(s) /\ (s.status \in OK \/ (s.status = "running" /\ s.lease = 0))
            -> [Become(s, IF AttemptsLeft(i, s) THEN "ready" ELSE "failed")
                   EXCEPT !.suspect = TRUE]
      [] OTHER -> s

Repaired(r) == [i \in Present(r) |-> RepairedDoc(i, steps[r][i])]

\* What a step makes of a step it depends on: recover's dep_state.
DepState(s) ==
    IF s.status \in {"failed", "blocked"} \/ s.suspect THEN "invalid"
    ELSE IF s.status \notin OK THEN "unavailable"
    ELSE IF ExpectedValid(s) THEN "valid" ELSE "invalid"

\* Mutant: recovery leaves promotion to the end of an execution.
RecheckedDocWithoutPending(s, states) ==
    CASE s.status # "failed" /\ "invalid" \in states -> Become(s, "blocked")
      [] states = {"valid"} /\ s.status \in {"blocked", "ready"}
            -> Become(s, "ready")
      [] states = {"unavailable"} /\ s.status \in {"ready", "running", "retrying", "blocked"}
            -> Become(s, "pending")
      [] OTHER -> s

\* recover, second loop: what a step becomes under its dependencies.
RecheckedDoc(s, states) ==
    CASE s.status # "failed" /\ "invalid" \in states -> Become(s, "blocked")
      [] states = {"valid"} /\ s.status \in {"pending", "blocked", "ready"}
            -> Become(s, "ready")
      [] states = {"unavailable"} /\ s.status \in {"ready", "running", "retrying", "blocked"}
            -> Become(s, "pending")
      [] OTHER -> s

Rechecked(r) == [i \in Present(r) |->
    RecheckedDoc(steps[r][i], {DepState(steps[r][j]) : j \in DependsOn(i)})]

\* _promote and _promote_by_dependencies: from is which statuses may change.
DepsValid(r, i) == \A j \in DependsOn(i) : steps[r][j].status \in OK /\ OutputValid(steps[r][j])
Promoted(r, from) == [i \in Present(r) |->
    IF steps[r][i].status \in from /\ DepsValid(r, i) THEN Become(steps[r][i], "ready")
                                                     ELSE steps[r][i]]

\* JobService.retry: everything that is not finished starts again.
RestartedDoc(i, s) == [Become(s, FirstStatus(i)) EXCEPT !.attempt = 0]
\* Mutant: finished steps start again, too.
RestartedAll(r) == [i \in Present(r) |-> RestartedDoc(i, steps[r][i])]

Restarted(r) == [i \in Present(r) |->
    IF steps[r][i].status \in OK THEN steps[r][i] ELSE RestartedDoc(i, steps[r][i])]

-----------------------------------------------------------------------------
(* The event loop. *)

\* What the task that has the loop is about to do.
LoopPC == {"free",                                      \* no task has it
           "recover", "repair", "recheck", "derive",    \* recover, run by run
           "claim", "refused", "claimed",               \* claim_one
           "execute", "filter", "save", "failing",      \* execute
           "promote", "update",                         \* the end of execute
           "create", "nonce",                           \* JobService.create
           "reset", "repromote"}                        \* JobService.retry

\* Where a worker task is while another task may have the loop.
TaskPC == {"sleeping",      \* in run_forever, or not started yet
           "filtering",     \* awaits in filt.run
           "closing"}       \* awaits its heartbeat task, which it has cancelled

Free == [pc |-> "free", w |-> 0, run |-> 0, todo |-> {}]
Sleeping == [pc |-> "sleeping", run |-> 0, doc |-> Null, input |-> {}, beating |-> FALSE]
Recovering(w) == [pc |-> "recover", w |-> w, run |-> 0, todo |-> Listed]

Init == /\ pipelines = [r \in Runs |-> Null]
        /\ steps = [r \in Runs |-> <<>>]
        /\ Art!Init
        /\ up = FALSE /\ loop = Free /\ crashes = 0
        /\ task = [w \in Workers |-> Sleeping]

At(pc) == up /\ loop.pc = pc
To(pc) == [loop EXCEPT !.pc = pc]
Go(after) == loop' = after /\ UNCHANGED <<files, art, life, task>>
SetTask(w, rec) == task' = [task EXCEPT ![w] = rec]

\* One file is written, and the task goes on.
SaveStep(r, i, s) == steps' = [steps EXCEPT ![r][i] = s] /\ UNCHANGED <<pipelines, art, life>>
SavePipeline(r, p, after) ==
    /\ pipelines' = [pipelines EXCEPT ![r] = p]
    /\ loop' = after
    /\ UNCHANGED <<steps, art, life, task>>
SaveStatus(status, after) ==
    SavePipeline(loop.run, [pipelines[loop.run] EXCEPT !.status = status], after)

\* A loop over the steps of loop.run turns each file into new: the next file
\* that changes is written, or the loop ends and the task goes on.
SaveEach(new, after) ==
    LET r == loop.run
        changed == {i \in Present(r) : new[i] # steps[r][i]} IN
    IF changed = {} THEN Go(after)
    ELSE /\ \E i \in changed : (\A j \in changed : i <= j) /\ SaveStep(r, i, new[i])
         /\ UNCHANGED <<loop, task>>

-----------------------------------------------------------------------------
(* The life of the process. *)

\* lifespan: recover, then the workers are started.
Start == /\ ~up /\ up' = TRUE
         /\ loop' = Recovering(0)
         /\ UNCHANGED <<files, art, task, crashes>>

\* The end of the process takes the tasks with it.
Stop == /\ up' = FALSE
        /\ loop' = Free /\ task' = [w \in Workers |-> Sleeping]
        /\ UNCHANGED <<files, art>>

Crash == /\ up /\ crashes < MaxCrashes
         /\ (\E r \in Listed : steps[r] = <<>>) => CrashInCreate
         /\ Stop /\ crashes' = crashes + 1

\* A worker task wakes up: run_once begins with recover.
WakeUp(w) == At("free") /\ task[w].pc = "sleeping" /\ Go(Recovering(w))

-----------------------------------------------------------------------------
(* recover. *)

\* The next run of list_ids, whose order is left open.
RecoverRun == /\ At("recover")
              /\ \E r \in loop.todo :
                    Go([loop EXCEPT !.pc = "repair", !.run = r, !.todo = @ \ {r}])

Repair == At("repair") /\ SaveEach(Repaired(loop.run), To("recheck"))

Recheck == At("recheck") /\ SaveEach(Rechecked(loop.run), To("derive"))

Derive == /\ At("derive") /\ steps[loop.run] # <<>>
          /\ SaveStatus(Derived(loop.run, "queued"), To("recover"))

\* Without a step file steps[-1] raises an IndexError, and lifespan with it:
\* the server does not start.  (A worker never sees such a run: it is only
\* there after a crash.)
DeriveRaises == At("derive") /\ steps[loop.run] = <<>> /\ Stop /\ UNCHANGED crashes

\* A worker goes on to claim_one; lifespan starts the workers.
Recovered == /\ At("recover") /\ loop.todo = {}
             /\ Go(IF loop.w = 0 THEN Free
                   ELSE [loop EXCEPT !.pc = "claim", !.run = 0, !.todo = Listed])

-----------------------------------------------------------------------------
(* claim_one. *)

\* The runs not yet looked at whose step this worker may claim.
Claimable == {r \in loop.todo :
    /\ loop.w \in Present(r)
    /\ LET s == steps[r][loop.w] IN
       s.status = "ready" \/ (s.status = "retrying" /\ s.wait = 0)}

\* _deps
Verdict(r, i) ==
    LET deps == {steps[r][j] : j \in DependsOn(i)} IN
    IF \E x \in deps : x.status \in {"failed", "blocked"} \/ x.suspect THEN "invalid"
    ELSE IF \E x \in deps : x.status \notin OK THEN "unavailable"
    ELSE IF \E x \in deps : ~OutputValid(x) THEN "invalid"
    ELSE "valid"

\* A step is not claimed because of its dependencies.
Refuse == /\ At("claim")
          /\ \E r \in Claimable : LET verdict == Verdict(r, loop.w) IN
                /\ verdict # "valid"
                /\ SaveStep(r, loop.w, Become(steps[r][loop.w],
                            IF verdict = "invalid" THEN "blocked" ELSE "pending"))
                /\ loop' = [loop EXCEPT !.pc = "refused", !.run = r, !.todo = @ \ {r}]
          /\ UNCHANGED task

\* Mutant: the run is not told that its step was refused.
RefusedSilently == At("refused") /\ Go(To("claim"))

\* _set_pipeline_blocked_or_queued, which looks for nothing but blocked steps.
RefusedStatus(r) == IF "blocked" \in Statuses(r) THEN "blocked" ELSE "queued"

Refused == At("refused") /\ SaveStatus(RefusedStatus(loop.run), To("claim"))

ClaimedDoc(r, i, s) == [Become(s, "running") EXCEPT
    !.attempt = @ + 1, !.lease = Lease, !.key = CacheKey(r, i)]

Claim == /\ At("claim")
         /\ \E r \in Claimable :
               /\ Verdict(r, loop.w) = "valid"
               /\ SaveStep(r, loop.w, ClaimedDoc(r, loop.w, steps[r][loop.w]))
               /\ loop' = [loop EXCEPT !.pc = "claimed", !.run = r, !.todo = {}]
         /\ UNCHANGED task

Claimed == At("claimed") /\ SaveStatus("running", To("execute"))

NothingToClaim == At("claim") /\ Claimable = {} /\ Go(Free)

-----------------------------------------------------------------------------
(* execute.  What it has read stays in task[w].doc until it is saved. *)

Me == task[loop.w]

\* The finally clause: the heartbeat is cancelled and awaited.  That gives the
\* loop away, unless the heartbeat has returned already.
Leave(r, beating) ==
    IF beating THEN SetTask(loop.w, [Sleeping EXCEPT !.pc = "closing", !.run = r]) /\ loop' = Free
               ELSE SetTask(loop.w, Sleeping) /\ loop' = To("promote")

\* The artifact is there: no filter, no wait.
FoundInCache ==
    /\ At("execute")
    /\ LET s == steps[loop.run][loop.w] IN
       /\ Art!Valid(s.key)
       /\ SaveStep(loop.run, loop.w, [Become(s, "succeeded_cached") EXCEPT !.out = s.key])
       /\ Leave(loop.run, TRUE)

\* The filter is called.  A filter that awaits gives the loop away.
CallFilter ==
    /\ At("execute")
    /\ LET r == loop.run
           s == steps[r][loop.w] IN
       /\ ~Art!Valid(s.key)
       /\ SetTask(loop.w, [pc |-> "filtering", run |-> r, doc |-> [s EXCEPT !.lease = Null],
                           input |-> Inputs(r, loop.w), beating |-> TRUE])
       /\ loop' = To("filter") \/ (loop.w \in Awaiting /\ loop' = Free)
    /\ UNCHANGED <<files, art, life>>

Resume(w) == /\ At("free") /\ task[w].pc = "filtering"
             /\ Go([Free EXCEPT !.pc = "filter", !.w = w, !.run = task[w].run])

\* _heartbeat, while the filter awaits: it extends the lease of a running step,
\* and returns when the step is not running any more.
Heartbeat(w) ==
    /\ At("free") /\ task[w].pc = "filtering" /\ task[w].beating
    /\ LET r == task[w].run
           s == steps[r][w] IN
       IF s.status = "running"
       THEN SaveStep(r, w, [s EXCEPT !.lease = Lease]) /\ UNCHANGED task
       ELSE SetTask(w, [task[w] EXCEPT !.beating = FALSE]) /\ UNCHANGED <<files, art, life>>
    /\ UNCHANGED loop

FilterSucceeds == /\ At("filter") /\ commits < MaxCommits
                  /\ \A k \in Me.input : Art!Valid(k)
                  /\ Art!Commit(Me.doc.key)
                  /\ loop' = To("save")
                  /\ UNCHANGED <<files, life, task>>

\* The filter or the commit raises.
FilterFails == At("filter") /\ Go(To("failing"))

\* save_step writes the step as execute() read it, with its new status.
SavedDoc(s) == [Become(s, "succeeded") EXCEPT !.out = s.key]
FailedDoc(i, s) == IF AttemptsLeft(i, s) THEN [Become(s, "retrying") EXCEPT !.wait = RetryDelay]
                                         ELSE Become(s, "failed")

Save == /\ At("save")
        /\ SaveStep(Me.run, loop.w, SavedDoc(Me.doc))
        /\ Leave(Me.run, Me.beating)

SaveFailure == /\ At("failing")
               /\ SaveStep(Me.run, loop.w, FailedDoc(loop.w, Me.doc))
               /\ Leave(Me.run, Me.beating)

\* The heartbeat is gone; execute() goes on.
Close(w) == /\ At("free") /\ task[w].pc = "closing"
            /\ loop' = [Free EXCEPT !.pc = "promote", !.w = w, !.run = task[w].run]
            /\ SetTask(w, Sleeping)
            /\ UNCHANGED <<files, art, life>>

Promote == /\ At("promote")
           /\ SaveEach(Promoted(loop.run, {"pending", "blocked"}), To("update"))

\* _update_pipeline; run_forever goes on without giving the loop away.
Update == At("update") /\ SaveStatus(Derived(loop.run, "running"), Recovering(loop.w))

-----------------------------------------------------------------------------
(* The API, whose handlers await nothing, and the periodic trigger, which   *)
(* creates runs in the same way.                                           *)

\* JobService.create: pipeline.json, the step files, and the document again
\* with the nonce.
Create(r) == /\ At("free") /\ pipelines[r] = Null
             /\ SavePipeline(r, [status |-> "queued", nonce |-> FALSE],
                             [Free EXCEPT !.pc = "create", !.run = r])

CreateStep ==
    /\ At("create")
    /\ LET r == loop.run
           i == Len(steps[r]) + 1 IN
       /\ steps' = [steps EXCEPT ![r] = Append(@, NewDoc(i))]
       /\ loop' = IF i < NSteps THEN loop
                  ELSE IF r \in ForceRefresh THEN To("nonce") ELSE Free
    /\ UNCHANGED <<pipelines, art, life, task>>

SaveNonce == At("nonce") /\ SavePipeline(loop.run, [pipelines[loop.run] EXCEPT !.nonce = TRUE], Free)

\* JobService.retry
Retry(r) == /\ At("free") /\ r \in Listed
            /\ pipelines[r].status \in {"failed", "blocked"}
            /\ SavePipeline(r, [pipelines[r] EXCEPT !.status = "queued"],
                            [Free EXCEPT !.pc = "reset", !.run = r])

Reset == At("reset") /\ SaveEach(Restarted(loop.run), To("repromote"))

Repromote == /\ At("repromote")
             /\ SaveEach(Promoted(loop.run, {"pending", "blocked", "retrying", "ready"}), Free)

-----------------------------------------------------------------------------
(* The environment. *)

\* A file of a committed artifact is deleted or damaged.
LoseArtifact == /\ Art!Lost < MaxLosses
                /\ Art!Lose
                /\ UNCHANGED <<files, life, loop, task>>

\* Time passes while no task has the loop, or in a filter: the rest of the
\* code takes none.
TimeLeft(t) == IF t = Null \/ t = 0 THEN t ELSE t - 1

Tick == /\ ~up \/ At("free") \/ At("filter")
        /\ steps' = [r \in Runs |-> [i \in Present(r) |->
              [steps[r][i] EXCEPT !.lease = TimeLeft(@), !.wait = TimeLeft(@)]]]
        /\ UNCHANGED <<pipelines, art, life, loop, task>>

\* What a task does that has the loop.
GoOn ==
    \/ RecoverRun \/ Repair \/ Recheck \/ Derive \/ DeriveRaises \/ Recovered
    \/ Refuse \/ Refused \/ Claim \/ Claimed \/ NothingToClaim
    \/ FoundInCache \/ CallFilter \/ FilterSucceeds \/ FilterFails
    \/ Save \/ SaveFailure \/ Promote \/ Update
    \/ CreateStep \/ SaveNonce \/ Reset \/ Repromote

Next ==
    \/ Start \/ Crash \/ GoOn
    \/ \E w \in Workers : WakeUp(w) \/ Resume(w) \/ Heartbeat(w) \/ Close(w)
    \/ \E r \in Runs : Create(r) \/ Retry(r)
    \/ LoseArtifact
    \/ Tick

Spec == Init /\ [][Next]_vars

\* systemd starts the process again, a task that has the loop goes on, and the
\* loop runs its ready tasks first come, first served: whoever is ready again
\* and again gets it.  The clock runs.  Nothing makes the user create or retry
\* a run, or a heartbeat come in time.
FairSpec == /\ Spec
            /\ WF_vars(Start) /\ WF_vars(GoOn)
            /\ \A w \in Workers : SF_vars(WakeUp(w)) /\ SF_vars(Resume(w)) /\ SF_vars(Close(w))
            /\ SF_vars(Tick)

-----------------------------------------------------------------------------
(* Properties. *)

\* Types.  A step is tried at most max_attempts times, and once more for every
\* loss: a step that was given up because of its dependency is made ready
\* without a look at its attempts.
TypeOK ==
    /\ pipelines \in [Runs -> [status : PipelineStatus, nonce : BOOLEAN] \cup {Null}]
    /\ \A r \in Runs : /\ Len(steps[r]) <= NSteps
                       /\ \A i \in Present(r) : /\ steps[r][i] \in Doc
                                                /\ steps[r][i].attempt <= MaxAttempts[i] + Art!Lost
    /\ artifacts \subseteq [key : ArtifactKeys, gen : 1..commits]
    /\ commits \in 0..MaxCommits /\ Art!Lost \in 0..MaxLosses
    /\ up \in BOOLEAN /\ crashes \in 0..MaxCrashes
    /\ loop \in [pc : LoopPC, w : Workers \cup {0}, run : Runs \cup {0}, todo : SUBSET Runs]
    /\ task \in [Workers -> [pc : TaskPC, run : Runs \cup {0}, doc : Doc \cup {Null},
                             input : SUBSET ArtifactKeys, beating : BOOLEAN]]

\* As long as no artifact is lost, the output of every finished step is there,
\* made from this run's params (with the nonce, if force_refresh put one there)
\* and from the output of the step before it, although execute() saves a step as
\* it read it before it waited.
ResultTraceable ==
    Art!Lost = 0 =>
        \A r \in Runs : \A i \in Present(r) : steps[r][i].status \in OK =>
            LET k == steps[r][i].out IN
            /\ OutputValid(steps[r][i])
            /\ k.step = i
            /\ i \in UsesParams => k.line = Line(r)
            /\ \A j \in DependsOn(i) : k.input = Art!Gen(steps[r][j].out)

\* Whenever the loop is free, no matter where the process ended before, the
\* status of a run is the one its steps add up to, except that a running step
\* makes it running whatever the others are, and a refused step makes it blocked
\* or queued, which takes a loss.  Only a run whose execution is about to be closed
\* may be behind.
Agrees(r) ==
    \/ pipelines[r].status = Derived(r, "queued")
    \/ /\ pipelines[r].status = "running"
       /\ "running" \in Statuses(r) \/ Derived(r, "queued") = "queued"
    \/ Art!Lost > 0 /\ pipelines[r].status = RefusedStatus(r)

PipelineAgrees ==
    At("free") =>
        \A r \in Listed :
            Agrees(r) \/ \E w \in Workers : task[w].pc = "closing" /\ task[w].run = r

\* Step i of r goes on without the user: it has what it needs, and waits for a
\* worker, for the end of its back-off, or for its execution or its lease to end.
Handy(r, i) ==
    /\ \A j \in DependsOn(i) : OutputValid(steps[r][j]) /\ DepState(steps[r][j]) = "valid"
    /\ LET s == steps[r][i] IN
       \/ s.status = "ready"
       \/ s.status = "retrying" /\ s.wait # Null
       \/ s.status = "running" /\ s.lease # Null

\* As long as no artifact is lost, a run that has neither succeeded nor failed has
\* such a step whenever the loop is free, wherever the process ended before, or an
\* execution of it is about to be closed: no step is left pending behind a finished
\* one, and nothing but the failure of a step needs the user.
NeverStuck ==
    At("free") /\ Art!Lost = 0 =>
        \A r \in Listed : pipelines[r].status \notin {"succeeded", "failed"} =>
            \/ \E i \in Present(r) : Handy(r, i)
            \/ \E w \in Workers : task[w].pc = "closing" /\ task[w].run = r

\* Step i of r and all it is based on are finished, with valid outputs.
Grounded(r, i) == \A j \in 1..i : steps[r][j].status \in OK /\ OutputValid(steps[r][j])

\* Such a step stays as it is: no recovery pass, no retry and no late save of
\* an execution takes it back.
FinishedIsFinal ==
    [][\A r \in Runs : \A i \in Present(r) :
          Grounded(r, i) => /\ steps'[r][i].status \in OK
                            /\ steps'[r][i].out = steps[r][i].out]_vars

\* A crash while a run had no step file yet: the server does not start again.
Stranded == ~up /\ \E r \in Listed : steps[r] = <<>>

HasStatus(r, S) == r \in Listed /\ pipelines[r].status \in S

\* Every run that is queued or running settles, although the process may end,
\* leases expire and the user retries at any time, unless the user never stops,
\* an artifact is lost or the server cannot start.
Settles ==
    \/ []<><<\E r \in Runs : Retry(r)>>_vars
    \/ \A r \in Runs :
          HasStatus(r, {"queued", "running"})
              ~> HasStatus(r, {"succeeded", "failed"}) \/ Art!Lost > 0 \/ Stranded

-----------------------------------------------------------------------------
(* What the repository says and the code does not keep: see PROJECT.json. *)

\* "once the backend has started it produces results by itself" (README.md):
\* recover, which lifespan awaits, gets past every run that it finds.
BackendStarts == At("derive") => steps[loop.run] # <<>>
=============================================================================
