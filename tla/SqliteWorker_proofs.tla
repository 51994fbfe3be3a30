-------------------------- MODULE SqliteWorker_proofs --------------------------
(***************************************************************************)
(* Proofs about SqliteWorker, for any number of steps, runs and workers,   *)
(* any assignment of workers to steps, any lease, back-off and busy        *)
(* timeout, and any number of lost artifacts and crashed workers.          *)
(*                                                                         *)
(* The workers keep copies of what they have read, so the invariant says   *)
(* what a copy is still worth when it is used.  Every action of a worker   *)
(* turns out to be a step of SqliteStore or none, and what is proved about *)
(* the store is true of the database the workers share.                    *)
(***************************************************************************)
EXTENDS SqliteWorker, FiniteSetTheorems, TLAPS

Store == INSTANCE SqliteRefinement_proofs WITH Keys <- ArtifactKeys

-----------------------------------------------------------------------------
(* The store of the workers is the store the other proofs are about. *)

\* What SqliteStore assumes of its constants is true of the workers' store.
LEMMA StoreAssumptions ==
    /\ NSteps \in Nat \ {0} /\ MaxAttempts \in [1..NSteps -> Nat \ {0}]
    /\ NRuns \in Nat \ {0} /\ ForceRefresh \subseteq 1..NRuns
    /\ Null \notin Int /\ Null \notin Store!Errors
    /\ Null \notin Workers /\ Null \notin ArtifactKeys
    /\ Lease \in Nat /\ RetryDelay \in Nat /\ MaxWait \in Nat /\ MaxWait <= Lease
BY NStepsAssumption, MaxAttemptsAssumption, RunsAssumption, TimeAssumption, NullAssumption
DEF Store!Errors, DB!Errors

\* The vocabulary of the workers is that of the store.
LEMMA SameNames ==
    /\ Store!Runs = Runs /\ Store!Steps = Steps /\ Store!OK = OK
    /\ Store!Lags = DB!Lags /\ Store!Pipeline = DB!Pipeline
    /\ \A i : Store!DependsOn(i) = DependsOn(i)
    /\ \A r : Store!Created(r) <=> DB!Created(r)
    /\ \A row, w, a, d : Store!OwnedRunning(row, w, a, d) <=> DB!OwnedRunning(row, w, a, d)
<1>1. Store!Pipeline = DB!Pipeline
  BY DEF Store!Pipeline, DB!Pipeline, Store!PipelineStatus, DB!PipelineStatus
<1> QED
  BY <1>1 DEF Store!Runs, Runs, Store!Steps, Steps, Store!OK, OK, Store!Lags, DB!Lags,
              Store!DependsOn, DependsOn, Store!Created, DB!Created,
              Store!OwnedRunning, DB!OwnedRunning

\* So are its tables and the methods that the API calls.
LEMMA SameTables ==
    /\ DB!Init <=> Store!Init
    /\ DB!TypeOK <=> Store!TypeOK
<1>1. DB!Init <=> Store!Init
  BY DEF DB!Init, Store!Init, DB!BlankRow, Store!BlankRow, DB!Runs, Store!Runs,
         DB!Steps, Store!Steps
<1>2. DB!TypeOK <=> Store!TypeOK
  BY DEF DB!TypeOK, Store!TypeOK, DB!Row, Store!Row, DB!Runs, Store!Runs, DB!Steps,
         Store!Steps, DB!Pipeline, Store!Pipeline, DB!PipelineStatus,
         Store!PipelineStatus, DB!StepStatus, Store!StepStatus, DB!Errors, Store!Errors
<1> QED BY <1>1, <1>2

\* The methods that the API calls, and the clock, are the same.
LEMMA SameApiMethods ==
    ASSUME NEW r
    PROVE  /\ DB!Create(r) <=> Store!Create(r)
           /\ DB!RetryPipeline(r) <=> Store!RetryPipeline(r)
           /\ \A p : DB!SavePipeline(r, p) <=> Store!SavePipeline(r, p)
           /\ DB!Tick <=> Store!Tick
<1>1. DB!Create(r) <=> Store!Create(r)
  BY DEF DB!Create, Store!Create, DB!BlankRow, Store!BlankRow, DB!FirstStatus,
         Store!FirstStatus, DB!DependsOn, Store!DependsOn, DB!Steps, Store!Steps,
         DB!Created, Store!Created
<1>2. DB!RetryPipeline(r) <=> Store!RetryPipeline(r)
  BY DEF DB!RetryPipeline, Store!RetryPipeline, DB!FirstStatus, Store!FirstStatus,
         DB!DependsOn, Store!DependsOn, DB!Steps, Store!Steps, DB!Promoted,
         Store!Promoted, DB!CanRetry, Store!CanRetry, DB!Restarted, Store!Restarted,
         DB!DepsOK, Store!DepsOK, DB!OK, Store!OK
<1>3. \A p : DB!SavePipeline(r, p) <=> Store!SavePipeline(r, p)
  BY DEF DB!SavePipeline, Store!SavePipeline, DB!Created, Store!Created
<1>4. DB!Tick <=> Store!Tick
  BY DEF DB!Tick, Store!Tick, DB!Later, Store!Later, DB!Runs, Store!Runs, DB!Steps,
         Store!Steps
<1> QED BY <1>1, <1>2, <1>3, <1>4

\* And the methods that the workers call.
LEMMA SameQueueMethods ==
    ASSUME NEW i, NEW d
    PROVE  /\ \A r, w : DB!ClaimReadyStep(r, i, w, d) <=> Store!ClaimReadyStep(r, i, w, d)
           /\ DB!RecoverExpiredLeases(d) <=> Store!RecoverExpiredLeases(d)
<1>1. \A r, w : DB!ClaimReadyStep(r, i, w, d) <=> Store!ClaimReadyStep(r, i, w, d)
  BY DEF DB!ClaimReadyStep, Store!ClaimReadyStep, DB!Claimable, Store!Claimable,
         DB!DepsOK, Store!DepsOK, DB!OK, Store!OK, DB!DependsOn, Store!DependsOn,
         DB!Steps, Store!Steps, DB!ClaimedRow, Store!ClaimedRow
<1>2. DB!RecoverExpiredLeases(d) <=> Store!RecoverExpiredLeases(d)
  BY DEF DB!RecoverExpiredLeases, Store!RecoverExpiredLeases, DB!ExpiredRuns,
         Store!ExpiredRuns, DB!Expired, Store!Expired, DB!Recovered, Store!Recovered,
         DB!Refreshed, Store!Refreshed, DB!DerivedStatus, Store!DerivedStatus,
         DB!StatusesOf, Store!StatusesOf, DB!Runs, Store!Runs, DB!Steps, Store!Steps,
         DB!OK, Store!OK
<1> QED BY <1>1, <1>2

\* The methods that write under a lease are the same.
LEMMA SameStepMethods ==
    ASSUME NEW r, NEW i, NEW w, NEW a, NEW d
    PROVE  /\ DB!HeartbeatStep(r, i, w, a, d) <=> Store!HeartbeatStep(r, i, w, a, d)
           /\ \A k : DB!PrepareClaimedStep(r, i, w, a, k, d)
                        <=> Store!PrepareClaimedStep(r, i, w, a, k, d)
           /\ \A st : DB!RefuseClaimedStep(r, i, w, a, st, d)
                        <=> Store!RefuseClaimedStep(r, i, w, a, st, d)
           /\ \A st, k : DB!FinishStep(r, i, w, a, st, k, d)
                        <=> Store!FinishStep(r, i, w, a, st, k, d)
           /\ \A retry : DB!FailOrRetryStep(r, i, w, a, retry, d)
                        <=> Store!FailOrRetryStep(r, i, w, a, retry, d)
<1> USE DEF DB!OwnedRunning, Store!OwnedRunning
<1>1. DB!HeartbeatStep(r, i, w, a, d) <=> Store!HeartbeatStep(r, i, w, a, d)
  BY DEF DB!HeartbeatStep, Store!HeartbeatStep
<1>2. \A k : DB!PrepareClaimedStep(r, i, w, a, k, d)
                <=> Store!PrepareClaimedStep(r, i, w, a, k, d)
  BY DEF DB!PrepareClaimedStep, Store!PrepareClaimedStep
<1>3. \A st : DB!RefuseClaimedStep(r, i, w, a, st, d)
                 <=> Store!RefuseClaimedStep(r, i, w, a, st, d)
  BY DEF DB!RefuseClaimedStep, Store!RefuseClaimedStep, DB!GivenBack, Store!GivenBack,
         DB!Refreshed, Store!Refreshed, DB!DerivedStatus, Store!DerivedStatus,
         DB!StatusesOf, Store!StatusesOf, DB!Runs, Store!Runs, DB!Steps, Store!Steps,
         DB!OK, Store!OK
<1>4. \A st, k : DB!FinishStep(r, i, w, a, st, k, d)
                    <=> Store!FinishStep(r, i, w, a, st, k, d)
  BY DEF DB!FinishStep, Store!FinishStep, DB!FinishedRow, Store!FinishedRow,
         DB!Promoted, Store!Promoted, DB!DepsOK, Store!DepsOK, DB!DependsOn,
         Store!DependsOn, DB!Refreshed, Store!Refreshed, DB!DerivedStatus,
         Store!DerivedStatus, DB!StatusesOf, Store!StatusesOf, DB!Runs, Store!Runs,
         DB!Steps, Store!Steps, DB!OK, Store!OK
<1>5. \A retry : DB!FailOrRetryStep(r, i, w, a, retry, d)
                    <=> Store!FailOrRetryStep(r, i, w, a, retry, d)
  BY DEF DB!FailOrRetryStep, Store!FailOrRetryStep, DB!FailedRow, Store!FailedRow,
         DB!Refreshed, Store!Refreshed, DB!DerivedStatus, Store!DerivedStatus,
         DB!StatusesOf, Store!StatusesOf, DB!Runs, Store!Runs, DB!Steps, Store!Steps,
         DB!OK, Store!OK
<1> QED BY <1>1, <1>2, <1>3, <1>4, <1>5

\* Every step of the one store is a step of the other.
LEMMA SameNext == DB!Next <=> Store!Next
BY DEF DB!Next, Store!Next, DB!WorkerCall, Store!WorkerCall,
       DB!Create, Store!Create, DB!BlankRow, Store!BlankRow, DB!FirstStatus,
       Store!FirstStatus, DB!DependsOn, Store!DependsOn, DB!Steps, Store!Steps,
       DB!Created, Store!Created, DB!RetryPipeline, Store!RetryPipeline,
       DB!Promoted, Store!Promoted, DB!CanRetry, Store!CanRetry, DB!Restarted,
       Store!Restarted, DB!DepsOK, Store!DepsOK, DB!OK, Store!OK,
       DB!SavePipeline, Store!SavePipeline, DB!Tick, Store!Tick, DB!Later, Store!Later,
       DB!Runs, Store!Runs, DB!ClaimReadyStep, Store!ClaimReadyStep, DB!Claimable,
       Store!Claimable, DB!ClaimedRow, Store!ClaimedRow, DB!Lags, Store!Lags,
       DB!PipelineStatus, Store!PipelineStatus,
       DB!RecoverExpiredLeases, Store!RecoverExpiredLeases, DB!ExpiredRuns,
       Store!ExpiredRuns, DB!Expired, Store!Expired, DB!Recovered, Store!Recovered,
       DB!Refreshed, Store!Refreshed, DB!DerivedStatus, Store!DerivedStatus,
       DB!StatusesOf, Store!StatusesOf, DB!OwnedRunning, Store!OwnedRunning,
       DB!HeartbeatStep, Store!HeartbeatStep, DB!PrepareClaimedStep,
       Store!PrepareClaimedStep, DB!RefuseClaimedStep, Store!RefuseClaimedStep,
       DB!GivenBack, Store!GivenBack, DB!FinishStep, Store!FinishStep,
       DB!FinishedRow, Store!FinishedRow, DB!FailOrRetryStep, Store!FailOrRetryStep,
       DB!FailedRow, Store!FailedRow

\* What a run has come to is the same seen from either store.
LEMMA SameMapping ==
    ASSUME NEW rows
    PROVE  /\ DB!Stage(rows) = Store!Stage(rows) /\ DB!Mode(rows) = Store!Mode(rows)
           /\ DB!Owner(rows) = Store!Owner(rows) /\ DB!Tries(rows) = Store!Tries(rows)
<1>1. DB!Stage(rows) = Store!Stage(rows)
  BY Zenon DEF DB!Stage, Store!Stage, DB!Steps, Store!Steps, DB!OK, Store!OK,
               DB!Cardinality, Store!Cardinality
<1> QED BY <1>1 DEF DB!Mode, Store!Mode, DB!Owner, Store!Owner, DB!Tries, Store!Tries,
                    DB!Current, Store!Current, DB!ModeOf, Store!ModeOf

\* RunProgress!Lose with its state before and after as parameters.
LoseOf(S, mode, modeNew, stage, stageNew, owner, ownerNew, tries, triesNew) ==
    /\ S # {}
    /\ \A r \in S : mode[r] = "owned"
    /\ \E stopped \in SUBSET S :
          /\ \A r \in S \ stopped : tries[r] < MaxAttempts[stage[r] + 1]
          /\ modeNew = [r \in 1..NRuns |-> IF r \in stopped THEN "stopped"
                                          ELSE IF r \in S THEN "waiting" ELSE mode[r]]
    /\ ownerNew = [r \in 1..NRuns |-> IF r \in S THEN Null ELSE owner[r]]
    /\ stageNew = stage /\ triesNew = tries

\* So a step is a step of the one RunProgress exactly if it is one of the other.
LEMMA SameProgress ==
    /\ DB!Progress!Init <=> Store!Progress!Init
    /\ [DB!Progress!Next]_(DB!Progress!vars) <=> [Store!Progress!Next]_(Store!Progress!vars)
<1>1. DB!Progress!Init <=> Store!Progress!Init
  BY SameMapping DEF DB!Progress!Init, Store!Progress!Init, DB!Progress!Runs,
     Store!Progress!Runs, DB!Runs, Store!Runs
<1>2. DB!Progress!Next <=> Store!Progress!Next
  <2>1. /\ [r \in DB!Runs |-> DB!Mode(steps[r])] = [r \in Store!Runs |-> Store!Mode(steps[r])]
        /\ [r \in DB!Runs |-> DB!Stage(steps[r])] = [r \in Store!Runs |-> Store!Stage(steps[r])]
        /\ [r \in DB!Runs |-> DB!Owner(steps[r])] = [r \in Store!Runs |-> Store!Owner(steps[r])]
        /\ [r \in DB!Runs |-> DB!Tries(steps[r])] = [r \in Store!Runs |-> Store!Tries(steps[r])]
    BY SameMapping DEF DB!Runs, Store!Runs
  <2>2. /\ [r \in DB!Runs |-> DB!Mode(steps'[r])] = [r \in Store!Runs |-> Store!Mode(steps'[r])]
        /\ [r \in DB!Runs |-> DB!Stage(steps'[r])] = [r \in Store!Runs |-> Store!Stage(steps'[r])]
        /\ [r \in DB!Runs |-> DB!Owner(steps'[r])] = [r \in Store!Runs |-> Store!Owner(steps'[r])]
        /\ [r \in DB!Runs |-> DB!Tries(steps'[r])] = [r \in Store!Runs |-> Store!Tries(steps'[r])]
    BY SameMapping DEF DB!Runs, Store!Runs
  <2>3. ASSUME NEW r PROVE DB!Progress!Create(r) <=> Store!Progress!Create(r)
    BY <2>1, <2>2 DEF DB!Progress!Create, Store!Progress!Create
  <2>4. ASSUME NEW r, NEW w PROVE DB!Progress!Claim(r, w) <=> Store!Progress!Claim(r, w)
    BY <2>1, <2>2 DEF DB!Progress!Claim, Store!Progress!Claim, DB!Progress!Allowed,
                      Store!Progress!Allowed
  <2>5. ASSUME NEW r PROVE DB!Progress!Complete(r) <=> Store!Progress!Complete(r)
    BY <2>1, <2>2 DEF DB!Progress!Complete, Store!Progress!Complete
  <2>6. ASSUME NEW S PROVE DB!Progress!Lose(S) <=> Store!Progress!Lose(S)
    <3>1. DB!Progress!Lose(S) <=>
          LoseOf(S, [r \in DB!Runs |-> DB!Mode(steps[r])], [r \in DB!Runs |-> DB!Mode(steps'[r])],
                    [r \in DB!Runs |-> DB!Stage(steps[r])], [r \in DB!Runs |-> DB!Stage(steps'[r])],
                    [r \in DB!Runs |-> DB!Owner(steps[r])], [r \in DB!Runs |-> DB!Owner(steps'[r])],
                    [r \in DB!Runs |-> DB!Tries(steps[r])], [r \in DB!Runs |-> DB!Tries(steps'[r])])
      BY DEF LoseOf, DB!Progress!Lose, DB!Progress!Allowed, DB!Progress!Runs
    <3>2. Store!Progress!Lose(S) <=>
          LoseOf(S, [r \in Store!Runs |-> Store!Mode(steps[r])], [r \in Store!Runs |-> Store!Mode(steps'[r])],
                    [r \in Store!Runs |-> Store!Stage(steps[r])], [r \in Store!Runs |-> Store!Stage(steps'[r])],
                    [r \in Store!Runs |-> Store!Owner(steps[r])], [r \in Store!Runs |-> Store!Owner(steps'[r])],
                    [r \in Store!Runs |-> Store!Tries(steps[r])], [r \in Store!Runs |-> Store!Tries(steps'[r])])
      BY DEF LoseOf, Store!Progress!Lose, Store!Progress!Allowed, Store!Progress!Runs
    <3> QED BY <2>1, <2>2, <3>1, <3>2
  <2>7. ASSUME NEW r PROVE DB!Progress!Retry(r) <=> Store!Progress!Retry(r)
    BY <2>1, <2>2 DEF DB!Progress!Retry, Store!Progress!Retry
  <2> QED BY <2>3, <2>4, <2>5, <2>6, <2>7 DEF DB!Progress!Next, Store!Progress!Next,
             DB!Progress!Runs, Store!Progress!Runs
<1>3. DB!Progress!vars = Store!Progress!vars /\ DB!Progress!vars' = Store!Progress!vars'
  BY SameMapping DEF DB!Progress!vars, Store!Progress!vars, DB!Runs, Store!Runs
<1> QED BY <1>1, <1>2, <1>3

-----------------------------------------------------------------------------
(* The inductive invariant. *)

Lost == Art!Lost

LocalState == [pc : PC, run : Runs \cup {0}, attempt : Nat, owner : Workers \cup {Null},
               key : ArtifactKeys \cup {Null}, beating : BOOLEAN, shared : BOOLEAN,
               outcome : OK \cup {"valid", "invalid", "unavailable", Null}]

\* What TypeOK says beside the tables.
LocalTypeOK ==
    /\ artifacts \subseteq [key : ArtifactKeys, gen : 1..commits]
    /\ commits \in 0..MaxCommits
    /\ worker \in [Workers -> LocalState]
    /\ copy \in [Runs -> DB!Pipeline \cup {Null}]

\* There is one artifact for a key, and each was committed, one at a time.
DiskOK == /\ IsFiniteSet(artifacts)
          /\ \A a, b \in artifacts : a.key = b.key => a = b
          /\ \A a, b \in artifacts : a.gen = b.gen => a = b
          /\ \A a \in artifacts : a.gen \in 1..commits
          /\ Cardinality(artifacts) <= commits

\* Key k was made for step i of run r: its input is a manifest that is or was the
\* output of the preceding step, and as long as nothing is lost, it is that one.
MadeFor(r, i, k) ==
    /\ k.step = i
    /\ i \in UsesParams /\ r \notin ForceRefresh => k.line = <<"params", ParamsOf[r]>>
    /\ i \notin UsesParams => k.line = <<"unused", 0>>
    /\ DependsOn(i) = {} => k.input = 0
    /\ \A j \in DependsOn(i) :
          /\ steps[r][j].status \in OK
          /\ k.input \in 1..commits
          /\ \A a \in artifacts : a.gen = k.input => a.key = steps[r][j].out
          /\ Lost = 0 => /\ Art!Valid(steps[r][j].out)
                         /\ k.input = Art!Gen(steps[r][j].out)

\* What may have made a worker refuse step i: a loss, or, in a forced run, a
\* preceding step that was ended by an executor with another key.
Blamed(r, i) ==
    \/ Lost > 0
    \/ /\ r \in ForceRefresh
       /\ \E j \in DependsOn(i) : /\ steps[r][j].status \in OK
                                 /\ steps[r][j].out # Null
                                 /\ steps[r][j].out # steps[r][j].key

\* A key or an output in a row was made for that row, and the output is there.
RowOK(r, i) ==
    LET row == steps[r][i] IN
    /\ row.key # Null => MadeFor(r, i, row.key)
    /\ row.status \in OK => /\ row.error = Null /\ row.out # Null /\ row.key # Null
                            /\ MadeFor(r, i, row.out)
                            /\ Lost = 0 => Art!Valid(row.out)
    /\ row.status = "blocked" => Blamed(r, i)

\* The places where a worker has a step, and where it has a key.
Working == {"claimed", "inspected", "prepared", "waiting", "filtering", "finishing", "failing"}
Keyed == {"waiting", "filtering", "finishing"}
Locking == {"filtering", "finishing"}

\* What a worker at place pc may rely on: it may have lost its step to another
\* worker, but the step is still the one it looked at, behind finished steps.
ClaimOK(w, me) ==
    /\ me.run \in Runs
    /\ steps[me.run][StepOf[w]].status # "absent"
    /\ \A j \in DependsOn(StepOf[w]) : steps[me.run][j].status \in OK

\* Its verdict is "invalid" only for a cause.
VerdictOK(w, me) ==
    \/ me.outcome = "valid" /\ me.key \in ArtifactKeys /\ MadeFor(me.run, StepOf[w], me.key)
    \/ me.outcome = "invalid" /\ Blamed(me.run, StepOf[w])

WorkerOK(w, me) ==
    me.pc \in Working =>
        /\ ClaimOK(w, me)
        /\ me.pc = "inspected" => VerdictOK(w, me)
        /\ me.pc \in {"prepared"} \cup Keyed => steps[me.run][StepOf[w]].key # Null
        /\ me.pc \in Keyed => me.key \in ArtifactKeys /\ MadeFor(me.run, StepOf[w], me.key)
        /\ me.pc = "finishing" => me.outcome \in OK /\ (Lost = 0 => Art!Valid(me.key))

\* One worker at a time has the lock of an artifact, and it computes the artifact
\* only if it is not there.
LocksOK ==
    /\ \A v, w \in Workers :
          /\ v # w /\ worker[v].pc \in Locking /\ worker[w].pc \in Locking
          => worker[v].key # worker[w].key
    /\ \A w \in Workers : At(w, "filtering") => ~Art!Valid(worker[w].key)

\* Only a run with force_refresh has the nonce, or a copy that will have it.
NonceOK ==
    \A r \in Runs :
        /\ pipelines[r].nonce => r \in ForceRefresh
        /\ copy[r] # Null => r \in ForceRefresh /\ copy[r].status # "absent"

WInv ==
    /\ Store!IInv /\ LocalTypeOK /\ DiskOK
    /\ \A r \in Runs, i \in Steps : RowOK(r, i)
    /\ \A w \in Workers : WorkerOK(w, worker[w])
    /\ LocksOK /\ NonceOK

-----------------------------------------------------------------------------
(* The artifacts. *)

\* The sets of an instance have the same size.
LEMMA SameCardinality == \A S : Art!Cardinality(S) = Cardinality(S)
BY DEF Art!Cardinality, Cardinality

\* How many artifacts are lost is a number.
LEMMA LostNat ==
    ASSUME DiskOK, commits \in Nat
    PROVE  Lost \in Nat
BY FS_CardinalityType, SameCardinality DEF DiskOK, Lost, Art!Lost

\* The artifact of a key is the one Gen finds.
LEMMA GenOf ==
    ASSUME DiskOK, NEW a \in artifacts
    PROVE  Art!Valid(a.key) /\ Art!Gen(a.key) = a.gen
<1>1. \A b \in artifacts : b.key = a.key <=> b = a
  BY DEF DiskOK
<1>2. (CHOOSE b \in artifacts : b.key = a.key) = a
  BY <1>1
<1> QED BY <1>2 DEF Art!Valid, Art!Gen

\* A manifest that exists has one of the numbers that were given out.
LEMMA GenType ==
    ASSUME LocalTypeOK, NEW k, Art!Valid(k)
    PROVE  Art!Gen(k) \in 0..MaxCommits
<1>1. (CHOOSE a \in artifacts : a.key = k) \in artifacts
  BY DEF Art!Valid
<1> QED BY <1>1, MaxCommitsAssumption DEF Art!Gen, LocalTypeOK

\* What was there stays the same artifact while nothing is lost, what is lost
\* stays counted, and the number of a manifest is not given out again.
DiskGrows ==
    /\ Lost' = 0 => /\ Lost = 0
                    /\ \A k : Art!Valid(k) => Art!Valid(k)' /\ Art!Gen(k)' = Art!Gen(k)
    /\ Lost > 0 => Lost' > 0
    /\ 1..commits \subseteq 1..commits'
    /\ \A a \in artifacts' : a \in artifacts \/ a.gen \notin 1..commits

\* A commit adds the artifact of its key, and no other.
LEMMA CommitGrows ==
    ASSUME DiskOK, commits \in Nat, NEW k, ~Art!Valid(k), Art!Commit(k)
    PROVE  /\ DiskOK' /\ DiskGrows
           /\ Art!Valid(k)'
           /\ \A j : j # k => (Art!Valid(j)' <=> Art!Valid(j))
           /\ artifacts' = artifacts \cup {[key |-> k, gen |-> commits + 1]}
           /\ commits' = commits + 1
<1> DEFINE new == [key |-> k, gen |-> commits + 1]
<1>1. artifacts' = artifacts \cup {new} /\ commits' = commits + 1
  BY DEF Art!Commit
<1>2. \A a \in artifacts : a.key # k
  BY DEF Art!Valid
<1>3. new \notin artifacts
  BY <1>2
<1>4. /\ IsFiniteSet(artifacts')
      /\ Cardinality(artifacts') = Cardinality(artifacts) + 1
      /\ Cardinality(artifacts) \in Nat
  BY <1>1, <1>3, FS_AddElement, FS_CardinalityType DEF DiskOK
<1>5. DiskOK'
  <2>1. \A a \in artifacts : a.gen \in 1..commits' /\ a.gen # commits + 1
    BY <1>1 DEF DiskOK
  <2>2. new.gen = commits + 1 /\ new.key = k /\ commits + 1 \in 1..commits'
    BY <1>1
  <2>3. \A a : a \in artifacts' <=> a \in artifacts \/ a = new
    BY <1>1
  <2> HIDE DEF new
  <2> QED BY <1>1, <1>2, <1>4, <2>1, <2>2, <2>3 DEF DiskOK
<1>6. Lost' = Lost
  BY <1>1, <1>4, SameCardinality DEF DiskOK, Lost, Art!Lost
<1>7. Art!Valid(k)' /\ \A j : j # k => (Art!Valid(j)' <=> Art!Valid(j))
  <2>1. new.key = k /\ new \in artifacts'
    BY <1>1
  <2>2. \A a : a \in artifacts' <=> a \in artifacts \/ a = new
    BY <1>1
  <2> HIDE DEF new
  <2> QED BY <2>1, <2>2 DEF Art!Valid
<1>8. ASSUME NEW j, Art!Valid(j) PROVE Art!Valid(j)' /\ Art!Gen(j)' = Art!Gen(j)
  <2>1. PICK a \in artifacts : a.key = j
    BY <1>8 DEF Art!Valid
  <2>2. Art!Gen(j) = a.gen
    BY <2>1, GenOf
  <2>3. a \in artifacts'
    BY <1>1
  <2>4. \A b \in artifacts' : b.key = j <=> b = a
    BY <1>5, <2>1, <2>3 DEF DiskOK
  <2>5. (CHOOSE b \in artifacts' : b.key = j) = a
    BY <2>3, <2>4
  <2> QED BY <2>1, <2>2, <2>3, <2>5 DEF Art!Gen, Art!Valid
<1>9. /\ 1..commits \subseteq 1..commits'
      /\ \A a \in artifacts' : a \in artifacts \/ a.gen \notin 1..commits
  BY <1>1
<1> QED BY <1>1, <1>5, <1>6, <1>7, <1>8, <1>9 DEF DiskGrows

\* A manifest without its files is counted as lost.
LEMMA SpoilGrows ==
    ASSUME DiskOK, commits \in Nat, Art!Spoil
    PROVE  /\ DiskOK' /\ DiskGrows /\ Lost' > 0
           /\ \A k : Art!Valid(k)' <=> Art!Valid(k)
           /\ artifacts' = artifacts /\ commits' = commits + 1
<1>1. artifacts' = artifacts /\ commits' = commits + 1
  BY DEF Art!Spoil
<1>2. IsFiniteSet(artifacts) /\ Cardinality(artifacts) \in Nat
  BY FS_CardinalityType DEF DiskOK
<1>3. DiskOK'
  <2>1. \A a \in artifacts : a.gen \in 1..commits'
    BY <1>1 DEF DiskOK
  <2> QED BY <1>1, <1>2, <2>1 DEF DiskOK
<1>4. Lost' > 0
  BY <1>1, <1>2, SameCardinality DEF DiskOK, Lost, Art!Lost
<1>5. \A k : Art!Valid(k)' <=> Art!Valid(k)
  BY <1>1 DEF Art!Valid
<1>6. /\ 1..commits \subseteq 1..commits'
      /\ \A a \in artifacts' : a \in artifacts \/ a.gen \notin 1..commits
  BY <1>1
<1> QED BY <1>1, <1>3, <1>4, <1>5, <1>6 DEF DiskGrows

\* A loss is counted, and brings nothing back.
LEMMA LoseGrows ==
    ASSUME DiskOK, commits \in Nat, Art!Lose
    PROVE  /\ DiskOK' /\ DiskGrows
           /\ \A k : Art!Valid(k)' => Art!Valid(k)
           /\ artifacts' \subseteq artifacts /\ commits' = commits
<1>1. PICK a \in artifacts : artifacts' = artifacts \ {a}
  BY DEF Art!Lose
<1>2. commits' = commits
  BY DEF Art!Lose
<1>3. /\ IsFiniteSet(artifacts') /\ Cardinality(artifacts') = Cardinality(artifacts) - 1
      /\ Cardinality(artifacts) \in Nat
  BY <1>1, FS_RemoveElement, FS_CardinalityType DEF DiskOK
<1>4. DiskOK'
  BY <1>1, <1>2, <1>3 DEF DiskOK
<1>5. Lost' > 0
  BY <1>2, <1>3, SameCardinality DEF DiskOK, Lost, Art!Lost
<1> QED BY <1>1, <1>2, <1>4, <1>5 DEF DiskGrows, Art!Valid

\* Where nothing is committed or lost, nothing changes.
LEMMA SameDisk ==
    ASSUME UNCHANGED <<artifacts, commits>>
    PROVE  /\ DiskGrows
           /\ DiskOK => DiskOK'
           /\ \A k : Art!Valid(k)' <=> Art!Valid(k)
<1>1. Lost' = Lost /\ \A k : (Art!Valid(k)' <=> Art!Valid(k)) /\ Art!Gen(k)' = Art!Gen(k)
  BY DEF Lost, Art!Lost, Art!Valid, Art!Gen
<1>2. DiskOK => DiskOK'
  BY DEF DiskOK
<1> QED BY <1>1, <1>2 DEF DiskGrows

-----------------------------------------------------------------------------
(* What a step leaves of what the others rely on. *)

\* Finished steps keep output and key, rows do not go away, keys are not taken back.
RowsGrow ==
    \A r \in Runs, i \in Steps :
        LET old == steps[r][i]
            new == steps'[r][i]
        IN  /\ old.status \in OK => /\ new.status \in OK /\ new.out = old.out
                                    /\ new.key = old.key
            /\ old.status # "absent" => /\ new.status # "absent"
                                        /\ old.key # Null => new.key # Null

\* It is enough that each row is kept, or was not finished and keeps its key.
LEMMA KeepsGrows ==
    ASSUME \A r \in Runs, i \in Steps : \/ Store!Keeps(steps[r][i], steps'[r][i])
                                        \/ /\ steps[r][i].status \notin OK
                                           /\ steps'[r][i].status # "absent"
                                           /\ steps[r][i].key # Null => steps'[r][i].key # Null
    PROVE  RowsGrow
BY SameNames DEF RowsGrow, Store!Keeps, OK

\* A key goes on being made for its step.
LEMMA MadeForKept ==
    ASSUME RowsGrow, DiskGrows, NEW r \in Runs, NEW i \in Steps, NEW k, MadeFor(r, i, k)
    PROVE  MadeFor(r, i, k)'
<1>0. ASSUME NEW j \in DependsOn(i)
      PROVE  /\ k.input \in 1..commits'
             /\ \A a \in artifacts' : a.gen = k.input => a.key = steps[r][j].out
  <2>1. k.input \in 1..commits /\ \A a \in artifacts : a.gen = k.input => a.key = steps[r][j].out
    BY DEF MadeFor
  <2> QED BY <2>1 DEF DiskGrows
<1>1. \A j \in DependsOn(i) : /\ steps[r][j].status \in OK
                              /\ steps'[r][j].status \in OK
                              /\ steps'[r][j].out = steps[r][j].out
  BY DEF MadeFor, RowsGrow, DependsOn
<1>2. ASSUME NEW j \in DependsOn(i), Lost' = 0
      PROVE  Art!Valid(steps[r][j].out)' /\ k.input = Art!Gen(steps[r][j].out)'
  <2> DEFINE out == steps[r][j].out
             outNew == steps'[r][j].out
  <2>1. Lost = 0
    BY <1>2 DEF DiskGrows
  <2>2. Art!Valid(out) /\ k.input = Art!Gen(out)
    BY <2>1 DEF MadeFor
  <2>3. outNew = out
    BY <1>1
  <2>4. (\E a \in artifacts' : a.key = out) /\ (CHOOSE a \in artifacts' : a.key = out).gen = Art!Gen(out)
    BY <1>2, <2>2 DEF DiskGrows, Art!Valid, Art!Gen
  <2> QED BY <2>2, <2>3, <2>4 DEF Art!Valid, Art!Gen
<1>3. \A j \in DependsOn(i), a \in artifacts' : a.gen = k.input => a.key = steps'[r][j].out
  BY <1>0, <1>1
<1> QED BY <1>0, <1>1, <1>2, <1>3 DEF MadeFor

\* A cause to refuse a step remains one: losses are counted, and a finished row
\* keeps its path and its key.
LEMMA BlamedKept ==
    ASSUME RowsGrow, DiskGrows, NEW r \in Runs, NEW i \in Steps, Blamed(r, i)
    PROVE  Blamed(r, i)'
<1>1. CASE Lost > 0
  BY <1>1 DEF DiskGrows, Blamed
<1>2. CASE ~(Lost > 0)
  <2>1. r \in ForceRefresh
    BY <1>2 DEF Blamed
  <2>2. PICK j \in DependsOn(i) : /\ steps[r][j].status \in OK
                                 /\ steps[r][j].out # Null
                                 /\ steps[r][j].out # steps[r][j].key
    BY <1>2 DEF Blamed
  <2>3. /\ steps'[r][j].status \in OK
        /\ steps'[r][j].out = steps[r][j].out /\ steps'[r][j].key = steps[r][j].key
    BY <2>2 DEF RowsGrow, DependsOn
  <2> QED BY <2>1, <2>2, <2>3 DEF Blamed
<1> QED BY <1>1, <1>2

\* A row that the step keeps stays right.
LEMMA RowOKKept ==
    ASSUME RowsGrow, DiskGrows, DiskOK, DiskOK', commits \in Nat, commits' \in Nat,
           NEW r \in Runs, NEW i \in Steps, RowOK(r, i),
           Store!Keeps(steps[r][i], steps'[r][i])
    PROVE  RowOK(r, i)'
<1> DEFINE old == steps[r][i]
           new == steps'[r][i]
<1>1. /\ old.status \in OK <=> new.status \in OK
      /\ old.status \in OK => new.out = old.out /\ new.error = old.error
      /\ new.key # Null => new.key = old.key
      /\ old.status \in OK => new.key = old.key
      /\ new.status = "blocked" => old.status = "blocked"
  BY SameNames DEF Store!Keeps, OK
<1>2. ASSUME new.key # Null PROVE MadeFor(r, i, steps[r][i].key)'
  <2>1. PICK k : k = old.key
    OBVIOUS
  <2>2. MadeFor(r, i, k) /\ new.key = k
    BY <1>1, <1>2, <2>1 DEF RowOK
  <2>3. MadeFor(r, i, k)'
    BY <2>2, MadeForKept
  <2> QED BY <2>2, <2>3 DEF MadeFor
<1>3. ASSUME new.status \in OK
      PROVE  /\ new.error = Null /\ new.out # Null /\ new.key # Null
             /\ MadeFor(r, i, steps[r][i].out)'
             /\ Lost' = 0 => Art!Valid(steps[r][i].out)'
  <2>1. PICK k : k = old.out
    OBVIOUS
  <2>2. /\ old.error = Null /\ k # Null /\ old.key # Null /\ MadeFor(r, i, k)
        /\ Lost = 0 => Art!Valid(k)
        /\ new.out = k /\ new.error = old.error /\ new.key = old.key
    BY <1>1, <1>3, <2>1 DEF RowOK
  <2>3. MadeFor(r, i, k)'
    BY <2>2, MadeForKept
  <2>4. Lost' = 0 => Art!Valid(k)'
    BY <2>2 DEF DiskGrows
  <2> QED BY <2>2, <2>3, <2>4 DEF MadeFor, Art!Valid
<1>4. new.status = "blocked" => Blamed(r, i)'
  BY <1>1, BlamedKept DEF RowOK
<1> QED BY <1>2, <1>3, <1>4 DEF RowOK

\* A worker that does not move may still rely on what it has, unless it is
\* the artifact itself that has come.
LEMMA WorkerOKKept ==
    ASSUME RowsGrow, DiskGrows, NEW w \in Workers, NEW me, WorkerOK(w, me),
           me.run \in Runs
    PROVE  WorkerOK(w, me)'
<1> SUFFICES ASSUME me.pc \in Working PROVE WorkerOK(w, me)'
  BY DEF WorkerOK
<1>0. StepOf[w] \in Steps
  BY StepOfAssumption
<1>1. ClaimOK(w, me)'
  BY <1>0 DEF WorkerOK, ClaimOK, RowsGrow, DependsOn
<1>2. ASSUME MadeFor(me.run, StepOf[w], me.key) PROVE MadeFor(me.run, StepOf[w], me.key)'
  BY <1>0, <1>2, MadeForKept
<1>3. me.pc = "inspected" => VerdictOK(w, me)'
  BY <1>0, <1>2, BlamedKept DEF WorkerOK, VerdictOK
<1>4. me.pc \in {"prepared"} \cup Keyed => steps'[me.run][StepOf[w]].key # Null
  BY <1>0 DEF WorkerOK, ClaimOK, RowsGrow
<1>5. me.pc \in Keyed => me.key \in ArtifactKeys /\ MadeFor(me.run, StepOf[w], me.key)'
  BY <1>2 DEF WorkerOK
<1>6. me.pc = "finishing" => me.outcome \in OK /\ (Lost' = 0 => Art!Valid(me.key)')
  BY DEF WorkerOK, DiskGrows
<1> QED BY <1>1, <1>3, <1>4, <1>5, <1>6 DEF WorkerOK

-----------------------------------------------------------------------------
(* What a worker finds out before it prepares its step. *)

\* A row of the tables.
LEMMA RowTypes ==
    ASSUME WInv, NEW r \in Runs, NEW i \in Steps
    PROVE  /\ steps[r][i].status \in DB!StepStatus \cup {"absent"}
           /\ steps[r][i].worker \in Workers \cup {Null}
           /\ steps[r][i].attempt \in Nat
           /\ steps[r][i].key \in ArtifactKeys \cup {Null}
           /\ steps[r][i].out \in ArtifactKeys \cup {Null}
<1>1. steps[r][i] \in Store!Row
  BY SameNames DEF WInv, Store!IInv, Store!TypeOK
<1> QED BY <1>1 DEF Store!Row, DB!StepStatus, Store!StepStatus

\* A step of a run that is not forced has one key as long as nothing is lost:
\* whoever computes it sees the same params and the same input.
LEMMA OneKey ==
    ASSUME NEW r \in Runs, r \notin ForceRefresh, NEW i \in Steps, Lost = 0,
           NEW k \in ArtifactKeys, NEW m \in ArtifactKeys,
           MadeFor(r, i, k), MadeFor(r, i, m)
    PROVE  k = m
<1>1. k.step = m.step
  BY DEF MadeFor
<1>2. k.line = m.line
  BY DEF MadeFor
<1>3. k.input = m.input
  <2>1. CASE DependsOn(i) = {}
    BY <2>1 DEF MadeFor
  <2>2. CASE DependsOn(i) # {}
    <3>1. PICK j \in DependsOn(i) : TRUE
      BY <2>2
    <3> QED BY <3>1 DEF MadeFor
  <2> QED BY <2>1, <2>2
<1> QED BY <1>1, <1>2, <1>3 DEF ArtifactKeys

\* The output of a finished step is valid, or there is a cause to refuse the next.
LEMMA OutputCases ==
    ASSUME WInv, NEW r \in Runs, NEW i \in Steps, NEW j \in DependsOn(i),
           steps[r][j].status \in OK
    PROVE  OutputValid(steps[r][j]) \/ Blamed(r, i)
<1> DEFINE x == steps[r][j]
<1>0. j \in Steps
  BY DEF DependsOn
<1>1. /\ x.out # Null /\ x.key # Null
      /\ MadeFor(r, j, x.out) /\ MadeFor(r, j, x.key)
      /\ Lost = 0 => Art!Valid(x.out)
  BY <1>0 DEF WInv, RowOK
<1>2. x.out \in ArtifactKeys /\ x.key \in ArtifactKeys
  BY <1>0, <1>1, RowTypes
<1>3. Lost \in Nat
  BY LostNat, MaxCommitsAssumption DEF WInv, LocalTypeOK
<1>4. CASE Lost > 0
  BY <1>4 DEF Blamed
<1>5. CASE Lost = 0 /\ x.out = x.key
  BY <1>1, <1>5 DEF OutputValid
<1>6. CASE Lost = 0 /\ x.out # x.key
  <2>1. r \in ForceRefresh
    BY <1>0, <1>1, <1>2, <1>6, OneKey
  <2> QED BY <1>1, <1>6, <2>1 DEF Blamed
<1> QED BY <1>3, <1>4, <1>5, <1>6

\* The verdict of a worker whose step has finished steps before it: the outputs
\* are valid, or there is a cause.
LEMMA VerdictCases ==
    ASSUME WInv, NEW r \in Runs, NEW i \in Steps,
           \A j \in DependsOn(i) : steps[r][j].status \in OK
    PROVE  \/ Verdict(r, i) = "valid" /\ \A j \in DependsOn(i) : Art!Valid(steps[r][j].out)
           \/ Verdict(r, i) = "invalid" /\ Blamed(r, i)
<1> DEFINE deps == {steps[r][j] : j \in DependsOn(i)}
<1>1. \A x \in deps : x.status \in OK /\ x.error = Null
  BY DEF WInv, RowOK, DependsOn
<1>2. \A x \in deps : /\ ~(x.status \in {"failed", "blocked"} \/ x.error = "LEASE_EXPIRED")
                      /\ ~(x.status \notin OK)
  BY <1>1, NullAssumption DEF OK, DB!Errors
<1>3. CASE \E x \in deps : ~OutputValid(x)
  <2>1. Verdict(r, i) = "invalid"
    BY <1>2, <1>3 DEF Verdict
  <2>2. Blamed(r, i)
    BY <1>3, OutputCases
  <2> QED BY <2>1, <2>2
<1>4. CASE \A x \in deps : OutputValid(x)
  <2>1. Verdict(r, i) = "valid"
    BY <1>2, <1>4 DEF Verdict
  <2>2. \A j \in DependsOn(i) : Art!Valid(steps[r][j].out)
    BY <1>4 DEF OutputValid
  <2> QED BY <2>1, <2>2
<1> QED BY <1>3, <1>4

\* The key it computes then is made for the step.
LEMMA CacheKeyMade ==
    ASSUME WInv, NEW r \in Runs, NEW i \in Steps,
           \A j \in DependsOn(i) : steps[r][j].status \in OK /\ Art!Valid(steps[r][j].out)
    PROVE  CacheKey(r, i) \in ArtifactKeys /\ MadeFor(r, i, CacheKey(r, i))
<1> DEFINE line == IF i \in UsesParams THEN Line(r) ELSE <<"unused", 0>>
           input == IF DependsOn(i) = {} THEN 0
                    ELSE Art!Gen(CHOOSE k \in Inputs(r, i) : TRUE)
           key == CacheKey(r, i)
<1>1. key.step = i /\ key.line = line /\ key.input = input
      /\ key = [step |-> i, line |-> line, input |-> input]
  BY DEF CacheKey
<1>2. Line(r) \in Lines /\ (r \notin ForceRefresh => Line(r) = <<"params", ParamsOf[r]>>)
  BY DEF Line, Lines, WInv, NonceOK
<1>3. line \in Lines
  BY <1>2 DEF Lines
<1>4. ASSUME NEW j \in DependsOn(i) PROVE input = Art!Gen(steps[r][j].out)
  <2>1. DependsOn(i) = {j}
    BY DEF DependsOn
  <2>2. Inputs(r, i) = {steps[r][j].out}
    BY <2>1 DEF Inputs
  <2>3. (CHOOSE k \in Inputs(r, i) : TRUE) = steps[r][j].out
    BY <2>2
  <2> QED BY <2>1, <2>3
<1>5. input \in 0..MaxCommits
  <2>1. CASE DependsOn(i) = {}
    BY <2>1, MaxCommitsAssumption
  <2>2. CASE DependsOn(i) # {}
    <3>1. PICK j \in DependsOn(i) : TRUE
      BY <2>2
    <3>2. Art!Gen(steps[r][j].out) \in 0..MaxCommits
      BY <3>1, GenType DEF WInv
    <3> QED BY <1>4, <3>1, <3>2
  <2> QED BY <2>1, <2>2
<1> HIDE DEF line, input, key
<1>6. key \in ArtifactKeys
  BY <1>1, <1>3, <1>5 DEF ArtifactKeys
<1>7. i \in UsesParams /\ r \notin ForceRefresh => key.line = <<"params", ParamsOf[r]>>
  BY <1>1, <1>2 DEF line
<1>8. i \notin UsesParams => key.line = <<"unused", 0>>
  BY <1>1 DEF line
<1>9. DependsOn(i) = {} => key.input = 0
  BY <1>1 DEF input
<1>10. ASSUME NEW j \in DependsOn(i)
       PROVE  /\ input \in 1..commits
              /\ \A a \in artifacts : a.gen = input => a.key = steps[r][j].out
  <2>1. PICK b \in artifacts : b.key = steps[r][j].out
    BY DEF Art!Valid
  <2>2. input = b.gen
    BY <1>4, <2>1, GenOf DEF WInv
  <2> QED BY <2>1, <2>2 DEF WInv, DiskOK
<1>11. MadeFor(r, i, key)
  BY <1>1, <1>4, <1>7, <1>8, <1>9, <1>10 DEF MadeFor
<1> QED BY <1>6, <1>11 DEF key

-----------------------------------------------------------------------------
(* Every action is a step of the store, or leaves the store alone. *)

\* A call that the store accepts comes from the owner of the step, in an attempt
\* that the step may have.
LEMMA AcceptedCall ==
    ASSUME Store!IInv, NEW r \in Runs, NEW i \in Steps, NEW v, NEW a, NEW d,
           DB!OwnedRunning(steps[r][i], v, a, d)
    PROVE  /\ v \in Workers /\ a \in 1..MaxAttempts[i]
           /\ steps[r][i].status = "running" /\ steps[r][i].attempt = a
           /\ Store!OwnedRunning(steps[r][i], v, a, d)
<1>1. Store!RowInv(steps[r][i], i) /\ steps[r][i] \in Store!Row
  BY SameNames DEF Store!IInv, Store!RunInv, Store!TypeOK
<1>2. steps[r][i].status = "running" /\ steps[r][i].worker = v /\ steps[r][i].attempt = a
  BY DEF DB!OwnedRunning
<1>3. v \in Workers /\ a \in Nat
  BY <1>1, <1>2 DEF Store!Row, Store!RowInv
<1>4. a # 0 /\ a <= MaxAttempts[i] /\ MaxAttempts[i] \in Nat
  BY <1>1, <1>2, MaxAttemptsAssumption DEF Store!RowInv, Steps
<1> QED BY <1>2, <1>3, <1>4, SameNames

\* The calls of step_executor.py and step_worker.py that the store accepts.
LEMMA CallIsStep ==
    ASSUME Store!IInv, NEW r \in Runs, NEW i \in Steps, NEW v, NEW a, NEW d \in DB!Lags,
           DB!OwnedRunning(steps[r][i], v, a, d),
           \/ DB!HeartbeatStep(r, i, v, a, d)
           \/ \E k \in ArtifactKeys : DB!PrepareClaimedStep(r, i, v, a, k, d)
           \/ DB!RefuseClaimedStep(r, i, v, a, "blocked", d)
           \/ \E st \in OK, k \in ArtifactKeys : DB!FinishStep(r, i, v, a, st, k, d)
           \/ DB!FailOrRetryStep(r, i, v, a, a < MaxAttempts[i], d)
    PROVE  Store!Next
<1>1. v \in Workers /\ a \in 1..MaxAttempts[i] /\ Store!OwnedRunning(steps[r][i], v, a, d)
  BY AcceptedCall
<1>2. Store!WorkerCall(r, i, v, a, d)
  BY <1>1, SameNames, SameStepMethods DEF Store!WorkerCall
<1> QED BY <1>1, <1>2, SameNames DEF Store!Next

\* Where a worker that has a step looks for its row.
LEMMA RowOfWorker ==
    ASSUME WInv, NEW w \in Workers, worker[w].pc \in Working
    PROVE  /\ worker[w].run \in Runs /\ StepOf[w] \in Steps
           /\ ClaimOK(w, worker[w])
           /\ RowOf(w) = steps[worker[w].run][StepOf[w]]
BY StepOfAssumption DEF WInv, WorkerOK, ClaimOK, RowOf

\* recover_expired_leases, or nothing to recover.
LEMMA RecoverStep ==
    ASSUME NEW w, Recover(w)
    PROVE  Store!Next \/ UNCHANGED db
<1>1. PICK d \in DB!Lags : IF DB!ExpiredRuns(d) = {} THEN UNCHANGED db
                                                     ELSE DB!RecoverExpiredLeases(d)
  BY DEF Recover
<1>2. DB!RecoverExpiredLeases(d) => Store!RecoverExpiredLeases(d)
  BY SameQueueMethods
<1> QED BY <1>1, <1>2, SameNames DEF Store!Next

\* claim_ready_step for the step type of the worker.
LEMMA ClaimStep ==
    ASSUME NEW w \in Workers, Claim(w)
    PROVE  Store!Next
<1>1. PICK r \in Runs, d \in DB!Lags : DB!ClaimReadyStep(r, StepOf[w], w, d)
  BY DEF Claim
<1>2. Store!ClaimReadyStep(r, StepOf[w], w, d)
  BY <1>1, SameQueueMethods
<1> QED BY <1>2, StepOfAssumption, SameNames DEF Store!Next

\* claim_one gives a step back only as blocked: its dependencies are finished, so
\* none is unavailable.
LEMMA GiveBackStep ==
    ASSUME WInv, NEW w \in Workers, GiveBack(w)
    PROVE  Store!Next \/ UNCHANGED db
<1> DEFINE me == worker[w]
<1>1. me.pc = "inspected" /\ me.outcome = "invalid"
  BY DEF GiveBack, At, WInv, WorkerOK, Working, VerdictOK
<1>2. PICK d \in DB!Lags :
        IF DB!OwnedRunning(RowOf(w), w, me.attempt, d)
        THEN DB!RefuseClaimedStep(me.run, StepOf[w], w, me.attempt, "blocked", d)
        ELSE UNCHANGED db
  BY <1>1 DEF GiveBack
<1>3. me.run \in Runs /\ StepOf[w] \in Steps /\ RowOf(w) = steps[me.run][StepOf[w]]
  BY <1>1, RowOfWorker DEF Working
<1> QED BY <1>2, <1>3, CallIsStep DEF WInv

\* prepare_claimed_step with a key that is one, or a refused write.
LEMMA PrepareStep ==
    ASSUME WInv, NEW w \in Workers, Prepare(w)
    PROVE  Store!Next \/ UNCHANGED db
<1> DEFINE me == worker[w]
<1>1. me.pc = "inspected" /\ me.outcome = "valid"
  BY DEF Prepare, At
<1>2. me.key \in ArtifactKeys
  BY <1>1 DEF WInv, WorkerOK, Working, VerdictOK
<1>3. PICK d \in DB!Lags :
        IF DB!OwnedRunning(RowOf(w), w, me.attempt, d)
        THEN DB!PrepareClaimedStep(me.run, StepOf[w], w, me.attempt, me.key, d)
        ELSE UNCHANGED db
  BY DEF Prepare
<1>4. me.run \in Runs /\ StepOf[w] \in Steps /\ RowOf(w) = steps[me.run][StepOf[w]]
  BY <1>1, RowOfWorker DEF Working
<1> QED BY <1>2, <1>3, <1>4, CallIsStep DEF WInv

\* A heartbeat in the attempt that the row has now, or a refused one.
LEMMA HeartbeatIsStep ==
    ASSUME WInv, NEW w \in Workers, Heartbeat(w)
    PROVE  Store!Next \/ UNCHANGED db
<1> DEFINE me == worker[w]
<1>1. me.pc = "filtering"
  BY DEF Heartbeat, At
<1>2. PICK d \in DB!Lags :
        IF DB!OwnedRunning(RowOf(w), me.owner, RowOf(w).attempt, d)
        THEN DB!HeartbeatStep(me.run, StepOf[w], me.owner, RowOf(w).attempt, d)
        ELSE UNCHANGED db
  BY DEF Heartbeat
<1>3. me.run \in Runs /\ StepOf[w] \in Steps /\ RowOf(w) = steps[me.run][StepOf[w]]
  BY <1>1, RowOfWorker DEF Working
<1> QED BY <1>2, <1>3, CallIsStep DEF WInv

\* finish_step with a status and an artifact that finish a step, or a refused write.
LEMMA FinishIsStep ==
    ASSUME WInv, NEW w \in Workers, Finish(w)
    PROVE  Store!Next \/ UNCHANGED db
<1> DEFINE me == worker[w]
<1>1. me.pc = "finishing"
  BY DEF Finish, At
<1>2. me.key \in ArtifactKeys /\ me.outcome \in OK
  BY <1>1 DEF WInv, WorkerOK, Working, Keyed
<1>3. PICK d \in DB!Lags :
        IF DB!OwnedRunning(RowOf(w), me.owner, me.attempt, d)
        THEN DB!FinishStep(me.run, StepOf[w], me.owner, me.attempt, me.outcome, me.key, d)
        ELSE UNCHANGED db
  BY DEF Finish
<1>4. me.run \in Runs /\ StepOf[w] \in Steps /\ RowOf(w) = steps[me.run][StepOf[w]]
  BY <1>1, RowOfWorker DEF Working
<1> QED BY <1>2, <1>3, <1>4, CallIsStep DEF WInv

\* fail_or_retry_step with a next try as long as attempts are left, or a refused
\* write: the attempt that is compared is the one in the row.
LEMMA FailIsStep ==
    ASSUME WInv, NEW w \in Workers, Fail(w)
    PROVE  Store!Next \/ UNCHANGED db
<1> DEFINE me == worker[w]
<1>1. me.pc = "failing"
  BY DEF Fail, At
<1>2. PICK d \in DB!Lags :
        IF DB!OwnedRunning(RowOf(w), me.owner, me.attempt, d)
        THEN DB!FailOrRetryStep(me.run, StepOf[w], me.owner, me.attempt, WillRetry(w), d)
        ELSE UNCHANGED db
  BY DEF Fail
<1>3. me.run \in Runs /\ StepOf[w] \in Steps /\ RowOf(w) = steps[me.run][StepOf[w]]
  BY <1>1, RowOfWorker DEF Working
<1> QED BY <1>2, <1>3, CallIsStep DEF WInv, WillRetry

\* A copy with the nonce, written field by field.
LEMMA WithNonce ==
    ASSUME NEW S, NEW B, NEW p \in [status : S, nonce : B], NEW v \in B
    PROVE  p.status \in S /\ [p EXCEPT !.nonce = v] = [status |-> p.status, nonce |-> v]
<1> DEFINE new == [status |-> p.status, nonce |-> v]
<1>1. [p EXCEPT !.nonce = v] \in [status : S, nonce : B]
  OBVIOUS
<1>2. new \in [status : S, nonce : B]
  OBVIOUS
<1>3. [p EXCEPT !.nonce = v].status = new.status /\ [p EXCEPT !.nonce = v].nonce = new.nonce
  OBVIOUS
<1> QED BY <1>1, <1>2, <1>3

\* The copy that is saved is the document of a run that exists, with the nonce.
LEMMA SaveNonceStep ==
    ASSUME WInv, NEW r \in Runs, SaveNonce(r)
    PROVE  Store!Next
<1>1. /\ copy[r] \in DB!Pipeline /\ copy[r].status # "absent" /\ r \in ForceRefresh
  BY DEF SaveNonce, WInv, NonceOK, LocalTypeOK
<1>2. /\ copy[r].status \in Store!PipelineStatus
      /\ [copy[r] EXCEPT !.nonce = TRUE] = [status |-> copy[r].status, nonce |-> TRUE]
  <2>1. copy[r] \in [status : DB!PipelineStatus \cup {"absent"}, nonce : BOOLEAN]
    BY <1>1 DEF DB!Pipeline
  <2>2. /\ copy[r].status \in DB!PipelineStatus \cup {"absent"}
        /\ [copy[r] EXCEPT !.nonce = TRUE] = [status |-> copy[r].status, nonce |-> TRUE]
    <3> DEFINE p == copy[r]
               S == DB!PipelineStatus \cup {"absent"}
               B == BOOLEAN
               v == TRUE
    <3>1. p \in [status : S, nonce : B] /\ v \in B
      BY <2>1
    <3> HIDE DEF p, S, B, v
    <3>2. p.status \in S /\ [p EXCEPT !.nonce = v] = [status |-> p.status, nonce |-> v]
      BY <3>1, WithNonce
    <3> QED BY <3>2 DEF p, S, v
  <2>3. DB!PipelineStatus = Store!PipelineStatus
    BY DEF DB!PipelineStatus, Store!PipelineStatus
  <2> QED BY <1>1, <2>2, <2>3
<1>3. Store!SavePipeline(r, [copy[r] EXCEPT !.nonce = TRUE])
  BY SameApiMethods DEF SaveNonce
<1> QED BY <1>1, <1>2, <1>3, SameNames DEF Store!Next

\* Whatever the workers, the API and the clock do is a step of the store, or does
\* not touch it.
LEMMA NextIsStoreStep == WInv /\ [Next]_vars => [Store!Next]_(Store!vars)
<1> SUFFICES ASSUME WInv, [Next]_vars PROVE Store!Next \/ UNCHANGED db
  BY DEF db, Store!vars
<1>1. ASSUME NEW w \in Workers, WorkerStep(w) \/ Heartbeat(w) \/ Crash(w) \/ Start(w)
      PROVE  Store!Next \/ UNCHANGED db
  <2>1. CASE Recover(w) \/ Claim(w)
    BY <2>1, RecoverStep, ClaimStep
  <2>2. CASE GiveBack(w) \/ Prepare(w)
    BY <2>2, GiveBackStep, PrepareStep
  <2>3. CASE Finish(w) \/ Fail(w) \/ Heartbeat(w)
    BY <2>3, FinishIsStep, FailIsStep, HeartbeatIsStep
  <2>4. CASE \/ NothingToClaim(w) \/ Inspect(w) \/ Begin(w) \/ Acquire(w)
             \/ FilterSucceeds(w) \/ FilterFails(w) \/ FinishRaises(w)
             \/ Crash(w) \/ Start(w)
    BY <2>4 DEF NothingToClaim, Inspect, Begin, Acquire, FilterSucceeds, FilterFails,
                FinishRaises, Crash, Start
  <2> QED BY <1>1, <2>1, <2>2, <2>3, <2>4 DEF WorkerStep
<1>2. ASSUME NEW r \in Runs, Create(r) \/ ReadForNonce(r) \/ SaveNonce(r) \/ Retry(r)
      PROVE  Store!Next \/ UNCHANGED db
  <2>1. CASE Create(r) \/ Retry(r)
    BY <2>1, SameApiMethods, SameNames DEF Create, Retry, Store!Next
  <2>2. CASE ReadForNonce(r)
    BY <2>2 DEF ReadForNonce
  <2>3. CASE SaveNonce(r)
    BY <2>3, SaveNonceStep
  <2> QED BY <1>2, <2>1, <2>2, <2>3
<1>3. CASE LoseArtifact
  BY <1>3 DEF LoseArtifact
<1>4. CASE Tick
  BY <1>4, SameApiMethods DEF Tick, Store!Next
<1>5. CASE UNCHANGED vars
  BY <1>5 DEF vars, db
<1> QED BY <1>1, <1>2, <1>3, <1>4, <1>5 DEF Next

-----------------------------------------------------------------------------
(* What is left of the invariant when the rows are known. *)

\* The rows are right after a step that keeps them.
LEMMA RowsKept ==
    ASSUME WInv, DiskGrows, DiskOK', commits' \in Nat,
           \A r \in Runs, i \in Steps : Store!Keeps(steps[r][i], steps'[r][i])
    PROVE  RowsGrow /\ \A r \in Runs, i \in Steps : RowOK(r, i)'
<1>1. RowsGrow
  BY KeepsGrows
<1>2. commits \in Nat
  BY MaxCommitsAssumption DEF WInv, LocalTypeOK
<1> QED BY <1>1, <1>2, RowOKKept DEF WInv

\* So they are when nothing is written.
LEMMA RowsSame ==
    ASSUME WInv, UNCHANGED <<steps, artifacts, commits>>
    PROVE  RowsGrow /\ \A r \in Runs, i \in Steps : RowOK(r, i)'
<1>1. DiskGrows /\ DiskOK' /\ commits' \in Nat
  BY SameDisk, MaxCommitsAssumption DEF WInv, LocalTypeOK
<1>2. \A r \in Runs, i \in Steps : Store!Keeps(steps[r][i], steps'[r][i])
  BY DEF Store!Keeps
<1> QED BY <1>1, <1>2, RowsKept

\* No method but save_pipeline adds a nonce.
NonceKept == \A r \in Runs : pipelines'[r].nonce => pipelines[r].nonce

\* The other methods write a status at most.
LEMMA StatusOnly ==
    ASSUME WInv,
           \/ UNCHANGED pipelines
           \/ \E S, all : pipelines' = DB!Refreshed(S, all)
           \/ \E r \in Runs : \E st : pipelines' = [pipelines EXCEPT ![r].status = st]
    PROVE  NonceKept
<1>1. pipelines \in [Runs -> DB!Pipeline]
  BY SameNames DEF WInv, Store!IInv, Store!TypeOK
<1> QED BY <1>1 DEF NonceKept, DB!Refreshed, DB!Pipeline, DB!Runs, Runs

\* Each worker stays where it is or may rely on what it has now.
LEMMA KeptWInv ==
    ASSUME WInv, [Next]_vars, LocalTypeOK', DiskOK', DiskGrows, RowsGrow,
           \A r \in Runs, i \in Steps : RowOK(r, i)',
           \A v \in Workers : \/ worker'[v] = worker[v]
                              \/ \E me : worker'[v] = me /\ WorkerOK(v, me)',
           LocksOK', NonceOK'
    PROVE  WInv'
<1>1. Store!IInv'
  BY NextIsStoreStep, Store!NextInv, StoreAssumptions DEF WInv
<1>2. ASSUME NEW v \in Workers PROVE WorkerOK(v, worker[v])'
  <2>1. CASE worker'[v] = worker[v]
    <3>1. PICK me : me = worker[v]
      OBVIOUS
    <3>2. WorkerOK(v, me)
      BY <3>1 DEF WInv
    <3>3. CASE me.pc \in Working
      <4>1. me.run \in Runs
        BY <3>2, <3>3 DEF WorkerOK, ClaimOK
      <4>2. WorkerOK(v, me)'
        BY <3>2, <4>1, WorkerOKKept
      <4> QED BY <2>1, <3>1, <4>2 DEF WorkerOK, ClaimOK, VerdictOK, MadeFor, Art!Valid
    <3>4. CASE me.pc \notin Working
      BY <2>1, <3>1, <3>4 DEF WorkerOK
    <3> QED BY <3>3, <3>4
  <2>2. CASE \E me : worker'[v] = me /\ WorkerOK(v, me)'
    BY <2>2 DEF WorkerOK, ClaimOK, VerdictOK, MadeFor, Art!Valid
  <2> QED BY <1>2, <2>1, <2>2
<1> QED BY <1>1, <1>2 DEF WInv

\* A step of worker w that touches no artifact and no copy, and leaves it with the
\* local state me.
LEMMA MoveWInv ==
    ASSUME WInv, [Next]_vars, UNCHANGED <<artifacts, commits, copy>>,
           RowsGrow, \A r \in Runs, i \in Steps : RowOK(r, i)', NonceKept,
           NEW w \in Workers, NEW me \in LocalState,
           worker' = [worker EXCEPT ![w] = me], WorkerOK(w, me)',
           me.pc \in Locking => \/ worker[w].pc \in Locking /\ worker[w].key = me.key
                                \/ LockFree(me.key),
           me.pc = "filtering" => ~Art!Valid(me.key)
    PROVE  WInv'
<1>0. worker \in [Workers -> LocalState]
  BY DEF WInv, LocalTypeOK
<1>1. LocalTypeOK'
  BY DEF WInv, LocalTypeOK
<1>2. DiskOK' /\ DiskGrows
  BY SameDisk DEF WInv
<1>3. \A v \in Workers : worker'[v] = IF v = w THEN me ELSE worker[v]
  BY <1>0
<1>4. ASSUME NEW u \in Workers, NEW v \in Workers, u # v,
             worker'[u].pc \in Locking, worker'[v].pc \in Locking
      PROVE  worker'[u].key # worker'[v].key
  <2>1. ASSUME NEW x \in Workers, x # w, worker[x].pc \in Locking, me.pc \in Locking
        PROVE  worker[x].key # me.key
    BY <2>1 DEF LockFree, HoldsLock, Locking, WInv, LocksOK
  <2>2. CASE u = w
    BY <1>3, <1>4, <2>1, <2>2
  <2>3. CASE v = w
    BY <1>3, <1>4, <2>1, <2>3
  <2>4. CASE u # w /\ v # w
    BY <1>3, <1>4, <2>4 DEF WInv, LocksOK
  <2> QED BY <2>2, <2>3, <2>4
<1>5. ASSUME NEW v \in Workers, worker'[v].pc = "filtering"
      PROVE  ~Art!Valid(worker[v].key)'
  <2>1. PICK k : k = worker'[v].key
    OBVIOUS
  <2>2. ~Art!Valid(k)
    BY <1>3, <1>5, <2>1 DEF WInv, LocksOK, At
  <2> QED BY <2>1, <2>2 DEF Art!Valid
<1>6. LocksOK'
  BY <1>4, <1>5 DEF LocksOK, At
<1>7. NonceOK'
  BY DEF WInv, NonceOK, NonceKept
<1>8. \A v \in Workers : \/ worker'[v] = worker[v]
                         \/ \E mine : worker'[v] = mine /\ WorkerOK(v, mine)'
  BY <1>3
<1> QED BY <1>1, <1>2, <1>6, <1>7, <1>8, KeptWInv

\* A step of the database that no worker notices.
LEMMA StayWInv ==
    ASSUME WInv, [Next]_vars, UNCHANGED <<artifacts, commits, worker>>,
           \A r \in Runs, i \in Steps : Store!Keeps(steps[r][i], steps'[r][i]),
           copy' \in [Runs -> DB!Pipeline \cup {Null}], NonceOK'
    PROVE  WInv'
<1>1. LocalTypeOK'
  BY DEF WInv, LocalTypeOK
<1>2. DiskOK' /\ DiskGrows /\ commits' \in Nat
  BY SameDisk, MaxCommitsAssumption DEF WInv, LocalTypeOK
<1>3. RowsGrow /\ \A r \in Runs, i \in Steps : RowOK(r, i)'
  BY <1>2, RowsKept
<1>4. LocksOK'
  BY DEF WInv, LocksOK, At, Art!Valid
<1> QED BY <1>1, <1>2, <1>3, <1>4, KeptWInv

-----------------------------------------------------------------------------
(* The initial states. *)

\* The tables are empty, and so are the artifacts and the variables.
LEMMA InitWInv == Init => WInv
<1> SUFFICES ASSUME Init PROVE WInv
  OBVIOUS
<1>1. Store!IInv
  BY SameTables, Store!InitInv, StoreAssumptions DEF Init
<1>2. artifacts = {} /\ commits = 0
  BY DEF Init, Art!Init
<1>3. Idle \in LocalState /\ [Idle EXCEPT !.pc = "unborn"] \in LocalState
  BY DEF Idle, LocalState, PC
<1>4. LocalTypeOK
  BY <1>2, <1>3, MaxCommitsAssumption DEF Init, LocalTypeOK
<1>5. DiskOK
  BY <1>2, FS_EmptySet DEF DiskOK
<1>6. ASSUME NEW r \in Runs, NEW i \in Steps PROVE RowOK(r, i)
  <2>1. steps[r][i] = DB!BlankRow("absent")
    BY <1>6 DEF Init, DB!Init, DB!Runs, DB!Steps, Runs, Steps
  <2> QED BY <2>1 DEF RowOK, DB!BlankRow, OK
<1>7. ASSUME NEW w \in Workers PROVE worker[w].pc \in {"idle", "unborn"}
  BY DEF Init, Idle
<1>8. NonceOK
  <2>1. \A r \in Runs : copy[r] = Null /\ ~pipelines[r].nonce
    BY DEF Init, DB!Init, DB!Runs, Runs
  <2> QED BY <2>1 DEF NonceOK
<1>9. (\A w \in Workers : WorkerOK(w, worker[w])) /\ LocksOK
  BY <1>7 DEF WorkerOK, Working, LocksOK, Locking, At
<1> QED BY <1>1, <1>4, <1>5, <1>6, <1>8, <1>9 DEF WInv

-----------------------------------------------------------------------------
(* The steps of a worker. *)

\* A worker that goes back to rest has nothing left to rely on.
LEMMA RestWInv ==
    ASSUME WInv, [Next]_vars, UNCHANGED <<artifacts, commits, copy>>,
           RowsGrow, \A r \in Runs, i \in Steps : RowOK(r, i)', NonceKept,
           NEW w \in Workers, NEW me \in LocalState, me.pc \in {"idle", "polling", "dead"},
           worker' = [worker EXCEPT ![w] = me]
    PROVE  WInv'
<1>1. me.pc \notin Working /\ me.pc \notin Locking /\ me.pc # "filtering"
  BY DEF Working, Locking
<1>2. WorkerOK(w, me)'
  BY <1>1 DEF WorkerOK
<1> QED BY <1>1, <1>2, MoveWInv

\* The local states of a worker at rest.
LEMMA AtRest ==
    /\ Idle \in LocalState /\ Idle.pc = "idle"
    /\ \A pc \in PC : /\ [Idle EXCEPT !.pc = pc] \in LocalState
                      /\ [Idle EXCEPT !.pc = pc].pc = pc
BY DEF Idle, LocalState, PC

\* A recovery takes steps from workers, and leaves what they have found out.
LEMMA RecoverWInv ==
    ASSUME WInv, [Next]_vars, NEW w \in Workers, Recover(w)
    PROVE  WInv'
<1>1. PICK d \in DB!Lags : IF DB!ExpiredRuns(d) = {} THEN UNCHANGED db
                                                     ELSE DB!RecoverExpiredLeases(d)
  BY DEF Recover
<1>2. \A r \in Runs, i \in Steps : Store!Keeps(steps[r][i], steps'[r][i])
  <2>1. CASE UNCHANGED db
    BY <2>1 DEF db, Store!Keeps
  <2>2. CASE DB!RecoverExpiredLeases(d)
    <3>1. Store!RecoverExpiredLeases(d)
      BY <2>2, SameQueueMethods
    <3> QED BY <3>1, Store!RecoverExpiredLeasesKeeps, StoreAssumptions, SameNames DEF WInv
  <2> QED BY <1>1, <2>1, <2>2
<1>3. NonceKept
  BY <1>1, StatusOnly DEF db, DB!RecoverExpiredLeases
<1>4. UNCHANGED <<artifacts, commits, copy>>
  BY DEF Recover
<1>5. RowsGrow /\ \A r \in Runs, i \in Steps : RowOK(r, i)'
  <2>1. DiskGrows /\ DiskOK' /\ commits' \in Nat
    BY <1>4, SameDisk, MaxCommitsAssumption DEF WInv, LocalTypeOK
  <2> QED BY <1>2, <2>1, RowsKept
<1>6. worker' = [worker EXCEPT ![w] = [Idle EXCEPT !.pc = "polling"]]
  BY DEF Recover, Goto
<1>7. [Idle EXCEPT !.pc = "polling"] \in LocalState /\ [Idle EXCEPT !.pc = "polling"].pc = "polling"
  BY AtRest DEF PC
<1> QED BY <1>3, <1>4, <1>5, <1>6, <1>7, RestWInv

\* NothingToClaim, Crash and Start write nothing.
LEMMA RestsWInv ==
    ASSUME WInv, [Next]_vars, NEW w \in Workers, NothingToClaim(w) \/ Crash(w) \/ Start(w)
    PROVE  WInv'
<1>1. UNCHANGED <<db, artifacts, commits, copy>>
  BY DEF NothingToClaim, Crash, Start
<1>2. RowsGrow /\ \A r \in Runs, i \in Steps : RowOK(r, i)'
  BY <1>1, RowsSame DEF db
<1>3. NonceKept
  BY <1>1, StatusOnly DEF db
<1>4. PICK me : /\ me \in {Idle, [Idle EXCEPT !.pc = "dead"]}
                /\ worker' = [worker EXCEPT ![w] = me]
  BY DEF NothingToClaim, Crash, Start, Goto
<1>5. me \in LocalState /\ me.pc \in {"idle", "dead"}
  BY <1>4, AtRest DEF PC
<1> QED BY <1>1, <1>2, <1>3, <1>4, <1>5, RestWInv

\* The worker claims a step that is behind finished steps.
LEMMA ClaimWInv ==
    ASSUME WInv, [Next]_vars, NEW w \in Workers, Claim(w)
    PROVE  WInv'
<1> DEFINE i == StepOf[w]
<1>0. i \in Steps
  BY StepOfAssumption
<1>1. PICK r \in Runs, d \in DB!Lags :
        /\ DB!ClaimReadyStep(r, i, w, d)
        /\ worker' = [worker EXCEPT ![w] = [Idle EXCEPT !.pc = "claimed", !.run = r]]
  BY Zenon DEF Claim, Goto
<1>2. Store!ClaimReadyStep(r, i, w, d)
  BY <1>1, SameQueueMethods
<1>3. \A q \in Runs, j \in Steps : Store!Keeps(steps[q][j], steps'[q][j])
  BY <1>0, <1>2, Store!ClaimReadyStepKeeps, StoreAssumptions, SameNames DEF WInv
<1>4. UNCHANGED <<artifacts, commits, copy>>
  BY DEF Claim
<1>5. RowsGrow /\ \A q \in Runs, j \in Steps : RowOK(q, j)'
  <2>1. DiskGrows /\ DiskOK' /\ commits' \in Nat
    BY <1>4, SameDisk, MaxCommitsAssumption DEF WInv, LocalTypeOK
  <2> QED BY <1>3, <2>1, RowsKept
<1>6. NonceKept
  BY <1>1, StatusOnly DEF DB!ClaimReadyStep
<1>7. PICK me : me = [Idle EXCEPT !.pc = "claimed", !.run = r]
  OBVIOUS
<1>8. me \in LocalState /\ me.pc = "claimed" /\ me.run = r
  BY <1>7 DEF Idle, LocalState, PC
<1>9. WorkerOK(w, me)'
  <2>1. steps[r][i].status \in {"ready", "retrying"} /\ \A j \in DependsOn(i) : steps[r][j].status \in OK
    BY <1>2, SameNames DEF Store!ClaimReadyStep, Store!Claimable, Store!DepsOK
  <2>2. ClaimOK(w, me)'
    BY <1>0, <1>5, <1>8, <2>1 DEF ClaimOK, RowsGrow, DependsOn
  <2> QED BY <1>8, <2>2 DEF WorkerOK, Keyed
<1>10. worker' = [worker EXCEPT ![w] = me]
  BY <1>1, <1>7 DEF Goto
<1> QED BY <1>4, <1>5, <1>6, <1>8, <1>9, <1>10, MoveWInv DEF Locking

\* What a worker at place pc keeps of its variables is of the right kind.
LEMMA OldState ==
    ASSUME WInv, NEW w \in Workers
    PROVE  worker[w] \in LocalState /\ WorkerOK(w, worker[w])
BY DEF WInv, LocalTypeOK

\* The verdict and the key of the worker are right when it has looked.
LEMMA InspectWInv ==
    ASSUME WInv, [Next]_vars, NEW w \in Workers, Inspect(w)
    PROVE  WInv'
<1> DEFINE i == StepOf[w]
<1>0. i \in Steps
  BY StepOfAssumption
<1>1. PICK old \in LocalState : old = worker[w] /\ WorkerOK(w, old)
  BY OldState
<1>2. old.pc = "claimed" /\ old.run \in Runs /\ ClaimOK(w, old)
  BY <1>1 DEF Inspect, At, WorkerOK, Working, ClaimOK
<1>3. PICK r \in Runs : r = old.run
  BY <1>2
<1>4. PICK attempt \in Nat : attempt = steps[r][i].attempt
  BY <1>0, RowTypes
<1>5. PICK verdict, key : /\ verdict = Verdict(r, i)
                          /\ key = IF verdict = "valid" THEN CacheKey(r, i) ELSE Null
  OBVIOUS
<1>6. \/ verdict = "valid" /\ key \in ArtifactKeys /\ MadeFor(r, i, key)
      \/ verdict = "invalid" /\ key = Null /\ Blamed(r, i)
  <2>1. \A j \in DependsOn(i) : steps[r][j].status \in OK
    BY <1>2, <1>3 DEF ClaimOK
  <2> QED BY <1>0, <1>5, <2>1, VerdictCases, CacheKeyMade
<1>7. PICK me : me = [old EXCEPT !.pc = "inspected", !.attempt = attempt,
                                 !.outcome = verdict, !.key = key]
  OBVIOUS
<1>8. /\ me \in LocalState
      /\ me.pc = "inspected" /\ me.run = r /\ me.outcome = verdict /\ me.key = key
  BY <1>3, <1>6, <1>7 DEF LocalState, PC
<1>9. worker' = [worker EXCEPT ![w] = me]
  BY <1>1, <1>3, <1>4, <1>5, <1>7 DEF Inspect, Goto, RowOf
<1>10. UNCHANGED <<db, artifacts, commits, copy>>
  BY DEF Inspect
<1>11. RowsGrow /\ \A q \in Runs, j \in Steps : RowOK(q, j)'
  BY <1>10, RowsSame DEF db
<1>12. WorkerOK(w, me)
  BY <1>2, <1>3, <1>6, <1>8 DEF WorkerOK, ClaimOK, VerdictOK, Keyed
<1>13. WorkerOK(w, me)'
  BY <1>8, <1>10, <1>11, <1>12, WorkerOKKept, SameDisk
<1>14. NonceKept
  BY <1>10, StatusOnly DEF db
<1> QED BY <1>8, <1>9, <1>10, <1>11, <1>13, <1>14, MoveWInv DEF Locking

\* The executor takes over the owner, the attempt and the key of the row.
LEMMA BeginWInv ==
    ASSUME WInv, [Next]_vars, NEW w \in Workers, Begin(w)
    PROVE  WInv'
<1> DEFINE i == StepOf[w]
<1>0. i \in Steps
  BY StepOfAssumption
<1>1. PICK old \in LocalState : old = worker[w] /\ WorkerOK(w, old)
  BY OldState
<1>2. old.pc = "prepared" /\ old.run \in Runs /\ ClaimOK(w, old) /\ steps[old.run][i].key # Null
  BY <1>1 DEF Begin, At, WorkerOK, Working, ClaimOK
<1>3. PICK owner \in Workers \cup {Null}, attempt \in Nat, key \in ArtifactKeys :
        /\ owner = steps[old.run][i].worker /\ attempt = steps[old.run][i].attempt
        /\ key = steps[old.run][i].key
  BY <1>0, <1>2, RowTypes
<1>4. MadeFor(old.run, i, key)
  BY <1>0, <1>2, <1>3 DEF WInv, RowOK
<1>5. PICK me : me = [old EXCEPT !.pc = "waiting", !.owner = owner, !.attempt = attempt,
                                 !.key = key]
  OBVIOUS
<1>6. me \in LocalState /\ me.pc = "waiting" /\ me.run = old.run /\ me.key = key
  <2>1. [old EXCEPT !.pc = "waiting", !.owner = owner] \in LocalState
    BY DEF LocalState, PC
  <2>2. me \in LocalState
    BY <1>5, <2>1 DEF LocalState
  <2>3. me.pc = "waiting" /\ me.run = old.run /\ me.key = key
    BY <1>5 DEF LocalState
  <2> QED BY <2>2, <2>3
<1>7. worker' = [worker EXCEPT ![w] = me]
  BY <1>1, <1>3, <1>5 DEF Begin, Goto, RowOf
<1>8. UNCHANGED <<db, artifacts, commits, copy>>
  BY DEF Begin
<1>9. RowsGrow /\ \A q \in Runs, j \in Steps : RowOK(q, j)'
  BY <1>8, RowsSame DEF db
<1>10. WorkerOK(w, me)
  BY <1>2, <1>3, <1>4, <1>6 DEF WorkerOK, ClaimOK
<1>11. WorkerOK(w, me)'
  BY <1>2, <1>6, <1>8, <1>9, <1>10, WorkerOKKept, SameDisk
<1>12. NonceKept
  BY <1>8, StatusOnly DEF db
<1> QED BY <1>6, <1>7, <1>8, <1>9, <1>11, <1>12, MoveWInv DEF Locking

\* What a worker may rely on does not depend on who is in its directory.
LEMMA SharedFrame ==
    ASSUME NEW v \in Workers, NEW old \in LocalState, WorkerOK(v, old)
    PROVE  /\ [old EXCEPT !.shared = TRUE] \in LocalState
           /\ WorkerOK(v, [old EXCEPT !.shared = TRUE])
<1>1. PICK me : me = [old EXCEPT !.shared = TRUE]
  OBVIOUS
<1>2. /\ me \in LocalState /\ me.pc = old.pc /\ me.run = old.run /\ me.key = old.key
      /\ me.outcome = old.outcome
  BY <1>1 DEF LocalState
<1> QED BY <1>1, <1>2 DEF WorkerOK, ClaimOK, VerdictOK

\* The worker that gets the lock and finds no artifact computes it, and those that
\* are in its temporary directory go on.
LEMMA EmptyTmpWInv ==
    ASSUME WInv, [Next]_vars, NEW w \in Workers, Acquire(w), ~Art!Valid(worker[w].key)
    PROVE  WInv'
<1>1. PICK old \in LocalState : old = worker[w] /\ WorkerOK(w, old)
  BY OldState
<1>2. old.pc = "waiting" /\ LockFree(old.key) /\ ~Art!Valid(old.key)
  BY <1>1 DEF Acquire, At
<1>3. PICK me : me = [old EXCEPT !.pc = "filtering", !.beating = TRUE,
                                 !.shared = InTmpOf(w) # {}]
  OBVIOUS
<1>4. me \in LocalState /\ me.run = old.run /\ me.key = old.key /\ me.pc = "filtering"
  BY <1>3 DEF LocalState, PC
<1>5. /\ worker' \in [Workers -> {worker'[v] : v \in Workers}]
      /\ worker'[w] = me
      /\ \A v \in Workers \ {w} :
            worker'[v] \in {worker[v], [worker[v] EXCEPT !.shared = TRUE]}
  <2>1. worker' = [v \in Workers |->
                     CASE v = w            -> me
                       [] v \in InTmpOf(w) -> [worker[v] EXCEPT !.shared = TRUE]
                       [] OTHER            -> worker[v]]
    BY <1>1, <1>2, <1>3 DEF Acquire, FoundInCache
  <2>2. \A v \in Workers : worker'[v] = CASE v = w            -> me
                                          [] v \in InTmpOf(w) -> [worker[v] EXCEPT !.shared = TRUE]
                                          [] OTHER            -> worker[v]
    BY <2>1
  <2>3. worker'[w] = me
    <3>1. w \notin InTmpOf(w)
      BY DEF InTmpOf
    <3> QED BY <2>2, <3>1
  <2>4. ASSUME NEW v \in Workers \ {w}
        PROVE  worker'[v] \in {worker[v], [worker[v] EXCEPT !.shared = TRUE]}
    BY <2>2
  <2>5. worker' \in [Workers -> {worker'[v] : v \in Workers}]
    BY <2>1
  <2> QED BY <2>3, <2>4, <2>5
<1>6. UNCHANGED <<db, artifacts, commits, copy>>
  BY DEF Acquire
<1>7. RowsGrow /\ \A q \in Runs, j \in Steps : RowOK(q, j)'
  BY <1>6, RowsSame DEF db
<1>8. DiskOK' /\ DiskGrows
  BY <1>6, SameDisk DEF WInv
<1>9. ASSUME NEW v \in Workers, NEW mine, mine = worker'[v]
      PROVE  mine \in LocalState /\ WorkerOK(v, mine) /\ (mine.pc \in Working => mine.run \in Runs)
  <2>1. CASE v = w
    BY <1>1, <1>2, <1>4, <1>5, <1>9, <2>1 DEF WorkerOK, ClaimOK, Working, Keyed
  <2>2. CASE v # w
    <3>1. worker[v] \in LocalState /\ WorkerOK(v, worker[v])
      BY OldState
    <3>2. mine \in LocalState /\ WorkerOK(v, mine)
      BY <1>5, <1>9, <2>2, <3>1, SharedFrame
    <3> QED BY <3>2 DEF WorkerOK, ClaimOK
  <2> QED BY <2>1, <2>2
<1>10. LocalTypeOK'
  <2>1. worker' \in [Workers -> LocalState]
    BY <1>5, <1>9
  <2> QED BY <1>6, <2>1 DEF WInv, LocalTypeOK
<1>11. ASSUME NEW v \in Workers
       PROVE  \E mine : worker'[v] = mine /\ WorkerOK(v, mine)'
  <2>1. PICK mine : mine = worker'[v]
    OBVIOUS
  <2>2. mine \in LocalState /\ WorkerOK(v, mine) /\ (mine.pc \in Working => mine.run \in Runs)
    BY <1>9, <2>1
  <2>3. CASE mine.pc \in Working
    BY <1>7, <1>8, <2>1, <2>2, <2>3, WorkerOKKept
  <2>4. CASE mine.pc \notin Working
    BY <2>1, <2>4 DEF WorkerOK
  <2> QED BY <2>3, <2>4
<1>12. \A v \in Workers \ {w} : /\ worker'[v].pc = worker[v].pc
                               /\ worker'[v].key = worker[v].key
  <2>1. \A v \in Workers : worker[v] \in LocalState
    BY OldState
  <2> QED BY <1>5, <2>1 DEF LocalState
<1>13. \A v \in Workers \ {w} : worker[v].pc \in Locking => worker[v].key # old.key
  BY <1>2 DEF LockFree, HoldsLock, Locking
<1>14. LocksOK'
  <2>1. \A u, v \in Workers : /\ u # v /\ worker'[u].pc \in Locking /\ worker'[v].pc \in Locking
                              => worker'[u].key # worker'[v].key
    BY <1>4, <1>5, <1>12, <1>13 DEF WInv, LocksOK
  <2>2. ASSUME NEW v \in Workers, worker'[v].pc = "filtering"
        PROVE  ~Art!Valid(worker[v].key)'
    <3>1. PICK k : k = worker'[v].key
      OBVIOUS
    <3>2. ~Art!Valid(k)
      BY <1>2, <1>4, <1>5, <1>12, <2>2, <3>1 DEF WInv, LocksOK, At
    <3> QED BY <1>6, <3>1, <3>2 DEF Art!Valid
  <2> QED BY <2>1, <2>2 DEF LocksOK, At
<1>15. NonceOK'
  BY <1>6 DEF WInv, NonceOK, db
<1> QED BY <1>7, <1>8, <1>10, <1>11, <1>14, <1>15, KeptWInv

\* The worker that gets the lock finds the artifact, or computes it.
LEMMA AcquireWInv ==
    ASSUME WInv, [Next]_vars, NEW w \in Workers, Acquire(w)
    PROVE  WInv'
<1>1. PICK old \in LocalState : old = worker[w] /\ WorkerOK(w, old)
  BY OldState
<1>2. old.pc = "waiting" /\ LockFree(old.key)
  BY <1>1 DEF Acquire, At
<1>3. CASE ~Art!Valid(old.key)
  BY <1>1, <1>3, EmptyTmpWInv
<1>4. CASE Art!Valid(old.key)
  <2>1. PICK me : me = [old EXCEPT !.pc = "finishing", !.outcome = "succeeded_cached"]
    OBVIOUS
  <2>2. /\ me \in LocalState /\ me.run = old.run /\ me.key = old.key
        /\ me.pc = "finishing" /\ me.outcome = "succeeded_cached"
    BY <2>1 DEF LocalState, PC, OK
  <2>3. worker' = [worker EXCEPT ![w] = me]
    BY <1>1, <1>4, <2>1 DEF Acquire, Goto, FoundInCache
  <2>4. UNCHANGED <<db, artifacts, commits, copy>>
    BY DEF Acquire
  <2>5. RowsGrow /\ \A q \in Runs, j \in Steps : RowOK(q, j)'
    BY <2>4, RowsSame DEF db
  <2>6. WorkerOK(w, me) /\ me.run \in Runs
    BY <1>1, <1>2, <1>4, <2>2 DEF WorkerOK, ClaimOK, Working, Keyed, OK
  <2>7. WorkerOK(w, me)'
    BY <2>4, <2>5, <2>6, WorkerOKKept, SameDisk
  <2>8. NonceKept
    BY <2>4, StatusOnly DEF db
  <2> QED BY <1>2, <2>2, <2>3, <2>4, <2>5, <2>7, <2>8, MoveWInv
<1> QED BY <1>3, <1>4

\* FilterFails and FinishRaises: the worker lets go of its lock.
LEMMA RaisesWInv ==
    ASSUME WInv, [Next]_vars, NEW w \in Workers, FilterFails(w) \/ FinishRaises(w)
    PROVE  WInv'
<1>1. PICK old \in LocalState : old = worker[w] /\ WorkerOK(w, old)
  BY OldState
<1>2. old.pc \in {"filtering", "finishing"}
  BY <1>1 DEF FilterFails, FinishRaises, At
<1>3. PICK me \in {[old EXCEPT !.pc = "failing", !.beating = FALSE, !.shared = FALSE],
                   [old EXCEPT !.pc = "failing", !.outcome = Null]} :
        worker' = [worker EXCEPT ![w] = me]
  BY <1>1 DEF FilterFails, FinishRaises, Goto
<1>4. me \in LocalState /\ me.pc = "failing" /\ me.run = old.run
  BY <1>3 DEF LocalState, PC
<1>5. UNCHANGED <<db, artifacts, commits, copy>>
  BY DEF FilterFails, FinishRaises
<1>6. RowsGrow /\ \A q \in Runs, j \in Steps : RowOK(q, j)'
  BY <1>5, RowsSame DEF db
<1>7. WorkerOK(w, me) /\ me.run \in Runs
  BY <1>1, <1>2, <1>4 DEF WorkerOK, ClaimOK, Working, Keyed
<1>8. WorkerOK(w, me)'
  BY <1>5, <1>6, <1>7, WorkerOKKept, SameDisk
<1>9. NonceKept
  BY <1>5, StatusOnly DEF db
<1> QED BY <1>3, <1>4, <1>5, <1>6, <1>8, <1>9, MoveWInv DEF Locking

\* One row is written by its owner: it may get a key, a status, an output.
LEMMA RowWritten ==
    ASSUME WInv, UNCHANGED <<artifacts, commits>>, NEW r \in Runs, NEW i \in Steps,
           \A q \in Runs, j \in Steps : <<q, j>> # <<r, i>> => Store!Keeps(steps[q][j], steps'[q][j]),
           steps[r][i].status \notin OK, steps'[r][i].status # "absent",
           steps[r][i].key # Null => steps'[r][i].key # Null,
           RowsGrow => RowOK(r, i)'
    PROVE  RowsGrow /\ \A q \in Runs, j \in Steps : RowOK(q, j)'
<1>1. RowsGrow
  BY KeepsGrows
<1>2. DiskGrows /\ DiskOK' /\ DiskOK /\ commits \in Nat /\ commits' \in Nat
  BY SameDisk, MaxCommitsAssumption DEF WInv, LocalTypeOK
<1>3. ASSUME NEW q \in Runs, NEW j \in Steps, <<q, j>> # <<r, i>> PROVE RowOK(q, j)'
  BY <1>1, <1>2, <1>3, RowOKKept DEF WInv
<1> QED BY <1>1, <1>3

\* A key that was made for a step that keeps its dependencies.
LEMMA KeyKept ==
    ASSUME UNCHANGED <<artifacts, commits>>, RowsGrow,
           NEW r \in Runs, NEW i \in Steps, NEW k, MadeFor(r, i, k)
    PROVE  MadeFor(r, i, k)'
BY MadeForKept, SameDisk

\* A refused step is blocked for a cause.
LEMMA GiveBackWInv ==
    ASSUME WInv, [Next]_vars, NEW w \in Workers, GiveBack(w)
    PROVE  WInv'
<1> DEFINE i == StepOf[w]
<1>0. i \in Steps
  BY StepOfAssumption
<1>1. PICK me \in LocalState : me = worker[w] /\ WorkerOK(w, me)
  BY OldState
<1>2. me.pc = "inspected" /\ me.outcome = "invalid" /\ me.run \in Runs /\ Blamed(me.run, i)
  BY <1>1 DEF GiveBack, At, WorkerOK, Working, ClaimOK, VerdictOK
<1>3. PICK d \in DB!Lags :
        IF DB!OwnedRunning(RowOf(w), w, me.attempt, d)
        THEN DB!RefuseClaimedStep(me.run, i, w, me.attempt, "blocked", d)
        ELSE UNCHANGED db
  BY <1>1, <1>2 DEF GiveBack
<1>4. UNCHANGED <<artifacts, commits, copy>> /\ worker' = [worker EXCEPT ![w] = Idle]
  BY DEF GiveBack, Goto
<1>5. RowsGrow /\ \A q \in Runs, j \in Steps : RowOK(q, j)'
  <2>1. CASE UNCHANGED db
    BY <1>4, <2>1, RowsSame DEF db
  <2>2. CASE DB!RefuseClaimedStep(me.run, i, w, me.attempt, "blocked", d)
    <3>1. Store!RefuseClaimedStep(me.run, i, w, me.attempt, "blocked", d)
      BY <2>2, SameStepMethods
    <3>2. /\ steps'[me.run][i].status = "blocked"
          /\ steps'[me.run][i].key = steps[me.run][i].key
          /\ steps[me.run][i].status = "running"
          /\ \A q \in Runs, j \in Steps : <<q, j>> # <<me.run, i>> => steps'[q][j] = steps[q][j]
      BY <1>0, <1>2, <3>1, Store!RefuseClaimedStepRows, StoreAssumptions, SameNames DEF WInv
    <3>3. \A q \in Runs, j \in Steps : <<q, j>> # <<me.run, i>>
                                           => Store!Keeps(steps[q][j], steps'[q][j])
      BY <3>2 DEF Store!Keeps
    <3>4. ASSUME RowsGrow PROVE RowOK(me.run, i)'
      <4>1. PICK k : k = steps[me.run][i].key
        OBVIOUS
      <4>2. k # Null => MadeFor(me.run, i, k)'
        BY <1>0, <1>2, <1>4, <3>4, <4>1, KeyKept DEF WInv, RowOK
      <4>3. Blamed(me.run, i)'
        BY <1>0, <1>2, <1>4, <3>4, SameDisk, BlamedKept
      <4> QED BY <3>2, <4>1, <4>2, <4>3 DEF RowOK, OK, MadeFor, Blamed
    <3> QED BY <1>0, <1>2, <1>4, <3>2, <3>3, <3>4, RowWritten DEF OK
  <2> QED BY <1>3, <2>1, <2>2
<1>6. NonceKept
  BY <1>3, StatusOnly DEF db, DB!RefuseClaimedStep
<1>7. Idle \in LocalState /\ Idle.pc = "idle"
  BY AtRest
<1> QED BY <1>4, <1>5, <1>6, <1>7, RestWInv

\* The key that is written was made for the step.
LEMMA PrepareWInv ==
    ASSUME WInv, [Next]_vars, NEW w \in Workers, Prepare(w)
    PROVE  WInv'
<1> DEFINE i == StepOf[w]
<1>0. i \in Steps
  BY StepOfAssumption
<1>1. PICK old \in LocalState : old = worker[w] /\ WorkerOK(w, old)
  BY OldState
<1>2. /\ old.pc = "inspected" /\ old.run \in Runs /\ ClaimOK(w, old)
      /\ old.key \in ArtifactKeys /\ MadeFor(old.run, i, old.key)
  BY <1>1 DEF Prepare, At, WorkerOK, Working, ClaimOK, VerdictOK
<1>3. PICK d \in DB!Lags :
        \/ /\ DB!PrepareClaimedStep(old.run, i, w, old.attempt, old.key, d)
           /\ worker' = [worker EXCEPT ![w] = [Idle EXCEPT !.pc = "prepared", !.run = old.run]]
        \/ UNCHANGED db /\ worker' = [worker EXCEPT ![w] = Idle]
  BY <1>1 DEF Prepare, Goto
<1>4. UNCHANGED <<artifacts, commits, copy>>
  BY DEF Prepare
<1>5. NonceKept
  BY <1>3, StatusOnly DEF db, DB!PrepareClaimedStep
<1>6. CASE UNCHANGED db /\ worker' = [worker EXCEPT ![w] = Idle]
  <2>1. RowsGrow /\ \A q \in Runs, j \in Steps : RowOK(q, j)'
    BY <1>4, <1>6, RowsSame DEF db
  <2> QED BY <1>4, <1>5, <1>6, <2>1, AtRest, RestWInv
<1>7. CASE /\ DB!PrepareClaimedStep(old.run, i, w, old.attempt, old.key, d)
           /\ worker' = [worker EXCEPT ![w] = [Idle EXCEPT !.pc = "prepared", !.run = old.run]]
  <2>1. Store!PrepareClaimedStep(old.run, i, w, old.attempt, old.key, d)
    BY <1>7, SameStepMethods
  <2>2. /\ steps'[old.run][i].status = "running" /\ steps'[old.run][i].key = old.key
        /\ steps[old.run][i].status = "running"
        /\ \A q \in Runs, j \in Steps : <<q, j>> # <<old.run, i>> => steps'[q][j] = steps[q][j]
    BY <1>0, <1>2, <2>1, Store!PrepareClaimedStepRows, StoreAssumptions, SameNames DEF WInv
  <2>3. \A q \in Runs, j \in Steps : <<q, j>> # <<old.run, i>>
                                         => Store!Keeps(steps[q][j], steps'[q][j])
    BY <2>2 DEF Store!Keeps
  <2>4. old.key # Null
    BY <1>2, NullAssumption
  <2>5. ASSUME RowsGrow PROVE RowOK(old.run, i)'
    <3>1. MadeFor(old.run, i, old.key)'
      BY <1>0, <1>2, <1>4, <2>5, KeyKept
    <3> QED BY <2>2, <3>1 DEF RowOK, OK, MadeFor
  <2>6. RowsGrow /\ \A q \in Runs, j \in Steps : RowOK(q, j)'
    BY <1>0, <1>2, <1>4, <2>2, <2>3, <2>4, <2>5, RowWritten DEF OK
  <2>7. PICK me : me = [Idle EXCEPT !.pc = "prepared", !.run = old.run]
    OBVIOUS
  <2>8. me \in LocalState /\ me.pc = "prepared" /\ me.run = old.run
    BY <1>2, <2>7 DEF Idle, LocalState, PC
  <2>9. ClaimOK(w, me)'
    BY <1>0, <1>2, <2>6, <2>8 DEF ClaimOK, RowsGrow, DependsOn
  <2>10. WorkerOK(w, me)'
    BY <2>2, <2>4, <2>8, <2>9 DEF WorkerOK, Keyed
  <2>11. worker' = [worker EXCEPT ![w] = me]
    BY <1>7, <2>7
  <2> QED BY <1>4, <1>5, <2>6, <2>8, <2>10, <2>11, MoveWInv DEF Locking
<1> QED BY <1>3, <1>6, <1>7

\* What a finished step gets as its output was made for it, and is there.
LEMMA FinishWInv ==
    ASSUME WInv, [Next]_vars, NEW w \in Workers, Finish(w)
    PROVE  WInv'
<1> DEFINE i == StepOf[w]
<1>0. i \in Steps
  BY StepOfAssumption
<1>1. PICK me \in LocalState : me = worker[w] /\ WorkerOK(w, me)
  BY OldState
<1>2. /\ me.run \in Runs /\ me.key \in ArtifactKeys /\ MadeFor(me.run, i, me.key)
      /\ me.outcome \in OK /\ (Lost = 0 => Art!Valid(me.key))
      /\ steps[me.run][i].key # Null
  BY <1>1 DEF Finish, At, WorkerOK, Working, Keyed, ClaimOK
<1>3. PICK d \in DB!Lags :
        IF DB!OwnedRunning(RowOf(w), me.owner, me.attempt, d)
        THEN DB!FinishStep(me.run, i, me.owner, me.attempt, me.outcome, me.key, d)
        ELSE UNCHANGED db
  BY <1>1 DEF Finish
<1>4. UNCHANGED <<artifacts, commits, copy>> /\ worker' = [worker EXCEPT ![w] = Idle]
  BY DEF Finish, Goto
<1>5. RowsGrow /\ \A q \in Runs, j \in Steps : RowOK(q, j)'
  <2>1. CASE UNCHANGED db
    BY <1>4, <2>1, RowsSame DEF db
  <2>2. CASE DB!FinishStep(me.run, i, me.owner, me.attempt, me.outcome, me.key, d)
    <3>1. Store!FinishStep(me.run, i, me.owner, me.attempt, me.outcome, me.key, d)
      BY <2>2, SameStepMethods
    <3>2. steps[me.run][i].status = "running"
      BY <3>1 DEF Store!FinishStep, Store!OwnedRunning
    <3>3. /\ steps'[me.run][i].status = me.outcome /\ steps'[me.run][i].out = me.key
          /\ steps'[me.run][i].error = Null
          /\ steps'[me.run][i].key = steps[me.run][i].key
          /\ \A q \in Runs, j \in Steps : <<q, j>> # <<me.run, i>>
                                             => Store!Keeps(steps[q][j], steps'[q][j])
      <4>1. /\ Store!IInv /\ me.run \in Store!Runs /\ i \in Store!Steps
            /\ me.outcome \in Store!OK /\ d \in Store!Lags
        BY <1>0, <1>2, SameNames DEF WInv
      <4>2. /\ Store!Finishes(steps[me.run][i], steps'[me.run][i], me.outcome, me.key)
            /\ \A q \in Store!Runs, j \in Store!Steps :
                  <<q, j>> # <<me.run, i>> => Store!Keeps(steps[q][j], steps'[q][j])
        BY <1>2, <3>1, <4>1, Store!FinishStepRows, StoreAssumptions
      <4> QED BY <4>2, SameNames DEF Store!Finishes
    <3>4. me.key # Null
      BY <1>2, NullAssumption
    <3>5. ASSUME RowsGrow PROVE RowOK(me.run, i)'
      <4>1. PICK k : k = steps[me.run][i].key
        OBVIOUS
      <4>2. k # Null => MadeFor(me.run, i, k)'
        BY <1>0, <1>2, <1>4, <3>5, <4>1, KeyKept DEF WInv, RowOK
      <4>3. MadeFor(me.run, i, me.key)'
        BY <1>0, <1>2, <1>4, <3>5, KeyKept
      <4>4. Lost' = 0 => Art!Valid(me.key)'
        BY <1>2, <1>4, SameDisk DEF DiskGrows
      <4>5. steps'[me.run][i].key # Null => MadeFor(me.run, i, steps[me.run][i].key)'
        BY <3>3, <4>1, <4>2 DEF MadeFor
      <4>6. /\ MadeFor(me.run, i, steps[me.run][i].out)'
            /\ Lost' = 0 => Art!Valid(steps[me.run][i].out)'
        BY <3>3, <4>3, <4>4 DEF MadeFor, Art!Valid
      <4>7. steps'[me.run][i].key # Null
        BY <1>2, <3>3
      <4> QED BY <1>2, <3>3, <3>4, <4>5, <4>6, <4>7 DEF RowOK, OK
    <3> QED BY <1>0, <1>2, <1>4, <3>2, <3>3, <3>5, RowWritten DEF OK
  <2> QED BY <1>3, <2>1, <2>2
<1>6. NonceKept
  BY <1>3, StatusOnly DEF db, DB!FinishStep
<1> QED BY <1>4, <1>5, <1>6, AtRest, RestWInv

\* A failed attempt leaves its key, and no promise about an output.
LEMMA FailWInv ==
    ASSUME WInv, [Next]_vars, NEW w \in Workers, Fail(w)
    PROVE  WInv'
<1> DEFINE i == StepOf[w]
<1>0. i \in Steps
  BY StepOfAssumption
<1>1. PICK me \in LocalState : me = worker[w] /\ WorkerOK(w, me)
  BY OldState
<1>2. me.run \in Runs
  BY <1>1 DEF Fail, At, WorkerOK, Working, ClaimOK
<1>3. PICK d \in DB!Lags :
        IF DB!OwnedRunning(RowOf(w), me.owner, me.attempt, d)
        THEN DB!FailOrRetryStep(me.run, i, me.owner, me.attempt, WillRetry(w), d)
        ELSE UNCHANGED db
  BY <1>1 DEF Fail
<1>4. UNCHANGED <<artifacts, commits, copy>> /\ worker' = [worker EXCEPT ![w] = Idle]
  BY DEF Fail, Goto
<1>5. \A q \in Runs, j \in Steps : Store!Keeps(steps[q][j], steps'[q][j])
  <2>1. CASE UNCHANGED db
    BY <2>1 DEF db, Store!Keeps
  <2>2. CASE DB!FailOrRetryStep(me.run, i, me.owner, me.attempt, WillRetry(w), d)
    <3>1. DB!FailOrRetryStep(me.run, i, me.owner, me.attempt, me.attempt < MaxAttempts[i], d)
      BY <1>1, <2>2 DEF WillRetry
    <3>2. Store!FailOrRetryStep(me.run, i, me.owner, me.attempt, me.attempt < MaxAttempts[i], d)
      BY <3>1, SameStepMethods
    <3>3. Store!IInv /\ me.run \in Store!Runs /\ i \in Store!Steps
      BY <1>0, <1>2, SameNames DEF WInv
    <3>4. \A q \in Store!Runs, j \in Store!Steps : Store!Keeps(steps[q][j], steps'[q][j])
      BY <3>2, <3>3, Store!FailOrRetryStepKeeps, StoreAssumptions
    <3> QED BY <3>4, SameNames
  <2> QED BY <1>3, <2>1, <2>2
<1>6. RowsGrow /\ \A q \in Runs, j \in Steps : RowOK(q, j)'
  <2>1. DiskGrows /\ DiskOK' /\ commits' \in Nat
    BY <1>4, SameDisk, MaxCommitsAssumption DEF WInv, LocalTypeOK
  <2> QED BY <1>5, <2>1, RowsKept
<1>7. NonceKept
  BY <1>3, StatusOnly DEF db, DB!FailOrRetryStep
<1> QED BY <1>4, <1>6, <1>7, AtRest, RestWInv

\* A heartbeat that is accepted moves a lease; one that is refused was the last.
LEMMA HeartbeatWInv ==
    ASSUME WInv, [Next]_vars, NEW w \in Workers, Heartbeat(w)
    PROVE  WInv'
<1> DEFINE i == StepOf[w]
<1>0. i \in Steps
  BY StepOfAssumption
<1>1. PICK old \in LocalState : old = worker[w] /\ WorkerOK(w, old)
  BY OldState
<1>2. old.pc = "filtering" /\ old.run \in Runs /\ ~Art!Valid(old.key)
  BY <1>1 DEF Heartbeat, At, WorkerOK, Working, ClaimOK, WInv, LocksOK
<1> DEFINE a == RowOf(w).attempt
<1>3. PICK d \in DB!Lags :
        \/ DB!HeartbeatStep(old.run, i, old.owner, a, d) /\ UNCHANGED worker
        \/ UNCHANGED db /\ worker' = [worker EXCEPT ![w] = [old EXCEPT !.beating = FALSE]]
  BY <1>1 DEF Heartbeat, Goto
<1> HIDE DEF a
<1>4. UNCHANGED <<artifacts, commits, copy>>
  BY DEF Heartbeat
<1>5. CASE DB!HeartbeatStep(old.run, i, old.owner, a, d) /\ UNCHANGED worker
  <2>1. Store!HeartbeatStep(old.run, i, old.owner, a, d)
    BY <1>5, SameStepMethods
  <2>2. \A q \in Runs, j \in Steps : Store!Keeps(steps[q][j], steps'[q][j])
    BY <1>0, <1>2, <2>1, Store!HeartbeatStepKeeps, StoreAssumptions, SameNames DEF WInv
  <2>3. UNCHANGED pipelines
    BY <1>5 DEF DB!HeartbeatStep
  <2>4. copy' \in [Runs -> DB!Pipeline \cup {Null}] /\ NonceOK'
    BY <1>4, <2>3 DEF WInv, LocalTypeOK, NonceOK
  <2> QED BY <1>4, <1>5, <2>2, <2>4, StayWInv
<1>6. CASE UNCHANGED db /\ worker' = [worker EXCEPT ![w] = [old EXCEPT !.beating = FALSE]]
  <2>1. PICK me : me = [old EXCEPT !.beating = FALSE]
    OBVIOUS
  <2>2. me \in LocalState /\ me.pc = "filtering" /\ me.run = old.run /\ me.key = old.key
    BY <1>2, <2>1 DEF LocalState
  <2>3. RowsGrow /\ \A q \in Runs, j \in Steps : RowOK(q, j)'
    BY <1>4, <1>6, RowsSame DEF db
  <2>4. WorkerOK(w, me)
    BY <1>1, <1>2, <2>2 DEF WorkerOK, ClaimOK, Keyed, Working
  <2>5. WorkerOK(w, me)'
    BY <1>2, <1>4, <2>2, <2>3, <2>4, WorkerOKKept, SameDisk
  <2>6. NonceKept
    BY <1>6, StatusOnly DEF db
  <2> QED BY <1>1, <1>2, <1>4, <1>6, <2>1, <2>2, <2>3, <2>5, <2>6, MoveWInv DEF Locking
<1> QED BY <1>3, <1>5, <1>6

\* The artifact that comes is the one the worker has the lock of: no other worker
\* computes it, and no other key gets a new artifact.
LEMMA FilterSucceedsWInv ==
    ASSUME WInv, [Next]_vars, NEW w \in Workers, FilterSucceeds(w)
    PROVE  WInv'
<1>1. PICK old \in LocalState : old = worker[w] /\ WorkerOK(w, old)
  BY OldState
<1>2. /\ old.pc = "filtering" /\ old.run \in Runs /\ old.key \in ArtifactKeys
      /\ ~Art!Valid(old.key)
  BY <1>1 DEF FilterSucceeds, At, WorkerOK, Working, Keyed, ClaimOK, WInv, LocksOK
<1>3. PICK me : me = [old EXCEPT !.pc = "finishing", !.outcome = "succeeded",
                                 !.beating = FALSE, !.shared = FALSE]
  OBVIOUS
<1>4. /\ me \in LocalState /\ me.pc = "finishing" /\ me.outcome = "succeeded"
      /\ me.run = old.run /\ me.key = old.key
  BY <1>3 DEF LocalState, PC, OK
<1>5. UNCHANGED <<db, copy>> /\ worker' = [worker EXCEPT ![w] = me]
  BY <1>1, <1>3 DEF FilterSucceeds, Goto
<1>6. commits \in Nat /\ commits + 1 \in 0..MaxCommits /\ DiskOK
  BY MaxCommitsAssumption DEF FilterSucceeds, WInv, LocalTypeOK
<1>7. /\ DiskOK' /\ DiskGrows /\ (Lost' = 0 => Art!Valid(old.key)')
      /\ \A k : k # old.key => (Art!Valid(k)' <=> Art!Valid(k))
      /\ artifacts' \subseteq artifacts \cup {[key |-> old.key, gen |-> commits + 1]}
      /\ commits' = commits + 1
  <2>1. CASE Art!Commit(old.key)
    BY <1>2, <1>6, <2>1, CommitGrows
  <2>2. CASE Art!Spoil
    BY <1>6, <2>2, SpoilGrows
  <2> QED BY <1>1, <2>1, <2>2 DEF FilterSucceeds
<1>8. LocalTypeOK'
  <2>1. artifacts' \subseteq [key : ArtifactKeys, gen : 1..commits']
    BY <1>2, <1>6, <1>7 DEF WInv, LocalTypeOK
  <2>2. worker' \in [Workers -> LocalState] /\ copy' \in [Runs -> DB!Pipeline \cup {Null}]
    BY <1>4, <1>5 DEF WInv, LocalTypeOK
  <2> QED BY <1>6, <1>7, <2>1, <2>2 DEF LocalTypeOK
<1>9. RowsGrow /\ \A r \in Runs, i \in Steps : RowOK(r, i)'
  <2>1. \A r \in Runs, i \in Steps : Store!Keeps(steps[r][i], steps'[r][i])
    BY <1>5 DEF db, Store!Keeps
  <2> QED BY <1>6, <1>7, <2>1, RowsKept
<1>10. WorkerOK(w, me)'
  <2>1. PICK mine : mine = old
    OBVIOUS
  <2>2. WorkerOK(w, old)'
    BY <1>1, <1>2, <1>7, <1>9, WorkerOKKept
  <2> QED BY <1>2, <1>4, <1>7, <2>2 DEF WorkerOK, ClaimOK, Working, Keyed, OK
<1>11. \A v \in Workers : worker'[v] = IF v = w THEN me ELSE worker[v]
  BY <1>5 DEF WInv, LocalTypeOK
<1>12. LocksOK'
  <2>1. \A u, v \in Workers : /\ u # v /\ worker'[u].pc \in Locking /\ worker'[v].pc \in Locking
                              => worker'[u].key # worker'[v].key
    BY <1>1, <1>2, <1>4, <1>11 DEF WInv, LocksOK, Locking
  <2>2. ASSUME NEW v \in Workers, worker'[v].pc = "filtering"
        PROVE  ~Art!Valid(worker[v].key)'
    <3>1. PICK k : k = worker'[v].key
      OBVIOUS
    <3>2. v # w /\ k = worker[v].key /\ worker[v].pc = "filtering"
      BY <1>4, <1>11, <2>2, <3>1
    <3>3. k # old.key /\ ~Art!Valid(k)
      BY <1>1, <1>2, <3>2 DEF WInv, LocksOK, Locking, At
    <3>4. ~Art!Valid(k)'
      BY <1>7, <3>3
    <3> QED BY <3>1, <3>4 DEF Art!Valid
  <2> QED BY <2>1, <2>2 DEF LocksOK, At
<1>13. NonceOK'
  BY <1>5 DEF WInv, NonceOK, db
<1>14. \A v \in Workers : \/ worker'[v] = worker[v]
                          \/ \E mine : worker'[v] = mine /\ WorkerOK(v, mine)'
  BY <1>10, <1>11
<1> QED BY <1>7, <1>8, <1>9, <1>12, <1>13, <1>14, KeptWInv

-----------------------------------------------------------------------------
(* The API, the disk and the clock. *)

\* A loss makes nothing valid, so no lock and no promise about a loss is touched.
LEMMA LoseArtifactWInv ==
    ASSUME WInv, [Next]_vars, LoseArtifact
    PROVE  WInv'
<1>1. UNCHANGED <<db, worker, copy>> /\ Art!Lose
  BY DEF LoseArtifact
<1>2. commits \in Nat /\ DiskOK
  BY MaxCommitsAssumption DEF WInv, LocalTypeOK
<1>3. /\ DiskOK' /\ DiskGrows
      /\ \A k : Art!Valid(k)' => Art!Valid(k)
      /\ artifacts' \subseteq artifacts /\ commits' = commits
  BY <1>1, <1>2, LoseGrows
<1>4. LocalTypeOK'
  BY <1>1, <1>3 DEF WInv, LocalTypeOK
<1>5. RowsGrow /\ \A r \in Runs, i \in Steps : RowOK(r, i)'
  <2>1. \A r \in Runs, i \in Steps : Store!Keeps(steps[r][i], steps'[r][i])
    BY <1>1 DEF db, Store!Keeps
  <2> QED BY <1>2, <1>3, <2>1, RowsKept
<1>6. LocksOK'
  <2>1. ASSUME NEW v \in Workers, worker'[v].pc = "filtering"
        PROVE  ~Art!Valid(worker[v].key)'
    <3>1. PICK k : k = worker'[v].key
      OBVIOUS
    <3>2. ~Art!Valid(k)
      BY <1>1, <2>1, <3>1 DEF WInv, LocksOK, At
    <3>3. ~Art!Valid(k)'
      BY <1>3, <3>2
    <3> QED BY <3>1, <3>3 DEF Art!Valid
  <2> QED BY <1>1, <2>1 DEF WInv, LocksOK, At
<1>7. NonceOK'
  BY <1>1 DEF WInv, NonceOK, db
<1> QED BY <1>1, <1>3, <1>4, <1>5, <1>6, <1>7, KeptWInv

\* The two halves of a create with force_refresh, the other requests, and the clock.
LEMMA ApiWInv ==
    ASSUME WInv, [Next]_vars, NEW r \in Runs,
           Create(r) \/ ReadForNonce(r) \/ SaveNonce(r) \/ Retry(r) \/ Tick
    PROVE  WInv'
<1>0. /\ pipelines \in [Runs -> DB!Pipeline] /\ copy \in [Runs -> DB!Pipeline \cup {Null}]
      /\ UNCHANGED <<artifacts, commits, worker>>
  BY SameNames DEF WInv, LocalTypeOK, Store!IInv, Store!TypeOK, Create, ReadForNonce,
                   SaveNonce, Retry, Tick
<1>1. CASE Create(r)
  <2>1. Store!Create(r)
    BY <1>1, SameApiMethods DEF Create
  <2>2. \A q \in Runs, j \in Steps : Store!Keeps(steps[q][j], steps'[q][j])
    BY <2>1, Store!CreateKeeps, StoreAssumptions, SameNames DEF WInv
  <2>3. NonceOK' /\ copy' = copy
    BY <1>0, <1>1 DEF WInv, NonceOK, Create, DB!Create
  <2> QED BY <1>0, <2>2, <2>3, StayWInv
<1>2. CASE Retry(r)
  <2>1. Store!RetryPipeline(r)
    BY <1>2, SameApiMethods DEF Retry
  <2>2. \A q \in Runs, j \in Steps : Store!Keeps(steps[q][j], steps'[q][j])
    BY <2>1, Store!RetryPipelineKeeps, StoreAssumptions, SameNames DEF WInv
  <2>3. NonceKept /\ copy' = copy
    BY <1>2, StatusOnly DEF Retry, DB!RetryPipeline
  <2>4. NonceOK'
    BY <2>3 DEF WInv, NonceOK, NonceKept
  <2> QED BY <1>0, <2>2, <2>3, <2>4, StayWInv
<1>3. CASE Tick
  <2>1. Store!Tick
    BY <1>3, SameApiMethods DEF Tick
  <2>2. \A q \in Runs, j \in Steps : Store!Keeps(steps[q][j], steps'[q][j])
    BY <2>1, Store!TickKeeps, StoreAssumptions, SameNames DEF WInv
  <2>3. NonceOK' /\ copy' = copy
    BY <1>3 DEF WInv, NonceOK, Tick, DB!Tick
  <2> QED BY <1>0, <2>2, <2>3, StayWInv
<1>4. CASE ReadForNonce(r)
  <2>1. UNCHANGED db /\ copy' = [copy EXCEPT ![r] = pipelines[r]]
        /\ r \in ForceRefresh /\ pipelines[r].status # "absent"
    BY <1>4 DEF ReadForNonce, DB!Created
  <2>2. \A q \in Runs, j \in Steps : Store!Keeps(steps[q][j], steps'[q][j])
    BY <2>1 DEF db, Store!Keeps
  <2>3. copy' \in [Runs -> DB!Pipeline \cup {Null}] /\ NonceOK'
    BY <1>0, <2>1 DEF WInv, NonceOK, db
  <2> QED BY <1>0, <2>2, <2>3, StayWInv
<1>5. CASE SaveNonce(r)
  <2>1. PICK p : pipelines' = [pipelines EXCEPT ![r] = p]
    BY <1>5 DEF SaveNonce, DB!SavePipeline
  <2>2. UNCHANGED steps /\ copy' = [copy EXCEPT ![r] = Null] /\ copy[r] # Null
    BY <1>5 DEF SaveNonce, DB!SavePipeline
  <2>3. \A q \in Runs, j \in Steps : Store!Keeps(steps[q][j], steps'[q][j])
    BY <2>2 DEF Store!Keeps
  <2>4. copy' \in [Runs -> DB!Pipeline \cup {Null}] /\ NonceOK'
    BY <1>0, <2>1, <2>2 DEF WInv, NonceOK
  <2> QED BY <1>0, <2>3, <2>4, StayWInv
<1> QED BY <1>1, <1>2, <1>3, <1>4, <1>5

-----------------------------------------------------------------------------
(* The theorems. *)

\* Every step keeps the invariant.
LEMMA NextWInv == WInv /\ [Next]_vars => WInv'
<1> SUFFICES ASSUME WInv, [Next]_vars PROVE WInv'
  OBVIOUS
<1>1. ASSUME NEW w \in Workers, WorkerStep(w) \/ Heartbeat(w) \/ Crash(w) \/ Start(w)
      PROVE  WInv'
  BY <1>1, RecoverWInv, RestsWInv, ClaimWInv, InspectWInv, GiveBackWInv, PrepareWInv,
     BeginWInv, AcquireWInv, HeartbeatWInv, FilterSucceedsWInv, RaisesWInv, FinishWInv,
     FailWInv DEF WorkerStep
<1>2. ASSUME NEW r \in Runs, Create(r) \/ ReadForNonce(r) \/ SaveNonce(r) \/ Retry(r)
      PROVE  WInv'
  BY <1>2, ApiWInv
<1>3. CASE LoseArtifact
  BY <1>3, LoseArtifactWInv
<1>4. CASE Tick
  <2>1. 1 \in Runs
    BY RunsAssumption DEF Runs
  <2> QED BY <1>4, <2>1, ApiWInv
<1>5. CASE UNCHANGED vars
  <2>1. UNCHANGED <<artifacts, commits, worker>> /\ copy' = copy /\ UNCHANGED db
    BY <1>5 DEF vars, db
  <2>2. \A q \in Runs, j \in Steps : Store!Keeps(steps[q][j], steps'[q][j])
    BY <2>1 DEF db, Store!Keeps
  <2>3. copy' \in [Runs -> DB!Pipeline \cup {Null}] /\ NonceOK'
    BY <2>1 DEF WInv, LocalTypeOK, NonceOK, db
  <2> QED BY <2>1, <2>2, <2>3, StayWInv
<1> QED BY <1>1, <1>2, <1>3, <1>4, <1>5 DEF Next

\* The invariant of the workers: what a worker has read, and may have lost since, is
\* still good enough for what it does with it.
THEOREM Invariance == Spec => []WInv
<1>1. Init => WInv
  BY InitWInv
<1>2. WInv /\ [Next]_vars => WInv'
  BY NextWInv
<1> QED BY <1>1, <1>2, PTL DEF Spec

\* The tables, the artifacts and the variables of the workers hold what the schema
\* and the code allow.
THEOREM TypeCorrect == Spec => []TypeOK
<1>1. WInv => TypeOK
  BY SameTables DEF WInv, Store!IInv, LocalTypeOK, LocalState, TypeOK
<1> QED BY <1>1, Invariance, PTL

\* No worker computes an artifact that is there (the check under the file lock).
THEOREM ComputedOnceCorrect == Spec => []ComputedOnce
<1>1. WInv => ComputedOnce
  BY DEF WInv, LocksOK, ComputedOnce
<1> QED BY <1>1, Invariance, PTL

\* A step is blocked only because an artifact was lost, or in a forced run whose
\* preceding step was finished with one key and prepared with another.
THEOREM BlockedForCauseCorrect == Spec => []BlockedForCause
<1>1. ASSUME WInv, NEW r \in Runs, NEW i \in Steps, steps[r][i].status = "blocked"
      PROVE  Art!Lost > 0 \/ (r \in ForceRefresh /\ Mismatched(r, i))
  BY <1>1 DEF WInv, RowOK, Blamed, Mismatched, Lost
<1>2. WInv => BlockedForCause
  BY <1>1 DEF BlockedForCause
<1> QED BY <1>2, Invariance, PTL

\* The output of a finished step was made from this run's params and from the output
\* of the step before it, although workers lose their steps to one another, crash
\* and retry between reading the request and writing the result.
THEOREM ResultTraceableCorrect == Spec => []ResultTraceable
<1>1. ASSUME WInv PROVE ResultTraceable
  BY <1>1 DEF WInv, RowOK, MadeFor, ResultTraceable, Lost
<1> QED BY <1>1, Invariance, PTL

\* Whatever the workers have kept in their variables, all they do to the database is
\* what the queue allows: the system implements SqliteStore.
THEOREM ImplementsStoreCorrect == Spec => ImplementsStore
<1>1. Init => DB!Init
  BY DEF Init
<1>2. WInv /\ [Next]_vars => [DB!Next]_(DB!vars)
  BY NextIsStoreStep, SameNext DEF Store!vars, DB!vars
<1> QED BY <1>1, <1>2, Invariance, PTL DEF Spec, ImplementsStore, DB!Spec

\* So what is proved about the queue holds of the workers' database.
LEMMA StoreSpec == Spec => Store!Spec
<1>1. Init => Store!Init
  BY SameTables DEF Init
<1>2. WInv /\ [Next]_vars => [Store!Next]_(Store!vars)
  BY NextIsStoreStep
<1> QED BY <1>1, <1>2, Invariance, PTL DEF Spec, Store!Spec

\* The runs that the workers serve make the progress that RunProgress promises: step
\* by step in order, one owner at a time, a bounded number of tries for each step.
THEOREM WorkersMakeProgress == Spec => ImplementsProgress
<1>1. Store!Spec => Store!ImplementsProgress
  BY Store!ProgressCorrect, StoreAssumptions
<1>2. Store!ImplementsProgress => DB!ImplementsProgress
  BY SameProgress, PTL
  DEF Store!ImplementsProgress, DB!ImplementsProgress, Store!Progress!Spec, DB!Progress!Spec
<1> QED BY <1>1, <1>2, StoreSpec, PTL DEF ImplementsProgress
=============================================================================
