----------------------- MODULE SqliteRefinement_proofs -----------------------
(***************************************************************************)
(* The queue implements RunProgress: for any number of steps, runs,        *)
(* workers, keys and attempts and any times, what the methods of           *)
(* SqliteStore do to a run is one step of its progress, or none.           *)
(***************************************************************************)
EXTENDS SqliteStore_proofs, FiniteSetTheorems

-----------------------------------------------------------------------------
(* What the mapping makes of the rows of a run. *)

\* A run whose step h is at hand has finished the steps before it.
LEMMA HandView ==
    ASSUME NEW rows, Shape(rows), NEW h \in Steps, rows[h].status \in AtHand
    PROVE  /\ Stage(rows) = h - 1
           /\ Mode(rows) = ModeOf(rows[h].status)
           /\ Owner(rows) = rows[h].worker
           /\ Tries(rows) = rows[h].attempt
<1> USE NStepsAssumption DEF Steps
<1>1. ASSUME NEW j \in Steps PROVE rows[j].status \in OK <=> j < h
  <2>1. j < h => rows[j].status \in OK
    BY StatusClasses DEF Shape
  <2>2. h < j => rows[j].status = "pending"
    BY StatusClasses DEF Shape
  <2> QED BY <2>1, <2>2, StatusClasses
<1>2. {j \in Steps : rows[j].status \in OK} = 1..(h - 1)
  BY <1>1
<1>3. Cardinality(1..(h - 1)) = h - 1
  BY FS_Interval
<1>4. Stage(rows) = h - 1
  BY <1>2, <1>3, Zenon DEF Stage
<1>5. Stage(rows) # NSteps /\ Stage(rows) + 1 = h
  BY <1>4
<1> QED BY <1>4, <1>5 DEF Mode, Owner, Tries, Current

\* A run whose last step has succeeded is done, whatever its other rows hold.
LEMMA DoneView ==
    ASSUME NEW rows, Shape(rows), rows[NSteps].status \in OK
    PROVE  Mode(rows) = "done" /\ Stage(rows) = NSteps /\ Owner(rows) = Null /\ Tries(rows) = 0
<1> USE NStepsAssumption DEF Steps
<1>1. \A j \in Steps : rows[j].status \in OK
  BY StatusClasses DEF Shape
<1>2. {j \in Steps : rows[j].status \in OK} = 1..NSteps
  BY <1>1
<1>3. Cardinality(1..NSteps) = NSteps
  BY FS_Interval
<1>4. Stage(rows) = NSteps
  BY <1>2, <1>3, Zenon DEF Stage
<1> QED BY <1>4 DEF Mode, Owner, Tries

\* A run without rows is absent.
LEMMA AbsentView ==
    ASSUME NEW rows, \A i \in Steps : rows[i].status = "absent"
    PROVE  /\ Mode(rows) = "absent" /\ Stage(rows) = 0
           /\ Owner(rows) = rows[1].worker /\ Tries(rows) = rows[1].attempt
<1>1. {j \in Steps : rows[j].status \in OK} = {}
  BY DEF OK
<1>2. Stage(rows) = 0
  BY <1>1, FS_EmptySet, Zenon DEF Stage
<1>3. 1 \in Steps /\ NSteps # 0
  BY NStepsAssumption DEF Steps
<1> QED BY <1>2, <1>3 DEF Mode, Owner, Tries, Current, ModeOf

\* A run that exists has a step at hand or is done.
LEMMA HandOrDone ==
    ASSUME NEW rows, Shape(rows)
    PROVE  \/ rows[NSteps].status \in OK
           \/ \E h \in Steps : rows[h].status \in AtHand
  BY DEF Shape

-----------------------------------------------------------------------------
(* The actions of RunProgress, run by run. *)

SameView(q) == /\ Mode(steps'[q]) = Mode(steps[q])
               /\ Stage(steps'[q]) = Stage(steps[q])
               /\ Owner(steps'[q]) = Owner(steps[q])
               /\ Tries(steps'[q]) = Tries(steps[q])

\* If no run looks different, the abstract state stays.
LEMMA Stutters ==
    ASSUME \A q \in Runs : SameView(q)
    PROVE  UNCHANGED Progress!vars
  BY DEF SameView, Progress!vars, Runs

\* Rows that appear are a creation.
LEMMA MapsToCreate ==
    ASSUME NEW r \in Runs, \A q \in Runs \ {r} : SameView(q),
           Mode(steps[r]) = "absent", Mode(steps'[r]) = "waiting",
           Stage(steps'[r]) = Stage(steps[r]), Owner(steps'[r]) = Owner(steps[r]),
           Tries(steps'[r]) = Tries(steps[r])
    PROVE  Progress!Create(r)
  BY DEF SameView, Progress!Create, Runs

\* A row that gets an owner is a claim.
LEMMA MapsToClaim ==
    ASSUME NEW r \in Runs, NEW w, \A q \in Runs \ {r} : SameView(q),
           Mode(steps[r]) = "waiting", Mode(steps'[r]) = "owned",
           Stage(steps'[r]) = Stage(steps[r]), Owner(steps'[r]) = w,
           Tries(steps[r]) < MaxAttempts[Stage(steps[r]) + 1],
           Tries(steps'[r]) = Tries(steps[r]) + 1
    PROVE  Progress!Claim(r, w)
  BY DEF SameView, Progress!Claim, Progress!Allowed, Runs

\* A row that succeeds moves its run on by a stage.
LEMMA MapsToComplete ==
    ASSUME NEW r \in Runs, \A q \in Runs \ {r} : SameView(q),
           Mode(steps[r]) = "owned", Stage(steps'[r]) = Stage(steps[r]) + 1,
           Mode(steps'[r]) = IF Stage(steps'[r]) = NSteps THEN "done" ELSE "waiting",
           Owner(steps'[r]) = Null, Tries(steps'[r]) = 0
    PROVE  Progress!Complete(r)
  BY DEF SameView, Progress!Complete, Runs

\* The runs S lose the owners of their steps.
LEMMA MapsToLose ==
    ASSUME NEW S \in SUBSET Runs, S # {}, \A q \in Runs \ S : SameView(q),
           \A r \in S : /\ Mode(steps[r]) = "owned"
                        /\ \/ Mode(steps'[r]) = "stopped"
                           \/ /\ Mode(steps'[r]) = "waiting"
                              /\ Tries(steps[r]) < MaxAttempts[Stage(steps[r]) + 1]
                        /\ Stage(steps'[r]) = Stage(steps[r])
                        /\ Owner(steps'[r]) = Null
                        /\ Tries(steps'[r]) = Tries(steps[r])
    PROVE  Progress!Lose(S)
<1> DEFINE stopped == {r \in S : Mode(steps'[r]) = "stopped"}
<1>1. stopped \in SUBSET S
  OBVIOUS
<1>2. \A r \in S \ stopped : Tries(steps[r]) < MaxAttempts[Stage(steps[r]) + 1]
  OBVIOUS
<1>3. \A r \in Runs : Mode(steps'[r]) = IF r \in stopped THEN "stopped"
                                        ELSE IF r \in S THEN "waiting" ELSE Mode(steps[r])
  BY DEF SameView
<1>4. \A r \in Runs : /\ Owner(steps'[r]) = IF r \in S THEN Null ELSE Owner(steps[r])
                      /\ Stage(steps'[r]) = Stage(steps[r])
                      /\ Tries(steps'[r]) = Tries(steps[r])
  BY DEF SameView
<1> HIDE DEF stopped
<1> QED BY <1>1, <1>2, <1>3, <1>4 DEF Progress!Lose, Progress!Allowed, Progress!Runs, Runs

\* A stopped row that waits again is a retry.
LEMMA MapsToRetry ==
    ASSUME NEW r \in Runs, \A q \in Runs \ {r} : SameView(q),
           Mode(steps[r]) = "stopped" \/ (r \in ForceRefresh /\ Mode(steps[r]) = "waiting"),
           Mode(steps'[r]) = "waiting", Tries(steps'[r]) = 0,
           Stage(steps'[r]) = Stage(steps[r]), Owner(steps'[r]) = Owner(steps[r])
    PROVE  Progress!Retry(r)
  BY DEF SameView, Progress!Retry, Runs

-----------------------------------------------------------------------------
(* What the methods do to the rows of one run. *)

\* A run before and after a step: typed rows, and the shape as soon as there
\* is a row.
LEMMA RunFacts ==
    ASSUME IInv, NEW r \in Runs
    PROVE  /\ steps[r] \in [Steps -> Row]
           /\ \A i \in Steps : RowInv(steps[r][i], i)
           /\ \/ Shape(steps[r])
              \/ ~Created(r) /\ \A i \in Steps : steps[r][i].status = "absent"
           /\ \A i \in Steps : steps[r][i].status # "absent" => Shape(steps[r])
  BY DEF IInv, TypeOK, RunInv

\* What the invariant says of the rows of a run after the step.
LEMMA RunFactsNext ==
    ASSUME IInv', NEW r \in Runs
    PROVE  /\ steps'[r] \in [Steps -> Row]
           /\ \A i \in Steps : RowInv(steps'[r][i], i)
           /\ \A i \in Steps : steps'[r][i].status # "absent" => Shape(steps'[r])
  BY DEF IInv, TypeOK, RunInv, Created

\* A transaction that writes the rows of one run.
LEMMA OtherRuns ==
    ASSUME IInv, NEW r \in Runs, NEW rows, steps' = [steps EXCEPT ![r] = rows]
    PROVE  steps'[r] = rows /\ \A q \in Runs \ {r} : SameView(q)
  BY DEF IInv, TypeOK, SameView

\* A transaction that writes the row at hand and leaves it at hand.
LEMMA HandRow ==
    ASSUME IInv, IInv', NEW r \in Runs, NEW i \in Steps, NEW x,
           steps' = [steps EXCEPT ![r][i] = x],
           steps[r][i].status \in AtHand, x.status \in AtHand
    PROVE  /\ \A q \in Runs \ {r} : SameView(q)
           /\ Stage(steps[r]) = i - 1 /\ Stage(steps'[r]) = i - 1
           /\ Mode(steps[r]) = ModeOf(steps[r][i].status) /\ Mode(steps'[r]) = ModeOf(x.status)
           /\ Owner(steps[r]) = steps[r][i].worker /\ Owner(steps'[r]) = x.worker
           /\ Tries(steps[r]) = steps[r][i].attempt /\ Tries(steps'[r]) = x.attempt
<1> DEFINE new == steps'[r]
<1>1. new[i] = x /\ \A q \in Runs \ {r} : steps'[q] = steps[q]
  BY DEF IInv, TypeOK
<1>2. Shape(steps[r]) /\ Shape(new)
  BY <1>1, RunFacts, RunFactsNext, StatusClasses
<1>3. /\ Stage(steps[r]) = i - 1 /\ Mode(steps[r]) = ModeOf(steps[r][i].status)
      /\ Owner(steps[r]) = steps[r][i].worker /\ Tries(steps[r]) = steps[r][i].attempt
  BY <1>2, HandView
<1>4. /\ Stage(new) = i - 1 /\ Mode(new) = ModeOf(x.status)
      /\ Owner(new) = x.worker /\ Tries(new) = x.attempt
  <2> HIDE DEF new
  <2>1. new[i].status \in AtHand
    BY <1>1
  <2>2. /\ Stage(new) = i - 1 /\ Mode(new) = ModeOf(new[i].status)
        /\ Owner(new) = new[i].worker /\ Tries(new) = new[i].attempt
    BY <1>2, <2>1, HandView
  <2> QED BY <1>1, <2>2
<1>5. \A q \in Runs \ {r} : SameView(q)
  BY <1>1 DEF SameView
<1> QED BY <1>3, <1>4, <1>5

\* save_pipeline creates the run.
LEMMA CreateView ==
    ASSUME IInv, NEW r \in Runs, Create(r)
    PROVE  Progress!Create(r)
<1> DEFINE rows == [i \in Steps |-> BlankRow(FirstStatus(i))]
<1>1. steps'[r] = rows /\ \A q \in Runs \ {r} : SameView(q)
  BY OtherRuns DEF Create
<1>2. 1 \in Steps
  BY NStepsAssumption DEF Steps
<1>3. /\ Mode(steps[r]) = "absent" /\ Stage(steps[r]) = 0
      /\ Owner(steps[r]) = Null /\ Tries(steps[r]) = 0
  <2>1. \A i \in Steps : steps[r][i].status = "absent"
    BY DEF Create, IInv, RunInv
  <2>2. steps[r][1].worker = Null /\ steps[r][1].attempt = 0
    BY <1>2, <2>1, RunFacts DEF RowInv
  <2> QED BY <2>1, <2>2, AbsentView
<1>4. rows[1].status = "ready" /\ rows[1].worker = Null /\ rows[1].attempt = 0
  BY <1>2, FirstStatusChain DEF BlankRow
<1>5. /\ Mode(rows) = "waiting" /\ Stage(rows) = 0
      /\ Owner(rows) = Null /\ Tries(rows) = 0
  <2>1. Shape(rows) /\ rows[1].status \in AtHand
    BY <1>4, CreateShape DEF AtHand
  <2> HIDE DEF rows
  <2>2. ModeOf("ready") = "waiting"
    BY DEF ModeOf
  <2> QED BY <1>2, <1>4, <2>1, <2>2, HandView
<1> HIDE DEF rows
<1> QED BY <1>1, <1>3, <1>5, MapsToCreate

\* claim_ready_step claims the run.
LEMMA ClaimView ==
    ASSUME IInv, IInv', NEW r \in Runs, NEW i \in Steps, NEW w \in Workers, NEW d \in Lags,
           ClaimReadyStep(r, i, w, d)
    PROVE  Progress!Claim(r, w)
<1> DEFINE x == ClaimedRow(steps[r][i], w, d)
<1>1. /\ steps' = [steps EXCEPT ![r][i] = x]
      /\ steps[r][i] \in Row /\ RowInv(steps[r][i], i)
      /\ steps[r][i].status \in {"ready", "retrying"}
  BY RunFacts DEF ClaimReadyStep, Claimable
<1>2. x.status = "running" /\ x.worker = w /\ x.attempt = steps[r][i].attempt + 1
  BY <1>1 DEF ClaimedRow, Row
<1>3. steps[r][i].attempt < MaxAttempts[i] /\ (i - 1) + 1 = i
  BY <1>1, MaxAttemptsAssumption, NStepsAssumption DEF RowInv, Steps
<1>4. ModeOf("ready") = "waiting" /\ ModeOf("retrying") = "waiting" /\ ModeOf("running") = "owned"
  BY DEF ModeOf
<1> HIDE DEF x
<1>5. steps[r][i].status \in AtHand /\ x.status \in AtHand
  BY <1>1, <1>2 DEF AtHand
<1>6. /\ \A q \in Runs \ {r} : SameView(q)
      /\ Stage(steps[r]) = i - 1 /\ Stage(steps'[r]) = i - 1
      /\ Mode(steps[r]) = ModeOf(steps[r][i].status) /\ Mode(steps'[r]) = ModeOf(x.status)
      /\ Owner(steps[r]) = steps[r][i].worker /\ Owner(steps'[r]) = x.worker
      /\ Tries(steps[r]) = steps[r][i].attempt /\ Tries(steps'[r]) = x.attempt
  BY <1>1, <1>5, HandRow
<1>7. /\ Mode(steps[r]) = "waiting" /\ Mode(steps'[r]) = "owned" /\ Owner(steps'[r]) = w
      /\ Tries(steps'[r]) = Tries(steps[r]) + 1
      /\ Tries(steps[r]) < MaxAttempts[Stage(steps[r]) + 1]
  BY <1>1, <1>2, <1>3, <1>4, <1>6
<1> QED BY <1>6, <1>7, MapsToClaim

\* heartbeat_step and a plain prepare: the step stays with its owner.
LEMMA QuietView ==
    ASSUME IInv, IInv', NEW r \in Runs, NEW i \in Steps, NEW x,
           steps[r][i].status = "running", steps' = [steps EXCEPT ![r][i] = x],
           x.status = "running", x.worker = steps[r][i].worker, x.attempt = steps[r][i].attempt
    PROVE  UNCHANGED Progress!vars
<1>1. steps[r][i].status \in AtHand /\ x.status \in AtHand
  BY DEF AtHand
<1>2. /\ \A q \in Runs \ {r} : SameView(q)
      /\ Stage(steps[r]) = i - 1 /\ Stage(steps'[r]) = i - 1
      /\ Mode(steps[r]) = ModeOf(steps[r][i].status) /\ Mode(steps'[r]) = ModeOf(x.status)
      /\ Owner(steps[r]) = steps[r][i].worker /\ Owner(steps'[r]) = x.worker
      /\ Tries(steps[r]) = steps[r][i].attempt /\ Tries(steps'[r]) = x.attempt
  BY <1>1, HandRow
<1>3. SameView(r)
  BY <1>2 DEF SameView
<1> QED BY <1>2, <1>3, Stutters

\* Refusing and failing: the owner loses the step.
LEMMA EndedView ==
    ASSUME IInv, IInv', NEW r \in Runs, NEW i \in Steps, NEW x,
           steps[r][i].status = "running", steps' = [steps EXCEPT ![r][i] = x],
           x.status \in {"retrying", "failed", "blocked"},
           x.attempt = steps[r][i].attempt
    PROVE  Progress!Lose({r})
<1>1. steps[r][i].status \in AtHand /\ x.status \in AtHand
  BY DEF AtHand
<1>2. steps'[r][i] = x
  BY RunFacts DEF IInv, TypeOK
<1>3. x.worker = Null /\ (x.status = "retrying" => x.attempt < MaxAttempts[i]) /\ (i - 1) + 1 = i
  BY <1>2, RunFactsNext, NStepsAssumption DEF RowInv, Steps
<1>4. ModeOf("running") = "owned" /\ ModeOf("retrying") = "waiting"
      /\ ModeOf("failed") = "stopped" /\ ModeOf("blocked") = "stopped"
  BY DEF ModeOf
<1>5. /\ \A q \in Runs \ {r} : SameView(q)
      /\ Stage(steps[r]) = i - 1 /\ Stage(steps'[r]) = i - 1
      /\ Mode(steps[r]) = "owned" /\ Mode(steps'[r]) = ModeOf(x.status)
      /\ Owner(steps'[r]) = Null
      /\ Tries(steps[r]) = x.attempt /\ Tries(steps'[r]) = x.attempt
  BY <1>1, <1>3, <1>4, HandRow
<1>6. {r} \in SUBSET Runs /\ {r} # {}
  OBVIOUS
<1>7. \/ Mode(steps'[r]) = "stopped"
      \/ Mode(steps'[r]) = "waiting" /\ Tries(steps[r]) < MaxAttempts[Stage(steps[r]) + 1]
  BY <1>3, <1>4, <1>5
<1> QED BY <1>5, <1>6, <1>7, MapsToLose

\* finish_step completes the stage, together with the sync that readies the next.
LEMMA FinishView ==
    ASSUME IInv, IInv', NEW r \in Runs, NEW i \in Steps, NEW w \in Workers, NEW a, NEW d \in Lags,
           NEW k \in Keys, NEW st \in OK, FinishStep(r, i, w, a, st, k, d)
    PROVE  Progress!Complete(r)
<1> DEFINE x == FinishedRow(steps[r][i], st, k)
           mid == [steps[r] EXCEPT ![i] = x]
           new == steps'[r]
<1> USE NStepsAssumption DEF Steps
<1>1. /\ steps[r] \in [Steps -> Row] /\ steps[r][i] \in Row
      /\ steps[r][i].status = "running" /\ steps[r][i].status \in AtHand /\ Shape(steps[r])
  BY OwnedFacts DEF FinishStep
<1>2. x \in Row /\ x.status \in OK
  <2>1. x.status = st
    BY <1>1 DEF FinishedRow, Row
  <2> QED BY <1>1, <2>1, RowTypes, TimeAssumption DEF Lags
<1>3. new = Promoted(mid) /\ \A q \in Runs \ {r} : SameView(q)
  BY <1>1, OtherRuns DEF FinishStep
<1> HIDE DEF x
<1>4. mid \in [Steps -> Row] /\ \A j \in Steps : mid[j] = IF j = i THEN x ELSE steps[r][j]
  BY <1>1, <1>2
<1>5. \A j \in Steps : i < j => mid[j].status = "pending"
  BY <1>1, <1>4, StatusClasses DEF Shape
<1>6. \A j \in Steps : /\ new[j].status \in OK <=> mid[j].status \in OK
                       /\ \/ new[j].status = mid[j].status
                          \/ new[j].status = "ready"
  BY <1>3, <1>4, PromotedStatus
<1> HIDE DEF mid
<1>7. Mode(steps[r]) = "owned" /\ Stage(steps[r]) = i - 1
  BY <1>1, HandView DEF ModeOf
<1>8. new[i].status \in OK
  BY <1>2, <1>4, <1>6
<1>9. Shape(new)
  BY <1>8, RunFactsNext DEF OK
<1> HIDE DEF new
<1>10. CASE new[NSteps].status \in OK
  <2>1. i = NSteps
    BY <1>5, <1>6, <1>10, StatusClasses
  <2>2. Mode(new) = "done" /\ Stage(new) = NSteps /\ Owner(new) = Null /\ Tries(new) = 0
    BY <1>9, <1>10, DoneView
  <2> QED BY <1>3, <1>7, <2>1, <2>2, MapsToComplete DEF new
<1>11. CASE new[NSteps].status \notin OK
  <2>1. PICK h \in Steps : new[h].status \in AtHand
    BY <1>9, <1>11 DEF Shape
  <2>2. i < h
    <3>1. h # i
      BY <1>8, <2>1, StatusClasses
    <3>2. ~(h < i)
      BY <1>8, <1>9, <2>1, StatusClasses DEF Shape
    <3> QED BY <3>1, <3>2
  <2>3. h = i + 1
    <3>1. ~(i + 1 < h)
      BY <1>5, <1>6, <1>9, <2>1, <2>2, StatusClasses DEF Shape
    <3> QED BY <2>2, <3>1
  <2>4. new[h].status = "ready"
    BY <1>5, <1>6, <2>1, <2>2, StatusClasses
  <2>5. new[h].worker = Null /\ new[h].attempt = 0
    BY <2>4, RunFactsNext DEF RowInv, new
  <2>6. ModeOf("ready") = "waiting"
    BY DEF ModeOf
  <2>7. /\ Mode(new) = "waiting" /\ Stage(new) = i /\ i # NSteps
        /\ Owner(new) = Null /\ Tries(new) = 0
    BY <1>9, <2>1, <2>3, <2>4, <2>5, <2>6, HandView
  <2> QED BY <1>3, <1>7, <2>7, MapsToComplete DEF new
<1> QED BY <1>10, <1>11

\* A call of the worker is a step of its run, or changes nothing that is seen.
LEMMA WorkerCallView ==
    ASSUME IInv, IInv', NEW r \in Runs, NEW i \in Steps, NEW w \in Workers, NEW a, NEW d \in Lags,
           WorkerCall(r, i, w, a, d)
    PROVE  [Progress!Next]_Progress!vars
<1>0. /\ steps[r] \in [Steps -> Row] /\ steps[r][i] \in Row
      /\ steps[r][i].status = "running" /\ steps[r][i].attempt = a /\ DepsOK(steps[r], i)
  BY OwnedFacts DEF WorkerCall, OwnedRunning
<1>1. CASE HeartbeatStep(r, i, w, a, d)
  <2> DEFINE x == [steps[r][i] EXCEPT !.lease = Lease - d]
  <2>1. x.status = "running" /\ x.worker = steps[r][i].worker /\ x.attempt = steps[r][i].attempt
    BY <1>0 DEF Row
  <2>2. steps' = [steps EXCEPT ![r][i] = x]
    BY <1>1 DEF HeartbeatStep
  <2> HIDE DEF x
  <2> QED BY <1>0, <2>1, <2>2, QuietView
<1>2. CASE \E k \in Keys : PrepareClaimedStep(r, i, w, a, k, d)
  <2>1. PICK k \in Keys : PrepareClaimedStep(r, i, w, a, k, d)
    BY <1>2
  <2> DEFINE x == [steps[r][i] EXCEPT !.key = k, !.error = Null]
  <2>2. x.status = "running" /\ x.worker = steps[r][i].worker /\ x.attempt = steps[r][i].attempt
    BY <1>0 DEF Row
  <2>3. steps' = [steps EXCEPT ![r][i] = x]
    BY <2>1 DEF PrepareClaimedStep, IInv, TypeOK
  <2> HIDE DEF x
  <2> QED BY <1>0, <2>2, <2>3, QuietView
<1>3. CASE \E st \in {"blocked", "pending"} :
              /\ st = "pending" => ~DepsOK(steps[r], i)
              /\ RefuseClaimedStep(r, i, w, a, st, d)
  <2>1. RefuseClaimedStep(r, i, w, a, "blocked", d)
    BY <1>0, <1>3
  <2> DEFINE x == GivenBack(steps[r][i], "blocked")
  <2>2. x.status = "blocked" /\ x.attempt = steps[r][i].attempt
    BY <1>0 DEF GivenBack, Row
  <2>3. steps' = [steps EXCEPT ![r][i] = x]
    BY <2>1 DEF RefuseClaimedStep
  <2> HIDE DEF x
  <2>4. Progress!Lose({r})
    BY <1>0, <2>2, <2>3, EndedView
  <2> QED BY <2>4 DEF Progress!Next, Progress!Runs, Runs
<1>4. CASE \E st \in OK, k \in Keys : FinishStep(r, i, w, a, st, k, d)
  <2>1. Progress!Complete(r)
    BY <1>4, FinishView
  <2> QED BY <2>1 DEF Progress!Next, Progress!Runs, Runs
<1>5. CASE FailOrRetryStep(r, i, w, a, a < MaxAttempts[i], d)
  <2> DEFINE x == FailedRow(steps[r][i], a < MaxAttempts[i], d)
  <2>1. x.status \in {"retrying", "failed"} /\ x.attempt = steps[r][i].attempt
    BY <1>0 DEF FailedRow, Row
  <2>2. steps' = [steps EXCEPT ![r][i] = x]
    BY <1>5 DEF FailOrRetryStep
  <2> HIDE DEF x
  <2>3. Progress!Lose({r})
    BY <1>0, <2>1, <2>2, EndedView
  <2> QED BY <2>3 DEF Progress!Next, Progress!Runs, Runs
<1> QED BY <1>1, <1>2, <1>3, <1>4, <1>5 DEF WorkerCall

\* retry_pipeline: a run that has stopped waits again, at the same step; a run
\* that is done stays done, whatever its document said.
LEMMA RetryView ==
    ASSUME IInv, IInv', NeverStuck, NEW r \in Runs, RetryPipeline(r)
    PROVE  Progress!Retry(r) \/ UNCHANGED Progress!vars
<1> DEFINE old == steps[r]
           mid == [i \in Steps |-> Restarted(old[i], i)]
           new == steps'[r]
<1> USE NStepsAssumption DEF Steps
<1>1. /\ old \in [Steps -> Row] /\ Created(r) /\ Shape(old)
      /\ \A i \in Steps : old[i].status # "running" /\ old[i].status # "absent"
      /\ \A i \in Steps : RowInv(old[i], i)
  BY DEF IInv, TypeOK, RunInv, RetryPipeline, CanRetry, Created
<1>2. new = Promoted(mid) /\ \A q \in Runs \ {r} : SameView(q)
  BY OtherRuns DEF RetryPipeline, IInv, TypeOK
<1>3. \A i \in Steps : /\ mid[i].status \in OK <=> old[i].status \in OK
                       /\ mid[i].status \in OK \cup {"ready", "pending"}
  <2> SUFFICES ASSUME NEW i \in Steps
               PROVE  LET x == Restarted(old[i], i)
                      IN  (x.status \in OK <=> old[i].status \in OK)
                          /\ x.status \in OK \cup {"ready", "pending"}
    OBVIOUS
  <2>1. CASE old[i].status \in OK
    BY <2>1 DEF Restarted
  <2>2. CASE old[i].status \notin OK
    <3>1. Restarted(old[i], i).status = FirstStatus(i)
      BY <1>1, <2>2 DEF Restarted, Row
    <3>2. FirstStatus(i) \in {"ready", "pending"}
      BY DEF FirstStatus
    <3> QED BY <2>2, <3>1, <3>2 DEF OK
  <2> QED BY <2>1, <2>2
<1>4. mid \in [Steps -> Row]
  BY <1>1, RestartedType
<1> HIDE DEF mid
<1>5. \A i \in Steps : /\ new[i].status \in OK <=> old[i].status \in OK
                       /\ new[i].status \in OK \cup {"ready", "pending"}
  BY <1>2, <1>3, <1>4, PromotedStatus
<1>6. Shape(new)
  <2>1. 1 \in Steps /\ new[1].status # "absent"
    BY <1>5 DEF OK
  <2> QED BY <2>1, RunFactsNext
<1>7. \A h \in Steps : new[h].status = "ready" => new[h].worker = Null /\ new[h].attempt = 0
  BY RunFactsNext DEF RowInv
<1>8. (r \notin ForceRefresh /\ old[NSteps].status \notin OK) =>
         \A i \in Steps : DepsOK(old, i) => old[i].status \notin {"ready", "retrying", "running"}
  <2>1. pipelines[r].status # "succeeded" /\ CanRetry(r)
    BY DEF RetryPipeline, CanRetry
  <2> QED BY <1>1, <2>1 DEF NeverStuck
<1> HIDE DEF new, old
<1>9. CASE old[NSteps].status \in OK
  <2>1. new[NSteps].status \in OK
    BY <1>5, <1>9
  <2>2. SameView(r)
    BY <1>1, <1>6, <1>9, <2>1, DoneView DEF SameView, old, new
  <2> QED BY <1>2, <2>2, Stutters
<1>10. CASE old[NSteps].status \notin OK
  <2>1. PICK h \in Steps : old[h].status \in AtHand
    BY <1>1, <1>10 DEF Shape
  <2>2. PICK g \in Steps : new[g].status \in AtHand
    BY <1>5, <1>6, <1>10 DEF Shape
  <2>3. g = h
    <3>1. ~(g < h)
      <4>1. new[g].status \notin OK /\ old[g].status \notin OK
        BY <1>5, <2>2, StatusClasses
      <4> QED BY <1>1, <2>1, <4>1, StatusClasses DEF Shape
    <3>2. ~(h < g)
      <4>1. new[h].status \notin OK
        BY <1>5, <2>1, StatusClasses
      <4> QED BY <1>6, <2>2, <4>1, StatusClasses DEF Shape
    <3> QED BY <3>1, <3>2
  <2>4. new[h].status = "ready" /\ new[h].worker = Null /\ new[h].attempt = 0
    BY <1>5, <1>7, <2>2, <2>3, StatusClasses
  <2>5. /\ Mode(new) = "waiting" /\ Stage(new) = h - 1
        /\ Owner(new) = Null /\ Tries(new) = 0
    <3>1. ModeOf("ready") = "waiting"
      BY DEF ModeOf
    <3> QED BY <1>6, <2>2, <2>3, <2>4, <3>1, HandView
  <2>6. /\ Mode(old) = ModeOf(old[h].status) /\ Stage(old) = h - 1
        /\ Owner(old) = old[h].worker /\ old[h].worker = Null
    BY <1>1, <2>1, HandView DEF RowInv
  <2>7. Mode(old) = "stopped" \/ (r \in ForceRefresh /\ Mode(old) = "waiting")
    <3>1. old[h].status \in {"ready", "retrying", "failed", "blocked"}
      BY <1>1, <2>1 DEF AtHand
    <3>2. r \notin ForceRefresh => old[h].status \in {"failed", "blocked"}
      BY <1>1, <1>8, <1>10, <2>1, <3>1, AtHandDepsOK
    <3> QED BY <2>6, <3>1, <3>2 DEF ModeOf
  <2>8. Progress!Retry(r)
    BY <1>2, <2>5, <2>6, <2>7, MapsToRetry DEF old, new
  <2> QED BY <2>8
<1> QED BY <1>9, <1>10

\* recover_expired_leases takes the runs from all owners whose lease has expired.
LEMMA RecoverView ==
    ASSUME IInv, IInv', NEW d \in Lags, RecoverExpiredLeases(d)
    PROVE  Progress!Lose(ExpiredRuns(d))
<1>1. ASSUME NEW r \in Runs, NEW i \in Steps
      PROVE  steps'[r][i] = IF Expired(steps[r][i], d) THEN Recovered(steps[r][i], i, d)
                                                       ELSE steps[r][i]
  BY DEF RecoverExpiredLeases
<1>2. ASSUME NEW q \in Runs \ ExpiredRuns(d)
      PROVE  SameView(q)
  <2>1. \A i \in Steps : steps'[q][i] = steps[q][i]
    BY <1>1 DEF ExpiredRuns
  <2>2. steps'[q] = steps[q]
    BY <2>1, RunFacts, RunFactsNext
  <2> QED BY <2>2 DEF SameView
<1>3. ASSUME NEW r \in ExpiredRuns(d)
      PROVE  /\ Mode(steps[r]) = "owned"
             /\ \/ Mode(steps'[r]) = "stopped"
                \/ /\ Mode(steps'[r]) = "waiting"
                   /\ Tries(steps[r]) < MaxAttempts[Stage(steps[r]) + 1]
             /\ Stage(steps'[r]) = Stage(steps[r])
             /\ Owner(steps'[r]) = Null
             /\ Tries(steps'[r]) = Tries(steps[r])
  <2> DEFINE old == steps[r]
             new == steps'[r]
  <2>1. PICK i \in Steps : Expired(old[i], d)
    BY <1>3 DEF ExpiredRuns
  <2>2. r \in Runs
    BY <1>3 DEF ExpiredRuns
  <2>3. /\ old[i] \in Row /\ old[i].status = "running" /\ old[i].status \in AtHand /\ Shape(old)
    BY <2>1, <2>2, RunFacts DEF Expired, AtHand
  <2>4. new[i] = Recovered(old[i], i, d)
    BY <1>1, <2>1, <2>2
  <2>5. /\ new[i].attempt = old[i].attempt /\ new[i].worker = Null
        /\ \/ new[i].status = "retrying" /\ old[i].attempt < MaxAttempts[i]
           \/ new[i].status = "failed"
    BY <2>3, <2>4 DEF Recovered, Row
  <2>6. Shape(new) /\ new[i].status \in AtHand
    BY <2>2, <2>5, RunFactsNext DEF AtHand
  <2>7. ModeOf("running") = "owned" /\ ModeOf("retrying") = "waiting" /\ ModeOf("failed") = "stopped"
    BY DEF ModeOf
  <2> HIDE DEF old, new
  <2>8. /\ Mode(old) = "owned" /\ Stage(old) = i - 1 /\ Tries(old) = old[i].attempt
    BY <2>3, <2>7, HandView
  <2>9. /\ Mode(new) = ModeOf(new[i].status) /\ Stage(new) = i - 1
        /\ Owner(new) = Null /\ Tries(new) = old[i].attempt
    BY <2>5, <2>6, HandView
  <2>10. (i - 1) + 1 = i
    BY NStepsAssumption DEF Steps
  <2> QED BY <2>5, <2>7, <2>8, <2>9, <2>10 DEF old, new
<1>4. ExpiredRuns(d) \in SUBSET Runs /\ ExpiredRuns(d) # {}
  BY DEF ExpiredRuns, RecoverExpiredLeases
<1> QED BY <1>2, <1>3, <1>4, MapsToLose

\* Time that passes is not seen.
LEMMA TickView ==
    ASSUME IInv, IInv', Tick
    PROVE  UNCHANGED Progress!vars
<1>1. ASSUME NEW r \in Runs PROVE SameView(r)
  <2> DEFINE old == steps[r]
             new == steps'[r]
  <2>1. \A i \in Steps : /\ new[i].status = old[i].status /\ new[i].worker = old[i].worker
                         /\ new[i].attempt = old[i].attempt
    <3> SUFFICES ASSUME NEW i \in Steps
                 PROVE  /\ new[i].status = old[i].status /\ new[i].worker = old[i].worker
                        /\ new[i].attempt = old[i].attempt
      OBVIOUS
    <3>1. old[i] \in Row
      BY RunFacts
    <3> QED BY <3>1 DEF Tick, Row
  <2>2. Shape(old) \/ \A i \in Steps : old[i].status = "absent"
    BY RunFacts
  <2>3. Shape(old) => Shape(new)
    BY <2>1, SameShape
  <2> HIDE DEF old, new
  <2>4. NSteps \in Steps /\ 1 \in Steps
    BY NStepsAssumption DEF Steps
  <2>5. CASE \A i \in Steps : old[i].status = "absent"
    <3>1. \A i \in Steps : new[i].status = "absent"
      BY <2>1, <2>5
    <3> QED BY <2>1, <2>4, <2>5, <3>1, AbsentView DEF SameView, old, new
  <2>6. CASE Shape(old) /\ old[NSteps].status \in OK
    <3>1. Shape(new) /\ new[NSteps].status \in OK
      BY <2>1, <2>3, <2>4, <2>6
    <3> QED BY <2>6, <3>1, DoneView DEF SameView, old, new
  <2>7. CASE Shape(old) /\ old[NSteps].status \notin OK
    <3>1. PICK h \in Steps : old[h].status \in AtHand
      BY <2>7 DEF Shape
    <3>2. Shape(new) /\ new[h].status \in AtHand
      BY <2>1, <2>3, <2>7, <3>1
    <3>3. Stage(old) = h - 1 /\ Stage(new) = h - 1
      BY <2>7, <3>1, <3>2, HandView
    <3>4. Mode(old) = ModeOf(old[h].status) /\ Mode(new) = ModeOf(new[h].status)
      BY <2>7, <3>1, <3>2, HandView
    <3>5. /\ Owner(old) = old[h].worker /\ Owner(new) = new[h].worker
          /\ Tries(old) = old[h].attempt /\ Tries(new) = new[h].attempt
      BY <2>7, <3>1, <3>2, HandView
    <3> QED BY <2>1, <3>3, <3>4, <3>5 DEF SameView, old, new
  <2> QED BY <2>2, <2>5, <2>6, <2>7
<1> QED BY <1>1, Stutters

-----------------------------------------------------------------------------
(* The refinement. *)

\* At the beginning all runs are absent.
LEMMA InitProgress == Init => Progress!Init
<1> SUFFICES ASSUME Init PROVE Progress!Init
  OBVIOUS
<1>1. 1 \in Steps
  BY NStepsAssumption DEF Steps
<1>2. \A r \in Runs : \A i \in Steps : steps[r][i].status = "absent"
  BY DEF Init, BlankRow
<1>3. \A r \in Runs : steps[r][1].worker = Null /\ steps[r][1].attempt = 0
  BY <1>1 DEF Init, BlankRow
<1>4. \A r \in Runs : /\ Mode(steps[r]) = "absent" /\ Stage(steps[r]) = 0
                      /\ Owner(steps[r]) = Null /\ Tries(steps[r]) = 0
  BY <1>2, <1>3, AbsentView
<1> QED BY <1>4 DEF Progress!Init, Progress!Runs, Runs

\* Every step is a step of the abstract progress, or changes nothing that is seen.
LEMMA NextProgress ==
    IInv /\ IInv' /\ NeverStuck /\ [Next]_vars => [Progress!Next]_Progress!vars
<1> SUFFICES ASSUME IInv, IInv', NeverStuck, [Next]_vars PROVE [Progress!Next]_Progress!vars
  OBVIOUS
<1> USE DEF Progress!Next, Progress!Runs, Runs
<1>1. CASE \E r \in Runs : Create(r)
  BY <1>1, CreateView
<1>2. CASE \E r \in Runs : RetryPipeline(r)
  BY <1>2, RetryView
<1>3. CASE steps' = steps
  BY <1>3, Stutters DEF SameView
<1>4. CASE \E r \in Runs, i \in Steps, w \in Workers, d \in Lags :
              ClaimReadyStep(r, i, w, d)
  BY <1>4, ClaimView
<1>5. CASE \E r \in Runs, i \in Steps, w \in Workers, d \in Lags :
              \E a \in 1..MaxAttempts[i] : WorkerCall(r, i, w, a, d)
  BY <1>5, WorkerCallView
<1>6. CASE \E d \in Lags : RecoverExpiredLeases(d)
  <2>1. PICK d \in Lags : RecoverExpiredLeases(d)
    BY <1>6
  <2>2. ExpiredRuns(d) \in SUBSET Runs
    BY DEF ExpiredRuns
  <2> QED BY <2>1, <2>2, RecoverView
<1>7. CASE Tick
  BY <1>7, TickView
<1> QED BY <1>1, <1>2, <1>3, <1>4, <1>5, <1>6, <1>7 DEF Next, SavePipeline, vars

\* Whatever the methods of the store do, in any order, with clocks that lag and
\* documents that are replaced by old copies, a run goes through its steps in
\* order, with one owner and a bounded number of tries for each.
THEOREM ProgressCorrect == Spec => ImplementsProgress
  BY InitProgress, NextProgress, Invariance, NeverStuckCorrect, PTL
  DEF Spec, ImplementsProgress, Progress!Spec
=============================================================================
