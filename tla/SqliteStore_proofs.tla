-------------------------- MODULE SqliteStore_proofs --------------------------
(***************************************************************************)
(* Proofs about SqliteStore, for any number of steps, attempts, runs,      *)
(* workers and keys, any lease, back-off and busy timeout.                 *)
(***************************************************************************)
EXTENDS SqliteStore, TLAPS

\* The step at hand of a run is in one of these states; the steps before it
\* are finished and the steps after it are pending.
AtHand == {"ready", "running", "retrying", "failed", "blocked"}

\* The rows of a run that exists have this shape.  The strengthening of
\* PendingIffWaiting that is inductive: every step after an unfinished one is
\* pending, not only the next one.
Shape(rows) ==
    /\ \A i, j \in Steps : i < j /\ rows[i].status \notin OK => rows[j].status = "pending"
    /\ \A i \in Steps : rows[i].status = "pending" => ~DepsOK(rows, i)
    /\ rows[NSteps].status \notin OK => \E i \in Steps : rows[i].status \in AtHand

\* What LeaseIffRunning and AttemptsBounded say of one row.
RowInv(row, i) ==
    /\ row.status = "running" <=> row.worker # Null
    /\ row.status = "running" <=> row.lease # Null
    /\ row.attempt <= MaxAttempts[i]
    /\ row.status \in {"absent", "pending", "ready"} <=> row.attempt = 0
    /\ row.status = "retrying" => row.attempt < MaxAttempts[i]
    /\ row.status = "failed" => row.attempt = MaxAttempts[i]

RunInv(r) ==
    /\ \A i \in Steps : RowInv(steps[r][i], i)
    /\ \A i \in Steps : Created(r) <=> steps[r][i].status # "absent"
    /\ Created(r) => Shape(steps[r])

\* The inductive invariant.
IInv == TypeOK /\ \A r \in Runs : RunInv(r)

-----------------------------------------------------------------------------
(* Operators. *)

\* A step's dependencies are finished when it is the first or the one before
\* it is finished.
LEMMA DepsOKChain ==
    ASSUME NEW rows, NEW i \in Steps
    PROVE  DepsOK(rows, i) <=> (i = 1 \/ rows[i - 1].status \in OK)
  BY NStepsAssumption DEF DepsOK, DependsOn, Steps

\* build_steps: only the first step is born ready.
LEMMA FirstStatusChain ==
    ASSUME NEW i \in Steps
    PROVE  FirstStatus(i) = IF i = 1 THEN "ready" ELSE "pending"
<1>1. CASE i = 1
  BY <1>1, NStepsAssumption DEF FirstStatus, DependsOn, Steps
<1>2. CASE i # 1
  <2>1. i - 1 \in DependsOn(i)
    BY <1>2, NStepsAssumption DEF DependsOn, Steps
  <2> QED BY <1>2, <2>1 DEF FirstStatus
<1> QED BY <1>1, <1>2

\* The status of a run derived from its steps is a status of a run.
LEMMA DerivedStatusType ==
    ASSUME NEW st
    PROVE  DerivedStatus(st) \in PipelineStatus
  BY DEF DerivedStatus, PipelineStatus

\* What the methods write into a row is a row.
LEMMA RowTypes ==
    ASSUME NEW row \in Row, NEW i \in Steps, NEW d \in Lags
    PROVE  /\ \A w \in Workers : ClaimedRow(row, w, d) \in Row
           /\ \A st \in OK, k \in Keys : FinishedRow(row, st, k) \in Row
           /\ \A st \in {"blocked", "pending"} : GivenBack(row, st) \in Row
           /\ \A retry \in BOOLEAN : FailedRow(row, retry, d) \in Row
           /\ Recovered(row, i, d) \in Row
           /\ [row EXCEPT !.lease = Lease - d] \in Row
           /\ \A k \in Keys : [row EXCEPT !.key = k, !.error = Null] \in Row
           /\ [row EXCEPT !.lease = Later(@, -(MaxWait + 1)), !.retryIn = Later(@, -MaxWait)] \in Row
<1> USE TimeAssumption, NullAssumption
<1> /\ -d \in (-MaxWait..RetryDelay)
    /\ RetryDelay - d \in (-MaxWait..RetryDelay)
    /\ Lease - d \in (-(MaxWait + 1)..Lease)
  BY DEF Lags
<1>1. \A w \in Workers : ClaimedRow(row, w, d) \in Row
  <2>1. row.attempt + 1 \in Nat
    BY DEF Row
  <2> QED BY <2>1 DEF ClaimedRow, Row, StepStatus
<1>2. \A st \in OK, k \in Keys : FinishedRow(row, st, k) \in Row
  BY DEF FinishedRow, Row, StepStatus, OK
<1>3. \A st \in {"blocked", "pending"} : GivenBack(row, st) \in Row
  BY DEF GivenBack, Row, StepStatus, Errors
<1>4. \A retry \in BOOLEAN : FailedRow(row, retry, d) \in Row
  BY DEF FailedRow, Row, StepStatus, Errors
<1>5. Recovered(row, i, d) \in Row
  BY DEF Recovered, Row, StepStatus, Errors
<1>6. [row EXCEPT !.lease = Lease - d] \in Row
  BY DEF Row
<1>7. \A k \in Keys : [row EXCEPT !.key = k, !.error = Null] \in Row
  BY DEF Row
<1>8. [row EXCEPT !.lease = Later(@, -(MaxWait + 1)), !.retryIn = Later(@, -MaxWait)] \in Row
  <2>1. Later(row.lease, -(MaxWait + 1)) \in (-(MaxWait + 1)..Lease) \cup {Null}
    BY DEF Row, Later
  <2>2. Later(row.retryIn, -MaxWait) \in (-MaxWait..RetryDelay) \cup {Null}
    BY DEF Row, Later
  <2> QED BY <2>1, <2>2 DEF Row
<1> QED BY <1>1, <1>2, <1>3, <1>4, <1>5, <1>6, <1>7, <1>8

\* retry_pipeline writes rows.
LEMMA RestartedType ==
    ASSUME NEW row \in Row, NEW i \in Steps
    PROVE  Restarted(row, i) \in Row
<1>1. FirstStatus(i) \in StepStatus
  BY DEF FirstStatus, StepStatus
<1> QED BY <1>1 DEF Restarted, Row

\* promote_ready_steps writes rows.
LEMMA PromotedType ==
    ASSUME NEW rows \in [Steps -> Row]
    PROVE  Promoted(rows) \in [Steps -> Row]
<1>1. ASSUME NEW i \in Steps
      PROVE  [rows[i] EXCEPT !.status = "ready", !.error = Null,
                             !.worker = Null, !.lease = Null] \in Row
  BY DEF Row, StepStatus
<1> QED BY <1>1 DEF Promoted

\* _refresh_pipeline writes documents, and only those of the runs it is called for.
LEMMA RefreshedType ==
    ASSUME TypeOK, NEW S, NEW all
    PROVE  Refreshed(S, all) \in [Runs -> Pipeline]
  BY DerivedStatusType DEF Refreshed, TypeOK, Pipeline

\* A finished step is not in the other states, and vice versa.
LEMMA StatusClasses ==
    /\ \A s : s \in OK => s \notin AtHand /\ s # "pending"
    /\ \A s : s \in AtHand => s \notin OK /\ s # "pending" /\ s # "absent"
  BY DEF OK, AtHand

\* Promotion makes ready what is pending or blocked behind finished steps, and
\* finishes nothing.
LEMMA PromotedStatus ==
    ASSUME NEW rows \in [Steps -> Row], NEW i \in Steps
    PROVE  /\ Promoted(rows)[i].status =
                 IF rows[i].status \in {"pending", "blocked"} /\ DepsOK(rows, i)
                 THEN "ready" ELSE rows[i].status
           /\ Promoted(rows)[i].status \in OK <=> rows[i].status \in OK
           /\ DepsOK(Promoted(rows), i) <=> DepsOK(rows, i)
<1>1. \A j \in Steps : Promoted(rows)[j].status =
                 IF rows[j].status \in {"pending", "blocked"} /\ DepsOK(rows, j)
                 THEN "ready" ELSE rows[j].status
  BY DEF Promoted, Row
<1>2. \A j \in Steps : Promoted(rows)[j].status \in OK <=> rows[j].status \in OK
  BY <1>1 DEF OK
<1>3. DepsOK(Promoted(rows), i) <=> DepsOK(rows, i)
  BY <1>2 DEF DepsOK, DependsOn
<1> QED BY <1>1, <1>2, <1>3

-----------------------------------------------------------------------------
(* The shape of a run. *)

\* A step that is neither finished nor pending has its dependencies finished.
LEMMA AtHandDepsOK ==
    ASSUME NEW rows, Shape(rows), NEW i \in Steps, rows[i].status \in AtHand
    PROVE  DepsOK(rows, i)
<1>1. CASE i = 1
  BY <1>1, DepsOKChain
<1>2. CASE i # 1
  <2>1. i - 1 \in Steps /\ i - 1 < i
    BY <1>2, NStepsAssumption DEF Steps
  <2>2. rows[i - 1].status \in OK
    BY <2>1, StatusClasses DEF Shape
  <2> QED BY <2>2, DepsOKChain
<1> QED BY <1>1, <1>2

\* The shape only depends on which steps are finished, pending or at hand.
LEMMA SameShape ==
    ASSUME NEW old, NEW new, Shape(old),
           \A i \in Steps : \/ new[i].status = old[i].status
                            \/ new[i].status \in AtHand /\ old[i].status \in AtHand
    PROVE  Shape(new)
<1>1. \A i \in Steps : /\ new[i].status \in OK <=> old[i].status \in OK
                       /\ new[i].status = "pending" <=> old[i].status = "pending"
                       /\ new[i].status \in AtHand <=> old[i].status \in AtHand
  BY StatusClasses
<1>2. \A i \in Steps : DepsOK(new, i) <=> DepsOK(old, i)
  BY <1>1 DEF DepsOK, DependsOn
<1>3. NSteps \in Steps
  BY NStepsAssumption DEF Steps
<1> QED BY <1>1, <1>2, <1>3 DEF Shape

\* finish_step: the step at hand moves on by one.
LEMMA FinishShape ==
    ASSUME NEW old \in [Steps -> Row], Shape(old),
           NEW i \in Steps, old[i].status = "running",
           NEW x \in Row, x.status \in OK
    PROVE  Shape(Promoted([old EXCEPT ![i] = x]))
<1> DEFINE mid == [old EXCEPT ![i] = x]
           new == Promoted(mid)
<1> USE NStepsAssumption DEF Steps
<1>0. mid \in [Steps -> Row] /\ mid[i].status \in OK
      /\ \A j \in Steps : j # i => mid[j] = old[j]
  OBVIOUS
<1>1. \A j \in Steps : j < i => mid[j].status \in OK
  BY <1>0, StatusClasses DEF Shape, OK
<1>2. \A j \in Steps : i < j => mid[j].status = "pending"
  BY <1>0, StatusClasses DEF Shape, OK
<1>3. \A j \in Steps : /\ new[j].status \in OK <=> mid[j].status \in OK
                       /\ DepsOK(new, j) <=> DepsOK(mid, j)
                       /\ new[j].status =
                             IF mid[j].status \in {"pending", "blocked"} /\ DepsOK(mid, j)
                             THEN "ready" ELSE mid[j].status
  BY <1>0, PromotedStatus
<1>4. \A j \in Steps : DepsOK(mid, j) <=> (j = 1 \/ mid[j - 1].status \in OK)
  BY DepsOKChain
<1> HIDE DEF mid, new
<1>5. \A j \in Steps : i + 1 < j => new[j].status = "pending"
  <2> SUFFICES ASSUME NEW j \in Steps, i + 1 < j PROVE new[j].status = "pending"
    OBVIOUS
  <2>1. j - 1 \in Steps /\ i < j - 1 /\ j # 1
    OBVIOUS
  <2>2. mid[j - 1].status = "pending" /\ mid[j].status = "pending"
    BY <2>1, <1>2
  <2>3. ~DepsOK(mid, j)
    BY <2>1, <2>2, <1>4, StatusClasses
  <2> QED BY <2>2, <2>3, <1>3
<1>6. i < NSteps => new[i + 1].status = "ready"
  <2> SUFFICES ASSUME i < NSteps PROVE new[i + 1].status = "ready"
    OBVIOUS
  <2>1. i + 1 \in Steps /\ mid[i + 1].status = "pending"
    BY <1>2
  <2>2. DepsOK(mid, i + 1)
    BY <2>1, <1>4, <1>0
  <2> QED BY <2>1, <2>2, <1>3
<1>7. \A a, b \in Steps : a < b /\ new[a].status \notin OK => new[b].status = "pending"
  BY <1>0, <1>1, <1>3, <1>5
<1>8. \A j \in Steps : new[j].status = "pending" => ~DepsOK(new, j)
  BY <1>3
<1>9. new[NSteps].status \notin OK => \E j \in Steps : new[j].status \in AtHand
  <2> SUFFICES ASSUME new[NSteps].status \notin OK
               PROVE  \E j \in Steps : new[j].status \in AtHand
    OBVIOUS
  <2>1. i < NSteps
    BY <1>0, <1>3
  <2> QED BY <2>1, <1>6 DEF AtHand
<1>10. Shape(new)
  BY <1>7, <1>8, <1>9 DEF Shape
<1> QED BY <1>10 DEF new, mid

\* retry_pipeline: the step at hand starts over, the rest stays.
LEMMA RetryShape ==
    ASSUME NEW old \in [Steps -> Row], Shape(old)
    PROVE  /\ Shape(Promoted([i \in Steps |-> Restarted(old[i], i)]))
           /\ \A i \in Steps : Restarted(old[i], i).status \in OK \cup {"ready", "pending"}
<1> DEFINE mid == [i \in Steps |-> Restarted(old[i], i)]
           new == Promoted(mid)
<1>0. \A i \in Steps : Restarted(old[i], i) \in Row
  BY RestartedType
<1>1. \A i \in Steps : mid[i].status = IF old[i].status \in OK THEN old[i].status
                                       ELSE IF i = 1 THEN "ready" ELSE "pending"
  <2> SUFFICES ASSUME NEW i \in Steps
               PROVE  Restarted(old[i], i).status =
                         IF old[i].status \in OK THEN old[i].status
                         ELSE IF i = 1 THEN "ready" ELSE "pending"
    OBVIOUS
  <2>1. CASE old[i].status \in OK
    BY <2>1 DEF Restarted
  <2>2. CASE old[i].status \notin OK
    <3>1. Restarted(old[i], i).status = FirstStatus(i)
      BY <2>2 DEF Restarted, Row
    <3> QED BY <2>2, <3>1, FirstStatusChain
  <2> QED BY <2>1, <2>2
<1>2. mid \in [Steps -> Row]
  BY <1>0
<1>3. \A j \in Steps : /\ new[j].status \in OK <=> mid[j].status \in OK
                       /\ DepsOK(new, j) <=> DepsOK(mid, j)
                       /\ new[j].status =
                             IF mid[j].status \in {"pending", "blocked"} /\ DepsOK(mid, j)
                             THEN "ready" ELSE mid[j].status
  BY <1>2, PromotedStatus
<1>4. \A i \in Steps : Restarted(old[i], i).status \in OK \cup {"ready", "pending"}
  BY <1>1
<1> HIDE DEF mid, new
<1>5. \A j \in Steps : mid[j].status \in OK <=> old[j].status \in OK
  BY <1>1, StatusClasses DEF OK
<1>6. \A j \in Steps : DepsOK(mid, j) <=> DepsOK(old, j)
  BY <1>5 DEF DepsOK, DependsOn
<1>7. \A a, b \in Steps : a < b /\ new[a].status \notin OK => new[b].status = "pending"
  <2> SUFFICES ASSUME NEW a \in Steps, NEW b \in Steps, a < b, new[a].status \notin OK
               PROVE  new[b].status = "pending"
    OBVIOUS
  <2>1. old[a].status \notin OK /\ old[b].status = "pending" /\ b # 1
    BY <1>3, <1>5, NStepsAssumption DEF Shape, Steps
  <2>2. ~DepsOK(old, b)
    BY <2>1 DEF Shape
  <2> QED BY <2>1, <2>2, <1>1, <1>3, <1>6, StatusClasses
<1>8. \A j \in Steps : new[j].status = "pending" => ~DepsOK(new, j)
  BY <1>3
<1>9. new[NSteps].status \notin OK => \E j \in Steps : new[j].status \in AtHand
  <2> SUFFICES ASSUME new[NSteps].status \notin OK
               PROVE  \E j \in Steps : new[j].status \in AtHand
    OBVIOUS
  <2>1. old[NSteps].status \notin OK
    BY <1>3, <1>5, NStepsAssumption DEF Steps
  <2>2. PICK h \in Steps : old[h].status \in AtHand
    BY <2>1 DEF Shape
  <2>3. DepsOK(mid, h)
    BY <2>2, <1>6, AtHandDepsOK
  <2>4. mid[h].status \in {"ready", "pending"}
    BY <2>2, <1>1, StatusClasses
  <2>5. new[h].status = "ready"
    BY <2>3, <2>4, <1>3
  <2> QED BY <2>5 DEF AtHand
<1>10. Shape(new)
  BY <1>7, <1>8, <1>9 DEF Shape
<1> QED BY <1>4, <1>10 DEF new, mid

\* create: the first step is ready, the others are pending.
LEMMA CreateShape ==
    Shape([i \in Steps |-> BlankRow(FirstStatus(i))])
<1> DEFINE new == [i \in Steps |-> BlankRow(FirstStatus(i))]
<1>1. \A i \in Steps : new[i].status = IF i = 1 THEN "ready" ELSE "pending"
  BY FirstStatusChain DEF BlankRow
<1> HIDE DEF new
<1> USE NStepsAssumption DEF Steps
<1>2. \A i, j \in Steps : i < j => new[j].status = "pending"
  BY <1>1
<1>3. \A i \in Steps : new[i].status = "pending" => ~DepsOK(new, i)
  <2> SUFFICES ASSUME NEW i \in Steps, new[i].status = "pending" PROVE ~DepsOK(new, i)
    OBVIOUS
  <2>1. i # 1 /\ i - 1 \in Steps
    BY <1>1
  <2>2. new[i - 1].status \notin OK
    BY <2>1, <1>1 DEF OK
  <2> QED BY <2>1, <2>2, DepsOKChain
<1>4. 1 \in Steps /\ new[1].status \in AtHand
  BY <1>1 DEF AtHand
<1>5. Shape(new)
  BY <1>2, <1>3, <1>4 DEF Shape
<1> QED BY <1>5 DEF new

-----------------------------------------------------------------------------
(* The rows. *)

\* A step that is free or due can be claimed: it has an attempt left.
LEMMA ClaimedRowInv ==
    ASSUME NEW row \in Row, NEW i \in Steps, NEW w \in Workers, NEW d \in Lags,
           RowInv(row, i), row.status \in {"ready", "retrying"}
    PROVE  RowInv(ClaimedRow(row, w, d), i)
<1> DEFINE x == ClaimedRow(row, w, d)
<1>1. /\ x.status = "running" /\ x.worker = w /\ x.lease = Lease - d
      /\ x.attempt = row.attempt + 1
  BY DEF ClaimedRow, Row
<1>2. row.attempt \in Nat /\ MaxAttempts[i] \in Nat \ {0}
  BY MaxAttemptsAssumption DEF Row, Steps
<1>3. row.attempt + 1 <= MaxAttempts[i]
  <2>1. CASE row.status = "ready"
    <3>1. row.attempt = 0
      BY <2>1 DEF RowInv
    <3> QED BY <3>1, <1>2
  <2>2. CASE row.status = "retrying"
    <3>1. row.attempt < MaxAttempts[i]
      BY <2>2 DEF RowInv
    <3> QED BY <3>1, <1>2
  <2> QED BY <2>1, <2>2
<1>4. Lease - d \in Int /\ row.attempt + 1 # 0
  BY <1>2, TimeAssumption DEF Lags
<1> HIDE DEF x
<1>5. RowInv(x, i)
  BY <1>1, <1>3, <1>4, NullAssumption DEF RowInv
<1> QED BY <1>5 DEF x

\* What the transactions make of a running step.
LEMMA RunningRowInv ==
    ASSUME NEW row \in Row, NEW i \in Steps, NEW d \in Lags,
           RowInv(row, i), row.status = "running"
    PROVE  /\ RowInv([row EXCEPT !.lease = Lease - d], i)
           /\ \A k \in Keys : RowInv([row EXCEPT !.key = k, !.error = Null], i)
           /\ RowInv(GivenBack(row, "blocked"), i)
           /\ \A st \in OK, k \in Keys : RowInv(FinishedRow(row, st, k), i)
           /\ RowInv(FailedRow(row, row.attempt < MaxAttempts[i], d), i)
           /\ RowInv(Recovered(row, i, d), i)
<1>1. /\ row.worker # Null /\ row.lease # Null
      /\ row.attempt \in Nat /\ row.attempt # 0 /\ row.attempt <= MaxAttempts[i]
      /\ MaxAttempts[i] \in Nat
  BY MaxAttemptsAssumption DEF RowInv, Row, Steps
<1>2. Lease - d # Null
  BY TimeAssumption, NullAssumption DEF Lags
<1>3. RowInv([row EXCEPT !.lease = Lease - d], i)
  BY <1>1, <1>2 DEF RowInv, Row
<1>4. \A k \in Keys : RowInv([row EXCEPT !.key = k, !.error = Null], i)
  BY <1>1 DEF RowInv, Row
<1>5. RowInv(GivenBack(row, "blocked"), i)
  BY <1>1 DEF RowInv, Row, GivenBack
<1>6. \A st \in OK, k \in Keys : RowInv(FinishedRow(row, st, k), i)
  BY <1>1 DEF RowInv, Row, FinishedRow, OK
<1>7. RowInv(FailedRow(row, row.attempt < MaxAttempts[i], d), i)
  BY <1>1 DEF RowInv, Row, FailedRow
<1>8. RowInv(Recovered(row, i, d), i)
  BY <1>1 DEF RowInv, Row, Recovered
<1> QED BY <1>3, <1>4, <1>5, <1>6, <1>7, <1>8

\* A step that starts over has no attempt, owner or lease left.
LEMMA RestartedRowInv ==
    ASSUME NEW row \in Row, NEW i \in Steps, RowInv(row, i), row.status # "running"
    PROVE  RowInv(Restarted(row, i), i)
<1>1. MaxAttempts[i] \in Nat /\ FirstStatus(i) \in {"ready", "pending"}
  BY MaxAttemptsAssumption DEF Steps, FirstStatus
<1> QED BY <1>1 DEF RowInv, Restarted, Row

\* The passing of time leaves a row as it is, but for its times.
LEMMA TickRowInv ==
    ASSUME NEW row \in Row, NEW i \in Steps, RowInv(row, i)
    PROVE  RowInv([row EXCEPT !.lease = Later(@, -(MaxWait + 1)),
                              !.retryIn = Later(@, -MaxWait)], i)
<1>1. Later(row.lease, -(MaxWait + 1)) = Null <=> row.lease = Null
  BY NullAssumption, TimeAssumption DEF Later, Row
<1> QED BY <1>1 DEF RowInv, Row

\* Promotion only touches steps that were never started: none is blocked.
LEMMA PromotedRowInv ==
    ASSUME NEW rows \in [Steps -> Row], NEW i \in Steps, RowInv(rows[i], i),
           rows[i].status # "blocked"
    PROVE  RowInv(Promoted(rows)[i], i)
<1>1. CASE rows[i].status = "pending" /\ DepsOK(rows, i)
  BY <1>1 DEF Promoted, RowInv, Row
<1>2. CASE ~(rows[i].status = "pending" /\ DepsOK(rows, i))
  BY <1>2 DEF Promoted
<1> QED BY <1>1, <1>2

-----------------------------------------------------------------------------
(* The inductive invariant. *)

\* The empty tables satisfy the invariant.
LEMMA InitInv == Init => IInv
<1> SUFFICES ASSUME Init PROVE IInv
  OBVIOUS
<1>1. BlankRow("absent") \in Row
  BY TimeAssumption DEF BlankRow, Row
<1>2. TypeOK
  BY <1>1 DEF Init, TypeOK, Pipeline
<1>3. ASSUME NEW r \in Runs PROVE RunInv(r)
  <2>1. ~Created(r)
    BY DEF Init, Created
  <2>2. ASSUME NEW i \in Steps PROVE RowInv(steps[r][i], i) /\ steps[r][i].status = "absent"
    <3>1. steps[r][i] = BlankRow("absent")
      BY DEF Init
    <3>2. MaxAttempts[i] \in Nat
      BY MaxAttemptsAssumption DEF Steps
    <3> QED BY <3>1, <3>2 DEF RowInv, BlankRow
  <2> QED BY <2>1, <2>2 DEF RunInv
<1> QED BY <1>2, <1>3 DEF IInv

\* A transaction that changes the steps of one run: it is enough to look at
\* the new rows of that run.
LEMMA OneRun ==
    ASSUME IInv, NEW r \in Runs, NEW rows \in [Steps -> Row],
           steps' = [steps EXCEPT ![r] = rows],
           pipelines' \in [Runs -> Pipeline],
           \A q \in Runs : q # r => pipelines'[q] = pipelines[q],
           pipelines'[r].status # "absent",
           \A i \in Steps : RowInv(rows[i], i) /\ rows[i].status # "absent",
           Shape(rows)
    PROVE  IInv'
<1>1. TypeOK'
  BY DEF IInv, TypeOK
<1>2. ASSUME NEW q \in Runs PROVE RunInv(q)'
  <2>1. CASE q = r
    <3>1. steps'[q] = rows /\ Created(q)'
      BY <2>1 DEF IInv, TypeOK, Created
    <3> QED BY <3>1 DEF RunInv
  <2>2. CASE q # r
    <3>1. steps'[q] = steps[q] /\ (Created(q)' <=> Created(q))
      BY <2>2 DEF IInv, TypeOK, Created
    <3> QED BY <3>1 DEF IInv, RunInv
  <2> QED BY <2>1, <2>2
<1> QED BY <1>1, <1>2 DEF IInv

\* The same for one step that stays at hand.
LEMMA OneRow ==
    ASSUME IInv, NEW r \in Runs, NEW i \in Steps, NEW x \in Row,
           steps' = [steps EXCEPT ![r][i] = x],
           pipelines' \in [Runs -> Pipeline],
           \A q \in Runs : q # r => pipelines'[q] = pipelines[q],
           pipelines'[r].status # "absent",
           steps[r][i].status \in AtHand, x.status \in AtHand, RowInv(x, i)
    PROVE  IInv'
<1> DEFINE rows == [steps[r] EXCEPT ![i] = x]
<1>1. steps[r] \in [Steps -> Row] /\ RunInv(r)
  BY DEF IInv, TypeOK
<1>2. Created(r)
  BY <1>1, StatusClasses DEF RunInv
<1>3. rows \in [Steps -> Row] /\ steps' = [steps EXCEPT ![r] = rows]
  BY <1>1
<1>4. \A j \in Steps : rows[j] = IF j = i THEN x ELSE steps[r][j]
  BY <1>1
<1> HIDE DEF rows
<1>5. \A j \in Steps : RowInv(rows[j], j) /\ rows[j].status # "absent"
  BY <1>1, <1>2, <1>4, StatusClasses DEF RunInv
<1>6. Shape(rows)
  <2>1. Shape(steps[r])
    BY <1>1, <1>2 DEF RunInv
  <2>2. \A j \in Steps : \/ rows[j].status = steps[r][j].status
                         \/ rows[j].status \in AtHand /\ steps[r][j].status \in AtHand
    BY <1>4
  <2> QED BY <2>1, <2>2, SameShape
<1> QED BY <1>3, <1>5, <1>6, OneRun

\* What OwnedRunning tells about the step.
LEMMA OwnedFacts ==
    ASSUME IInv, NEW r \in Runs, NEW i \in Steps, NEW w, NEW a, NEW d,
           OwnedRunning(steps[r][i], w, a, d)
    PROVE  /\ steps[r] \in [Steps -> Row]
           /\ steps[r][i] \in Row /\ RowInv(steps[r][i], i)
           /\ steps[r][i].status = "running" /\ steps[r][i].status \in AtHand
           /\ Created(r) /\ Shape(steps[r]) /\ DepsOK(steps[r], i)
<1>1. /\ steps[r] \in [Steps -> Row]
      /\ steps[r][i].status = "running" /\ steps[r][i].attempt = a
      /\ RunInv(r)
  BY DEF IInv, TypeOK, OwnedRunning
<1>2. steps[r][i].status \in AtHand
  BY <1>1 DEF AtHand
<1>3. Created(r) /\ Shape(steps[r])
  BY <1>1 DEF RunInv
<1> QED BY <1>1, <1>2, <1>3, AtHandDepsOK DEF RunInv

\* _refresh_pipeline touches one run, and gives it a status.
LEMMA RefreshedOne ==
    ASSUME IInv, NEW r \in Runs, NEW all, pipelines' = Refreshed({r}, all)
    PROVE  /\ pipelines' \in [Runs -> Pipeline]
           /\ \A q \in Runs : q # r => pipelines'[q] = pipelines[q]
           /\ pipelines'[r].status # "absent"
<1>1. pipelines' \in [Runs -> Pipeline]
  BY RefreshedType DEF IInv
<1>2. \A q \in Runs : q # r => pipelines'[q] = pipelines[q]
  BY DEF Refreshed
<1>3. pipelines'[r].status = DerivedStatus(StatusesOf(all[r]))
  BY DEF Refreshed, IInv, TypeOK, Pipeline
<1> QED BY <1>1, <1>2, <1>3, DerivedStatusType DEF PipelineStatus

\* create: the new rows are those of a run that has not started.
LEMMA CreateInv ==
    ASSUME IInv, NEW r \in Runs, Create(r)
    PROVE  IInv'
<1> DEFINE rows == [i \in Steps |-> BlankRow(FirstStatus(i))]
<1>1. ASSUME NEW i \in Steps
      PROVE  rows[i] \in Row /\ RowInv(rows[i], i) /\ rows[i].status # "absent"
  <2>1. MaxAttempts[i] \in Nat /\ FirstStatus(i) \in {"ready", "pending"}
    BY MaxAttemptsAssumption DEF Steps, FirstStatus
  <2> QED BY <2>1 DEF RowInv, BlankRow, Row, StepStatus
<1>2. rows \in [Steps -> Row] /\ Shape(rows)
  BY <1>1, CreateShape
<1>3. steps' = [steps EXCEPT ![r] = rows]
  BY DEF Create
<1>4. /\ pipelines' \in [Runs -> Pipeline]
      /\ \A q \in Runs : q # r => pipelines'[q] = pipelines[q]
      /\ pipelines'[r].status # "absent"
  BY DEF Create, IInv, TypeOK, Pipeline, PipelineStatus
<1> QED BY <1>1, <1>2, <1>3, <1>4, OneRun

\* save_pipeline touches no row.
LEMMA SavePipelineInv ==
    ASSUME IInv, NEW r \in Runs, NEW st \in PipelineStatus,
           SavePipeline(r, [status |-> st, nonce |-> TRUE])
    PROVE  IInv'
<1>1. /\ steps' = steps
      /\ pipelines' \in [Runs -> Pipeline]
      /\ \A q \in Runs : Created(q)' <=> Created(q)
  BY DEF SavePipeline, IInv, TypeOK, Pipeline, PipelineStatus, Created
<1> QED BY <1>1 DEF IInv, TypeOK, RunInv

\* retry_pipeline: the run starts over from its first unfinished step.
LEMMA RetryPipelineInv ==
    ASSUME IInv, NEW r \in Runs, RetryPipeline(r)
    PROVE  IInv'
<1> DEFINE mid == [i \in Steps |-> Restarted(steps[r][i], i)]
           rows == Promoted(mid)
<1>1. /\ steps[r] \in [Steps -> Row] /\ RunInv(r) /\ Created(r)
      /\ \A i \in Steps : steps[r][i].status # "running"
  BY DEF IInv, TypeOK, RetryPipeline, CanRetry, Created
<1>2. /\ pipelines' \in [Runs -> Pipeline]
      /\ \A q \in Runs : q # r => pipelines'[q] = pipelines[q]
      /\ pipelines'[r].status # "absent"
  BY DEF RetryPipeline, IInv, TypeOK, Pipeline, PipelineStatus
<1>3. Shape(rows) /\ \A i \in Steps : mid[i].status \in OK \cup {"ready", "pending"}
  BY <1>1, RetryShape DEF RunInv
<1>4. mid \in [Steps -> Row]
  BY <1>1, RestartedType
<1>5. \A i \in Steps : RowInv(mid[i], i)
  BY <1>1, RestartedRowInv DEF RunInv
<1>6. steps' = [steps EXCEPT ![r] = rows]
  BY <1>1 DEF RetryPipeline, IInv, TypeOK
<1> HIDE DEF mid
<1>7. \A i \in Steps : RowInv(rows[i], i) /\ rows[i].status # "absent"
  BY <1>3, <1>4, <1>5, PromotedRowInv, PromotedStatus DEF OK
<1>8. rows \in [Steps -> Row]
  BY <1>4, PromotedType
<1> QED BY <1>2, <1>3, <1>6, <1>7, <1>8, OneRun

\* claim_ready_step: the step at hand gets an owner, a lease and one more attempt.
LEMMA ClaimReadyStepInv ==
    ASSUME IInv, NEW r \in Runs, NEW i \in Steps, NEW w \in Workers, NEW d \in Lags,
           ClaimReadyStep(r, i, w, d)
    PROVE  IInv'
<1> DEFINE x == ClaimedRow(steps[r][i], w, d)
<1>1. /\ steps[r][i] \in Row /\ RunInv(r)
      /\ steps[r][i].status \in {"ready", "retrying"}
  BY DEF IInv, TypeOK, ClaimReadyStep, Claimable
<1>2. x \in Row
  <2>1. steps[r][i].attempt + 1 \in Nat /\ Lease - d \in (-(MaxWait + 1)..Lease)
    BY <1>1, TimeAssumption DEF Row, Lags
  <2> QED BY <1>1, <2>1 DEF ClaimedRow, Row, StepStatus
<1>3. RowInv(x, i)
  BY <1>1, ClaimedRowInv DEF RunInv
<1>4. x.status \in AtHand /\ steps[r][i].status \in AtHand
  BY <1>1 DEF ClaimedRow, Row, AtHand
<1>5. steps' = [steps EXCEPT ![r][i] = x]
  BY DEF ClaimReadyStep
<1>6. /\ pipelines' \in [Runs -> Pipeline]
      /\ \A q \in Runs : q # r => pipelines'[q] = pipelines[q]
      /\ pipelines'[r].status # "absent"
  BY DEF ClaimReadyStep, IInv, TypeOK, Pipeline, PipelineStatus
<1> QED BY <1>2, <1>3, <1>4, <1>5, <1>6, OneRow

\* heartbeat_step and a plain prepare change neither a status nor a run.
LEMMA QuietCallInv ==
    ASSUME IInv, NEW r \in Runs, NEW i \in Steps, NEW w, NEW a, NEW d \in Lags,
           NEW x \in Row,
           \/ x = [steps[r][i] EXCEPT !.lease = Lease - d]
           \/ \E k \in Keys : x = [steps[r][i] EXCEPT !.key = k, !.error = Null],
           OwnedRunning(steps[r][i], w, a, d),
           steps' = [steps EXCEPT ![r][i] = x], pipelines' = pipelines
    PROVE  IInv'
<1>1. /\ steps[r][i] \in Row /\ RowInv(steps[r][i], i)
      /\ steps[r][i].status = "running" /\ steps[r][i].status \in AtHand /\ Created(r)
  BY OwnedFacts
<1>2. RowInv(x, i)
  BY <1>1, RunningRowInv
<1>3. x.status \in AtHand
  BY <1>1 DEF Row
<1>4. pipelines' \in [Runs -> Pipeline] /\ pipelines'[r].status # "absent"
  BY <1>1 DEF IInv, TypeOK, Created
<1> QED BY <1>1, <1>2, <1>3, <1>4, OneRow

\* heartbeat_step: the lease of a running step moves.
LEMMA HeartbeatStepInv ==
    ASSUME IInv, NEW r \in Runs, NEW i \in Steps, NEW w \in Workers, NEW a, NEW d \in Lags,
           HeartbeatStep(r, i, w, a, d)
    PROVE  IInv'
<1> DEFINE x == [steps[r][i] EXCEPT !.lease = Lease - d]
<1>1. x \in Row
  BY RowTypes DEF IInv, TypeOK
<1>2. steps' = [steps EXCEPT ![r][i] = x]
  BY DEF HeartbeatStep
<1> QED BY <1>1, <1>2, QuietCallInv DEF HeartbeatStep

\* prepare_claimed_step: a running step gets its key.
LEMMA PrepareClaimedStepInv ==
    ASSUME IInv, NEW r \in Runs, NEW i \in Steps, NEW w \in Workers, NEW a, NEW d \in Lags,
           NEW k \in Keys, PrepareClaimedStep(r, i, w, a, k, d)
    PROVE  IInv'
<1> DEFINE x == [steps[r][i] EXCEPT !.key = k, !.error = Null]
<1>1. x \in Row
  BY RowTypes DEF IInv, TypeOK
<1>2. steps' = [steps EXCEPT ![r][i] = x]
  BY DEF PrepareClaimedStep, IInv, TypeOK
<1> QED BY <1>1, <1>2, QuietCallInv DEF PrepareClaimedStep

\* Refusing and failing a step: the running step stays at hand.
LEMMA EndedCallInv ==
    ASSUME IInv, NEW r \in Runs, NEW i \in Steps, NEW w, NEW a, NEW d, NEW x \in Row,
           OwnedRunning(steps[r][i], w, a, d),
           x.status \in AtHand, RowInv(x, i),
           steps' = [steps EXCEPT ![r][i] = x], pipelines' = Refreshed({r}, steps')
    PROVE  IInv'
<1>1. steps[r][i].status \in AtHand
  BY OwnedFacts
<1>2. /\ pipelines' \in [Runs -> Pipeline]
      /\ \A q \in Runs : q # r => pipelines'[q] = pipelines[q]
      /\ pipelines'[r].status # "absent"
  BY RefreshedOne
<1> QED BY <1>1, <1>2, OneRow

\* prepare_claimed_step, giving a step back: it loses its owner and its lease.
LEMMA RefuseClaimedStepInv ==
    ASSUME IInv, NEW r \in Runs, NEW i \in Steps, NEW w \in Workers, NEW a, NEW d \in Lags,
           NEW st \in {"blocked", "pending"},
           st = "pending" => ~DepsOK(steps[r], i),
           RefuseClaimedStep(r, i, w, a, st, d)
    PROVE  IInv'
<1> DEFINE x == GivenBack(steps[r][i], "blocked")
<1>1. OwnedRunning(steps[r][i], w, a, d)
  BY DEF RefuseClaimedStep
<1>2. /\ steps[r][i] \in Row /\ RowInv(steps[r][i], i)
      /\ steps[r][i].status = "running" /\ DepsOK(steps[r], i)
  BY <1>1, OwnedFacts
<1>3. st = "blocked"
  BY <1>2
<1>4. x \in Row /\ RowInv(x, i)
  BY <1>2, RowTypes, RunningRowInv
<1>5. x.status \in AtHand
  BY <1>2 DEF GivenBack, Row, AtHand
<1>6. steps' = [steps EXCEPT ![r][i] = x] /\ pipelines' = Refreshed({r}, steps')
  BY <1>3 DEF RefuseClaimedStep
<1> QED BY <1>1, <1>4, <1>5, <1>6, EndedCallInv

\* A failed attempt leaves the step at hand, with or without attempts left.
LEMMA FailedRowFacts ==
    ASSUME NEW row \in Row, NEW i \in Steps, NEW d \in Lags,
           RowInv(row, i), row.status = "running"
    PROVE  LET x == FailedRow(row, row.attempt < MaxAttempts[i], d)
           IN  x \in Row /\ RowInv(x, i) /\ x.status \in AtHand
<1>1. RowInv(FailedRow(row, row.attempt < MaxAttempts[i], d), i)
  BY RunningRowInv
<1>2. FailedRow(row, row.attempt < MaxAttempts[i], d) \in Row
  <2>1. RetryDelay - d \in (-MaxWait..RetryDelay)
    BY TimeAssumption DEF Lags
  <2> QED BY <2>1 DEF FailedRow, Row, StepStatus, Errors
<1>3. FailedRow(row, row.attempt < MaxAttempts[i], d).status \in AtHand
  BY DEF FailedRow, Row, AtHand
<1> QED BY <1>1, <1>2, <1>3

\* fail_or_retry_step: an attempt is over, and maybe it was the last.
LEMMA FailOrRetryStepInv ==
    ASSUME IInv, NEW r \in Runs, NEW i \in Steps, NEW w \in Workers, NEW a, NEW d \in Lags
    PROVE  FailOrRetryStep(r, i, w, a, a < MaxAttempts[i], d) => IInv'
<1>1. OwnedRunning(steps[r][i], w, a, d) =>
         /\ steps[r][i] \in Row /\ RowInv(steps[r][i], i)
         /\ steps[r][i].status = "running" /\ steps[r][i].attempt = a
  BY DEF OwnedRunning, IInv, TypeOK, RunInv
<1> DEFINE x == FailedRow(steps[r][i], steps[r][i].attempt < MaxAttempts[i], d)
<1>2. OwnedRunning(steps[r][i], w, a, d) => x \in Row /\ RowInv(x, i) /\ x.status \in AtHand
  BY <1>1, FailedRowFacts
<1>3. FailOrRetryStep(r, i, w, a, a < MaxAttempts[i], d) =>
         /\ OwnedRunning(steps[r][i], w, a, d)
         /\ steps' = [steps EXCEPT ![r][i] = x] /\ pipelines' = Refreshed({r}, steps')
  BY <1>1 DEF FailOrRetryStep
<1> HIDE DEF x
<1> QED BY <1>2, <1>3, EndedCallInv

\* finish_step: the step at hand is finished and the next one is promoted.
LEMMA FinishStepInv ==
    ASSUME IInv, NEW r \in Runs, NEW i \in Steps, NEW w \in Workers, NEW a, NEW d \in Lags,
           NEW k \in Keys, NEW st \in OK, FinishStep(r, i, w, a, st, k, d)
    PROVE  IInv'
<1> DEFINE x == FinishedRow(steps[r][i], st, k)
           mid == [steps[r] EXCEPT ![i] = x]
           rows == Promoted(mid)
<1>1. /\ steps[r] \in [Steps -> Row] /\ steps[r][i] \in Row /\ RowInv(steps[r][i], i)
      /\ steps[r][i].status = "running" /\ Created(r) /\ Shape(steps[r]) /\ RunInv(r)
  BY OwnedFacts DEF FinishStep, IInv
<1>2. x \in Row /\ RowInv(x, i)
  BY <1>1, RowTypes, RunningRowInv
<1>3. x.status \in OK
  BY <1>1 DEF FinishedRow, Row
<1>4. steps' = [steps EXCEPT ![r] = rows] /\ pipelines' = Refreshed({r}, steps')
  BY <1>1 DEF FinishStep
<1>5. /\ pipelines' \in [Runs -> Pipeline]
      /\ \A q \in Runs : q # r => pipelines'[q] = pipelines[q]
      /\ pipelines'[r].status # "absent"
  BY <1>4, RefreshedOne
<1> HIDE DEF x
<1>6. Shape(rows)
  BY <1>1, <1>2, <1>3, FinishShape
<1>7. /\ mid \in [Steps -> Row]
      /\ \A j \in Steps : mid[j] = IF j = i THEN x ELSE steps[r][j]
  BY <1>1, <1>2
<1> HIDE DEF mid
<1>8. \A j \in Steps : /\ RowInv(mid[j], j)
                       /\ mid[j].status # "blocked" /\ mid[j].status # "absent"
  <2> SUFFICES ASSUME NEW j \in Steps
               PROVE  /\ RowInv(mid[j], j)
                      /\ mid[j].status # "blocked" /\ mid[j].status # "absent"
    OBVIOUS
  <2>1. CASE j = i
    BY <2>1, <1>2, <1>3, <1>7 DEF OK
  <2>2. CASE j # i
    <3>1. j < i \/ i < j
      BY <2>2, NStepsAssumption DEF Steps
    <3>2. steps[r][j].status \in OK \/ steps[r][j].status = "pending"
      BY <1>1, <3>1 DEF Shape, OK
    <3> QED BY <1>1, <1>7, <2>2, <3>2 DEF RunInv, OK
  <2> QED BY <2>1, <2>2
<1>9. \A j \in Steps : RowInv(rows[j], j) /\ rows[j].status # "absent"
  BY <1>7, <1>8, PromotedRowInv, PromotedStatus
<1>10. rows \in [Steps -> Row]
  BY <1>7, PromotedType
<1> QED BY <1>4, <1>5, <1>6, <1>9, <1>10, OneRun

\* recover_expired_leases: in every run, the expired steps lose their owners.
LEMMA RecoverExpiredLeasesInv ==
    ASSUME IInv, NEW d \in Lags, RecoverExpiredLeases(d)
    PROVE  IInv'
<1>1. ASSUME NEW r \in Runs, NEW i \in Steps
      PROVE  /\ steps[r][i] \in Row /\ RowInv(steps[r][i], i)
             /\ steps'[r][i] = IF Expired(steps[r][i], d) THEN Recovered(steps[r][i], i, d)
                                                          ELSE steps[r][i]
  BY DEF IInv, TypeOK, RunInv, RecoverExpiredLeases
<1>2. ASSUME NEW r \in Runs, NEW i \in Steps
      PROVE  /\ steps'[r][i] \in Row
             /\ RowInv(steps'[r][i], i)
             /\ \/ steps'[r][i].status = steps[r][i].status
                \/ steps'[r][i].status \in AtHand /\ steps[r][i].status \in AtHand
  <2>1. CASE Expired(steps[r][i], d)
    <3>1. steps[r][i].status = "running"
      BY <2>1 DEF Expired
    <3>2. Recovered(steps[r][i], i, d).status \in AtHand
      BY <1>1 DEF Recovered, Row, AtHand
    <3> QED BY <1>1, <2>1, <3>1, <3>2, RowTypes, RunningRowInv DEF AtHand
  <2>2. CASE ~Expired(steps[r][i], d)
    BY <1>1, <2>2
  <2> QED BY <2>1, <2>2
<1>3. pipelines' \in [Runs -> Pipeline]
  BY RefreshedType DEF IInv, RecoverExpiredLeases
<1>4. steps' \in [Runs -> [Steps -> Row]]
  BY <1>2 DEF RecoverExpiredLeases
<1>5. ASSUME NEW r \in Runs PROVE Created(r)' <=> Created(r)
  <2>1. CASE r \in ExpiredRuns(d)
    <3>1. PICK i \in Steps : steps[r][i].status = "running"
      BY <2>1 DEF ExpiredRuns, Expired
    <3>2. Created(r)
      BY <3>1 DEF IInv, RunInv
    <3>3. pipelines'[r].status = DerivedStatus(StatusesOf(steps'[r]))
      BY <2>1 DEF RecoverExpiredLeases, Refreshed, IInv, TypeOK, Pipeline
    <3> QED BY <3>2, <3>3, DerivedStatusType DEF Created, PipelineStatus
  <2>2. CASE r \notin ExpiredRuns(d)
    BY <2>2 DEF RecoverExpiredLeases, Refreshed, Created
  <2> QED BY <2>1, <2>2
<1>6. ASSUME NEW r \in Runs PROVE RunInv(r)'
  <2>1. \A i \in Steps : RowInv(steps'[r][i], i)
    BY <1>2
  <2>2. \A i \in Steps : steps'[r][i].status # "absent" <=> steps[r][i].status # "absent"
    BY <1>2, StatusClasses
  <2>3. Created(r) => Shape(steps[r])
    BY DEF IInv, RunInv
  <2>4. Created(r) => Shape(steps'[r])
    BY <1>2, <2>3, SameShape
  <2> QED BY <1>5, <2>1, <2>2, <2>4 DEF IInv, RunInv
<1> QED BY <1>3, <1>4, <1>6 DEF IInv, TypeOK

\* Time passes for all rows at once.
LEMMA TickInv ==
    ASSUME IInv, Tick
    PROVE  IInv'
<1>1. ASSUME NEW r \in Runs, NEW i \in Steps
      PROVE  /\ steps'[r][i] \in Row /\ RowInv(steps'[r][i], i)
             /\ steps'[r][i].status = steps[r][i].status
  <2>1. steps[r][i] \in Row /\ RowInv(steps[r][i], i)
    BY DEF IInv, TypeOK, RunInv
  <2>2. steps'[r][i] = [steps[r][i] EXCEPT !.lease = Later(@, -(MaxWait + 1)),
                                           !.retryIn = Later(@, -MaxWait)]
    BY DEF Tick
  <2>3. 0 \in Lags
    BY TimeAssumption DEF Lags
  <2>4. steps'[r][i] \in Row
    BY <2>1, <2>2, <2>3, RowTypes
  <2>5. RowInv(steps'[r][i], i)
    BY <2>1, <2>2, TickRowInv
  <2> QED BY <2>1, <2>2, <2>4, <2>5 DEF Row
<1>2. pipelines' = pipelines /\ steps' \in [Runs -> [Steps -> Row]]
  BY <1>1 DEF Tick
<1>3. ASSUME NEW r \in Runs PROVE RunInv(r)'
  <2>1. Created(r)' <=> Created(r)
    BY <1>2 DEF Created
  <2>2. Created(r) => Shape(steps[r])
    BY DEF IInv, RunInv
  <2>3. Created(r) => Shape(steps'[r])
    BY <1>1, <2>2, SameShape
  <2> QED BY <1>1, <2>1, <2>3 DEF IInv, RunInv
<1> QED BY <1>2, <1>3 DEF IInv, TypeOK

\* Each call of a worker that is not refused keeps the invariant.
LEMMA WorkerCallInv ==
    ASSUME IInv, NEW r \in Runs, NEW i \in Steps, NEW w \in Workers, NEW a, NEW d \in Lags,
           WorkerCall(r, i, w, a, d)
    PROVE  IInv'
<1>1. CASE HeartbeatStep(r, i, w, a, d)
  BY <1>1, HeartbeatStepInv
<1>2. CASE \E k \in Keys : PrepareClaimedStep(r, i, w, a, k, d)
  BY <1>2, PrepareClaimedStepInv
<1>3. CASE \E st \in {"blocked", "pending"} :
              /\ st = "pending" => ~DepsOK(steps[r], i)
              /\ RefuseClaimedStep(r, i, w, a, st, d)
  BY <1>3, RefuseClaimedStepInv
<1>4. CASE \E st \in OK, k \in Keys : FinishStep(r, i, w, a, st, k, d)
  BY <1>4, FinishStepInv
<1>5. CASE FailOrRetryStep(r, i, w, a, a < MaxAttempts[i], d)
  BY <1>5, FailOrRetryStepInv
<1> QED BY <1>1, <1>2, <1>3, <1>4, <1>5 DEF WorkerCall

\* The invariant is inductive.
LEMMA NextInv == IInv /\ [Next]_vars => IInv'
<1> SUFFICES ASSUME IInv, [Next]_vars PROVE IInv'
  OBVIOUS
<1>1. CASE \E r \in Runs : Create(r)
  BY <1>1, CreateInv
<1>2. CASE \E r \in Runs : RetryPipeline(r)
  BY <1>2, RetryPipelineInv
<1>3. CASE \E r \in Runs, st \in PipelineStatus :
              SavePipeline(r, [status |-> st, nonce |-> TRUE])
  BY <1>3, SavePipelineInv
<1>4. CASE \E r \in Runs, i \in Steps, w \in Workers, d \in Lags :
              ClaimReadyStep(r, i, w, d)
  BY <1>4, ClaimReadyStepInv
<1>5. CASE \E r \in Runs, i \in Steps, w \in Workers, d \in Lags :
              \E a \in 1..MaxAttempts[i] : WorkerCall(r, i, w, a, d)
  BY <1>5, WorkerCallInv
<1>6. CASE \E d \in Lags : RecoverExpiredLeases(d)
  BY <1>6, RecoverExpiredLeasesInv
<1>7. CASE Tick
  BY <1>7, TickInv
<1>8. CASE UNCHANGED vars
  BY <1>8 DEF vars, IInv, TypeOK, RunInv, Created
<1> QED BY <1>1, <1>2, <1>3, <1>4, <1>5, <1>6, <1>7, <1>8 DEF Next

\* The invariant of the queue: rows are consistent, and the steps of a run finish
\* in order with one step at hand.
THEOREM Invariance == Spec => []IInv
  BY InitInv, NextInv, PTL DEF Spec

-----------------------------------------------------------------------------
(* The theorems about the rows. *)

\* The tables are well typed: timestamps stay within what a stale "now" can
\* tell apart, and a row never gets a status or an error the code does not know.
THEOREM TypeCorrect == Spec => []TypeOK
<1>1. IInv => TypeOK
  BY DEF IInv
<1> QED BY <1>1, Invariance, PTL

\* Steps start in order and none is stranded: a step is pending exactly while
\* its dependencies are unfinished.
THEOREM PendingCorrect == Spec => []PendingIffWaiting
<1>1. ASSUME IInv, NEW r \in Runs, NEW i \in Steps, Created(r)
      PROVE  steps[r][i].status = "pending" <=> ~DepsOK(steps[r], i)
  <2>1. Shape(steps[r])
    BY <1>1 DEF IInv, RunInv
  <2>2. ASSUME ~DepsOK(steps[r], i) PROVE steps[r][i].status = "pending"
    <3>1. i # 1 /\ steps[r][i - 1].status \notin OK
      BY <2>2, DepsOKChain
    <3>2. i - 1 \in Steps /\ i - 1 < i
      BY <3>1, NStepsAssumption DEF Steps
    <3> QED BY <2>1, <3>1, <3>2 DEF Shape
  <2> QED BY <2>1, <2>2 DEF Shape
<1>2. IInv => PendingIffWaiting
  BY <1>1 DEF PendingIffWaiting
<1> QED BY <1>2, Invariance, PTL

\* Exactly the running steps have an owner and a lease, so every one of them
\* can be recovered and no leftover owner can write.
THEOREM LeaseCorrect == Spec => []LeaseIffRunning
<1>1. IInv => LeaseIffRunning
  BY DEF IInv, RunInv, RowInv, LeaseIffRunning
<1> QED BY <1>1, Invariance, PTL

\* No interleaving of claims, failures, recoveries and retries gives a step more
\* than max_attempts attempts, or gives one up early.
THEOREM AttemptsCorrect == Spec => []AttemptsBounded
<1>1. IInv => AttemptsBounded
  BY DEF IInv, RunInv, RowInv, AttemptsBounded
<1> QED BY <1>1, Invariance, PTL

-----------------------------------------------------------------------------
(* The status of a run. *)

\* What PipelineAgrees says of one run.
Agrees(r) ==
    LET st == StatusesOf(steps[r]) IN
    Created(r) =>
        /\ pipelines[r].status = "queued" => DerivedStatus(st) = "running"
        /\ pipelines[r].status # "queued" => pipelines[r].status = DerivedStatus(st)

\* A run with a step that is ready, retrying or running is itself running: the
\* other steps are finished or pending.
LEMMA ActiveRun ==
    ASSUME NEW rows, Shape(rows), NEW i \in Steps,
           rows[i].status \in {"ready", "retrying", "running"}
    PROVE  /\ DerivedStatus(StatusesOf(rows)) = "running"
           /\ rows[NSteps].status \notin OK
<1> USE NStepsAssumption DEF Steps
<1>1. rows[i].status \notin OK /\ rows[i].status # "pending"
  BY DEF OK
<1>2. \A j \in Steps : j < i => rows[j].status \in OK
  BY <1>1 DEF Shape
<1>3. \A j \in Steps : i < j => rows[j].status = "pending"
  BY <1>1 DEF Shape
<1>4. rows[NSteps].status \notin OK
  BY <1>1, <1>3 DEF OK
<1>5. \A j \in Steps : rows[j].status # "failed" /\ rows[j].status # "blocked"
  BY <1>2, <1>3 DEF OK
<1> QED BY <1>4, <1>5 DEF DerivedStatus, StatusesOf

\* _refresh_pipeline makes the runs it touches agree.
LEMMA RefreshedAgrees ==
    ASSUME IInv, NEW S, NEW q \in Runs, q \in S, pipelines' = Refreshed(S, steps')
    PROVE  Agrees(q)'
<1>1. pipelines'[q].status = DerivedStatus(StatusesOf(steps'[q]))
  BY DEF Refreshed, IInv, TypeOK, Pipeline
<1>2. DerivedStatus(StatusesOf(steps'[q])) # "queued"
  BY DEF DerivedStatus
<1> QED BY <1>1, <1>2 DEF Agrees

\* A run whose document and statuses stay as they are goes on agreeing.
LEMMA SameAgrees ==
    ASSUME NEW q \in Runs, Agrees(q), pipelines'[q] = pipelines[q],
           \A i \in Steps : steps'[q][i].status = steps[q][i].status
    PROVE  Agrees(q)'
<1>1. StatusesOf(steps'[q]) = StatusesOf(steps[q])
  BY DEF StatusesOf
<1> QED BY <1>1 DEF Agrees, Created

\* A created run is queued, and none of its steps has settled.
LEMMA CreateAgrees ==
    ASSUME IInv, IInv', NEW r \in Runs, Create(r)
    PROVE  Agrees(r)'
<1>1. 1 \in Steps /\ FirstStatus(1) = "ready"
  BY NStepsAssumption, FirstStatusChain DEF Steps
<1>2. /\ steps'[r][1].status = "ready"
      /\ pipelines'[r].status = "queued"
  BY <1>1 DEF Create, IInv, TypeOK, BlankRow
<1>3. Shape(steps'[r])
  BY <1>2 DEF IInv, RunInv, Created
<1>4. DerivedStatus(StatusesOf(steps'[r])) = "running"
  BY <1>1, <1>2, <1>3, ActiveRun
<1> QED BY <1>2, <1>4 DEF Agrees

\* claim_ready_step sets the status outright, and it is the derived one.
LEMMA ClaimReadyStepAgrees ==
    ASSUME IInv, IInv', NEW r \in Runs, NEW i \in Steps, NEW w \in Workers, NEW d \in Lags,
           ClaimReadyStep(r, i, w, d)
    PROVE  Agrees(r)'
<1>1. /\ steps'[r][i].status = "running"
      /\ pipelines'[r].status = "running"
  BY DEF ClaimReadyStep, ClaimedRow, IInv, TypeOK, Row, Pipeline
<1>2. Shape(steps'[r])
  BY <1>1 DEF IInv, RunInv, Created
<1>3. DerivedStatus(StatusesOf(steps'[r])) = "running"
  BY <1>1, <1>2, ActiveRun
<1> QED BY <1>1, <1>3 DEF Agrees

\* A retried run is waiting: its last step was not finished, and the step at
\* hand is ready again.
LEMMA RetryPipelineAgrees ==
    ASSUME IInv, IInv', NEW r \in Runs, Agrees(r), RetryPipeline(r)
    PROVE  Agrees(r)'
<1> DEFINE mid == [i \in Steps |-> Restarted(steps[r][i], i)]
<1>1. /\ pipelines[r].status \in {"failed", "blocked"} /\ Created(r)
      /\ steps[r] \in [Steps -> Row] /\ NSteps \in Steps
      /\ pipelines'[r].status = "queued"
      /\ steps'[r] = Promoted(mid)
  BY NStepsAssumption DEF RetryPipeline, CanRetry, Created, IInv, TypeOK, Pipeline, Steps
<1>2. Shape(steps[r]) /\ Shape(steps'[r])
  BY <1>1 DEF IInv, RunInv, Created
<1>3. DerivedStatus(StatusesOf(steps[r])) # "succeeded"
  BY <1>1 DEF Agrees
<1>4. steps[r][NSteps].status \notin OK
  BY <1>1, <1>3 DEF DerivedStatus, StatusesOf
<1>5. \A i \in Steps : /\ mid[i] \in Row
                       /\ mid[i].status \in OK \cup {"ready", "pending"}
  BY <1>1, <1>2, RetryShape, RestartedType
<1>6. mid[NSteps].status \notin OK
  <2>1. mid[NSteps].status = FirstStatus(NSteps)
    BY <1>1, <1>4 DEF Restarted, Row
  <2> QED BY <1>1, <2>1, FirstStatusChain DEF OK
<1>7. \A i \in Steps : /\ steps'[r][i].status = "ready" \/ steps'[r][i].status = mid[i].status
                       /\ steps'[r][i].status \in OK <=> mid[i].status \in OK
  <2>1. mid \in [Steps -> Row]
    BY <1>5 DEF mid
  <2> HIDE DEF mid
  <2> QED BY <1>1, <2>1, PromotedStatus
<1> HIDE DEF mid
<1>8. steps'[r][NSteps].status \notin OK
  BY <1>1, <1>6, <1>7
<1>9. PICK h \in Steps : steps'[r][h].status = "ready"
  BY <1>2, <1>5, <1>7, <1>8, StatusClasses DEF Shape, AtHand
<1>10. DerivedStatus(StatusesOf(steps'[r])) = "running"
  BY <1>2, <1>9, ActiveRun
<1> QED BY <1>1, <1>10 DEF Agrees

\* The calls of a worker either refresh the run or leave its statuses alone.
LEMMA WorkerCallAgrees ==
    ASSUME IInv, NEW r \in Runs, NEW i \in Steps, NEW w \in Workers, NEW a, NEW d \in Lags,
           NEW q \in Runs, Agrees(q), WorkerCall(r, i, w, a, d)
    PROVE  Agrees(q)'
<1> DEFINE Quiet == /\ pipelines' = pipelines
                    /\ \A j \in Steps : steps'[q][j].status = steps[q][j].status
           Loud  == /\ pipelines' = Refreshed({r}, steps')
                    /\ q # r => steps'[q] = steps[q]
<1>1. CASE HeartbeatStep(r, i, w, a, d) \/ \E k \in Keys : PrepareClaimedStep(r, i, w, a, k, d)
  <2>1. PICK x : /\ x.status = steps[r][i].status
                 /\ steps' = [steps EXCEPT ![r][i] = x]
    <3>1. steps[r][i] \in Row /\ steps[r] \in [Steps -> Row]
      BY DEF IInv, TypeOK
    <3>2. CASE HeartbeatStep(r, i, w, a, d)
      <4>1. [steps[r][i] EXCEPT !.lease = Lease - d].status = steps[r][i].status
        BY <3>1 DEF Row
      <4> QED BY <3>2, <4>1 DEF HeartbeatStep
    <3>3. CASE \E k \in Keys : PrepareClaimedStep(r, i, w, a, k, d)
      <4>1. PICK k \in Keys : PrepareClaimedStep(r, i, w, a, k, d)
        BY <3>3
      <4>2. [steps[r][i] EXCEPT !.key = k, !.error = Null].status = steps[r][i].status
        BY <3>1 DEF Row
      <4>3. steps' = [steps EXCEPT ![r][i] = [steps[r][i] EXCEPT !.key = k, !.error = Null]]
        BY <4>1 DEF PrepareClaimedStep, IInv, TypeOK
      <4> QED BY <4>2, <4>3
    <3> QED BY <1>1, <3>2, <3>3
  <2>2. Quiet
    BY <1>1, <2>1 DEF HeartbeatStep, PrepareClaimedStep, IInv, TypeOK
  <2> QED BY <2>2, SameAgrees
<1>2. CASE \/ \E st \in {"blocked", "pending"} : RefuseClaimedStep(r, i, w, a, st, d)
           \/ \E st \in OK, k \in Keys : FinishStep(r, i, w, a, st, k, d)
           \/ FailOrRetryStep(r, i, w, a, a < MaxAttempts[i], d)
  <2>1. Loud
    BY <1>2 DEF RefuseClaimedStep, FinishStep, FailOrRetryStep, IInv, TypeOK
  <2>2. CASE q = r
    BY <2>1, <2>2, RefreshedAgrees
  <2>3. CASE q # r
    <3>1. pipelines'[q] = pipelines[q]
      BY <2>1, <2>3 DEF Refreshed
    <3> QED BY <2>1, <2>3, <3>1, SameAgrees
  <2> QED BY <2>2, <2>3
<1> QED BY <1>1, <1>2 DEF WorkerCall

\* recover_expired_leases refreshes the runs it touches.
LEMMA RecoverExpiredLeasesAgrees ==
    ASSUME IInv, NEW d \in Lags, NEW q \in Runs, Agrees(q), RecoverExpiredLeases(d)
    PROVE  Agrees(q)'
<1>1. CASE q \in ExpiredRuns(d)
  BY <1>1, RefreshedAgrees DEF RecoverExpiredLeases
<1>2. CASE q \notin ExpiredRuns(d)
  <2>1. pipelines'[q] = pipelines[q]
    BY <1>2 DEF RecoverExpiredLeases, Refreshed
  <2>2. \A i \in Steps : steps'[q][i] = steps[q][i]
    BY <1>2 DEF RecoverExpiredLeases, ExpiredRuns
  <2> QED BY <2>1, <2>2, SameAgrees
<1> QED BY <1>1, <1>2

\* Every step keeps the agreement of a run and its steps.
LEMMA AgreesNext ==
    IInv /\ IInv' /\ PipelineAgrees /\ [Next]_vars => PipelineAgrees'
<1> SUFFICES ASSUME IInv, IInv', [Next]_vars,
                    NEW q \in Runs, q \notin ForceRefresh, Agrees(q)
             PROVE  Agrees(q)'
  BY DEF PipelineAgrees, Agrees
<1>1. CASE \E r \in Runs : Create(r)
  <2>1. PICK r \in Runs : Create(r)
    BY <1>1
  <2>2. CASE q = r
    BY <2>1, <2>2, CreateAgrees
  <2>3. CASE q # r
    <3>1. pipelines'[q] = pipelines[q] /\ steps'[q] = steps[q]
      BY <2>1, <2>3 DEF Create, IInv, TypeOK
    <3> QED BY <3>1, SameAgrees
  <2> QED BY <2>2, <2>3
<1>2. CASE \E r \in Runs : RetryPipeline(r)
  <2>1. PICK r \in Runs : RetryPipeline(r)
    BY <1>2
  <2>2. CASE q = r
    BY <2>1, <2>2, RetryPipelineAgrees
  <2>3. CASE q # r
    <3>1. pipelines'[q] = pipelines[q] /\ steps'[q] = steps[q]
      BY <2>1, <2>3 DEF RetryPipeline, IInv, TypeOK
    <3> QED BY <3>1, SameAgrees
  <2> QED BY <2>2, <2>3
<1>3. CASE \E r \in ForceRefresh, st \in PipelineStatus :
              r \in Runs /\ SavePipeline(r, [status |-> st, nonce |-> TRUE])
  <2>1. pipelines'[q] = pipelines[q] /\ steps'[q] = steps[q]
    BY <1>3 DEF SavePipeline, IInv, TypeOK
  <2> QED BY <2>1, SameAgrees
<1>4. CASE \E r \in Runs, i \in Steps, w \in Workers, d \in Lags :
              ClaimReadyStep(r, i, w, d)
  <2>1. PICK r \in Runs, i \in Steps, w \in Workers, d \in Lags : ClaimReadyStep(r, i, w, d)
    BY <1>4
  <2>2. CASE q = r
    BY <2>1, <2>2, ClaimReadyStepAgrees
  <2>3. CASE q # r
    <3>1. pipelines'[q] = pipelines[q] /\ steps'[q] = steps[q]
      BY <2>1, <2>3 DEF ClaimReadyStep, IInv, TypeOK
    <3> QED BY <3>1, SameAgrees
  <2> QED BY <2>2, <2>3
<1>5. CASE \E r \in Runs, i \in Steps, w \in Workers, d \in Lags :
              \E a \in 1..MaxAttempts[i] : WorkerCall(r, i, w, a, d)
  BY <1>5, WorkerCallAgrees
<1>6. CASE \E d \in Lags : RecoverExpiredLeases(d)
  BY <1>6, RecoverExpiredLeasesAgrees
<1>7. CASE Tick
  <2>1. ASSUME NEW i \in Steps PROVE steps'[q][i].status = steps[q][i].status
    <3>1. steps[q][i] \in Row
      BY DEF IInv, TypeOK
    <3> QED BY <1>7, <3>1 DEF Tick, Row
  <2> QED BY <1>7, <2>1, SameAgrees DEF Tick
<1>8. CASE UNCHANGED vars
  BY <1>8, SameAgrees DEF vars
<1> QED BY <1>1, <1>2, <1>3, <1>4, <1>5, <1>6, <1>7, <1>8 DEF Next

\* The status of a run that was not created with force_refresh always says
\* what its steps say, although claim and retry set it without asking them.
THEOREM PipelineCorrect == Spec => []PipelineAgrees
<1>1. Init => PipelineAgrees
  BY DEF Init, PipelineAgrees, Created
<1> QED BY <1>1, Invariance, AgreesNext, PTL DEF Spec

\* An unfinished run can go on, by a worker or by the user, and never by both.
THEOREM NeverStuckCorrect == Spec => []NeverStuck
<1>1. ASSUME IInv, PipelineAgrees, NEW r \in Runs, r \notin ForceRefresh,
             Created(r), pipelines[r].status # "succeeded"
      PROVE  CanRetry(r) <=> ~\E i \in Steps :
                /\ steps[r][i].status \in {"ready", "retrying", "running"}
                /\ DepsOK(steps[r], i)
  <2> DEFINE st == StatusesOf(steps[r])
  <2> USE NStepsAssumption DEF Steps
  <2>1. Shape(steps[r]) /\ Agrees(r)
    BY <1>1 DEF IInv, RunInv, PipelineAgrees, Agrees
  <2>2. DerivedStatus(st) # "succeeded"
    BY <1>1, <2>1 DEF Agrees
  <2>3. steps[r][NSteps].status \notin OK
    BY <2>2 DEF DerivedStatus, StatusesOf
  <2>4. PICK h \in Steps : steps[r][h].status \in AtHand
    BY <2>1, <2>3 DEF Shape
  <2>5. CASE steps[r][h].status \in {"ready", "retrying", "running"}
    <3>1. DerivedStatus(st) = "running"
      BY <2>1, <2>5, ActiveRun
    <3>2. ~CanRetry(r)
      BY <1>1, <2>1, <3>1 DEF Agrees, CanRetry
    <3> QED BY <2>1, <2>4, <2>5, <3>2, AtHandDepsOK
  <2>6. CASE steps[r][h].status \in {"failed", "blocked"}
    <3>1. \A j \in Steps : j # h => steps[r][j].status \in OK \cup {"pending"}
      BY <2>1, <2>6 DEF Shape, OK
    <3>2. \A j \in Steps : steps[r][j].status \notin {"ready", "retrying", "running"}
      BY <2>6, <3>1 DEF OK
    <3>3. DerivedStatus(st) \in {"failed", "blocked"}
      BY <2>3, <2>6 DEF DerivedStatus, StatusesOf
    <3>4. CanRetry(r)
      BY <1>1, <2>1, <3>2, <3>3 DEF Agrees, CanRetry
    <3> QED BY <3>2, <3>4
  <2> QED BY <2>4, <2>5, <2>6 DEF AtHand
<1>2. IInv /\ PipelineAgrees => NeverStuck
  BY <1>1 DEF NeverStuck
<1> QED BY <1>2, Invariance, PipelineCorrect, PTL

-----------------------------------------------------------------------------
(* What a step of the store may never do. *)

\* What a step of the store makes of the row of step j of run q: the row stays
\* as it is, apart from the times; or it was not finished, and if it was running
\* it was its owner who ended it or its lease that was over.
RowStep(q, j) ==
    LET old == steps[q][j]
        new == steps'[q][j]
    IN  \/ new.status = old.status /\ new.out = old.out
        \/ /\ old.status \notin OK
           /\ old.status = "running" /\ new.status # "running" =>
                 IF new.error = "LEASE_EXPIRED" THEN old.lease < 0
                                                ELSE old.lease >= -MaxWait

\* Outside the row a worker writes, the rows stay or are promoted.
LEMMA OwnRow ==
    ASSUME IInv, NEW q \in Runs, NEW j \in Steps, NEW r \in Runs, NEW i \in Steps,
           NEW x, steps' = [steps EXCEPT ![r][i] = x], <<q, j>> # <<r, i>>
    PROVE  RowStep(q, j)
<1>1. steps'[q][j] = steps[q][j]
  BY DEF IInv, TypeOK
<1> QED BY <1>1 DEF RowStep

\* The owner ends a step within MaxWait of the end of its lease.
LEMMA OwnerLease ==
    ASSUME IInv, NEW r \in Runs, NEW i \in Steps, NEW w, NEW a, NEW d \in Lags,
           OwnedRunning(steps[r][i], w, a, d)
    PROVE  /\ steps[r][i].lease >= -MaxWait
           /\ steps[r][i].status \notin OK
           /\ steps[r][i] \in Row
<1>1. steps[r][i] \in Row
  BY DEF IInv, TypeOK
<1>2. steps[r][i].lease \in Int /\ steps[r][i].lease + d >= 0
  BY <1>1, TimeAssumption DEF OwnedRunning, Row
<1> QED BY <1>1, <1>2, TimeAssumption DEF OwnedRunning, Lags, OK

\* What a call of a worker may do to a row, finished, running or neither.
LEMMA WorkerCallRow ==
    ASSUME IInv, NEW q \in Runs, NEW j \in Steps,
           NEW r \in Runs, NEW i \in Steps, NEW w \in Workers, NEW a, NEW d \in Lags,
           WorkerCall(r, i, w, a, d)
    PROVE  RowStep(q, j)
<1>0. /\ OwnedRunning(steps[r][i], w, a, d)
      /\ steps[r] \in [Steps -> Row] /\ steps \in [Runs -> [Steps -> Row]]
  BY DEF WorkerCall, IInv, TypeOK
<1>1. ASSUME NEW x, steps' = [steps EXCEPT ![r][i] = x],
             \/ x.status = "running" /\ x.out = steps[r][i].out
             \/ x.error # "LEASE_EXPIRED"
      PROVE  RowStep(q, j)
  <2>1. CASE <<q, j>> = <<r, i>>
    <3>1. steps'[q][j] = x
      BY <1>0, <1>1, <2>1
    <3> QED BY <1>0, <1>1, <2>1, <3>1, OwnerLease DEF RowStep, OwnedRunning
  <2>2. CASE <<q, j>> # <<r, i>>
    BY <1>1, <2>2, OwnRow
  <2> QED BY <2>1, <2>2
<1>2. CASE HeartbeatStep(r, i, w, a, d)
  <2> DEFINE x == [steps[r][i] EXCEPT !.lease = Lease - d]
  <2>1. x.status = "running" /\ x.out = steps[r][i].out
    BY <1>0 DEF OwnedRunning, Row
  <2>2. steps' = [steps EXCEPT ![r][i] = x]
    BY <1>2 DEF HeartbeatStep
  <2> HIDE DEF x
  <2> QED BY <1>1, <2>1, <2>2
<1>3. CASE \E k \in Keys : PrepareClaimedStep(r, i, w, a, k, d)
  <2>1. PICK k \in Keys : PrepareClaimedStep(r, i, w, a, k, d)
    BY <1>3
  <2> DEFINE x == [steps[r][i] EXCEPT !.key = k, !.error = Null]
  <2>2. x.status = "running" /\ x.out = steps[r][i].out
    BY <1>0 DEF OwnedRunning, Row
  <2>3. steps' = [steps EXCEPT ![r][i] = x]
    BY <1>0, <2>1 DEF PrepareClaimedStep
  <2> HIDE DEF x
  <2> QED BY <1>1, <2>2, <2>3
<1>4. CASE \E st \in {"blocked", "pending"} : RefuseClaimedStep(r, i, w, a, st, d)
  <2>1. PICK st \in {"blocked", "pending"} : RefuseClaimedStep(r, i, w, a, st, d)
    BY <1>4
  <2> DEFINE x == GivenBack(steps[r][i], st)
  <2>2. x.error # "LEASE_EXPIRED"
    BY <1>0, NullAssumption DEF GivenBack, Row, Errors
  <2>3. steps' = [steps EXCEPT ![r][i] = x]
    BY <2>1 DEF RefuseClaimedStep
  <2> HIDE DEF x
  <2> QED BY <1>1, <2>2, <2>3
<1>5. CASE FailOrRetryStep(r, i, w, a, a < MaxAttempts[i], d)
  <2> DEFINE x == FailedRow(steps[r][i], a < MaxAttempts[i], d)
  <2>2. x.error # "LEASE_EXPIRED"
    BY <1>0 DEF FailedRow, Row
  <2>3. steps' = [steps EXCEPT ![r][i] = x]
    BY <1>5 DEF FailOrRetryStep
  <2> HIDE DEF x
  <2> QED BY <1>1, <2>2, <2>3
<1>6. CASE \E st \in OK, k \in Keys : FinishStep(r, i, w, a, st, k, d)
  <2>1. PICK st \in OK, k \in Keys : FinishStep(r, i, w, a, st, k, d)
    BY <1>6
  <2> DEFINE x == FinishedRow(steps[r][i], st, k)
             mid == [steps[r] EXCEPT ![i] = x]
  <2>2. x.error # "LEASE_EXPIRED" /\ x.status = st
    BY <1>0, NullAssumption DEF FinishedRow, Row, Errors
  <2>3. steps' = [steps EXCEPT ![r] = Promoted(mid)]
    BY <1>0, <2>1 DEF FinishStep
  <2> HIDE DEF x
  <2>4. CASE q # r
    BY <1>0, <2>3, <2>4 DEF RowStep
  <2>5. CASE q = r /\ j = i
    <3>1. Promoted(mid)[i] = x
      BY <1>0, <2>2 DEF Promoted, OK
    <3>2. steps'[q][j] = x
      BY <1>0, <2>3, <2>5, <3>1
    <3> QED BY <1>0, <2>2, <2>5, <3>2, OwnerLease DEF RowStep
  <2>6. CASE q = r /\ j # i
    <3>1. steps'[q][j] = Promoted(mid)[j] /\ mid[j] = steps[r][j]
      BY <1>0, <2>3, <2>6
    <3>2. CASE steps[r][j].status \in {"pending", "blocked"}
      BY <2>6, <3>2 DEF RowStep, OK
    <3>3. CASE steps[r][j].status \notin {"pending", "blocked"}
      BY <2>6, <3>1, <3>3 DEF RowStep, Promoted
    <3> QED BY <3>2, <3>3
  <2> QED BY <2>4, <2>5, <2>6
<1> QED BY <1>2, <1>3, <1>4, <1>5, <1>6 DEF WorkerCall

\* A retry keeps the finished steps, and there is no running one.
LEMMA RetryPipelineRow ==
    ASSUME IInv, NEW q \in Runs, NEW j \in Steps, NEW r \in Runs, RetryPipeline(r)
    PROVE  RowStep(q, j)
<1> DEFINE mid == [i \in Steps |-> Restarted(steps[r][i], i)]
<1>1. /\ steps[r] \in [Steps -> Row] /\ steps \in [Runs -> [Steps -> Row]]
      /\ steps' = [steps EXCEPT ![r] = Promoted(mid)]
      /\ steps[r][j].status # "running"
  BY DEF IInv, TypeOK, RetryPipeline, CanRetry
<1>2. CASE q # r
  BY <1>1, <1>2 DEF RowStep
<1>3. CASE q = r /\ steps[r][j].status \in OK
  <2>1. mid[j] = steps[r][j]
    BY <1>3 DEF Restarted
  <2>2. Promoted(mid)[j] = mid[j]
    BY <1>3, <2>1 DEF Promoted, OK
  <2> QED BY <1>1, <1>3, <2>1, <2>2 DEF RowStep
<1>4. CASE q = r /\ steps[r][j].status \notin OK
  BY <1>1, <1>4 DEF RowStep
<1> QED BY <1>2, <1>3, <1>4

\* What any step may do to a row.
LEMMA NextRow ==
    ASSUME IInv, [Next]_vars, NEW q \in Runs, NEW j \in Steps
    PROVE  RowStep(q, j)
<1>0. steps[q][j] \in Row /\ steps[q] \in [Steps -> Row] /\ steps \in [Runs -> [Steps -> Row]]
  BY DEF IInv, TypeOK
<1>1. CASE \E r \in Runs : Create(r)
  <2>1. PICK r \in Runs : Create(r)
    BY <1>1
  <2>2. CASE q = r
    <3>1. steps[q][j].status = "absent"
      BY <2>1, <2>2 DEF Create, IInv, RunInv
    <3> QED BY <3>1 DEF RowStep, OK
  <2>3. CASE q # r
    BY <1>0, <2>1, <2>3 DEF Create, RowStep
  <2> QED BY <2>2, <2>3
<1>2. CASE \E r \in Runs : RetryPipeline(r)
  BY <1>2, RetryPipelineRow
<1>3. CASE \E r \in Runs, st \in PipelineStatus :
              SavePipeline(r, [status |-> st, nonce |-> TRUE])
  BY <1>3 DEF SavePipeline, RowStep
<1>4. CASE \E r \in Runs, i \in Steps, w \in Workers, d \in Lags :
              ClaimReadyStep(r, i, w, d)
  <2>1. PICK r \in Runs, i \in Steps, w \in Workers, d \in Lags : ClaimReadyStep(r, i, w, d)
    BY <1>4
  <2>2. steps[r][i].status \in {"ready", "retrying"}
    BY <2>1 DEF ClaimReadyStep, Claimable
  <2>3. CASE <<q, j>> = <<r, i>>
    BY <2>2, <2>3 DEF RowStep, OK
  <2>4. CASE <<q, j>> # <<r, i>>
    <3> DEFINE x == ClaimedRow(steps[r][i], w, d)
    <3>1. steps' = [steps EXCEPT ![r][i] = x]
      BY <2>1 DEF ClaimReadyStep
    <3> HIDE DEF x
    <3>2. steps'[q][j] = steps[q][j]
      BY <1>0, <2>4, <3>1
    <3> QED BY <3>2 DEF RowStep
  <2> QED BY <2>3, <2>4
<1>5. CASE \E r \in Runs, i \in Steps, w \in Workers, d \in Lags :
              \E a \in 1..MaxAttempts[i] : WorkerCall(r, i, w, a, d)
  BY <1>5, WorkerCallRow
<1>6. CASE \E d \in Lags : RecoverExpiredLeases(d)
  <2>1. PICK d \in Lags : RecoverExpiredLeases(d)
    BY <1>6
  <2>2. CASE Expired(steps[q][j], d)
    <3>1. steps'[q][j].error = "LEASE_EXPIRED"
      BY <1>0, <2>1, <2>2 DEF RecoverExpiredLeases, Recovered, Row
    <3>2. steps[q][j].status \notin OK
      BY <2>2 DEF Expired, OK
    <3>3. steps[q][j].lease \in Int /\ d \in Nat
      BY <1>0, <2>2, TimeAssumption DEF Expired, Row, Lags
    <3>4. steps[q][j].lease < 0
      BY <2>2, <3>3 DEF Expired
    <3> QED BY <3>1, <3>2, <3>4 DEF RowStep
  <2>3. CASE ~Expired(steps[q][j], d)
    BY <2>1, <2>3 DEF RecoverExpiredLeases, RowStep
  <2> QED BY <2>2, <2>3
<1>7. CASE Tick
  BY <1>0, <1>7 DEF Tick, RowStep, Row
<1>8. CASE UNCHANGED vars
  BY <1>8 DEF vars, RowStep
<1> QED BY <1>1, <1>2, <1>3, <1>4, <1>5, <1>6, <1>7, <1>8 DEF Next

\* A finished step keeps its status and its output whatever is called: the
\* downstream steps may rely on them.
THEOREM FinishedCorrect == Spec => FinishedIsFinal
<1>1. ASSUME IInv, [Next]_vars, NEW r \in Runs, NEW i \in Steps, steps[r][i].status \in OK
      PROVE  steps'[r][i].status = steps[r][i].status /\ steps'[r][i].out = steps[r][i].out
  BY <1>1, NextRow DEF RowStep
<1>2. IInv /\ [Next]_vars =>
         [\A r \in Runs, i \in Steps :
             steps[r][i].status \in OK =>
                 /\ steps'[r][i].status = steps[r][i].status
                 /\ steps'[r][i].out = steps[r][i].out]_vars
  BY <1>1
<1> QED BY <1>2, Invariance, PTL DEF Spec, FinishedIsFinal

\* Recovery never takes a step whose lease is running, and the owner never ends
\* a step whose lease has been over for longer than a call may wait.
THEOREM LeaseHonouredCorrect == Spec => LeaseHonoured
<1>1. ASSUME IInv, [Next]_vars, NEW r \in Runs, NEW i \in Steps,
             steps[r][i].status = "running", steps'[r][i].status # "running"
      PROVE  IF steps'[r][i].error = "LEASE_EXPIRED" THEN steps[r][i].lease < 0
                                                     ELSE steps[r][i].lease >= -MaxWait
  BY <1>1, NextRow DEF RowStep
<1>2. IInv /\ [Next]_vars =>
         [\A r \in Runs, i \in Steps :
             steps[r][i].status = "running" /\ steps'[r][i].status # "running" =>
                 IF steps'[r][i].error = "LEASE_EXPIRED" THEN steps[r][i].lease < 0
                                                         ELSE steps[r][i].lease >= -MaxWait]_vars
  BY <1>1
<1> QED BY <1>2, Invariance, PTL DEF Spec, LeaseHonoured

-----------------------------------------------------------------------------
(* What the methods do to the rows that are not theirs to prepare, refuse or  *)
(* finish; the proofs about the workers rest on it.                           *)

\* What others rely on stays: a finished row with its output, a key that was set.
Keeps(old, new) ==
    /\ old.status \in OK <=> new.status \in OK
    /\ old.status \in OK => new.out = old.out /\ new.error = old.error
    /\ new.key = old.key \/ (old.status = "absent" /\ new.key = Null)
    /\ new.status = "blocked" => old.status = "blocked"
    /\ new.status = "absent" => old.status = "absent"

\* Promotion keeps every row.
LEMMA PromotedKeeps ==
    ASSUME NEW rows \in [Steps -> Row], NEW i \in Steps
    PROVE  Keeps(rows[i], Promoted(rows)[i])
<1>1. CASE rows[i].status \in {"pending", "blocked"} /\ DepsOK(rows, i)
  BY <1>1 DEF Promoted, Keeps, Row, OK
<1>2. CASE ~(rows[i].status \in {"pending", "blocked"} /\ DepsOK(rows, i))
  BY <1>2 DEF Promoted, Keeps
<1> QED BY <1>1, <1>2

\* A method that writes one row keeps the others.
LEMMA OneRowKeeps ==
    ASSUME IInv, NEW r \in Runs, NEW i \in Steps, NEW x,
           steps' = [steps EXCEPT ![r][i] = x],
           NEW q \in Runs, NEW j \in Steps, <<q, j>> = <<r, i>> => Keeps(steps[q][j], x)
    PROVE  Keeps(steps[q][j], steps'[q][j])
<1>1. CASE <<q, j>> = <<r, i>>
  <2>1. steps'[q][j] = x
    BY <1>1 DEF IInv, TypeOK
  <2> QED BY <1>1, <2>1
<1>2. CASE <<q, j>> # <<r, i>>
  <2>1. steps'[q][j] = steps[q][j]
    BY <1>2 DEF IInv, TypeOK
  <2> QED BY <2>1 DEF Keeps
<1> QED BY <1>1, <1>2

\* A run that is created had no rows.
LEMMA CreateKeeps ==
    ASSUME IInv, NEW r \in Runs, Create(r), NEW q \in Runs, NEW j \in Steps
    PROVE  Keeps(steps[q][j], steps'[q][j])
<1>1. CASE q = r
  <2>1. steps[q][j].status = "absent"
    BY <1>1 DEF Create, IInv, RunInv
  <2>2. /\ steps'[q][j] = BlankRow(FirstStatus(j))
        /\ FirstStatus(j) \in {"ready", "pending"}
    BY <1>1 DEF Create, IInv, TypeOK, FirstStatus
  <2> QED BY <2>1, <2>2 DEF Keeps, BlankRow, OK
<1>2. CASE q # r
  BY <1>2 DEF Create, Keeps, IInv, TypeOK
<1> QED BY <1>1, <1>2

\* A retry keeps the finished rows, and the keys of the others.
LEMMA RetryPipelineKeeps ==
    ASSUME IInv, NEW r \in Runs, RetryPipeline(r), NEW q \in Runs, NEW j \in Steps
    PROVE  Keeps(steps[q][j], steps'[q][j])
<1> DEFINE mid == [i \in Steps |-> Restarted(steps[r][i], i)]
<1>1. /\ steps[r] \in [Steps -> Row] /\ steps \in [Runs -> [Steps -> Row]]
      /\ steps' = [steps EXCEPT ![r] = Promoted(mid)]
      /\ Created(r)
  BY DEF IInv, TypeOK, RetryPipeline, CanRetry, Created
<1>2. CASE q = r
  <2>1. mid \in [Steps -> Row]
    BY <1>1, RestartedType
  <2>2. steps[r][j].status # "absent"
    BY <1>1 DEF IInv, RunInv
  <2>3. Keeps(steps[r][j], mid[j])
    <3>1. PICK row \in Row : row = steps[r][j] /\ row.status # "absent"
      BY <1>1, <2>2
    <3>2. mid[j] = Restarted(row, j)
      BY <3>1
    <3>3. CASE row.status \in OK
      BY <3>1, <3>2, <3>3 DEF Restarted, Keeps
    <3>4. CASE row.status \notin OK
      <4>1. Restarted(row, j).status = FirstStatus(j) /\ Restarted(row, j).key = row.key
        BY <3>4 DEF Restarted, Row
      <4>2. FirstStatus(j) \in {"ready", "pending"}
        BY DEF FirstStatus
      <4> QED BY <3>1, <3>2, <3>4, <4>1, <4>2 DEF Keeps, OK
    <3> QED BY <3>3, <3>4
  <2> HIDE DEF mid
  <2>4. Keeps(mid[j], Promoted(mid)[j])
    BY <2>1, PromotedKeeps
  <2>5. steps'[q][j] = Promoted(mid)[j]
    BY <1>1, <1>2
  <2> QED BY <1>2, <2>2, <2>3, <2>4, <2>5 DEF Keeps
<1>3. CASE q # r
  BY <1>1, <1>3 DEF Keeps
<1> QED BY <1>2, <1>3

\* A claim takes a row that is not finished, and leaves its key.
LEMMA ClaimReadyStepKeeps ==
    ASSUME IInv, NEW r \in Runs, NEW i \in Steps, NEW w, NEW d \in Lags,
           ClaimReadyStep(r, i, w, d), NEW q \in Runs, NEW j \in Steps
    PROVE  Keeps(steps[q][j], steps'[q][j])
<1> DEFINE x == ClaimedRow(steps[r][i], w, d)
<1>1. steps[r][i] \in Row /\ steps[r][i].status \in {"ready", "retrying"}
  BY DEF ClaimReadyStep, Claimable, IInv, TypeOK
<1>2. Keeps(steps[r][i], x)
  BY <1>1 DEF ClaimedRow, Row, Keeps, OK
<1>3. steps' = [steps EXCEPT ![r][i] = x]
  BY DEF ClaimReadyStep
<1> HIDE DEF x
<1> QED BY <1>2, <1>3, OneRowKeeps

\* A heartbeat moves a lease only.
LEMMA HeartbeatStepKeeps ==
    ASSUME IInv, NEW r \in Runs, NEW i \in Steps, NEW w, NEW a, NEW d,
           HeartbeatStep(r, i, w, a, d), NEW q \in Runs, NEW j \in Steps
    PROVE  Keeps(steps[q][j], steps'[q][j])
<1> DEFINE x == [steps[r][i] EXCEPT !.lease = Lease - d]
<1>1. steps[r][i] \in Row
  BY DEF IInv, TypeOK
<1>2. Keeps(steps[r][i], x)
  BY <1>1 DEF Row, Keeps
<1>3. steps' = [steps EXCEPT ![r][i] = x]
  BY DEF HeartbeatStep
<1> HIDE DEF x
<1> QED BY <1>2, <1>3, OneRowKeeps

\* A failure leaves the key in the row.
LEMMA FailOrRetryStepKeeps ==
    ASSUME IInv, NEW r \in Runs, NEW i \in Steps, NEW w, NEW a, NEW d,
           FailOrRetryStep(r, i, w, a, a < MaxAttempts[i], d),
           NEW q \in Runs, NEW j \in Steps
    PROVE  Keeps(steps[q][j], steps'[q][j])
<1> DEFINE retry == a < MaxAttempts[i]
<1>0. retry \in BOOLEAN /\ FailOrRetryStep(r, i, w, a, retry, d)
  OBVIOUS
<1> HIDE DEF retry
<1> DEFINE x == FailedRow(steps[r][i], retry, d)
<1>1. steps[r][i] \in Row /\ steps[r][i].status = "running"
  BY <1>0 DEF IInv, TypeOK, FailOrRetryStep, OwnedRunning
<1>2. Keeps(steps[r][i], x)
  BY <1>0, <1>1 DEF FailedRow, Row, Keeps, OK
<1>3. steps' = [steps EXCEPT ![r][i] = x]
  BY <1>0 DEF FailOrRetryStep
<1> HIDE DEF x
<1> QED BY <1>2, <1>3, OneRowKeeps

\* So does the loss of a lease.
LEMMA RecoverExpiredLeasesKeeps ==
    ASSUME IInv, NEW d, RecoverExpiredLeases(d), NEW q \in Runs, NEW j \in Steps
    PROVE  Keeps(steps[q][j], steps'[q][j])
<1>1. steps[q][j] \in Row
  BY DEF IInv, TypeOK
<1>2. CASE Expired(steps[q][j], d)
  BY <1>1, <1>2 DEF RecoverExpiredLeases, Recovered, Expired, Row, Keeps, OK
<1>3. CASE ~Expired(steps[q][j], d)
  BY <1>3 DEF RecoverExpiredLeases, Keeps
<1> QED BY <1>2, <1>3

\* Time passes for the leases and the back-offs only.
LEMMA TickKeeps ==
    ASSUME IInv, Tick, NEW q \in Runs, NEW j \in Steps
    PROVE  Keeps(steps[q][j], steps'[q][j])
<1>1. steps[q][j] \in Row
  BY DEF IInv, TypeOK
<1> QED BY <1>1 DEF Tick, Row, Keeps

\* A row that is finished with output k.
Finishes(old, new, st, k) ==
    new.status = st /\ new.out = k /\ new.error = Null /\ new.key = old.key

\* finish_step writes its row and keeps the others.
LEMMA FinishStepRows ==
    ASSUME IInv, NEW r \in Runs, NEW i \in Steps, NEW w, NEW a, NEW st \in OK,
           NEW k \in Keys, NEW d \in Lags, FinishStep(r, i, w, a, st, k, d)
    PROVE  /\ Finishes(steps[r][i], steps'[r][i], st, k)
           /\ \A q \in Runs, j \in Steps : <<q, j>> # <<r, i>> => Keeps(steps[q][j], steps'[q][j])
<1> DEFINE x == FinishedRow(steps[r][i], st, k)
           mid == [steps[r] EXCEPT ![i] = x]
<1>1. /\ steps[r] \in [Steps -> Row] /\ steps \in [Runs -> [Steps -> Row]]
      /\ steps' = [steps EXCEPT ![r] = Promoted(mid)]
  BY DEF FinishStep, IInv, TypeOK
<1>2. /\ x.status = st /\ x.out = k /\ x.error = Null /\ x.key = steps[r][i].key
      /\ x \in Row
  <2>1. x \in Row
    BY <1>1, RowTypes
  <2> QED BY <1>1, <2>1 DEF FinishedRow, Row
<1> HIDE DEF x
<1>3. mid \in [Steps -> Row]
  BY <1>1, <1>2
<1>4. Promoted(mid)[i] = x
  BY <1>1, <1>2 DEF Promoted, OK
<1>5. ASSUME NEW q \in Runs, NEW j \in Steps, <<q, j>> # <<r, i>>
      PROVE  Keeps(steps[q][j], steps'[q][j])
  <2>1. CASE q = r
    <3>1. mid[j] = steps[q][j] /\ steps'[q][j] = Promoted(mid)[j]
      BY <1>1, <1>5, <2>1
    <3> HIDE DEF mid
    <3> QED BY <1>3, <3>1, PromotedKeeps
  <2>2. CASE q # r
    BY <1>1, <2>2 DEF Keeps
  <2> QED BY <2>1, <2>2
<1>6. steps'[r][i] = x
  BY <1>1, <1>4
<1> QED BY <1>2, <1>5, <1>6 DEF Finishes

\* prepare_claimed_step writes its row only.
LEMMA PrepareClaimedStepRows ==
    ASSUME IInv, NEW r \in Runs, NEW i \in Steps, NEW w, NEW a, NEW k, NEW d,
           PrepareClaimedStep(r, i, w, a, k, d)
    PROVE  /\ steps'[r][i].status = "running" /\ steps'[r][i].key = k
           /\ steps[r][i].status = "running"
           /\ \A q \in Runs, j \in Steps : <<q, j>> # <<r, i>> => steps'[q][j] = steps[q][j]
<1>1. /\ steps[r] \in [Steps -> Row] /\ steps \in [Runs -> [Steps -> Row]]
      /\ steps[r][i].status = "running"
  BY DEF PrepareClaimedStep, OwnedRunning, IInv, TypeOK
<1>2. steps' = [steps EXCEPT ![r][i] = [steps[r][i] EXCEPT !.key = k, !.error = Null]]
  BY <1>1 DEF PrepareClaimedStep
<1> QED BY <1>1, <1>2 DEF Row

\* A refusal writes its row only, and leaves the key.
LEMMA RefuseClaimedStepRows ==
    ASSUME IInv, NEW r \in Runs, NEW i \in Steps, NEW w, NEW a,
           NEW st, NEW d, RefuseClaimedStep(r, i, w, a, st, d)
    PROVE  /\ steps'[r][i].status = st /\ steps'[r][i].key = steps[r][i].key
           /\ steps[r][i].status = "running"
           /\ \A q \in Runs, j \in Steps : <<q, j>> # <<r, i>> => steps'[q][j] = steps[q][j]
<1>1. /\ steps[r] \in [Steps -> Row] /\ steps \in [Runs -> [Steps -> Row]]
      /\ steps[r][i].status = "running"
  BY DEF RefuseClaimedStep, OwnedRunning, IInv, TypeOK
<1>2. steps' = [steps EXCEPT ![r][i] = GivenBack(steps[r][i], st)]
  BY DEF RefuseClaimedStep
<1> QED BY <1>1, <1>2 DEF GivenBack, Row
=============================================================================
