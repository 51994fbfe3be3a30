--------------------------- MODULE JsonServer_proofs ---------------------------
(***************************************************************************)
(* Theorems about the default mode, one event loop over JSON files: for    *)
(* any number of runs and steps, any lease and back-off, whatever is lost  *)
(* and wherever the process ends, finished steps stay finished, outputs    *)
(* are traceable, the status of a run follows from its steps whenever the  *)
(* loop is free, and only a failed step needs the user.                    *)
(*                                                                         *)
(* A file holds what an action has made of what it read before, so the     *)
(* invariant says what each task may rely on at each of its places.        *)
(***************************************************************************)
EXTENDS JsonServer, SequenceTheorems, FiniteSetTheorems, TLAPS

-----------------------------------------------------------------------------
(* The invariant. *)

Lost == Art!Lost

Pipelines == [status : PipelineStatus, nonce : BOOLEAN]
Loops == [pc : LoopPC, w : Workers \cup {0}, run : Runs \cup {0}, todo : SUBSET Runs]
Tasks == [pc : TaskPC, run : Runs \cup {0}, doc : Doc \cup {Null},
          input : SUBSET ArtifactKeys, beating : BOOLEAN]

\* Types, without the bound on the attempts.
FilesTyped ==
    /\ pipelines \in [Runs -> Pipelines \cup {Null}]
    /\ steps \in [Runs -> Seq(Doc)]
    /\ \A r \in Runs : Len(steps[r]) <= NSteps
    /\ artifacts \subseteq [key : ArtifactKeys, gen : 1..commits]
    /\ commits \in 0..MaxCommits

LoopTyped ==
    /\ up \in BOOLEAN /\ crashes \in 0..MaxCrashes
    /\ loop \in Loops
    /\ task \in [Workers -> Tasks]

\* There is one artifact for a key, and each was committed.
DiskOK == /\ IsFiniteSet(artifacts)
          /\ \A a, b \in artifacts : a.key = b.key => a = b
          /\ Cardinality(artifacts) <= commits

\* A step that runs or is finished has a key of its own type, under which its output
\* is; only a step that waits for a worker or was given up has a suspect output.
DocFits(i, s) ==
    /\ s.suspect => s.status \in {"ready", "failed"}
    /\ s.status \in OK \cup {"running"} => s.key # Null
    /\ s.key # Null => s.key.step = i
    /\ s.status \in OK => s.out = s.key

RunFits(r) ==
    /\ pipelines[r] = Null => steps[r] = <<>>
    /\ pipelines[r] # Null => (pipelines[r].nonce => r \in ForceRefresh)
    /\ \A i \in Present(r) : DocFits(i, steps[r][i])

FilesFit == \A r \in Runs : RunFits(r)

\* Key k was made for step i of run r from the output of the step before it.
MadeFor(r, i, k) ==
    /\ i \in UsesParams => k.line = Line(r)
    /\ \A j \in DependsOn(i) : steps[r][j].status \in OK /\ k.input = Art!Gen(steps[r][j].out)

\* As long as nothing is lost, s may be the file of step i of run r.
Begun == OK \cup {"ready", "running", "retrying", "failed"}
Traced(r, i, s) ==
    /\ s.status \in Begun => \A j \in DependsOn(i) : steps[r][j].status \in OK
    /\ s.key # Null => MadeFor(r, i, s.key)
    /\ s.status \in OK => Art!Valid(s.out)
    /\ s.status \notin OK => s.out = Null

FilesTraced == Lost = 0 => \A r \in Runs : \A i \in Present(r) : Traced(r, i, steps[r][i])

\* What execute() keeps while its filter awaits: the file may have changed since, but
\* not its key, and nobody else makes the artifact.
Saving(w) == loop.pc = "save" /\ loop.w = w
InFlight(w, me) ==
    /\ me.run \in Runs /\ w \in Present(me.run)
    /\ me.doc \in Doc /\ me.doc.key \in ArtifactKeys
    /\ me.doc.key = steps[me.run][w].key
    /\ ~Saving(w) => ~Art!Valid(me.doc.key)
    /\ Lost = 0 => me.doc.out = Null

TaskFits(w, me) ==
    /\ me.pc = "filtering" => InFlight(w, me)
    /\ me.pc = "closing" => me.run \in Runs /\ steps[me.run] # <<>>

TasksFit == \A w \in Workers : TaskFits(w, task[w])

\* The places where a task has a run, where it is a worker's, and where that worker
\* waits for nothing.
InRun == LoopPC \ {"free", "recover", "claim"}
Worked == {"claim", "refused", "claimed", "execute", "filter", "save", "failing",
           "promote", "update"}
InFilter == {"filter", "save", "failing"}
Passing == {"recover", "repair", "recheck", "derive"}

Closing(r) == \E w \in Workers : task[w].pc = "closing" /\ task[w].run = r

\* After a retry nothing keeps the run from being queued.
Queued(r) ==
    /\ pipelines[r].status = "queued"
    /\ Lost > 0 \/ LastOf(r).status \notin OK \/ Closing(r)

Fresh(r) == /\ pipelines[r].status = "queued"
            /\ \A i \in Present(r) : steps[r][i] = NewDoc(i)

LoopFits ==
    /\ ~up => loop = Free /\ task = [w \in Workers |-> Sleeping]
    /\ loop.todo \subseteq Listed
    /\ loop.pc \in InRun => loop.run \in Listed
    /\ loop.pc \in InRun \ (Passing \cup {"create"}) => steps[loop.run] # <<>>
    /\ loop.pc \in Worked => loop.w \in Workers
    /\ loop.pc \in (Worked \cup Passing) \ InFilter /\ loop.w # 0 => task[loop.w].pc = "sleeping"
    /\ loop.pc \in InFilter => task[loop.w].pc = "filtering" /\ task[loop.w].run = loop.run
    /\ loop.pc \in {"claimed", "execute"} =>
          /\ loop.w \in Present(loop.run) /\ steps[loop.run][loop.w].status = "running"
          /\ Inputs(loop.run, loop.w) \subseteq ArtifactKeys
    /\ loop.pc = "save" /\ Lost = 0 => Art!Valid(task[loop.w].doc.key)
    /\ loop.pc = "refused" => Lost > 0
    /\ loop.pc \in {"create", "nonce"} => Fresh(loop.run)
    /\ loop.pc = "create" => Len(steps[loop.run]) < NSteps
    /\ loop.pc = "nonce" => loop.run \in ForceRefresh
    /\ loop.pc \in {"reset", "repromote"} => Queued(loop.run)
    /\ loop.pc = "repromote" => Statuses(loop.run) \subseteq OK \cup {"ready", "pending"}

\* The runs whose status the task that has the loop has yet to set.
Busy(r) ==
    \/ loop.pc \in Passing /\ r \in loop.todo
    \/ loop.pc \in InRun \ (InFilter \cup {"execute"}) /\ r = loop.run

Settled(r) == steps[r] # <<>> /\ (Agrees(r) \/ Closing(r))

RunsSettled == up => \A r \in Listed : Busy(r) \/ Settled(r)

Files == FilesTyped /\ DiskOK /\ FilesFit /\ FilesTraced

JInv == Files /\ LoopTyped /\ TasksFit /\ LoopFits /\ RunsSettled

-----------------------------------------------------------------------------
(* Steps and their files. *)

\* Steps are numbered, and a step depends on the one before it.
LEMMA StepNumbers ==
    /\ NSteps \in Nat /\ NSteps > 0 /\ Lease \in Nat /\ Lease > 0 /\ RetryDelay \in Nat
    /\ MaxCommits \in Nat /\ MaxCrashes \in Nat
    /\ \A i \in Steps : MaxAttempts[i] \in Nat /\ MaxAttempts[i] > 0
    /\ \A i, j : j \in DependsOn(i) <=> j \in Steps /\ j = i - 1
    /\ Null \notin Nat /\ Null \notin ArtifactKeys
    /\ 0 \notin Workers /\ 0 \notin Runs
BY NStepsAssumption, LeaseAssumption, BoundsAssumption, MaxAttemptsAssumption, NullAssumption
DEF Steps, DependsOn, Workers, Runs

\* The files of a run are those of its first steps.
LEMMA FilesOf ==
    ASSUME FilesTyped, NEW r \in Runs
    PROVE  /\ steps[r] \in Seq(Doc) /\ Len(steps[r]) \in Nat
           /\ Present(r) = 1..Len(steps[r]) /\ Present(r) \subseteq Steps
           /\ \A i \in Present(r) : steps[r][i] \in Doc
           /\ steps[r] # <<>> <=> Len(steps[r]) > 0
           /\ steps[r] # <<>> <=> Len(steps[r]) \in Present(r)
<1>1. steps[r] \in Seq(Doc) /\ Len(steps[r]) <= NSteps
  BY DEF FilesTyped
<1>2. Len(steps[r]) \in Nat /\ Present(r) = 1..Len(steps[r])
  BY <1>1, LenProperties DEF Present
<1>3. \A i \in Present(r) : steps[r][i] \in Doc
  BY <1>1, <1>2, ElementOfSeq
<1>4. steps[r] # <<>> <=> Len(steps[r]) > 0
  BY <1>1, <1>2, EmptySeq
<1>5. Present(r) \subseteq Steps
  BY <1>1, <1>2, StepNumbers DEF Steps
<1> QED BY <1>1, <1>2, <1>3, <1>4, <1>5

\* Where a step is, the step it depends on is.
LEMMA DepsPresent ==
    ASSUME FilesTyped, NEW r \in Runs, NEW i \in Present(r), NEW j \in DependsOn(i)
    PROVE  j \in Present(r) /\ j # i
<1>1. Len(steps[r]) \in Nat /\ i \in 1..Len(steps[r]) /\ j \in 1..NSteps /\ j = i - 1
  BY FilesOf, StepNumbers DEF Steps
<1> QED BY <1>1, FilesOf

Writes(r, i, s) == steps' = [steps EXCEPT ![r][i] = s]

\* Writing a file changes this file and no other.
LEMMA Written ==
    ASSUME FilesTyped, NEW r \in Runs, NEW i \in Present(r), NEW s \in Doc, Writes(r, i, s)
    PROVE  /\ steps' \in [Runs -> Seq(Doc)]
           /\ \A q \in Runs : /\ Len(steps'[q]) = Len(steps[q]) /\ Present(q)' = Present(q)
                              /\ steps'[q] = <<>> <=> steps[q] = <<>>
           /\ \A q \in Runs : \A j \in Present(q) :
                 steps'[q][j] = IF q = r /\ j = i THEN s ELSE steps[q][j]
<1>1. PICK f : f = steps[r]
  OBVIOUS
<1>2. f \in Seq(Doc) /\ i \in 1..Len(f)
  BY <1>1, FilesOf
<1>3. PICK g : g = [f EXCEPT ![i] = s]
  OBVIOUS
<1>4. g \in Seq(Doc) /\ Len(g) = Len(f) /\ \A j \in 1..Len(f) : g[j] = IF j = i THEN s ELSE f[j]
  BY <1>2, <1>3, ExceptSeq
<1>5. steps \in [Runs -> Seq(Doc)]
  BY DEF FilesTyped
<1>6. steps' = [steps EXCEPT ![r] = g]
  BY <1>1, <1>3 DEF Writes
<1>7. \A q \in Runs : steps'[q] = IF q = r THEN g ELSE steps[q]
  BY <1>5, <1>6
<1>8. steps' \in [Runs -> Seq(Doc)]
  BY <1>4, <1>5, <1>6
<1>9. ASSUME NEW q \in Runs
      PROVE  /\ Len(steps'[q]) = Len(steps[q]) /\ Present(q)' = Present(q)
             /\ steps'[q] = <<>> <=> steps[q] = <<>>
             /\ \A j \in Present(q) : steps'[q][j] = IF q = r /\ j = i THEN s ELSE steps[q][j]
  <2>1. Len(steps'[q]) = Len(steps[q])
    BY <1>1, <1>4, <1>7
  <2>2. Present(q)' = Present(q)
    BY <2>1 DEF Present
  <2>3. steps'[q] \in Seq(Doc) /\ steps[q] \in Seq(Doc)
    BY <1>5, <1>8
  <2>4. steps'[q] = <<>> <=> steps[q] = <<>>
    BY <2>1, <2>3, EmptySeq
  <2>5. Present(q) = 1..Len(steps[q])
    BY FilesOf
  <2>6. CASE q = r
    BY <1>1, <1>4, <1>7, <2>1, <2>2, <2>4, <2>5, <2>6
  <2>7. CASE q # r
    BY <1>7, <2>1, <2>2, <2>4, <2>7
  <2> QED BY <2>6, <2>7
<1> QED BY <1>8, <1>9

\* What a step becomes keeps its attempts, its key and its output.
LEMMA Becomes ==
    ASSUME NEW s \in Doc, NEW st \in StepStatus
    PROVE  /\ Become(s, st) \in Doc /\ Become(s, st).status = st
           /\ Become(s, st).attempt = s.attempt
           /\ Become(s, st).key = s.key /\ Become(s, st).out = s.out
           /\ Become(s, st).suspect = FALSE
BY DEF Become, Doc

\* The status a step is born with.
LEMMA FirstStatuses ==
    ASSUME NEW i
    PROVE  /\ FirstStatus(i) \in {"ready", "pending"}
           /\ FirstStatus(i) = "ready" <=> DependsOn(i) = {}
BY DEF FirstStatus

-----------------------------------------------------------------------------
(* The artifacts. *)

\* The sets of an instance have the same size.
LEMMA SameCardinality == \A S : Art!Cardinality(S) = Cardinality(S)
BY DEF Art!Cardinality, Cardinality

\* How many artifacts are lost is a number.
LEMMA LostNat ==
    ASSUME DiskOK, commits \in Nat
    PROVE  Lost \in Nat
BY FS_CardinalityType, SameCardinality DEF DiskOK, Lost, Art!Lost

\* The artifact of a key is the one Gen finds.
LEMMA GenOf ==
    ASSUME DiskOK, NEW a \in artifacts
    PROVE  Art!Valid(a.key) /\ Art!Gen(a.key) = a.gen
<1>1. \A b \in artifacts : b.key = a.key <=> b = a
  BY DEF DiskOK
<1>2. (CHOOSE b \in artifacts : b.key = a.key) = a
  BY <1>1
<1> QED BY <1>2 DEF Art!Valid, Art!Gen

\* A manifest that exists has one of the numbers that were given out.
LEMMA GenType ==
    ASSUME FilesTyped, NEW k, Art!Valid(k)
    PROVE  Art!Gen(k) \in 0..MaxCommits
<1>1. (CHOOSE a \in artifacts : a.key = k) \in artifacts
  BY DEF Art!Valid
<1> QED BY <1>1, StepNumbers DEF Art!Gen, FilesTyped

\* What was there stays the same artifact while nothing is lost, and what is lost
\* stays counted.
DiskGrows ==
    /\ Lost' = 0 => /\ Lost = 0
                    /\ \A k : Art!Valid(k) => Art!Valid(k)' /\ Art!Gen(k)' = Art!Gen(k)
    /\ Lost > 0 => Lost' > 0

\* A commit adds the artifact of its key, and no other.
LEMMA CommitGrows ==
    ASSUME DiskOK, commits \in Nat, NEW k, ~Art!Valid(k), Art!Commit(k)
    PROVE  /\ DiskOK' /\ DiskGrows
           /\ Art!Valid(k)'
           /\ \A j : j # k => (Art!Valid(j)' <=> Art!Valid(j))
           /\ artifacts' = artifacts \cup {[key |-> k, gen |-> commits + 1]}
           /\ commits' = commits + 1 /\ Lost' = Lost
<1> DEFINE new == [key |-> k, gen |-> commits + 1]
<1>1. artifacts' = artifacts \cup {new} /\ commits' = commits + 1
  BY DEF Art!Commit
<1>2. \A a \in artifacts : a.key # k
  BY DEF Art!Valid
<1>3. new \notin artifacts
  BY <1>2
<1>4. /\ IsFiniteSet(artifacts')
      /\ Cardinality(artifacts') = Cardinality(artifacts) + 1
      /\ Cardinality(artifacts) \in Nat
  BY <1>1, <1>3, FS_AddElement, FS_CardinalityType DEF DiskOK
<1>5. DiskOK'
  BY <1>1, <1>2, <1>4 DEF DiskOK
<1>6. Lost' = Lost
  BY <1>1, <1>4, SameCardinality DEF DiskOK, Lost, Art!Lost
<1>7. Art!Valid(k)' /\ \A j : j # k => (Art!Valid(j)' <=> Art!Valid(j))
  <2>1. new.key = k /\ new \in artifacts'
    BY <1>1
  <2>2. \A a : a \in artifacts' <=> a \in artifacts \/ a = new
    BY <1>1
  <2> HIDE DEF new
  <2> QED BY <2>1, <2>2 DEF Art!Valid
<1>8. ASSUME NEW j, Art!Valid(j) PROVE Art!Valid(j)' /\ Art!Gen(j)' = Art!Gen(j)
  <2>1. PICK a \in artifacts : a.key = j
    BY <1>8 DEF Art!Valid
  <2>2. Art!Gen(j) = a.gen
    BY <2>1, GenOf
  <2>3. a \in artifacts'
    BY <1>1
  <2>4. \A b \in artifacts' : b.key = j <=> b = a
    BY <1>5, <2>1, <2>3 DEF DiskOK
  <2>5. (CHOOSE b \in artifacts' : b.key = j) = a
    BY <2>3, <2>4
  <2> QED BY <2>1, <2>2, <2>3, <2>5 DEF Art!Gen, Art!Valid
<1> QED BY <1>1, <1>5, <1>6, <1>7, <1>8 DEF DiskGrows

\* A loss is counted, and brings nothing back.
LEMMA LoseGrows ==
    ASSUME DiskOK, commits \in Nat, Art!Lose
    PROVE  /\ DiskOK' /\ DiskGrows
           /\ \A k : Art!Valid(k)' => Art!Valid(k)
           /\ artifacts' \subseteq artifacts /\ commits' = commits
           /\ Lost' = Lost + 1
           /\ \E k : \A j : j # k /\ Art!Valid(j) => Art!Valid(j)'
<1>1. PICK a \in artifacts : artifacts' = artifacts \ {a}
  BY DEF Art!Lose
<1>2. commits' = commits
  BY DEF Art!Lose
<1>3. /\ IsFiniteSet(artifacts') /\ Cardinality(artifacts') = Cardinality(artifacts) - 1
      /\ Cardinality(artifacts) \in Nat
  BY <1>1, FS_RemoveElement, FS_CardinalityType DEF DiskOK
<1>4. DiskOK'
  BY <1>1, <1>2, <1>3 DEF DiskOK
<1>5. Lost' = Lost + 1 /\ Lost' > 0
  <2>1. Cardinality(artifacts) <= commits
    BY DEF DiskOK
  <2> QED BY <1>2, <1>3, <2>1, SameCardinality DEF Lost, Art!Lost
<1>6. \A j : j # a.key /\ Art!Valid(j) => Art!Valid(j)'
  BY <1>1 DEF Art!Valid
<1> QED BY <1>1, <1>2, <1>4, <1>5, <1>6 DEF DiskGrows, Art!Valid

\* Where nothing is committed or lost, nothing changes.
LEMMA SameDisk ==
    ASSUME UNCHANGED <<artifacts, commits>>
    PROVE  /\ DiskGrows /\ Lost' = Lost
           /\ DiskOK => DiskOK'
           /\ \A k : Art!Valid(k)' <=> Art!Valid(k)
<1>1. Lost' = Lost /\ \A k : (Art!Valid(k)' <=> Art!Valid(k)) /\ Art!Gen(k)' = Art!Gen(k)
  BY DEF Lost, Art!Lost, Art!Valid, Art!Gen
<1>2. DiskOK => DiskOK'
  BY DEF DiskOK
<1> QED BY <1>1, <1>2 DEF DiskGrows

-----------------------------------------------------------------------------
(* What a step leaves of the files. *)

\* Step i of r is finished, and so is the step it was made from.
Finished(s) == s.status \in OK /\ OutputValid(s)
Firm(r, i) == \A j \in {i} \cup DependsOn(i) : Finished(steps[r][j])

\* s may be written as file i of run r.
MayWrite(r, i, s) ==
    /\ DocFits(i, s)
    /\ Lost = 0 => Traced(r, i, s)
    /\ i \in Present(r) /\ Firm(r, i) => s.status \in OK /\ s.out = steps[r][i].out

FirmKept ==
    \A r \in Runs : \A i \in Present(r) :
        Firm(r, i) => steps'[r][i].status \in OK /\ steps'[r][i].out = steps[r][i].out

\* As long as nothing is lost, what is finished is firm.
LEMMA FirmUnlessLost ==
    ASSUME Files, Lost = 0, NEW r \in Runs, NEW i \in Present(r), steps[r][i].status \in OK
    PROVE  Firm(r, i)
<1>1. \A j \in Present(r) : /\ DocFits(j, steps[r][j]) /\ Traced(r, j, steps[r][j])
  BY DEF Files, FilesFit, FilesTraced, RunFits
<1>2. \A j \in Present(r) : steps[r][j].status \in OK => Finished(steps[r][j])
  BY <1>1 DEF DocFits, Traced, Finished, OutputValid
<1>3. \A j \in DependsOn(i) : j \in Present(r) /\ steps[r][j].status \in OK
  BY <1>1, DepsPresent DEF Traced, Begun, Files
<1> QED BY <1>2, <1>3 DEF Firm

\* What was made for a step goes on being made for it.
LEMMA TracedKept ==
    ASSUME DiskGrows, Lost' = 0, NEW r, NEW i, NEW s, Traced(r, i, s),
           s.key # Null => Line(r)' = Line(r),
           \A j \in DependsOn(i) : steps[r][j].status \in OK =>
              /\ Art!Valid(steps[r][j].out)
              /\ steps'[r][j].status \in OK /\ steps'[r][j].out = steps[r][j].out
    PROVE  Traced(r, i, s)'
<1>1. s.status \in Begun => \A j \in DependsOn(i) : steps'[r][j].status \in OK
  BY DEF Traced
<1>2. ASSUME s.key # Null, NEW j \in DependsOn(i)
      PROVE  steps'[r][j].status \in OK /\ s.key.input = Art!Gen(steps[r][j].out)'
  <2>1. steps[r][j].status \in OK /\ s.key.input = Art!Gen(steps[r][j].out)
    BY <1>2 DEF Traced, MadeFor
  <2>2. PICK k : k = steps[r][j].out
    OBVIOUS
  <2>3. Art!Valid(k) /\ steps'[r][j].status \in OK /\ steps'[r][j].out = k
    BY <2>1, <2>2
  <2>4. Art!Gen(k)' = Art!Gen(k)
    BY <2>3 DEF DiskGrows
  <2> QED BY <2>1, <2>2, <2>3, <2>4 DEF Art!Gen
<1>3. ASSUME s.key # Null PROVE MadeFor(r, i, s.key)'
  <2>1. i \in UsesParams => s.key.line = Line(r)'
    BY <1>3 DEF Traced, MadeFor
  <2> QED BY <2>1, <1>2, <1>3 DEF MadeFor
<1>4. s.status \in OK => Art!Valid(s.out)'
  <2>1. PICK k : k = s.out
    OBVIOUS
  <2> QED BY <2>1 DEF Traced, DiskGrows
<1>5. s.status \notin OK => s.out = Null
  BY DEF Traced
<1> QED BY <1>1, <1>3, <1>4, <1>5 DEF Traced

\* It is enough that each file may be written as it then is.
LEMMA FilesGo ==
    ASSUME Files, FilesTyped', DiskOK', DiskGrows,
           \A r \in Runs : /\ pipelines'[r] = Null => steps'[r] = <<>>
                           /\ pipelines'[r] # Null => (pipelines'[r].nonce => r \in ForceRefresh),
           \A r \in Runs : \A i \in Present(r) : i \in Present(r)',
           \A r \in Runs : \A i \in Present(r)' :
              /\ MayWrite(r, i, steps'[r][i])
              /\ steps'[r][i].key # Null => Line(r)' = Line(r)
              /\ \A j \in DependsOn(i) : j \in Present(r)
    PROVE  Files' /\ FirmKept
<1>1. FirmKept
  BY DEF FirmKept, MayWrite
<1>2. FilesFit'
  BY DEF FilesFit, RunFits, MayWrite
<1>3. ASSUME Lost' = 0, NEW r \in Runs, NEW i \in Present(r)' PROVE Traced(r, i, steps[r][i])'
  <2>1. Lost = 0
    BY <1>3 DEF DiskGrows
  <2>2. PICK s : s = steps'[r][i]
    OBVIOUS
  <2>3. Traced(r, i, s)
    BY <2>1, <2>2 DEF MayWrite
  <2>4. ASSUME NEW j \in DependsOn(i), steps[r][j].status \in OK
        PROVE  /\ Art!Valid(steps[r][j].out)
               /\ steps'[r][j].status \in OK /\ steps'[r][j].out = steps[r][j].out
    <3>1. j \in Present(r) /\ j \in Present(r)'
      OBVIOUS
    <3>2. Firm(r, j)
      BY <2>1, <2>4, <3>1, FirmUnlessLost
    <3>3. Art!Valid(steps[r][j].out)
      BY <3>2 DEF Firm, Finished, OutputValid
    <3> QED BY <1>1, <3>1, <3>2, <3>3 DEF FirmKept
  <2>5. Traced(r, i, s)'
    BY <1>3, <2>2, <2>3, <2>4, TracedKept
  <2> QED BY <2>2, <2>5 DEF Traced, MadeFor
<1>4. FilesTraced'
  BY <1>3 DEF FilesTraced
<1> QED BY <1>1, <1>2, <1>4 DEF Files

\* A file that stays as it is may be written.
LEMMA MayStay ==
    ASSUME Files, NEW r \in Runs, NEW i \in Present(r)
    PROVE  MayWrite(r, i, steps[r][i])
BY DEF Files, FilesFit, RunFits, FilesTraced, MayWrite, Firm, Finished

\* A file is written that may be written.
LEMMA FilesSaved ==
    ASSUME Files, NEW r \in Runs, NEW i \in Present(r), NEW s \in Doc, SaveStep(r, i, s),
           MayWrite(r, i, s)
    PROVE  Files' /\ FirmKept
<1>1. /\ Writes(r, i, s)
      /\ UNCHANGED <<pipelines, artifacts, commits>>
  BY DEF SaveStep, Writes, art
<1>2. FilesTyped
  BY DEF Files
<1>3. /\ steps' \in [Runs -> Seq(Doc)]
      /\ \A q \in Runs : /\ Len(steps'[q]) = Len(steps[q]) /\ Present(q)' = Present(q)
                         /\ steps'[q] = <<>> <=> steps[q] = <<>>
      /\ \A q \in Runs : \A j \in Present(q) :
            steps'[q][j] = IF q = r /\ j = i THEN s ELSE steps[q][j]
  BY <1>1, <1>2, Written
<1>4. FilesTyped'
  BY <1>1, <1>2, <1>3 DEF FilesTyped
<1>5. DiskOK' /\ DiskGrows
  BY <1>1, SameDisk DEF Files
<1>6. \A q \in Runs : /\ pipelines'[q] = Null => steps'[q] = <<>>
                      /\ pipelines'[q] # Null => (pipelines'[q].nonce => q \in ForceRefresh)
                      /\ Line(q)' = Line(q)
  BY <1>1, <1>3 DEF Files, FilesFit, RunFits, Line
<1>7. \A q \in Runs : \A j \in Present(q)' : MayWrite(q, j, steps'[q][j])
  <2>1. ASSUME NEW q \in Runs, NEW j \in Present(q) PROVE MayWrite(q, j, steps'[q][j])
    BY <1>3, MayStay
  <2> QED BY <2>1, <1>3
<1>8. \A q \in Runs : \A j \in Present(q) : \A m \in DependsOn(j) : m \in Present(q)
  BY <1>2, DepsPresent
<1>9. \A q \in Runs : \A j \in Present(q) : j \in Present(q)'
  BY <1>3
<1>10. \A q \in Runs : \A j \in Present(q)' :
              /\ MayWrite(q, j, steps'[q][j])
              /\ steps'[q][j].key # Null => Line(q)' = Line(q)
              /\ \A m \in DependsOn(j) : m \in Present(q)
  BY <1>3, <1>6, <1>7, <1>8
<1> QED BY <1>4, <1>5, <1>6, <1>9, <1>10, FilesGo

\* A document of a run is written: it keeps the request, or no step has a key yet.
LEMMA FilesPiped ==
    ASSUME Files, NEW r \in Runs, NEW p \in Pipelines, NEW after, SavePipeline(r, p, after),
           p.nonce => r \in ForceRefresh,
           \/ pipelines[r] # Null /\ p.nonce = pipelines[r].nonce
           \/ \A i \in Present(r) : steps[r][i].key = Null
    PROVE  Files' /\ FirmKept
<1>1. /\ pipelines' = [pipelines EXCEPT ![r] = p]
      /\ UNCHANGED <<steps, artifacts, commits>>
  BY DEF SavePipeline, art
<1>2. FilesTyped
  BY DEF Files
<1>3. \A q \in Runs : pipelines'[q] = IF q = r THEN p ELSE pipelines[q]
  BY <1>1, <1>2 DEF FilesTyped
<1>4. FilesTyped'
  BY <1>1, <1>2 DEF FilesTyped
<1>5. DiskOK' /\ DiskGrows
  BY <1>1, SameDisk DEF Files
<1>6. p # Null
  BY NullAssumption DEF Pipelines
<1>7. \A q \in Runs : /\ pipelines'[q] = Null => steps'[q] = <<>>
                      /\ pipelines'[q] # Null => (pipelines'[q].nonce => q \in ForceRefresh)
  BY <1>1, <1>3, <1>6 DEF Files, FilesFit, RunFits
<1>8. \A q \in Runs : Present(q)' = Present(q)
  BY <1>1 DEF Present
<1>9. \A q \in Runs : \A j \in Present(q) : j \in Present(q)'
  BY <1>8
<1>10. \A q \in Runs : \A j \in Present(q)' :
              /\ MayWrite(q, j, steps'[q][j])
              /\ steps'[q][j].key # Null => Line(q)' = Line(q)
              /\ \A m \in DependsOn(j) : m \in Present(q)
  <2>1. ASSUME NEW q \in Runs, NEW j \in Present(q)
        PROVE  /\ MayWrite(q, j, steps'[q][j])
               /\ steps'[q][j].key # Null => Line(q)' = Line(q)
               /\ \A m \in DependsOn(j) : m \in Present(q)
    <3>1. steps'[q][j] = steps[q][j]
      BY <1>1
    <3>2. MayWrite(q, j, steps'[q][j])
      BY <3>1, MayStay
    <3>3. steps[q][j].key # Null => Line(q)' = Line(q)
      BY <1>3 DEF Line
    <3> QED BY <1>2, <3>1, <3>2, <3>3, DepsPresent
  <2> QED BY <2>1, <1>8
<1> QED BY <1>4, <1>5, <1>7, <1>9, <1>10, FilesGo

\* The artifacts change, and the files do not.
LEMMA FilesBeside ==
    ASSUME Files, FilesTyped', DiskOK', DiskGrows, UNCHANGED files
    PROVE  Files' /\ FirmKept
<1>1. UNCHANGED <<pipelines, steps>>
  BY DEF files
<1>2. \A q \in Runs : /\ pipelines'[q] = Null => steps'[q] = <<>>
                      /\ pipelines'[q] # Null => (pipelines'[q].nonce => q \in ForceRefresh)
                      /\ Line(q)' = Line(q) /\ Present(q)' = Present(q)
  BY <1>1 DEF Files, FilesFit, RunFits, Line, Present
<1>3. \A q \in Runs : \A j \in Present(q) : j \in Present(q)'
  BY <1>2
<1>4. \A q \in Runs : \A j \in Present(q)' :
              /\ MayWrite(q, j, steps'[q][j])
              /\ steps'[q][j].key # Null => Line(q)' = Line(q)
              /\ \A m \in DependsOn(j) : m \in Present(q)
  <2>1. ASSUME NEW q \in Runs, NEW j \in Present(q) PROVE MayWrite(q, j, steps'[q][j])
    BY <1>1, MayStay
  <2> QED BY <2>1, <1>2, DepsPresent DEF Files
<1> QED BY <1>2, <1>3, <1>4, FilesGo

\* The files and the artifacts stay as they are.
LEMMA FilesSame ==
    ASSUME Files, UNCHANGED <<files, art>>
    PROVE  Files' /\ FirmKept
<1>1. UNCHANGED <<pipelines, steps, artifacts, commits>>
  BY DEF files, art
<1>2. FilesTyped'
  BY <1>1 DEF Files, FilesTyped
<1>3. DiskOK' /\ DiskGrows
  BY <1>1, SameDisk DEF Files
<1> QED BY <1>2, <1>3, FilesBeside DEF files, art

-----------------------------------------------------------------------------
(* What the program writes, it may write. *)

\* What the invariant says of a file.
LEMMA FileIs ==
    ASSUME Files, NEW r \in Runs, NEW i \in Present(r)
    PROVE  /\ steps[r][i] \in Doc /\ i \in Steps /\ DocFits(i, steps[r][i])
           /\ Lost = 0 => Traced(r, i, steps[r][i])
           /\ Lost = 0 /\ steps[r][i].status \in OK => Firm(r, i)
           /\ Firm(r, i) => Finished(steps[r][i])
           /\ \A j \in DependsOn(i) : j \in Present(r) /\ (Firm(r, i) => Finished(steps[r][j]))
<1>1. FilesTyped
  BY DEF Files
<1>2. steps[r][i] \in Doc /\ i \in Steps
  BY <1>1, FilesOf
<1>3. DocFits(i, steps[r][i]) /\ (Lost = 0 => Traced(r, i, steps[r][i]))
  BY DEF Files, FilesFit, RunFits, FilesTraced
<1>4. \A j \in DependsOn(i) : j \in Present(r)
  BY <1>1, DepsPresent
<1> QED BY <1>2, <1>3, <1>4, FirmUnlessLost DEF Firm

\* A finished output is found where it is expected.
LEMMA FinishedExpected ==
    ASSUME NEW s, Finished(s)
    PROVE  ExpectedValid(s) /\ (~s.suspect => DepState(s) = "valid")
BY DEF Finished, OutputValid, ExpectedValid, Expected, DepState, OK

\* What is valid for a dependent step is finished.
LEMMA ValidFinished ==
    ASSUME NEW s, DepState(s) = "valid"
    PROVE  s.status \in OK /\ ~s.suspect
BY DEF DepState

\* recover, first loop.
LEMMA MayRepair ==
    ASSUME Files, NEW r \in Runs, NEW i \in Present(r)
    PROVE  /\ RepairedDoc(i, steps[r][i]) \in Doc
           /\ MayWrite(r, i, RepairedDoc(i, steps[r][i]))
           /\ RepairedDoc(i, steps[r][i]).key = steps[r][i].key
<1>1. PICK s : s = steps[r][i]
  OBVIOUS
<1>2. /\ s \in Doc /\ DocFits(i, s) /\ (Lost = 0 => Traced(r, i, s))
      /\ (Lost = 0 /\ s.status \in OK => Firm(r, i)) /\ (Firm(r, i) => Finished(s))
      /\ MayWrite(r, i, s)
  BY <1>1, FileIs, MayStay
<1>3. PICK t : t = RepairedDoc(i, s)
  OBVIOUS
<1>4. SUFFICES t \in Doc /\ MayWrite(r, i, t) /\ t.key = s.key
  BY <1>1, <1>3
<1>5. CASE s.status = "running" /\ s.lease = 0 /\ ExpectedValid(s)
  <2>1. t = [s EXCEPT !.status = "succeeded_cached", !.out = s.key, !.lease = Null]
    BY <1>3, <1>5 DEF RepairedDoc
  <2>2. /\ t \in Doc /\ t.key = s.key /\ t.out = s.key /\ t.status = "succeeded_cached"
        /\ t.suspect = s.suspect
    BY <1>2, <2>1 DEF Doc, StepStatus
  <2>3. DocFits(i, t)
    BY <1>2, <1>5, <2>2 DEF DocFits, OK
  <2>4. ~Firm(r, i)
    BY <1>2, <1>5 DEF Finished, OK
  <2>5. ASSUME Lost = 0 PROVE Traced(r, i, t)
    <3>1. Art!Valid(t.out)
      BY <1>5, <2>2 DEF ExpectedValid
    <3> QED BY <1>2, <1>5, <2>2, <2>5, <3>1 DEF Traced, Begun, OK
  <2> QED BY <2>2, <2>3, <2>4, <2>5 DEF MayWrite
<1>6. CASE s.status = "retrying" /\ s.wait = 0
  <2>1. t = [s EXCEPT !.status = "ready", !.wait = Null]
    BY <1>3, <1>6 DEF RepairedDoc, OK
  <2>2. /\ t \in Doc /\ t.key = s.key /\ t.out = s.out /\ t.status = "ready"
        /\ t.suspect = s.suspect
    BY <1>2, <2>1 DEF Doc, StepStatus
  <2>3. DocFits(i, t)
    BY <1>2, <1>6, <2>2 DEF DocFits, OK
  <2>4. ~Firm(r, i)
    BY <1>2, <1>6 DEF Finished, OK
  <2>5. ASSUME Lost = 0 PROVE Traced(r, i, t)
    BY <1>2, <1>6, <2>2, <2>5 DEF Traced, Begun, OK
  <2> QED BY <2>2, <2>3, <2>4, <2>5 DEF MayWrite
<1>7. CASE ~ExpectedValid(s) /\ (s.status \in OK \/ (s.status = "running" /\ s.lease = 0))
  <2>1. PICK st \in {"ready", "failed"} : t = [Become(s, st) EXCEPT !.suspect = TRUE]
    BY <1>3, <1>7 DEF RepairedDoc, OK
  <2>2. PICK b : b = Become(s, st)
    OBVIOUS
  <2>3. b \in Doc /\ b.status = st /\ b.key = s.key /\ b.out = s.out
    <3>1. st \in StepStatus
      BY DEF StepStatus
    <3> QED BY <1>2, <2>2, <3>1, Becomes
  <2>4. t \in Doc /\ t.key = s.key /\ t.out = s.out /\ t.status = st
    BY <2>1, <2>2, <2>3 DEF Doc
  <2>5. DocFits(i, t)
    BY <1>2, <2>1, <2>4 DEF DocFits, OK
  <2>6. ~Firm(r, i)
    BY <1>2, <1>7, FinishedExpected
  <2>7. ASSUME Lost = 0 PROVE Traced(r, i, t)
    <3>1. s.status = "running"
      BY <1>2, <1>7, <2>6, <2>7
    <3> QED BY <1>2, <2>1, <2>4, <2>7, <3>1 DEF Traced, Begun, OK
  <2> QED BY <2>4, <2>5, <2>6, <2>7 DEF MayWrite
<1>8. CASE /\ ~(s.status = "running" /\ s.lease = 0 /\ ExpectedValid(s))
           /\ ~(s.status = "retrying" /\ s.wait = 0)
           /\ ~(~ExpectedValid(s) /\ (s.status \in OK \/ (s.status = "running" /\ s.lease = 0)))
  <2>1. t = s
    BY <1>3, <1>8 DEF RepairedDoc
  <2> QED BY <1>2, <2>1
<1> QED BY <1>5, <1>6, <1>7, <1>8

\* A step that is not finished may be set to wait, for a worker if its dependencies
\* are finished.
LEMMA MayBecome ==
    ASSUME Files, NEW r \in Runs, NEW i \in Present(r), NEW st \in {"pending", "blocked", "ready"},
           ~Firm(r, i),
           st = "ready" => \A j \in DependsOn(i) : steps[r][j].status \in OK
    PROVE  /\ Become(steps[r][i], st) \in Doc
           /\ MayWrite(r, i, Become(steps[r][i], st))
           /\ Become(steps[r][i], st).key = steps[r][i].key
<1>1. PICK s : s = steps[r][i]
  OBVIOUS
<1>2. /\ s \in Doc /\ DocFits(i, s) /\ (Lost = 0 => Traced(r, i, s))
      /\ (Lost = 0 => s.status \notin OK)
  BY <1>1, FileIs
<1>3. PICK t : t = Become(s, st)
  OBVIOUS
<1>4. /\ t \in Doc /\ t.status = st /\ t.key = s.key /\ t.out = s.out /\ t.suspect = FALSE
  <2>1. st \in StepStatus
    BY DEF StepStatus
  <2> QED BY <1>2, <1>3, <2>1, Becomes
<1>5. DocFits(i, t)
  BY <1>2, <1>4 DEF DocFits, OK
<1>6. ASSUME Lost = 0 PROVE Traced(r, i, t)
  BY <1>2, <1>4, <1>6 DEF Traced, Begun, OK
<1>7. MayWrite(r, i, t)
  BY <1>5, <1>6 DEF MayWrite
<1> QED BY <1>1, <1>3, <1>4, <1>7

\* recover, second loop.
LEMMA MayRecheck ==
    ASSUME Files, NEW r \in Runs, NEW i \in Present(r), NEW t,
           t = RecheckedDoc(steps[r][i], {DepState(steps[r][j]) : j \in DependsOn(i)})
    PROVE  t \in Doc /\ MayWrite(r, i, t) /\ t.key = steps[r][i].key
<1>1. PICK s : s = steps[r][i]
  OBVIOUS
<1>2. PICK states : states = {DepState(steps[r][j]) : j \in DependsOn(i)}
  OBVIOUS
<1>3. s \in Doc /\ t = RecheckedDoc(s, states) /\ (Firm(r, i) => Finished(s))
  BY <1>1, <1>2, FileIs
<1>4. CASE s.status # "failed" /\ "invalid" \in states
  <2>1. t = Become(s, "blocked")
    BY <1>3, <1>4 DEF RecheckedDoc
  <2>2. PICK j \in DependsOn(i) : DepState(steps[r][j]) = "invalid"
    BY <1>2, <1>4
  <2>3. j \in Present(r) /\ (Firm(r, i) => Finished(steps[r][j]))
    BY FileIs
  <2>4. steps[r][j].status \in OK => ~steps[r][j].suspect
    <3>1. DocFits(j, steps[r][j]) /\ steps[r][j] \in Doc
      BY <2>3, FileIs
    <3> QED BY <3>1 DEF DocFits, OK, Doc
  <2>5. ~Firm(r, i)
    BY <2>2, <2>3, <2>4, FinishedExpected DEF Finished
  <2> QED BY <1>1, <2>1, <2>5, MayBecome
<1>5. CASE /\ ~(s.status # "failed" /\ "invalid" \in states)
           /\ states = {"valid"} /\ s.status \in {"pending", "blocked", "ready"}
  <2>1. t = Become(s, "ready")
    BY <1>3, <1>5 DEF RecheckedDoc
  <2>2. \A j \in DependsOn(i) : steps[r][j].status \in OK
    BY <1>2, <1>5, ValidFinished
  <2>3. ~Firm(r, i)
    BY <1>3, <1>5 DEF Finished, OK
  <2> QED BY <1>1, <2>1, <2>2, <2>3, MayBecome
<1>6. CASE /\ ~(s.status # "failed" /\ "invalid" \in states)
           /\ ~(states = {"valid"} /\ s.status \in {"pending", "blocked", "ready"})
           /\ states = {"unavailable"}
           /\ s.status \in {"ready", "running", "retrying", "blocked"}
  <2>1. t = Become(s, "pending")
    BY <1>3, <1>6 DEF RecheckedDoc
  <2>2. ~Firm(r, i)
    BY <1>3, <1>6 DEF Finished, OK
  <2> QED BY <1>1, <2>1, <2>2, MayBecome
<1>7. CASE /\ ~(s.status # "failed" /\ "invalid" \in states)
           /\ ~(states = {"valid"} /\ s.status \in {"pending", "blocked", "ready"})
           /\ ~(/\ states = {"unavailable"}
                /\ s.status \in {"ready", "running", "retrying", "blocked"})
  <2>1. t = s
    BY <1>3, <1>7 DEF RecheckedDoc
  <2> QED BY <1>1, <1>3, <2>1, MayStay
<1> QED BY <1>4, <1>5, <1>6, <1>7

\* Only the status, the error, the key and the output count.
LEMMA MayLike ==
    ASSUME NEW r, NEW i, NEW s, NEW t, MayWrite(r, i, s),
           t.status = s.status, t.suspect = s.suspect, t.key = s.key, t.out = s.out
    PROVE  MayWrite(r, i, t)
BY DEF MayWrite, DocFits, Traced

\* retry.
LEMMA MayRestart ==
    ASSUME Files, NEW r \in Runs, NEW i \in Present(r), NEW t, t = Restarted(r)[i]
    PROVE  t \in Doc /\ MayWrite(r, i, t) /\ t.key = steps[r][i].key
<1>1. PICK s : s = steps[r][i]
  OBVIOUS
<1>2. s \in Doc /\ t = IF s.status \in OK THEN s ELSE RestartedDoc(i, s)
  BY <1>1, FileIs DEF Restarted
<1>3. CASE s.status \in OK
  BY <1>1, <1>2, <1>3, MayStay
<1>4. CASE s.status \notin OK
  <2>1. PICK st : st = FirstStatus(i)
    OBVIOUS
  <2>2. st \in {"ready", "pending"} /\ (st = "ready" => DependsOn(i) = {})
    BY <2>1, FirstStatuses
  <2>3. PICK b : b = Become(s, st)
    OBVIOUS
  <2>4. ~Firm(r, i)
    BY <1>1, <1>4, FileIs DEF Finished
  <2>5. b \in Doc /\ MayWrite(r, i, b) /\ b.key = s.key
    <3>1. st \in {"pending", "blocked", "ready"}
      BY <2>2
    <3>2. st = "ready" => \A j \in DependsOn(i) : steps[r][j].status \in OK
      BY <2>2
    <3> QED BY <1>1, <2>3, <2>4, <3>1, <3>2, MayBecome
  <2>6. t = [b EXCEPT !.attempt = 0]
    BY <1>2, <1>4, <2>1, <2>3 DEF RestartedDoc
  <2>7. /\ t \in Doc /\ t.status = b.status /\ t.suspect = b.suspect
        /\ t.key = b.key /\ t.out = b.out
    BY <2>5, <2>6 DEF Doc
  <2> QED BY <1>1, <2>5, <2>7, MayLike
<1> QED BY <1>3, <1>4

\* _promote and _promote_by_dependencies.
LEMMA MayPromote ==
    ASSUME Files, NEW r \in Runs, NEW i \in Present(r), NEW from, from \cap OK = {},
           NEW t, t = Promoted(r, from)[i]
    PROVE  t \in Doc /\ MayWrite(r, i, t) /\ t.key = steps[r][i].key
<1>1. CASE steps[r][i].status \in from /\ DepsValid(r, i)
  <2>1. t = Become(steps[r][i], "ready")
    BY <1>1 DEF Promoted
  <2>2. ~Firm(r, i)
    BY <1>1, FileIs DEF Finished
  <2>3. \A j \in DependsOn(i) : steps[r][j].status \in OK
    BY <1>1 DEF DepsValid
  <2> QED BY <2>1, <2>2, <2>3, MayBecome
<1>2. CASE ~(steps[r][i].status \in from /\ DepsValid(r, i))
  <2>1. t = steps[r][i]
    BY <1>2 DEF Promoted
  <2> QED BY <2>1, FileIs, MayStay
<1> QED BY <1>1, <1>2

\* A step is refused for its dependencies only after a loss.
LEMMA RefusedByLoss ==
    ASSUME Files, NEW r \in Runs, NEW i \in Present(r), steps[r][i].status \in {"ready", "retrying"},
           Lost = 0
    PROVE  Verdict(r, i) = "valid"
<1>1. \A j \in DependsOn(i) : steps[r][j].status \in OK /\ j \in Present(r)
  BY FileIs DEF Traced, Begun
<1>2. ASSUME NEW j \in DependsOn(i)
      PROVE  steps[r][j].status \in OK /\ OutputValid(steps[r][j]) /\ steps[r][j].suspect = FALSE
  <2>1. Finished(steps[r][j]) /\ DocFits(j, steps[r][j]) /\ steps[r][j] \in Doc
    BY <1>1, FileIs
  <2> QED BY <1>1, <2>1 DEF Finished, DocFits, Doc, OK
<1>3. PICK deps : deps = {steps[r][j] : j \in DependsOn(i)}
  OBVIOUS
<1>4. \A x \in deps : x.status \in OK /\ OutputValid(x) /\ x.suspect = FALSE
  BY <1>2, <1>3
<1>5. Verdict(r, i) = IF \E x \in deps : x.status \in {"failed", "blocked"} \/ x.suspect THEN "invalid"
                      ELSE IF \E x \in deps : x.status \notin OK THEN "unavailable"
                      ELSE IF \E x \in deps : ~OutputValid(x) THEN "invalid"
                      ELSE "valid"
  BY <1>3 DEF Verdict
<1> QED BY <1>4, <1>5 DEF OK

\* A step that may be claimed has finished dependencies with outputs.
LEMMA VerdictValid ==
    ASSUME NEW r, NEW i, Verdict(r, i) = "valid"
    PROVE  \A j \in DependsOn(i) : steps[r][j].status \in OK /\ OutputValid(steps[r][j])
<1>1. PICK deps : deps = {steps[r][j] : j \in DependsOn(i)}
  OBVIOUS
<1>2. Verdict(r, i) = IF \E x \in deps : x.status \in {"failed", "blocked"} \/ x.suspect THEN "invalid"
                      ELSE IF \E x \in deps : x.status \notin OK THEN "unavailable"
                      ELSE IF \E x \in deps : ~OutputValid(x) THEN "invalid"
                      ELSE "valid"
  BY <1>1 DEF Verdict
<1>3. \A x \in deps : x.status \in OK /\ OutputValid(x)
  BY <1>2
<1> QED BY <1>1, <1>3

\* The key of a step names its type, its request and the output it starts from.
LEMMA KeyOf ==
    ASSUME Files, NEW r \in Listed, NEW i \in Present(r), Verdict(r, i) = "valid"
    PROVE  /\ CacheKey(r, i) \in ArtifactKeys /\ CacheKey(r, i).step = i
           /\ MadeFor(r, i, CacheKey(r, i))
<1>1. r \in Runs /\ i \in Steps /\ pipelines[r] # Null
  BY FileIs DEF Listed
<1>2. PICK line : line = IF i \in UsesParams THEN Line(r) ELSE <<"unused", 0>>
  OBVIOUS
<1> DEFINE chosen == CHOOSE k \in Inputs(r, i) : TRUE
           gen == Art!Gen(chosen)
<1>3. PICK input : input = IF DependsOn(i) = {} THEN 0 ELSE gen
  <2> HIDE DEF gen
  <2> QED OBVIOUS
<1>4. CacheKey(r, i) = [step |-> i, line |-> line, input |-> input]
  BY <1>2, <1>3 DEF CacheKey
<1>5. line \in Lines
  <2>1. pipelines[r].nonce => r \in ForceRefresh
    BY <1>1 DEF Files, FilesFit, RunFits
  <2> QED BY <1>1, <1>2, <2>1 DEF Line, Lines
<1>6. \A j \in DependsOn(i) : input = Art!Gen(steps[r][j].out) /\ input \in 0..MaxCommits
  <2>1. SUFFICES ASSUME NEW j \in DependsOn(i)
                 PROVE  input = Art!Gen(steps[r][j].out) /\ input \in 0..MaxCommits
    OBVIOUS
  <2>2. PICK out : out = steps[r][j].out
    OBVIOUS
  <2>3. DependsOn(i) = {j}
    BY StepNumbers
  <2>4. Inputs(r, i) = {out}
    BY <2>2, <2>3 DEF Inputs
  <2>5. input = Art!Gen(out)
    BY <1>3, <2>3, <2>4
  <2>6. Art!Valid(out)
    BY <2>2, VerdictValid DEF OutputValid
  <2>7. Art!Gen(out) \in 0..MaxCommits
    BY <2>6, GenType DEF Files
  <2> QED BY <2>2, <2>5, <2>7
<1>7. input \in 0..MaxCommits
  <2>1. CASE DependsOn(i) = {}
    BY <1>3, <2>1, StepNumbers
  <2>2. CASE DependsOn(i) # {}
    BY <1>6, <2>2
  <2> QED BY <2>1, <2>2
<1>8. CacheKey(r, i) \in ArtifactKeys /\ CacheKey(r, i).step = i
  BY <1>1, <1>4, <1>5, <1>7 DEF ArtifactKeys
<1>9. MadeFor(r, i, CacheKey(r, i))
  BY <1>2, <1>4, <1>6, VerdictValid DEF MadeFor
<1> QED BY <1>8, <1>9

\* claim_one.
LEMMA MayClaim ==
    ASSUME Files, NEW r \in Listed, NEW i \in Present(r),
           steps[r][i].status \in {"ready", "retrying"}, Verdict(r, i) = "valid"
    PROVE  /\ ClaimedDoc(r, i, steps[r][i]) \in Doc
           /\ MayWrite(r, i, ClaimedDoc(r, i, steps[r][i]))
           /\ ClaimedDoc(r, i, steps[r][i]).status = "running"
<1>1. PICK s : s = steps[r][i]
  OBVIOUS
<1>2. /\ s \in Doc /\ DocFits(i, s) /\ (Lost = 0 => Traced(r, i, s)) /\ r \in Runs
      /\ (Firm(r, i) => Finished(s))
  BY <1>1, FileIs DEF Listed
<1>3. PICK key : key = CacheKey(r, i)
  OBVIOUS
<1>4. key \in ArtifactKeys /\ key.step = i /\ MadeFor(r, i, key) /\ key # Null
  BY <1>3, KeyOf, NullAssumption
<1>5. PICK b : b = Become(s, "running")
  OBVIOUS
<1>6. b \in Doc /\ b.status = "running" /\ b.out = s.out /\ b.suspect = FALSE
  <2>1. "running" \in StepStatus
    BY DEF StepStatus
  <2> QED BY <1>2, <1>5, <2>1, Becomes
<1>7. PICK t : t = ClaimedDoc(r, i, s)
  OBVIOUS
<1>8. t = [b EXCEPT !.attempt = @ + 1, !.lease = Lease, !.key = key]
  BY <1>3, <1>5, <1>7 DEF ClaimedDoc
<1>9. t \in Doc /\ t.status = "running" /\ t.out = s.out /\ t.suspect = FALSE /\ t.key = key
  <2>1. PICK n : n = b.attempt + 1
    OBVIOUS
  <2>2. n \in Nat /\ Lease \in 0..Lease
    BY <1>6, <2>1, StepNumbers DEF Doc
  <2>3. t = [b EXCEPT !.attempt = n, !.lease = Lease, !.key = key]
    BY <1>6, <1>8, <2>1 DEF Doc
  <2> QED BY <1>4, <1>6, <2>2, <2>3 DEF Doc
<1>10. DocFits(i, t) /\ ~Firm(r, i)
  BY <1>1, <1>2, <1>4, <1>9 DEF DocFits, Finished, OK
<1>11. ASSUME Lost = 0 PROVE Traced(r, i, t)
  <2>1. \A j \in DependsOn(i) : steps[r][j].status \in OK
    BY VerdictValid
  <2>2. s.out = Null
    BY <1>1, <1>2, <1>11 DEF Traced, OK
  <2> QED BY <1>4, <1>9, <2>1, <2>2 DEF Traced, OK
<1>12. MayWrite(r, i, t)
  BY <1>10, <1>11 DEF MayWrite
<1> QED BY <1>1, <1>7, <1>9, <1>12

\* execute, where the artifact is there already.
LEMMA MayFind ==
    ASSUME Files, NEW r \in Runs, NEW i \in Present(r), steps[r][i].status = "running",
           Art!Valid(steps[r][i].key),
           NEW t, t = [Become(steps[r][i], "succeeded_cached") EXCEPT !.out = steps[r][i].key]
    PROVE  t \in Doc /\ MayWrite(r, i, t) /\ t.key = steps[r][i].key
<1>1. PICK s : s = steps[r][i]
  OBVIOUS
<1>2. /\ s \in Doc /\ DocFits(i, s) /\ (Lost = 0 => Traced(r, i, s))
      /\ (Firm(r, i) => Finished(s))
  BY <1>1, FileIs
<1>3. PICK b : b = Become(s, "succeeded_cached")
  OBVIOUS
<1>4. b \in Doc /\ b.status = "succeeded_cached" /\ b.key = s.key /\ b.suspect = FALSE
  <2>1. "succeeded_cached" \in StepStatus
    BY DEF StepStatus
  <2> QED BY <1>2, <1>3, <2>1, Becomes
<1>5. t = [b EXCEPT !.out = s.key]
  BY <1>1, <1>3
<1>6. /\ t \in Doc /\ t.status = "succeeded_cached" /\ t.key = s.key /\ t.out = s.key
      /\ t.suspect = FALSE
  BY <1>2, <1>4, <1>5 DEF Doc
<1>7. DocFits(i, t) /\ ~Firm(r, i)
  BY <1>1, <1>2, <1>6 DEF DocFits, Finished, OK
<1>8. ASSUME Lost = 0 PROVE Traced(r, i, t)
  <2>1. Art!Valid(t.out)
    BY <1>1, <1>6
  <2> QED BY <1>1, <1>2, <1>6, <1>8, <2>1 DEF Traced, Begun, OK
<1>9. MayWrite(r, i, t)
  BY <1>7, <1>8 DEF MayWrite
<1> QED BY <1>1, <1>6, <1>9

\* The end of execute: what it has read may be old, but not its key.
LEMMA MaySave ==
    ASSUME Files, NEW w, NEW me, InFlight(w, me), Lost = 0 => Art!Valid(me.doc.key),
           NEW t, t = SavedDoc(me.doc)
    PROVE  t \in Doc /\ MayWrite(me.run, w, t) /\ t.key = steps[me.run][w].key
<1>1. PICK r, d, s : r = me.run /\ d = me.doc /\ s = steps[r][w]
  OBVIOUS
<1>2. /\ r \in Runs /\ w \in Present(r) /\ d \in Doc /\ d.key \in ArtifactKeys /\ d.key = s.key
      /\ d.key # Null
  BY <1>1, NullAssumption DEF InFlight
<1>3. DocFits(w, s) /\ (Lost = 0 => Traced(r, w, s)) /\ (Firm(r, w) => Finished(s))
  BY <1>1, <1>2, FileIs
<1>4. PICK b : b = Become(d, "succeeded")
  OBVIOUS
<1>5. b \in Doc /\ b.status = "succeeded" /\ b.key = d.key /\ b.suspect = FALSE
  <2>1. "succeeded" \in StepStatus
    BY DEF StepStatus
  <2> QED BY <1>2, <1>4, <2>1, Becomes
<1>6. t = [b EXCEPT !.out = d.key]
  BY <1>1, <1>4 DEF SavedDoc
<1>7. /\ t \in Doc /\ t.status = "succeeded" /\ t.key = d.key /\ t.out = d.key
      /\ t.suspect = FALSE
  BY <1>2, <1>5, <1>6 DEF Doc
<1>8. DocFits(w, t)
  BY <1>2, <1>3, <1>7 DEF DocFits
<1>9. ASSUME Lost = 0 PROVE Traced(r, w, t)
  <2>1. Art!Valid(t.out)
    BY <1>1, <1>7, <1>9
  <2>2. MadeFor(r, w, t.key)
    BY <1>2, <1>3, <1>7, <1>9 DEF Traced
  <2> QED BY <1>7, <2>1, <2>2 DEF Traced, MadeFor, OK
<1>10. Firm(r, w) => t.status \in OK /\ t.out = s.out
  BY <1>2, <1>3, <1>7 DEF Finished, DocFits, OK
<1>11. MayWrite(r, w, t)
  BY <1>1, <1>8, <1>9, <1>10 DEF MayWrite
<1> QED BY <1>1, <1>2, <1>7, <1>11

\* A failed attempt may replace the file by its own document, which has the same key.
LEMMA MayFail ==
    ASSUME Files, NEW w \in Workers, NEW me, InFlight(w, me), ~Saving(w),
           NEW t, t = FailedDoc(w, me.doc)
    PROVE  t \in Doc /\ MayWrite(me.run, w, t) /\ t.key = steps[me.run][w].key
<1>1. PICK r, d, s : r = me.run /\ d = me.doc /\ s = steps[r][w]
  OBVIOUS
<1>2. /\ r \in Runs /\ w \in Present(r) /\ d \in Doc /\ d.key \in ArtifactKeys /\ d.key = s.key
      /\ d.key # Null /\ ~Art!Valid(d.key) /\ (Lost = 0 => d.out = Null)
  BY <1>1, NullAssumption DEF InFlight
<1>3. DocFits(w, s) /\ (Lost = 0 => Traced(r, w, s)) /\ (Firm(r, w) => Finished(s))
  BY <1>1, <1>2, FileIs
<1>4. ~Firm(r, w)
  <2>1. Firm(r, w) => Art!Valid(s.out) /\ s.out = s.key
    BY <1>3 DEF Finished, OutputValid
  <2> QED BY <1>2, <2>1
<1>5. PICK st : st = IF AttemptsLeft(w, d) THEN "retrying" ELSE "failed"
  OBVIOUS
<1>6. PICK b : b = Become(d, st)
  OBVIOUS
<1>7. b \in Doc /\ b.status = st /\ b.key = d.key /\ b.out = d.out /\ b.suspect = FALSE
  <2>1. st \in StepStatus
    BY <1>5 DEF StepStatus
  <2> QED BY <1>2, <1>6, <2>1, Becomes
<1>8. t = b \/ t = [b EXCEPT !.wait = RetryDelay]
  BY <1>1, <1>5, <1>6 DEF FailedDoc
<1>9. /\ t \in Doc /\ t.status = st /\ t.key = d.key /\ t.out = d.out /\ t.suspect = FALSE
  <2>1. RetryDelay \in 0..RetryDelay
    BY StepNumbers
  <2> QED BY <1>7, <1>8, <2>1 DEF Doc
<1>10. DocFits(w, t)
  BY <1>2, <1>3, <1>5, <1>9 DEF DocFits, OK
<1>11. ASSUME Lost = 0 PROVE Traced(r, w, t)
  <2>1. MadeFor(r, w, t.key)
    BY <1>2, <1>3, <1>9, <1>11 DEF Traced
  <2> QED BY <1>2, <1>5, <1>9, <1>11, <2>1 DEF Traced, MadeFor, OK
<1>12. MayWrite(r, w, t)
  BY <1>4, <1>10, <1>11 DEF MayWrite
<1> QED BY <1>1, <1>2, <1>9, <1>12

-----------------------------------------------------------------------------
(* What a step leaves of the rest. *)

\* Records of the loop.
LEMMA LoopRecords ==
    ASSUME LoopTyped
    PROVE  /\ Free \in Loops /\ Free.pc = "free" /\ Free.w = 0 /\ Free.run = 0 /\ Free.todo = {}
           /\ \A w \in Workers \cup {0} : /\ Recovering(w) \in Loops
                                          /\ Recovering(w).pc = "recover" /\ Recovering(w).w = w
                                          /\ Recovering(w).run = 0 /\ Recovering(w).todo = Listed
           /\ \A pc \in LoopPC : /\ To(pc) \in Loops
                                 /\ To(pc).pc = pc /\ To(pc).w = loop.w
                                 /\ To(pc).run = loop.run /\ To(pc).todo = loop.todo
           /\ loop.pc \in LoopPC /\ loop.w \in Workers \cup {0} /\ loop.run \in Runs \cup {0}
           /\ loop.todo \in SUBSET Runs
           /\ Sleeping \in Tasks /\ Sleeping.pc = "sleeping"
           /\ \A w \in Workers : task[w] \in Tasks
<1>1. loop \in Loops /\ task \in [Workers -> Tasks] /\ Listed \subseteq Runs
  BY DEF LoopTyped, Listed
<1>2. /\ Free \in Loops /\ Free.pc = "free" /\ Free.w = 0 /\ Free.run = 0 /\ Free.todo = {}
  BY DEF Free, Loops, LoopPC
<1>3. \A w \in Workers \cup {0} : /\ Recovering(w) \in Loops
                                  /\ Recovering(w).pc = "recover" /\ Recovering(w).w = w
                                  /\ Recovering(w).run = 0 /\ Recovering(w).todo = Listed
  BY <1>1 DEF Recovering, Loops, LoopPC
<1>4. \A pc \in LoopPC : /\ To(pc) \in Loops
                         /\ To(pc).pc = pc /\ To(pc).w = loop.w
                         /\ To(pc).run = loop.run /\ To(pc).todo = loop.todo
  BY <1>1 DEF To, Loops
<1>5. Sleeping \in Tasks /\ Sleeping.pc = "sleeping"
  BY DEF Sleeping, Tasks, TaskPC
<1> QED BY <1>1, <1>2, <1>3, <1>4, <1>5 DEF Loops

\* What the write of one file leaves alone.
LEMMA SaveFrame ==
    ASSUME Files, NEW r \in Runs, NEW i \in Present(r), NEW s \in Doc, SaveStep(r, i, s)
    PROVE  /\ UNCHANGED <<pipelines, art, life>> /\ Listed' = Listed
           /\ DiskGrows /\ \A k : Art!Valid(k)' <=> Art!Valid(k)
           /\ \A q \in Runs : /\ Len(steps'[q]) = Len(steps[q]) /\ Present(q)' = Present(q)
                              /\ steps'[q] = <<>> <=> steps[q] = <<>>
           /\ \A q \in Runs : \A j \in Present(q) :
                 steps'[q][j] = IF q = r /\ j = i THEN s ELSE steps[q][j]
<1>1. Writes(r, i, s) /\ UNCHANGED <<pipelines, art, life>>
  BY DEF SaveStep, Writes
<1>2. FilesTyped
  BY DEF Files
<1>3. /\ \A q \in Runs : /\ Len(steps'[q]) = Len(steps[q]) /\ Present(q)' = Present(q)
                         /\ steps'[q] = <<>> <=> steps[q] = <<>>
      /\ \A q \in Runs : \A j \in Present(q) :
            steps'[q][j] = IF q = r /\ j = i THEN s ELSE steps[q][j]
  BY <1>1, <1>2, Written
<1>4. DiskGrows /\ \A k : Art!Valid(k)' <=> Art!Valid(k)
  BY <1>1, SameDisk DEF art
<1>5. Listed' = Listed
  BY <1>1 DEF Listed
<1> QED BY <1>1, <1>3, <1>4, <1>5

\* It is enough that the tasks in W fit, and that nothing that the others rely on
\* has changed.
LEMMA TasksGo ==
    ASSUME Files, TasksFit, DiskGrows, NEW W,
           \A r \in Runs : steps[r] # <<>> => steps'[r] # <<>>,
           \A w \in Workers \ W :
              /\ task'[w] = task[w]
              /\ \A r \in Runs : w \in Present(r) =>
                    w \in Present(r)' /\ steps'[r][w].key = steps[r][w].key
              /\ Saving(w) => Saving(w)',
           \A k \in ArtifactKeys : k.step \notin W /\ Art!Valid(k)' => Art!Valid(k),
           \A w \in W : TaskFits(w, task[w])'
    PROVE  TasksFit'
<1>1. SUFFICES ASSUME NEW w \in Workers \ W PROVE TaskFits(w, task[w])'
  BY DEF TasksFit
<1>2. PICK me : me = task[w]
  OBVIOUS
<1>3. TaskFits(w, me) /\ task'[w] = me
  BY <1>2 DEF TasksFit
<1>4. ASSUME me.pc = "closing" PROVE me.run \in Runs /\ steps'[me.run] # <<>>
  BY <1>3, <1>4 DEF TaskFits
<1>5. ASSUME me.pc = "filtering" PROVE InFlight(w, me)'
  <2>1. PICK k : k = me.doc.key
    OBVIOUS
  <2>2. /\ me.run \in Runs /\ w \in Present(me.run) /\ me.doc \in Doc /\ k \in ArtifactKeys
        /\ k = steps[me.run][w].key /\ (~Saving(w) => ~Art!Valid(k))
        /\ (Lost = 0 => me.doc.out = Null)
    BY <1>3, <1>5, <2>1 DEF TaskFits, InFlight
  <2>3. w \in Present(me.run)' /\ steps'[me.run][w].key = k
    BY <2>2
  <2>4. k.step = w
    BY <2>2, FileIs, NullAssumption DEF DocFits
  <2>5. ~Saving(w)' => ~Art!Valid(k)'
    BY <2>2, <2>4
  <2>6. Lost' = 0 => me.doc.out = Null
    BY <2>2 DEF DiskGrows
  <2>7. (~Art!Valid(me.doc.key))' <=> ~Art!Valid(k)'
    BY <2>1
  <2> QED BY <2>1, <2>2, <2>3, <2>5, <2>6, <2>7 DEF InFlight, Art!Valid
<1> QED BY <1>3, <1>4, <1>5 DEF TaskFits

\* The statuses that run r depends on stay as they are.
Beside(r) ==
    /\ pipelines'[r] = pipelines[r] /\ Len(steps'[r]) = Len(steps[r])
    /\ \A i \in Present(r) : steps'[r][i].status = steps[r][i].status

\* The statuses of a run are those of its files, before and after the files of another run change.
LEMMA BesideStatuses ==
    ASSUME FilesTyped, FilesTyped', NEW r \in Runs, Beside(r)
    PROVE  /\ Statuses(r)' = Statuses(r) /\ Present(r)' = Present(r)
           /\ steps'[r] = <<>> <=> steps[r] = <<>>
           /\ steps[r] # <<>> => LastOf(r)'.status = LastOf(r).status
<1>1. Present(r)' = Present(r)
  BY DEF Beside, Present
<1>2. Statuses(r)' = Statuses(r)
  BY <1>1 DEF Statuses, Beside
<1>3. steps[r] \in Seq(Doc) /\ steps'[r] \in Seq(Doc)
  BY DEF FilesTyped
<1>4. steps'[r] = <<>> <=> steps[r] = <<>>
  BY <1>3, EmptySeq DEF Beside
<1>5. steps[r] # <<>> => LastOf(r)'.status = LastOf(r).status
  <2>1. steps[r] # <<>> => Len(steps[r]) \in Present(r)
    BY FilesOf
  <2> QED BY <2>1 DEF LastOf, Beside
<1> QED BY <1>1, <1>2, <1>4, <1>5

\* A run of which neither files nor closing task change stays settled.
LEMMA SettledBeside ==
    ASSUME FilesTyped, FilesTyped', DiskOK, DiskGrows, NEW r \in Runs, Beside(r), Settled(r),
           Closing(r) => Closing(r)'
    PROVE  Settled(r)'
<1>1. /\ Statuses(r)' = Statuses(r) /\ steps'[r] # <<>> /\ steps[r] # <<>>
      /\ LastOf(r)'.status = LastOf(r).status
  BY BesideStatuses DEF Settled
<1>2. Derived(r, "queued")' = Derived(r, "queued") /\ RefusedStatus(r)' = RefusedStatus(r)
  BY <1>1 DEF Derived, RefusedStatus
<1>3. Agrees(r) => Agrees(r)'
  BY <1>1, <1>2 DEF Agrees, Beside, DiskGrows, Lost
<1> QED BY <1>1, <1>3 DEF Settled

\* It is enough that a run is dealt with, or that nothing happens to it.
Undisturbed(r) ==
    /\ Beside(r)
    /\ Closing(r) => Closing(r)'
    /\ Busy(r) => Busy(r)'

\* When the files stay, the runs that were settled or behind remain so.
LEMMA RunsGo ==
    ASSUME Files, Files', RunsSettled, up, DiskGrows,
           \A r \in Listed' : Busy(r)' \/ Settled(r)' \/ Undisturbed(r)
    PROVE  RunsSettled'
<1>1. SUFFICES ASSUME NEW r \in Listed', Undisturbed(r) PROVE Busy(r)' \/ Settled(r)'
  BY DEF RunsSettled
<1>2. r \in Runs /\ r \in Listed
  BY <1>1 DEF Listed, Undisturbed, Beside
<1>3. Busy(r) \/ Settled(r)
  BY <1>2 DEF RunsSettled
<1> QED BY <1>1, <1>2, <1>3, SettledBeside DEF Files, Undisturbed

-----------------------------------------------------------------------------
(* The steps that write no file. *)

\* What is the same for all of them.
LEMMA GoKeeps ==
    ASSUME JInv, NEW after \in Loops, Go(after), loop.pc # "save"
    PROVE  /\ Files' /\ FirmKept /\ LoopTyped' /\ TasksFit'
           /\ loop' = after /\ UNCHANGED <<pipelines, steps, art, life, task>>
           /\ DiskGrows /\ Listed' = Listed
           /\ \A r : /\ (Closing(r) <=> Closing(r)') /\ Present(r)' = Present(r)
                     /\ Statuses(r)' = Statuses(r) /\ LastOf(r)' = LastOf(r)
           /\ \A r \in Runs : Beside(r) /\ (Settled(r) => Settled(r)')
<1>1. loop' = after /\ UNCHANGED <<pipelines, steps, files, art, life, task>>
  BY DEF Go, files
<1>2. Files' /\ FirmKept
  BY <1>1, FilesSame DEF JInv
<1>3. DiskGrows /\ \A k : Art!Valid(k)' <=> Art!Valid(k)
  BY <1>1, SameDisk DEF art
<1>4. LoopTyped'
  BY <1>1 DEF JInv, LoopTyped, Loops, life
<1>5. \A r : Present(r)' = Present(r)
  BY <1>1 DEF Present
<1>6. TasksFit'
  <2>1. \A r \in Runs : steps[r] # <<>> => steps'[r] # <<>>
    BY <1>1
  <2>2. \A w \in Workers : ~Saving(w)
    BY DEF Saving
  <2>3. \A w \in Workers \ {} :
              /\ task'[w] = task[w]
              /\ \A r \in Runs : w \in Present(r) =>
                    w \in Present(r)' /\ steps'[r][w].key = steps[r][w].key
              /\ Saving(w) => Saving(w)'
    BY <1>1, <1>5, <2>2
  <2>4. \A k \in ArtifactKeys : k.step \notin {} /\ Art!Valid(k)' => Art!Valid(k)
    BY <1>3
  <2>5. \A w \in {} : TaskFits(w, task[w])'
    OBVIOUS
  <2>6. Files /\ TasksFit
    BY DEF JInv
  <2> HIDE DEF TaskFits, TasksFit
  <2> QED BY <1>3, <2>1, <2>3, <2>4, <2>5, <2>6, TasksGo
<1>7. \A r : /\ (Closing(r) <=> Closing(r)')
             /\ Statuses(r)' = Statuses(r) /\ LastOf(r)' = LastOf(r)
  BY <1>1, <1>5 DEF Closing, Statuses, LastOf
<1>8. Listed' = Listed
  BY <1>1 DEF Listed
<1>9. ASSUME NEW r \in Runs PROVE Beside(r) /\ (Settled(r) => Settled(r)')
  <2>1. Beside(r)
    BY <1>1 DEF Beside
  <2>2. FilesTyped /\ FilesTyped' /\ DiskOK
    BY <1>2 DEF JInv, Files
  <2> QED BY <1>3, <1>7, <2>1, <2>2, SettledBeside
<1> QED BY <1>1, <1>2, <1>3, <1>4, <1>5, <1>6, <1>7, <1>8, <1>9

\* The places that have nothing to do with a run.
LEMMA LoopFree ==
    ASSUME LoopTyped', loop'.pc \in {"free", "recover", "claim"}, up',
           loop'.todo \subseteq Listed',
           loop'.pc = "claim" => loop'.w \in Workers,
           loop'.pc \in {"recover", "claim"} /\ loop'.w # 0 => task'[loop'.w].pc = "sleeping"
    PROVE  LoopFits'
BY DEF LoopFits, InRun, Passing, Worked, InFilter

\* recover() begins with a run.
LEMMA KeepRecoverRun ==
    ASSUME JInv, RecoverRun
    PROVE  JInv' /\ FirmKept
<1>1. up /\ loop.pc = "recover" /\ LoopTyped
  BY DEF RecoverRun, At, JInv
<1>2. PICK r \in loop.todo : Go([loop EXCEPT !.pc = "repair", !.run = r, !.todo = @ \ {r}])
  BY DEF RecoverRun
<1>3. PICK after : after = [loop EXCEPT !.pc = "repair", !.run = r, !.todo = @ \ {r}]
  OBVIOUS
<1>4. r \in Runs /\ r \in Listed /\ loop.todo \subseteq Listed
  BY <1>1, <1>2, LoopRecords DEF JInv, LoopFits
<1>5. /\ after \in Loops /\ after.pc = "repair" /\ after.run = r /\ after.todo = loop.todo \ {r}
      /\ after.w = loop.w
  BY <1>1, <1>3, <1>4 DEF LoopTyped, Loops, LoopPC
<1>6. Go(after)
  BY <1>2, <1>3
<1>7. /\ Files' /\ FirmKept /\ LoopTyped' /\ TasksFit'
      /\ loop' = after /\ UNCHANGED <<pipelines, steps, art, life, task>>
      /\ DiskGrows /\ Listed' = Listed
      /\ \A q : (Closing(q) <=> Closing(q)')
      /\ \A q \in Runs : Beside(q)
  BY <1>1, <1>5, <1>6, GoKeeps
<1>8. LoopFits'
  BY <1>1, <1>4, <1>5, <1>7 DEF JInv, LoopFits, InRun, Passing, Worked, InFilter, life
<1>9. RunsSettled'
  <2>1. \A q \in Runs : Undisturbed(q)
    BY <1>1, <1>4, <1>5, <1>7 DEF Undisturbed, Busy, InRun, Passing, InFilter, LoopPC
  <2>2. \A q \in Listed' : Busy(q)' \/ Settled(q)' \/ Undisturbed(q)
    BY <2>1 DEF Listed
  <2>3. Files /\ RunsSettled
    BY DEF JInv
  <2> HIDE DEF RunsSettled, Busy, Settled
  <2> QED BY <1>1, <1>7, <2>2, <2>3, RunsGo
<1> QED BY <1>7, <1>8, <1>9 DEF JInv

\* A task without a run goes on to another place without one.
LEMMA KeepGo ==
    ASSUME JInv, up, NEW after \in Loops, Go(after),
           loop.pc \in {"free", "recover", "claim"} /\ after.pc \in {"free", "recover", "claim"},
           after.pc = "recover" => after.todo = Listed,
           after.todo \subseteq Listed,
           loop.pc = "recover" => loop.todo = {},
           after.pc = "claim" => after.w \in Workers,
           after.pc \in {"recover", "claim"} /\ after.w # 0 => task[after.w].pc = "sleeping"
    PROVE  JInv' /\ FirmKept
<1>1. /\ Files' /\ FirmKept /\ LoopTyped' /\ TasksFit'
      /\ loop' = after /\ UNCHANGED <<pipelines, steps, art, life, task>>
      /\ DiskGrows /\ Listed' = Listed
      /\ \A q : (Closing(q) <=> Closing(q)')
      /\ \A q \in Runs : Beside(q)
  BY GoKeeps
<1>2. up' = up
  BY <1>1 DEF life
<1>3. LoopFits'
  BY <1>1, <1>2, LoopFree
<1>4. RunsSettled'
  <2>1. \A q \in Runs : ~Busy(q)
    BY DEF Busy, InRun, Passing
  <2>2. \A q \in Listed' : Undisturbed(q)
    BY <1>1, <2>1 DEF Undisturbed, Listed
  <2>3. Files /\ RunsSettled
    BY DEF JInv
  <2> HIDE DEF RunsSettled, Busy, Settled
  <2> QED BY <1>1, <2>2, <2>3, RunsGo
<1> QED BY <1>1, <1>3, <1>4 DEF JInv

\* recover() is through: claim_one is next, or the workers after a start.
LEMMA KeepRecovered ==
    ASSUME JInv, Recovered
    PROVE  JInv' /\ FirmKept
<1>1. up /\ loop.pc = "recover" /\ loop.todo = {} /\ LoopTyped /\ LoopFits
  BY DEF Recovered, At, JInv
<1>2. PICK after : after = IF loop.w = 0 THEN Free
                           ELSE [loop EXCEPT !.pc = "claim", !.run = 0, !.todo = Listed]
  OBVIOUS
<1>3. Go(after)
  BY <1>2 DEF Recovered
<1>4. CASE loop.w = 0
  <2>1. after \in Loops /\ after.pc = "free" /\ after.todo = {}
    BY <1>1, <1>2, <1>4, LoopRecords
  <2> QED BY <1>1, <1>3, <2>1, KeepGo
<1>5. CASE loop.w # 0
  <2>1. after = [loop EXCEPT !.pc = "claim", !.run = 0, !.todo = Listed]
    BY <1>2, <1>5
  <2>2. /\ after \in Loops /\ after.pc = "claim" /\ after.todo = Listed /\ after.w = loop.w
        /\ loop.w \in Workers
    BY <1>1, <1>5, <2>1 DEF LoopTyped, Loops, LoopPC, Listed
  <2>3. task[after.w].pc = "sleeping"
    BY <1>1, <1>5, <2>2 DEF LoopFits, Passing, InFilter
  <2> QED BY <1>1, <1>3, <2>2, <2>3, KeepGo
<1> QED BY <1>4, <1>5

\* claim_one finds nothing.
LEMMA KeepNothingToClaim ==
    ASSUME JInv, NothingToClaim
    PROVE  JInv' /\ FirmKept
<1>1. up /\ loop.pc = "claim" /\ Go(Free) /\ LoopTyped
  BY DEF NothingToClaim, At, JInv
<1>2. Free \in Loops /\ Free.pc = "free" /\ Free.todo = {}
  BY <1>1, LoopRecords
<1> QED BY <1>1, <1>2, KeepGo

\* A sleeping worker gets the loop.
LEMMA KeepWakeUp ==
    ASSUME JInv, NEW w \in Workers, WakeUp(w)
    PROVE  JInv' /\ FirmKept
<1>1. up /\ loop.pc = "free" /\ task[w].pc = "sleeping" /\ Go(Recovering(w)) /\ LoopTyped
  BY DEF WakeUp, At, JInv
<1>2. PICK after : after = Recovering(w)
  OBVIOUS
<1>3. after \in Loops /\ after.pc = "recover" /\ after.w = w /\ after.todo = Listed /\ Go(after)
  BY <1>1, <1>2, LoopRecords
<1> QED BY <1>1, <1>3, KeepGo

\* A filter is resumed or fails.
LEMMA KeepFilter ==
    ASSUME JInv, up, NEW after \in Loops, Go(after),
           loop.pc = "free" \/ (loop.pc = "filter" /\ after.w = loop.w),
           after.pc \in {"filter", "failing"}, after.todo \subseteq Listed,
           after.w \in Workers, task[after.w].pc = "filtering", task[after.w].run = after.run
    PROVE  JInv' /\ FirmKept
<1>1. /\ Files' /\ FirmKept /\ LoopTyped' /\ TasksFit'
      /\ loop' = after /\ UNCHANGED <<pipelines, steps, art, life, task>>
      /\ DiskGrows /\ Listed' = Listed
      /\ \A q : (Closing(q) <=> Closing(q)')
      /\ \A q \in Runs : Beside(q)
  BY GoKeeps
<1>2. up' = up
  BY <1>1 DEF life
<1>3. after.run \in Listed /\ steps[after.run] # <<>>
  <2>1. InFlight(after.w, task[after.w])
    BY DEF JInv, TasksFit, TaskFits
  <2>2. after.run \in Runs /\ after.w \in Present(after.run)
    BY <2>1 DEF InFlight
  <2>3. steps[after.run] # <<>>
    BY <2>2, FilesOf DEF JInv, Files
  <2> QED BY <2>2, <2>3 DEF JInv, Files, FilesFit, RunFits, Listed
<1>4. LoopFits'
  BY <1>1, <1>2, <1>3 DEF LoopFits, InRun, Passing, Worked, InFilter
<1>5. RunsSettled'
  <2>1. \A q \in Runs : ~Busy(q)
    BY DEF Busy, InRun, Passing, InFilter
  <2>2. \A q \in Listed' : Undisturbed(q)
    BY <1>1, <2>1 DEF Undisturbed, Listed
  <2>3. Files /\ RunsSettled
    BY DEF JInv
  <2> HIDE DEF RunsSettled, Busy, Settled
  <2> QED BY <1>1, <2>2, <2>3, RunsGo
<1> QED BY <1>1, <1>4, <1>5 DEF JInv

\* A filter that awaited gets the loop back.
LEMMA KeepResume ==
    ASSUME JInv, NEW w \in Workers, Resume(w)
    PROVE  JInv' /\ FirmKept
<1>1. up /\ loop.pc = "free" /\ task[w].pc = "filtering" /\ LoopTyped
  BY DEF Resume, At, JInv
<1>2. PICK after : after = [Free EXCEPT !.pc = "filter", !.w = w, !.run = task[w].run]
  OBVIOUS
<1>3. Go(after)
  BY <1>2 DEF Resume
<1>4. task[w].run \in Runs \cup {0}
  BY <1>1, LoopRecords DEF Tasks
<1>5. /\ after \in Loops /\ after.pc = "filter" /\ after.w = w /\ after.run = task[w].run
      /\ after.todo = {}
  BY <1>2, <1>4 DEF Free, Loops, LoopPC
<1> QED BY <1>1, <1>3, <1>5, KeepFilter

\* A filter raises.
LEMMA KeepFilterFails ==
    ASSUME JInv, FilterFails
    PROVE  JInv' /\ FirmKept
<1>1. up /\ loop.pc = "filter" /\ LoopTyped /\ LoopFits
  BY DEF FilterFails, At, JInv
<1>2. PICK after : after = To("failing")
  OBVIOUS
<1>3. Go(after)
  BY <1>2 DEF FilterFails
<1>4. "failing" \in LoopPC
  BY DEF LoopPC
<1>5. /\ after \in Loops /\ after.pc = "failing" /\ after.w = loop.w /\ after.run = loop.run
      /\ after.todo = loop.todo
  BY <1>1, <1>2, <1>4, LoopRecords
<1>6. /\ loop.todo \subseteq Listed /\ loop.w \in Workers
      /\ task[loop.w].pc = "filtering" /\ task[loop.w].run = loop.run
  BY <1>1 DEF LoopFits, Worked, InFilter
<1> QED BY <1>1, <1>3, <1>5, <1>6, KeepFilter

-----------------------------------------------------------------------------
(* The steps that write the file of a step. *)

\* What is the same for all of them.  W are the workers whose task changes.
LEMMA SaveKeeps ==
    ASSUME JInv, NEW r \in Runs, NEW i \in Present(r), NEW s \in Doc, SaveStep(r, i, s),
           MayWrite(r, i, s), loop' \in Loops, task' \in [Workers -> Tasks],
           NEW W,
           i \in Workers \ W => s.key = steps[r][i].key,
           \A w \in Workers \ W : task'[w] = task[w] /\ (Saving(w) => Saving(w)'),
           \A w \in W : TaskFits(w, task[w])'
    PROVE  /\ Files' /\ FirmKept /\ LoopTyped' /\ TasksFit'
           /\ UNCHANGED <<pipelines, art, life>>
           /\ DiskGrows /\ Listed' = Listed
           /\ Present(r)' = Present(r) /\ LastOf(r)' = steps'[r][Len(steps[r])]
           /\ \A q \in Runs : steps'[q] = <<>> <=> steps[q] = <<>>
           /\ \A j \in Present(r) : steps'[r][j] = IF j = i THEN s ELSE steps[r][j]
           /\ \A q \in Runs : q # r \/ s.status = steps[r][i].status => Beside(q)
<1>1. /\ UNCHANGED <<pipelines, art, life>> /\ Listed' = Listed
      /\ DiskGrows /\ \A k : Art!Valid(k)' <=> Art!Valid(k)
      /\ \A q \in Runs : /\ Len(steps'[q]) = Len(steps[q]) /\ Present(q)' = Present(q)
                         /\ steps'[q] = <<>> <=> steps[q] = <<>>
      /\ \A q \in Runs : \A j \in Present(q) :
            steps'[q][j] = IF q = r /\ j = i THEN s ELSE steps[q][j]
  BY SaveFrame DEF JInv
<1>2. Files' /\ FirmKept
  BY FilesSaved DEF JInv
<1>3. LoopTyped'
  BY <1>1 DEF JInv, LoopTyped, life
<1>4. TasksFit'
  <2>1. \A q \in Runs : steps[q] # <<>> => steps'[q] # <<>>
    BY <1>1
  <2>2. \A w \in Workers \ W :
              /\ task'[w] = task[w]
              /\ \A q \in Runs : w \in Present(q) =>
                    w \in Present(q)' /\ steps'[q][w].key = steps[q][w].key
              /\ Saving(w) => Saving(w)'
    BY <1>1
  <2>3. \A k \in ArtifactKeys : k.step \notin W /\ Art!Valid(k)' => Art!Valid(k)
    BY <1>1
  <2>4. Files /\ TasksFit
    BY DEF JInv
  <2> HIDE DEF TaskFits, TasksFit
  <2> QED BY <1>1, <2>1, <2>2, <2>3, <2>4, TasksGo
<1>5. LastOf(r)' = steps'[r][Len(steps[r])]
  BY <1>1 DEF LastOf
<1>6. \A q \in Runs : q # r \/ s.status = steps[r][i].status => Beside(q)
  BY <1>1 DEF Beside
<1> QED BY <1>1, <1>2, <1>3, <1>4, <1>5, <1>6

\* A loop over the files of a run writes one of them, or has written all of them.
LEMMA EachKeeps ==
    ASSUME JInv, up, NEW new, NEW after \in Loops, SaveEach(new, after),
           loop.pc \in InRun \ (InFilter \cup {"execute"}),
           \A i \in Present(loop.run) : /\ new[i] \in Doc /\ MayWrite(loop.run, i, new[i])
                                        /\ new[i].key = steps[loop.run][i].key
    PROVE  \/ /\ Go(after)
              /\ \A i \in Present(loop.run) : new[i] = steps[loop.run][i]
           \/ /\ Files' /\ FirmKept /\ LoopTyped' /\ TasksFit' /\ RunsSettled'
              /\ UNCHANGED <<pipelines, art, life, loop, task>>
              /\ DiskGrows /\ Listed' = Listed
              /\ steps[loop.run] # <<>> => steps'[loop.run] # <<>>
              /\ Present(loop.run)' = Present(loop.run)
              /\ LastOf(loop.run)' = steps'[loop.run][Len(steps[loop.run])]
              /\ \A j \in Present(loop.run) : steps'[loop.run][j] \in {steps[loop.run][j], new[j]}
<1>1. PICK r : r = loop.run
  OBVIOUS
<1>2. r \in Runs /\ r \in Listed
  BY <1>1 DEF JInv, LoopFits, Listed
<1>3. PICK changed : changed = {i \in Present(r) : new[i] # steps[r][i]}
  OBVIOUS
<1>4. CASE changed = {}
  BY <1>1, <1>3, <1>4 DEF SaveEach
<1>5. CASE changed # {}
  <2>1. PICK i \in Present(r) : SaveStep(r, i, new[i]) /\ UNCHANGED <<loop, task>>
    BY <1>1, <1>3, <1>5 DEF SaveEach
  <2>2. new[i] \in Doc /\ MayWrite(r, i, new[i]) /\ new[i].key = steps[r][i].key
    BY <1>1
  <2>3. loop' \in Loops /\ task' \in [Workers -> Tasks]
    BY <2>1 DEF JInv, LoopTyped
  <2>9. PICK W : W = {}
    OBVIOUS
  <2>4. \A w \in Workers \ W : task'[w] = task[w] /\ (Saving(w) => Saving(w)')
    BY <2>1 DEF Saving
  <2>5. \A w \in W : TaskFits(w, task[w])'
    BY <2>9
  <2>6. i \in Workers \ W => new[i].key = steps[r][i].key
    BY <2>2
  <2>7. /\ Files' /\ FirmKept /\ LoopTyped' /\ TasksFit'
        /\ UNCHANGED <<pipelines, art, life>>
        /\ DiskGrows /\ Listed' = Listed
        /\ Present(r)' = Present(r) /\ LastOf(r)' = steps'[r][Len(steps[r])]
        /\ \A q \in Runs : steps'[q] = <<>> <=> steps[q] = <<>>
        /\ \A j \in Present(r) : steps'[r][j] = IF j = i THEN new[i] ELSE steps[r][j]
        /\ \A q \in Runs : q # r \/ new[i].status = steps[r][i].status => Beside(q)
    BY <1>2, <2>1, <2>2, <2>3, <2>4, <2>5, <2>6, SaveKeeps
  <2>8. RunsSettled'
    <3>1. Busy(r)'
      BY <1>1, <2>1 DEF Busy
    <3>2. \A q \in Listed' : q # r => Undisturbed(q)
      BY <2>1, <2>7 DEF Undisturbed, Busy, Closing, Listed
    <3>3. Files /\ RunsSettled
      BY DEF JInv
    <3> HIDE DEF RunsSettled, Busy, Settled
    <3> QED BY <2>7, <3>1, <3>2, <3>3, RunsGo
  <2> QED BY <1>1, <1>2, <2>1, <2>7, <2>8
<1> QED BY <1>4, <1>5

\* A loop whose writes do not matter to the task goes on.
LEMMA KeepWritten ==
    ASSUME JInv, Files', FirmKept, LoopTyped', TasksFit', RunsSettled',
           UNCHANGED <<life, loop, task>>, DiskGrows, Listed' = Listed,
           loop.pc \in {"repair", "recheck", "promote"},
           steps[loop.run] # <<>> => steps'[loop.run] # <<>>
    PROVE  JInv' /\ FirmKept
<1>1. LoopFits'
  <2>1. up' = up /\ LoopFits
    BY DEF life, JInv
  <2> QED BY <2>1 DEF LoopFits, InRun, Passing, Worked, InFilter
<1> QED BY <1>1 DEF JInv

\* The next loop over the same run.
LEMMA KeepNext ==
    ASSUME JInv, up, NEW next \in LoopPC, Go(To(next)),
           \/ loop.pc \in {"repair", "recheck"} /\ next \in {"recheck", "derive"}
           \/ loop.pc = "promote" /\ next = "update"
    PROVE  JInv' /\ FirmKept
<1>1. PICK after : after = To(next)
  OBVIOUS
<1>2. /\ after \in Loops /\ after.pc = next /\ after.w = loop.w /\ after.run = loop.run
      /\ after.todo = loop.todo
  BY <1>1, LoopRecords DEF JInv
<1>3. Go(after)
  BY <1>1
<1>4. /\ Files' /\ FirmKept /\ LoopTyped' /\ TasksFit'
      /\ loop' = after /\ UNCHANGED <<pipelines, steps, art, life, task>>
      /\ DiskGrows /\ Listed' = Listed
      /\ \A q : (Closing(q) <=> Closing(q)')
      /\ \A q \in Runs : Beside(q)
  BY <1>2, <1>3, GoKeeps
<1>5. LoopFits'
  <2>1. up' = up /\ LoopFits
    BY <1>4 DEF life, JInv
  <2> QED BY <1>2, <1>4, <2>1 DEF LoopFits, InRun, Passing, Worked, InFilter, LoopPC
<1>6. RunsSettled'
  <2>1. \A q \in Runs : Undisturbed(q)
    BY <1>2, <1>4 DEF Undisturbed, Busy, InRun, Passing, InFilter, LoopPC
  <2>2. \A q \in Listed' : Busy(q)' \/ Settled(q)' \/ Undisturbed(q)
    BY <2>1 DEF Listed
  <2>3. Files /\ RunsSettled
    BY DEF JInv
  <2> HIDE DEF RunsSettled, Busy, Settled
  <2> QED BY <1>4, <2>2, <2>3, RunsGo
<1> QED BY <1>4, <1>5, <1>6 DEF JInv

\* Both together, for recover and the end of execute.
LEMMA KeepEach ==
    ASSUME JInv, up, NEW new, NEW next \in LoopPC, SaveEach(new, To(next)),
           \/ loop.pc \in {"repair", "recheck"} /\ next \in {"recheck", "derive"}
           \/ loop.pc = "promote" /\ next = "update",
           \A i \in Present(loop.run) : /\ new[i] \in Doc /\ MayWrite(loop.run, i, new[i])
                                        /\ new[i].key = steps[loop.run][i].key
    PROVE  JInv' /\ FirmKept
<1>1. PICK after : after = To(next)
  OBVIOUS
<1>2. after \in Loops
  BY <1>1, LoopRecords DEF JInv
<1>3. loop.pc \in InRun \ (InFilter \cup {"execute"})
  BY DEF InRun, InFilter, LoopPC
<1>4. SaveEach(new, after)
  BY <1>1
<1>5. CASE Go(after)
  BY <1>1, <1>5, KeepNext
<1>6. CASE ~Go(after)
  <2>1. /\ Files' /\ FirmKept /\ LoopTyped' /\ TasksFit' /\ RunsSettled'
        /\ UNCHANGED <<pipelines, art, life, loop, task>>
        /\ DiskGrows /\ Listed' = Listed
        /\ steps[loop.run] # <<>> => steps'[loop.run] # <<>>
    BY <1>2, <1>3, <1>4, <1>6, EachKeeps
  <2> QED BY <2>1, KeepWritten
<1> QED BY <1>5, <1>6

\* The run that a task is at.
LEMMA RunOfLoop ==
    ASSUME JInv, loop.pc \in InRun
    PROVE  loop.run \in Listed /\ loop.run \in Runs /\ pipelines[loop.run] \in Pipelines
<1>1. loop.run \in Listed
  BY DEF JInv, LoopFits
<1> QED BY <1>1 DEF Listed, JInv, Files, FilesTyped

\* recover() repairs one step file.
LEMMA KeepRepair ==
    ASSUME JInv, Repair
    PROVE  JInv' /\ FirmKept
<1>1. up /\ loop.pc = "repair" /\ SaveEach(Repaired(loop.run), To("recheck")) /\ Files
  BY DEF Repair, At, JInv
<1>2. loop.run \in Runs
  BY <1>1, RunOfLoop DEF InRun, LoopPC
<1>3. "recheck" \in LoopPC
  BY DEF LoopPC
<1>4. PICK new : new = Repaired(loop.run)
  OBVIOUS
<1>5. ASSUME NEW i \in Present(loop.run)
      PROVE  /\ new[i] \in Doc /\ MayWrite(loop.run, i, new[i])
             /\ new[i].key = steps[loop.run][i].key
  <2>1. new[i] = RepairedDoc(i, steps[loop.run][i])
    BY <1>4 DEF Repaired
  <2> QED BY <1>1, <1>2, <2>1, MayRepair
<1> QED BY <1>1, <1>3, <1>4, <1>5, KeepEach

\* recover() checks the dependencies of one step file.
LEMMA KeepRecheck ==
    ASSUME JInv, Recheck
    PROVE  JInv' /\ FirmKept
<1>1. up /\ loop.pc = "recheck" /\ SaveEach(Rechecked(loop.run), To("derive")) /\ Files
  BY DEF Recheck, At, JInv
<1>2. loop.run \in Runs
  BY <1>1, RunOfLoop DEF InRun, LoopPC
<1>3. "derive" \in LoopPC
  BY DEF LoopPC
<1>4. PICK new : new = Rechecked(loop.run)
  OBVIOUS
<1>5. ASSUME NEW i \in Present(loop.run)
      PROVE  /\ new[i] \in Doc /\ MayWrite(loop.run, i, new[i])
             /\ new[i].key = steps[loop.run][i].key
  <2>1. new[i] = RecheckedDoc(steps[loop.run][i],
                              {DepState(steps[loop.run][j]) : j \in DependsOn(i)})
    BY <1>4 DEF Rechecked
  <2> QED BY <1>1, <1>2, <2>1, MayRecheck
<1> QED BY <1>1, <1>3, <1>4, <1>5, KeepEach

\* _promote readies one step file.
LEMMA KeepPromote ==
    ASSUME JInv, Promote
    PROVE  JInv' /\ FirmKept
<1>1. PICK from : from = {"pending", "blocked"}
  OBVIOUS
<1>2. up /\ loop.pc = "promote" /\ SaveEach(Promoted(loop.run, from), To("update")) /\ Files
  BY <1>1 DEF Promote, At, JInv
<1>3. loop.run \in Runs
  BY <1>2, RunOfLoop DEF InRun, LoopPC
<1>4. "update" \in LoopPC /\ from \cap OK = {}
  BY <1>1 DEF LoopPC, OK
<1>5. PICK new : new = Promoted(loop.run, from)
  OBVIOUS
<1>6. \A i \in Present(loop.run) : /\ new[i] \in Doc /\ MayWrite(loop.run, i, new[i])
                                   /\ new[i].key = steps[loop.run][i].key
  BY <1>2, <1>3, <1>4, <1>5, MayPromote
<1> QED BY <1>2, <1>4, <1>5, <1>6, KeepEach

-----------------------------------------------------------------------------
(* The steps that write the document of a run. *)

\* Status st agrees with the steps of r.
AgreesAs(r, st) ==
    \/ st = Derived(r, "queued")
    \/ st = "running" /\ ("running" \in Statuses(r) \/ Derived(r, "queued") = "queued")
    \/ Lost > 0 /\ st = RefusedStatus(r)

\* What is the same for all of them.
LEMMA PipeKeeps ==
    ASSUME JInv, NEW r \in Runs, NEW p \in Pipelines, NEW after \in Loops,
           SavePipeline(r, p, after),
           p.nonce => r \in ForceRefresh,
           \/ pipelines[r] # Null /\ p.nonce = pipelines[r].nonce
           \/ \A i \in Present(r) : steps[r][i].key = Null,
           loop.pc # "save"
    PROVE  /\ Files' /\ FirmKept /\ LoopTyped' /\ TasksFit'
           /\ loop' = after /\ UNCHANGED <<steps, art, life, task>>
           /\ DiskGrows /\ Listed' = Listed \cup {r}
           /\ pipelines'[r] = p
           /\ \A q : /\ (Closing(q) <=> Closing(q)') /\ Present(q)' = Present(q)
                     /\ Statuses(q)' = Statuses(q) /\ LastOf(q)' = LastOf(q)
           /\ \A q \in Runs : q # r => Beside(q)
           /\ AgreesAs(r, p.status) /\ steps[r] # <<>> => Settled(r)'
<1>1. /\ pipelines' = [pipelines EXCEPT ![r] = p]
      /\ loop' = after /\ UNCHANGED <<steps, art, life, task>>
  BY DEF SavePipeline
<1>2. Files' /\ FirmKept
  BY FilesPiped DEF JInv
<1>3. DiskGrows /\ \A k : Art!Valid(k)' <=> Art!Valid(k)
  BY <1>1, SameDisk DEF art
<1>4. LoopTyped'
  BY <1>1 DEF JInv, LoopTyped, Loops, life
<1>5. \A q : Present(q)' = Present(q)
  BY <1>1 DEF Present
<1>6. TasksFit'
  <2>1. \A q \in Runs : steps[q] # <<>> => steps'[q] # <<>>
    BY <1>1
  <2>2. PICK W : W = {}
    OBVIOUS
  <2>3. \A w \in Workers \ W :
              /\ task'[w] = task[w]
              /\ \A q \in Runs : w \in Present(q) =>
                    w \in Present(q)' /\ steps'[q][w].key = steps[q][w].key
              /\ Saving(w) => Saving(w)'
    BY <1>1, <1>5 DEF Saving
  <2>4. \A k \in ArtifactKeys : k.step \notin W /\ Art!Valid(k)' => Art!Valid(k)
    BY <1>3
  <2>5. \A w \in W : TaskFits(w, task[w])'
    BY <2>2
  <2>6. Files /\ TasksFit
    BY DEF JInv
  <2> HIDE DEF TaskFits, TasksFit
  <2> QED BY <1>3, <2>1, <2>3, <2>4, <2>5, <2>6, TasksGo
<1>7. \A q : /\ (Closing(q) <=> Closing(q)')
             /\ Statuses(q)' = Statuses(q) /\ LastOf(q)' = LastOf(q)
  BY <1>1, <1>5 DEF Closing, Statuses, LastOf
<1>8. pipelines \in [Runs -> Pipelines \cup {Null}] /\ p # Null
  BY NullAssumption DEF JInv, Files, FilesTyped, Pipelines
<1>9. \A q \in Runs : pipelines'[q] = IF q = r THEN p ELSE pipelines[q]
  BY <1>1, <1>8
<1>10. Listed' = Listed \cup {r}
  BY <1>8, <1>9 DEF Listed
<1>11. \A q \in Runs : q # r => Beside(q)
  BY <1>1, <1>9 DEF Beside
<1>12. ASSUME AgreesAs(r, p.status), steps[r] # <<>> PROVE Settled(r)'
  <2>1. Derived(r, "queued")' = Derived(r, "queued") /\ RefusedStatus(r)' = RefusedStatus(r)
    BY <1>1, <1>7 DEF Derived, RefusedStatus
  <2>2. pipelines'[r].status = p.status
    BY <1>9
  <2>3. Lost > 0 => Lost' > 0
    BY <1>3 DEF DiskGrows
  <2>4. Agrees(r)'
    BY <1>7, <1>12, <2>1, <2>2, <2>3 DEF AgreesAs, Agrees, Lost
  <2> QED BY <1>1, <1>12, <2>4 DEF Settled
<1> QED BY <1>1, <1>2, <1>3, <1>4, <1>5, <1>6, <1>7, <1>9, <1>10, <1>11, <1>12

\* The task sets the status of the run it is at, and goes on.
LEMMA StatusKeeps ==
    ASSUME JInv, up, NEW st \in PipelineStatus, NEW after \in Loops, NEW r, r = loop.run,
           SavePipeline(r, [pipelines[r] EXCEPT !.status = st], after),
           loop.pc \in InRun, loop.pc # "save"
    PROVE  /\ Files' /\ FirmKept /\ LoopTyped' /\ TasksFit'
           /\ loop' = after /\ UNCHANGED <<steps, art, life, task>>
           /\ DiskGrows /\ Listed' = Listed
           /\ pipelines'[r].status = st
           /\ \A q : Closing(q) <=> Closing(q)'
           /\ \A q \in Runs : q # r => Beside(q)
           /\ AgreesAs(r, st) /\ steps[r] # <<>> => Settled(r)'
<1>1. r \in Listed /\ r \in Runs /\ pipelines[r] \in Pipelines /\ pipelines[r] # Null
  BY RunOfLoop DEF Listed
<1>2. PICK p : p = [pipelines[r] EXCEPT !.status = st]
  OBVIOUS
<1>3. p \in Pipelines /\ p.status = st /\ p.nonce = pipelines[r].nonce
  BY <1>1, <1>2 DEF Pipelines
<1>4. p.nonce => r \in ForceRefresh
  BY <1>1, <1>3 DEF JInv, Files, FilesFit, RunFits
<1>5. SavePipeline(r, p, after)
  BY <1>2
<1>6. /\ Files' /\ FirmKept /\ LoopTyped' /\ TasksFit'
      /\ loop' = after /\ UNCHANGED <<steps, art, life, task>>
      /\ DiskGrows /\ Listed' = Listed \cup {r}
      /\ pipelines'[r] = p
      /\ \A q : Closing(q) <=> Closing(q)'
      /\ \A q \in Runs : q # r => Beside(q)
      /\ AgreesAs(r, p.status) /\ steps[r] # <<>> => Settled(r)'
  BY <1>1, <1>3, <1>4, <1>5, PipeKeeps
<1>7. Listed' = Listed
  BY <1>1, <1>6
<1> QED BY <1>3, <1>6, <1>7

\* The rule gives a status.
LEMMA DerivedStatuses ==
    ASSUME NEW r, NEW st \in {"queued", "running"}
    PROVE  /\ Derived(r, st) \in PipelineStatus /\ RefusedStatus(r) \in PipelineStatus
           /\ Derived(r, "running") = "running" => Derived(r, "queued") = "queued"
           /\ Derived(r, "running") # "running" => Derived(r, "queued") = Derived(r, "running")
BY DEF Derived, RefusedStatus, PipelineStatus

\* recover() sets the status of a run.
LEMMA KeepDerive ==
    ASSUME JInv, Derive
    PROVE  JInv' /\ FirmKept
<1>1. PICK r, st, after : r = loop.run /\ st = Derived(r, "queued") /\ after = To("recover")
  OBVIOUS
<1>2. /\ up /\ loop.pc = "derive" /\ steps[r] # <<>>
      /\ SavePipeline(r, [pipelines[r] EXCEPT !.status = st], after)
  BY <1>1 DEF Derive, At, SaveStatus
<1>3. /\ after \in Loops /\ after.pc = "recover" /\ after.todo = loop.todo /\ after.w = loop.w
  <2>1. "recover" \in LoopPC
    BY DEF LoopPC
  <2> QED BY <1>1, <2>1, LoopRecords DEF JInv
<1>4. st \in PipelineStatus /\ loop.pc \in InRun /\ loop.pc # "save"
  BY <1>1, <1>2, DerivedStatuses DEF InRun, LoopPC
<1>5. /\ Files' /\ FirmKept /\ LoopTyped' /\ TasksFit'
      /\ loop' = after /\ UNCHANGED <<steps, art, life, task>>
      /\ DiskGrows /\ Listed' = Listed
      /\ \A q : Closing(q) <=> Closing(q)'
      /\ \A q \in Runs : q # r => Beside(q)
      /\ AgreesAs(r, st) /\ steps[r] # <<>> => Settled(r)'
  BY <1>1, <1>2, <1>3, <1>4, StatusKeeps
<1>6. LoopFits'
  <2>1. up' /\ LoopFits
    BY <1>2, <1>5 DEF life, JInv
  <2>2. loop.todo \subseteq Listed /\ (loop.w # 0 => task[loop.w].pc = "sleeping")
    BY <1>2, <2>1 DEF LoopFits, Passing, InFilter
  <2> QED BY <1>3, <1>5, <2>1, <2>2, LoopFree
<1>7. RunsSettled'
  <2>1. Settled(r)'
    BY <1>1, <1>2, <1>5 DEF AgreesAs
  <2>2. \A q \in Listed' : q # r => Undisturbed(q)
    BY <1>1, <1>2, <1>3, <1>5 DEF Undisturbed, Busy, Passing, InRun, Listed
  <2>3. Files /\ RunsSettled
    BY DEF JInv
  <2> HIDE DEF RunsSettled, Busy, Settled
  <2> QED BY <1>2, <1>5, <2>1, <2>2, <2>3, RunsGo
<1> QED BY <1>5, <1>6, <1>7 DEF JInv

\* lifespan is left with an exception, or the process ends.
LEMMA KeepStop ==
    ASSUME JInv, Stop, crashes' \in 0..MaxCrashes
    PROVE  JInv' /\ FirmKept
<1>1. up' = FALSE /\ loop' = Free /\ task' = [w \in Workers |-> Sleeping] /\ UNCHANGED <<files, art>>
  BY DEF Stop
<1>2. Files' /\ FirmKept
  BY <1>1, FilesSame DEF JInv
<1>3. LoopTyped'
  <2>1. LoopTyped
    BY DEF JInv
  <2>2. Free \in Loops /\ Sleeping \in Tasks
    BY <2>1, LoopRecords
  <2> QED BY <1>1, <2>2 DEF LoopTyped, Loops, Tasks
<1>4. TasksFit'
  <2>1. \A w \in Workers : task'[w].pc = "sleeping"
    BY <1>1 DEF Sleeping
  <2> QED BY <2>1 DEF TasksFit, TaskFits
<1>5. LoopFits' /\ RunsSettled'
  BY <1>1 DEF LoopFits, Free, InRun, Passing, Worked, InFilter, RunsSettled
<1> QED BY <1>2, <1>3, <1>4, <1>5 DEF JInv

\* The process ends: no task is left, and nothing is asked of the runs until it starts.
LEMMA KeepCrash ==
    ASSUME JInv, Crash
    PROVE  JInv' /\ FirmKept
<1>1. Stop /\ crashes' = crashes + 1 /\ crashes < MaxCrashes /\ crashes \in 0..MaxCrashes
  BY DEF Crash, JInv, LoopTyped
<1>2. crashes' \in 0..MaxCrashes
  BY <1>1, StepNumbers
<1> QED BY <1>1, <1>2, KeepStop

\* recover() raises over a run without step files, and the process ends.
LEMMA KeepDeriveRaises ==
    ASSUME JInv, DeriveRaises
    PROVE  JInv' /\ FirmKept
<1>1. Stop /\ crashes' \in 0..MaxCrashes
  BY DEF DeriveRaises, JInv, LoopTyped
<1> QED BY <1>1, KeepStop

\* The end of execute: recover begins, and all runs are looked at again.
LEMMA KeepUpdate ==
    ASSUME JInv, Update
    PROVE  JInv' /\ FirmKept
<1>1. PICK r, st, after : r = loop.run /\ st = Derived(r, "running") /\ after = Recovering(loop.w)
  OBVIOUS
<1>2. /\ up /\ loop.pc = "update"
      /\ SavePipeline(r, [pipelines[r] EXCEPT !.status = st], after)
  BY <1>1 DEF Update, At, SaveStatus
<1>3. loop.w \in Workers /\ task[loop.w].pc = "sleeping"
  <2>1. LoopFits /\ LoopTyped
    BY DEF JInv
  <2>2. loop.w \in Workers
    BY <1>2, <2>1 DEF LoopFits, Worked
  <2>3. loop.w # 0
    BY <2>2, StepNumbers
  <2> QED BY <1>2, <2>1, <2>2, <2>3 DEF LoopFits, Worked, InFilter
<1>4. after \in Loops /\ after.pc = "recover" /\ after.todo = Listed /\ after.w = loop.w
  BY <1>1, <1>3, LoopRecords DEF JInv
<1>5. st \in PipelineStatus /\ loop.pc \in InRun /\ loop.pc # "save"
  BY <1>1, <1>2, DerivedStatuses DEF InRun, LoopPC
<1>6. /\ Files' /\ FirmKept /\ LoopTyped' /\ TasksFit'
      /\ loop' = after /\ UNCHANGED <<steps, art, life, task>>
      /\ DiskGrows /\ Listed' = Listed
      /\ \A q : Closing(q) <=> Closing(q)'
      /\ \A q \in Runs : q # r => Beside(q)
  BY <1>1, <1>2, <1>4, <1>5, StatusKeeps
<1>7. LoopFits'
  <2>1. up'
    BY <1>2, <1>6 DEF life
  <2> QED BY <1>3, <1>4, <1>6, <2>1, LoopFree
<1>8. RunsSettled'
  <2>1. \A q \in Listed' : Busy(q)'
    BY <1>4, <1>6 DEF Busy, Passing
  <2> QED BY <2>1 DEF RunsSettled
<1> QED BY <1>6, <1>7, <1>8 DEF JInv

\* A worker that has the loop for itself.
LEMMA WorkerHere ==
    ASSUME JInv, loop.pc \in Worked
    PROVE  /\ loop.w \in Workers /\ loop.w # 0
           /\ loop.pc \notin InFilter => task[loop.w].pc = "sleeping"
<1>1. LoopFits /\ loop.w \in Workers
  BY DEF JInv, LoopFits
<1>2. loop.w # 0
  BY <1>1, StepNumbers
<1> QED BY <1>1, <1>2 DEF LoopFits, Worked, InFilter

\* A refused step sets the status of its run, which only a loss brings about.
LEMMA KeepRefused ==
    ASSUME JInv, Refused
    PROVE  JInv' /\ FirmKept
<1>1. PICK r, st, after : r = loop.run /\ st = RefusedStatus(r) /\ after = To("claim")
  OBVIOUS
<1>2. /\ up /\ loop.pc = "refused"
      /\ SavePipeline(r, [pipelines[r] EXCEPT !.status = st], after)
  BY <1>1 DEF Refused, At, SaveStatus
<1>3. loop.w \in Workers /\ task[loop.w].pc = "sleeping"
  BY <1>2, WorkerHere DEF Worked, InFilter
<1>4. after \in Loops /\ after.pc = "claim" /\ after.todo = loop.todo /\ after.w = loop.w
  <2>1. "claim" \in LoopPC
    BY DEF LoopPC
  <2> QED BY <1>1, <2>1, LoopRecords DEF JInv
<1>5. st \in PipelineStatus /\ loop.pc \in InRun /\ loop.pc # "save"
  BY <1>1, <1>2, DerivedStatuses DEF InRun, LoopPC
<1>6. /\ Files' /\ FirmKept /\ LoopTyped' /\ TasksFit'
      /\ loop' = after /\ UNCHANGED <<steps, art, life, task>>
      /\ DiskGrows /\ Listed' = Listed
      /\ \A q : Closing(q) <=> Closing(q)'
      /\ \A q \in Runs : q # r => Beside(q)
      /\ AgreesAs(r, st) /\ steps[r] # <<>> => Settled(r)'
  BY <1>1, <1>2, <1>4, <1>5, StatusKeeps
<1>7. LoopFits'
  <2>1. up' /\ loop.todo \subseteq Listed
    BY <1>2, <1>6 DEF life, JInv, LoopFits
  <2> QED BY <1>3, <1>4, <1>6, <2>1, LoopFree
<1>8. RunsSettled'
  <2>1. Settled(r)'
    <3>1. Lost > 0 /\ steps[r] # <<>>
      BY <1>1, <1>2 DEF JInv, LoopFits, InRun, Passing, LoopPC
    <3> QED BY <1>1, <1>6, <3>1 DEF AgreesAs
  <2>2. \A q \in Listed' : q # r => Undisturbed(q)
    BY <1>1, <1>2, <1>4, <1>6 DEF Undisturbed, Busy, Passing, InRun, Listed
  <2>3. Files /\ RunsSettled
    BY DEF JInv
  <2> HIDE DEF RunsSettled, Busy, Settled
  <2> QED BY <1>2, <1>6, <2>1, <2>2, <2>3, RunsGo
<1> QED BY <1>6, <1>7, <1>8 DEF JInv

\* A claim sets the status of its run to running.
LEMMA KeepClaimed ==
    ASSUME JInv, Claimed
    PROVE  JInv' /\ FirmKept
<1>1. PICK r, st, after : r = loop.run /\ st = "running" /\ after = To("execute")
  OBVIOUS
<1>2. /\ up /\ loop.pc = "claimed"
      /\ SavePipeline(r, [pipelines[r] EXCEPT !.status = st], after)
  BY <1>1 DEF Claimed, At, SaveStatus
<1>3. loop.w \in Workers /\ task[loop.w].pc = "sleeping"
  BY <1>2, WorkerHere DEF Worked, InFilter
<1>4. after \in Loops /\ after.pc = "execute" /\ after.todo = loop.todo /\ after.w = loop.w
      /\ after.run = r
  <2>1. "execute" \in LoopPC
    BY DEF LoopPC
  <2> QED BY <1>1, <2>1, LoopRecords DEF JInv
<1>5. st \in PipelineStatus /\ loop.pc \in InRun /\ loop.pc # "save"
  BY <1>1, <1>2 DEF PipelineStatus, InRun, LoopPC
<1>6. /\ Files' /\ FirmKept /\ LoopTyped' /\ TasksFit'
      /\ loop' = after /\ UNCHANGED <<steps, art, life, task>>
      /\ DiskGrows /\ Listed' = Listed
      /\ \A q : Closing(q) <=> Closing(q)'
      /\ \A q \in Runs : q # r => Beside(q)
      /\ AgreesAs(r, st) /\ steps[r] # <<>> => Settled(r)'
  BY <1>1, <1>2, <1>4, <1>5, StatusKeeps
<1>7. /\ r \in Listed /\ loop.todo \subseteq Listed /\ steps[r] # <<>>
      /\ loop.w \in Present(r) /\ steps[r][loop.w].status = "running"
      /\ Inputs(r, loop.w) \subseteq ArtifactKeys
  BY <1>1, <1>2 DEF JInv, LoopFits, InRun, Passing, LoopPC
<1>8. LoopFits'
  <2>1. up' /\ Present(r)' = Present(r) /\ Inputs(r, loop.w)' = Inputs(r, after.w)
    BY <1>2, <1>4, <1>6 DEF life, Present, Inputs
  <2> QED BY <1>3, <1>4, <1>6, <1>7, <2>1 DEF LoopFits, InRun, Passing, Worked, InFilter
<1>9. RunsSettled'
  <2>1. "running" \in Statuses(r)
    BY <1>7 DEF Statuses
  <2>2. Settled(r)'
    BY <1>1, <1>6, <1>7, <2>1 DEF AgreesAs
  <2>3. \A q \in Listed' : q # r => Undisturbed(q)
    BY <1>1, <1>2, <1>4, <1>6 DEF Undisturbed, Busy, Passing, InRun, Listed
  <2>4. Files /\ RunsSettled
    BY DEF JInv
  <2> HIDE DEF RunsSettled, Busy, Settled
  <2> QED BY <1>2, <1>6, <2>2, <2>3, <2>4, RunsGo
<1> QED BY <1>6, <1>8, <1>9 DEF JInv

\* The process starts with a recovery of every run.
LEMMA KeepStart ==
    ASSUME JInv, Start
    PROVE  JInv' /\ FirmKept
<1>1. ~up /\ up' = TRUE /\ loop' = Recovering(0) /\ UNCHANGED <<pipelines, files, art, task, crashes>>
  BY DEF Start, files
<1>2. Files' /\ FirmKept
  BY <1>1, FilesSame DEF JInv
<1>3. LoopTyped /\ LoopFits
  BY DEF JInv
<1>4. /\ Recovering(0) \in Loops /\ Recovering(0).pc = "recover" /\ Recovering(0).w = 0
      /\ Recovering(0).todo = Listed
  BY <1>3, LoopRecords
<1>5. LoopTyped'
  BY <1>1, <1>3, <1>4 DEF LoopTyped, Loops
<1>6. \A w \in Workers : task'[w].pc = "sleeping"
  BY <1>1, <1>3 DEF LoopFits, Sleeping
<1>7. TasksFit'
  BY <1>6 DEF TasksFit, TaskFits
<1>8. Listed' = Listed
  BY <1>1 DEF Listed
<1>9. LoopFits'
  BY <1>1, <1>4, <1>5, <1>8, LoopFree
<1>10. RunsSettled'
  BY <1>1, <1>4, <1>8 DEF RunsSettled, Busy, Passing
<1> QED BY <1>2, <1>5, <1>7, <1>9, <1>10 DEF JInv

-----------------------------------------------------------------------------
(* JobService.create. *)

\* A run is created with its pipeline file.
LEMMA KeepCreate ==
    ASSUME JInv, NEW r \in Runs, Create(r)
    PROVE  JInv' /\ FirmKept
<1>1. PICK p, after : /\ p = [status |-> "queued", nonce |-> FALSE]
                      /\ after = [Free EXCEPT !.pc = "create", !.run = r]
  OBVIOUS
<1>2. up /\ loop.pc = "free" /\ pipelines[r] = Null /\ SavePipeline(r, p, after)
  BY <1>1 DEF Create, At
<1>3. p \in Pipelines /\ p.status = "queued" /\ ~p.nonce
  BY <1>1 DEF Pipelines, PipelineStatus
<1>4. /\ after \in Loops /\ after.pc = "create" /\ after.run = r /\ after.todo = {}
  BY <1>1, StepNumbers DEF Free, Loops, LoopPC
<1>5. steps[r] = <<>> /\ Len(steps[r]) = 0 /\ Present(r) = {}
  <2>1. steps[r] = <<>>
    BY <1>2 DEF JInv, Files, FilesFit, RunFits
  <2> QED BY <2>1 DEF Present
<1>6. /\ Files' /\ FirmKept /\ LoopTyped' /\ TasksFit'
      /\ loop' = after /\ UNCHANGED <<steps, art, life, task>>
      /\ DiskGrows /\ Listed' = Listed \cup {r}
      /\ pipelines'[r] = p
      /\ \A q : (Closing(q) <=> Closing(q)') /\ Present(q)' = Present(q)
      /\ \A q \in Runs : q # r => Beside(q)
  BY <1>2, <1>3, <1>4, <1>5, PipeKeeps
<1>7. LoopFits'
  <2>1. up'
    BY <1>2, <1>6 DEF life
  <2>2. Fresh(r)'
    BY <1>3, <1>5, <1>6 DEF Fresh
  <2>3. Len(steps'[r]) < NSteps
    BY <1>5, <1>6, StepNumbers
  <2> QED BY <1>4, <1>6, <2>1, <2>2, <2>3 DEF LoopFits, InRun, Passing, Worked, InFilter
<1>8. RunsSettled'
  <2>1. Busy(r)'
    BY <1>4, <1>6 DEF Busy, InRun, InFilter, LoopPC
  <2>2. \A q \in Listed' : q # r => Undisturbed(q)
    BY <1>2, <1>6 DEF Undisturbed, Busy, Passing, InRun, Listed
  <2>3. Files /\ RunsSettled
    BY DEF JInv
  <2> HIDE DEF RunsSettled, Busy, Settled
  <2> QED BY <1>2, <1>6, <2>1, <2>2, <2>3, RunsGo
<1> QED BY <1>6, <1>7, <1>8 DEF JInv

\* A new step is one that nothing was done with.
LEMMA NewDocs ==
    ASSUME NEW i \in Steps
    PROVE  /\ NewDoc(i) \in Doc /\ NewDoc(i).key = Null /\ NewDoc(i).out = Null
           /\ NewDoc(i).status \in {"ready", "pending"} /\ NewDoc(i).suspect = FALSE
           /\ NewDoc(i).status = "ready" => DependsOn(i) = {}
BY FirstStatuses DEF NewDoc, Doc, StepStatus

\* The files of a run whose steps are all new.
LEMMA FreshSettled ==
    ASSUME Files, NEW r \in Runs, Fresh(r), steps[r] # <<>>
    PROVE  AgreesAs(r, "queued")
<1>1. \A i \in Present(r) : steps[r][i].status \in {"ready", "pending"}
  BY FileIs, NewDocs DEF Fresh
<1>2. Statuses(r) \subseteq {"ready", "pending"}
  BY <1>1 DEF Statuses
<1>3. LastOf(r).status \in {"ready", "pending"}
  BY <1>1, FilesOf DEF LastOf, Files
<1> QED BY <1>2, <1>3 DEF AgreesAs, Derived, OK

\* A creation writes the next step file.
LEMMA KeepCreateStep ==
    ASSUME JInv, CreateStep
    PROVE  JInv' /\ FirmKept
<1>1. PICK r, n : r = loop.run /\ n = Len(steps[r])
  OBVIOUS
<1>2. /\ up /\ loop.pc = "create" /\ UNCHANGED <<pipelines, art, life, task>>
      /\ steps' = [steps EXCEPT ![r] = Append(@, NewDoc(n + 1))]
      /\ loop' = IF n + 1 < NSteps THEN loop
                 ELSE IF r \in ForceRefresh THEN To("nonce") ELSE Free
  BY <1>1 DEF CreateStep, At
<1>3. /\ r \in Runs /\ r \in Listed /\ Fresh(r) /\ n < NSteps
  BY <1>1, <1>2, RunOfLoop DEF JInv, LoopFits, InRun, LoopPC
<1>4. /\ n \in Nat /\ n + 1 \in Steps /\ Present(r) = 1..n /\ FilesTyped
  <2>1. n \in Nat /\ Present(r) = 1..n /\ FilesTyped
    BY <1>1, <1>3, FilesOf DEF JInv, Files
  <2> QED BY <1>3, <2>1, StepNumbers DEF Steps
<1>5. PICK new : new = NewDoc(n + 1)
  OBVIOUS
<1>6. new \in Doc /\ new.key = Null /\ new.out = Null /\ new.suspect = FALSE
      /\ new.status \in {"ready", "pending"} /\ (new.status = "ready" => DependsOn(n + 1) = {})
  BY <1>4, <1>5, NewDocs
<1>7. PICK g : g = Append(steps[r], new)
  OBVIOUS
<1>8. /\ g \in Seq(Doc) /\ Len(g) = n + 1 /\ g[n + 1] = new
      /\ \A j \in 1..n : g[j] = steps[r][j]
  BY <1>1, <1>3, <1>4, <1>6, <1>7, FilesOf, AppendProperties
<1>9. steps' = [steps EXCEPT ![r] = g]
  BY <1>2, <1>5, <1>7
<1>10. /\ \A q \in Runs : steps'[q] = IF q = r THEN g ELSE steps[q]
       /\ steps' \in [Runs -> Seq(Doc)]
  BY <1>4, <1>8, <1>9 DEF FilesTyped
<1>11. FilesTyped'
  <2>1. UNCHANGED <<pipelines, artifacts, commits>>
    BY <1>2 DEF art
  <2>2. \A q \in Runs : Len(steps'[q]) <= NSteps
    <3>1. Len(g) <= NSteps
      BY <1>4, <1>8, StepNumbers DEF Steps
    <3>2. \A q \in Runs : Len(steps[q]) <= NSteps
      BY <1>4 DEF FilesTyped
    <3> QED BY <1>10, <3>1, <3>2
  <2> QED BY <1>4, <1>10, <2>1, <2>2 DEF FilesTyped
<1>12. Present(r)' = 1..(n + 1) /\ \A q \in Runs : q # r => Present(q)' = Present(q)
  BY <1>3, <1>8, <1>10 DEF Present
<1>13. DiskOK' /\ DiskGrows /\ \A k : Art!Valid(k)' <=> Art!Valid(k)
  BY <1>2, SameDisk DEF art, JInv, Files
<1>14. \A q \in Runs : \A j \in Present(q) : j \in Present(q)' /\ steps'[q][j] = steps[q][j]
  BY <1>4, <1>8, <1>10, <1>12
<1>15. Files' /\ FirmKept
  <2>1. \A q \in Runs : /\ pipelines'[q] = Null => steps'[q] = <<>>
                        /\ pipelines'[q] # Null => (pipelines'[q].nonce => q \in ForceRefresh)
                        /\ Line(q)' = Line(q)
    BY <1>2, <1>3, <1>10 DEF JInv, Files, FilesFit, RunFits, Listed, Line
  <2>2. MayWrite(r, n + 1, new)
    <3>1. n + 1 \notin Present(r)
      BY <1>4
    <3>2. DocFits(n + 1, new)
      BY <1>6 DEF DocFits, OK
    <3>3. Traced(r, n + 1, new)
      BY <1>6 DEF Traced, OK, Begun
    <3> QED BY <3>1, <3>2, <3>3 DEF MayWrite
  <2>3. ASSUME NEW q \in Runs, NEW j \in Present(q)'
        PROVE  /\ MayWrite(q, j, steps'[q][j])
               /\ steps'[q][j].key # Null => Line(q)' = Line(q)
               /\ \A m \in DependsOn(j) : m \in Present(q)
    <3>1. CASE j \in Present(q)
      BY <1>4, <1>14, <2>1, <3>1, MayStay, DepsPresent DEF JInv
    <3>2. CASE q = r /\ j = n + 1
      <4>1. \A m \in DependsOn(j) : m \in Present(q)
        BY <1>4, <3>2, StepNumbers DEF Steps
      <4> QED BY <1>8, <1>10, <2>1, <2>2, <3>2, <4>1
    <3> QED BY <1>4, <1>12, <3>1, <3>2
  <2>4. Files
    BY DEF JInv
  <2>5. \A q \in Runs : \A j \in Present(q) : j \in Present(q)'
    BY <1>14
  <2> HIDE DEF Files, FirmKept, MayWrite
  <2> QED BY <1>11, <1>13, <2>1, <2>3, <2>4, <2>5, FilesGo
<1>16. loop' \in Loops /\ LoopTyped
  <2>1. LoopTyped /\ loop \in Loops /\ "nonce" \in LoopPC
    BY DEF JInv, LoopTyped, LoopPC
  <2> QED BY <1>2, <2>1, LoopRecords
<1>17. LoopTyped'
  BY <1>2, <1>16 DEF LoopTyped, life
<1>18. TasksFit'
  <2>1. \A q \in Runs : steps[q] # <<>> => steps'[q] # <<>>
    <3>1. \A q \in Runs : steps[q] # <<>> => Len(steps[q]) \in Present(q)
      BY <1>4, FilesOf
    <3>2. \A q \in Runs : Present(q)' # {} => steps'[q] # <<>>
      BY DEF Present
    <3> QED BY <1>14, <3>1, <3>2
  <2>2. PICK W : W = {}
    OBVIOUS
  <2>3. \A w \in Workers \ W :
              /\ task'[w] = task[w]
              /\ \A q \in Runs : w \in Present(q) =>
                    w \in Present(q)' /\ steps'[q][w].key = steps[q][w].key
              /\ Saving(w) => Saving(w)'
    BY <1>2, <1>14 DEF Saving
  <2>4. \A k \in ArtifactKeys : k.step \notin W /\ Art!Valid(k)' => Art!Valid(k)
    BY <1>13
  <2>5. \A w \in W : TaskFits(w, task[w])'
    BY <2>2
  <2>6. Files /\ TasksFit
    BY DEF JInv
  <2> HIDE DEF TaskFits, TasksFit
  <2> QED BY <1>13, <2>1, <2>3, <2>4, <2>5, <2>6, TasksGo
<1>19. Fresh(r)' /\ steps'[r] # <<>> /\ Len(steps'[r]) = n + 1
  <2>1. \A j \in 1..(n + 1) : g[j] = NewDoc(j)
    BY <1>3, <1>4, <1>5, <1>8 DEF Fresh
  <2>2. Fresh(r)'
    BY <1>2, <1>3, <1>10, <1>12, <2>1 DEF Fresh, NewDoc
  <2>3. g # <<>>
    BY <1>4, <1>8, EmptySeq
  <2> QED BY <1>3, <1>8, <1>10, <2>2, <2>3
<1>20. Listed' = Listed
  BY <1>2 DEF Listed
<1>21. /\ Free.pc = "free" /\ Free.todo = {}
       /\ To("nonce").pc = "nonce" /\ To("nonce").run = r /\ To("nonce").todo = loop.todo
  <2>1. "nonce" \in LoopPC
    BY DEF LoopPC
  <2> QED BY <1>1, <1>16, <2>1, LoopRecords
<1>22. LoopFits'
  <2>1. up' /\ loop.todo \subseteq Listed
    BY <1>2 DEF life, JInv, LoopFits
  <2>2. CASE n + 1 < NSteps
    <3>1. loop' = loop
      BY <1>2, <2>2
    <3> QED BY <1>1, <1>2, <1>3, <1>19, <1>20, <2>1, <2>2, <3>1
        DEF LoopFits, InRun, Passing, Worked, InFilter
  <2>3. CASE ~(n + 1 < NSteps) /\ r \in ForceRefresh
    <3>1. loop' = To("nonce")
      BY <1>2, <2>3
    <3> QED BY <1>3, <1>19, <1>20, <1>21, <2>1, <2>3, <3>1
        DEF LoopFits, InRun, Passing, Worked, InFilter
  <2>4. CASE ~(n + 1 < NSteps) /\ r \notin ForceRefresh
    <3>1. loop' = Free
      BY <1>2, <2>4
    <3> QED BY <1>17, <1>20, <1>21, <2>1, <3>1, LoopFree
  <2> QED BY <2>2, <2>3, <2>4
<1>23. RunsSettled'
  <2>1. Busy(r)' \/ Settled(r)'
    <3>1. CASE loop' # Free
      <4>1. loop'.pc \in {"create", "nonce"} /\ loop'.run = r
        BY <1>1, <1>2, <1>21, <3>1
      <4> QED BY <4>1 DEF Busy, InRun, InFilter, LoopPC
    <3>2. CASE loop' = Free
      <4>1. \A i \in Present(r)' : i \in Steps
        BY <1>3, <1>4, <1>12, StepNumbers DEF Steps
      <4>2. \A i \in Present(r)' : steps'[r][i].status \in {"ready", "pending"}
        BY <1>19, <4>1, NewDocs DEF Fresh, NewDoc
      <4>3. Statuses(r)' \subseteq {"ready", "pending"}
        BY <4>2 DEF Statuses
      <4>4. LastOf(r)'.status \in {"ready", "pending"}
        BY <1>4, <1>12, <1>19, <4>2 DEF LastOf
      <4>5. Derived(r, "queued")' = "queued"
        BY <4>3, <4>4 DEF Derived, OK
      <4> QED BY <1>19, <4>5 DEF Settled, Agrees, Fresh
    <3> QED BY <3>1, <3>2
  <2>2. \A q \in Listed' : q # r => Undisturbed(q)
    <3>1. \A q \in Runs : q # r => Beside(q) /\ (Closing(q) => Closing(q)')
      BY <1>2, <1>10 DEF Beside, Closing
    <3> QED BY <1>1, <1>2, <3>1 DEF Undisturbed, Busy, Passing, Listed
  <2>3. Files /\ RunsSettled
    BY DEF JInv
  <2> HIDE DEF RunsSettled, Busy, Settled
  <2> QED BY <1>2, <1>13, <1>15, <2>1, <2>2, <2>3, RunsGo
<1> QED BY <1>15, <1>17, <1>18, <1>22, <1>23 DEF JInv

\* The nonce of a forced run is written.
LEMMA KeepSaveNonce ==
    ASSUME JInv, SaveNonce
    PROVE  JInv' /\ FirmKept
<1>1. PICK r, p, after : /\ r = loop.run /\ p = [pipelines[r] EXCEPT !.nonce = TRUE]
                         /\ after = Free
  OBVIOUS
<1>2. up /\ loop.pc = "nonce" /\ SavePipeline(r, p, after)
  BY <1>1 DEF SaveNonce, At
<1>3. r \in Runs /\ pipelines[r] \in Pipelines
  BY <1>1, <1>2, RunOfLoop DEF InRun, LoopPC
<1>4. Fresh(r) /\ steps[r] # <<>> /\ r \in ForceRefresh
  BY <1>1, <1>2 DEF JInv, LoopFits, InRun, Passing, LoopPC
<1>5. p \in Pipelines /\ p.status = "queued" /\ p.nonce
  BY <1>1, <1>3, <1>4 DEF Pipelines, Fresh
<1>6. \A i \in Present(r) : steps[r][i].key = Null
  BY <1>3, <1>4, FileIs, NewDocs DEF Fresh, JInv
<1>7. after \in Loops /\ after.pc = "free" /\ after.todo = {}
  BY <1>1, LoopRecords DEF JInv
<1>8. /\ Files' /\ FirmKept /\ LoopTyped' /\ TasksFit'
      /\ loop' = after /\ UNCHANGED <<steps, art, life, task>>
      /\ DiskGrows /\ Listed' = Listed \cup {r}
      /\ \A q : Closing(q) <=> Closing(q)'
      /\ \A q \in Runs : q # r => Beside(q)
      /\ AgreesAs(r, p.status) /\ steps[r] # <<>> => Settled(r)'
  BY <1>2, <1>3, <1>4, <1>5, <1>6, <1>7, PipeKeeps
<1>9. LoopFits'
  <2>1. up'
    BY <1>2, <1>8 DEF life
  <2> QED BY <1>7, <1>8, <2>1, LoopFree
<1>10. RunsSettled'
  <2>1. Settled(r)'
    BY <1>3, <1>4, <1>5, <1>8, FreshSettled DEF JInv
  <2>2. \A q \in Listed' : q # r => Undisturbed(q)
    BY <1>1, <1>2, <1>8 DEF Undisturbed, Busy, Passing, InRun, Listed
  <2>3. Files /\ RunsSettled
    BY DEF JInv
  <2> HIDE DEF RunsSettled, Busy, Settled
  <2> QED BY <1>2, <1>8, <2>1, <2>2, <2>3, RunsGo
<1> QED BY <1>8, <1>9, <1>10 DEF JInv

-----------------------------------------------------------------------------
(* JobService.retry. *)

\* What retry finds and sets.
LEMMA KeepRetry ==
    ASSUME JInv, NEW r \in Runs, Retry(r)
    PROVE  JInv' /\ FirmKept
<1>1. PICK p, after : /\ p = [pipelines[r] EXCEPT !.status = "queued"]
                      /\ after = [Free EXCEPT !.pc = "reset", !.run = r]
  OBVIOUS
<1>2. /\ up /\ loop.pc = "free" /\ r \in Listed /\ pipelines[r].status \in {"failed", "blocked"}
      /\ SavePipeline(r, p, after)
  BY <1>1 DEF Retry, At
<1>3. pipelines[r] \in Pipelines /\ pipelines[r] # Null
  BY <1>2 DEF Listed, JInv, Files, FilesTyped
<1>4. p \in Pipelines /\ p.status = "queued" /\ p.nonce = pipelines[r].nonce
  BY <1>1, <1>3 DEF Pipelines, PipelineStatus
<1>5. p.nonce => r \in ForceRefresh
  BY <1>3, <1>4 DEF JInv, Files, FilesFit, RunFits
<1>6. after \in Loops /\ after.pc = "reset" /\ after.run = r /\ after.todo = {}
  BY <1>1, StepNumbers DEF Free, Loops, LoopPC
<1>7. /\ Files' /\ FirmKept /\ LoopTyped' /\ TasksFit'
      /\ loop' = after /\ UNCHANGED <<steps, art, life, task>>
      /\ DiskGrows /\ Listed' = Listed \cup {r} /\ pipelines'[r] = p
      /\ \A q : (Closing(q) <=> Closing(q)') /\ LastOf(q)' = LastOf(q)
      /\ \A q \in Runs : q # r => Beside(q)
  BY <1>2, <1>3, <1>4, <1>5, <1>6, PipeKeeps
<1>8. Settled(r)
  <2>1. ~Busy(r)
    BY <1>2 DEF Busy, Passing, InRun
  <2> QED BY <1>2, <2>1 DEF JInv, RunsSettled
<1>9. Lost > 0 \/ LastOf(r).status \notin OK \/ Closing(r)
  <2>1. CASE Agrees(r) /\ ~(Lost > 0)
    <3>1. pipelines[r].status = Derived(r, "queued")
      BY <1>2, <2>1 DEF Agrees, Lost
    <3> QED BY <1>2, <3>1 DEF Derived
  <2> QED BY <1>8, <2>1 DEF Settled
<1>10. Queued(r)'
  BY <1>4, <1>7, <1>9 DEF Queued, DiskGrows
<1>11. LoopFits'
  <2>1. up' /\ steps'[r] # <<>>
    BY <1>2, <1>7, <1>8 DEF life, Settled
  <2> QED BY <1>6, <1>7, <1>10, <2>1 DEF LoopFits, InRun, Passing, Worked, InFilter
<1>12. RunsSettled'
  <2>1. Busy(r)'
    BY <1>6, <1>7 DEF Busy, InRun, InFilter, LoopPC
  <2>2. \A q \in Listed' : q # r => Undisturbed(q)
    BY <1>2, <1>7 DEF Undisturbed, Busy, Passing, InRun, Listed
  <2>3. Files /\ RunsSettled
    BY DEF JInv
  <2> HIDE DEF RunsSettled, Busy, Settled
  <2> QED BY <1>2, <1>7, <2>1, <2>2, <2>3, RunsGo
<1> QED BY <1>7, <1>11, <1>12 DEF JInv

\* Neither loop of retry makes a step finish that was not.
LEMMA KeepsQueued ==
    ASSUME Files, NEW r \in Runs, Queued(r), DiskGrows, pipelines' = pipelines, task' = task,
           steps[r] # <<>>, LastOf(r).status \notin OK => LastOf(r)'.status \notin OK
    PROVE  Queued(r)'
BY DEF Queued, DiskGrows, Closing

\* A retry resets one step file.
LEMMA KeepReset ==
    ASSUME JInv, Reset
    PROVE  JInv' /\ FirmKept
<1>1. PICK r, new, after : r = loop.run /\ new = Restarted(r) /\ after = To("repromote")
  OBVIOUS
<1>2. up /\ loop.pc = "reset" /\ SaveEach(new, after)
  BY <1>1 DEF Reset, At
<1>3. r \in Runs /\ r \in Listed /\ Queued(r) /\ steps[r] # <<>> /\ loop.todo \subseteq Listed
      /\ Files /\ LoopFits
  BY <1>1, <1>2, RunOfLoop DEF JInv, LoopFits, InRun, Passing, LoopPC
<1>4. /\ after \in Loops /\ after.pc = "repromote" /\ after.run = r /\ after.todo = loop.todo
  <2>1. "repromote" \in LoopPC
    BY DEF LoopPC
  <2> QED BY <1>1, <2>1, LoopRecords DEF JInv
<1>5. ASSUME NEW i \in Present(r)
      PROVE  /\ new[i] \in Doc /\ MayWrite(r, i, new[i]) /\ new[i].key = steps[r][i].key
             /\ steps[r][i].status \notin OK => new[i].status \in {"ready", "pending"}
  <2>1. /\ new[i] \in Doc /\ MayWrite(r, i, new[i]) /\ new[i].key = steps[r][i].key
    BY <1>1, <1>3, MayRestart
  <2>2. ASSUME steps[r][i].status \notin OK PROVE new[i].status \in {"ready", "pending"}
    <3>1. PICK s, st : s = steps[r][i] /\ st = FirstStatus(i)
      OBVIOUS
    <3>2. s \in Doc /\ st \in StepStatus /\ st \in {"ready", "pending"}
      BY <1>3, <3>1, FileIs, FirstStatuses DEF StepStatus
    <3>3. PICK b : b = Become(s, st)
      OBVIOUS
    <3>4. b \in Doc /\ b.status = st
      BY <3>2, <3>3, Becomes
    <3>5. new[i] = [b EXCEPT !.attempt = 0]
      BY <1>1, <2>2, <3>1, <3>3 DEF Restarted, RestartedDoc
    <3> QED BY <3>2, <3>4, <3>5 DEF Doc
  <2> QED BY <2>1, <2>2
<1>6. Len(steps[r]) \in Present(r)
  BY <1>3, FilesOf DEF Files
<1>7. loop.pc \in InRun \ (InFilter \cup {"execute"})
  BY <1>2 DEF InRun, InFilter, LoopPC
<1>8. \/ /\ Go(after)
         /\ \A i \in Present(r) : new[i] = steps[r][i]
      \/ /\ Files' /\ FirmKept /\ LoopTyped' /\ TasksFit' /\ RunsSettled'
         /\ UNCHANGED <<pipelines, art, life, loop, task>>
         /\ DiskGrows /\ Listed' = Listed
         /\ steps[r] # <<>> => steps'[r] # <<>>
         /\ LastOf(r)' = steps'[r][Len(steps[r])]
         /\ \A j \in Present(r) : steps'[r][j] \in {steps[r][j], new[j]}
  BY <1>1, <1>2, <1>4, <1>5, <1>7, EachKeeps
<1>9. CASE ~Go(after)
  <2>1. /\ Files' /\ FirmKept /\ LoopTyped' /\ TasksFit' /\ RunsSettled'
        /\ UNCHANGED <<pipelines, art, life, loop, task>>
        /\ DiskGrows /\ Listed' = Listed /\ steps'[r] # <<>>
        /\ LastOf(r)' = steps'[r][Len(steps[r])]
        /\ \A j \in Present(r) : steps'[r][j] \in {steps[r][j], new[j]}
    BY <1>3, <1>8, <1>9
  <2>2. LastOf(r).status \notin OK => LastOf(r)'.status \notin OK
    BY <1>5, <1>6, <2>1 DEF LastOf, OK
  <2>3. Queued(r)'
    BY <1>3, <2>1, <2>2, KeepsQueued
  <2>4. LoopFits'
    <3>1. up' = up
      BY <2>1 DEF life
    <3> QED BY <1>1, <1>2, <1>3, <2>1, <2>3, <3>1 DEF LoopFits, InRun, Passing, Worked, InFilter
  <2> QED BY <2>1, <2>4 DEF JInv
<1>10. CASE Go(after)
  <2>1. /\ Files' /\ FirmKept /\ LoopTyped' /\ TasksFit'
        /\ loop' = after /\ UNCHANGED <<pipelines, steps, art, life, task>>
        /\ DiskGrows /\ Listed' = Listed
        /\ \A q : /\ (Closing(q) <=> Closing(q)') /\ Statuses(q)' = Statuses(q)
                  /\ LastOf(q)' = LastOf(q)
        /\ \A q \in Runs : Beside(q)
    BY <1>2, <1>4, <1>10, GoKeeps
  <2>2. Queued(r)'
    BY <1>3, <2>1, KeepsQueued
  <2>3. Statuses(r)' \subseteq OK \cup {"ready", "pending"}
    <3>1. \/ \A i \in Present(r) : new[i] = steps[r][i]
          \/ loop' = loop
      BY <1>8
    <3>2. \A i \in Present(r) : new[i] = steps[r][i]
      BY <1>2, <1>4, <2>1, <3>1
    <3>3. Statuses(r) \subseteq OK \cup {"ready", "pending"}
      BY <1>5, <3>2 DEF Statuses
    <3> QED BY <2>1, <3>3
  <2>4. LoopFits'
    <3>1. up'
      BY <1>2, <2>1 DEF life
    <3> QED BY <1>3, <1>4, <2>1, <2>2, <2>3, <3>1 DEF LoopFits, InRun, Passing, Worked, InFilter
  <2>5. RunsSettled'
    <3>1. \A q \in Listed' : Undisturbed(q)
      BY <1>1, <1>2, <1>4, <2>1 DEF Undisturbed, Busy, Passing, InRun, InFilter, LoopPC, Listed
    <3>2. Files /\ RunsSettled
      BY DEF JInv
    <3> HIDE DEF RunsSettled, Busy, Settled
    <3> QED BY <1>2, <2>1, <3>1, <3>2, RunsGo
  <2> QED BY <2>1, <2>4, <2>5 DEF JInv
<1> QED BY <1>9, <1>10

\* A retry readies one step file.
LEMMA KeepRepromote ==
    ASSUME JInv, Repromote
    PROVE  JInv' /\ FirmKept
<1>1. PICK from : from = {"pending", "blocked", "retrying", "ready"}
  OBVIOUS
<1>2. PICK r, new, after : r = loop.run /\ new = Promoted(r, from) /\ after = Free
  OBVIOUS
<1>3. up /\ loop.pc = "repromote" /\ SaveEach(new, after)
  BY <1>1, <1>2 DEF Repromote, At
<1>4. /\ r \in Runs /\ r \in Listed /\ Queued(r) /\ steps[r] # <<>> /\ loop.todo \subseteq Listed
      /\ Statuses(r) \subseteq OK \cup {"ready", "pending"} /\ Files
  BY <1>2, <1>3, RunOfLoop DEF JInv, LoopFits, InRun, Passing, LoopPC
<1>5. after \in Loops /\ after.pc = "free" /\ after.todo = {}
  BY <1>2, LoopRecords DEF JInv
<1>6. ASSUME NEW i \in Present(r)
      PROVE  /\ new[i] \in Doc /\ MayWrite(r, i, new[i]) /\ new[i].key = steps[r][i].key
             /\ new[i] = steps[r][i] \/ new[i].status = "ready"
  <2>1. from \cap OK = {}
    BY <1>1 DEF OK
  <2>2. /\ new[i] \in Doc /\ MayWrite(r, i, new[i]) /\ new[i].key = steps[r][i].key
    BY <1>2, <1>4, <2>1, MayPromote
  <2>3. new[i] = steps[r][i] \/ new[i] = Become(steps[r][i], "ready")
    BY <1>2 DEF Promoted
  <2>4. Become(steps[r][i], "ready").status = "ready"
    <3>1. "ready" \in StepStatus /\ steps[r][i] \in Doc
      BY <1>4, FileIs DEF StepStatus
    <3> QED BY <3>1, Becomes
  <2> QED BY <2>2, <2>3, <2>4
<1>7. Len(steps[r]) \in Present(r)
  BY <1>4, FilesOf DEF Files
<1>8. loop.pc \in InRun \ (InFilter \cup {"execute"})
  BY <1>3 DEF InRun, InFilter, LoopPC
<1>9. CASE ~Go(after)
  <2>1. /\ Files' /\ FirmKept /\ LoopTyped' /\ TasksFit' /\ RunsSettled'
        /\ UNCHANGED <<pipelines, art, life, loop, task>>
        /\ DiskGrows /\ Listed' = Listed
        /\ steps[r] # <<>> => steps'[r] # <<>>
        /\ Present(r)' = Present(r) /\ LastOf(r)' = steps'[r][Len(steps[r])]
        /\ \A j \in Present(r) : steps'[r][j] \in {steps[r][j], new[j]}
    BY <1>2, <1>3, <1>5, <1>6, <1>8, <1>9, EachKeeps
  <2>2. \A j \in Present(r) : steps'[r][j] = steps[r][j] \/ steps'[r][j].status = "ready"
    BY <1>6, <2>1
  <2>3. LastOf(r).status \notin OK => LastOf(r)'.status \notin OK
    BY <1>7, <2>1, <2>2 DEF LastOf, OK
  <2>4. Queued(r)'
    BY <1>4, <2>1, <2>3, KeepsQueued
  <2>5. Statuses(r)' \subseteq OK \cup {"ready", "pending"}
    <3>1. \A j \in Present(r) : steps[r][j].status \in OK \cup {"ready", "pending"}
      BY <1>4 DEF Statuses
    <3>2. \A j \in Present(r)' : steps'[r][j].status \in OK \cup {"ready", "pending"}
      BY <2>1, <2>2, <3>1
    <3> QED BY <3>2 DEF Statuses
  <2>6. LoopFits'
    <3>1. up' = up
      BY <2>1 DEF life
    <3> QED BY <1>2, <1>3, <1>4, <2>1, <2>4, <2>5, <3>1
        DEF LoopFits, InRun, Passing, Worked, InFilter
  <2> QED BY <2>1, <2>6 DEF JInv
<1>10. CASE Go(after)
  <2>1. /\ Files' /\ FirmKept /\ LoopTyped' /\ TasksFit'
        /\ loop' = after /\ UNCHANGED <<pipelines, steps, art, life, task>>
        /\ DiskGrows /\ Listed' = Listed
        /\ \A q : (Closing(q) <=> Closing(q)')
        /\ \A q \in Runs : Beside(q) /\ (Settled(q) => Settled(q)')
    BY <1>3, <1>5, <1>10, GoKeeps
  <2>2. LoopFits'
    <3>1. up'
      BY <1>3, <2>1 DEF life
    <3> QED BY <1>5, <2>1, <3>1, LoopFree
  <2>3. Settled(r)
    <3>1. pipelines[r].status = "queued" /\ (Lost > 0 \/ LastOf(r).status \notin OK \/ Closing(r))
      BY <1>4 DEF Queued
    <3>2. "failed" \notin Statuses(r) /\ "blocked" \notin Statuses(r)
      BY <1>4 DEF OK
    <3>3. RefusedStatus(r) = "queued" /\ (LastOf(r).status \notin OK => Derived(r, "queued") = "queued")
      BY <3>2 DEF RefusedStatus, Derived
    <3> QED BY <1>4, <3>1, <3>3 DEF Settled, Agrees, Lost
  <2>4. RunsSettled'
    <3>1. \A q \in Listed' : q # r => Undisturbed(q)
      BY <1>2, <1>3, <2>1 DEF Undisturbed, Busy, Passing, InRun, Listed
    <3>2. Files /\ RunsSettled /\ Settled(r)'
      BY <1>4, <2>1, <2>3 DEF JInv
    <3> HIDE DEF RunsSettled, Busy, Settled
    <3> QED BY <1>3, <2>1, <3>1, <3>2, RunsGo
  <2> QED BY <2>1, <2>2, <2>4 DEF JInv
<1> QED BY <1>9, <1>10

-----------------------------------------------------------------------------
(* claim_one. *)

\* What a worker finds to claim.
LEMMA ClaimableIs ==
    ASSUME JInv, NEW r \in Claimable
    PROVE  /\ r \in loop.todo /\ r \in Runs /\ r \in Listed /\ loop.w \in Present(r)
           /\ steps[r][loop.w].status \in {"ready", "retrying"}
BY DEF Claimable, JInv, LoopFits, Listed

\* claim_one refuses a step, which becomes blocked or pending.
LEMMA KeepRefuse ==
    ASSUME JInv, Refuse
    PROVE  JInv' /\ FirmKept
<1>1. PICK w : w = loop.w
  OBVIOUS
<1>2. PICK r \in Claimable :
         /\ Verdict(r, w) # "valid"
         /\ SaveStep(r, w, Become(steps[r][w],
                     IF Verdict(r, w) = "invalid" THEN "blocked" ELSE "pending"))
         /\ loop' = [loop EXCEPT !.pc = "refused", !.run = r, !.todo = @ \ {r}]
  BY <1>1 DEF Refuse
<1>3. up /\ loop.pc = "claim" /\ task' = task /\ LoopTyped /\ Files /\ LoopFits
  BY DEF Refuse, At, JInv
<1>4. /\ r \in loop.todo /\ r \in Runs /\ r \in Listed /\ w \in Present(r)
      /\ steps[r][w].status \in {"ready", "retrying"}
  BY <1>1, ClaimableIs
<1>5. PICK st : st = IF Verdict(r, w) = "invalid" THEN "blocked" ELSE "pending"
  OBVIOUS
<1>6. PICK s : s = Become(steps[r][w], st)
  OBVIOUS
<1>7. SaveStep(r, w, s)
  BY <1>2, <1>5, <1>6
<1>8. s \in Doc /\ MayWrite(r, w, s) /\ s.key = steps[r][w].key
  <2>1. ~Firm(r, w)
    BY <1>3, <1>4, FileIs DEF Finished, OK
  <2>2. st \in {"pending", "blocked", "ready"} /\ st # "ready"
    BY <1>5
  <2> QED BY <1>3, <1>4, <1>6, <2>1, <2>2, MayBecome
<1>9. /\ loop' \in Loops /\ loop'.pc = "refused" /\ loop'.run = r /\ loop'.w = w
      /\ loop'.todo = loop.todo \ {r}
  BY <1>1, <1>2, <1>3, <1>4 DEF LoopTyped, Loops, LoopPC
<1>10. PICK W : W = {}
  OBVIOUS
<1>11. \A v \in Workers \ W : task'[v] = task[v] /\ (Saving(v) => Saving(v)')
  BY <1>3 DEF Saving
<1>12. \A v \in W : TaskFits(v, task[v])'
  BY <1>10
<1>13. task' \in [Workers -> Tasks] /\ (w \in Workers \ W => s.key = steps[r][w].key)
  BY <1>3, <1>8 DEF LoopTyped
<1>14. /\ Files' /\ FirmKept /\ LoopTyped' /\ TasksFit'
       /\ UNCHANGED <<pipelines, art, life>>
       /\ DiskGrows /\ Listed' = Listed
       /\ \A q \in Runs : steps'[q] = <<>> <=> steps[q] = <<>>
       /\ \A q \in Runs : q # r => Beside(q)
  BY <1>4, <1>7, <1>8, <1>9, <1>11, <1>12, <1>13, SaveKeeps
<1>15. Lost' > 0
  <2>1. Lost # 0
    BY <1>2, <1>3, <1>4, RefusedByLoss
  <2>2. Lost \in Nat
    BY <1>3, LostNat, StepNumbers DEF Files, FilesTyped
  <2>3. Lost > 0
    BY <2>1, <2>2
  <2> QED BY <1>14, <2>3 DEF DiskGrows
<1>16. LoopFits'
  <2>1. up' /\ loop.todo \subseteq Listed
    BY <1>3, <1>14 DEF life, LoopFits
  <2>2. steps'[r] # <<>>
    BY <1>3, <1>4, <1>14, FilesOf DEF Files
  <2>3. w \in Workers /\ task[w].pc = "sleeping"
    BY <1>1, <1>3, WorkerHere DEF Worked, InFilter
  <2> QED BY <1>3, <1>4, <1>9, <1>14, <1>15, <2>1, <2>2, <2>3
      DEF LoopFits, InRun, Passing, Worked, InFilter
<1>17. RunsSettled'
  <2>1. Busy(r)'
    BY <1>9 DEF Busy, InRun, InFilter, LoopPC
  <2>2. \A q \in Listed' : q # r => Undisturbed(q)
    BY <1>3, <1>14 DEF Undisturbed, Busy, Closing, Passing, InRun, Listed
  <2>3. Files /\ RunsSettled
    BY DEF JInv
  <2> HIDE DEF RunsSettled, Busy, Settled
  <2> QED BY <1>3, <1>14, <2>1, <2>2, <2>3, RunsGo
<1> QED BY <1>14, <1>16, <1>17 DEF JInv

\* claim_one writes the claimed step.
LEMMA KeepClaim ==
    ASSUME JInv, Claim
    PROVE  JInv' /\ FirmKept
<1>1. PICK w : w = loop.w
  OBVIOUS
<1>2. PICK r \in Claimable :
         /\ Verdict(r, w) = "valid"
         /\ SaveStep(r, w, ClaimedDoc(r, w, steps[r][w]))
         /\ loop' = [loop EXCEPT !.pc = "claimed", !.run = r, !.todo = {}]
  BY <1>1 DEF Claim
<1>3. up /\ loop.pc = "claim" /\ task' = task /\ LoopTyped /\ Files /\ LoopFits
  BY DEF Claim, At, JInv
<1>4. /\ r \in Runs /\ r \in Listed /\ w \in Present(r)
      /\ steps[r][w].status \in {"ready", "retrying"}
  BY <1>1, ClaimableIs
<1>5. PICK s : s = ClaimedDoc(r, w, steps[r][w])
  OBVIOUS
<1>6. SaveStep(r, w, s)
  BY <1>2, <1>5
<1>7. s \in Doc /\ MayWrite(r, w, s) /\ s.status = "running"
  BY <1>2, <1>3, <1>4, <1>5, MayClaim
<1>8. w \in Workers /\ task[w].pc = "sleeping"
  BY <1>1, <1>3, WorkerHere DEF Worked, InFilter
<1>9. /\ loop' \in Loops /\ loop'.pc = "claimed" /\ loop'.run = r /\ loop'.w = w
      /\ loop'.todo = {}
  BY <1>1, <1>2, <1>3, <1>4 DEF LoopTyped, Loops, LoopPC
<1>10. PICK W : W = {w}
  OBVIOUS
<1>11. \A v \in Workers \ W : task'[v] = task[v] /\ (Saving(v) => Saving(v)')
  BY <1>3 DEF Saving
<1>12. \A v \in W : TaskFits(v, task[v])'
  BY <1>3, <1>8, <1>10 DEF TaskFits
<1>13. task' \in [Workers -> Tasks] /\ (w \in Workers \ W => s.key = steps[r][w].key)
  BY <1>3, <1>10 DEF LoopTyped
<1>14. /\ Files' /\ FirmKept /\ LoopTyped' /\ TasksFit'
       /\ UNCHANGED <<pipelines, art, life>>
       /\ DiskGrows /\ Listed' = Listed
       /\ Present(r)' = Present(r)
       /\ \A q \in Runs : steps'[q] = <<>> <=> steps[q] = <<>>
       /\ \A j \in Present(r) : steps'[r][j] = IF j = w THEN s ELSE steps[r][j]
       /\ \A q \in Runs : q # r => Beside(q)
  BY <1>4, <1>6, <1>7, <1>9, <1>11, <1>12, <1>13, SaveKeeps
<1>15. LoopFits'
  <2>1. up'
    BY <1>3, <1>14 DEF life
  <2>2. steps'[r] # <<>>
    BY <1>3, <1>4, <1>14, FilesOf DEF Files
  <2>3. w \in Present(r)' /\ steps'[r][w].status = "running"
    BY <1>4, <1>7, <1>14
  <2>4. Inputs(r, w)' \subseteq ArtifactKeys
    <3>1. ASSUME NEW j \in DependsOn(w) PROVE steps'[r][j].out \in ArtifactKeys
      <4>1. j \in Present(r) /\ j # w
        BY <1>3, <1>4, DepsPresent DEF Files
      <4>2. steps[r][j] \in Doc /\ steps[r][j].out # Null
        BY <1>2, <1>3, <1>4, <4>1, FileIs, VerdictValid DEF OutputValid
      <4>3. steps'[r][j] = steps[r][j]
        BY <1>14, <4>1
      <4> QED BY <4>2, <4>3 DEF Doc
    <3> QED BY <3>1 DEF Inputs
  <2> QED BY <1>3, <1>4, <1>8, <1>9, <1>14, <2>1, <2>2, <2>3, <2>4
      DEF LoopFits, InRun, Passing, Worked, InFilter
<1>16. RunsSettled'
  <2>1. Busy(r)'
    BY <1>9 DEF Busy, InRun, InFilter, LoopPC
  <2>2. \A q \in Listed' : q # r => Undisturbed(q)
    BY <1>3, <1>14 DEF Undisturbed, Busy, Closing, Passing, InRun, Listed
  <2>3. Files /\ RunsSettled
    BY DEF JInv
  <2> HIDE DEF RunsSettled, Busy, Settled
  <2> QED BY <1>3, <1>14, <2>1, <2>2, <2>3, RunsGo
<1> QED BY <1>14, <1>15, <1>16 DEF JInv

-----------------------------------------------------------------------------
(* execute. *)

\* The end of execute: a file is written, and the heartbeat is awaited if it is there.
LEMMA KeepLeave ==
    ASSUME JInv, up, loop.pc \in {"execute", "save", "failing"},
           NEW w, w = loop.w, NEW r, r = loop.run,
           w \in Present(r), NEW s \in Doc, SaveStep(r, w, s), MayWrite(r, w, s),
           NEW beating \in BOOLEAN, Leave(r, beating), task[w].pc # "closing"
    PROVE  JInv' /\ FirmKept
<1>1. LoopTyped /\ Files /\ LoopFits
  BY DEF JInv
<1>2. r \in Runs /\ r \in Listed
  BY RunOfLoop DEF InRun, LoopPC
<1>3. w \in Workers
  BY WorkerHere DEF Worked
<1>4. PICK closing : closing = [Sleeping EXCEPT !.pc = "closing", !.run = r]
  OBVIOUS
<1>5. closing \in Tasks /\ closing.pc = "closing" /\ closing.run = r
  BY <1>2, <1>4, <1>1, LoopRecords DEF Tasks, TaskPC, Sleeping
<1>6. /\ Free \in Loops /\ Free.pc = "free" /\ Free.todo = {}
      /\ To("promote") \in Loops /\ To("promote").pc = "promote" /\ To("promote").w = w
      /\ To("promote").run = r /\ To("promote").todo = loop.todo
      /\ Sleeping \in Tasks /\ Sleeping.pc = "sleeping"
  <2>1. "promote" \in LoopPC
    BY DEF LoopPC
  <2> QED BY <1>1, <2>1, LoopRecords
<1>7. PICK t, after : /\ task' = [task EXCEPT ![w] = t] /\ loop' = after
                      /\ \/ t = closing /\ after = Free
                         \/ t = Sleeping /\ after = To("promote")
  BY <1>4 DEF Leave, SetTask
<1>8. /\ loop' \in Loops /\ task' \in [Workers -> Tasks] /\ task'[w] = t
      /\ \A v \in Workers : v # w => task'[v] = task[v]
  BY <1>1, <1>3, <1>5, <1>6, <1>7 DEF LoopTyped
<1>9. steps[r] # <<>> /\ Present(r)' = Present(r) /\ steps'[r] # <<>>
  BY <1>1, <1>2, FilesOf, SaveFrame DEF Files
<1>10. PICK W : W = {w}
  OBVIOUS
<1>11. \A v \in Workers \ W : task'[v] = task[v] /\ (Saving(v) => Saving(v)')
  BY <1>8, <1>10 DEF Saving
<1>12. \A v \in W : TaskFits(v, task[v])'
  BY <1>2, <1>5, <1>6, <1>7, <1>8, <1>9, <1>10 DEF TaskFits
<1>13. w \in Workers \ W => s.key = steps[r][w].key
  BY <1>10
<1>14. /\ Files' /\ FirmKept /\ LoopTyped' /\ TasksFit'
       /\ UNCHANGED <<pipelines, art, life>>
       /\ DiskGrows /\ Listed' = Listed
       /\ \A q \in Runs : q # r => Beside(q)
  BY <1>2, <1>8, <1>11, <1>12, <1>13, SaveKeeps
<1>15. LoopFits'
  <2>1. up' /\ loop.todo \subseteq Listed
    BY <1>1, <1>14 DEF life, LoopFits
  <2>2. CASE t = closing /\ after = Free
    BY <1>6, <1>7, <1>14, <2>1, <2>2, LoopFree
  <2>3. CASE t = Sleeping /\ after = To("promote")
    BY <1>2, <1>3, <1>6, <1>7, <1>8, <1>9, <1>14, <2>1, <2>3
    DEF LoopFits, InRun, Passing, Worked, InFilter
  <2> QED BY <1>7, <2>2, <2>3
<1>16. RunsSettled'
  <2>1. Busy(r)' \/ Settled(r)'
    <3>1. CASE t = closing /\ after = Free
      BY <1>3, <1>5, <1>8, <1>9, <3>1 DEF Settled, Closing
    <3>2. CASE t = Sleeping /\ after = To("promote")
      BY <1>6, <1>7, <3>2 DEF Busy, InRun, InFilter, LoopPC
    <3> QED BY <1>7, <3>1, <3>2
  <2>2. ASSUME NEW q \in Listed', q # r PROVE Undisturbed(q)
    <3>1. Closing(q) => Closing(q)'
      BY <1>8 DEF Closing
    <3>2. ~Busy(q)
      BY <2>2 DEF Busy, Passing
    <3> QED BY <1>14, <2>2, <3>1, <3>2 DEF Undisturbed, Listed
  <2>3. Files /\ RunsSettled
    BY DEF JInv
  <2> HIDE DEF RunsSettled, Busy, Settled
  <2> QED BY <1>14, <2>1, <2>2, <2>3, RunsGo
<1> QED BY <1>14, <1>15, <1>16 DEF JInv

\* execute() finds a valid artifact and does not filter.
LEMMA KeepFoundInCache ==
    ASSUME JInv, FoundInCache
    PROVE  JInv' /\ FirmKept
<1>1. PICK w, r : w = loop.w /\ r = loop.run
  OBVIOUS
<1>2. PICK s : s = [Become(steps[r][w], "succeeded_cached") EXCEPT !.out = steps[r][w].key]
  OBVIOUS
<1>3. /\ up /\ loop.pc = "execute" /\ Art!Valid(steps[r][w].key)
      /\ SaveStep(r, w, s) /\ Leave(r, TRUE)
  BY <1>1, <1>2 DEF FoundInCache, At
<1>4. /\ r \in Runs /\ w \in Present(r) /\ steps[r][w].status = "running" /\ Files
  BY <1>1, <1>3, RunOfLoop DEF JInv, LoopFits, InRun, LoopPC
<1>5. s \in Doc /\ MayWrite(r, w, s)
  BY <1>2, <1>3, <1>4, MayFind
<1>6. task[w].pc # "closing"
  BY <1>1, <1>3, WorkerHere DEF Worked, InFilter
<1> QED BY <1>1, <1>3, <1>4, <1>5, <1>6, KeepLeave

\* The task of the worker that has the loop, in a filter or after it.
LEMMA FilterHere ==
    ASSUME JInv, loop.pc \in InFilter
    PROVE  /\ loop.w \in Workers /\ Me.pc = "filtering" /\ Me.run = loop.run
           /\ InFlight(loop.w, Me) /\ Me.run \in Runs /\ Me \in Tasks
           /\ loop.run \in Listed /\ loop.todo \subseteq Listed
           /\ steps[loop.run] # <<>> /\ loop.w \in Present(loop.run)
<1>1. LoopFits /\ LoopTyped /\ TasksFit
  BY DEF JInv
<1>2. loop.w \in Workers /\ Me.pc = "filtering" /\ Me.run = loop.run
  BY <1>1 DEF LoopFits, Worked, InFilter, Me
<1>3. InFlight(loop.w, Me)
  BY <1>1, <1>2 DEF TasksFit, TaskFits, Me
<1>4. Me \in Tasks
  BY <1>1, <1>2 DEF LoopTyped, Me
<1>5. /\ loop.run \in Listed /\ loop.todo \subseteq Listed /\ steps[loop.run] # <<>>
  BY <1>1 DEF LoopFits, InRun, Passing, InFilter, LoopPC
<1> QED BY <1>2, <1>3, <1>4, <1>5 DEF InFlight

\* execute() saves its document after the filter.
LEMMA KeepSave ==
    ASSUME JInv, Save
    PROVE  JInv' /\ FirmKept
<1>1. PICK w, me : w = loop.w /\ me = Me
  OBVIOUS
<1>2. PICK s : s = SavedDoc(me.doc)
  OBVIOUS
<1>3. up /\ loop.pc = "save" /\ SaveStep(me.run, w, s) /\ Leave(me.run, me.beating)
  BY <1>1, <1>2 DEF Save, At
<1>4. /\ w \in Workers /\ me.pc = "filtering" /\ me.run = loop.run /\ InFlight(w, me)
      /\ me.run \in Runs /\ me \in Tasks
  BY <1>1, <1>3, FilterHere DEF InFilter
<1>5. Lost = 0 => Art!Valid(me.doc.key)
  BY <1>1, <1>3 DEF JInv, LoopFits, Me
<1>6. s \in Doc /\ MayWrite(me.run, w, s) /\ w \in Present(me.run)
  BY <1>2, <1>4, <1>5, MaySave DEF JInv, InFlight
<1>7. task[w].pc # "closing" /\ me.beating \in BOOLEAN
  BY <1>1, <1>4 DEF Me, Tasks
<1>8. PICK r, beating : r = me.run /\ beating = me.beating
  OBVIOUS
<1> QED BY <1>1, <1>3, <1>4, <1>6, <1>7, <1>8, KeepLeave

\* execute() saves its document after a failure.
LEMMA KeepSaveFailure ==
    ASSUME JInv, SaveFailure
    PROVE  JInv' /\ FirmKept
<1>1. PICK w, me : w = loop.w /\ me = Me
  OBVIOUS
<1>2. PICK s : s = FailedDoc(w, me.doc)
  OBVIOUS
<1>3. up /\ loop.pc = "failing" /\ SaveStep(me.run, w, s) /\ Leave(me.run, me.beating)
  BY <1>1, <1>2 DEF SaveFailure, At
<1>4. /\ w \in Workers /\ me.pc = "filtering" /\ me.run = loop.run /\ InFlight(w, me)
      /\ me.run \in Runs /\ me \in Tasks
  BY <1>1, <1>3, FilterHere DEF InFilter
<1>5. ~Saving(w)
  BY <1>3 DEF Saving
<1>6. s \in Doc /\ MayWrite(me.run, w, s) /\ w \in Present(me.run)
  BY <1>2, <1>4, <1>5, MayFail DEF JInv, InFlight
<1>7. task[w].pc # "closing" /\ me.beating \in BOOLEAN
  BY <1>1, <1>4 DEF Me, Tasks
<1>8. PICK r, beating : r = me.run /\ beating = me.beating
  OBVIOUS
<1> QED BY <1>1, <1>3, <1>4, <1>6, <1>7, <1>8, KeepLeave

\* execute() calls the filter and keeps its document meanwhile.
LEMMA KeepCallFilter ==
    ASSUME JInv, CallFilter
    PROVE  JInv' /\ FirmKept
<1>1. PICK w, r : w = loop.w /\ r = loop.run
  OBVIOUS
<1>2. PICK s : s = steps[r][w]
  OBVIOUS
<1>3. PICK me : me = [pc |-> "filtering", run |-> r, doc |-> [s EXCEPT !.lease = Null],
                      input |-> Inputs(r, w), beating |-> TRUE]
  OBVIOUS
<1>4. /\ up /\ loop.pc = "execute" /\ ~Art!Valid(s.key)
      /\ task' = [task EXCEPT ![w] = me]
      /\ loop' \in {To("filter"), Free}
      /\ UNCHANGED <<files, art, life>>
  BY <1>1, <1>2, <1>3 DEF CallFilter, At, SetTask
<1>5. /\ r \in Runs /\ r \in Listed /\ w \in Present(r) /\ s.status = "running" /\ Files
      /\ steps[r] # <<>> /\ loop.todo \subseteq Listed /\ LoopTyped /\ TasksFit
  BY <1>1, <1>2, <1>4, RunOfLoop DEF JInv, LoopFits, InRun, Passing, LoopPC
<1>6. w \in Workers /\ task[w].pc = "sleeping"
  BY <1>1, <1>4, WorkerHere DEF Worked, InFilter
<1>7. /\ s \in Doc /\ DocFits(w, s) /\ (Lost = 0 => Traced(r, w, s))
  BY <1>2, <1>5, FileIs
<1>8. PICK d : d = [s EXCEPT !.lease = Null]
  OBVIOUS
<1>9. d \in Doc /\ d.key = s.key /\ d.out = s.out /\ d.key \in ArtifactKeys
  BY <1>5, <1>7, <1>8 DEF Doc, DocFits
<1>10. me.pc = "filtering" /\ me.run = r /\ me.doc = d /\ me \in Tasks
  <2>1. Inputs(r, w) \subseteq ArtifactKeys
    BY <1>1, <1>4 DEF JInv, LoopFits
  <2> QED BY <1>3, <1>5, <1>8, <1>9, <2>1 DEF Tasks, TaskPC
<1>11. /\ loop' \in Loops /\ loop'.pc \in {"filter", "free"} /\ loop'.todo \subseteq Listed
       /\ loop'.pc = "filter" => loop'.run = r /\ loop'.w = w
  <2>1. "filter" \in LoopPC
    BY DEF LoopPC
  <2> QED BY <1>1, <1>4, <1>5, <2>1, LoopRecords
<1>12. /\ task' \in [Workers -> Tasks] /\ task'[w] = me
       /\ \A v \in Workers : v # w => task'[v] = task[v]
  BY <1>4, <1>5, <1>6, <1>10 DEF LoopTyped
<1>13. UNCHANGED <<pipelines, steps>> /\ Files' /\ FirmKept /\ Listed' = Listed
  BY <1>4, <1>5, FilesSame DEF files, Listed
<1>14. DiskGrows /\ \A k : Art!Valid(k)' <=> Art!Valid(k)
  BY <1>4, SameDisk DEF art
<1>15. LoopTyped'
  BY <1>4, <1>5, <1>11, <1>12 DEF LoopTyped, life
<1>16. TasksFit'
  <2>1. PICK W : W = {w}
    OBVIOUS
  <2>2. \A q \in Runs : steps[q] # <<>> => steps'[q] # <<>>
    BY <1>13
  <2>3. \A v \in Workers \ W :
              /\ task'[v] = task[v]
              /\ \A q \in Runs : v \in Present(q) =>
                    v \in Present(q)' /\ steps'[q][v].key = steps[q][v].key
              /\ Saving(v) => Saving(v)'
    BY <1>4, <1>12, <1>13, <2>1 DEF Saving, Present
  <2>4. \A k \in ArtifactKeys : k.step \notin W /\ Art!Valid(k)' => Art!Valid(k)
    BY <1>14
  <2>5. TaskFits(w, me)'
    <3>1. w \in Present(r)' /\ steps'[r][w] = s
      BY <1>2, <1>5, <1>13 DEF Present
    <3>2. ~Art!Valid(d.key)'
      BY <1>4, <1>9, <1>14
    <3>3. Lost' = 0 => d.out = Null
      BY <1>5, <1>7, <1>9, <1>14 DEF DiskGrows, Traced, OK
    <3> QED BY <1>5, <1>9, <1>10, <3>1, <3>2, <3>3 DEF TaskFits, InFlight, Art!Valid
  <2>6. \A v \in W : TaskFits(v, task[v])'
    BY <1>12, <2>1, <2>5 DEF TaskFits, InFlight, Saving, Art!Valid, Lost, Art!Lost, Present
  <2> HIDE DEF TaskFits, TasksFit
  <2> QED BY <1>5, <1>14, <2>2, <2>3, <2>4, <2>6, TasksGo
<1>17. LoopFits'
  <2>1. up'
    BY <1>4 DEF life
  <2>2. CASE loop'.pc = "free"
    BY <1>11, <1>13, <1>15, <2>1, <2>2, LoopFree
  <2>3. CASE loop'.pc = "filter"
    BY <1>5, <1>6, <1>10, <1>11, <1>12, <1>13, <2>1, <2>3
    DEF LoopFits, InRun, Passing, Worked, InFilter
  <2> QED BY <1>11, <2>2, <2>3
<1>18. RunsSettled'
  <2>1. ASSUME NEW q \in Listed' PROVE Undisturbed(q)
    <3>1. Closing(q) => Closing(q)'
      BY <1>6, <1>12 DEF Closing
    <3>2. ~Busy(q)
      BY <1>4 DEF Busy, Passing
    <3> QED BY <1>13, <3>1, <3>2 DEF Undisturbed, Beside
  <2>2. Files /\ RunsSettled
    BY DEF JInv
  <2> HIDE DEF RunsSettled, Busy, Settled
  <2> QED BY <1>4, <1>13, <1>14, <2>1, <2>2, RunsGo
<1> QED BY <1>13, <1>15, <1>16, <1>17, <1>18 DEF JInv

\* Nothing happens to the runs while the loop is where no run is waiting for it.
LEMMA QuietRuns ==
    ASSUME JInv, up, Files', DiskGrows, Listed' = Listed,
           loop.pc \in {"free", "filter"},
           \A q \in Runs : Beside(q) /\ (Closing(q) => Closing(q)')
    PROVE  RunsSettled'
<1>1. \A q \in Listed' : Undisturbed(q)
  BY DEF Undisturbed, Busy, Passing, InRun, InFilter, Listed
<1>2. Files /\ RunsSettled
  BY DEF JInv
<1> HIDE DEF RunsSettled, Busy, Settled
<1> QED BY <1>1, <1>2, RunsGo

\* A heartbeat renews the lease of a step that still runs.
LEMMA KeepHeartbeat ==
    ASSUME JInv, NEW w \in Workers, Heartbeat(w)
    PROVE  JInv' /\ FirmKept
<1>1. PICK r, s : r = task[w].run /\ s = steps[r][w]
  OBVIOUS
<1>2. /\ up /\ loop.pc = "free" /\ task[w].pc = "filtering" /\ loop' = loop
      /\ IF s.status = "running"
         THEN SaveStep(r, w, [s EXCEPT !.lease = Lease]) /\ UNCHANGED task
         ELSE SetTask(w, [task[w] EXCEPT !.beating = FALSE]) /\ UNCHANGED <<files, art, life>>
  BY <1>1 DEF Heartbeat, At
<1>3. LoopTyped /\ Files /\ TasksFit /\ InFlight(w, task[w]) /\ loop.todo \subseteq Listed
  BY <1>2 DEF JInv, TasksFit, TaskFits, LoopFits
<1>4. /\ r \in Runs /\ w \in Present(r) /\ loop \in Loops /\ task \in [Workers -> Tasks]
      /\ s \in Doc
  BY <1>1, <1>3, FileIs DEF InFlight, LoopTyped
<1>5. CASE s.status = "running"
  <2>1. PICK t : t = [s EXCEPT !.lease = Lease]
    OBVIOUS
  <2>2. SaveStep(r, w, t) /\ task' = task
    BY <1>2, <1>5, <2>1
  <2>3. /\ t \in Doc /\ t.status = s.status /\ t.key = s.key /\ t.out = s.out
        /\ t.suspect = s.suspect
    <3>1. Lease \in 0..Lease
      BY StepNumbers
    <3> QED BY <1>4, <2>1, <3>1 DEF Doc
  <2>4. MayWrite(r, w, t)
    <3>1. MayWrite(r, w, s)
      BY <1>1, <1>3, <1>4, MayStay
    <3> QED BY <2>3, <3>1, MayLike
  <2>5. PICK W : W = {}
    OBVIOUS
  <2>6. \A v \in Workers \ W : task'[v] = task[v] /\ (Saving(v) => Saving(v)')
    BY <1>2, <2>2 DEF Saving
  <2>7. \A v \in W : TaskFits(v, task[v])'
    BY <2>5
  <2>8. loop' \in Loops /\ task' \in [Workers -> Tasks]
    BY <1>2, <1>4, <2>2
  <2>9. w \in Workers \ W => t.key = steps[r][w].key
    BY <1>1, <2>3
  <2>10. t.status = steps[r][w].status
    BY <1>1, <2>3
  <2>11. /\ Files' /\ FirmKept /\ LoopTyped' /\ TasksFit'
         /\ UNCHANGED <<pipelines, art, life>>
         /\ DiskGrows /\ Listed' = Listed
         /\ \A q \in Runs : q # r \/ t.status = steps[r][w].status => Beside(q)
    BY <1>4, <2>2, <2>3, <2>4, <2>6, <2>7, <2>8, <2>9, SaveKeeps
  <2>12. LoopFits'
    <3>1. up'
      BY <1>2, <2>11 DEF life
    <3> QED BY <1>2, <1>3, <2>11, <3>1, LoopFree
  <2>13. RunsSettled'
    <3>1. \A q \in Runs : Beside(q) /\ (Closing(q) => Closing(q)')
      BY <2>2, <2>10, <2>11 DEF Closing
    <3> QED BY <1>2, <2>11, <3>1, QuietRuns
  <2> QED BY <2>11, <2>12, <2>13 DEF JInv
<1>6. CASE s.status # "running"
  <2>1. PICK me : me = [task[w] EXCEPT !.beating = FALSE]
    OBVIOUS
  <2>2. task' = [task EXCEPT ![w] = me] /\ UNCHANGED <<files, pipelines, steps, art, life>>
    BY <1>2, <1>6, <2>1 DEF SetTask, files
  <2>3. /\ me \in Tasks /\ me.pc = task[w].pc /\ me.run = task[w].run /\ me.doc = task[w].doc
    BY <1>4, <2>1 DEF Tasks
  <2>4. /\ task' \in [Workers -> Tasks] /\ task'[w] = me
        /\ \A v \in Workers : v # w => task'[v] = task[v]
    BY <1>4, <2>2, <2>3
  <2>5. Files' /\ FirmKept /\ Listed' = Listed
    BY <1>3, <2>2, FilesSame DEF Listed
  <2>6. DiskGrows /\ \A k : Art!Valid(k)' <=> Art!Valid(k)
    BY <2>2, SameDisk DEF art
  <2>7. LoopTyped'
    BY <1>2, <1>3, <2>2, <2>4 DEF LoopTyped, life
  <2>8. TasksFit'
    <3>1. PICK W : W = {w}
      OBVIOUS
    <3>2. \A q \in Runs : steps[q] # <<>> => steps'[q] # <<>>
      BY <2>2
    <3>3. \A v \in Workers \ W :
                /\ task'[v] = task[v]
                /\ \A q \in Runs : v \in Present(q) =>
                      v \in Present(q)' /\ steps'[q][v].key = steps[q][v].key
                /\ Saving(v) => Saving(v)'
      BY <1>2, <2>2, <2>4, <3>1 DEF Saving, Present
    <3>4. \A k \in ArtifactKeys : k.step \notin W /\ Art!Valid(k)' => Art!Valid(k)
      BY <2>6
    <3>5. \A v \in W : TaskFits(v, task[v])'
      <4>1. InFlight(w, me)
        BY <1>3, <2>3 DEF InFlight
      <4>2. InFlight(w, me)'
        BY <1>2, <2>2, <4>1 DEF InFlight, Saving, Present, Art!Valid, Lost, Art!Lost, art
      <4> QED BY <1>2, <2>3, <2>4, <3>1, <4>2
          DEF TaskFits, InFlight, Saving, Art!Valid, Lost, Art!Lost, Present
    <3> HIDE DEF TaskFits, TasksFit
    <3> QED BY <1>3, <2>6, <3>2, <3>3, <3>4, <3>5, TasksGo
  <2>9. LoopFits'
    <3>1. up'
      BY <1>2, <2>2 DEF life
    <3> QED BY <1>2, <1>3, <2>5, <2>7, <3>1, LoopFree
  <2>10. RunsSettled'
    <3>1. \A q \in Runs : Beside(q) /\ (Closing(q) => Closing(q)')
      BY <2>2, <2>3, <2>4 DEF Closing, Beside
    <3> QED BY <1>2, <2>5, <2>6, <3>1, QuietRuns
  <2> QED BY <2>5, <2>7, <2>8, <2>9, <2>10 DEF JInv
<1> QED BY <1>5, <1>6

\* The heartbeat is gone, and execute() goes on to the promotion.
LEMMA KeepClose ==
    ASSUME JInv, NEW w \in Workers, Close(w)
    PROVE  JInv' /\ FirmKept
<1>1. PICK r, after : /\ r = task[w].run
                      /\ after = [Free EXCEPT !.pc = "promote", !.w = w, !.run = task[w].run]
  OBVIOUS
<1>2. /\ up /\ loop.pc = "free" /\ task[w].pc = "closing" /\ loop' = after
      /\ task' = [task EXCEPT ![w] = Sleeping]
      /\ UNCHANGED <<files, pipelines, steps, art, life>>
  BY <1>1 DEF Close, At, SetTask, files
<1>3. LoopTyped /\ Files /\ TasksFit /\ r \in Runs /\ steps[r] # <<>>
  BY <1>1, <1>2 DEF JInv, TasksFit, TaskFits
<1>4. after \in Loops /\ after.pc = "promote" /\ after.w = w /\ after.run = r /\ after.todo = {}
  BY <1>1, <1>3 DEF Free, Loops, LoopPC
<1>5. /\ Sleeping.pc = "sleeping" /\ task' \in [Workers -> Tasks] /\ task'[w] = Sleeping
      /\ \A v \in Workers : v # w => task'[v] = task[v]
  BY <1>2, <1>3, LoopRecords DEF LoopTyped
<1>6. Files' /\ FirmKept /\ Listed' = Listed
  BY <1>2, <1>3, FilesSame DEF Listed
<1>7. DiskGrows /\ \A k : Art!Valid(k)' <=> Art!Valid(k)
  BY <1>2, SameDisk DEF art
<1>8. LoopTyped'
  BY <1>2, <1>3, <1>4, <1>5 DEF LoopTyped, life
<1>9. TasksFit'
  <2>1. PICK W : W = {w}
    OBVIOUS
  <2>2. \A q \in Runs : steps[q] # <<>> => steps'[q] # <<>>
    BY <1>2
  <2>3. \A v \in Workers \ W :
              /\ task'[v] = task[v]
              /\ \A q \in Runs : v \in Present(q) =>
                    v \in Present(q)' /\ steps'[q][v].key = steps[q][v].key
              /\ Saving(v) => Saving(v)'
    BY <1>2, <1>5, <2>1 DEF Saving, Present
  <2>4. \A k \in ArtifactKeys : k.step \notin W /\ Art!Valid(k)' => Art!Valid(k)
    BY <1>7
  <2>5. \A v \in W : TaskFits(v, task[v])'
    BY <1>5, <2>1 DEF TaskFits
  <2> HIDE DEF TaskFits, TasksFit
  <2> QED BY <1>3, <1>7, <2>2, <2>3, <2>4, <2>5, TasksGo
<1>10. LoopFits'
  <2>1. up' /\ r \in Listed
    BY <1>2, <1>3 DEF life, Files, FilesFit, RunFits, Listed
  <2> QED BY <1>2, <1>3, <1>4, <1>5, <1>6, <2>1 DEF LoopFits, InRun, Passing, Worked, InFilter
<1>11. RunsSettled'
  <2>1. Busy(r)'
    BY <1>2, <1>4 DEF Busy, InRun, InFilter, LoopPC
  <2>2. ASSUME NEW q \in Listed', q # r PROVE Undisturbed(q)
    <3>1. Closing(q) => Closing(q)'
      BY <1>1, <1>5, <2>2 DEF Closing
    <3>2. ~Busy(q)
      BY <1>2 DEF Busy, Passing, InRun
    <3> QED BY <1>2, <3>1, <3>2 DEF Undisturbed, Beside
  <2>3. Files /\ RunsSettled
    BY DEF JInv
  <2> HIDE DEF RunsSettled, Busy, Settled
  <2> QED BY <1>2, <1>6, <1>7, <2>1, <2>2, <2>3, RunsGo
<1> QED BY <1>6, <1>8, <1>9, <1>10, <1>11 DEF JInv

\* A filter succeeds: its artifact is committed.
LEMMA KeepFilterSucceeds ==
    ASSUME JInv, FilterSucceeds
    PROVE  JInv' /\ FirmKept
<1>1. PICK w, me, k : w = loop.w /\ me = Me /\ k = me.doc.key
  OBVIOUS
<1>2. /\ up /\ loop.pc = "filter" /\ commits < MaxCommits /\ Art!Commit(k) /\ loop' = To("save")
      /\ UNCHANGED <<files, pipelines, steps, life, task>>
  BY <1>1 DEF FilterSucceeds, At, files
<1>3. LoopTyped /\ Files /\ TasksFit /\ FilesTyped /\ DiskOK
  BY DEF JInv, Files
<1>4. /\ w \in Workers /\ me = task[w] /\ me.pc = "filtering" /\ me.run = loop.run
      /\ InFlight(w, me) /\ me.run \in Runs /\ loop.run \in Listed /\ loop.todo \subseteq Listed
      /\ steps[loop.run] # <<>>
  BY <1>1, <1>2, FilterHere DEF InFilter, Me
<1>5. ~Art!Valid(k) /\ k \in ArtifactKeys /\ k.step = w
  <2>1. ~Art!Valid(k) /\ k \in ArtifactKeys /\ k = steps[me.run][w].key /\ w \in Present(me.run)
    BY <1>1, <1>2, <1>4 DEF InFlight, Saving
  <2> QED BY <1>3, <1>4, <2>1, FileIs, NullAssumption DEF DocFits
<1>6. commits \in Nat /\ commits + 1 \in 0..MaxCommits
  BY <1>2, <1>3, StepNumbers DEF FilesTyped
<1>7. /\ DiskOK' /\ DiskGrows
      /\ Art!Valid(k)'
      /\ \A j : j # k => (Art!Valid(j)' <=> Art!Valid(j))
      /\ artifacts' = artifacts \cup {[key |-> k, gen |-> commits + 1]}
      /\ commits' = commits + 1
  BY <1>2, <1>3, <1>5, <1>6, CommitGrows
<1>8. FilesTyped'
  <2>1. artifacts' \subseteq [key : ArtifactKeys, gen : 1..(commits + 1)]
    <3>1. 1..commits \subseteq 1..(commits + 1) /\ commits + 1 \in 1..(commits + 1)
      BY <1>6
    <3>2. artifacts \subseteq [key : ArtifactKeys, gen : 1..(commits + 1)]
      BY <1>3, <3>1 DEF FilesTyped
    <3> QED BY <1>5, <1>7, <3>1, <3>2
  <2> QED BY <1>2, <1>3, <1>6, <1>7, <2>1 DEF FilesTyped
<1>9. Files' /\ FirmKept
  BY <1>2, <1>3, <1>7, <1>8, FilesBeside
<1>10. /\ loop' \in Loops /\ loop'.pc = "save" /\ loop'.w = w /\ loop'.run = loop.run
       /\ loop'.todo = loop.todo
  <2>1. "save" \in LoopPC
    BY DEF LoopPC
  <2> QED BY <1>1, <1>2, <1>3, <2>1, LoopRecords
<1>11. LoopTyped'
  BY <1>2, <1>3, <1>10 DEF LoopTyped, life
<1>12. Listed' = Listed
  BY <1>2 DEF Listed
<1>13. TasksFit'
  <2>1. PICK W : W = {w}
    OBVIOUS
  <2>2. \A q \in Runs : steps[q] # <<>> => steps'[q] # <<>>
    BY <1>2
  <2>3. \A v \in Workers \ W :
              /\ task'[v] = task[v]
              /\ \A q \in Runs : v \in Present(q) =>
                    v \in Present(q)' /\ steps'[q][v].key = steps[q][v].key
              /\ Saving(v) => Saving(v)'
    BY <1>2 DEF Saving, Present
  <2>4. \A j \in ArtifactKeys : j.step \notin W /\ Art!Valid(j)' => Art!Valid(j)
    BY <1>5, <1>7, <2>1
  <2>5. TaskFits(w, me)'
    <3>1. Saving(w)' /\ (Lost' = 0 => Lost = 0)
      BY <1>7, <1>10 DEF Saving, DiskGrows
    <3> QED BY <1>2, <1>4, <3>1 DEF TaskFits, InFlight, Present
  <2>6. \A v \in W : TaskFits(v, task[v])'
    BY <1>2, <1>4, <2>1, <2>5 DEF TaskFits, InFlight, Saving, Art!Valid, Lost, Art!Lost, Present
  <2> HIDE DEF TaskFits, TasksFit
  <2> QED BY <1>3, <1>7, <2>2, <2>3, <2>4, <2>6, TasksGo
<1>14. LoopFits'
  <2>1. up' /\ task'[w] = me
    BY <1>2, <1>4 DEF life
  <2>2. Art!Valid(task[loop.w].doc.key)'
    <3>1. task'[loop'.w].doc.key = k
      BY <1>1, <1>10, <2>1
    <3> QED BY <1>7, <3>1 DEF Art!Valid
  <2> QED BY <1>2, <1>4, <1>10, <1>12, <2>1, <2>2
      DEF LoopFits, InRun, Passing, Worked, InFilter
<1>15. RunsSettled'
  <2>1. \A q \in Runs : Beside(q) /\ (Closing(q) => Closing(q)')
    BY <1>2 DEF Closing, Beside
  <2> QED BY <1>2, <1>7, <1>9, <1>12, <2>1, QuietRuns
<1> QED BY <1>9, <1>11, <1>13, <1>14, <1>15 DEF JInv

-----------------------------------------------------------------------------
(* The environment. *)

\* An artifact is lost, and no file says so.
LEMMA KeepLoseArtifact ==
    ASSUME JInv, LoseArtifact
    PROVE  JInv' /\ FirmKept
<1>1. Art!Lose /\ UNCHANGED <<files, pipelines, steps, life, loop, task>>
  BY DEF LoseArtifact, files
<1>2. LoopTyped /\ Files /\ TasksFit /\ FilesTyped /\ DiskOK /\ LoopFits
  BY DEF JInv, Files
<1>3. commits \in Nat
  BY <1>2, StepNumbers DEF FilesTyped
<1>4. /\ DiskOK' /\ DiskGrows
      /\ \A k : Art!Valid(k)' => Art!Valid(k)
      /\ artifacts' \subseteq artifacts /\ commits' = commits
  BY <1>1, <1>2, <1>3, LoseGrows
<1>5. FilesTyped'
  BY <1>1, <1>2, <1>4 DEF FilesTyped
<1>6. Files' /\ FirmKept
  BY <1>1, <1>2, <1>4, <1>5, FilesBeside
<1>7. LoopTyped' /\ Listed' = Listed
  BY <1>1, <1>2 DEF LoopTyped, life, Listed
<1>8. TasksFit'
  <2>1. PICK W : W = {}
    OBVIOUS
  <2>2. \A q \in Runs : steps[q] # <<>> => steps'[q] # <<>>
    BY <1>1
  <2>3. \A v \in Workers \ W :
              /\ task'[v] = task[v]
              /\ \A q \in Runs : v \in Present(q) =>
                    v \in Present(q)' /\ steps'[q][v].key = steps[q][v].key
              /\ Saving(v) => Saving(v)'
    BY <1>1 DEF Saving, Present
  <2>4. \A j \in ArtifactKeys : j.step \notin W /\ Art!Valid(j)' => Art!Valid(j)
    BY <1>4
  <2>5. \A v \in W : TaskFits(v, task[v])'
    BY <2>1
  <2> HIDE DEF TaskFits, TasksFit
  <2> QED BY <1>2, <1>4, <2>2, <2>3, <2>4, <2>5, TasksGo
<1>9. LoopFits'
  <2>1. /\ (~up)' <=> ~up
        /\ loop.pc = "save" /\ Lost' = 0 => Art!Valid(task[loop.w].doc.key)'
    <3>1. loop.pc = "save" /\ Lost' = 0 => Lost = 0 /\ Art!Valid(task[loop.w].doc.key)
      BY <1>2, <1>4 DEF LoopFits, DiskGrows
    <3>2. PICK k : k = task[loop.w].doc.key
      OBVIOUS
    <3>3. loop.pc = "save" /\ Lost' = 0 => Art!Valid(k)'
      BY <1>4, <3>1, <3>2 DEF DiskGrows
    <3> QED BY <1>1, <3>2, <3>3 DEF life, Art!Valid
  <2>2. loop.pc = "refused" => Lost' > 0
    BY <1>2, <1>4 DEF LoopFits, DiskGrows
  <2>3. loop.pc \in {"create", "nonce"} => Fresh(loop.run)'
    BY <1>1, <1>2 DEF LoopFits, Fresh, Present
  <2>4. loop.pc \in {"reset", "repromote"} => Queued(loop.run)'
    BY <1>1, <1>2, <1>4 DEF LoopFits, Queued, Closing, LastOf, DiskGrows
  <2>5. Statuses(loop.run)' = Statuses(loop.run) /\ Present(loop.run)' = Present(loop.run)
        /\ Inputs(loop.run, loop.w)' = Inputs(loop.run, loop.w)
    BY <1>1 DEF Statuses, Present, Inputs
  <2> QED BY <1>1, <1>2, <1>7, <2>1, <2>2, <2>3, <2>4, <2>5 DEF LoopFits
<1>10. RunsSettled'
  <2>1. CASE up
    <3>1. \A q \in Listed' : Undisturbed(q)
      BY <1>1 DEF Undisturbed, Busy, Closing, Beside
    <3>2. Files /\ RunsSettled
      BY DEF JInv
    <3> HIDE DEF RunsSettled, Busy, Settled
    <3> QED BY <1>4, <1>6, <2>1, <3>1, <3>2, RunsGo
  <2>2. CASE ~up
    BY <1>1, <2>2 DEF RunsSettled, life
  <2> QED BY <2>1, <2>2
<1> QED BY <1>6, <1>7, <1>8, <1>9, <1>10 DEF JInv

\* The clock goes on for a file.
Ticked(s) == [s EXCEPT !.lease = TimeLeft(@), !.wait = TimeLeft(@)]

\* A document in which time passed differs in lease and wait alone.
LEMMA TickedDoc ==
    ASSUME NEW s \in Doc
    PROVE  /\ Ticked(s) \in Doc
           /\ Ticked(s).status = s.status /\ Ticked(s).suspect = s.suspect
           /\ Ticked(s).key = s.key /\ Ticked(s).out = s.out
<1>1. PICK lease, wait : lease = TimeLeft(s.lease) /\ wait = TimeLeft(s.wait)
  OBVIOUS
<1>2. \A n \in Nat : \A t \in 0..n \cup {Null} : TimeLeft(t) \in 0..n \cup {Null}
  BY StepNumbers DEF TimeLeft
<1>3. lease \in 0..Lease \cup {Null} /\ wait \in 0..RetryDelay \cup {Null}
  BY <1>1, <1>2, StepNumbers DEF Doc
<1>4. Ticked(s) = [s EXCEPT !.lease = lease, !.wait = wait]
  BY <1>1 DEF Ticked, Doc
<1> QED BY <1>3, <1>4 DEF Doc

\* Time passes.
LEMMA KeepTick ==
    ASSUME JInv, Tick
    PROVE  JInv' /\ FirmKept
<1>1. /\ ~up \/ loop.pc \in {"free", "filter"}
      /\ UNCHANGED <<pipelines, art, life, loop, task>>
      /\ steps' = [r \in Runs |-> [i \in Present(r) |-> Ticked(steps[r][i])]]
  BY DEF Tick, At, Ticked
<1>2. LoopTyped /\ Files /\ TasksFit /\ FilesTyped /\ DiskOK /\ LoopFits
  BY DEF JInv, Files
<1>3. ASSUME NEW r \in Runs
      PROVE  /\ steps'[r] \in Seq(Doc) /\ Len(steps'[r]) = Len(steps[r])
             /\ Present(r)' = Present(r)
             /\ steps'[r] = <<>> <=> steps[r] = <<>>
             /\ \A i \in Present(r) : steps'[r][i] = Ticked(steps[r][i]) /\ steps[r][i] \in Doc
  <2>1. PICK n \in Nat : n = Len(steps[r])
    BY <1>2, FilesOf
  <2>2. Present(r) = 1..n /\ \A i \in Present(r) : steps[r][i] \in Doc
    BY <1>2, <2>1, FilesOf
  <2>3. PICK g : g = [i \in 1..n |-> Ticked(steps[r][i])]
    OBVIOUS
  <2>4. steps'[r] = g
    BY <1>1, <2>2, <2>3
  <2>5. \A i \in 1..n : g[i] = Ticked(steps[r][i]) /\ g[i] \in Doc
    BY <2>2, <2>3, TickedDoc
  <2>6. g \in Seq(Doc) /\ Len(g) = n
    <3>1. g \in [1..n -> Doc]
      BY <2>3, <2>5
    <3> QED BY <2>1, <3>1, SeqDef, LenProperties
  <2>7. steps[r] \in Seq(Doc)
    BY <1>2 DEF FilesTyped
  <2>8. g = <<>> <=> steps[r] = <<>>
    BY <2>1, <2>6, <2>7, EmptySeq
  <2>9. Present(r)' = Present(r)
    BY <2>1, <2>4, <2>6 DEF Present
  <2> QED BY <2>1, <2>2, <2>4, <2>5, <2>6, <2>8, <2>9
<1>4. FilesTyped'
  <2>1. steps' \in [Runs -> Seq(Doc)]
    <3>1. PICK f : f = [r \in Runs |-> [i \in Present(r) |-> Ticked(steps[r][i])]]
      OBVIOUS
    <3>2. steps' = f /\ \A r \in Runs : f[r] \in Seq(Doc)
      BY <1>1, <1>3, <3>1
    <3>3. f \in [Runs -> Seq(Doc)]
      BY <3>1, <3>2
    <3> QED BY <3>2, <3>3
  <2> QED BY <1>1, <1>2, <1>3, <2>1 DEF FilesTyped, art
<1>5. DiskOK' /\ DiskGrows /\ \A k : Art!Valid(k)' <=> Art!Valid(k)
  BY <1>1, <1>2, SameDisk DEF art
<1>6. \A r \in Runs : \A i \in Present(r) :
         /\ steps'[r][i].status = steps[r][i].status /\ steps'[r][i].suspect = steps[r][i].suspect
         /\ steps'[r][i].key = steps[r][i].key /\ steps'[r][i].out = steps[r][i].out
  BY <1>3, TickedDoc
<1>7. Files' /\ FirmKept
  <2>1. \A q \in Runs : /\ pipelines'[q] = Null => steps'[q] = <<>>
                        /\ pipelines'[q] # Null => (pipelines'[q].nonce => q \in ForceRefresh)
                        /\ Line(q)' = Line(q)
    BY <1>1, <1>2, <1>3 DEF Files, FilesFit, RunFits, Line
  <2>2. \A q \in Runs : \A j \in Present(q) : MayWrite(q, j, steps'[q][j])
    BY <1>2, <1>6, MayStay, MayLike
  <2>3. \A q \in Runs : \A j \in Present(q)' :
              /\ MayWrite(q, j, steps'[q][j])
              /\ steps'[q][j].key # Null => Line(q)' = Line(q)
              /\ \A m \in DependsOn(j) : m \in Present(q)
    BY <1>2, <1>3, <2>1, <2>2, DepsPresent
  <2>4. \A q \in Runs : \A j \in Present(q) : j \in Present(q)'
    BY <1>3
  <2> HIDE DEF Files, FirmKept, MayWrite
  <2> QED BY <1>2, <1>4, <1>5, <2>1, <2>3, <2>4, FilesGo
<1>8. LoopTyped' /\ Listed' = Listed
  BY <1>1, <1>2 DEF LoopTyped, life, Listed
<1>9. TasksFit'
  <2>1. PICK W : W = {}
    OBVIOUS
  <2>2. \A q \in Runs : steps[q] # <<>> => steps'[q] # <<>>
    BY <1>3
  <2>3. \A v \in Workers \ W :
              /\ task'[v] = task[v]
              /\ \A q \in Runs : v \in Present(q) =>
                    v \in Present(q)' /\ steps'[q][v].key = steps[q][v].key
              /\ Saving(v) => Saving(v)'
    BY <1>1, <1>3, <1>6 DEF Saving
  <2>4. \A j \in ArtifactKeys : j.step \notin W /\ Art!Valid(j)' => Art!Valid(j)
    BY <1>5
  <2>5. \A v \in W : TaskFits(v, task[v])'
    BY <2>1
  <2> HIDE DEF TaskFits, TasksFit
  <2> QED BY <1>2, <1>5, <2>2, <2>3, <2>4, <2>5, TasksGo
<1>10. LoopFits'
  <2>1. CASE ~up
    <3>1. loop = Free /\ task = [w \in Workers |-> Sleeping] /\ loop.todo \subseteq Listed
      BY <1>2, <2>1 DEF LoopFits
    <3> QED BY <1>1, <1>8, <2>1, <3>1
        DEF LoopFits, Free, life, InRun, Passing, Worked, InFilter
  <2>2. CASE up /\ loop.pc = "free"
    <3>1. up' /\ loop' = loop /\ loop'.todo \subseteq Listed'
      BY <1>1, <1>2, <1>8, <2>2 DEF life, LoopFits
    <3> QED BY <1>8, <2>2, <3>1, LoopFree
  <2>3. CASE up /\ loop.pc = "filter"
    <3>1. /\ loop.w \in Workers /\ loop.run \in Runs /\ loop.run \in Listed
          /\ loop.todo \subseteq Listed /\ steps[loop.run] # <<>>
          /\ task[loop.w].pc = "filtering" /\ task[loop.w].run = loop.run
      BY <2>3, FilterHere DEF InFilter, Me
    <3>2. steps'[loop.run] # <<>>
      BY <1>3, <3>1
    <3> QED BY <1>1, <1>8, <2>3, <3>1, <3>2 DEF LoopFits, life, InRun, Passing, Worked, InFilter
  <2> QED BY <1>1, <2>1, <2>2, <2>3
<1>11. RunsSettled'
  <2>1. CASE up
    <3>1. \A q \in Runs : Beside(q) /\ (Closing(q) => Closing(q)')
      BY <1>1, <1>3, <1>6 DEF Beside, Closing
    <3> QED BY <1>1, <1>5, <1>7, <1>8, <2>1, <3>1, QuietRuns
  <2>2. CASE ~up
    BY <1>1, <2>2 DEF RunsSettled, life
  <2> QED BY <2>1, <2>2
<1> QED BY <1>7, <1>8, <1>9, <1>10, <1>11 DEF JInv

-----------------------------------------------------------------------------
(* The theorems. *)

\* Nothing happens.
LEMMA KeepStutter ==
    ASSUME JInv, UNCHANGED vars
    PROVE  JInv' /\ FirmKept
<1>1. UNCHANGED <<files, art, life, loop, task, pipelines, steps, artifacts, commits, up, crashes>>
  BY DEF vars, files, art, life
<1>2. Files' /\ FirmKept
  BY <1>1, FilesSame DEF JInv
<1>3. LoopTyped'
  BY <1>1 DEF JInv, LoopTyped, Loops
<1>4. TasksFit'
  BY <1>1 DEF JInv, TasksFit, TaskFits, InFlight, Saving, Present, Art!Valid, Lost, Art!Lost
<1>5. LoopFits'
  BY <1>1 DEF JInv, LoopFits, Listed, Fresh, Queued, Closing, LastOf, Statuses, Present, Inputs,
              Art!Valid, Lost, Art!Lost
<1>6. RunsSettled'
  <2>1. \A r : /\ Busy(r)' <=> Busy(r)
               /\ Settled(r)' <=> Settled(r)
    BY <1>1 DEF Busy, Settled, Agrees, Derived, RefusedStatus, Closing, LastOf, Statuses, Present,
                Lost, Art!Lost
  <2> QED BY <1>1, <2>1 DEF JInv, RunsSettled, Listed
<1> QED BY <1>2, <1>3, <1>4, <1>5, <1>6 DEF JInv

\* Every step keeps the invariant, and what is finished and firm.
LEMMA KeepNextStep ==
    ASSUME JInv, [Next]_vars
    PROVE  JInv' /\ FirmKept
<1>1. CASE Start
  BY <1>1, KeepStart
<1>2. CASE Crash
  BY <1>2, KeepCrash
<1>3. CASE GoOn
  <2>1. CASE RecoverRun \/ Repair \/ Recheck \/ Derive \/ DeriveRaises \/ Recovered
    BY <2>1, KeepRecoverRun, KeepRepair, KeepRecheck, KeepDerive, KeepDeriveRaises, KeepRecovered
  <2>2. CASE Refuse \/ Refused \/ Claim \/ Claimed \/ NothingToClaim
    BY <2>2, KeepRefuse, KeepRefused, KeepClaim, KeepClaimed, KeepNothingToClaim
  <2>3. CASE FoundInCache \/ CallFilter \/ FilterSucceeds \/ FilterFails
    BY <2>3, KeepFoundInCache, KeepCallFilter, KeepFilterSucceeds, KeepFilterFails
  <2>4. CASE Save \/ SaveFailure \/ Promote \/ Update
    BY <2>4, KeepSave, KeepSaveFailure, KeepPromote, KeepUpdate
  <2>5. CASE CreateStep \/ SaveNonce \/ Reset \/ Repromote
    BY <2>5, KeepCreateStep, KeepSaveNonce, KeepReset, KeepRepromote
  <2> QED BY <1>3, <2>1, <2>2, <2>3, <2>4, <2>5 DEF GoOn
<1>4. ASSUME NEW w \in Workers, WakeUp(w) \/ Resume(w) \/ Heartbeat(w) \/ Close(w)
      PROVE  JInv' /\ FirmKept
  BY <1>4, KeepWakeUp, KeepResume, KeepHeartbeat, KeepClose
<1>5. ASSUME NEW r \in Runs, Create(r) \/ Retry(r)
      PROVE  JInv' /\ FirmKept
  BY <1>5, KeepCreate, KeepRetry
<1>6. CASE LoseArtifact
  BY <1>6, KeepLoseArtifact
<1>7. CASE Tick
  BY <1>7, KeepTick
<1>8. CASE UNCHANGED vars
  BY <1>8, KeepStutter
<1> QED BY <1>1, <1>2, <1>3, <1>4, <1>5, <1>6, <1>7, <1>8 DEF Next

\* Nothing is there at the beginning.
LEMMA InitFits ==
    ASSUME Init
    PROVE  JInv
<1>1. /\ pipelines = [r \in Runs |-> Null] /\ steps = [r \in Runs |-> <<>>]
      /\ artifacts = {} /\ commits = 0 /\ up = FALSE /\ loop = Free /\ crashes = 0
      /\ task = [w \in Workers |-> Sleeping]
  BY DEF Init, Art!Init
<1>2. FilesTyped
  <2>1. <<>> \in Seq(Doc) /\ Len(<<>>) = 0
    BY EmptySeq
  <2>2. steps \in [Runs -> Seq(Doc)] /\ \A r \in Runs : Len(steps[r]) <= NSteps
    BY <1>1, <2>1, StepNumbers
  <2>3. commits \in 0..MaxCommits
    BY <1>1, StepNumbers
  <2> QED BY <1>1, <2>2, <2>3 DEF FilesTyped
<1>3. \A r \in Runs : Present(r) = {}
  BY <1>1 DEF Present
<1>4. DiskOK
  BY <1>1, FS_EmptySet DEF DiskOK
<1>5. FilesFit /\ FilesTraced
  BY <1>1, <1>3 DEF FilesFit, RunFits, FilesTraced
<1>6. LoopTyped
  <2>1. crashes \in 0..MaxCrashes
    BY <1>1, StepNumbers
  <2>2. loop \in Loops
    BY <1>1 DEF Free, Loops, LoopPC
  <2>3. task \in [Workers -> Tasks]
    BY <1>1 DEF Sleeping, Tasks, TaskPC
  <2> QED BY <1>1, <2>1, <2>2, <2>3 DEF LoopTyped
<1>7. TasksFit
  BY <1>1 DEF TasksFit, TaskFits, Sleeping
<1>8. LoopFits /\ RunsSettled
  BY <1>1 DEF LoopFits, Free, InRun, Passing, Worked, InFilter, RunsSettled
<1> QED BY <1>2, <1>4, <1>5, <1>6, <1>7, <1>8 DEF JInv, Files

\* The invariant: what the files of the runs hold, what each task relies on while it
\* waits and while it has the loop, and which runs are behind their steps.
THEOREM Invariance == Spec => []JInv
<1>1. Init => JInv
  BY InitFits
<1>2. JInv /\ [Next]_vars => JInv'
  BY KeepNextStep
<1> QED BY <1>1, <1>2, PTL DEF Spec

\* As long as no artifact is lost, every finished step has a valid output, made for its
\* type from the request of its run and from the output of the step before it, wherever
\* the process ended and whatever execute() saved late.
THEOREM ResultTraceableCorrect == Spec => []ResultTraceable
<1>1. JInv => ResultTraceable
  <2>1. SUFFICES ASSUME JInv, Lost = 0, NEW r \in Runs, NEW i \in Present(r),
                        steps[r][i].status \in OK
                 PROVE  LET k == steps[r][i].out IN
                        /\ OutputValid(steps[r][i])
                        /\ k.step = i
                        /\ i \in UsesParams => k.line = Line(r)
                        /\ \A j \in DependsOn(i) : k.input = Art!Gen(steps[r][j].out)
    BY DEF ResultTraceable, Lost
  <2>2. PICK s : s = steps[r][i]
    OBVIOUS
  <2>3. /\ DocFits(i, s) /\ Traced(r, i, s) /\ Finished(s)
    BY <2>1, <2>2, FileIs DEF JInv
  <2>4. s.out = s.key /\ s.key # Null /\ s.key.step = i /\ MadeFor(r, i, s.key) /\ OutputValid(s)
    BY <2>1, <2>2, <2>3 DEF DocFits, Traced, Finished
  <2> QED BY <2>2, <2>4 DEF MadeFor
<1> QED BY <1>1, Invariance, PTL

\* Whenever the loop is free, the status of a run follows from its steps, except after a
\* loss and before the end of an execution.
THEOREM PipelineAgreesCorrect == Spec => []PipelineAgrees
<1>1. JInv => PipelineAgrees
  <2>1. SUFFICES ASSUME JInv, At("free"), NEW r \in Listed PROVE Agrees(r) \/ Closing(r)
    BY DEF PipelineAgrees, Closing
  <2>2. ~Busy(r)
    BY <2>1 DEF At, Busy, Passing, InRun
  <2> QED BY <2>1, <2>2 DEF At, JInv, RunsSettled, Settled
<1> QED BY <1>1, Invariance, PTL

\* A finished step whose basis is finished is final: recovery, retry and the late end of
\* an execution keep it and its output.
THEOREM FinishedIsFinalCorrect == Spec => FinishedIsFinal
<1>1. JInv /\ [Next]_vars =>
         [\A r \in Runs : \A i \in Present(r) :
             Grounded(r, i) => /\ steps'[r][i].status \in OK
                               /\ steps'[r][i].out = steps[r][i].out]_vars
  <2>1. SUFFICES ASSUME JInv, [Next]_vars, NEW r \in Runs, NEW i \in Present(r), Grounded(r, i)
                 PROVE  steps'[r][i].status \in OK /\ steps'[r][i].out = steps[r][i].out
    OBVIOUS
  <2>2. i \in Steps /\ {i} \cup DependsOn(i) \subseteq 1..i
    <3>1. i \in Steps
      BY <2>1, FileIs DEF JInv
    <3> QED BY <3>1, StepNumbers DEF Steps
  <2>3. Firm(r, i)
    BY <2>1, <2>2 DEF Grounded, Firm, Finished
  <2> QED BY <2>1, <2>3, KeepNextStep DEF FirmKept
<1> QED BY <1>1, Invariance, PTL DEF Spec, FinishedIsFinal

-----------------------------------------------------------------------------
(* How often a step is tried.  A step may be tried once more for every     *)
(* loss: it loses its basis, is blocked, and starts again without a look   *)
(* at its attempts.  A break is a place in the chain where a step that is  *)
(* finished, runs, or is still executed stands behind one without a valid  *)
(* output; only a loss makes a new one, and a step that gives up its place *)
(* for a broken basis takes the break with it.                             *)

Flying(r, i) == task[i].pc = "filtering" /\ task[i].run = r
Used == OK \cup {"running"}
Open == {"pending", "blocked", "ready", "retrying"}
Live(r, i) == steps[r][i].status \in Used \/ Flying(r, i)

Breaks(r, i) == {j \in 2..i : Live(r, j) /\ ~Finished(steps[r][j - 1])}
Broken(r, i) == Cardinality(Breaks(r, i))
BrokenBefore(r, i) == Cardinality(Breaks(r, i) \ {i})

\* The attempts of s, the file of step i of run r, are paid for: an open step can still
\* afford the attempt that a claim adds, and one that has made it those of the breaks.
Bound(i) == MaxAttempts[i] + Lost
Paid(r, i, s) ==
    /\ s.attempt <= Bound(i)
    /\ s.status \in Used => s.attempt + Broken(r, i) <= Bound(i)
    /\ s.status \in Open => s.attempt + 1 + BrokenBefore(r, i) <= Bound(i)

AttemptsFit(r, i) ==
    /\ Broken(r, i) <= Lost
    /\ Paid(r, i, steps[r][i])
    /\ Flying(r, i) => /\ steps[r][i].status \notin OK
                       /\ task[i].doc.attempt + Broken(r, i) <= Bound(i)

AttemptsInv == \A r \in Runs : \A i \in Present(r) : AttemptsFit(r, i)

\* How many breaks there are.
LEMMA Sizes ==
    ASSUME NEW i \in Int, NEW S \in SUBSET (2..i)
    PROVE  /\ IsFiniteSet(S) /\ Cardinality(S) \in Nat /\ Cardinality(S \ {i}) \in Nat
           /\ Cardinality(S \ {i}) <= Cardinality(S)
           /\ i \in S => Cardinality(S) = Cardinality(S \ {i}) + 1
           /\ i \notin S => Cardinality(S \ {i}) = Cardinality(S)
<1>1. IsFiniteSet(2..i)
  BY FS_Interval
<1>2. IsFiniteSet(S) /\ IsFiniteSet(S \ {i})
  BY <1>1, FS_Subset
<1>3. Cardinality(S) \in Nat /\ Cardinality(S \ {i}) \in Nat
  BY <1>2, FS_CardinalityType
<1>4. i \in S => Cardinality(S \ {i}) = Cardinality(S) - 1
  BY <1>2, FS_RemoveElement
<1>5. i \notin S => Cardinality(S \ {i}) = Cardinality(S)
  <2>1. i \notin S => S \ {i} = S
    OBVIOUS
  <2> QED BY <2>1
<1>6. PICK m \in Nat, n \in Nat : m = Cardinality(S) /\ n = Cardinality(S \ {i})
  BY <1>3
<1>7. (i \in S => n = m - 1) /\ (i \notin S => n = m)
  BY <1>4, <1>5, <1>6
<1>8. (i \in S => m = n + 1) /\ n <= m
  BY <1>7
<1> QED BY <1>2, <1>3, <1>5, <1>6, <1>8

\* A part has no more elements.
LEMMA Fewer ==
    ASSUME NEW i \in Int, NEW S \in SUBSET (2..i), NEW T \in SUBSET S
    PROVE  Cardinality(T) <= Cardinality(S) /\ Cardinality(T \ {i}) <= Cardinality(S \ {i})
<1>1. IsFiniteSet(S) /\ IsFiniteSet(S \ {i})
  BY Sizes, FS_Subset
<1> QED BY <1>1, FS_Subset

\* One element more.
LEMMA OneMore ==
    ASSUME NEW i \in Int, NEW S \in SUBSET (2..i), NEW m, NEW T \in SUBSET (S \cup {m})
    PROVE  /\ Cardinality(T) <= Cardinality(S) + 1
           /\ Cardinality(T \ {i}) <= Cardinality(S \ {i}) + 1
<1>1. ASSUME NEW U, IsFiniteSet(U), NEW V \in SUBSET (U \cup {m})
      PROVE  Cardinality(V) <= Cardinality(U) + 1
  <2>1. IsFiniteSet(U \cup {m}) /\ Cardinality(U) \in Nat /\ Cardinality(U \cup {m}) \in Nat
        /\ (Cardinality(U \cup {m}) = Cardinality(U) \/ Cardinality(U \cup {m}) = Cardinality(U) + 1)
    BY <1>1, FS_AddElement, FS_CardinalityType
  <2>2. Cardinality(V) <= Cardinality(U \cup {m}) /\ Cardinality(V) \in Nat
    BY <2>1, FS_Subset, FS_CardinalityType
  <2> QED BY <2>1, <2>2
<1>2. IsFiniteSet(S) /\ IsFiniteSet(S \ {i})
  BY Sizes, FS_Subset
<1>3. T \ {i} \in SUBSET ((S \ {i}) \cup {m})
  OBVIOUS
<1> QED BY <1>1, <1>2, <1>3

\* One element moves one place up.
LEMMA Moved ==
    ASSUME NEW i \in Int, NEW S \in SUBSET (2..i), NEW m \in S, m # i,
           NEW T \in SUBSET ((S \ {m}) \cup {m + 1})
    PROVE  Cardinality(T) <= Cardinality(S) /\ Cardinality(T \ {i}) <= Cardinality(S \ {i})
<1>1. PICK R : R = S \ {m}
  OBVIOUS
<1>2. R \in SUBSET (2..i) /\ T \in SUBSET (R \cup {m + 1})
  BY <1>1
<1>3. Cardinality(T) <= Cardinality(R) + 1 /\ Cardinality(T \ {i}) <= Cardinality(R \ {i}) + 1
  BY <1>2, OneMore
<1>4. IsFiniteSet(S) /\ IsFiniteSet(S \ {i})
  BY Sizes, FS_Subset
<1>5. Cardinality(R) = Cardinality(S) - 1
  BY <1>1, <1>4, FS_RemoveElement
<1>6. m \in S \ {i} /\ R \ {i} = (S \ {i}) \ {m}
  BY <1>1
<1>7. Cardinality(R \ {i}) = Cardinality(S \ {i}) - 1
  BY <1>4, <1>6, FS_RemoveElement
<1>8. /\ Cardinality(T) \in Nat /\ Cardinality(T \ {i}) \in Nat
      /\ Cardinality(S) \in Nat /\ Cardinality(S \ {i}) \in Nat
  <2>1. IsFiniteSet(R \cup {m + 1})
    BY <1>2, Sizes, FS_AddElement
  <2>2. IsFiniteSet(T) /\ IsFiniteSet(T \ {i})
    BY <2>1, <1>2, FS_Subset
  <2> QED BY <1>4, <2>2, FS_CardinalityType
<1> QED BY <1>3, <1>5, <1>7, <1>8

\* The steps before a step of a run are there.
LEMMA Below ==
    ASSUME Files, NEW r \in Runs, NEW i \in Present(r)
    PROVE  \A j \in 1..i : j \in Present(r) /\ j \in Workers
<1>1. FilesTyped
  BY DEF Files
<1>2. Len(steps[r]) \in Nat /\ Present(r) = 1..Len(steps[r]) /\ Present(r) \subseteq Steps
  BY <1>1, FilesOf
<1>3. \A j \in 1..i : j \in Present(r)
  BY <1>2
<1> QED BY <1>2, <1>3 DEF Workers

\* The breaks of a step are places in its run.
LEMMA Numbers ==
    ASSUME Files, NEW r \in Runs, NEW i \in Present(r)
    PROVE  /\ i \in Int /\ Breaks(r, i) \in SUBSET (2..i) /\ Breaks(r, i)' \in SUBSET (2..i)
           /\ \A j \in 2..i : j \in Present(r) /\ j - 1 \in Present(r)
           /\ Broken(r, i) \in Nat /\ BrokenBefore(r, i) \in Nat
           /\ Broken(r, i)' \in Nat /\ BrokenBefore(r, i)' \in Nat
           /\ BrokenBefore(r, i) <= Broken(r, i)
           /\ i \in Breaks(r, i) => Broken(r, i) = BrokenBefore(r, i) + 1
           /\ BrokenBefore(r, i)' <= Broken(r, i)'
           /\ i \notin Breaks(r, i)' => Broken(r, i)' = BrokenBefore(r, i)'
           /\ Lost \in Nat /\ Bound(i) \in Nat /\ MaxAttempts[i] \in Nat /\ MaxAttempts[i] > 0
           /\ steps[r][i].attempt \in Nat
<1>1. /\ Len(steps[r]) \in Nat /\ Present(r) = 1..Len(steps[r]) /\ i \in Steps
      /\ steps[r][i] \in Doc
  BY FilesOf, FileIs DEF Files
<1>2. i \in Int /\ \A j \in 2..i : j \in Present(r) /\ j - 1 \in Present(r)
  BY <1>1
<1>3. Breaks(r, i) \in SUBSET (2..i) /\ Breaks(r, i)' \in SUBSET (2..i)
  BY DEF Breaks
<1>4. /\ Broken(r, i) \in Nat /\ BrokenBefore(r, i) \in Nat
      /\ BrokenBefore(r, i) <= Broken(r, i)
      /\ i \in Breaks(r, i) => Broken(r, i) = BrokenBefore(r, i) + 1
  BY <1>2, <1>3, Sizes DEF Broken, BrokenBefore
<1>5. /\ Broken(r, i)' \in Nat /\ BrokenBefore(r, i)' \in Nat
      /\ BrokenBefore(r, i)' <= Broken(r, i)'
      /\ i \notin Breaks(r, i)' => Broken(r, i)' = BrokenBefore(r, i)'
  BY <1>2, <1>3, Sizes DEF Broken, BrokenBefore
<1>6. Lost \in Nat
  BY LostNat, StepNumbers DEF Files, FilesTyped
<1>7. MaxAttempts[i] \in Nat /\ MaxAttempts[i] > 0
  BY <1>1, StepNumbers
<1>8. Bound(i) \in Nat
  BY <1>6, <1>7 DEF Bound
<1>9. steps[r][i].attempt \in Nat
  BY <1>1 DEF Doc
<1> QED BY <1>2, <1>3, <1>4, <1>5, <1>6, <1>7, <1>8, <1>9

\* A document that a task keeps has a number of attempts.
LEMMA FlyingDoc ==
    ASSUME JInv, NEW r \in Runs, NEW i \in Present(r), Flying(r, i)
    PROVE  task[i].doc.attempt \in Nat
<1>1. i \in Workers
  BY FileIs DEF JInv, Workers
<1>2. task[i].doc \in Doc
  BY <1>1 DEF Flying, JInv, TasksFit, TaskFits, InFlight
<1> QED BY <1>2 DEF Doc

\* A step whose file has the same status and attempts, and whose breaks have not become
\* more than was lost.
LEMMA StillFits ==
    ASSUME JInv, NEW r \in Runs, NEW i \in Present(r), AttemptsFit(r, i),
           Lost' \in Nat, Lost' >= Lost,
           Broken(r, i)' + Lost <= Broken(r, i) + Lost',
           BrokenBefore(r, i)' + Lost <= BrokenBefore(r, i) + Lost',
           steps'[r][i].status = steps[r][i].status,
           steps'[r][i].attempt = steps[r][i].attempt,
           Flying(r, i)' => Flying(r, i) /\ task'[i].doc.attempt = task[i].doc.attempt
    PROVE  AttemptsFit(r, i)'
<1>1. Files
  BY DEF JInv
<1>2. PICK b \in Nat, c \in Nat, b1 \in Nat, c1 \in Nat :
         b = Broken(r, i) /\ c = BrokenBefore(r, i) /\ b1 = Broken(r, i)' /\ c1 = BrokenBefore(r, i)'
  BY <1>1, Numbers
<1>3. PICK l \in Nat, l1 \in Nat, m \in Nat : l = Lost /\ l1 = Lost' /\ m = MaxAttempts[i]
  BY <1>1, Numbers
<1>4. Bound(i) = m + l /\ Bound(i)' = m + l1
  BY <1>3 DEF Bound
<1>5. b1 + l <= b + l1 /\ c1 + l <= c + l1 /\ l1 >= l
  BY <1>2, <1>3
<1>6. PICK s, t : s = steps[r][i] /\ t = steps'[r][i]
  OBVIOUS
<1>7. s.attempt \in Nat /\ t.status = s.status /\ t.attempt = s.attempt
  BY <1>1, <1>6, Numbers
<1>8. /\ b <= l /\ s.attempt <= m + l
      /\ s.status \in Used => s.attempt + b <= m + l
      /\ s.status \in Open => s.attempt + 1 + c <= m + l
  BY <1>2, <1>3, <1>4, <1>6 DEF AttemptsFit, Paid
<1>9. b1 <= l1
  BY <1>5, <1>8
<1>10. /\ t.attempt <= m + l1
       /\ t.status \in Used => t.attempt + b1 <= m + l1
       /\ t.status \in Open => t.attempt + 1 + c1 <= m + l1
  BY <1>5, <1>7, <1>8
<1>11. Paid(r, i, steps[r][i])'
  BY <1>2, <1>4, <1>6, <1>10 DEF Paid
<1>12. ASSUME Flying(r, i)'
       PROVE  steps'[r][i].status \notin OK /\ task'[i].doc.attempt + b1 <= m + l1
  <2>1. PICK a : a = task[i].doc.attempt
    OBVIOUS
  <2>2. a \in Nat /\ a + b <= m + l /\ s.status \notin OK
    BY <1>2, <1>4, <1>6, <1>12, <2>1, FlyingDoc DEF AttemptsFit
  <2>3. a + b1 <= m + l1
    BY <1>5, <2>2
  <2> QED BY <1>6, <1>7, <1>12, <2>1, <2>2, <2>3
<1> QED BY <1>2, <1>3, <1>4, <1>9, <1>11, <1>12 DEF AttemptsFit

\* Where no step comes to live and none loses its output, there are no more breaks.
LEMMA NoMoreBreaks ==
    ASSUME Files, NEW r \in Runs, NEW i \in Present(r), Lost' \in Nat, Lost' >= Lost,
           \A j \in 1..i : /\ Live(r, j)' => Live(r, j)
                           /\ Finished(steps[r][j]) => Finished(steps[r][j])'
    PROVE  /\ Breaks(r, i)' \subseteq Breaks(r, i)
           /\ Broken(r, i)' <= Broken(r, i) /\ BrokenBefore(r, i)' <= BrokenBefore(r, i)
           /\ Broken(r, i)' + Lost <= Broken(r, i) + Lost'
           /\ BrokenBefore(r, i)' + Lost <= BrokenBefore(r, i) + Lost'
<1>1. i \in Int
  BY Numbers
<1>2. ASSUME NEW j \in Breaks(r, i)' PROVE j \in Breaks(r, i)
  <2>1. j \in 2..i /\ Live(r, j)' /\ ~Finished(steps[r][j - 1])'
    BY <1>2 DEF Breaks
  <2>2. j \in 1..i /\ j - 1 \in 1..i
    BY <1>1, <2>1
  <2> QED BY <2>1, <2>2 DEF Breaks
<1>3. Breaks(r, i)' \subseteq Breaks(r, i)
  BY <1>2
<1>4. Broken(r, i)' <= Broken(r, i) /\ BrokenBefore(r, i)' <= BrokenBefore(r, i)
  BY <1>1, <1>3, Numbers, Fewer DEF Broken, BrokenBefore
<1>5. /\ Broken(r, i) \in Nat /\ BrokenBefore(r, i) \in Nat /\ Lost \in Nat
      /\ Broken(r, i)' \in Nat /\ BrokenBefore(r, i)' \in Nat
  BY Numbers
<1> QED BY <1>3, <1>4, <1>5

\* A file is written.  Either no break comes up, or a step whose basis is broken gives
\* up its place, and the break moves to the next step.
LEMMA WriteKeeps ==
    ASSUME JInv, AttemptsInv, NEW r \in Runs, NEW m \in Present(r), NEW t \in Doc, SaveStep(r, m, t),
           \A q \in Runs : \A w \in Workers :
              Flying(q, w)' => Flying(q, w) /\ task'[w].doc = task[w].doc,
           Flying(r, m)' => t.status \notin OK,
           Paid(r, m, t),
           \/ /\ t.status \in Used /\ m > 1 /\ ~Finished(steps[r][m - 1]) => Live(r, m)
              /\ Finished(steps[r][m]) => Finished(t)
           \/ /\ t.status \notin Used /\ ~Flying(r, m) /\ Live(r, m)
              /\ m > 1 /\ ~Finished(steps[r][m - 1])
    PROVE  AttemptsInv'
<1>1. Files
  BY DEF JInv
<1>2. /\ UNCHANGED <<pipelines, art, life>> /\ \A k : Art!Valid(k)' <=> Art!Valid(k)
      /\ \A q \in Runs : Present(q)' = Present(q)
      /\ \A q \in Runs : \A j \in Present(q) :
            steps'[q][j] = IF q = r /\ j = m THEN t ELSE steps[q][j]
  BY <1>1, SaveFrame
<1>3. Lost' = Lost /\ Lost \in Nat
  BY <1>1, <1>2, SameDisk, Numbers DEF art
<1>4. \A q \in Runs : \A j \in Present(q) :
         Finished(steps[q][j])' <=> Finished(IF q = r /\ j = m THEN t ELSE steps[q][j])
  <2>1. SUFFICES ASSUME NEW q \in Runs, NEW j \in Present(q)
                 PROVE  Finished(steps[q][j])' <=>
                           Finished(IF q = r /\ j = m THEN t ELSE steps[q][j])
    OBVIOUS
  <2>2. PICK u : u = IF q = r /\ j = m THEN t ELSE steps[q][j]
    OBVIOUS
  <2>3. steps'[q][j] = u
    BY <1>2, <2>2
  <2> QED BY <1>2, <2>2, <2>3 DEF Finished, OutputValid
<1>5. \A q \in Runs : \A j \in Present(q) : ~(q = r /\ j = m) =>
         /\ Finished(steps[q][j])' <=> Finished(steps[q][j])
         /\ Live(q, j)' => Live(q, j)
  <2>1. SUFFICES ASSUME NEW q \in Runs, NEW j \in Present(q), ~(q = r /\ j = m)
                 PROVE  /\ Finished(steps[q][j])' <=> Finished(steps[q][j])
                        /\ Live(q, j)' => Live(q, j)
    OBVIOUS
  <2>2. steps'[q][j] = steps[q][j] /\ j \in Workers
    BY <1>1, <1>2, <2>1, FileIs DEF Workers
  <2> QED BY <1>4, <2>1, <2>2 DEF Live
<1>6. m \in Workers /\ m \in Int
  BY <1>1, FileIs, Numbers DEF Workers
<1>7. (Flying(r, m)' => Flying(r, m)) /\ (Live(r, m)' => t.status \in Used \/ Flying(r, m))
  BY <1>2, <1>6 DEF Live
<1>8. \A q \in Runs : \A i \in Present(q) : AttemptsFit(q, i)
  BY DEF AttemptsInv
<1>9. ASSUME NEW i \in Present(r),
             ~(t.status \notin Used /\ ~Flying(r, m) /\ Live(r, m)
               /\ m > 1 /\ ~Finished(steps[r][m - 1]) /\ i > m)
      PROVE  Breaks(r, i)' \subseteq Breaks(r, i)
  <2>1. SUFFICES ASSUME NEW j \in Breaks(r, i)' PROVE j \in Breaks(r, i)
    OBVIOUS
  <2>2. j \in 2..i /\ Live(r, j)' /\ ~Finished(steps[r][j - 1])'
    BY <2>1 DEF Breaks
  <2>3. j \in Present(r) /\ j - 1 \in Present(r) /\ j > 1 /\ j <= i /\ i \in Int
    BY <1>1, <2>2, Numbers
  <2>4. CASE j = m
    <3>1. ~Finished(steps[r][m - 1])
      BY <1>5, <2>2, <2>3, <2>4
    <3>2. Live(r, m)
      BY <1>7, <2>2, <2>3, <2>4, <3>1 DEF Live
    <3> QED BY <2>2, <2>4, <3>1, <3>2 DEF Breaks
  <2>5. CASE j - 1 = m
    <3>1. ~Finished(t)
      BY <1>4, <2>2, <2>3, <2>5
    <3>2. i > m
      BY <1>6, <2>2, <2>3, <2>5
    <3>3. ~Finished(steps[r][j - 1])
      BY <1>9, <2>5, <3>1, <3>2
    <3>4. Live(r, j)
      BY <1>5, <1>6, <2>2, <2>3, <2>5
    <3> QED BY <2>2, <3>3, <3>4 DEF Breaks
  <2>6. CASE j # m /\ j - 1 # m
    BY <1>5, <2>2, <2>3, <2>6 DEF Breaks
  <2> QED BY <2>4, <2>5, <2>6
<1>10. ASSUME NEW i \in Present(r), Breaks(r, i)' \subseteq Breaks(r, i)
       PROVE  Broken(r, i)' <= Broken(r, i) /\ BrokenBefore(r, i)' <= BrokenBefore(r, i)
  BY <1>1, <1>10, Numbers, Fewer DEF Broken, BrokenBefore
<1>11. ASSUME NEW i \in Present(r), t.status \notin Used, ~Flying(r, m), Live(r, m),
              m > 1, ~Finished(steps[r][m - 1]), i > m
       PROVE  Broken(r, i)' <= Broken(r, i) /\ BrokenBefore(r, i)' <= BrokenBefore(r, i)
  <2>1. i \in Int /\ Breaks(r, i) \in SUBSET (2..i) /\ m \in Breaks(r, i) /\ m # i
    BY <1>1, <1>6, <1>11, Numbers DEF Breaks
  <2>2. ASSUME NEW j \in Breaks(r, i)', j # m + 1 PROVE j \in Breaks(r, i) \ {m}
    <3>1. j \in 2..i /\ Live(r, j)' /\ ~Finished(steps[r][j - 1])'
      BY <2>2 DEF Breaks
    <3>2. j \in Present(r) /\ j - 1 \in Present(r)
      BY <1>1, <3>1, Numbers
    <3>3. j # m
      BY <1>7, <1>11, <3>1
    <3>4. j - 1 # m
      BY <2>2, <3>1
    <3> QED BY <1>5, <3>1, <3>2, <3>3, <3>4 DEF Breaks
  <2>3. Breaks(r, i)' \in SUBSET ((Breaks(r, i) \ {m}) \cup {m + 1})
    BY <2>2
  <2> QED BY <2>1, <2>3, Moved DEF Broken, BrokenBefore
<1>12. \A i \in Present(r) :
          Broken(r, i)' <= Broken(r, i) /\ BrokenBefore(r, i)' <= BrokenBefore(r, i)
  BY <1>9, <1>10, <1>11
<1>13. ASSUME NEW q \in Runs, NEW i \in Present(q), ~(q = r /\ i = m) PROVE AttemptsFit(q, i)'
  <2>1. Broken(q, i)' <= Broken(q, i) /\ BrokenBefore(q, i)' <= BrokenBefore(q, i)
    <3>1. CASE q = r
      BY <1>12, <3>1
    <3>2. CASE q # r
      <4>1. \A j \in 1..i : j \in Present(q)
        BY <1>1, Below
      <4> QED BY <1>1, <1>3, <1>5, <3>2, <4>1, NoMoreBreaks
    <3> QED BY <3>1, <3>2
  <2>2. /\ Broken(q, i) \in Nat /\ BrokenBefore(q, i) \in Nat
        /\ Broken(q, i)' \in Nat /\ BrokenBefore(q, i)' \in Nat
    BY <1>1, Numbers
  <2>3. /\ Broken(q, i)' + Lost <= Broken(q, i) + Lost' /\ Lost' >= Lost /\ Lost' \in Nat
        /\ BrokenBefore(q, i)' + Lost <= BrokenBefore(q, i) + Lost'
    BY <1>3, <2>1, <2>2
  <2>4. steps'[q][i] = steps[q][i]
    BY <1>2, <1>13
  <2>5. Flying(q, i)' => Flying(q, i) /\ task'[i].doc.attempt = task[i].doc.attempt
    <3>1. i \in Workers
      BY <1>1, FileIs DEF Workers
    <3> QED BY <3>1
  <2> QED BY <1>8, <2>3, <2>4, <2>5, StillFits
<1>14. AttemptsFit(r, m)'
  <2>1. PICK b \in Nat, c \in Nat, b1 \in Nat, c1 \in Nat, l \in Nat, n \in Nat :
           /\ b = Broken(r, m) /\ c = BrokenBefore(r, m)
           /\ b1 = Broken(r, m)' /\ c1 = BrokenBefore(r, m)'
           /\ l = Lost /\ n = MaxAttempts[m]
    BY <1>1, Numbers
  <2>2. Bound(m) = n + l /\ Bound(m)' = n + l /\ Lost' = l
    BY <1>3, <2>1 DEF Bound
  <2>3. b1 <= b /\ c1 <= c
    BY <1>12, <2>1
  <2>4. b <= l
    BY <1>8, <2>1 DEF AttemptsFit
  <2>5. /\ t.attempt <= n + l /\ t.attempt \in Nat
        /\ t.status \in Used => t.attempt + b <= n + l
        /\ t.status \in Open => t.attempt + 1 + c <= n + l
    BY <2>1, <2>2 DEF Paid, Doc
  <2>6. steps'[r][m] = t
    BY <1>2
  <2>7. Paid(r, m, steps[r][m])'
    <3>1. /\ t.status \in Used => t.attempt + b1 <= n + l
          /\ t.status \in Open => t.attempt + 1 + c1 <= n + l
      BY <2>3, <2>5
    <3> QED BY <2>1, <2>2, <2>5, <2>6, <3>1 DEF Paid
  <2>8. ASSUME Flying(r, m)' PROVE task'[m].doc.attempt + b1 <= n + l
    <3>1. Flying(r, m) /\ task'[m].doc = task[m].doc
      BY <1>6, <2>8
    <3>2. PICK a : a = task[m].doc.attempt
      OBVIOUS
    <3>3. a \in Nat /\ a + b <= n + l
      BY <1>8, <2>1, <2>2, <3>1, <3>2, FlyingDoc DEF AttemptsFit
    <3>4. a + b1 <= n + l
      BY <2>3, <3>3
    <3> QED BY <3>1, <3>2, <3>4
  <2>9. b1 <= l
    BY <2>3, <2>4
  <2> QED BY <2>1, <2>2, <2>6, <2>7, <2>8, <2>9 DEF AttemptsFit
<1> QED BY <1>2, <1>13, <1>14 DEF AttemptsInv
-----------------------------------------------------------------------------
(* The steps that leave the attempts alone. *)

\* No file changes its status or its attempts, and nothing else makes a break.
LEMMA QuietKeeps ==
    ASSUME JInv, AttemptsInv, Lost' = Lost,
           \A q \in Runs : Present(q)' = Present(q),
           \A q \in Runs : \A j \in Present(q) :
              /\ steps'[q][j].status = steps[q][j].status
              /\ steps'[q][j].attempt = steps[q][j].attempt
              /\ Finished(steps[q][j]) => Finished(steps[q][j])',
           \A q \in Runs : \A w \in Workers :
              Flying(q, w)' => Flying(q, w) /\ task'[w].doc = task[w].doc
    PROVE  AttemptsInv'
<1>1. Files
  BY DEF JInv
<1>2. ASSUME NEW q \in Runs, NEW i \in Present(q) PROVE AttemptsFit(q, i)'
  <2>1. Lost' \in Nat /\ Lost' >= Lost
    BY <1>1, <1>2, Numbers
  <2>2. \A j \in 1..i : j \in Present(q) /\ j \in Workers
    BY <1>1, <1>2, Below
  <2>3. \A j \in 1..i : /\ Live(q, j)' => Live(q, j)
                        /\ Finished(steps[q][j]) => Finished(steps[q][j])'
    BY <2>2 DEF Live
  <2>4. /\ Broken(q, i)' + Lost <= Broken(q, i) + Lost'
        /\ BrokenBefore(q, i)' + Lost <= BrokenBefore(q, i) + Lost'
    BY <1>1, <1>2, <2>1, <2>3, NoMoreBreaks
  <2>5. i \in Workers
    BY <1>1, <1>2, FileIs DEF Workers
  <2>6. Flying(q, i)' => Flying(q, i) /\ task'[i].doc.attempt = task[i].doc.attempt
    BY <2>5
  <2>7. AttemptsFit(q, i)
    BY DEF AttemptsInv
  <2> QED BY <1>2, <2>1, <2>4, <2>6, <2>7, StillFits
<1> QED BY <1>2 DEF AttemptsInv

\* The files of the steps and the artifacts stay as they are.
LEMMA SameKeeps ==
    ASSUME JInv, AttemptsInv, UNCHANGED <<steps, art>>,
           \A q \in Runs : \A w \in Workers :
              Flying(q, w)' => Flying(q, w) /\ task'[w].doc = task[w].doc
    PROVE  AttemptsInv'
<1>1. Lost' = Lost /\ \A k : Art!Valid(k)' <=> Art!Valid(k)
  BY SameDisk DEF art
<1>2. \A q \in Runs : Present(q)' = Present(q)
  BY DEF Present
<1>3. \A q \in Runs : \A j \in Present(q) :
         /\ steps'[q][j].status = steps[q][j].status
         /\ steps'[q][j].attempt = steps[q][j].attempt
         /\ Finished(steps[q][j]) => Finished(steps[q][j])'
  BY <1>1 DEF Finished, OutputValid
<1> QED BY <1>1, <1>2, <1>3, QuietKeeps

\* A task that has the loop goes on without a write, or writes the document of a run.
LEMMA GoFits ==
    ASSUME JInv, AttemptsInv, UNCHANGED <<steps, art, task>>
    PROVE  AttemptsInv'
BY SameKeeps DEF Flying

\* The process ends: no task is left.
LEMMA StopFits ==
    ASSUME JInv, AttemptsInv, Stop
    PROVE  AttemptsInv'
<1>1. UNCHANGED <<steps, art>> /\ task' = [w \in Workers |-> Sleeping]
  BY DEF Stop, files
<1>2. \A q \in Runs : \A w \in Workers : ~Flying(q, w)'
  BY <1>1 DEF Flying, Sleeping
<1> QED BY <1>1, <1>2, SameKeeps

\* The execution goes on after its heartbeat.
LEMMA CloseFits ==
    ASSUME JInv, AttemptsInv, NEW w \in Workers, Close(w)
    PROVE  AttemptsInv'
<1>1. UNCHANGED <<steps, art>> /\ task' = [task EXCEPT ![w] = Sleeping]
  BY DEF Close, SetTask, files
<1>2. task \in [Workers -> Tasks]
  BY DEF JInv, LoopTyped
<1>3. \A q \in Runs : \A v \in Workers : Flying(q, v)' => v # w /\ task'[v] = task[v]
  BY <1>1, <1>2 DEF Flying, Sleeping
<1> QED BY <1>1, <1>3, SameKeeps DEF Flying

\* An artifact is committed.
LEMMA FilterSucceedsFits ==
    ASSUME JInv, AttemptsInv, FilterSucceeds
    PROVE  AttemptsInv'
<1>1. PICK k : k = Me.doc.key
  OBVIOUS
<1>2. loop.pc = "filter" /\ Art!Commit(k) /\ UNCHANGED <<steps, task>>
  BY <1>1 DEF FilterSucceeds, At, files
<1>3. InFlight(loop.w, Me) /\ ~Saving(loop.w)
  BY <1>2, FilterHere DEF InFilter, Saving
<1>4. ~Art!Valid(k)
  BY <1>1, <1>3 DEF InFlight
<1>5. DiskOK /\ commits \in Nat
  BY StepNumbers DEF JInv, Files, FilesTyped
<1>6. Lost' = Lost /\ Art!Valid(k)' /\ \A j : j # k => (Art!Valid(j)' <=> Art!Valid(j))
  BY <1>2, <1>4, <1>5, CommitGrows
<1>7. \A q \in Runs : Present(q)' = Present(q)
  BY <1>2 DEF Present
<1>8. \A j : Art!Valid(j) => Art!Valid(j)'
  BY <1>4, <1>6
<1>9. ASSUME NEW q \in Runs, NEW j \in Present(q), Finished(steps[q][j])
      PROVE  Finished(steps[q][j])'
  <2>1. PICK s : s = steps[q][j]
    OBVIOUS
  <2>2. s.status \in OK /\ s.out # Null /\ s.out = s.key /\ Art!Valid(s.out)
    BY <1>9, <2>1 DEF Finished, OutputValid
  <2>3. PICK o : o = s.out
    OBVIOUS
  <2>4. Art!Valid(o)'
    BY <1>8, <2>2, <2>3
  <2>5. Finished(s)'
    BY <2>2, <2>3, <2>4 DEF Finished, OutputValid, Art!Valid
  <2> QED BY <1>2, <2>1, <2>5 DEF Finished, OutputValid, Art!Valid
<1> QED BY <1>2, <1>6, <1>7, <1>9, QuietKeeps DEF Flying

\* Time passes.
LEMMA TickFits ==
    ASSUME JInv, AttemptsInv, Tick
    PROVE  AttemptsInv'
<1>1. /\ UNCHANGED <<art, task>>
      /\ steps' = [r \in Runs |-> [i \in Present(r) |-> Ticked(steps[r][i])]]
  BY DEF Tick, Ticked
<1>2. FilesTyped
  BY DEF JInv, Files
<1>3. Lost' = Lost /\ \A k : Art!Valid(k)' <=> Art!Valid(k)
  BY <1>1, SameDisk DEF art
<1>4. ASSUME NEW q \in Runs
      PROVE  Present(q)' = Present(q) /\ \A j \in Present(q) : steps'[q][j] = Ticked(steps[q][j])
  <2>1. PICK n \in Nat : n = Len(steps[q]) /\ Present(q) = 1..n
    BY <1>2, FilesOf
  <2>2. steps'[q] = [j \in 1..n |-> Ticked(steps[q][j])]
    BY <1>1, <2>1
  <2>3. Len(steps'[q]) = n
    BY <2>1, <2>2
  <2> QED BY <2>1, <2>2, <2>3 DEF Present
<1>5. ASSUME NEW q \in Runs, NEW j \in Present(q)
      PROVE  /\ steps'[q][j].status = steps[q][j].status
             /\ steps'[q][j].attempt = steps[q][j].attempt
             /\ Finished(steps[q][j]) => Finished(steps[q][j])'
  <2>1. PICK s : s = steps[q][j]
    OBVIOUS
  <2>2. s \in Doc
    BY <1>2, <2>1, FilesOf
  <2>3. PICK t : t = Ticked(s)
    OBVIOUS
  <2>4. steps'[q][j] = t
    BY <1>4, <2>1, <2>3
  <2>5. /\ t.status = s.status /\ t.attempt = s.attempt /\ t.out = s.out /\ t.key = s.key
    BY <2>2, <2>3 DEF Ticked, Doc
  <2> QED BY <1>3, <2>1, <2>4, <2>5 DEF Finished, OutputValid
<1> QED BY <1>1, <1>3, <1>4, <1>5, QuietKeeps DEF Flying

\* A heartbeat renews a lease, or returns.
LEMMA HeartbeatFits ==
    ASSUME JInv, AttemptsInv, NEW w \in Workers, Heartbeat(w)
    PROVE  AttemptsInv'
<1>1. PICK r, s : r = task[w].run /\ s = steps[r][w]
  OBVIOUS
<1>2. /\ task[w].pc = "filtering"
      /\ IF s.status = "running"
         THEN SaveStep(r, w, [s EXCEPT !.lease = Lease]) /\ UNCHANGED task
         ELSE SetTask(w, [task[w] EXCEPT !.beating = FALSE]) /\ UNCHANGED <<files, art, life>>
  BY <1>1 DEF Heartbeat
<1>3. /\ Files /\ task \in [Workers -> Tasks] /\ r \in Runs /\ w \in Present(r) /\ s \in Doc
  BY <1>1, <1>2, FileIs DEF JInv, TasksFit, TaskFits, InFlight, LoopTyped
<1>4. CASE s.status = "running"
  <2>1. PICK t : t = [s EXCEPT !.lease = Lease]
    OBVIOUS
  <2>2. SaveStep(r, w, t) /\ task' = task
    BY <1>2, <1>4, <2>1
  <2>3. /\ t \in Doc /\ t.status = s.status /\ t.attempt = s.attempt
        /\ t.key = s.key /\ t.out = s.out
    <3>1. Lease \in 0..Lease
      BY StepNumbers
    <3> QED BY <1>3, <2>1, <3>1 DEF Doc
  <2>4. /\ UNCHANGED art /\ \A k : Art!Valid(k)' <=> Art!Valid(k)
        /\ \A q \in Runs : Present(q)' = Present(q)
        /\ \A q \in Runs : \A j \in Present(q) :
              steps'[q][j] = IF q = r /\ j = w THEN t ELSE steps[q][j]
    BY <1>3, <2>2, <2>3, SaveFrame
  <2>5. Lost' = Lost
    BY <2>4, SameDisk DEF art
  <2>6. ASSUME NEW q \in Runs, NEW j \in Present(q)
        PROVE  /\ steps'[q][j].status = steps[q][j].status
               /\ steps'[q][j].attempt = steps[q][j].attempt
               /\ Finished(steps[q][j]) => Finished(steps[q][j])'
    <3>1. PICK u, v : u = steps[q][j] /\ v = steps'[q][j]
      OBVIOUS
    <3>2. v.status = u.status /\ v.attempt = u.attempt /\ v.key = u.key /\ v.out = u.out
      BY <1>1, <2>3, <2>4, <2>6, <3>1
    <3> QED BY <2>4, <3>1, <3>2 DEF Finished, OutputValid
  <2> QED BY <2>2, <2>4, <2>5, <2>6, QuietKeeps DEF Flying
<1>5. CASE s.status # "running"
  <2>1. PICK me : me = [task[w] EXCEPT !.beating = FALSE]
    OBVIOUS
  <2>2. task' = [task EXCEPT ![w] = me] /\ UNCHANGED <<steps, art>>
    BY <1>2, <1>5, <2>1 DEF SetTask, files
  <2>3. me.pc = task[w].pc /\ me.run = task[w].run /\ me.doc = task[w].doc
    BY <1>3, <2>1 DEF Tasks
  <2>4. \A v \in Workers : task'[v] = IF v = w THEN me ELSE task[v]
    BY <1>3, <2>2
  <2>5. \A q \in Runs : \A v \in Workers :
           Flying(q, v)' => Flying(q, v) /\ task'[v].doc = task[v].doc
    BY <2>3, <2>4 DEF Flying
  <2> QED BY <2>2, <2>5, SameKeeps
<1> QED BY <1>4, <1>5

-----------------------------------------------------------------------------
(* The steps that make breaks, or steps. *)

\* A run whose files stay as they are.
LEMMA OthersFit ==
    ASSUME JInv, AttemptsInv, NEW q \in Runs, NEW i \in Present(q), UNCHANGED art,
           \A j \in Present(q) : /\ steps'[q][j] = steps[q][j]
                                 /\ Flying(q, j)' => Flying(q, j) /\ task'[j].doc = task[j].doc
    PROVE  AttemptsFit(q, i)'
<1>1. Files
  BY DEF JInv
<1>2. Lost' = Lost /\ \A k : Art!Valid(k)' <=> Art!Valid(k)
  BY SameDisk DEF art
<1>3. Lost' \in Nat /\ Lost' >= Lost
  BY <1>1, <1>2, Numbers
<1>4. \A j \in 1..i : j \in Present(q)
  BY <1>1, Below
<1>5. ASSUME NEW j \in 1..i
      PROVE  /\ Live(q, j)' => Live(q, j)
             /\ Finished(steps[q][j]) => Finished(steps[q][j])'
  <2>1. steps'[q][j] = steps[q][j] /\ (Flying(q, j)' => Flying(q, j))
    BY <1>4
  <2> QED BY <1>2, <2>1 DEF Live, Finished, OutputValid
<1>6. /\ Broken(q, i)' + Lost <= Broken(q, i) + Lost'
      /\ BrokenBefore(q, i)' + Lost <= BrokenBefore(q, i) + Lost'
  BY <1>1, <1>3, <1>5, NoMoreBreaks
<1>7. AttemptsFit(q, i)
  BY DEF AttemptsInv
<1>8. Flying(q, i)' => Flying(q, i) /\ task'[i].doc.attempt = task[i].doc.attempt
  OBVIOUS
<1> QED BY <1>3, <1>6, <1>7, <1>8, StillFits

\* A creation adds a step, which nobody has tried, to a run that nobody executes.
LEMMA CreateStepFits ==
    ASSUME JInv, AttemptsInv, CreateStep
    PROVE  AttemptsInv'
<1>1. PICK r, n : r = loop.run /\ n = Len(steps[r])
  OBVIOUS
<1>2. /\ loop.pc = "create" /\ UNCHANGED <<art, task>>
      /\ steps' = [steps EXCEPT ![r] = Append(@, NewDoc(n + 1))]
  BY <1>1 DEF CreateStep, At
<1>3. r \in Runs /\ Fresh(r) /\ n < NSteps /\ Files /\ FilesTyped /\ TasksFit
  BY <1>1, <1>2, RunOfLoop DEF JInv, LoopFits, InRun, LoopPC, Files
<1>4. n \in Nat /\ n + 1 \in Steps /\ Present(r) = 1..n
  <2>1. n \in Nat /\ Present(r) = 1..n
    BY <1>1, <1>3, FilesOf
  <2> QED BY <1>3, <2>1, StepNumbers DEF Steps
<1>5. PICK new : new = NewDoc(n + 1)
  OBVIOUS
<1>6. new \in Doc
  BY <1>4, <1>5, NewDocs
<1>7. PICK g : g = Append(steps[r], new)
  OBVIOUS
<1>8. Len(g) = n + 1 /\ g[n + 1] = new /\ \A j \in 1..n : g[j] = steps[r][j]
  BY <1>1, <1>3, <1>4, <1>6, <1>7, FilesOf, AppendProperties
<1>9. \A q \in Runs : steps'[q] = IF q = r THEN g ELSE steps[q]
  BY <1>2, <1>3, <1>5, <1>7 DEF FilesTyped
<1>10. Present(r)' = 1..(n + 1) /\ \A q \in Runs : q # r => Present(q)' = Present(q)
  BY <1>3, <1>8, <1>9 DEF Present
<1>11. \A j \in 1..(n + 1) : steps'[r][j] = NewDoc(j) /\ j \in Steps
  <2>1. \A j \in 1..n : steps[r][j] = NewDoc(j)
    BY <1>3, <1>4 DEF Fresh
  <2>2. \A j \in 1..(n + 1) : j \in 1..n \/ j = n + 1
    BY <1>4
  <2>3. \A j \in 1..(n + 1) : j \in Steps
    BY <1>4, StepNumbers DEF Steps
  <2> QED BY <1>3, <1>5, <1>8, <1>9, <2>1, <2>2, <2>3
<1>12. ASSUME NEW j \in Workers PROVE ~Flying(r, j)
  <2>1. SUFFICES ASSUME Flying(r, j) PROVE FALSE
    OBVIOUS
  <2>2. j \in Present(r) /\ steps[r][j].key \in ArtifactKeys
    BY <1>3, <2>1 DEF Flying, TasksFit, TaskFits, InFlight
  <2>3. steps[r][j] = NewDoc(j)
    BY <1>3, <2>2 DEF Fresh
  <2> QED BY <2>2, <2>3, NullAssumption DEF NewDoc
<1>13. ASSUME NEW i \in 1..(n + 1) PROVE AttemptsFit(r, i)'
  <2>1. \A j \in 1..(n + 1) : ~Live(r, j)'
    <3>1. SUFFICES ASSUME NEW j \in 1..(n + 1) PROVE ~Live(r, j)'
      OBVIOUS
    <3>2. steps'[r][j].status \in {"ready", "pending"} /\ ~Flying(r, j)'
      BY <1>2, <1>11, <1>12, NewDocs DEF Flying, Workers
    <3> QED BY <3>2 DEF Live, Used, OK
  <2>2. Breaks(r, i)' = {}
    <3>1. \A j \in 2..i : j \in 1..(n + 1)
      BY <1>4
    <3> QED BY <2>1, <3>1 DEF Breaks
  <2>3. Broken(r, i)' = 0 /\ BrokenBefore(r, i)' = 0
    <3>1. Breaks(r, i)' \ {i} = {}
      BY <2>2
    <3> QED BY <2>2, <3>1, FS_EmptySet DEF Broken, BrokenBefore
  <2>4. PICK l \in Nat, m \in Nat : l = Lost' /\ m = MaxAttempts[i] /\ m > 0
    <3>1. Lost' \in Nat
      BY <1>2, <1>3, SameDisk, LostNat, StepNumbers DEF art, Files, FilesTyped
    <3> QED BY <1>11, <3>1, StepNumbers
  <2>5. Bound(i)' = m + l
    BY <2>4 DEF Bound
  <2>6. PICK s : s = NewDoc(i)
    OBVIOUS
  <2>7. s.attempt = 0 /\ s.status \in {"ready", "pending"}
    BY <1>11, <2>6, NewDocs DEF NewDoc
  <2>8. steps'[r][i] = s /\ ~Flying(r, i)'
    BY <1>2, <1>11, <1>12, <2>6 DEF Flying, Workers
  <2>9. Paid(r, i, steps[r][i])'
    BY <2>3, <2>4, <2>5, <2>7, <2>8 DEF Paid, Used, OK
  <2> QED BY <2>3, <2>4, <2>8, <2>9 DEF AttemptsFit
<1>14. ASSUME NEW q \in Runs, NEW i \in Present(q), q # r PROVE AttemptsFit(q, i)'
  <2>1. \A j \in Present(q) : /\ steps'[q][j] = steps[q][j]
                              /\ Flying(q, j)' => Flying(q, j) /\ task'[j].doc = task[j].doc
    BY <1>2, <1>9, <1>14 DEF Flying
  <2> QED BY <1>2, <2>1, OthersFit
<1> QED BY <1>3, <1>10, <1>13, <1>14 DEF AttemptsInv

\* A filter is called: the step runs already, and the task keeps its file.
LEMMA CallFilterFits ==
    ASSUME JInv, AttemptsInv, CallFilter
    PROVE  AttemptsInv'
<1>1. PICK w, r : w = loop.w /\ r = loop.run
  OBVIOUS
<1>2. PICK s : s = steps[r][w]
  OBVIOUS
<1>3. PICK me : me = [pc |-> "filtering", run |-> r, doc |-> [s EXCEPT !.lease = Null],
                      input |-> Inputs(r, w), beating |-> TRUE]
  OBVIOUS
<1>4. loop.pc = "execute" /\ task' = [task EXCEPT ![w] = me] /\ UNCHANGED <<steps, art>>
  BY <1>1, <1>2, <1>3 DEF CallFilter, At, SetTask, files
<1>5. r \in Runs /\ w \in Present(r) /\ s.status = "running" /\ Files /\ s \in Doc
  <2>1. r \in Runs /\ w \in Present(r) /\ s.status = "running" /\ Files
    BY <1>1, <1>2, <1>4, RunOfLoop DEF JInv, LoopFits, InRun, LoopPC
  <2> QED BY <1>2, <2>1, FileIs
<1>6. w \in Workers /\ task \in [Workers -> Tasks]
  BY <1>1, <1>4, WorkerHere DEF Worked, JInv, LoopTyped
<1>7. me.run = r /\ me.doc.attempt = s.attempt
  <2>1. PICK d : d = [s EXCEPT !.lease = Null]
    OBVIOUS
  <2>2. d.attempt = s.attempt
    BY <1>5, <2>1 DEF Doc
  <2> QED BY <1>3, <2>1, <2>2
<1>8. \A v \in Workers : task'[v] = IF v = w THEN me ELSE task[v]
  BY <1>4, <1>6
<1>9. ASSUME NEW q \in Runs, NEW i \in Present(q), ~(q = r /\ i = w) PROVE AttemptsFit(q, i)'
  <2>1. \A j \in 1..i : j \in Present(q) /\ j \in Workers
    BY <1>5, Below
  <2>2. Lost' = Lost /\ \A k : Art!Valid(k)' <=> Art!Valid(k)
    BY <1>4, SameDisk DEF art
  <2>3. Lost' \in Nat /\ Lost' >= Lost
    BY <1>5, <2>2, Numbers
  <2>4. ASSUME NEW j \in 1..i
        PROVE  /\ Live(q, j)' => Live(q, j)
               /\ Finished(steps[q][j]) => Finished(steps[q][j])'
    <3>1. CASE q = r /\ j = w
      BY <1>2, <1>4, <1>5, <2>2, <3>1 DEF Live, Used, OK, Finished, OutputValid
    <3>2. CASE ~(q = r /\ j = w)
      <4>1. Flying(q, j)' => Flying(q, j)
        BY <1>7, <1>8, <2>1, <3>2 DEF Flying
      <4> QED BY <1>4, <2>2, <4>1 DEF Live, Finished, OutputValid
    <3> QED BY <3>1, <3>2
  <2>5. /\ Broken(q, i)' + Lost <= Broken(q, i) + Lost'
        /\ BrokenBefore(q, i)' + Lost <= BrokenBefore(q, i) + Lost'
    BY <1>5, <2>3, <2>4, NoMoreBreaks
  <2>6. i \in Workers
    BY <1>5, FileIs DEF Workers
  <2>7. Flying(q, i)' => Flying(q, i) /\ task'[i].doc.attempt = task[i].doc.attempt
    BY <1>7, <1>8, <1>9, <2>6 DEF Flying
  <2> QED BY <1>4, <1>9, <2>3, <2>5, <2>7, StillFits DEF AttemptsInv
<1>10. AttemptsFit(r, w)'
  <2>1. PICK b \in Nat, c \in Nat, b1 \in Nat, c1 \in Nat, l \in Nat, n \in Nat :
           /\ b = Broken(r, w) /\ c = BrokenBefore(r, w)
           /\ b1 = Broken(r, w)' /\ c1 = BrokenBefore(r, w)'
           /\ l = Lost /\ n = MaxAttempts[w]
    BY <1>5, Numbers
  <2>2. Lost' = l /\ Bound(w) = n + l /\ Bound(w)' = n + l
        /\ \A k : Art!Valid(k)' <=> Art!Valid(k)
    <3>1. Lost' = Lost /\ \A k : Art!Valid(k)' <=> Art!Valid(k)
      BY <1>4, SameDisk DEF art
    <3> QED BY <2>1, <3>1 DEF Bound
  <2>3. b1 <= b
    <3>1. ASSUME NEW j \in 1..w
          PROVE  /\ Live(r, j)' => Live(r, j)
                 /\ Finished(steps[r][j]) => Finished(steps[r][j])'
      <4>1. j \in Workers
        BY <1>5, Below
      <4>2. CASE j = w
        BY <1>2, <1>4, <1>5, <2>2, <4>2 DEF Live, Used, OK, Finished, OutputValid
      <4>3. CASE j # w
        <5>1. Flying(r, j)' => Flying(r, j)
          BY <1>8, <4>1, <4>3 DEF Flying
        <5> QED BY <1>4, <2>2, <5>1 DEF Live, Finished, OutputValid
      <4> QED BY <4>2, <4>3
    <3>2. Lost' \in Nat /\ Lost' >= Lost
      BY <2>1, <2>2
    <3> QED BY <1>5, <2>1, <3>1, <3>2, NoMoreBreaks
  <2>4. /\ b <= l /\ s.attempt <= n + l /\ s.attempt + b <= n + l /\ s.attempt \in Nat
    BY <1>2, <1>5, <2>1, <2>2 DEF AttemptsInv, AttemptsFit, Paid, Used, Doc
  <2>5. steps'[r][w] = s /\ task'[w].doc.attempt = s.attempt
    BY <1>2, <1>4, <1>6, <1>7, <1>8
  <2>6. s.attempt + b1 <= n + l /\ b1 <= l
    BY <2>3, <2>4
  <2>7. Paid(r, w, steps[r][w])'
    BY <1>5, <2>1, <2>2, <2>4, <2>5, <2>6 DEF Paid, Open
  <2> QED BY <1>5, <2>1, <2>2, <2>5, <2>6, <2>7 DEF AttemptsFit, OK
<1>11. \A q \in Runs : Present(q)' = Present(q)
  BY <1>4 DEF Present
<1> QED BY <1>9, <1>10, <1>11 DEF AttemptsInv

\* An artifact is lost: at most one step of a run has it as its output, so that a run has
\* at most one break more, for one loss more.
LEMMA LoseArtifactFits ==
    ASSUME JInv, AttemptsInv, LoseArtifact
    PROVE  AttemptsInv'
<1>1. Art!Lose /\ UNCHANGED <<steps, task>>
  BY DEF LoseArtifact, files
<1>2. Files /\ DiskOK /\ commits \in Nat
  BY StepNumbers DEF JInv, Files, FilesTyped
<1>3. PICK k : \A j : j # k /\ Art!Valid(j) => Art!Valid(j)'
  BY <1>1, <1>2, LoseGrows
<1>4. Lost' = Lost + 1 /\ Lost \in Nat
  BY <1>1, <1>2, LoseGrows, LostNat
<1>5. ASSUME NEW q \in Runs, NEW i \in Present(q) PROVE AttemptsFit(q, i)'
  <2>1. PICK m : m = k.step + 1
    OBVIOUS
  <2>2. i \in Int /\ Breaks(q, i) \in SUBSET (2..i)
    BY <1>2, Numbers
  <2>3. ASSUME NEW j \in Breaks(q, i)', j \notin Breaks(q, i) PROVE j = m
    <3>1. j \in 2..i /\ Live(q, j)' /\ ~Finished(steps[q][j - 1])'
      BY <2>3 DEF Breaks
    <3>2. Live(q, j)
      BY <1>1, <3>1 DEF Live, Flying
    <3>3. j - 1 \in Present(q) /\ j - 1 \in Int
      BY <1>2, <3>1, Numbers
    <3>4. PICK s : s = steps[q][j - 1]
      OBVIOUS
    <3>5. Finished(s)
      BY <2>3, <3>1, <3>2, <3>4 DEF Breaks
    <3>6. DocFits(j - 1, s)
      BY <1>2, <3>3, <3>4, FileIs
    <3>7. s.out # Null /\ s.out = s.key /\ s.key.step = j - 1
      BY <3>5, <3>6 DEF Finished, OutputValid, DocFits
    <3>8. ~Art!Valid(s.out)'
      <4>1. ~Finished(s)'
        BY <1>1, <3>1, <3>4 DEF Finished, OutputValid, Art!Valid
      <4> QED BY <3>5, <3>7, <4>1 DEF Finished, OutputValid, Art!Valid
    <3>9. s.out = k
      <4>1. PICK o : o = s.out
        OBVIOUS
      <4>2. Art!Valid(o) /\ ~Art!Valid(o)'
        BY <3>5, <3>8, <4>1 DEF Finished, OutputValid, Art!Valid
      <4>3. o = k
        BY <1>3, <4>2
      <4> QED BY <4>1, <4>3
    <3>10. k.step = j - 1
      BY <3>7, <3>9
    <3> QED BY <2>1, <3>3, <3>10, <3>1
  <2>4. Breaks(q, i)' \in SUBSET (Breaks(q, i) \cup {m})
    BY <2>3
  <2>5. /\ Broken(q, i)' <= Broken(q, i) + 1
        /\ BrokenBefore(q, i)' <= BrokenBefore(q, i) + 1
    BY <2>2, <2>4, OneMore DEF Broken, BrokenBefore
  <2>6. /\ Broken(q, i)' + Lost <= Broken(q, i) + Lost'
        /\ BrokenBefore(q, i)' + Lost <= BrokenBefore(q, i) + Lost'
    <3>1. /\ Broken(q, i)' \in Nat /\ Broken(q, i) \in Nat
          /\ BrokenBefore(q, i)' \in Nat /\ BrokenBefore(q, i) \in Nat
      BY <1>2, Numbers
    <3> QED BY <1>4, <2>5, <3>1
  <2>7. Lost' \in Nat /\ Lost' >= Lost
    BY <1>4
  <2>8. Flying(q, i)' => Flying(q, i) /\ task'[i].doc.attempt = task[i].doc.attempt
    BY <1>1 DEF Flying
  <2> QED BY <1>1, <1>5, <2>6, <2>7, <2>8, StillFits DEF AttemptsInv
<1>6. \A q \in Runs : Present(q)' = Present(q)
  BY <1>1 DEF Present
<1> QED BY <1>5, <1>6 DEF AttemptsInv

-----------------------------------------------------------------------------
(* The steps that write a file. *)

\* t may be written as file m of run r: it is paid for, and makes no break.
Fitting(r, m, t) ==
    /\ Paid(r, m, t)
    /\ \/ /\ t.status \in Used /\ m > 1 /\ ~Finished(steps[r][m - 1]) => Live(r, m)
          /\ Finished(steps[r][m]) => Finished(t)
       \/ /\ t.status \notin Used /\ ~Flying(r, m) /\ Live(r, m)
          /\ m > 1 /\ ~Finished(steps[r][m - 1])

\* What the invariant says of the attempts of a file.
LEMMA Attempts ==
    ASSUME JInv, AttemptsInv, NEW r \in Runs, NEW m \in Present(r)
    PROVE  /\ Files /\ m \in Workers /\ m \in Int /\ steps[r][m] \in Doc
           /\ steps[r][m].attempt \in Nat /\ Paid(r, m, steps[r][m])
           /\ steps[r][m].status \in Used \cup Open \cup {"failed"}
           /\ Flying(r, m) => steps[r][m].status \notin OK
           /\ MaxAttempts[m] \in Nat /\ MaxAttempts[m] > 0 /\ Bound(m) \in Nat
           /\ MaxAttempts[m] + BrokenBefore(r, m) <= Bound(m)
           /\ Broken(r, m) \in Nat /\ BrokenBefore(r, m) \in Nat
<1>1. Files /\ AttemptsFit(r, m)
  BY DEF JInv, AttemptsInv
<1>2. m \in Workers /\ steps[r][m] \in Doc
  BY <1>1, FileIs DEF Workers
<1>3. steps[r][m].status \in Used \cup Open \cup {"failed"}
  BY <1>2 DEF Doc, StepStatus, Used, Open, OK
<1>4. MaxAttempts[m] + BrokenBefore(r, m) <= Bound(m)
  <2>1. PICK b \in Nat, c \in Nat, l \in Nat, n \in Nat :
           b = Broken(r, m) /\ c = BrokenBefore(r, m) /\ l = Lost /\ n = MaxAttempts[m]
    BY <1>1, Numbers
  <2>2. c <= b /\ b <= l
    BY <1>1, <2>1, Numbers DEF AttemptsFit
  <2> QED BY <2>1, <2>2 DEF Bound
<1> QED BY <1>1, <1>2, <1>3, <1>4, Numbers DEF AttemptsFit

\* An open step stays open, or fails.
LEMMA OpenFits ==
    ASSUME JInv, AttemptsInv, NEW r \in Runs, NEW m \in Present(r), steps[r][m].status \in Open,
           NEW t, t.status \in Open \cup {"failed"}, t.attempt = steps[r][m].attempt
    PROVE  Fitting(r, m, t)
<1>1. Paid(r, m, t)
  BY Attempts DEF Paid, Used, Open, OK
<1>2. t.status \notin Used /\ ~Finished(steps[r][m])
  BY DEF Used, Open, OK, Finished
<1> QED BY <1>1, <1>2 DEF Fitting

\* A step without a valid output that has an attempt left is tried again.
LEMMA LeftFits ==
    ASSUME JInv, AttemptsInv, NEW r \in Runs, NEW m \in Present(r), ~Finished(steps[r][m]),
           NEW t, t.attempt \in Nat, t.attempt <= Bound(m),
           \/ t.status = "failed"
           \/ t.status \in Open /\ t.attempt < MaxAttempts[m]
    PROVE  Fitting(r, m, t)
<1>1. t.status \in Open => t.attempt + 1 + BrokenBefore(r, m) <= Bound(m)
  <2>1. PICK c \in Nat, n \in Nat, bound \in Nat :
           c = BrokenBefore(r, m) /\ n = MaxAttempts[m] /\ bound = Bound(m) /\ n + c <= bound
    BY Attempts
  <2>2. t.status \in Open => t.attempt < n
    BY <2>1 DEF Open
  <2>3. t.status \in Open => t.attempt + 1 + c <= bound
    BY <2>1, <2>2
  <2> QED BY <2>1, <2>3
<1>2. t.status \notin Used
  BY DEF Used, Open, OK
<1> QED BY <1>1, <1>2 DEF Fitting, Paid

\* A step without a finished basis opens again: its break pays for the attempt.
LEMMA UngroundedFits ==
    ASSUME JInv, AttemptsInv, NEW r \in Runs, NEW m \in Present(r), steps[r][m].status # "failed",
           m > 1, ~Finished(steps[r][m - 1]),
           NEW t, t.status \in Open, t.attempt = steps[r][m].attempt
    PROVE  Fitting(r, m, t)
<1>1. CASE steps[r][m].status \in Open
  BY <1>1, OpenFits
<1>2. CASE steps[r][m].status \in Used
  <2>1. Live(r, m)
    BY <1>2 DEF Live
  <2>2. m \in Breaks(r, m)
    <3>1. m \in 2..m
      BY Attempts
    <3> QED BY <2>1, <3>1 DEF Breaks
  <2>3. Broken(r, m) = BrokenBefore(r, m) + 1
    BY <2>2, Attempts, Numbers
  <2>4. PICK a \in Nat, b \in Nat, c \in Nat, bound \in Nat :
           /\ a = steps[r][m].attempt /\ b = Broken(r, m) /\ c = BrokenBefore(r, m)
           /\ bound = Bound(m)
    BY Attempts
  <2>5. a <= bound /\ a + b <= bound /\ b = c + 1
    BY <1>2, <2>3, <2>4, Attempts DEF Paid
  <2>6. a + 1 + c <= bound
    BY <2>5
  <2>7. t.status \notin Used
    BY DEF Used, Open, OK
  <2>8. Paid(r, m, t)
    BY <2>4, <2>5, <2>6, <2>7 DEF Paid
  <2>9. CASE steps[r][m].status \in OK
    <3>1. ~Flying(r, m)
      BY <2>9, Attempts
    <3> QED BY <2>1, <2>7, <2>8, <3>1 DEF Fitting
  <2>10. CASE steps[r][m].status \notin OK
    BY <2>7, <2>8, <2>10 DEF Fitting, Finished
  <2> QED BY <2>9, <2>10
<1> QED BY <1>1, <1>2, Attempts

\* A live step stays live.
LEMMA LiveFits ==
    ASSUME JInv, AttemptsInv, NEW r \in Runs, NEW m \in Present(r), Live(r, m),
           ~Finished(steps[r][m]),
           NEW t, t.status \in Used, t.attempt \in Nat, t.attempt + Broken(r, m) <= Bound(m)
    PROVE  Fitting(r, m, t)
<1>1. PICK a \in Nat, b \in Nat, bound \in Nat :
         a = t.attempt /\ b = Broken(r, m) /\ bound = Bound(m)
  BY Attempts
<1>2. a <= bound
  BY <1>1
<1>3. t.status \notin Open
  BY DEF Used, Open, OK
<1> QED BY <1>1, <1>2, <1>3 DEF Fitting, Paid

\* A loop over the steps of a run.
LEMMA EachFits ==
    ASSUME JInv, AttemptsInv, NEW r \in Runs, r = loop.run, NEW new, NEW after, SaveEach(new, after),
           \A m \in Present(r) : /\ new[m] \in Doc
                                 /\ new[m] # steps[r][m] =>
                                       /\ Fitting(r, m, new[m])
                                       /\ Flying(r, m) => new[m].status \notin OK
    PROVE  AttemptsInv'
<1>1. PICK changed : changed = {i \in Present(r) : new[i] # steps[r][i]}
  OBVIOUS
<1>2. CASE changed = {}
  BY <1>1, <1>2, GoFits DEF SaveEach, Go, files
<1>3. CASE changed # {}
  <2>1. PICK m \in changed : SaveStep(r, m, new[m]) /\ UNCHANGED task
    BY <1>1, <1>3 DEF SaveEach
  <2>2. PICK t : t = new[m]
    OBVIOUS
  <2>3. /\ m \in Present(r) /\ t \in Doc /\ Fitting(r, m, t)
        /\ Flying(r, m) => t.status \notin OK
    BY <1>1, <2>1, <2>2
  <2>4. \A q \in Runs : \A w \in Workers :
           Flying(q, w)' => Flying(q, w) /\ task'[w].doc = task[w].doc
    BY <2>1 DEF Flying
  <2>5. Flying(r, m)' => t.status \notin OK
    BY <2>1, <2>3 DEF Flying
  <2>6. /\ Paid(r, m, t)
        /\ \/ /\ t.status \in Used /\ m > 1 /\ ~Finished(steps[r][m - 1]) => Live(r, m)
              /\ Finished(steps[r][m]) => Finished(t)
           \/ /\ t.status \notin Used /\ ~Flying(r, m) /\ Live(r, m)
              /\ m > 1 /\ ~Finished(steps[r][m - 1])
    BY <2>3 DEF Fitting
  <2>7. SaveStep(r, m, t)
    BY <2>1, <2>2
  <2> QED BY <2>3, <2>4, <2>5, <2>6, <2>7, WriteKeeps
<1> QED BY <1>2, <1>3

\* recover, first loop.
LEMMA RepairFits ==
    ASSUME JInv, AttemptsInv, Repair
    PROVE  AttemptsInv'
<1>1. PICK r, new : r = loop.run /\ new = Repaired(r)
  OBVIOUS
<1>2. loop.pc = "repair" /\ SaveEach(new, To("recheck"))
  BY <1>1 DEF Repair, At
<1>3. r \in Runs
  BY <1>1, <1>2, RunOfLoop DEF InRun, LoopPC
<1>4. ASSUME NEW m \in Present(r)
      PROVE  /\ new[m] \in Doc
             /\ new[m] # steps[r][m] => /\ Fitting(r, m, new[m])
                                        /\ Flying(r, m) => new[m].status \notin OK
  <2>1. PICK s, t : s = steps[r][m] /\ t = RepairedDoc(m, s)
    OBVIOUS
  <2>2. new[m] = t
    BY <1>1, <2>1 DEF Repaired
  <2>3. t \in Doc /\ s \in Doc /\ s.attempt \in Nat /\ m \in Workers
    BY <1>3, <2>1, MayRepair, Attempts
  <2>4. CASE s.status = "running" /\ s.lease = 0 /\ ExpectedValid(s)
    <3>1. t.status = "succeeded_cached" /\ t.attempt = s.attempt
      BY <2>1, <2>3, <2>4 DEF RepairedDoc, Doc
    <3>2. ~Flying(r, m)
      <4>1. SUFFICES ASSUME Flying(r, m) PROVE FALSE
        OBVIOUS
      <4>2. InFlight(m, task[m]) /\ ~Saving(m)
        BY <1>2, <2>3, <4>1 DEF Flying, JInv, TasksFit, TaskFits, Saving
      <4>3. ~Art!Valid(s.key)
        BY <2>1, <4>1, <4>2 DEF InFlight, Flying
      <4> QED BY <2>4, <4>3 DEF ExpectedValid
    <3>3. Live(r, m) /\ ~Finished(s)
      BY <2>1, <2>4 DEF Live, Used, Finished, OK
    <3>4. t.attempt + Broken(r, m) <= Bound(m)
      BY <1>3, <2>1, <2>4, <3>1, Attempts DEF Paid, Used
    <3>5. t.status \in Used
      BY <3>1 DEF Used, OK
    <3>6. Fitting(r, m, t)
      BY <1>3, <2>1, <2>3, <3>1, <3>3, <3>4, <3>5, LiveFits
    <3> QED BY <2>2, <2>3, <3>2, <3>6
  <2>5. CASE s.status = "retrying" /\ s.wait = 0
    <3>1. t.status = "ready" /\ t.attempt = s.attempt
      BY <2>1, <2>3, <2>5 DEF RepairedDoc, Doc, OK
    <3>2. Fitting(r, m, t)
      BY <1>3, <2>1, <2>5, <3>1, OpenFits DEF Open
    <3> QED BY <2>2, <2>3, <3>1, <3>2 DEF OK
  <2>6. CASE ~ExpectedValid(s) /\ (s.status \in OK \/ (s.status = "running" /\ s.lease = 0))
    <3>1. PICK st : st = IF AttemptsLeft(m, s) THEN "ready" ELSE "failed"
      OBVIOUS
    <3>2. t = [Become(s, st) EXCEPT !.suspect = TRUE]
      BY <2>1, <2>6, <3>1 DEF RepairedDoc, OK
    <3>3. st \in StepStatus
      BY <3>1 DEF StepStatus
    <3>4. PICK b : b = Become(s, st)
      OBVIOUS
    <3>5. b \in Doc /\ b.status = st /\ b.attempt = s.attempt
      BY <2>3, <3>3, <3>4, Becomes
    <3>6. t.status = st /\ t.attempt = s.attempt
      BY <3>2, <3>4, <3>5 DEF Doc
    <3>7. t.status = "failed" \/ (t.status \in Open /\ t.attempt < MaxAttempts[m])
      BY <3>1, <3>6 DEF AttemptsLeft, Open
    <3>8. ~Finished(s)
      BY <2>6, FinishedExpected
    <3>9. t.attempt \in Nat /\ t.attempt <= Bound(m)
      BY <1>3, <2>1, <2>3, <3>6, Attempts DEF Paid
    <3>10. Fitting(r, m, t)
      BY <1>3, <2>1, <3>7, <3>8, <3>9, LeftFits
    <3> QED BY <2>2, <2>3, <3>1, <3>6, <3>10 DEF OK
  <2>7. CASE /\ ~(s.status = "running" /\ s.lease = 0 /\ ExpectedValid(s))
             /\ ~(s.status = "retrying" /\ s.wait = 0)
             /\ ~(~ExpectedValid(s) /\ (s.status \in OK \/ (s.status = "running" /\ s.lease = 0)))
    BY <2>1, <2>2, <2>3, <2>7 DEF RepairedDoc
  <2> QED BY <2>4, <2>5, <2>6, <2>7
<1> QED BY <1>1, <1>2, <1>3, <1>4, EachFits

\* recover, second loop: a step gives way only for a basis that is not finished.
LEMMA RecheckFits ==
    ASSUME JInv, AttemptsInv, Recheck
    PROVE  AttemptsInv'
<1>1. PICK r, new : r = loop.run /\ new = Rechecked(r)
  OBVIOUS
<1>2. loop.pc = "recheck" /\ SaveEach(new, To("derive"))
  BY <1>1 DEF Recheck, At
<1>3. r \in Runs
  BY <1>1, <1>2, RunOfLoop DEF InRun, LoopPC
<1>4. ASSUME NEW m \in Present(r)
      PROVE  /\ new[m] \in Doc
             /\ new[m] # steps[r][m] => /\ Fitting(r, m, new[m])
                                        /\ Flying(r, m) => new[m].status \notin OK
  <2>1. PICK s, states : s = steps[r][m] /\ states = {DepState(steps[r][j]) : j \in DependsOn(m)}
    OBVIOUS
  <2>2. PICK t : t = RecheckedDoc(s, states)
    OBVIOUS
  <2>3. new[m] = t
    BY <1>1, <2>1, <2>2 DEF Rechecked
  <2>4. t \in Doc /\ s \in Doc /\ Files
    BY <1>3, <2>1, <2>2, MayRecheck, Attempts
  <2>5. ASSUME NEW st \in {"pending", "blocked", "ready"}, t = Become(s, st)
        PROVE  t.status = st /\ t.attempt = s.attempt /\ t.status \in Open /\ t.status \notin OK
    <3>1. st \in StepStatus /\ st \in Open /\ st \notin OK
      BY DEF StepStatus, Open, OK
    <3> QED BY <2>4, <2>5, <3>1, Becomes
  <2>6. ASSUME NEW d \in states, d # "valid" PROVE m > 1 /\ ~Finished(steps[r][m - 1])
    <3>1. PICK j \in DependsOn(m) : d = DepState(steps[r][j])
      BY <2>1
    <3>2. j \in Steps /\ j = m - 1 /\ j \in Present(r)
      BY <1>3, <2>4, FileIs, StepNumbers
    <3>3. m > 1
      BY <1>3, <3>2, Attempts, StepNumbers DEF Steps
    <3>4. steps[r][j].status \in OK => ~steps[r][j].suspect
      <4>1. DocFits(j, steps[r][j]) /\ steps[r][j] \in Doc
        BY <1>3, <2>4, <3>2, FileIs
      <4> QED BY <4>1 DEF DocFits, OK, Doc
    <3>5. ~Finished(steps[r][j])
      BY <2>6, <3>1, <3>4, FinishedExpected DEF Finished
    <3> QED BY <3>2, <3>3, <3>5
  <2>7. CASE s.status # "failed" /\ "invalid" \in states
    <3>1. t = Become(s, "blocked")
      BY <2>2, <2>7 DEF RecheckedDoc
    <3>2. t.status \in Open /\ t.attempt = s.attempt /\ t.status \notin OK
      BY <2>5, <3>1
    <3>3. m > 1 /\ ~Finished(steps[r][m - 1])
      BY <2>6, <2>7
    <3>4. Fitting(r, m, t)
      BY <1>3, <2>1, <2>7, <3>2, <3>3, UngroundedFits
    <3> QED BY <2>3, <2>4, <3>2, <3>4
  <2>8. CASE /\ ~(s.status # "failed" /\ "invalid" \in states)
             /\ states = {"valid"} /\ s.status \in {"pending", "blocked", "ready"}
    <3>1. t = Become(s, "ready")
      BY <2>2, <2>8 DEF RecheckedDoc
    <3>2. t.status \in Open /\ t.attempt = s.attempt /\ t.status \notin OK /\ s.status \in Open
      BY <2>5, <2>8, <3>1 DEF Open
    <3>3. Fitting(r, m, t)
      BY <1>3, <2>1, <3>2, OpenFits
    <3> QED BY <2>3, <2>4, <3>2, <3>3
  <2>9. CASE /\ ~(s.status # "failed" /\ "invalid" \in states)
             /\ ~(states = {"valid"} /\ s.status \in {"pending", "blocked", "ready"})
             /\ states = {"unavailable"}
             /\ s.status \in {"ready", "running", "retrying", "blocked"}
    <3>1. t = Become(s, "pending")
      BY <2>2, <2>9 DEF RecheckedDoc
    <3>2. t.status \in Open /\ t.attempt = s.attempt /\ t.status \notin OK
      BY <2>5, <3>1
    <3>3. m > 1 /\ ~Finished(steps[r][m - 1])
      BY <2>6, <2>9
    <3>4. Fitting(r, m, t)
      BY <1>3, <2>1, <2>9, <3>2, <3>3, UngroundedFits
    <3> QED BY <2>3, <2>4, <3>2, <3>4
  <2>10. CASE /\ ~(s.status # "failed" /\ "invalid" \in states)
              /\ ~(states = {"valid"} /\ s.status \in {"pending", "blocked", "ready"})
              /\ ~(/\ states = {"unavailable"}
                   /\ s.status \in {"ready", "running", "retrying", "blocked"})
    BY <2>1, <2>2, <2>3, <2>4, <2>10 DEF RecheckedDoc
  <2> QED BY <2>7, <2>8, <2>9, <2>10
<1> QED BY <1>1, <1>2, <1>3, <1>4, EachFits

\* _promote and _promote_by_dependencies.
LEMMA PromotedFits ==
    ASSUME JInv, AttemptsInv, NEW r \in Runs, r = loop.run, NEW from \in SUBSET Open, NEW after,
           SaveEach(Promoted(r, from), after)
    PROVE  AttemptsInv'
<1>1. PICK new : new = Promoted(r, from)
  OBVIOUS
<1>2. ASSUME NEW m \in Present(r)
      PROVE  /\ new[m] \in Doc
             /\ new[m] # steps[r][m] => /\ Fitting(r, m, new[m])
                                        /\ Flying(r, m) => new[m].status \notin OK
  <2>1. from \cap OK = {}
    BY DEF Open, OK
  <2>2. new[m] \in Doc
    BY <1>1, <2>1, MayPromote DEF JInv
  <2>3. CASE steps[r][m].status \in from /\ DepsValid(r, m)
    <3>1. PICK s, t : s = steps[r][m] /\ t = new[m]
      OBVIOUS
    <3>2. t = Become(s, "ready") /\ s \in Doc /\ "ready" \in StepStatus /\ s.status \in Open
      BY <1>1, <2>3, <3>1, Attempts DEF Promoted, StepStatus
    <3>3. t.status = "ready" /\ t.attempt = s.attempt
      BY <3>2, Becomes
    <3>4. Fitting(r, m, t)
      BY <3>1, <3>2, <3>3, OpenFits DEF Open
    <3> QED BY <2>2, <3>1, <3>3, <3>4 DEF OK
  <2>4. CASE ~(steps[r][m].status \in from /\ DepsValid(r, m))
    BY <1>1, <2>2, <2>4 DEF Promoted
  <2> QED BY <2>3, <2>4
<1> QED BY <1>1, <1>2, EachFits

\* Both promotions.
LEMMA PromoteFits ==
    ASSUME JInv, AttemptsInv, Promote \/ Repromote
    PROVE  AttemptsInv'
<1>1. loop.pc \in {"promote", "repromote"}
  BY DEF Promote, Repromote, At
<1>2. PICK r : r = loop.run /\ r \in Runs
  BY <1>1, RunOfLoop DEF InRun, LoopPC
<1>3. \E from \in SUBSET Open : \E after : SaveEach(Promoted(r, from), after)
  BY <1>2 DEF Promote, Repromote, Open
<1> QED BY <1>2, <1>3, PromotedFits

\* retry.
LEMMA ResetFits ==
    ASSUME JInv, AttemptsInv, Reset
    PROVE  AttemptsInv'
<1>1. PICK r, new : r = loop.run /\ new = Restarted(r)
  OBVIOUS
<1>2. loop.pc = "reset" /\ SaveEach(new, To("repromote"))
  BY <1>1 DEF Reset, At
<1>3. r \in Runs
  BY <1>1, <1>2, RunOfLoop DEF InRun, LoopPC
<1>4. ASSUME NEW m \in Present(r)
      PROVE  /\ new[m] \in Doc
             /\ new[m] # steps[r][m] => /\ Fitting(r, m, new[m])
                                        /\ Flying(r, m) => new[m].status \notin OK
  <2>1. new[m] \in Doc
    BY <1>1, <1>3, MayRestart DEF JInv
  <2>2. CASE steps[r][m].status \in OK
    BY <1>1, <2>1, <2>2 DEF Restarted
  <2>3. CASE steps[r][m].status \notin OK
    <3>1. PICK s, t, st : s = steps[r][m] /\ t = new[m] /\ st = FirstStatus(m)
      OBVIOUS
    <3>2. t = [Become(s, st) EXCEPT !.attempt = 0] /\ s \in Doc
      BY <1>1, <1>3, <2>3, <3>1, Attempts DEF Restarted, RestartedDoc
    <3>3. st \in {"ready", "pending"}
      BY <3>1, FirstStatuses
    <3>4. PICK b : b = Become(s, st)
      OBVIOUS
    <3>5. b \in Doc /\ b.status = st
      <4>1. st \in StepStatus
        BY <3>3 DEF StepStatus
      <4> QED BY <3>2, <3>4, <4>1, Becomes
    <3>6. t.attempt = 0 /\ t.status = st
      BY <3>2, <3>4, <3>5 DEF Doc
    <3>7. t.attempt < MaxAttempts[m] /\ t.attempt <= Bound(m)
      BY <1>3, <3>6, Attempts
    <3>8. Fitting(r, m, t)
      <4>1. ~Finished(steps[r][m])
        BY <2>3 DEF Finished
      <4>2. t.status \in Open /\ t.attempt \in Nat
        BY <3>3, <3>6 DEF Open
      <4> QED BY <1>3, <3>7, <4>1, <4>2, LeftFits
    <3> QED BY <2>1, <3>1, <3>3, <3>6, <3>8 DEF OK
  <2> QED BY <2>2, <2>3
<1> QED BY <1>1, <1>2, <1>3, <1>4, EachFits

\* One file is written, and at most the task of the worker changes.
LEMMA OneFits ==
    ASSUME JInv, AttemptsInv, NEW r \in Runs, NEW m \in Present(r), NEW t \in Doc, SaveStep(r, m, t),
           Fitting(r, m, t),
           \/ UNCHANGED task
           \/ \E me : me.pc # "filtering" /\ SetTask(m, me),
           task'[m].pc = "filtering" => t.status \notin OK
    PROVE  AttemptsInv'
<1>1. task \in [Workers -> Tasks]
  BY DEF JInv, LoopTyped
<1>2. \A q \in Runs : \A w \in Workers :
         Flying(q, w)' => Flying(q, w) /\ task'[w].doc = task[w].doc
  BY <1>1 DEF Flying, SetTask
<1>3. Flying(r, m)' => t.status \notin OK
  BY DEF Flying
<1>4. /\ Paid(r, m, t)
      /\ \/ /\ t.status \in Used /\ m > 1 /\ ~Finished(steps[r][m - 1]) => Live(r, m)
            /\ Finished(steps[r][m]) => Finished(t)
         \/ /\ t.status \notin Used /\ ~Flying(r, m) /\ Live(r, m)
            /\ m > 1 /\ ~Finished(steps[r][m - 1])
  BY DEF Fitting
<1> QED BY <1>2, <1>3, <1>4, WriteKeeps

\* A step is refused for its dependencies.
LEMMA RefuseFits ==
    ASSUME JInv, AttemptsInv, Refuse
    PROVE  AttemptsInv'
<1>1. PICK w : w = loop.w
  OBVIOUS
<1>2. PICK r \in Claimable :
         SaveStep(r, w, Become(steps[r][w],
                  IF Verdict(r, w) = "invalid" THEN "blocked" ELSE "pending"))
  BY <1>1 DEF Refuse
<1>3. r \in Runs /\ w \in Present(r) /\ steps[r][w].status \in {"ready", "retrying"} /\ task' = task
  BY <1>1, ClaimableIs DEF Refuse
<1>4. PICK s, st : s = steps[r][w] /\ st = IF Verdict(r, w) = "invalid" THEN "blocked" ELSE "pending"
  OBVIOUS
<1>5. PICK t : t = Become(s, st)
  OBVIOUS
<1>6. s \in Doc /\ s.status \in Open /\ st \in {"blocked", "pending"} /\ st \in StepStatus
  BY <1>3, <1>4, Attempts DEF Open, StepStatus
<1>7. t \in Doc /\ t.status = st /\ t.attempt = s.attempt
  BY <1>5, <1>6, Becomes
<1>8. Fitting(r, w, t)
  BY <1>3, <1>4, <1>6, <1>7, OpenFits DEF Open
<1>9. SaveStep(r, w, t) /\ t.status \notin OK
  BY <1>2, <1>4, <1>5, <1>6, <1>7 DEF OK
<1> QED BY <1>3, <1>7, <1>8, <1>9, OneFits

\* A step is claimed: its basis is finished, so that its attempt is not a broken one.
LEMMA ClaimFits ==
    ASSUME JInv, AttemptsInv, Claim
    PROVE  AttemptsInv'
<1>1. PICK w : w = loop.w
  OBVIOUS
<1>2. PICK r \in Claimable :
         Verdict(r, w) = "valid" /\ SaveStep(r, w, ClaimedDoc(r, w, steps[r][w]))
  BY <1>1 DEF Claim
<1>3. /\ r \in Runs /\ r \in Listed /\ w \in Present(r) /\ task' = task
      /\ steps[r][w].status \in {"ready", "retrying"}
  BY <1>1, ClaimableIs DEF Claim
<1>4. PICK s, t : s = steps[r][w] /\ t = ClaimedDoc(r, w, s)
  OBVIOUS
<1>5. t \in Doc /\ t.status = "running" /\ s \in Doc /\ s.status \in Open
  BY <1>2, <1>3, <1>4, MayClaim, Attempts DEF Open
<1>6. t.attempt = s.attempt + 1
  <2>1. PICK b : b = Become(s, "running")
    OBVIOUS
  <2>2. b \in Doc /\ b.attempt = s.attempt
    BY <1>5, <2>1, Becomes DEF StepStatus
  <2>3. t = [b EXCEPT !.attempt = @ + 1, !.lease = Lease, !.key = CacheKey(r, w)]
    BY <1>4, <2>1 DEF ClaimedDoc
  <2> QED BY <2>2, <2>3 DEF Doc
<1>7. ~(w > 1 /\ ~Finished(steps[r][w - 1]))
  <2>1. SUFFICES ASSUME w > 1 PROVE Finished(steps[r][w - 1])
    OBVIOUS
  <2>2. w \in Steps
    BY <1>3, FileIs DEF JInv
  <2>3. w - 1 \in DependsOn(w)
    BY <2>1, <2>2, StepNumbers DEF Steps
  <2> QED BY <1>2, <2>3, VerdictValid DEF Finished
<1>8. w \notin Breaks(r, w)
  BY <1>7 DEF Breaks
<1>9. Paid(r, w, t)
  <2>1. Broken(r, w) = BrokenBefore(r, w)
    <3>1. Breaks(r, w) \ {w} = Breaks(r, w)
      BY <1>8
    <3> QED BY <3>1 DEF Broken, BrokenBefore
  <2>2. PICK a \in Nat, b \in Nat, bound \in Nat :
           a = s.attempt /\ b = Broken(r, w) /\ bound = Bound(w)
    BY <1>3, <1>4, Attempts
  <2>3. a + 1 + b <= bound
    BY <1>3, <1>4, <1>5, <2>1, <2>2, Attempts DEF Paid
  <2>4. t.attempt <= bound /\ t.attempt + b <= bound
    BY <1>6, <2>2, <2>3
  <2> QED BY <1>5, <2>2, <2>4 DEF Paid, Open
<1>10. ~Finished(steps[r][w])
  BY <1>4, <1>5 DEF Finished, Open, OK
<1>11. Fitting(r, w, t)
  BY <1>7, <1>9, <1>10 DEF Fitting
<1> QED BY <1>2, <1>3, <1>4, <1>5, <1>11, OneFits DEF OK

\* The end of execute.
LEMMA LeaveFits ==
    ASSUME JInv, AttemptsInv, NEW r \in Runs, NEW m \in Present(r), m = loop.w,
           NEW t \in Doc, SaveStep(r, m, t), Fitting(r, m, t),
           NEW q, NEW beating, Leave(q, beating)
    PROVE  AttemptsInv'
<1>1. PICK me : me.pc # "filtering" /\ SetTask(m, me)
  <2>1. Sleeping.pc # "filtering" /\ [Sleeping EXCEPT !.pc = "closing", !.run = q].pc # "filtering"
    BY DEF Sleeping
  <2> QED BY <2>1 DEF Leave
<1>2. task'[m] = me
  <2>1. m \in Workers
    BY Attempts
  <2> QED BY <1>1, <2>1 DEF SetTask, JInv, LoopTyped
<1> QED BY <1>1, <1>2, OneFits

\* execute finds the artifact.
LEMMA FoundInCacheFits ==
    ASSUME JInv, AttemptsInv, FoundInCache
    PROVE  AttemptsInv'
<1>1. PICK w, r : w = loop.w /\ r = loop.run
  OBVIOUS
<1>2. PICK s, t : s = steps[r][w] /\ t = [Become(s, "succeeded_cached") EXCEPT !.out = s.key]
  OBVIOUS
<1>3. loop.pc = "execute" /\ Art!Valid(s.key) /\ SaveStep(r, w, t) /\ Leave(r, TRUE)
  BY <1>1, <1>2 DEF FoundInCache, At
<1>4. r \in Runs /\ w \in Present(r) /\ s.status = "running"
  BY <1>1, <1>2, <1>3, RunOfLoop DEF JInv, LoopFits, InRun, LoopPC
<1>5. t \in Doc
  BY <1>2, <1>3, <1>4, MayFind DEF JInv
<1>6. s \in Doc
  BY <1>2, <1>4, Attempts
<1>7. t.status = "succeeded_cached" /\ t.attempt = s.attempt
  <2>1. PICK b : b = Become(s, "succeeded_cached")
    OBVIOUS
  <2>2. b \in Doc /\ b.status = "succeeded_cached" /\ b.attempt = s.attempt
    BY <1>6, <2>1, Becomes DEF StepStatus
  <2> QED BY <1>2, <2>1, <2>2 DEF Doc
<1>8. Live(r, w) /\ ~Finished(s) /\ t.status \in Used
  BY <1>2, <1>4, <1>7 DEF Live, Used, Finished, OK
<1>9. t.attempt + Broken(r, w) <= Bound(w) /\ t.attempt \in Nat
  BY <1>2, <1>4, <1>7, Attempts DEF Paid, Used
<1>10. Fitting(r, w, t)
  BY <1>2, <1>4, <1>8, <1>9, LiveFits
<1> QED BY <1>1, <1>3, <1>4, <1>5, <1>10, LeaveFits

\* What execute has kept is paid for.
LEMMA KeptDoc ==
    ASSUME JInv, AttemptsInv, loop.pc \in InFilter
    PROVE  /\ Me.run \in Runs /\ loop.w \in Present(Me.run) /\ Flying(Me.run, loop.w)
           /\ Me.doc \in Doc /\ Me.doc.attempt \in Nat /\ Me.doc.attempt <= Bound(loop.w)
           /\ Me.doc.attempt + Broken(Me.run, loop.w) <= Bound(loop.w)
           /\ Live(Me.run, loop.w) /\ ~Finished(steps[Me.run][loop.w])
<1>1. PICK w, r : w = loop.w /\ r = Me.run
  OBVIOUS
<1>2. r \in Runs /\ w \in Present(r) /\ Me.doc \in Doc /\ Flying(r, w) /\ Me = task[w]
  BY <1>1, FilterHere DEF InFlight, Flying, Me
<1>3. AttemptsFit(r, w)
  BY <1>2 DEF AttemptsInv
<1>4. PICK a \in Nat, b \in Nat, bound \in Nat :
         a = Me.doc.attempt /\ b = Broken(r, w) /\ bound = Bound(w)
  BY <1>2, Attempts DEF Doc
<1>5. a + b <= bound /\ steps[r][w].status \notin OK
  BY <1>2, <1>3, <1>4 DEF AttemptsFit
<1>6. a <= bound
  BY <1>4, <1>5
<1> QED BY <1>1, <1>2, <1>4, <1>5, <1>6 DEF Live, Finished

\* execute saves its document after the filter.
LEMMA SaveFits ==
    ASSUME JInv, AttemptsInv, Save
    PROVE  AttemptsInv'
<1>1. PICK w, r, d, beating : w = loop.w /\ r = Me.run /\ d = Me.doc /\ beating = Me.beating
  OBVIOUS
<1>2. PICK t : t = SavedDoc(d)
  OBVIOUS
<1>3. loop.pc = "save" /\ SaveStep(r, w, t) /\ Leave(r, beating)
  BY <1>1, <1>2 DEF Save, At
<1>4. /\ r \in Runs /\ w \in Present(r) /\ d \in Doc /\ d.attempt \in Nat
      /\ d.attempt + Broken(r, w) <= Bound(w) /\ Live(r, w) /\ ~Finished(steps[r][w])
  BY <1>1, <1>3, KeptDoc DEF InFilter
<1>5. t \in Doc
  <2>1. PICK me : me = Me
    OBVIOUS
  <2>2. InFlight(w, me) /\ (Lost = 0 => Art!Valid(me.doc.key)) /\ t = SavedDoc(me.doc)
    BY <1>1, <1>2, <1>3, <2>1, FilterHere DEF InFilter, JInv, LoopFits, Me
  <2> QED BY <2>2, MaySave DEF JInv
<1>6. t.status = "succeeded" /\ t.attempt = d.attempt
  <2>1. PICK b : b = Become(d, "succeeded")
    OBVIOUS
  <2>2. b \in Doc /\ b.status = "succeeded" /\ b.attempt = d.attempt
    BY <1>4, <2>1, Becomes DEF StepStatus
  <2>3. t = [b EXCEPT !.out = d.key]
    BY <1>2, <2>1 DEF SavedDoc
  <2> QED BY <2>2, <2>3 DEF Doc
<1>7. Fitting(r, w, t)
  BY <1>4, <1>6, LiveFits DEF Used, OK
<1> QED BY <1>1, <1>3, <1>4, <1>5, <1>7, LeaveFits

\* execute saves its document after a failure.
LEMMA SaveFailureFits ==
    ASSUME JInv, AttemptsInv, SaveFailure
    PROVE  AttemptsInv'
<1>1. PICK w, r, d, beating : w = loop.w /\ r = Me.run /\ d = Me.doc /\ beating = Me.beating
  OBVIOUS
<1>2. PICK t : t = FailedDoc(w, d)
  OBVIOUS
<1>3. loop.pc = "failing" /\ SaveStep(r, w, t) /\ Leave(r, beating)
  BY <1>1, <1>2 DEF SaveFailure, At
<1>4. /\ r \in Runs /\ w \in Present(r) /\ d \in Doc /\ d.attempt \in Nat
      /\ d.attempt <= Bound(w) /\ ~Finished(steps[r][w])
  BY <1>1, <1>3, KeptDoc DEF InFilter
<1>5. t \in Doc
  <2>1. PICK me : me = Me
    OBVIOUS
  <2>2. w \in Workers /\ InFlight(w, me) /\ ~Saving(w) /\ t = FailedDoc(w, me.doc)
    BY <1>1, <1>2, <1>3, <2>1, FilterHere DEF InFilter, Saving
  <2> QED BY <2>2, MayFail DEF JInv
<1>6. /\ t.attempt = d.attempt
      /\ t.status = "failed" \/ (t.status \in Open /\ t.attempt < MaxAttempts[w])
  <2>1. CASE AttemptsLeft(w, d)
    <3>1. PICK b : b = Become(d, "retrying")
      OBVIOUS
    <3>2. b \in Doc /\ b.status = "retrying" /\ b.attempt = d.attempt
      BY <1>4, <3>1, Becomes DEF StepStatus
    <3>3. t = [b EXCEPT !.wait = RetryDelay]
      BY <1>2, <2>1, <3>1 DEF FailedDoc
    <3> QED BY <2>1, <3>2, <3>3 DEF Doc, AttemptsLeft, Open
  <2>2. CASE ~AttemptsLeft(w, d)
    BY <1>2, <1>4, <2>2, Becomes DEF FailedDoc, StepStatus
  <2> QED BY <2>1, <2>2
<1>7. Fitting(r, w, t)
  BY <1>4, <1>6, LeftFits
<1> QED BY <1>1, <1>3, <1>4, <1>5, <1>7, LeaveFits

\* Only a commit and a loss change the artifacts.
LEMMA ArtifactsStay ==
    ASSUME [Next]_vars, ~FilterSucceeds, ~LoseArtifact
    PROVE  UNCHANGED art
<1>1. CASE Start \/ Crash \/ Tick \/ UNCHANGED vars
  BY <1>1 DEF Start, Crash, Stop, Tick, vars
<1>2. CASE GoOn
  <2>1. CASE RecoverRun \/ Derive \/ DeriveRaises \/ Recovered \/ Refused \/ Claimed
             \/ NothingToClaim \/ FilterFails \/ Update \/ SaveNonce
    BY <2>1 DEF RecoverRun, Derive, DeriveRaises, Recovered, Refused, Claimed, NothingToClaim,
                FilterFails, Update, SaveNonce, Go, SaveStatus, SavePipeline, Stop
  <2>2. CASE Repair \/ Recheck \/ Promote \/ Reset \/ Repromote
    BY <2>2 DEF Repair, Recheck, Promote, Reset, Repromote, SaveEach, SaveStep, Go
  <2>3. CASE Refuse \/ Claim \/ FoundInCache \/ CallFilter \/ Save \/ SaveFailure \/ CreateStep
    BY <2>3 DEF Refuse, Claim, FoundInCache, CallFilter, Save, SaveFailure, CreateStep, SaveStep
  <2> QED BY <1>2, <2>1, <2>2, <2>3 DEF GoOn
<1>3. ASSUME NEW w \in Workers, WakeUp(w) \/ Resume(w) \/ Heartbeat(w) \/ Close(w)
      PROVE  UNCHANGED art
  BY <1>3 DEF WakeUp, Resume, Heartbeat, Close, Go, SaveStep
<1>4. ASSUME NEW r \in Runs, Create(r) \/ Retry(r) PROVE UNCHANGED art
  BY <1>4 DEF Create, Retry, SavePipeline
<1> QED BY <1>1, <1>2, <1>3, <1>4 DEF Next

-----------------------------------------------------------------------------
(* The theorem. *)

\* Every step keeps the attempts within what is paid for.
LEMMA KeepAttempts ==
    ASSUME JInv, AttemptsInv, [Next]_vars
    PROVE  AttemptsInv'
<1>1. CASE Start \/ UNCHANGED vars
  BY <1>1, GoFits DEF Start, vars, files
<1>2. CASE Crash
  BY <1>2, StopFits DEF Crash
<1>3. CASE GoOn
  <2>1. CASE RecoverRun \/ Recovered \/ NothingToClaim \/ FilterFails
    BY <2>1, GoFits DEF RecoverRun, Recovered, NothingToClaim, FilterFails, Go, files
  <2>2. CASE Derive \/ Refused \/ Claimed \/ Update \/ SaveNonce
    BY <2>2, GoFits DEF Derive, Refused, Claimed, Update, SaveNonce, SaveStatus, SavePipeline
  <2>3. CASE DeriveRaises
    BY <2>3, StopFits DEF DeriveRaises
  <2>4. CASE Repair \/ Recheck \/ Promote \/ Reset \/ Repromote
    BY <2>4, RepairFits, RecheckFits, PromoteFits, ResetFits
  <2>5. CASE Refuse \/ Claim \/ FoundInCache \/ CallFilter
    BY <2>5, RefuseFits, ClaimFits, FoundInCacheFits, CallFilterFits
  <2>6. CASE FilterSucceeds \/ Save \/ SaveFailure \/ CreateStep
    BY <2>6, FilterSucceedsFits, SaveFits, SaveFailureFits, CreateStepFits
  <2> QED BY <1>3, <2>1, <2>2, <2>3, <2>4, <2>5, <2>6 DEF GoOn
<1>4. ASSUME NEW w \in Workers, WakeUp(w) \/ Resume(w) \/ Heartbeat(w) \/ Close(w)
      PROVE  AttemptsInv'
  <2>1. CASE WakeUp(w) \/ Resume(w)
    BY <2>1, GoFits DEF WakeUp, Resume, Go, files
  <2>2. CASE Heartbeat(w) \/ Close(w)
    BY <2>2, HeartbeatFits, CloseFits
  <2> QED BY <1>4, <2>1, <2>2
<1>5. ASSUME NEW r \in Runs, Create(r) \/ Retry(r) PROVE AttemptsInv'
  BY <1>5, GoFits DEF Create, Retry, SavePipeline
<1>6. CASE LoseArtifact
  BY <1>6, LoseArtifactFits
<1>7. CASE Tick
  BY <1>7, TickFits
<1> QED BY <1>1, <1>2, <1>3, <1>4, <1>5, <1>6, <1>7 DEF Next

\* Losses are bounded as the environment's.
LEMMA KeepLosses ==
    ASSUME JInv, Lost \in 0..MaxLosses, [Next]_vars
    PROVE  Lost' \in 0..MaxLosses
<1>1. DiskOK /\ commits \in Nat /\ MaxLosses \in Nat
  BY StepNumbers, BoundsAssumption DEF JInv, Files, FilesTyped
<1>2. CASE FilterSucceeds
  <2>1. PICK k : k = Me.doc.key
    OBVIOUS
  <2>2. loop.pc = "filter" /\ Art!Commit(k)
    BY <1>2, <2>1 DEF FilterSucceeds, At
  <2>3. ~Art!Valid(k)
    BY <2>1, <2>2, FilterHere DEF InFilter, InFlight, Saving
  <2> QED BY <1>1, <2>2, <2>3, CommitGrows
<1>3. CASE LoseArtifact
  <2>1. Lost' = Lost + 1 /\ Lost < MaxLosses
    BY <1>1, <1>3, LoseGrows DEF LoseArtifact, Lost
  <2> QED BY <1>1, <2>1
<1>4. CASE ~FilterSucceeds /\ ~LoseArtifact
  BY <1>4, ArtifactsStay, SameDisk DEF art
<1> QED BY <1>2, <1>3, <1>4

\* Types, and the attempts: a step is tried at most max_attempts times, and once more for
\* every output that was lost, whatever recovery, the promotions and the late save of an
\* execution make of its count.
THEOREM TypeOKCorrect == Spec => []TypeOK
<1>1. Init => JInv /\ AttemptsInv /\ Lost \in 0..MaxLosses
  <2>1. SUFFICES ASSUME Init PROVE JInv /\ AttemptsInv /\ Lost \in 0..MaxLosses
    OBVIOUS
  <2>2. JInv
    BY <2>1, InitFits
  <2>3. \A r \in Runs : Present(r) = {}
    BY <2>1 DEF Init, Present
  <2>4. artifacts = {} /\ commits = 0
    BY <2>1 DEF Init, Art!Init
  <2>5. Lost = 0
    BY <2>4, FS_EmptySet, SameCardinality DEF Lost, Art!Lost
  <2> QED BY <2>2, <2>3, <2>5, BoundsAssumption DEF AttemptsInv
<1>2. /\ JInv /\ AttemptsInv /\ Lost \in 0..MaxLosses /\ [Next]_vars
      => (JInv /\ AttemptsInv /\ Lost \in 0..MaxLosses)'
  BY KeepNextStep, KeepAttempts, KeepLosses
<1>3. JInv /\ AttemptsInv /\ Lost \in 0..MaxLosses => TypeOK
  <2>1. SUFFICES ASSUME JInv, AttemptsInv, Lost \in 0..MaxLosses PROVE TypeOK
    OBVIOUS
  <2>2. FilesTyped /\ LoopTyped
    BY <2>1 DEF JInv, Files
  <2>3. ASSUME NEW r \in Runs, NEW i \in Present(r)
        PROVE  steps[r][i] \in Doc /\ steps[r][i].attempt <= MaxAttempts[i] + Art!Lost
    BY <2>1, <2>2, <2>3, FilesOf DEF AttemptsInv, AttemptsFit, Paid, Bound, Lost
  <2>4. \A r \in Runs : Len(steps[r]) <= NSteps
    BY <2>2 DEF FilesTyped
  <2> QED BY <2>1, <2>2, <2>3, <2>4
      DEF TypeOK, FilesTyped, LoopTyped, Pipelines, Loops, Tasks, Lost
<1> QED BY <1>1, <1>2, <1>3, PTL DEF Spec

-----------------------------------------------------------------------------
(* Why no run is left behind.  A step that waits for another step must be  *)
(* looked at when that one is finished.  The promotion at the end of an    *)
(* execution does it, or, when the process ended or a retry began before,  *)
(* recovery or the retry; Unpromoted says who has yet to do it.            *)

Waiting == {"pending", "blocked"}

\* Every clock that something waits for runs, and the first step waits for no other one.
Timed(i, s) ==
    /\ s.status = "running" => s.lease # Null
    /\ s.status = "retrying" => s.wait # Null
    /\ DependsOn(i) = {} => s.status \notin Waiting

StepsTimed == \A r \in Runs : \A i \in Present(r) : Timed(i, steps[r][i])

\* A step of r that waits for another one waits for one that is not finished.
Justified(r) ==
    \A i \in Present(r) : steps[r][i].status \in Waiting =>
        \E j \in DependsOn(i) : steps[r][j].status \notin OK

\* The task that has the loop has yet to look at the waiting steps of r.
Promoting == {"repair", "recheck", "promote", "reset", "repromote"}
Unpromoted(r) ==
    \/ loop.pc \in Passing /\ r \in loop.todo
    \/ loop.pc \in Promoting /\ r = loop.run

WaitsJustified ==
    up /\ Lost = 0 => \A r \in Listed : Justified(r) \/ Closing(r) \/ Unpromoted(r)

-----------------------------------------------------------------------------
(* The clocks. *)

\* A file is written with its clock.
LEMMA TimedWritten ==
    ASSUME JInv, StepsTimed, NEW r \in Runs, NEW i \in Present(r), NEW s \in Doc,
           SaveStep(r, i, s), Timed(i, s)
    PROVE  StepsTimed'
<1>1. /\ \A q \in Runs : Present(q)' = Present(q)
      /\ \A q \in Runs : \A j \in Present(q) :
            steps'[q][j] = IF q = r /\ j = i THEN s ELSE steps[q][j]
  BY SaveFrame DEF JInv
<1>2. ASSUME NEW q \in Runs, NEW j \in Present(q) PROVE Timed(j, steps[q][j])'
  <2>1. Timed(j, steps'[q][j])
    BY <1>1, <1>2 DEF StepsTimed
  <2> QED BY <2>1 DEF Timed
<1> QED BY <1>1, <1>2 DEF StepsTimed

\* Files that keep their statuses and whether their clocks run.
LEMMA TimedKept ==
    ASSUME StepsTimed, \A q \in Runs : Present(q)' = Present(q),
           \A q \in Runs : \A j \in Present(q) :
              /\ steps'[q][j].status = steps[q][j].status
              /\ steps[q][j].lease # Null => steps'[q][j].lease # Null
              /\ steps[q][j].wait # Null => steps'[q][j].wait # Null
    PROVE  StepsTimed'
BY DEF StepsTimed, Timed

\* Where no step file is written, the clocks stay as they are.
LEMMA SameTimed ==
    ASSUME StepsTimed, UNCHANGED steps
    PROVE  StepsTimed'
BY DEF StepsTimed, Timed, Present

\* A loop over the files of a run writes one of them with its clock.
LEMMA EachTimed ==
    ASSUME JInv, StepsTimed, NEW new, NEW after, SaveEach(new, after), loop.run \in Runs,
           \A i \in Present(loop.run) : new[i] \in Doc /\ Timed(i, new[i])
    PROVE  StepsTimed'
<1>1. CASE UNCHANGED steps
  BY <1>1, SameTimed
<1>2. CASE ~UNCHANGED steps
  <2>1. PICK i \in Present(loop.run) : SaveStep(loop.run, i, new[i])
    BY <1>2 DEF SaveEach, Go, files
  <2>2. PICK r, s : r = loop.run /\ s = new[i]
    OBVIOUS
  <2> QED BY <2>1, <2>2, TimedWritten
<1> QED BY <1>1, <1>2

\* What a step becomes when it waits for nothing but a worker, or for an unfinished step.
LEMMA TimedBecome ==
    ASSUME NEW i, NEW s \in Doc, NEW st \in StepStatus \ {"running", "retrying"},
           st \in Waiting => DependsOn(i) # {}
    PROVE  Timed(i, Become(s, st))
BY Becomes DEF Timed

\* recover, first loop.
LEMMA TimedRepaired ==
    ASSUME NEW i, NEW s \in Doc, Timed(i, s)
    PROVE  Timed(i, RepairedDoc(i, s))
<1>1. PICK t : t = RepairedDoc(i, s)
  OBVIOUS
<1>2. CASE s.status = "running" /\ s.lease = 0 /\ ExpectedValid(s)
  <2>1. t = [s EXCEPT !.status = "succeeded_cached", !.out = s.key, !.lease = Null]
    BY <1>1, <1>2 DEF RepairedDoc
  <2>2. t.status = "succeeded_cached"
    BY <2>1 DEF Doc
  <2> QED BY <1>1, <2>2 DEF Timed, Waiting
<1>3. CASE s.status = "retrying" /\ s.wait = 0
  <2>1. t = [s EXCEPT !.status = "ready", !.wait = Null]
    BY <1>1, <1>3 DEF RepairedDoc, OK
  <2>2. t.status = "ready"
    BY <2>1 DEF Doc
  <2> QED BY <1>1, <2>2 DEF Timed, Waiting
<1>4. CASE ~ExpectedValid(s) /\ (s.status \in OK \/ (s.status = "running" /\ s.lease = 0))
  <2>1. PICK st \in {"ready", "failed"} : t = [Become(s, st) EXCEPT !.suspect = TRUE]
    BY <1>1, <1>4 DEF RepairedDoc, OK
  <2>2. PICK b : b = Become(s, st)
    OBVIOUS
  <2>3. b \in Doc /\ b.status = st
    <3>1. st \in StepStatus
      BY DEF StepStatus
    <3> QED BY <2>2, <3>1, Becomes
  <2>4. t.status = st
    BY <2>1, <2>2, <2>3 DEF Doc
  <2> QED BY <1>1, <2>4 DEF Timed, Waiting
<1>5. CASE /\ ~(s.status = "running" /\ s.lease = 0 /\ ExpectedValid(s))
           /\ ~(s.status = "retrying" /\ s.wait = 0)
           /\ ~(~ExpectedValid(s) /\ (s.status \in OK \/ (s.status = "running" /\ s.lease = 0)))
  <2>1. t = s
    BY <1>1, <1>5 DEF RepairedDoc
  <2> QED BY <1>1, <2>1
<1> QED BY <1>2, <1>3, <1>4, <1>5

\* recover, second loop.
LEMMA TimedRechecked ==
    ASSUME NEW i, NEW s \in Doc, Timed(i, s), NEW states, states # {} => DependsOn(i) # {}
    PROVE  Timed(i, RecheckedDoc(s, states))
<1>1. PICK t : t = RecheckedDoc(s, states)
  OBVIOUS
<1>2. \/ t = s \/ t = Become(s, "ready")
      \/ states # {} /\ t \in {Become(s, "blocked"), Become(s, "pending")}
  BY <1>1 DEF RecheckedDoc
<1> QED BY <1>1, <1>2, TimedBecome DEF StepStatus, Waiting

\* _promote and _promote_by_dependencies.
LEMMA TimedPromoted ==
    ASSUME JInv, StepsTimed, NEW r \in Runs, NEW i \in Present(r), NEW from
    PROVE  Timed(i, Promoted(r, from)[i])
<1>1. PICK s : s = steps[r][i]
  OBVIOUS
<1>2. s \in Doc /\ Timed(i, s)
  BY <1>1, FileIs DEF JInv, StepsTimed
<1>3. Promoted(r, from)[i] \in {s, Become(s, "ready")}
  BY <1>1 DEF Promoted
<1> QED BY <1>2, <1>3, TimedBecome DEF StepStatus, Waiting

\* The retry of the user.
LEMMA TimedRestarted ==
    ASSUME JInv, StepsTimed, NEW r \in Runs, NEW i \in Present(r)
    PROVE  Timed(i, Restarted(r)[i])
<1>1. PICK s, b, st : s = steps[r][i] /\ b = Become(s, st) /\ st = FirstStatus(i)
  OBVIOUS
<1>2. s \in Doc /\ Timed(i, s)
  BY <1>1, FileIs DEF JInv, StepsTimed
<1>3. b \in Doc /\ b.status = st
  <2>1. st \in StepStatus
    BY <1>1, FirstStatuses DEF StepStatus
  <2> QED BY <1>1, <1>2, <2>1, Becomes
<1>4. Restarted(r)[i] = IF s.status \in OK THEN s ELSE [b EXCEPT !.attempt = 0]
  BY <1>1 DEF Restarted, RestartedDoc
<1>5. [b EXCEPT !.attempt = 0].status = st
  BY <1>3 DEF Doc
<1> QED BY <1>1, <1>2, <1>4, <1>5, FirstStatuses DEF Timed, Waiting

\* A new step file: those of the run are all new, and the others stay.
LEMMA StepCreated ==
    ASSUME JInv, CreateStep, NEW r, r = loop.run
    PROVE  /\ r \in Runs /\ loop.pc = "create" /\ UNCHANGED <<pipelines, art, life, task>>
           /\ \A j \in Present(r)' : j \in Steps /\ 1..j \subseteq Present(r)' /\ steps'[r][j] = NewDoc(j)
           /\ \A q \in Runs : q # r => Present(q)' = Present(q) /\ steps'[q] = steps[q]
<1>1. PICK n : n = Len(steps[r])
  OBVIOUS
<1>2. /\ loop.pc = "create" /\ UNCHANGED <<pipelines, art, life, task>>
      /\ steps' = [steps EXCEPT ![r] = Append(@, NewDoc(n + 1))]
  BY <1>1 DEF CreateStep, At
<1>3. r \in Runs /\ Fresh(r) /\ n < NSteps /\ FilesTyped
  BY <1>1, <1>2, RunOfLoop DEF JInv, LoopFits, InRun, LoopPC, Files
<1>4. n \in Nat /\ n + 1 \in Steps /\ Present(r) = 1..n
  <2>1. n \in Nat /\ Present(r) = 1..n
    BY <1>1, <1>3, FilesOf
  <2> QED BY <1>3, <2>1, StepNumbers DEF Steps
<1>5. PICK new : new = NewDoc(n + 1)
  OBVIOUS
<1>6. new \in Doc
  BY <1>4, <1>5, NewDocs
<1>7. PICK g : g = Append(steps[r], new)
  OBVIOUS
<1>8. Len(g) = n + 1 /\ g[n + 1] = new /\ \A j \in 1..n : g[j] = steps[r][j]
  BY <1>1, <1>3, <1>4, <1>6, <1>7, FilesOf, AppendProperties
<1>9. \A q \in Runs : steps'[q] = IF q = r THEN g ELSE steps[q]
  BY <1>2, <1>3, <1>5, <1>7 DEF FilesTyped
<1>10. Present(r)' = 1..(n + 1) /\ \A q \in Runs : q # r => Present(q)' = Present(q)
  BY <1>3, <1>8, <1>9 DEF Present
<1>11. \A j \in 1..(n + 1) : j \in Steps /\ 1..j \subseteq 1..(n + 1) /\ steps'[r][j] = NewDoc(j)
  <2>1. \A j \in 1..n : steps[r][j] = NewDoc(j)
    BY <1>3, <1>4 DEF Fresh
  <2>2. \A j \in 1..(n + 1) : (j \in 1..n \/ j = n + 1) /\ 1..j \subseteq 1..(n + 1)
    BY <1>4
  <2>3. \A j \in 1..(n + 1) : j \in Steps
    BY <1>4, StepNumbers DEF Steps
  <2> QED BY <1>3, <1>5, <1>8, <1>9, <2>1, <2>2, <2>3
<1> QED BY <1>2, <1>3, <1>9, <1>10, <1>11

\* The steps that write one file, and the passing of time.
LEMMA TimedCreateStep ==
    ASSUME JInv, StepsTimed, CreateStep
    PROVE  StepsTimed'
<1>1. PICK r : r = loop.run
  OBVIOUS
<1>2. /\ \A j \in Present(r)' : j \in Steps /\ steps'[r][j] = NewDoc(j)
      /\ \A q \in Runs : q # r => Present(q)' = Present(q) /\ steps'[q] = steps[q]
  BY <1>1, StepCreated
<1>3. ASSUME NEW q \in Runs, NEW j \in Present(q)' PROVE Timed(j, steps'[q][j])
  <2>1. CASE q = r
    <3>1. steps'[q][j] = NewDoc(j)
      BY <1>2, <1>3, <2>1
    <3>2. NewDoc(j).status = FirstStatus(j)
      BY DEF NewDoc
    <3> QED BY <3>1, <3>2, FirstStatuses DEF Timed, Waiting
  <2>2. CASE q # r
    BY <1>2, <1>3, <2>2 DEF StepsTimed
  <2> QED BY <2>1, <2>2
<1> QED BY <1>3 DEF StepsTimed, Timed

\* Time passes: no clock is stopped by it, and no status changes.
LEMMA TimedTick ==
    ASSUME JInv, StepsTimed, Tick
    PROVE  /\ StepsTimed'
           /\ \A q \in Runs : Present(q)' = Present(q)
           /\ \A q \in Runs : \A j \in Present(q) : steps'[q][j].status = steps[q][j].status
<1>1. steps' = [r \in Runs |-> [i \in Present(r) |-> Ticked(steps[r][i])]]
  BY DEF Tick, Ticked
<1>2. FilesTyped
  BY DEF JInv, Files
<1>3. ASSUME NEW q \in Runs
      PROVE  Present(q)' = Present(q) /\ \A j \in Present(q) : steps'[q][j] = Ticked(steps[q][j])
  <2>1. PICK n \in Nat : n = Len(steps[q]) /\ Present(q) = 1..n
    BY <1>2, FilesOf
  <2>2. steps'[q] = [j \in 1..n |-> Ticked(steps[q][j])]
    BY <1>1, <2>1
  <2>3. Len(steps'[q]) = n
    BY <2>1, <2>2
  <2> QED BY <2>1, <2>2, <2>3 DEF Present
<1>4. ASSUME NEW q \in Runs, NEW j \in Present(q)
      PROVE  /\ steps'[q][j].status = steps[q][j].status
             /\ steps[q][j].lease # Null => steps'[q][j].lease # Null
             /\ steps[q][j].wait # Null => steps'[q][j].wait # Null
  <2>1. PICK s : s = steps[q][j]
    OBVIOUS
  <2>2. s \in Doc
    BY <1>2, <2>1, FilesOf
  <2>3. PICK t : t = Ticked(s)
    OBVIOUS
  <2>4. steps'[q][j] = t
    BY <1>3, <2>1, <2>3
  <2>5. t.status = s.status /\ t.lease = TimeLeft(s.lease) /\ t.wait = TimeLeft(s.wait)
    BY <2>2, <2>3 DEF Ticked, Doc
  <2>6. \A n \in Nat : TimeLeft(n) # Null
    BY NullAssumption DEF TimeLeft
  <2>7. s.lease \in Nat \cup {Null} /\ s.wait \in Nat \cup {Null}
    BY <2>2, StepNumbers DEF Doc
  <2> QED BY <2>1, <2>4, <2>5, <2>6, <2>7
<1> QED BY <1>3, <1>4, TimedKept

\* A heartbeat extends a lease.
LEMMA TimedHeartbeat ==
    ASSUME JInv, StepsTimed, NEW w \in Workers, Heartbeat(w)
    PROVE  /\ StepsTimed'
           /\ \A q \in Runs : Present(q)' = Present(q)
           /\ \A q \in Runs : \A j \in Present(q) : steps'[q][j].status = steps[q][j].status
<1>1. PICK r, s : r = task[w].run /\ s = steps[r][w]
  OBVIOUS
<1>2. /\ task[w].pc = "filtering"
      /\ IF s.status = "running" THEN SaveStep(r, w, [s EXCEPT !.lease = Lease])
                                 ELSE UNCHANGED files
  BY <1>1 DEF Heartbeat
<1>3. r \in Runs /\ w \in Present(r) /\ s \in Doc
  BY <1>1, <1>2, FileIs DEF JInv, TasksFit, TaskFits, InFlight
<1>4. CASE s.status = "running"
  <2>1. PICK t : t = [s EXCEPT !.lease = Lease]
    OBVIOUS
  <2>2. t \in Doc /\ t.status = s.status /\ t.lease = Lease
    <3>1. Lease \in 0..Lease
      BY StepNumbers
    <3> QED BY <1>3, <2>1, <3>1 DEF Doc
  <2>3. SaveStep(r, w, t)
    BY <1>2, <1>4, <2>1
  <2>4. Timed(w, s)
    BY <1>1, <1>3 DEF StepsTimed
  <2>5. Timed(w, t)
    BY <1>4, <2>2, <2>4, StepNumbers DEF Timed
  <2>6. /\ \A q \in Runs : Present(q)' = Present(q)
        /\ \A q \in Runs : \A j \in Present(q) :
              steps'[q][j] = IF q = r /\ j = w THEN t ELSE steps[q][j]
    BY <1>3, <2>2, <2>3, SaveFrame DEF JInv
  <2> QED BY <1>1, <1>3, <2>2, <2>3, <2>5, <2>6, TimedWritten
<1>5. CASE s.status # "running"
  BY <1>2, <1>5, SameTimed DEF files, Present
<1> QED BY <1>4, <1>5

\* A claim starts the lease.
LEMMA TimedClaim ==
    ASSUME JInv, StepsTimed, Claim
    PROVE  StepsTimed'
<1>1. PICK w : w = loop.w
  OBVIOUS
<1>2. PICK r \in Claimable :
         Verdict(r, w) = "valid" /\ SaveStep(r, w, ClaimedDoc(r, w, steps[r][w]))
  BY <1>1 DEF Claim
<1>3. /\ r \in Runs /\ r \in Listed /\ w \in Present(r)
      /\ steps[r][w].status \in {"ready", "retrying"} /\ steps[r][w] \in Doc
  BY <1>1, ClaimableIs, FileIs DEF JInv
<1>4. PICK s, t : s = steps[r][w] /\ t = ClaimedDoc(r, w, s)
  OBVIOUS
<1>5. t \in Doc /\ t.status = "running"
  BY <1>2, <1>3, <1>4, MayClaim DEF JInv
<1>6. t.lease = Lease
  <2>1. Become(s, "running") \in Doc
    BY <1>3, <1>4, Becomes DEF StepStatus
  <2> QED BY <1>4, <2>1 DEF ClaimedDoc, Doc
<1>7. Timed(w, t)
  BY <1>5, <1>6, StepNumbers DEF Timed, Waiting
<1> QED BY <1>2, <1>3, <1>4, <1>5, <1>7, TimedWritten

\* A step is refused because of one that it depends on.
LEMMA TimedRefuse ==
    ASSUME JInv, StepsTimed, Refuse
    PROVE  StepsTimed'
<1>1. PICK w : w = loop.w
  OBVIOUS
<1>2. PICK r \in Claimable :
         /\ Verdict(r, w) # "valid"
         /\ SaveStep(r, w, Become(steps[r][w],
                     IF Verdict(r, w) = "invalid" THEN "blocked" ELSE "pending"))
  BY <1>1 DEF Refuse
<1>3. r \in Runs /\ w \in Present(r) /\ steps[r][w] \in Doc
  BY <1>1, ClaimableIs, FileIs DEF JInv
<1>4. PICK s, st : s = steps[r][w] /\ st = IF Verdict(r, w) = "invalid" THEN "blocked" ELSE "pending"
  OBVIOUS
<1>5. DependsOn(w) # {}
  BY <1>2 DEF Verdict
<1>6. st \in StepStatus \ {"running", "retrying"}
  BY <1>4 DEF StepStatus
<1>7. Become(s, st) \in Doc /\ Timed(w, Become(s, st))
  BY <1>3, <1>4, <1>5, <1>6, Becomes, TimedBecome
<1> QED BY <1>2, <1>3, <1>4, <1>7, TimedWritten

\* The artifact is there already: the lease ends with the step.
LEMMA TimedFoundInCache ==
    ASSUME JInv, StepsTimed, FoundInCache
    PROVE  StepsTimed'
<1>1. PICK w, r, t : /\ w = loop.w /\ r = loop.run
                     /\ t = [Become(steps[r][w], "succeeded_cached") EXCEPT !.out = steps[r][w].key]
  OBVIOUS
<1>2. loop.pc = "execute" /\ Art!Valid(steps[r][w].key) /\ SaveStep(r, w, t)
  BY <1>1 DEF FoundInCache, At
<1>3. r \in Runs /\ w \in Present(r) /\ steps[r][w].status = "running" /\ Files
  BY <1>1, <1>2, RunOfLoop DEF JInv, LoopFits, InRun, LoopPC
<1>4. t \in Doc
  BY <1>1, <1>2, <1>3, MayFind
<1>5. t.status = "succeeded_cached"
  <2>1. PICK b : b = Become(steps[r][w], "succeeded_cached")
    OBVIOUS
  <2>2. b \in Doc /\ b.status = "succeeded_cached"
    BY <1>3, <2>1, FileIs, Becomes DEF StepStatus
  <2> QED BY <1>1, <2>1, <2>2 DEF Doc
<1>6. Timed(w, t)
  BY <1>5 DEF Timed, Waiting
<1> QED BY <1>2, <1>3, <1>4, <1>6, TimedWritten

\* The filter is through.
LEMMA TimedSave ==
    ASSUME JInv, StepsTimed, Save
    PROVE  StepsTimed'
<1>1. PICK w, r, d, t : w = loop.w /\ r = Me.run /\ d = Me.doc /\ t = SavedDoc(d)
  OBVIOUS
<1>2. loop.pc = "save" /\ SaveStep(r, w, t)
  BY <1>1 DEF Save, At
<1>3. InFlight(w, Me) /\ r \in Runs /\ w \in Present(r) /\ d \in Doc
  BY <1>1, <1>2, FilterHere DEF InFilter, InFlight
<1>4. Lost = 0 => Art!Valid(d.key)
  BY <1>1, <1>2 DEF JInv, LoopFits, Me
<1>5. t \in Doc
  BY <1>1, <1>3, <1>4, MaySave DEF JInv
<1>6. t.status = "succeeded"
  <2>1. PICK b : b = Become(d, "succeeded")
    OBVIOUS
  <2>2. b \in Doc /\ b.status = "succeeded"
    BY <1>3, <2>1, Becomes DEF StepStatus
  <2> QED BY <1>1, <2>1, <2>2 DEF SavedDoc, Doc
<1>7. Timed(w, t)
  BY <1>6 DEF Timed, Waiting
<1> QED BY <1>2, <1>3, <1>5, <1>7, TimedWritten

\* The filter has failed: the back-off starts, or the step has failed for good.
LEMMA TimedSaveFailure ==
    ASSUME JInv, StepsTimed, SaveFailure
    PROVE  StepsTimed'
<1>1. PICK w, r, d, t : w = loop.w /\ r = Me.run /\ d = Me.doc /\ t = FailedDoc(w, d)
  OBVIOUS
<1>2. loop.pc = "failing" /\ SaveStep(r, w, t)
  BY <1>1 DEF SaveFailure, At
<1>3. InFlight(w, Me) /\ r \in Runs /\ w \in Present(r) /\ d \in Doc /\ w \in Workers /\ ~Saving(w)
  BY <1>1, <1>2, FilterHere DEF InFilter, InFlight, Saving
<1>4. t \in Doc
  BY <1>1, <1>3, MayFail DEF JInv
<1>5. t.status = "failed" \/ (t.status = "retrying" /\ t.wait = RetryDelay)
  <2>1. PICK b, st : b = Become(d, st) /\ st = IF AttemptsLeft(w, d) THEN "retrying" ELSE "failed"
    OBVIOUS
  <2>2. b \in Doc /\ b.status = st
    BY <1>3, <2>1, Becomes DEF StepStatus
  <2> QED BY <1>1, <2>1, <2>2 DEF FailedDoc, Doc
<1>6. Timed(w, t)
  BY <1>5, StepNumbers DEF Timed, Waiting
<1> QED BY <1>2, <1>3, <1>4, <1>6, TimedWritten

\* The loops over the files of a run.
LEMMA TimedLoops ==
    ASSUME JInv, StepsTimed, Repair \/ Recheck \/ Promote \/ Reset \/ Repromote
    PROVE  StepsTimed'
<1>1. PICK r : r = loop.run
  OBVIOUS
<1>2. loop.pc \in Promoting
  BY DEF Repair, Recheck, Promote, Reset, Repromote, At, Promoting
<1>3. r \in Runs /\ Files
  BY <1>1, <1>2, RunOfLoop DEF Promoting, InRun, LoopPC, JInv
<1>4. \A i \in Present(r) : steps[r][i] \in Doc /\ Timed(i, steps[r][i])
  BY <1>3, FileIs DEF StepsTimed
<1>5. CASE Repair
  <2>1. PICK new, after : new = Repaired(r) /\ after = To("recheck")
    OBVIOUS
  <2>2. \A i \in Present(r) : new[i] \in Doc /\ Timed(i, new[i])
    <3>1. \A i \in Present(r) : new[i] = RepairedDoc(i, steps[r][i])
      BY <2>1 DEF Repaired
    <3> QED BY <1>3, <1>4, <3>1, MayRepair, TimedRepaired
  <2>3. SaveEach(new, after)
    BY <1>1, <1>5, <2>1 DEF Repair
  <2> QED BY <1>1, <1>3, <2>2, <2>3, EachTimed
<1>6. CASE Recheck
  <2>1. PICK new, after : new = Rechecked(r) /\ after = To("derive")
    OBVIOUS
  <2>2. ASSUME NEW i \in Present(r) PROVE new[i] \in Doc /\ Timed(i, new[i])
    <3>1. PICK states, s : s = steps[r][i] /\ states = {DepState(steps[r][j]) : j \in DependsOn(i)}
      OBVIOUS
    <3>2. new[i] = RecheckedDoc(s, states)
      BY <2>1, <3>1 DEF Rechecked
    <3>3. new[i] \in Doc
      BY <1>3, <3>1, <3>2, MayRecheck
    <3>4. states # {} => DependsOn(i) # {}
      BY <3>1
    <3>5. Timed(i, RecheckedDoc(s, states))
      BY <1>4, <3>1, <3>4, TimedRechecked
    <3> QED BY <3>2, <3>3, <3>5
  <2>3. SaveEach(new, after)
    BY <1>1, <1>6, <2>1 DEF Recheck
  <2> QED BY <1>1, <1>3, <2>2, <2>3, EachTimed
<1>7. ASSUME NEW from, NEW after, from \cap OK = {}, SaveEach(Promoted(r, from), after)
      PROVE  StepsTimed'
  <2>1. PICK new : new = Promoted(r, from)
    OBVIOUS
  <2>2. \A i \in Present(r) : new[i] \in Doc /\ Timed(i, new[i])
    BY <1>3, <1>7, <2>1, MayPromote, TimedPromoted
  <2> QED BY <1>1, <1>3, <1>7, <2>1, <2>2, EachTimed
<1>8. CASE Promote
  <2>1. PICK from : from = {"pending", "blocked"}
    OBVIOUS
  <2>2. SaveEach(Promoted(r, from), To("update")) /\ from \cap OK = {}
    BY <1>1, <1>8, <2>1 DEF Promote, OK
  <2> QED BY <1>7, <2>2
<1>9. CASE Repromote
  <2>1. PICK from : from = {"pending", "blocked", "retrying", "ready"}
    OBVIOUS
  <2>2. SaveEach(Promoted(r, from), Free) /\ from \cap OK = {}
    BY <1>1, <1>9, <2>1 DEF Repromote, OK
  <2> QED BY <1>7, <2>2
<1>10. CASE Reset
  <2>1. PICK new, after : new = Restarted(r) /\ after = To("repromote")
    OBVIOUS
  <2>2. \A i \in Present(r) : new[i] \in Doc /\ Timed(i, new[i])
    BY <1>3, <2>1, MayRestart, TimedRestarted
  <2>3. SaveEach(new, after)
    BY <1>1, <1>10, <2>1 DEF Reset
  <2> QED BY <1>1, <1>3, <2>2, <2>3, EachTimed
<1> QED BY <1>5, <1>6, <1>8, <1>9, <1>10

\* Every step keeps the clocks.
LEMMA KeepTimed ==
    ASSUME JInv, StepsTimed, [Next]_vars
    PROVE  StepsTimed'
<1>1. CASE Start \/ Crash \/ LoseArtifact \/ UNCHANGED vars
  BY <1>1, SameTimed DEF Start, Crash, Stop, LoseArtifact, vars, files
<1>2. CASE GoOn
  <2>1. CASE RecoverRun \/ Recovered \/ NothingToClaim \/ FilterFails \/ FilterSucceeds \/ CallFilter
    BY <2>1, SameTimed
    DEF RecoverRun, Recovered, NothingToClaim, FilterFails, FilterSucceeds, CallFilter, Go, files
  <2>2. CASE Derive \/ DeriveRaises \/ Refused \/ Claimed \/ Update \/ SaveNonce
    BY <2>2, SameTimed
    DEF Derive, DeriveRaises, Stop, Refused, Claimed, Update, SaveNonce, SaveStatus, SavePipeline,
        files
  <2>3. CASE Repair \/ Recheck \/ Promote \/ Reset \/ Repromote
    BY <2>3, TimedLoops
  <2>4. CASE Refuse \/ Claim \/ FoundInCache \/ Save \/ SaveFailure \/ CreateStep
    BY <2>4, TimedRefuse, TimedClaim, TimedFoundInCache, TimedSave, TimedSaveFailure,
       TimedCreateStep
  <2> QED BY <1>2, <2>1, <2>2, <2>3, <2>4 DEF GoOn
<1>3. ASSUME NEW w \in Workers, WakeUp(w) \/ Resume(w) \/ Heartbeat(w) \/ Close(w)
      PROVE  StepsTimed'
  <2>1. CASE WakeUp(w) \/ Resume(w) \/ Close(w)
    BY <2>1, SameTimed DEF WakeUp, Resume, Close, Go, files
  <2> QED BY <1>3, <2>1, TimedHeartbeat
<1>4. ASSUME NEW r \in Runs, Create(r) \/ Retry(r) PROVE StepsTimed'
  BY <1>4, SameTimed DEF Create, Retry, SavePipeline
<1>5. CASE Tick
  BY <1>5, TimedTick
<1> QED BY <1>1, <1>2, <1>3, <1>4, <1>5 DEF Next

-----------------------------------------------------------------------------
(* The steps that wait. *)

\* Nothing new waits in r, and nothing that r waits for is finished.
Calm(r) ==
    /\ Present(r)' = Present(r)
    /\ \A i \in Present(r) : /\ steps'[r][i].status \in Waiting => steps[r][i].status \in Waiting
                             /\ steps'[r][i].status \in OK => steps[r][i].status \in OK
    /\ Closing(r) => Closing(r)' \/ Unpromoted(r)'
    /\ Unpromoted(r) => Unpromoted(r)'

\* It is enough that a run is calm or dealt with.
LEMMA WaitsGo ==
    ASSUME JInv, WaitsJustified, up, Lost' = 0 => Lost = 0,
           Lost = 0 => \A r \in Listed' : \/ r \in Listed /\ Calm(r)
                                          \/ Justified(r)' \/ Closing(r)' \/ Unpromoted(r)'
    PROVE  WaitsJustified'
<1>1. SUFFICES ASSUME Lost = 0, NEW r \in Listed', r \in Listed, Calm(r)
               PROVE  Justified(r)' \/ Closing(r)' \/ Unpromoted(r)'
  BY DEF WaitsJustified
<1>2. Justified(r) \/ Closing(r) \/ Unpromoted(r)
  BY <1>1 DEF WaitsJustified
<1>3. ASSUME Justified(r) PROVE Justified(r)'
  <2>1. SUFFICES ASSUME NEW i \in Present(r), steps'[r][i].status \in Waiting
                 PROVE  \E j \in DependsOn(i) : steps'[r][j].status \notin OK
    BY <1>1 DEF Calm, Justified
  <2>2. PICK j \in DependsOn(i) : steps[r][j].status \notin OK
    BY <1>1, <1>3, <2>1 DEF Calm, Justified
  <2>3. j \in Present(r)
    BY <1>1, <2>1, <2>2, DepsPresent DEF JInv, Files, Listed
  <2> QED BY <1>1, <2>2, <2>3 DEF Calm
<1> QED BY <1>1, <1>2, <1>3 DEF Calm

\* No step file changes its status, and the task that has the loop leaves no run behind.
LEMMA QuietWaits ==
    ASSUME JInv, WaitsJustified, up, Lost' = 0 => Lost = 0,
           \A r \in Listed' \ Listed : steps[r] = <<>>,
           \A r \in Runs : Present(r)' = Present(r),
           \A r \in Runs : \A i \in Present(r) : steps'[r][i].status = steps[r][i].status,
           \A r \in Runs : /\ Closing(r) => Closing(r)' \/ Unpromoted(r)'
                           /\ Unpromoted(r) => Unpromoted(r)'
    PROVE  WaitsJustified'
<1>1. ASSUME NEW r \in Listed', r \notin Listed PROVE Justified(r)'
  <2>1. r \in Runs /\ steps[r] = <<>>
    BY <1>1 DEF Listed
  <2>2. Present(r)' = {}
    <3>1. Present(r) = {}
      BY <2>1 DEF Present
    <3> QED BY <2>1, <3>1
  <2> QED BY <2>2 DEF Justified
<1>2. \A r \in Listed' : r \in Listed => Calm(r)
  BY DEF Calm, Listed
<1> QED BY <1>1, <1>2, WaitsGo

\* A task goes on without a write, or writes the document of a run.
LEMMA GoWaits ==
    ASSUME JInv, WaitsJustified, up, UNCHANGED <<steps, art, task>>,
           \A r \in Listed' \ Listed : steps[r] = <<>>,
           \A r \in Runs : Unpromoted(r) => Unpromoted(r)'
    PROVE  WaitsJustified'
<1>1. Lost' = Lost
  BY SameDisk DEF art
<1>2. \A r \in Runs : /\ Present(r)' = Present(r) /\ (Closing(r) => Closing(r)')
                      /\ \A i \in Present(r) : steps'[r][i].status = steps[r][i].status
  BY DEF Present, Closing
<1> QED BY <1>1, <1>2, QuietWaits

\* The process ends.
LEMMA StopWaits ==
    ASSUME Stop
    PROVE  WaitsJustified'
BY DEF Stop, WaitsJustified

\* A pass over all runs begins.
LEMMA PassWaits ==
    ASSUME loop'.pc = "recover", Listed' \subseteq loop'.todo
    PROVE  WaitsJustified'
BY DEF WaitsJustified, Unpromoted, Passing

\* A loop over the files of a run writes one of them, or ends with nothing left to do.
LEMMA EachWaits ==
    ASSUME JInv, WaitsJustified, up, NEW new, NEW after, SaveEach(new, after),
           loop.pc \in Promoting,
           \A i \in Present(loop.run) : new[i] \in Doc,
           loop.pc \in Passing => after.pc \in Passing /\ after.todo = loop.todo,
           \/ after.pc \in Promoting /\ after.run = loop.run
           \/ (Lost = 0 /\ \A i \in Present(loop.run) : new[i] = steps[loop.run][i])
                 => Justified(loop.run)
    PROVE  WaitsJustified'
<1>1. PICK r : r = loop.run
  OBVIOUS
<1>2. r \in Runs
  BY <1>1, RunOfLoop DEF Promoting, InRun, LoopPC
<1>3. PICK changed : changed = {i \in Present(r) : new[i] # steps[r][i]}
  OBVIOUS
<1>4. CASE changed = {}
  <2>1. loop' = after /\ UNCHANGED <<steps, pipelines, art, task>>
    BY <1>1, <1>3, <1>4 DEF SaveEach, Go, files
  <2>2. Lost' = Lost /\ Listed' = Listed
    BY <2>1, SameDisk DEF art, Listed
  <2>3. \A q \in Runs : /\ Present(q)' = Present(q) /\ (Closing(q) => Closing(q)')
                        /\ Justified(q) => Justified(q)'
    BY <2>1 DEF Present, Closing, Justified
  <2>4. \A q \in Runs : q # r => Calm(q)
    <3>1. \A q \in Runs : q # r => (Unpromoted(q) => Unpromoted(q)')
      BY <1>1, <2>1 DEF Unpromoted
    <3> QED BY <2>1, <2>3, <3>1 DEF Calm
  <2>5. Lost = 0 => Justified(r)' \/ Unpromoted(r)'
    BY <1>1, <1>2, <1>3, <1>4, <2>1, <2>3 DEF Unpromoted
  <2>6. Lost = 0 => \A q \in Listed' : \/ q \in Listed /\ Calm(q)
                                       \/ Justified(q)' \/ Closing(q)' \/ Unpromoted(q)'
    BY <2>2, <2>4, <2>5 DEF Listed
  <2> QED BY <2>2, <2>6, WaitsGo
<1>5. CASE changed # {}
  <2>1. PICK i \in Present(r) : SaveStep(r, i, new[i]) /\ UNCHANGED <<loop, task>>
    BY <1>1, <1>3, <1>5 DEF SaveEach
  <2>2. PICK s : s = new[i]
    OBVIOUS
  <2>3. /\ UNCHANGED art /\ Listed' = Listed
        /\ \A q \in Runs : Present(q)' = Present(q)
        /\ \A q \in Runs : \A j \in Present(q) :
              steps'[q][j] = IF q = r /\ j = i THEN s ELSE steps[q][j]
    BY <1>1, <1>2, <2>1, <2>2, SaveFrame DEF JInv
  <2>4. Lost' = Lost
    BY <2>3, SameDisk DEF art
  <2>5. \A q \in Runs : q # r => Calm(q)
    BY <2>1, <2>3 DEF Calm, Unpromoted, Closing
  <2>6. Unpromoted(r)'
    BY <1>1, <2>1 DEF Unpromoted
  <2>7. \A q \in Listed' : \/ q \in Listed /\ Calm(q)
                           \/ Justified(q)' \/ Closing(q)' \/ Unpromoted(q)'
    BY <2>3, <2>5, <2>6 DEF Listed
  <2> QED BY <2>4, <2>7, WaitsGo
<1> QED BY <1>4, <1>5

\* As long as nothing is lost, what is finished is valid for the next step.
LEMMA ValidUnlessLost ==
    ASSUME JInv, Lost = 0, NEW r \in Runs, NEW j \in Present(r), steps[r][j].status \in OK
    PROVE  OutputValid(steps[r][j]) /\ DepState(steps[r][j]) = "valid"
<1>1. Finished(steps[r][j]) /\ DocFits(j, steps[r][j])
  BY FileIs DEF JInv
<1>2. steps[r][j] \in Doc
  BY FileIs DEF JInv
<1>3. ~steps[r][j].suspect
  BY <1>1, <1>2 DEF DocFits, OK, Doc
<1> QED BY <1>1, <1>3, FinishedExpected DEF Finished

\* A promotion that has nothing to write leaves only steps that wait for good reason.
LEMMA PromotedAll ==
    ASSUME JInv, Lost = 0, NEW r \in Runs, NEW from, Waiting \subseteq from,
           \A i \in Present(r) : Promoted(r, from)[i] = steps[r][i]
    PROVE  Justified(r)
<1>1. SUFFICES ASSUME NEW i \in Present(r), steps[r][i].status \in Waiting,
                      \A j \in DependsOn(i) : steps[r][j].status \in OK
               PROVE  FALSE
  BY DEF Justified
<1>2. \A j \in DependsOn(i) : j \in Present(r)
  BY FileIs DEF JInv
<1>3. DepsValid(r, i)
  BY <1>1, <1>2, ValidUnlessLost DEF DepsValid
<1>4. Promoted(r, from)[i] = Become(steps[r][i], "ready")
  BY <1>1, <1>3 DEF Promoted
<1>5. Become(steps[r][i], "ready").status = "ready"
  BY FileIs, Becomes DEF JInv, StepStatus
<1> QED BY <1>1, <1>4, <1>5 DEF Waiting

\* So does recovery.
LEMMA RecheckedAll ==
    ASSUME JInv, StepsTimed, Lost = 0, NEW r \in Runs,
           \A i \in Present(r) : Rechecked(r)[i] = steps[r][i]
    PROVE  Justified(r)
<1>1. SUFFICES ASSUME NEW i \in Present(r), steps[r][i].status \in Waiting,
                      \A j \in DependsOn(i) : steps[r][j].status \in OK
               PROVE  FALSE
  BY DEF Justified
<1>2. PICK s, states : s = steps[r][i] /\ states = {DepState(steps[r][j]) : j \in DependsOn(i)}
  OBVIOUS
<1>3. Rechecked(r)[i] = RecheckedDoc(s, states)
  BY <1>2 DEF Rechecked
<1>4. \A j \in DependsOn(i) : DepState(steps[r][j]) = "valid"
  <2>1. \A j \in DependsOn(i) : j \in Present(r)
    BY FileIs DEF JInv
  <2> QED BY <1>1, <2>1, ValidUnlessLost
<1>5. states = {"valid"}
  <2>1. DependsOn(i) # {}
    BY <1>1 DEF StepsTimed, Timed
  <2> QED BY <1>2, <1>4, <2>1
<1>6. RecheckedDoc(s, states) = Become(s, "ready")
  BY <1>1, <1>2, <1>5 DEF RecheckedDoc, Waiting
<1>7. Become(s, "ready").status = "ready"
  BY <1>2, FileIs, Becomes DEF JInv, StepStatus
<1> QED BY <1>1, <1>2, <1>3, <1>6, <1>7 DEF Waiting

\* The loops over the files of a run.
LEMMA WaitsLoops ==
    ASSUME JInv, StepsTimed, WaitsJustified, Repair \/ Recheck \/ Promote \/ Reset \/ Repromote
    PROVE  WaitsJustified'
<1>1. PICK r : r = loop.run
  OBVIOUS
<1>2. up /\ loop.pc \in Promoting
  BY DEF Repair, Recheck, Promote, Reset, Repromote, At, Promoting
<1>3. r \in Runs /\ Files
  BY <1>1, <1>2, RunOfLoop DEF Promoting, InRun, LoopPC, JInv
<1>4. \A pc \in LoopPC : To(pc).pc = pc /\ To(pc).run = r /\ To(pc).todo = loop.todo
  BY <1>1, LoopRecords DEF JInv
<1>5. CASE Repair
  <2>1. PICK new, after : new = Repaired(r) /\ after = To("recheck")
    OBVIOUS
  <2>2. \A i \in Present(r) : new[i] \in Doc
    BY <1>3, <2>1, MayRepair DEF Repaired
  <2>3. SaveEach(new, after)
    BY <1>1, <1>5, <2>1 DEF Repair
  <2>4. after.pc = "recheck" /\ after.run = r /\ after.todo = loop.todo
    BY <1>4, <2>1 DEF LoopPC
  <2> QED BY <1>1, <1>2, <2>2, <2>3, <2>4, EachWaits DEF Passing, Promoting
<1>6. CASE Recheck
  <2>1. PICK new, after : new = Rechecked(r) /\ after = To("derive")
    OBVIOUS
  <2>2. ASSUME NEW i \in Present(r) PROVE new[i] \in Doc
    <3>1. new[i] = RecheckedDoc(steps[r][i], {DepState(steps[r][j]) : j \in DependsOn(i)})
      BY <2>1 DEF Rechecked
    <3> QED BY <1>3, <3>1, MayRecheck
  <2>3. SaveEach(new, after)
    BY <1>1, <1>6, <2>1 DEF Recheck
  <2>4. after.pc = "derive" /\ after.todo = loop.todo
    BY <1>4, <2>1 DEF LoopPC
  <2>5. Lost = 0 /\ (\A i \in Present(r) : new[i] = steps[r][i]) => Justified(r)
    BY <1>3, <2>1, RecheckedAll
  <2> QED BY <1>1, <1>2, <2>2, <2>3, <2>4, <2>5, EachWaits DEF Passing
<1>7. CASE Promote
  <2>1. PICK from : from = {"pending", "blocked"}
    OBVIOUS
  <2>2. PICK new, after : new = Promoted(r, from) /\ after = To("update")
    OBVIOUS
  <2>3. SaveEach(new, after) /\ loop.pc = "promote"
    BY <1>1, <1>7, <2>1, <2>2 DEF Promote, At
  <2>4. \A i \in Present(r) : new[i] \in Doc
    BY <1>3, <2>1, <2>2, MayPromote DEF OK
  <2>5. Lost = 0 /\ (\A i \in Present(r) : new[i] = steps[r][i]) => Justified(r)
    BY <1>3, <2>1, <2>2, PromotedAll DEF Waiting
  <2> QED BY <1>1, <1>2, <2>3, <2>4, <2>5, EachWaits DEF Passing
<1>8. CASE Reset
  <2>1. PICK new, after : new = Restarted(r) /\ after = To("repromote")
    OBVIOUS
  <2>2. \A i \in Present(r) : new[i] \in Doc
    BY <1>3, <2>1, MayRestart
  <2>3. SaveEach(new, after) /\ loop.pc = "reset"
    BY <1>1, <1>8, <2>1 DEF Reset, At
  <2>4. after.pc = "repromote" /\ after.run = r
    BY <1>4, <2>1 DEF LoopPC
  <2> QED BY <1>1, <1>2, <2>2, <2>3, <2>4, EachWaits DEF Passing, Promoting
<1>9. CASE Repromote
  <2>1. PICK from : from = {"pending", "blocked", "retrying", "ready"}
    OBVIOUS
  <2>2. PICK new, after : new = Promoted(r, from) /\ after = Free
    OBVIOUS
  <2>3. SaveEach(new, after) /\ loop.pc = "repromote"
    BY <1>1, <1>9, <2>1, <2>2 DEF Repromote, At
  <2>4. \A i \in Present(r) : new[i] \in Doc
    BY <1>3, <2>1, <2>2, MayPromote DEF OK
  <2>5. Lost = 0 /\ (\A i \in Present(r) : new[i] = steps[r][i]) => Justified(r)
    BY <1>3, <2>1, <2>2, PromotedAll DEF Waiting
  <2> QED BY <1>1, <1>2, <2>3, <2>4, <2>5, EachWaits DEF Passing
<1> QED BY <1>5, <1>6, <1>7, <1>8, <1>9

\* The end of execute: its run is about to be closed, or to be promoted.
LEMMA LeaveWaits ==
    ASSUME JInv, WaitsJustified, up, loop.pc \in {"execute", "save", "failing"},
           NEW w, w = loop.w, NEW r, r = loop.run,
           w \in Present(r), NEW s \in Doc, SaveStep(r, w, s),
           NEW beating \in BOOLEAN, Leave(r, beating), task[w].pc # "closing"
    PROVE  WaitsJustified'
<1>1. r \in Runs /\ w \in Workers
  BY RunOfLoop, WorkerHere DEF InRun, LoopPC, Worked
<1>2. PICK closing : closing = [Sleeping EXCEPT !.pc = "closing", !.run = r]
  OBVIOUS
<1>3. closing.pc = "closing" /\ closing.run = r
  BY <1>2 DEF Sleeping
<1>4. To("promote").pc = "promote" /\ To("promote").run = r
  BY LoopRecords DEF JInv, LoopPC
<1>5. \/ task' = [task EXCEPT ![w] = closing]
      \/ task' = [task EXCEPT ![w] = Sleeping] /\ loop' = To("promote")
  BY <1>2 DEF Leave, SetTask
<1>6. task \in [Workers -> Tasks]
  BY DEF JInv, LoopTyped
<1>7. Closing(r)' \/ Unpromoted(r)'
  <2>1. CASE task' = [task EXCEPT ![w] = closing]
    <3>1. task'[w] = closing
      BY <1>1, <1>6, <2>1
    <3> QED BY <1>1, <1>3, <3>1 DEF Closing
  <2>2. CASE loop' = To("promote")
    BY <1>4, <2>2 DEF Unpromoted, Promoting
  <2> QED BY <1>5, <2>1, <2>2
<1>8. \A q : Closing(q) => Closing(q)'
  <2>1. \A v \in Workers : task[v].pc = "closing" => task'[v] = task[v]
    BY <1>1, <1>5, <1>6
  <2> QED BY <2>1 DEF Closing
<1>9. \A q : ~Unpromoted(q)
  BY DEF Unpromoted, Passing, Promoting
<1>10. /\ UNCHANGED art /\ Listed' = Listed
       /\ \A q \in Runs : Present(q)' = Present(q)
       /\ \A q \in Runs : \A j \in Present(q) :
             steps'[q][j] = IF q = r /\ j = w THEN s ELSE steps[q][j]
  BY <1>1, SaveFrame DEF JInv
<1>11. Lost' = Lost
  BY <1>10, SameDisk DEF art
<1>12. \A q \in Listed' : \/ q \in Listed /\ Calm(q)
                          \/ Justified(q)' \/ Closing(q)' \/ Unpromoted(q)'
  BY <1>7, <1>8, <1>9, <1>10 DEF Calm, Listed
<1> QED BY <1>11, <1>12, WaitsGo

\* The three ends of execute.
LEMMA WaitsEnds ==
    ASSUME JInv, WaitsJustified, FoundInCache \/ Save \/ SaveFailure
    PROVE  WaitsJustified'
<1>1. PICK w, r : w = loop.w /\ r = loop.run
  OBVIOUS
<1>2. up
  BY DEF FoundInCache, Save, SaveFailure, At
<1>3. CASE FoundInCache
  <2>1. PICK t : t = [Become(steps[r][w], "succeeded_cached") EXCEPT !.out = steps[r][w].key]
    OBVIOUS
  <2>2. loop.pc = "execute" /\ Art!Valid(steps[r][w].key) /\ SaveStep(r, w, t) /\ Leave(r, TRUE)
    BY <1>1, <1>3, <2>1 DEF FoundInCache, At
  <2>3. r \in Runs /\ w \in Present(r) /\ steps[r][w].status = "running" /\ Files
    BY <1>1, <2>2, RunOfLoop DEF JInv, LoopFits, InRun, LoopPC
  <2>4. t \in Doc
    BY <2>1, <2>2, <2>3, MayFind
  <2>5. task[w].pc # "closing"
    BY <1>1, <2>2, WorkerHere DEF Worked, InFilter
  <2> QED BY <1>1, <1>2, <2>2, <2>3, <2>4, <2>5, LeaveWaits
<1>4. ASSUME loop.pc \in {"save", "failing"}
      PROVE  /\ r = Me.run /\ r \in Runs /\ w \in Present(r) /\ InFlight(w, Me) /\ w \in Workers
             /\ task[w].pc # "closing" /\ Me.beating \in BOOLEAN
  BY <1>1, <1>4, FilterHere DEF InFilter, Me, Tasks
<1>5. CASE Save
  <2>1. PICK t, beating : t = SavedDoc(Me.doc) /\ beating = Me.beating
    OBVIOUS
  <2>2. loop.pc = "save" /\ SaveStep(Me.run, w, t) /\ Leave(Me.run, beating)
    BY <1>1, <1>5, <2>1 DEF Save, At
  <2>3. Lost = 0 => Art!Valid(Me.doc.key)
    BY <2>2 DEF JInv, LoopFits, Me
  <2>4. t \in Doc
    BY <1>4, <2>1, <2>2, <2>3, MaySave DEF JInv
  <2> QED BY <1>1, <1>2, <1>4, <2>1, <2>2, <2>4, LeaveWaits
<1>6. CASE SaveFailure
  <2>1. PICK t, beating : t = FailedDoc(w, Me.doc) /\ beating = Me.beating
    OBVIOUS
  <2>2. loop.pc = "failing" /\ SaveStep(Me.run, w, t) /\ Leave(Me.run, beating)
    BY <1>1, <1>6, <2>1 DEF SaveFailure, At
  <2>3. ~Saving(w)
    BY <2>2 DEF Saving
  <2>4. t \in Doc
    BY <1>4, <2>1, <2>2, <2>3, MayFail DEF JInv
  <2> QED BY <1>1, <1>2, <1>4, <2>1, <2>2, <2>4, LeaveWaits
<1> QED BY <1>3, <1>5, <1>6

\* A claim, which no other step waits for.
LEMMA WaitsClaim ==
    ASSUME JInv, WaitsJustified, Claim
    PROVE  WaitsJustified'
<1>1. PICK w : w = loop.w
  OBVIOUS
<1>2. PICK r \in Claimable :
         Verdict(r, w) = "valid" /\ SaveStep(r, w, ClaimedDoc(r, w, steps[r][w]))
  BY <1>1 DEF Claim
<1>3. /\ r \in Runs /\ r \in Listed /\ w \in Present(r)
      /\ steps[r][w].status \in {"ready", "retrying"}
  BY <1>1, ClaimableIs
<1>4. PICK t : t = ClaimedDoc(r, w, steps[r][w])
  OBVIOUS
<1>5. t \in Doc /\ t.status = "running"
  BY <1>2, <1>3, <1>4, MayClaim DEF JInv
<1>6. /\ UNCHANGED art /\ Listed' = Listed
      /\ \A q \in Runs : Present(q)' = Present(q)
      /\ \A q \in Runs : \A j \in Present(q) :
            steps'[q][j] = IF q = r /\ j = w THEN t ELSE steps[q][j]
  BY <1>2, <1>3, <1>4, <1>5, SaveFrame DEF JInv
<1>7. Lost' = Lost
  BY <1>6, SameDisk DEF art
<1>8. up /\ loop.pc = "claim" /\ UNCHANGED task
  BY DEF Claim, At
<1>9. \A q : ~Unpromoted(q)
  BY <1>8 DEF Unpromoted, Passing, Promoting
<1>10. \A q \in Listed' : q \in Listed /\ Calm(q)
  BY <1>5, <1>6, <1>8, <1>9 DEF Calm, Listed, Closing, Waiting, OK
<1> QED BY <1>7, <1>8, <1>10, WaitsGo

\* As long as nothing is lost, no step is refused.
LEMMA WaitsRefuse ==
    ASSUME JInv, WaitsJustified, Refuse
    PROVE  WaitsJustified'
<1>1. PICK w : w = loop.w
  OBVIOUS
<1>2. PICK r \in Claimable :
         /\ Verdict(r, w) # "valid"
         /\ SaveStep(r, w, Become(steps[r][w],
                     IF Verdict(r, w) = "invalid" THEN "blocked" ELSE "pending"))
  BY <1>1 DEF Refuse
<1>3. r \in Runs /\ w \in Present(r) /\ steps[r][w].status \in {"ready", "retrying"}
  BY <1>1, ClaimableIs
<1>4. Lost # 0
  BY <1>2, <1>3, RefusedByLoss DEF JInv
<1>5. Lost' = Lost
  BY <1>2, SameDisk DEF SaveStep, art
<1> QED BY <1>4, <1>5 DEF WaitsJustified

\* A new step waits for a new one.
LEMMA WaitsCreateStep ==
    ASSUME JInv, WaitsJustified, CreateStep
    PROVE  WaitsJustified'
<1>1. PICK r : r = loop.run
  OBVIOUS
<1>2. /\ r \in Runs /\ loop.pc = "create" /\ UNCHANGED <<pipelines, art, life, task>>
      /\ \A j \in Present(r)' : j \in Steps /\ 1..j \subseteq Present(r)' /\ steps'[r][j] = NewDoc(j)
      /\ \A q \in Runs : q # r => Present(q)' = Present(q) /\ steps'[q] = steps[q]
  BY <1>1, StepCreated
<1>3. up
  BY DEF CreateStep, At
<1>4. Lost' = Lost /\ Listed' = Listed
  BY <1>2, SameDisk DEF art, Listed
<1>5. Justified(r)'
  <2>1. SUFFICES ASSUME NEW i \in Present(r)', steps'[r][i].status \in Waiting
                 PROVE  \E j \in DependsOn(i) : steps'[r][j].status \notin OK
    BY DEF Justified
  <2>2. i \in Steps /\ 1..i \subseteq Present(r)' /\ NewDoc(i).status \in Waiting
    BY <1>2, <2>1
  <2>3. FirstStatus(i) \in Waiting
    BY <2>2 DEF NewDoc
  <2>4. PICK j : j \in DependsOn(i)
    BY <2>3, FirstStatuses DEF Waiting
  <2>5. j \in Steps /\ j = i - 1
    BY <2>4, StepNumbers
  <2>6. j \in 1..i
    BY <2>2, <2>5, StepNumbers DEF Steps
  <2>7. steps'[r][j] = NewDoc(j)
    BY <1>2, <2>2, <2>6
  <2>8. NewDoc(j).status \in {"ready", "pending"}
    BY <2>5, NewDocs
  <2> QED BY <2>4, <2>7, <2>8 DEF OK
<1>6. \A q : ~Unpromoted(q)
  BY <1>2 DEF Unpromoted, Passing, Promoting
<1>7. \A q \in Runs : q # r => Calm(q)
  BY <1>2, <1>6 DEF Calm, Closing
<1>8. \A q \in Listed' : \/ q \in Listed /\ Calm(q)
                         \/ Justified(q)' \/ Closing(q)' \/ Unpromoted(q)'
  BY <1>4, <1>5, <1>7 DEF Listed
<1> QED BY <1>3, <1>4, <1>8, WaitsGo

\* The execution goes on after its heartbeat, with the promotion.
LEMMA WaitsClose ==
    ASSUME JInv, WaitsJustified, NEW w \in Workers, Close(w)
    PROVE  WaitsJustified'
<1>1. /\ up /\ loop.pc = "free" /\ UNCHANGED <<files, art>>
      /\ task' = [task EXCEPT ![w] = Sleeping]
      /\ loop' = [Free EXCEPT !.pc = "promote", !.w = w, !.run = task[w].run]
  BY DEF Close, SetTask, At
<1>2. task \in [Workers -> Tasks]
  BY DEF JInv, LoopTyped
<1>3. loop'.pc = "promote" /\ loop'.run = task[w].run
  BY <1>1 DEF Free
<1>4. Lost' = Lost /\ Listed' = Listed
  BY <1>1, SameDisk DEF art, files, Listed
<1>5. ASSUME NEW q \in Runs, Closing(q) PROVE Closing(q)' \/ Unpromoted(q)'
  <2>1. PICK v \in Workers : task[v].pc = "closing" /\ task[v].run = q
    BY <1>5 DEF Closing
  <2>2. CASE v = w
    BY <1>3, <2>1, <2>2 DEF Unpromoted, Promoting
  <2>3. CASE v # w
    BY <1>1, <1>2, <2>1, <2>3 DEF Closing
  <2> QED BY <2>2, <2>3
<1>6. \A q : ~Unpromoted(q)
  BY <1>1 DEF Unpromoted, Passing, Promoting
<1>7. \A q \in Runs : /\ Present(q)' = Present(q)
                      /\ \A i \in Present(q) : steps'[q][i].status = steps[q][i].status
  BY <1>1 DEF Present, files
<1> QED BY <1>1, <1>4, <1>5, <1>6, <1>7, QuietWaits

\* The filter is called: its worker slept.
LEMMA WaitsCallFilter ==
    ASSUME JInv, WaitsJustified, CallFilter
    PROVE  WaitsJustified'
<1>1. PICK w : w = loop.w
  OBVIOUS
<1>2. /\ up /\ loop.pc = "execute" /\ UNCHANGED <<files, art, life>>
      /\ \E me : task' = [task EXCEPT ![w] = me]
  BY <1>1 DEF CallFilter, At, SetTask
<1>3. task[w].pc = "sleeping" /\ task \in [Workers -> Tasks]
  BY <1>1, <1>2, WorkerHere DEF Worked, InFilter, JInv, LoopTyped
<1>4. Lost' = Lost /\ Listed' = Listed
  BY <1>2, SameDisk DEF art, files, Listed
<1>5. \A q \in Runs : Closing(q) => Closing(q)'
  <2>1. \A v \in Workers : task[v].pc = "closing" => task'[v] = task[v]
    BY <1>2, <1>3
  <2> QED BY <2>1 DEF Closing
<1>6. \A q : ~Unpromoted(q)
  BY <1>2 DEF Unpromoted, Passing, Promoting
<1>7. \A q \in Runs : /\ Present(q)' = Present(q)
                      /\ \A i \in Present(q) : steps'[q][i].status = steps[q][i].status
  BY <1>2 DEF Present, files
<1> QED BY <1>2, <1>4, <1>5, <1>6, <1>7, QuietWaits

\* A heartbeat, and the passing of time.
LEMMA WaitsClocks ==
    ASSUME JInv, StepsTimed, WaitsJustified,
           Tick \/ \E w \in Workers : Heartbeat(w)
    PROVE  WaitsJustified'
<1>1. UNCHANGED <<pipelines, art, life, loop>>
  <2>1. CASE Tick
    BY <2>1 DEF Tick
  <2>2. ASSUME NEW w \in Workers, Heartbeat(w) PROVE UNCHANGED <<pipelines, art, life, loop>>
    BY <2>2 DEF Heartbeat, SaveStep, files
  <2> QED BY <2>1, <2>2
<1>2. Lost' = Lost /\ Listed' = Listed /\ up' = up
  BY <1>1, SameDisk DEF art, Listed, life
<1>3. \A q \in Runs : /\ Present(q)' = Present(q)
                      /\ \A i \in Present(q) : steps'[q][i].status = steps[q][i].status
  BY TimedTick, TimedHeartbeat
<1>4. \A q \in Runs : Closing(q) => Closing(q)'
  <2>1. CASE Tick
    BY <2>1 DEF Tick, Closing
  <2>2. ASSUME NEW w \in Workers, Heartbeat(w), NEW q PROVE Closing(q) => Closing(q)'
    <3>1. task[w].pc = "filtering" /\ \E me : task' = [task EXCEPT ![w] = me] \/ task' = task
      BY <2>2 DEF Heartbeat, SetTask
    <3>2. task \in [Workers -> Tasks]
      BY DEF JInv, LoopTyped
    <3>3. \A v \in Workers : task[v].pc = "closing" => task'[v] = task[v]
      BY <3>1, <3>2
    <3> QED BY <3>3 DEF Closing
  <2> QED BY <2>1, <2>2
<1>5. \A q \in Runs : Unpromoted(q) => Unpromoted(q)'
  BY <1>1 DEF Unpromoted
<1>6. CASE up
  BY <1>2, <1>3, <1>4, <1>5, <1>6, QuietWaits
<1>7. CASE ~up
  BY <1>2, <1>7 DEF WaitsJustified
<1> QED BY <1>6, <1>7

\* An artifact is committed.
LEMMA WaitsFilterSucceeds ==
    ASSUME JInv, WaitsJustified, FilterSucceeds
    PROVE  WaitsJustified'
<1>1. PICK k : k = Me.doc.key
  OBVIOUS
<1>2. up /\ loop.pc = "filter" /\ Art!Commit(k) /\ UNCHANGED <<files, task>>
  BY <1>1 DEF FilterSucceeds, At
<1>3. ~Art!Valid(k)
  BY <1>1, <1>2, FilterHere DEF InFilter, InFlight, Saving
<1>4. Lost' = Lost
  BY <1>2, <1>3, CommitGrows, StepNumbers DEF JInv, Files, FilesTyped
<1>5. \A q : ~Unpromoted(q)
  BY <1>2 DEF Unpromoted, Passing, Promoting
<1>6. \A q \in Runs : /\ Present(q)' = Present(q) /\ (Closing(q) => Closing(q)')
                      /\ \A i \in Present(q) : steps'[q][i].status = steps[q][i].status
  BY <1>2 DEF Present, files, Closing
<1>7. Listed' = Listed
  BY <1>2 DEF files, Listed
<1> QED BY <1>2, <1>4, <1>5, <1>6, <1>7, QuietWaits

\* The document of a run is written: no other run comes into being.
LEMMA ListedGrows ==
    ASSUME JInv, NEW r, NEW p, NEW after, SavePipeline(r, p, after)
    PROVE  /\ Listed' \subseteq Listed \cup {r}
           /\ loop' = after /\ UNCHANGED <<steps, art, life, task>>
<1>1. /\ pipelines' = [pipelines EXCEPT ![r] = p]
      /\ loop' = after /\ UNCHANGED <<steps, art, life, task>>
  BY DEF SavePipeline
<1>2. \A q \in Runs : q # r => pipelines'[q] = pipelines[q]
  BY <1>1 DEF JInv, Files, FilesTyped
<1> QED BY <1>1, <1>2 DEF Listed

\* A task goes on from a place where it leaves no run behind.
LEMMA IdleWaits ==
    ASSUME JInv, WaitsJustified, up, UNCHANGED <<steps, art, task>>,
           \A r \in Listed' \ Listed : steps[r] = <<>>,
           loop.pc \notin Passing \cup Promoting \/ (loop.pc = "recover" /\ loop.todo = {})
    PROVE  WaitsJustified'
<1>1. \A r : ~Unpromoted(r)
  BY DEF Unpromoted, Passing, Promoting
<1> QED BY <1>1, GoWaits

\* The steps that write no step file.
LEMMA WaitsGoOn ==
    ASSUME JInv, WaitsJustified,
           \/ RecoverRun \/ Recovered \/ NothingToClaim \/ FilterFails
           \/ Derive \/ Refused \/ Claimed \/ Update \/ SaveNonce
    PROVE  WaitsJustified'
<1>1. up
  BY DEF RecoverRun, Recovered, NothingToClaim, FilterFails, Derive, Refused, Claimed, Update,
         SaveNonce, At
<1>2. CASE Recovered \/ NothingToClaim \/ FilterFails
  <2>1. /\ UNCHANGED <<pipelines, steps, art, task>>
        /\ loop.pc \in {"claim", "filter"} \/ (loop.pc = "recover" /\ loop.todo = {})
    BY <1>2 DEF Recovered, NothingToClaim, FilterFails, Go, files, At
  <2>2. Listed' = Listed
    BY <2>1 DEF Listed
  <2>3. loop.pc \notin Passing \cup Promoting \/ (loop.pc = "recover" /\ loop.todo = {})
    BY <2>1 DEF Passing, Promoting
  <2> QED BY <1>1, <2>1, <2>2, <2>3, IdleWaits
<1>3. CASE RecoverRun
  <2>1. PICK r \in loop.todo : Go([loop EXCEPT !.pc = "repair", !.run = r, !.todo = @ \ {r}])
    BY <1>3 DEF RecoverRun
  <2>2. loop \in Loops /\ loop.pc = "recover" /\ UNCHANGED <<pipelines, steps, art, task>>
    BY <1>3 DEF JInv, LoopTyped, RecoverRun, At, Go, files
  <2>3. loop'.pc = "repair" /\ loop'.run = r /\ loop'.todo = loop.todo \ {r}
    BY <2>1, <2>2 DEF Go, Loops
  <2>4. \A q : Unpromoted(q) => Unpromoted(q)'
    BY <2>2, <2>3 DEF Unpromoted, Passing, Promoting
  <2>5. Listed' = Listed
    BY <2>2 DEF Listed
  <2> QED BY <1>1, <2>2, <2>4, <2>5, GoWaits
<1>4. CASE Derive \/ Refused \/ Claimed \/ Update \/ SaveNonce
  <2>1. PICK r : r = loop.run
    OBVIOUS
  <2>2. PICK p, after :
           /\ SavePipeline(r, p, after)
           /\ \/ loop.pc = "derive" /\ after = To("recover")
              \/ loop.pc \in {"refused", "claimed", "nonce"}
              \/ loop.pc = "update" /\ after = Recovering(loop.w)
    BY <1>4, <2>1 DEF Derive, Refused, Claimed, Update, SaveNonce, SaveStatus, At
  <2>3. r \in Listed
    BY <2>1, <2>2, RunOfLoop DEF InRun, LoopPC
  <2>4. Listed' \subseteq Listed /\ loop' = after /\ UNCHANGED <<steps, art, task>>
    BY <2>2, <2>3, ListedGrows
  <2>5. CASE loop.pc = "derive" /\ after = To("recover")
    <3>1. loop'.pc = "recover" /\ loop'.todo = loop.todo
      BY <2>4, <2>5, LoopRecords DEF JInv, LoopPC
    <3>2. \A q : Unpromoted(q) => Unpromoted(q)'
      BY <2>5, <3>1 DEF Unpromoted, Passing, Promoting
    <3> QED BY <1>1, <2>4, <3>2, GoWaits
  <2>6. CASE loop.pc \in {"refused", "claimed", "nonce"}
    BY <1>1, <2>4, <2>6, IdleWaits DEF Passing, Promoting
  <2>7. CASE loop.pc = "update" /\ after = Recovering(loop.w)
    <3>1. loop'.pc = "recover" /\ loop'.todo = Listed
      BY <2>4, <2>7, LoopRecords DEF JInv
    <3> QED BY <2>4, <3>1, PassWaits
  <2> QED BY <2>2, <2>5, <2>6, <2>7
<1> QED BY <1>2, <1>3, <1>4

\* The user creates a run, which has no step yet, or retries one.
LEMMA WaitsUser ==
    ASSUME JInv, WaitsJustified, NEW r \in Runs, Create(r) \/ Retry(r)
    PROVE  WaitsJustified'
<1>1. up /\ loop.pc = "free" /\ \E p, after : SavePipeline(r, p, after)
  BY DEF Create, Retry, At
<1>2. Listed' \subseteq Listed \cup {r} /\ UNCHANGED <<steps, art, task>>
  BY <1>1, ListedGrows
<1>3. r \notin Listed => steps[r] = <<>>
  BY DEF Listed, JInv, Files, FilesFit, RunFits
<1> QED BY <1>1, <1>2, <1>3, IdleWaits DEF Passing, Promoting

\* The tasks of the workers.
LEMMA WaitsWorkers ==
    ASSUME JInv, StepsTimed, WaitsJustified, NEW w \in Workers,
           WakeUp(w) \/ Resume(w) \/ Heartbeat(w) \/ Close(w)
    PROVE  WaitsJustified'
<1>1. CASE WakeUp(w)
  <2>1. loop' = Recovering(w) /\ UNCHANGED pipelines
    BY <1>1 DEF WakeUp, Go, files
  <2>2. loop'.pc = "recover" /\ loop'.todo = Listed
    BY <2>1, LoopRecords DEF JInv
  <2> QED BY <2>1, <2>2, PassWaits DEF Listed
<1>2. CASE Resume(w)
  <2>1. up /\ loop.pc = "free" /\ UNCHANGED <<pipelines, steps, art, task>>
    BY <1>2 DEF Resume, At, Go, files
  <2> QED BY <2>1, IdleWaits DEF Passing, Promoting, Listed
<1> QED BY <1>1, <1>2, WaitsClocks, WaitsClose

\* Every step keeps a reason for the steps that wait.
LEMMA KeepWaits ==
    ASSUME JInv, StepsTimed, WaitsJustified, [Next]_vars
    PROVE  WaitsJustified'
<1>1. CASE Start
  <2>1. loop' = Recovering(0) /\ UNCHANGED pipelines
    BY <1>1 DEF Start, files
  <2>2. loop'.pc = "recover" /\ loop'.todo = Listed
    BY <2>1, LoopRecords DEF JInv
  <2> QED BY <2>1, <2>2, PassWaits DEF Listed
<1>2. CASE Crash
  BY <1>2, StopWaits DEF Crash
<1>3. CASE GoOn
  <2>1. CASE \/ RecoverRun \/ Recovered \/ NothingToClaim \/ FilterFails
             \/ Derive \/ Refused \/ Claimed \/ Update \/ SaveNonce
    BY <2>1, WaitsGoOn
  <2>2. CASE DeriveRaises
    BY <2>2, StopWaits DEF DeriveRaises
  <2>3. CASE Repair \/ Recheck \/ Promote \/ Reset \/ Repromote
    BY <2>3, WaitsLoops
  <2>4. CASE Refuse \/ Claim \/ CallFilter \/ FilterSucceeds \/ CreateStep
    BY <2>4, WaitsRefuse, WaitsClaim, WaitsCallFilter, WaitsFilterSucceeds, WaitsCreateStep
  <2>5. CASE FoundInCache \/ Save \/ SaveFailure
    BY <2>5, WaitsEnds
  <2> QED BY <1>3, <2>1, <2>2, <2>3, <2>4, <2>5 DEF GoOn
<1>4. ASSUME NEW w \in Workers, WakeUp(w) \/ Resume(w) \/ Heartbeat(w) \/ Close(w)
      PROVE  WaitsJustified'
  BY <1>4, WaitsWorkers
<1>5. ASSUME NEW r \in Runs, Create(r) \/ Retry(r) PROVE WaitsJustified'
  BY <1>5, WaitsUser
<1>6. CASE LoseArtifact
  <2>1. Lost' = Lost + 1 /\ Lost \in Nat
    BY <1>6, LoseGrows, LostNat, StepNumbers DEF LoseArtifact, JInv, Files, FilesTyped
  <2> QED BY <2>1 DEF WaitsJustified
<1>7. CASE Tick
  BY <1>7, WaitsClocks
<1>8. CASE UNCHANGED vars
  <2>1. UNCHANGED <<pipelines, steps, artifacts, commits, up, loop, task>>
    BY <1>8 DEF vars, files, art, life
  <2>2. Lost' = Lost /\ Listed' = Listed
    BY <2>1, SameDisk DEF Listed
  <2>3. \A r : Closing(r)' = Closing(r) /\ Unpromoted(r)' = Unpromoted(r)
               /\ Justified(r)' = Justified(r)
    BY <2>1 DEF Closing, Unpromoted, Justified, Present
  <2> QED BY <2>1, <2>2, <2>3 DEF WaitsJustified
<1> QED BY <1>1, <1>2, <1>3, <1>4, <1>5, <1>6, <1>7, <1>8 DEF Next

\* Steps have a first one.
LEMMA FirstOf ==
    ASSUME NEW S \in SUBSET Nat, S # {}
    PROVE  \E x \in S : \A y \in S : x <= y
<1> DEFINE Less == OpToRel(<, Nat)
<1>1. PICK x \in S : \A y \in S : ~ (<<y, x>> \in Less)
  <2> HIDE DEF Less
  <2> QED BY NatLessThanWellFounded, WFMin DEF Less
<1>2. \A y \in S : ~ (y < x)
  BY <1>1 DEF OpToRel
<1> QED BY <1>2

\* A run that waits for no task has a step that goes on, or is where its steps say: a
\* first step that waits would wait for a finished one.
LEMMA SomeGoesOn ==
    ASSUME JInv, StepsTimed, WaitsJustified, At("free"), Lost = 0, NEW r \in Listed,
           pipelines[r].status \notin {"succeeded", "failed"}, ~Closing(r)
    PROVE  \E i \in Present(r) : Handy(r, i)
<1>1. r \in Runs /\ ~Busy(r) /\ ~Unpromoted(r) /\ up
  BY DEF Listed, At, Busy, Unpromoted, Passing, Promoting, InRun
<1>2. steps[r] # <<>> /\ Agrees(r) /\ Justified(r)
  BY <1>1 DEF JInv, RunsSettled, Settled, WaitsJustified
<1>3. \A i \in Present(r) : i \in Nat /\ steps[r][i] \in Doc /\ Traced(r, i, steps[r][i])
                           /\ \A j \in DependsOn(i) : j \in Present(r)
  <2>1. Steps \subseteq Nat
    BY DEF Steps
  <2> QED BY <1>1, <2>1, FileIs DEF JInv
<1>4. SUFFICES ASSUME \A i \in Present(r) : ~Handy(r, i) PROVE FALSE
  OBVIOUS
<1>5. ASSUME NEW i \in Present(r) PROVE steps[r][i].status \in OK \cup Waiting \cup {"failed"}
  <2>1. SUFFICES ASSUME steps[r][i].status \in {"ready", "running", "retrying"} PROVE FALSE
    <3>1. steps[r][i].status \in StepStatus
      BY <1>3 DEF Doc
    <3> QED BY <3>1 DEF StepStatus, OK, Waiting
  <2>2. \A j \in DependsOn(i) : j \in Present(r) /\ steps[r][j].status \in OK
    BY <1>3, <2>1 DEF Traced, Begun
  <2>3. \A j \in DependsOn(i) : OutputValid(steps[r][j]) /\ DepState(steps[r][j]) = "valid"
    BY <1>1, <2>2, ValidUnlessLost
  <2>4. Timed(i, steps[r][i])
    BY <1>1 DEF StepsTimed
  <2> QED BY <1>4, <2>1, <2>3, <2>4 DEF Handy, Timed
<1>6. "running" \notin Statuses(r)
  BY <1>5 DEF Statuses, OK, Waiting
<1>7. Derived(r, "queued") \notin {"succeeded", "failed"}
  BY <1>2, <1>6 DEF Agrees, Lost
<1>8. LastOf(r).status \notin OK /\ "failed" \notin Statuses(r)
  BY <1>7 DEF Derived
<1>9. PICK n : n \in Present(r) /\ LastOf(r) = steps[r][n]
  BY <1>1, <1>2, FilesOf DEF LastOf, JInv, Files
<1>10. \A i \in Present(r) : steps[r][i].status \in OK \cup Waiting
  BY <1>5, <1>8 DEF Statuses
<1>11. PICK S : S = {i \in Present(r) : steps[r][i].status \in Waiting}
  OBVIOUS
<1>12. S \in SUBSET Nat /\ n \in S
  BY <1>3, <1>8, <1>9, <1>10, <1>11
<1>13. PICK m \in S : \A i \in S : m <= i
  BY <1>12, FirstOf
<1>14. PICK j \in DependsOn(m) : steps[r][j].status \notin OK
  BY <1>2, <1>11 DEF Justified
<1>15. j \in S /\ j = m - 1
  BY <1>3, <1>10, <1>11, <1>14, StepNumbers
<1> QED BY <1>12, <1>13, <1>15

\* As long as no artifact is lost, no run needs the user unless one of its steps has
\* failed: wherever the process ended, whatever was saved late and whoever retried, one
\* of its steps has what it needs and waits for something that comes by itself.
THEOREM NeverStuckCorrect == Spec => []NeverStuck
<1>1. Init => JInv /\ StepsTimed /\ WaitsJustified
  <2>1. SUFFICES ASSUME Init PROVE JInv /\ StepsTimed /\ WaitsJustified
    OBVIOUS
  <2>2. JInv
    BY <2>1, InitFits
  <2>3. ~up /\ \A r \in Runs : Present(r) = {}
    BY <2>1 DEF Init, Present
  <2> QED BY <2>2, <2>3 DEF StepsTimed, WaitsJustified
<1>2. JInv /\ StepsTimed /\ WaitsJustified /\ [Next]_vars => (JInv /\ StepsTimed /\ WaitsJustified)'
  BY KeepNextStep, KeepTimed, KeepWaits
<1>3. JInv /\ StepsTimed /\ WaitsJustified => NeverStuck
  BY SomeGoesOn DEF NeverStuck, Closing, Lost
<1> QED BY <1>1, <1>2, <1>3, PTL DEF Spec
=============================================================================
