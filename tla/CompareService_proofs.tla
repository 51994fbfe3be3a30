------------------------- MODULE CompareService_proofs -------------------------
(***************************************************************************)
(* Theorems about requests that read results without a lock: for any       *)
(* number of runs, whatever they fetch and whatever is lost and made again *)
(* in between, the records that are compared are the records that the runs *)
(* fetched, what is read is what the summary names, and what is not lost   *)
(* can be read.                                                            *)
(***************************************************************************)
EXTENDS CompareService, RecordDiff_proofs

-----------------------------------------------------------------------------
(* The invariant. *)

Lines == DOMAIN RecordsOf
Commits == [key : ArtifactKeys, ref : 0..MaxCommits, of : Lines]
RunStates == [asks : Lines, out : Seq(ArtifactKeys), next : ArtifactKeys \cup {Null},
              ref : 0..MaxCommits]
PCs == {"idle", "verifying", "checking", "reading", "answered", "refused"}
Levels == Raw..Summary
Read == [Levels -> 0..MaxCommits]       \* what was read of a run
Readers == [pc : PCs, service : {"compare", "report", Null}, runs : Seq(Runs), at : Nat,
            level : Levels, above : 0..MaxCommits,
            got : {<<>>} \cup [1..1 -> Read] \cup [1..2 -> Read], lost : Int]

\* What is there was put there by a commit, and one artifact has a key.
StoreFits ==
    /\ commits \in 0..MaxCommits
    /\ made \in Seq(Commits) /\ Len(made) = commits
    /\ \A a \in artifacts : \E g \in 1..commits : a = [key |-> made[g].key, gen |-> g]
    /\ \A a, b \in artifacts : a.key = b.key => a = b

\* A key names the input, and with it what was fetched: two artifacts with one key
\* come from the same records.
MadeFits ==
    /\ \A g \in 1..commits :
          /\ made[g].ref < g /\ made[g].key.input = made[g].ref
          /\ IF made[g].ref = 0
             THEN made[g].key.step = Package /\ made[g].of = made[g].key.line
             ELSE made[g].key.step # Package /\ made[g].of = made[made[g].ref].of
    /\ \A g, h \in 1..commits : made[g].key = made[h].key => made[g].of = made[h].of

MadeOf(key, line) ==
    /\ \E g \in 1..commits : made[g].key = key
    /\ \A g \in 1..commits : made[g].key = key => made[g].of = line

\* The outputs of a run come from what it asked for, each made from the one before.
OutputsFit(me) ==
    /\ Len(me.out) <= Summary
    /\ \A i \in 1..Len(me.out) : me.out[i].step = i /\ MadeOf(me.out[i], me.asks)
    /\ \A i \in 2..Len(me.out) :
          me.out[i].input \in 1..commits /\ made[me.out[i].input].key = me.out[i - 1]

\* The key of the step that is claimed names the input that was there; the final
\* step was the last to be claimed.
ClaimFits(me) ==
    /\ me.ref \in 0..commits
    /\ me.next # Null =>
          /\ Len(me.out) < Summary
          /\ me.next.step = Len(me.out) + 1 /\ me.next.input = me.ref
          /\ IF me.out = <<>> THEN me.ref = 0 /\ me.next.line = me.asks
             ELSE me.ref # 0 /\ made[me.ref].key = me.out[Len(me.out)]
    /\ Len(me.out) = Summary => me.out[Summary].input = me.ref

RunFits(me) == me \in RunStates /\ OutputsFit(me) /\ ClaimFits(me)
RunsFit == run \in [Runs -> RunStates] /\ \A r \in Runs : RunFits(run[r])

\* A request rd, its state.
Busy(rd) == rd.pc \in {"verifying", "checking", "reading", "answered"}
Below(rd) == rd.pc \in {"verifying", "checking"} /\ rd.level < Summary
Done(rd, i, l) == i < rd.at \/ (i = rd.at /\ (l > rd.level \/ rd.pc = "answered"))
BottomOf(rd) == IF rd.service = "compare" THEN Raw ELSE Analysis
Out(rd) == run[rd.runs[rd.at]].out

\* The reader goes down the outputs of finished runs, whatever is lost and made again.
Reads(rd) ==
    /\ rd.service \in {"compare", "report"}
    /\ Len(rd.runs) = IF rd.service = "compare" THEN 2 ELSE 1
    /\ \A i \in 1..rd.at : Finished(rd.runs[i])
    /\ rd.at \in 1..Len(rd.runs) /\ rd.level \in BottomOf(rd)..Summary
    /\ rd.got \in [1..Len(rd.runs) -> Read]
    /\ rd.pc = "verifying" => rd.level < Summary
    /\ rd.pc = "answered" => rd.at = Len(rd.runs)
    /\ Below(rd) => rd.above # 0 /\ made[rd.above].key = Out(rd)[rd.level + 1]
    /\ rd.pc = "reading" => rd.above # 0 /\ made[rd.above].key = Out(rd)[rd.level]
    /\ \A i \in 1..Len(rd.runs), l \in BottomOf(rd)..Summary : Done(rd, i, l) =>
          /\ rd.got[i][l] \in 1..commits
          /\ made[rd.got[i][l]].key = run[rd.runs[i]].out[l]

ReaderFits(rd) == rd \in Readers /\ rd.above <= commits /\ (Busy(rd) => Reads(rd))

\* The artifact of commit g is there.
There(g) == Art!Valid(made[g].key) /\ Art!Gen(made[g].key) = g

\* As long as nothing is lost, the reader finds what was there when it began.
Undisturbed(rd) ==
    /\ rd.pc = "checking" /\ Below(rd) => There(made[rd.above].ref)
    /\ Below(rd) => rd.above = rd.got[rd.at][rd.level + 1]
    /\ rd.pc = "reading" =>
          /\ There(rd.above)
          /\ rd.level < Summary => rd.above = made[rd.got[rd.at][rd.level + 1]].ref
    /\ \A i \in 1..Len(rd.runs), l \in BottomOf(rd)..Analysis : Done(rd, i, l) =>
          rd.got[i][l] = made[rd.got[i][l + 1]].ref

LossesFit(rd) ==
    /\ Busy(rd) => rd.lost <= Art!Lost /\ (Art!Lost = rd.lost => Undisturbed(rd))
    /\ rd.pc = "refused" => Art!Lost # 0

CInv == StoreFits /\ MadeFits /\ RunsFit /\ ReaderFits(reader) /\ LossesFit(reader)

-----------------------------------------------------------------------------
(* The store. *)

\* The steps are the four numbers of the template.
LEMMA StepNumbers == /\ Package = 1 /\ Raw = 2 /\ Analysis = 3 /\ Summary = 4
                     /\ \A S : Art!Cardinality(S) = Cardinality(S)
BY DEF Package, Raw, Analysis, Summary, Art!Cardinality, Cardinality

\* What is valid was made by a commit, the number of which its manifest names.
LEMMA Stored ==
    ASSUME StoreFits, NEW k, Art!Valid(k)
    PROVE  /\ Art!Gen(k) \in 1..commits /\ made[Art!Gen(k)].key = k
           /\ [key |-> k, gen |-> Art!Gen(k)] \in artifacts
<1>1. PICK a \in artifacts : a.key = k
  BY DEF Art!Valid
<1>2. PICK g \in 1..commits : a = [key |-> made[g].key, gen |-> g]
  BY DEF StoreFits
<1>3. (CHOOSE b \in artifacts : b.key = k) = a
  BY <1>1, Zenon DEF StoreFits
<1>4. Art!Gen(k) = g
  <2>1. a.gen = g
    BY <1>2
  <2> QED BY <1>3, <2>1, Zenon DEF Art!Gen
<1> QED BY <1>1, <1>2, <1>4

\* What is there stays what it is while nothing is lost.
LEMMA ValidStays ==
    ASSUME StoreFits, artifacts \subseteq artifacts',
           \A a, b \in artifacts' : a.key = b.key => a = b,
           NEW k, Art!Valid(k)
    PROVE  Art!Valid(k)' /\ Art!Gen(k)' = Art!Gen(k)
<1>1. PICK a \in artifacts : a.key = k
  BY DEF Art!Valid
<1>2. (CHOOSE b \in artifacts : b.key = k) = a
  BY <1>1, Zenon DEF StoreFits
<1>3. (CHOOSE b \in artifacts' : b.key = k) = a
  BY <1>1, Zenon
<1> QED BY <1>1, <1>2, <1>3 DEF Art!Valid, Art!Gen

\* Every commit put one artifact there: their number tells how many were lost, and if
\* none was, all are there.
LEMMA Losses ==
    ASSUME StoreFits
    PROVE  /\ IsFiniteSet(artifacts) /\ Art!Lost \in Nat
           /\ Art!Lost = 0 => \A g \in 1..commits : [key |-> made[g].key, gen |-> g] \in artifacts
<1> DEFINE f == [a \in artifacts |-> a.gen]
<1>1. commits \in Nat
  BY MaxCommitsAssumption DEF StoreFits
<1>2. \A a \in artifacts : f[a] \in 1..commits /\ a = [key |-> made[f[a]].key, gen |-> f[a]]
  BY DEF StoreFits
<1>3. f \in Injection(artifacts, 1..commits)
  <2>1. f \in [artifacts -> 1..commits]
    BY <1>2
  <2>2. \A a, b \in artifacts : f[a] = f[b] => a = b
    <3> HIDE DEF f
    <3> QED BY <1>2
  <2> HIDE DEF f
  <2> QED BY <2>1, <2>2 DEF Injection, IsInjective
<1>4. IsFiniteSet(1..commits) /\ Cardinality(1..commits) = commits
  BY <1>1, FS_Interval
<1>5. /\ IsFiniteSet(artifacts) /\ Cardinality(artifacts) <= commits
      /\ Cardinality(artifacts) = commits => f \in Surjection(artifacts, 1..commits)
  <2> HIDE DEF f
  <2> QED BY <1>3, <1>4, FS_Injection
<1>6. Cardinality(artifacts) \in Nat
  BY <1>5, FS_CardinalityType
<1>7. Art!Lost = commits - Cardinality(artifacts)
  BY StepNumbers DEF Art!Lost
<1>8. ASSUME Art!Lost = 0, NEW g \in 1..commits
      PROVE  [key |-> made[g].key, gen |-> g] \in artifacts
  <2>1. f \in Surjection(artifacts, 1..commits)
    BY <1>1, <1>5, <1>6, <1>7, <1>8
  <2>2. PICK a \in artifacts : f[a] = g
    <3> HIDE DEF f
    <3> QED BY <2>1 DEF Surjection
  <2>3. a = [key |-> made[g].key, gen |-> g]
    <3> HIDE DEF f
    <3> QED BY <1>2, <2>2
  <2> QED BY <2>3
<1> QED BY <1>1, <1>5, <1>6, <1>7, <1>8

\* If nothing was lost, the artifact of every commit is there.
LEMMA AllThere ==
    ASSUME StoreFits, Art!Lost = 0, NEW g \in 1..commits
    PROVE  There(g)
<1>1. [key |-> made[g].key, gen |-> g] \in artifacts
  BY Losses
<1>2. Art!Valid(made[g].key)
  BY <1>1 DEF Art!Valid
<1>3. [key |-> made[g].key, gen |-> Art!Gen(made[g].key)] \in artifacts
  BY <1>2, Stored
<1>4. Art!Gen(made[g].key) = g
  <2>1. [key |-> made[g].key, gen |-> g] = [key |-> made[g].key, gen |-> Art!Gen(made[g].key)]
    BY <1>1, <1>3 DEF StoreFits
  <2> QED BY <2>1
<1> QED BY <1>2, <1>4 DEF There

-----------------------------------------------------------------------------
(* More commits. *)

\* What was committed stays on record.
Extends == /\ commits \in Nat /\ commits' \in Nat /\ commits <= commits'
           /\ \A g \in 1..commits : made'[g] = made[g]

\* Whatever is committed, the artifacts under a key still come from the same line.
LEMMA MadeOfStays ==
    ASSUME Extends, MadeFits', NEW key, NEW line, MadeOf(key, line)
    PROVE  MadeOf(key, line)'
<1>1. 1..commits \subseteq 1..commits'
  BY DEF Extends
<1>2. PICK h \in 1..commits : made[h].key = key /\ made[h].of = line
  BY DEF MadeOf
<1>3. h \in 1..commits' /\ made'[h].key = key /\ made'[h].of = line
  BY <1>1, <1>2 DEF Extends
<1>4. ASSUME NEW g \in 1..commits', made'[g].key = key PROVE made'[g].of = line
  BY <1>3, <1>4 DEF MadeFits
<1> QED BY <1>3, <1>4 DEF MadeOf

\* Whatever is committed, a run that fits still fits.
LEMMA RunStays ==
    ASSUME Extends, MadeFits', NEW me, RunFits(me)
    PROVE  RunFits(me)'
<1>1. 1..commits \subseteq 1..commits' /\ 0..commits \subseteq 0..commits'
  BY DEF Extends
<1>2. OutputsFit(me)'
  <2>1. \A i \in 1..Len(me.out) : MadeOf(me.out[i], me.asks)'
    BY MadeOfStays DEF RunFits, OutputsFit
  <2>2. \A i \in 2..Len(me.out) :
           me.out[i].input \in 1..commits' /\ made'[me.out[i].input].key = me.out[i - 1]
    BY <1>1 DEF RunFits, OutputsFit, Extends
  <2> QED BY <2>1, <2>2 DEF RunFits, OutputsFit
<1>3. ClaimFits(me)'
  <2>1. me.ref \in 0..commits
    BY DEF RunFits, ClaimFits
  <2>2. me.ref # 0 => made'[me.ref] = made[me.ref]
    BY <2>1 DEF Extends
  <2> QED BY <1>1, <2>1, <2>2 DEF RunFits, ClaimFits
<1> QED BY <1>2, <1>3 DEF RunFits

-----------------------------------------------------------------------------
(* The runs. *)

\* What a claimed step has as its key: if such an artifact was ever made, it was made
\* from what the run asks for.
LEMMA NextIsAsked ==
    ASSUME StoreFits, MadeFits, NEW me, RunFits(me), me.next # Null,
           NEW g \in 1..commits, made[g].key = me.next
    PROVE  made[g].of = me.asks
<1>1. /\ made[g].ref = me.ref /\ me.ref \in 0..commits
      /\ made[g].ref = 0 => made[g].of = me.next.line
      /\ made[g].ref # 0 => made[g].of = made[made[g].ref].of
  BY DEF MadeFits, RunFits, ClaimFits
<1>2. CASE me.out = <<>>
  BY <1>1, <1>2 DEF RunFits, ClaimFits
<1>3. CASE me.out # <<>>
  <2>1. me.ref # 0 /\ made[me.ref].key = me.out[Len(me.out)]
    BY <1>3 DEF RunFits, ClaimFits
  <2>2. Len(me.out) \in 1..Len(me.out)
    BY <1>3, LenProperties, EmptySeq DEF RunFits, RunStates
  <2>3. MadeOf(me.out[Len(me.out)], me.asks)
    BY <2>2 DEF RunFits, OutputsFit
  <2>4. me.ref \in 1..commits
    BY <1>1, <2>1
  <2> QED BY <1>1, <2>1, <2>3, <2>4 DEF MadeOf
<1> QED BY <1>2, <1>3

\* The last output, which is the input of the next step.
LEMMA InputFits ==
    ASSUME RunsFit, NEW r \in Runs, run[r].out # <<>>
    PROVE  /\ Input(r) = run[r].out[Len(run[r].out)] /\ Len(run[r].out) \in 1..Summary
           /\ Input(r) \in ArtifactKeys /\ Input(r).step = Len(run[r].out)
           /\ MadeOf(Input(r), run[r].asks)
<1>1. run[r].out \in Seq(ArtifactKeys)
  BY DEF RunsFit, RunStates
<1>2. Len(run[r].out) \in 1..Len(run[r].out) /\ Len(run[r].out) \in Nat
  BY <1>1, EmptySeq
<1>3. OutputsFit(run[r])
  BY DEF RunsFit, RunFits
<1>4. run[r].out[Len(run[r].out)] \in ArtifactKeys
  BY <1>1, <1>2
<1> DEFINE n == Len(run[r].out)
<1>5. n <= Summary /\ run[r].out[n].step = n /\ MadeOf(run[r].out[n], run[r].asks)
  BY <1>2, <1>3 DEF OutputsFit
<1>6. n \in 1..Summary
  <2> HIDE DEF n
  <2>1. n \in 1..n /\ n \in Nat
    BY <1>2 DEF n
  <2> QED BY <1>5, <2>1 DEF Summary
<1> HIDE DEF n
<1>7. Input(r) = run[r].out[n]
  BY DEF Input, n
<1> QED BY <1>4, <1>5, <1>6, <1>7 DEF n

\* A key of the step after the outputs.
LEMMA NextKeyFits ==
    ASSUME StoreFits, RunsFit, NEW r \in Runs, ~ Finished(r), InputValid(r)
    PROVE  /\ NextKey(r) \in ArtifactKeys /\ InputHash(r) \in 0..commits
           /\ NextKey(r).step = Len(run[r].out) + 1 /\ NextKey(r).input = InputHash(r)
           /\ Len(run[r].out) < Summary
           /\ IF run[r].out = <<>> THEN InputHash(r) = 0 /\ NextKey(r).line = run[r].asks
              ELSE InputHash(r) # 0 /\ made[InputHash(r)].key = Input(r)
<1>1. /\ run[r] \in RunStates /\ Len(run[r].out) \in Nat /\ Len(run[r].out) < 4
  <2>1. run[r] \in RunStates
    BY DEF RunsFit
  <2>2. Len(run[r].out) \in Nat
    BY <2>1 DEF RunStates
  <2>3. Len(run[r].out) <= Summary /\ Len(run[r].out) # Summary
    BY DEF RunsFit, RunFits, OutputsFit, Finished
  <2> DEFINE n == Len(run[r].out)
  <2> HIDE DEF n
  <2>4. n \in Nat /\ n <= 4 /\ n # 4
    BY <2>2, <2>3, StepNumbers DEF n
  <2>5. n < 4
    BY <2>4
  <2> QED BY <2>1, <2>2, <2>5 DEF n
<1>2. commits \in 0..MaxCommits
  BY DEF StoreFits
<1>3. InputHash(r) \in 0..commits
      /\ (IF run[r].out = <<>> THEN InputHash(r) = 0
          ELSE InputHash(r) # 0 /\ made[InputHash(r)].key = Input(r))
  <2>1. CASE run[r].out = <<>>
    BY <1>2, <2>1, MaxCommitsAssumption DEF InputHash
  <2>2. CASE run[r].out # <<>>
    <3>1. Art!Valid(Input(r)) /\ InputHash(r) = Art!Gen(Input(r))
      BY <2>2 DEF InputValid, InputHash
    <3>2. InputHash(r) \in 1..commits /\ made[InputHash(r)].key = Input(r)
      BY <3>1, Stored
    <3> QED BY <1>2, <2>2, <3>2, MaxCommitsAssumption
  <2> QED BY <2>1, <2>2
<1>4. Len(run[r].out) + 1 \in 1..4 /\ (run[r].out = <<>> => Len(run[r].out) = 0)
  BY <1>1
<1>5. run[r].asks \in DOMAIN RecordsOf
  BY <1>1 DEF RunStates, Lines
<1>6. InputHash(r) \in 0..MaxCommits
  BY <1>2, <1>3, MaxCommitsAssumption
<1> DEFINE step == Len(run[r].out) + 1
           line == IF step \in {Package, Analysis} THEN run[r].asks ELSE Null
<1>7. NextKey(r) = [step |-> step, line |-> line, input |-> InputHash(r)]
  BY DEF NextKey
<1>8. step \in 1..4 /\ line \in DOMAIN RecordsOf \cup {Null}
  BY <1>4, <1>5
<1>9. run[r].out = <<>> => line = run[r].asks
  BY <1>4 DEF Package
<1> HIDE DEF step, line
<1>10. NextKey(r) \in ArtifactKeys
  BY <1>6, <1>7, <1>8 DEF ArtifactKeys, Package, Summary
<1>11. NextKey(r).step = step /\ NextKey(r).line = line /\ NextKey(r).input = InputHash(r)
  BY <1>7
<1> QED BY <1>1, <1>3, <1>9, <1>10, <1>11 DEF step, Summary

\* A run moves on while the store stays: the others fit still.
LEMMA RunGoes ==
    ASSUME RunsFit, MadeFits', Extends, NEW r \in Runs, NEW me, RunFits(me)',
           run' = [run EXCEPT ![r] = me]
    PROVE  RunsFit'
<1>1. me \in RunStates
  BY DEF RunFits
<1>2. run' \in [Runs -> RunStates]
  BY <1>1 DEF RunsFit
<1>3. ASSUME NEW q \in Runs PROVE RunFits(run[q])'
  <2>1. PICK it : it = run'[q]
    OBVIOUS
  <2>2. RunFits(it)'
    <3>1. CASE q = r
      BY <2>1, <3>1 DEF RunsFit
    <3>2. CASE q # r
      <4>1. it = run[q]
        BY <2>1, <3>2 DEF RunsFit
      <4> QED BY <4>1, RunStays DEF RunsFit
    <3> QED BY <3>1, <3>2
  <2> QED BY <2>1, <2>2, Zenon
<1> QED BY <1>2, <1>3 DEF RunsFit

\* The runs fit still when no run moves.
LEMMA RunsStay ==
    ASSUME RunsFit, UNCHANGED <<commits, made, run>>
    PROVE  RunsFit'
BY DEF RunsFit, RunFits, OutputsFit, ClaimFits, MadeOf

\* What the actions of a run keep: the invariant of store and runs, and what is finished.
RunsKept ==
    /\ StoreFits' /\ MadeFits' /\ RunsFit' /\ Extends
    /\ \A r \in Runs : Finished(r) => run'[r] = run[r]

\* The store is left alone.
LEMMA StoreStays ==
    ASSUME StoreFits, MadeFits, UNCHANGED <<artifacts, commits, made>>
    PROVE  StoreFits' /\ MadeFits' /\ Extends /\ Art!Lost' = Art!Lost
<1>1. commits \in Nat
  BY MaxCommitsAssumption DEF StoreFits
<1>2. Extends
  BY <1>1 DEF Extends
<1> QED BY <1>2 DEF StoreFits, MadeFits, Art!Lost

\* A step is claimed: its key names the input that is there.
LEMMA PrepareKeeps ==
    ASSUME StoreFits, MadeFits, RunsFit, NEW r \in Runs, Prepare(r)
    PROVE  RunsKept /\ UNCHANGED <<artifacts, commits, reader>>
<1>1. /\ ~ Finished(r) /\ InputValid(r) /\ UNCHANGED <<artifacts, commits, made, reader>>
      /\ run' = [run EXCEPT ![r].next = NextKey(r), ![r].ref = InputHash(r)]
  BY DEF Prepare
<1>2. /\ run \in [Runs -> RunStates] /\ run[r] \in RunStates /\ OutputsFit(run[r])
  BY DEF RunsFit, RunFits
<1>13. PICK me : me = [run[r] EXCEPT !.next = NextKey(r), !.ref = InputHash(r)]
  OBVIOUS
<1>3. run' = [run EXCEPT ![r] = me]
  BY <1>13, <1>1, <1>2
<1>4. /\ NextKey(r) \in ArtifactKeys /\ InputHash(r) \in 0..commits
      /\ NextKey(r).step = Len(run[r].out) + 1 /\ NextKey(r).input = InputHash(r)
      /\ Len(run[r].out) < Summary
      /\ IF run[r].out = <<>> THEN InputHash(r) = 0 /\ NextKey(r).line = run[r].asks
         ELSE InputHash(r) # 0 /\ made[InputHash(r)].key = Input(r)
  BY <1>1, NextKeyFits
<1>5. InputHash(r) \in 0..MaxCommits
  BY <1>4, MaxCommitsAssumption DEF StoreFits
<1>6. /\ me \in RunStates /\ me.next = NextKey(r) /\ me.ref = InputHash(r)
      /\ me.out = run[r].out /\ me.asks = run[r].asks
  BY <1>13, <1>2, <1>4, <1>5 DEF RunStates
<1>7. OutputsFit(me)
  BY <1>2, <1>6, Zenon DEF OutputsFit
<1>8. ClaimFits(me)
  <2>1. Len(me.out) # Summary
    <3>1. PICK n : n = Len(me.out)
      OBVIOUS
    <3>2. n \in Nat
      BY <1>6, <3>1 DEF RunStates
    <3>3. n < Summary
      BY <1>4, <1>6, <3>1, Zenon
    <3>4. n # Summary
      BY <3>2, <3>3 DEF Summary
    <3> QED BY <3>1, <3>4, Zenon
  <2> QED BY <1>4, <1>6, <2>1 DEF ClaimFits, Input
<1>9. StoreFits' /\ MadeFits' /\ Extends
  BY <1>1, StoreStays
<1>14. RunFits(me)
  BY <1>6, <1>7, <1>8 DEF RunFits
<1>10. RunFits(me)'
  BY <1>14, <1>9, RunStays
<1>11. RunsFit'
  BY <1>3, <1>9, <1>10, RunGoes
<1>12. \A q \in Runs : Finished(q) => run'[q] = run[q]
  BY <1>1, <1>2, <1>3
<1> QED BY <1>1, <1>9, <1>11, <1>12 DEF RunsKept

\* A step fails: the run can be claimed again.
LEMMA FailKeeps ==
    ASSUME StoreFits, MadeFits, RunsFit, NEW r \in Runs, Fail(r)
    PROVE  RunsKept /\ UNCHANGED <<artifacts, commits, reader>>
<1>1. /\ UNCHANGED <<artifacts, commits, made, reader>>
      /\ run[r].next # Null /\ run' = [run EXCEPT ![r].next = Null]
  BY DEF Fail
<1>2. /\ run \in [Runs -> RunStates] /\ run[r] \in RunStates
      /\ OutputsFit(run[r]) /\ ClaimFits(run[r])
  BY DEF RunsFit, RunFits
<1>10. PICK me : me = [run[r] EXCEPT !.next = Null]
  OBVIOUS
<1>3. run' = [run EXCEPT ![r] = me]
  BY <1>10, <1>1, <1>2
<1>4. /\ me \in RunStates /\ me.next = Null /\ me.ref = run[r].ref
      /\ me.out = run[r].out /\ me.asks = run[r].asks
  BY <1>10, <1>2 DEF RunStates
<1>5. OutputsFit(me) /\ ClaimFits(me)
  BY <1>2, <1>4, Zenon DEF OutputsFit, ClaimFits
<1>6. StoreFits' /\ MadeFits' /\ Extends
  BY <1>1, StoreStays
<1>11. RunFits(me)
  BY <1>4, <1>5 DEF RunFits
<1>12. RunFits(me)'
  BY <1>11, <1>6, RunStays
<1>7. RunsFit'
  BY <1>3, <1>6, <1>12, RunGoes
<1>8. ~ Finished(r)
  BY <1>1, <1>2 DEF Finished, ClaimFits, Summary
<1>9. \A q \in Runs : Finished(q) => run'[q] = run[q]
  BY <1>2, <1>3, <1>8
<1> QED BY <1>1, <1>6, <1>7, <1>9 DEF RunsKept

\* The outputs with one more.
LEMMA OneMoreOutput ==
    ASSUME StoreFits, MadeFits', Extends, NEW me, RunFits(me), me.next # Null,
           MadeOf(me.next, me.asks)'
    PROVE  RunFits([me EXCEPT !.out = Append(@, me.next), !.next = Null])'
<1> DEFINE n == Len(me.out)
           out == Append(me.out, me.next)
           new == [me EXCEPT !.out = Append(@, me.next), !.next = Null]
<1>1. /\ me \in RunStates /\ me.out \in Seq(ArtifactKeys) /\ me.next \in ArtifactKeys
      /\ me.ref \in 0..commits
  BY DEF RunFits, RunStates, ClaimFits
<1>2. /\ n \in Nat /\ out \in Seq(ArtifactKeys) /\ Len(out) = n + 1
      /\ \A i \in 1..n : out[i] = me.out[i]
      /\ out[n + 1] = me.next
  BY <1>1, AppendProperties
<1>3. new \in RunStates /\ new.out = out /\ new.next = Null /\ new.ref = me.ref
      /\ new.asks = me.asks
  BY <1>1, <1>2 DEF RunStates
<1>4. /\ n < Summary /\ me.next.step = n + 1 /\ me.next.input = me.ref
      /\ n # 0 => me.ref # 0 /\ made[me.ref].key = me.out[n]
  <2>1. n # 0 => me.out # <<>>
    OBVIOUS
  <2> QED BY <2>1 DEF RunFits, ClaimFits
<1>5. RunFits(me)'
  BY RunStays
<1> HIDE DEF n, out, new
<1>6. n + 1 <= Summary
  BY <1>2, <1>4, StepNumbers
<1>7. \A i \in 1..(n + 1) : out[i].step = i /\ MadeOf(out[i], me.asks)'
  <2>1. \A i \in 1..n : me.out[i].step = i /\ MadeOf(me.out[i], me.asks)'
    BY <1>5 DEF RunFits, OutputsFit, n
  <2>2. \A i \in 1..(n + 1) : i \in 1..n \/ i = n + 1
    BY <1>2
  <2> QED BY <1>2, <1>4, <2>1, <2>2
<1>8. \A i \in 2..(n + 1) : out[i].input \in 1..commits' /\ made'[out[i].input].key = out[i - 1]
  <2> SUFFICES ASSUME NEW i \in 2..(n + 1)
               PROVE  out[i].input \in 1..commits' /\ made'[out[i].input].key = out[i - 1]
    OBVIOUS
  <2>1. CASE i \in 2..n
    <3>1. me.out[i].input \in 1..commits' /\ made'[me.out[i].input].key = me.out[i - 1]
      BY <1>5, <2>1 DEF RunFits, OutputsFit, n
    <3>2. i \in 1..n /\ i - 1 \in 1..n
      BY <1>2, <2>1
    <3> QED BY <1>2, <3>1, <3>2
  <2>2. CASE i = n + 1
    <3>1. n # 0 /\ n \in 1..n /\ i - 1 = n
      BY <1>2, <2>2
    <3>2. me.ref \in 1..commits /\ me.ref \in 1..commits' /\ made'[me.ref] = made[me.ref]
      BY <1>1, <1>4, <3>1 DEF Extends
    <3>3. out[i].input = me.ref /\ out[n] = me.out[n]
      BY <1>2, <1>4, <2>2, <3>1
    <3> QED BY <1>4, <3>1, <3>2, <3>3
  <2>3. i \in 2..n \/ i = n + 1
    BY <1>2
  <2> QED BY <2>1, <2>2, <2>3
<1>9. OutputsFit(new)'
  BY <1>2, <1>3, <1>6, <1>7, <1>8, Zenon DEF OutputsFit
<1>10. ClaimFits(new)'
  <2>1. me.ref \in 0..commits'
    BY <1>1 DEF Extends
  <2>2. Len(out) = Summary => out[Summary].input = me.ref
    BY <1>2, <1>4
  <2> QED BY <1>2, <1>3, <2>1, <2>2 DEF ClaimFits
<1> QED BY <1>3, <1>9, <1>10 DEF RunFits, new

\* The artifact of the step is found or made; either way it comes from what the run
\* asks for, whoever made it and from whichever commit of the input.
LEMMA ExecuteKeeps ==
    ASSUME StoreFits, MadeFits, RunsFit, NEW r \in Runs, Execute(r)
    PROVE  RunsKept /\ Art!Lost' = Art!Lost /\ artifacts \subseteq artifacts' /\ reader' = reader
<1>1. PICK me : me = run[r]
  OBVIOUS
<1>2. PICK key : key = me.next
  OBVIOUS
<1>3. /\ key # Null /\ commits < MaxCommits /\ (Art!Valid(key) \/ InputValid(r))
      /\ Art!Commit(key) /\ reader' = reader
      /\ run' = [run EXCEPT ![r].out = Append(@, key), ![r].next = Null]
      /\ made' = IF Art!Valid(key) THEN made
                 ELSE Append(made, [key |-> key, ref |-> me.ref,
                                    of  |-> IF key.step = Package THEN me.asks
                                            ELSE made[Art!Gen(Input(r))].of])
  BY <1>1, <1>2, Zenon DEF Execute
<1>13. key # Null /\ commits < MaxCommits
  BY <1>1, <1>2, Zenon DEF Execute
<1>4. run \in [Runs -> RunStates] /\ me \in RunStates /\ RunFits(me)
  BY <1>1 DEF RunsFit
<1>5. run' = [run EXCEPT ![r] = [me EXCEPT !.out = Append(@, me.next), !.next = Null]]
  BY <1>1, <1>2, <1>3, <1>4
<1>6. key \in ArtifactKeys /\ me.asks \in Lines /\ me.ref \in 0..commits
  BY <1>2, <1>13, <1>4 DEF RunStates, RunFits, ClaimFits
<1>7. commits \in 0..MaxCommits /\ commits \in Nat
  BY MaxCommitsAssumption DEF StoreFits
<1>8. \A g \in 1..commits : made[g].key = key => made[g].of = me.asks
  BY <1>2, <1>13, <1>4, NextIsAsked
<1>9. ~ Finished(r) /\ \A q \in Runs : Finished(q) => run'[q] = run[q]
  <2>1. ~ Finished(r)
    <3>1. Len(me.out) < Summary /\ Len(me.out) \in Nat
      BY <1>2, <1>13, <1>4 DEF RunFits, ClaimFits, RunStates
    <3>2. PICK n : n = Len(run[r].out)
      OBVIOUS
    <3>3. n < Summary /\ n \in Nat
      BY <1>1, <3>1, <3>2, Zenon
    <3>4. n # Summary
      BY <3>3 DEF Summary
    <3> QED BY <3>2, <3>4, Zenon DEF Finished
  <2> QED BY <1>4, <1>5, <2>1
<1>10. ASSUME StoreFits', MadeFits', Extends, MadeOf(key, me.asks)' PROVE RunsFit'
  <2>1. PICK new : new = [me EXCEPT !.out = Append(@, me.next), !.next = Null]
    OBVIOUS
  <2>2. RunFits(new)'
    BY <1>2, <1>13, <1>4, <1>10, <2>1, OneMoreOutput
  <2> QED BY <1>5, <1>10, <2>1, <2>2, RunGoes
<1>11. CASE Art!Valid(key)
  <2>1. UNCHANGED <<artifacts, commits, made>>
    BY <1>3, <1>11 DEF Art!Commit, Art!vars
  <2>2. StoreFits' /\ MadeFits' /\ Extends /\ Art!Lost' = Art!Lost
    BY <2>1, StoreStays
  <2>3. Art!Gen(key) \in 1..commits /\ made[Art!Gen(key)].key = key
    BY <1>11, Stored
  <2>4. MadeOf(key, me.asks)
    BY <1>8, <2>3 DEF MadeOf
  <2>5. MadeOf(key, me.asks)'
    BY <2>1, <2>4 DEF MadeOf
  <2> QED BY <1>3, <1>9, <1>10, <2>1, <2>2, <2>5 DEF RunsKept
<1>12. CASE ~ Art!Valid(key)
  <2> DEFINE new == commits + 1
  <2>1. PICK line : line = IF key.step = Package THEN me.asks ELSE made[Art!Gen(Input(r))].of
    OBVIOUS
  <2>2. PICK entry : entry = [key |-> key, ref |-> me.ref, of |-> line]
    OBVIOUS
  <2>3. made' = Append(made, entry) /\ commits' = new
        /\ artifacts' = artifacts \cup {[key |-> key, gen |-> new]}
    BY <1>3, <1>12, <2>1, <2>2 DEF Art!Commit
  <2>4. /\ key.step = Len(me.out) + 1 /\ key.input = me.ref
        /\ IF me.out = <<>> THEN me.ref = 0 /\ key.line = me.asks
           ELSE me.ref # 0 /\ made[me.ref].key = me.out[Len(me.out)]
    BY <1>2, <1>13, <1>4 DEF RunFits, ClaimFits
  <2>5. me.out = <<>> <=> key.step = Package
    <3>1. me.out \in Seq(ArtifactKeys) /\ Len(me.out) \in Nat
      BY <1>4 DEF RunStates
    <3>2. me.out = <<>> <=> Len(me.out) = 0
      BY <3>1, EmptySeq
    <3> QED BY <2>4, <3>1, <3>2 DEF Package
  <2>6. line = me.asks
    <3>1. CASE key.step = Package
      BY <2>1, <3>1
    <3>2. CASE key.step # Package
      <4>1. me.out # <<>> /\ InputValid(r)
        BY <1>3, <1>12, <2>5, <3>2
      <4>2. Art!Valid(Input(r)) /\ MadeOf(Input(r), me.asks)
        BY <1>1, <4>1, InputFits DEF InputValid
      <4>3. Art!Gen(Input(r)) \in 1..commits /\ made[Art!Gen(Input(r))].key = Input(r)
        BY <4>2, Stored
      <4> QED BY <2>1, <3>2, <4>2, <4>3 DEF MadeOf
    <3> QED BY <3>1, <3>2
  <2>7. entry \in Commits /\ entry.key = key /\ entry.ref = me.ref /\ entry.of = me.asks
    BY <1>4, <1>6, <2>2, <2>6 DEF Commits, RunStates
  <2>8. /\ made \in Seq(Commits) /\ Len(made) = commits
        /\ made' \in Seq(Commits) /\ Len(made') = new
        /\ \A g \in 1..commits : made'[g] = made[g]
        /\ made'[new] = entry
    <3>1. made \in Seq(Commits) /\ Len(made) = commits
      BY DEF StoreFits
    <3> QED BY <2>3, <2>7, <3>1, AppendProperties
  <2>9. new \in 0..MaxCommits /\ 1..new = 1..commits \cup {new} /\ new \notin 1..commits
    BY <1>13, <1>7, MaxCommitsAssumption
  <2>10. Extends
    BY <1>7, <2>3, <2>8 DEF Extends
  <2> HIDE DEF new
  <2>11. StoreFits'
    <3>1. \A a \in artifacts : a.key # key
      BY <1>12 DEF Art!Valid
    <3>2. \A a, b \in artifacts' : a.key = b.key => a = b
      BY <2>3, <3>1 DEF StoreFits
    <3>3. \A a \in artifacts' : \E g \in 1..new : a = [key |-> made'[g].key, gen |-> g]
      <4>1. \A a \in artifacts : \E g \in 1..new : a = [key |-> made'[g].key, gen |-> g]
        BY <2>8, <2>9 DEF StoreFits
      <4>2. new \in 1..new /\ made'[new].key = key
        BY <2>7, <2>8, <2>9
      <4> QED BY <2>3, <4>1, <4>2
    <3> QED BY <2>3, <2>8, <2>9, <3>2, <3>3 DEF StoreFits
  <2>12. MadeFits'
    <3>1. /\ entry.ref < new /\ entry.key.input = entry.ref
          /\ entry.ref = 0 <=> key.step = Package
      BY <1>6, <1>7, <2>4, <2>5, <2>7 DEF new
    <3>2. entry.ref # 0 => entry.ref \in 1..commits /\ entry.of = made[entry.ref].of
      <4>1. ASSUME me.ref # 0 PROVE me.ref \in 1..commits /\ made[me.ref].of = me.asks
        <5>1. me.ref \in 1..commits
          BY <1>6, <4>1
        <5>2. MadeOf(me.out[Len(me.out)], me.asks)
          BY <1>1, <2>4, <4>1, InputFits
        <5> QED BY <2>4, <4>1, <5>1, <5>2 DEF MadeOf
      <4> QED BY <2>7, <4>1
    <3>3. entry.ref = 0 => entry.of = key.line
      BY <2>4, <2>5, <2>7, <3>1
    <3>4. ASSUME NEW g \in 1..new
          PROVE  /\ made'[g].ref < g /\ made'[g].key.input = made'[g].ref
                 /\ IF made'[g].ref = 0
                    THEN made'[g].key.step = Package /\ made'[g].of = made'[g].key.line
                    ELSE made'[g].key.step # Package /\ made'[g].of = made'[made'[g].ref].of
      <4>1. CASE g \in 1..commits
        <5>1. made[g].ref < g /\ made[g].ref \in 0..MaxCommits
          <6>1. made[g] \in Commits
            BY <2>8, <4>1
          <6> QED BY <4>1, <6>1 DEF MadeFits, Commits
        <5>2. made[g].ref # 0 => made[g].ref \in 1..commits
          BY <4>1, <5>1, <1>7
        <5> QED BY <2>8, <4>1, <5>2 DEF MadeFits
      <4>2. CASE g = new
        BY <2>7, <2>8, <3>1, <3>2, <3>3, <4>2
      <4> QED BY <2>9, <4>1, <4>2
    <3>5. \A g \in 1..new : made'[g].key = key => made'[g].of = me.asks
      BY <1>8, <2>7, <2>8, <2>9
    <3>6. \A g, h \in 1..new : made'[g].key = made'[h].key => made'[g].of = made'[h].of
      <4> SUFFICES ASSUME NEW g \in 1..new, NEW h \in 1..new, made'[g].key = made'[h].key
                   PROVE  made'[g].of = made'[h].of
        OBVIOUS
      <4>1. CASE g = new \/ h = new
        BY <2>7, <2>8, <3>5, <4>1
      <4>2. CASE g # new /\ h # new
        BY <2>8, <2>9, <4>2 DEF MadeFits
      <4> QED BY <4>1, <4>2
    <3> QED BY <2>3, <3>4, <3>6, Zenon DEF MadeFits
  <2>13. MadeOf(key, me.asks)'
    <3>1. new \in 1..new /\ made'[new].key = key
      BY <2>7, <2>8, <2>9
    <3>2. \A g \in 1..new : made'[g].key = key => made'[g].of = me.asks
      BY <1>8, <2>7, <2>8, <2>9
    <3> QED BY <2>3, <3>1, <3>2, Zenon DEF MadeOf
  <2>14. Art!Lost' = Art!Lost
    <3>1. IsFiniteSet(artifacts)
      BY Losses
    <3>2. [key |-> key, gen |-> new] \notin artifacts
      BY <1>12 DEF Art!Valid
    <3>3. Cardinality(artifacts') = Cardinality(artifacts) + 1
      BY <2>3, <3>1, <3>2, FS_AddElement
    <3>4. Cardinality(artifacts) \in Nat
      BY <3>1, FS_CardinalityType
    <3>5. Art!Lost = commits - Cardinality(artifacts) /\ Art!Lost' = commits' - Cardinality(artifacts')
      BY StepNumbers, Zenon DEF Art!Lost
    <3> QED BY <1>7, <2>3, <3>3, <3>4, <3>5 DEF new
  <2> QED BY <1>3, <1>9, <1>10, <2>3, <2>10, <2>11, <2>12, <2>13, <2>14 DEF RunsKept
<1> QED BY <1>11, <1>12

\* An artifact is lost: one more.
LEMMA LoseKeeps ==
    ASSUME StoreFits, MadeFits, RunsFit, LoseArtifact
    PROVE  RunsKept /\ Art!Lost' = Art!Lost + 1 /\ reader' = reader
<1>1. PICK a \in artifacts :
        artifacts' = artifacts \ {a} /\ UNCHANGED <<commits, made, run, reader>>
  BY DEF LoseArtifact, Art!Lose
<1>2. commits \in Nat
  BY MaxCommitsAssumption DEF StoreFits
<1>3. StoreFits' /\ MadeFits' /\ Extends
  BY <1>1, <1>2 DEF StoreFits, MadeFits, Extends
<1>4. RunsFit'
  BY <1>1, RunsStay
<1>5. Art!Lost' = Art!Lost + 1
  <2>1. IsFiniteSet(artifacts)
    BY Losses
  <2>2. Cardinality(artifacts') = Cardinality(artifacts) - 1 /\ Cardinality(artifacts) \in Nat
    BY <1>1, <2>1, FS_RemoveElement, FS_CardinalityType
  <2>3. Art!Lost = commits - Cardinality(artifacts) /\ Art!Lost' = commits' - Cardinality(artifacts')
    BY StepNumbers, Zenon DEF Art!Lost
  <2> QED BY <1>1, <1>2, <2>2, <2>3
<1> QED BY <1>1, <1>3, <1>4, <1>5 DEF RunsKept

-----------------------------------------------------------------------------
(* The reader. *)

\* What holds of the next state of the reader holds of the reader in the next state.
LEMMA ReaderNext ==
    ASSUME NEW rd, rd = reader', ReaderFits(rd)', LossesFit(rd)'
    PROVE  ReaderFits(reader)' /\ LossesFit(reader)'
BY Zenon

\* A step of the reader leaves everything else alone.
LEMMA ReaderGoes ==
    ASSUME UNCHANGED <<artifacts, commits, made, run>>, NEW rd, rd = reader',
           ReaderFits(rd), LossesFit(rd)
    PROVE  ReaderFits(reader)' /\ LossesFit(reader)'
<1>1. ReaderFits(rd)'
  BY DEF ReaderFits, Reads, Below, Done, Out, Busy, BottomOf, Finished
<1>2. LossesFit(rd)'
  <2>1. Art!Lost' = Art!Lost
    BY DEF Art!Lost
  <2>2. \A g : There(g)' <=> There(g)
    BY DEF There, Art!Valid, Art!Gen
  <2>3. Undisturbed(rd) => Undisturbed(rd)'
    BY <2>2 DEF Undisturbed, Below, Done, BottomOf
  <2> QED BY <2>1, <2>3 DEF LossesFit, Busy
<1> QED BY <1>1, <1>2, ReaderNext

\* Commit g is the output of the i-th run that is read at the level above l; what it
\* was made from is the output at l.
Above(rd, i, l, g) == made[g].key = run[rd.runs[i]].out[l + 1]
LeadsTo(out, l, g) ==
    /\ made[g].ref \in 1..commits
    /\ made[made[g].ref].key = out[l]
    /\ \E j \in DOMAIN out : out[j] = made[made[g].ref].key

\* What the reader has above the level at hand was made from the output at that level.
LEMMA Downward ==
    ASSUME StoreFits, MadeFits, RunsFit, NEW rd, ReaderFits(rd), Busy(rd), NEW i \in 1..rd.at,
           NEW l \in Raw..Analysis, NEW g \in 1..commits,
           Above(rd, i, l, g)
    PROVE  LeadsTo(run[rd.runs[i]].out, l, g)
<1>1. PICK r : r = rd.runs[i]
  OBVIOUS
<1>2. r \in Runs /\ Finished(r)
  <2>1. rd.runs \in Seq(Runs)
    BY DEF ReaderFits, Readers
  <2>2. rd.runs[i] \in Runs
    BY <2>1 DEF ReaderFits, Reads
  <2>3. Finished(rd.runs[i])
    BY DEF ReaderFits, Reads
  <2> QED BY <1>1, <2>2, <2>3, Zenon
<1>3. OutputsFit(run[r]) /\ Len(run[r].out) = 4
  BY <1>2, StepNumbers DEF RunsFit, RunFits, Finished
<1>7. DOMAIN run[r].out = 1..4
  BY <1>2, <1>3 DEF RunsFit, RunStates
<1>4. l \in 2..3 /\ l + 1 \in 2..4 /\ l + 1 - 1 = l /\ l \in 1..4
  BY StepNumbers
<1>5. made[g].ref = run[r].out[l + 1].input
  BY <1>1 DEF MadeFits, Above
<1>6. run[r].out[l + 1].input \in 1..commits /\ made[run[r].out[l + 1].input].key = run[r].out[l]
  BY <1>3, <1>4 DEF OutputsFit
<1> QED BY <1>1, <1>4, <1>5, <1>6, <1>7 DEF LeadsTo

\* The same for the manifest that the reader has read last.
LEMMA Underneath ==
    ASSUME StoreFits, MadeFits, RunsFit, NEW rd, ReaderFits(rd), Busy(rd), Below(rd)
    PROVE  rd.above \in 1..commits /\ LeadsTo(Out(rd), rd.level, rd.above)
<1>1. /\ rd \in Readers /\ rd.above <= commits /\ Reads(rd)
  BY DEF ReaderFits
<1>2. /\ rd.level \in BottomOf(rd)..Summary /\ rd.at \in 1..Len(rd.runs)
      /\ rd.above # 0 /\ made[rd.above].key = Out(rd)[rd.level + 1]
  BY <1>1 DEF Reads
<1>3. rd.level < Summary
  BY DEF Below
<1>4. rd.level \in Raw..Analysis
  BY <1>2, <1>3 DEF BottomOf, Raw, Analysis, Summary
<1>5. rd.above \in 1..commits
  BY <1>1, <1>2 DEF Readers, StoreFits
<1>6. PICK i : i = rd.at
  OBVIOUS
<1>7. PICK l : l = rd.level
  OBVIOUS
<1>8. PICK g : g = rd.above
  OBVIOUS
<1>9. i \in 1..rd.at /\ l \in Raw..Analysis /\ g \in 1..commits
  BY <1>2, <1>4, <1>5, <1>6, <1>7, <1>8
<1>10. Out(rd) = run[rd.runs[i]].out
  BY <1>6 DEF Out
<1>11. Above(rd, i, l, g)
  BY <1>2, <1>7, <1>8, <1>10 DEF Above
<1>12. LeadsTo(run[rd.runs[i]].out, l, g)
  BY <1>9, <1>11, Downward, Zenon
<1> QED BY <1>5, <1>7, <1>8, <1>10, <1>12, Zenon

\* Runs go on and artifacts are made and lost: the reader has what it had.
LEMMA ReadsStay ==
    ASSUME StoreFits, RunsKept, NEW rd, ReaderFits(rd)
    PROVE  ReaderFits(rd)'
<1>1. /\ rd \in Readers /\ rd.above <= commits /\ rd.above <= commits'
      /\ commits \in Nat /\ commits' \in Nat /\ commits <= commits' /\ rd.above \in Nat
      /\ \A g \in 1..commits : made'[g] = made[g]
  BY DEF ReaderFits, RunsKept, Extends, Readers
<1>2. ASSUME Busy(rd) PROVE Reads(rd)'
  <2>1. Reads(rd)
    BY <1>2 DEF ReaderFits
  <2>2. \A i \in 1..rd.at : run'[rd.runs[i]] = run[rd.runs[i]]
    <3>1. \A i \in 1..rd.at : rd.runs[i] \in Runs
      BY <1>1, <2>1 DEF Readers, Reads
    <3> QED BY <2>1, <3>1 DEF Reads, RunsKept
  <2>3. \A i \in 1..rd.at : Finished(rd.runs[i])'
    BY <2>1, <2>2 DEF Reads, Finished
  <2>4. Out(rd)' = Out(rd)
    BY <2>1, <2>2 DEF Reads, Out
  <2>5. rd.above # 0 => made'[rd.above] = made[rd.above]
    BY <1>1
  <2>6. \A i \in 1..Len(rd.runs), l \in BottomOf(rd)..Summary : Done(rd, i, l) =>
           /\ rd.got[i][l] \in 1..commits'
           /\ made'[rd.got[i][l]].key = run'[rd.runs[i]].out[l]
    <3> SUFFICES ASSUME NEW i \in 1..Len(rd.runs), NEW l \in BottomOf(rd)..Summary, Done(rd, i, l)
                 PROVE  /\ rd.got[i][l] \in 1..commits'
                        /\ made'[rd.got[i][l]].key = run'[rd.runs[i]].out[l]
      OBVIOUS
    <3>1. PICK g : g = rd.got[i][l]
      OBVIOUS
    <3>2. g \in 1..commits /\ made[g].key = run[rd.runs[i]].out[l]
      BY <2>1, <3>1 DEF Reads
    <3>3. g \in 1..commits' /\ made'[g] = made[g]
      BY <1>1, <3>2
    <3>4. i \in 1..rd.at
      BY <1>1 DEF Done, Readers
    <3> QED BY <2>2, <3>1, <3>2, <3>3, <3>4
  <2> QED BY <2>1, <2>3, <2>4, <2>5, <2>6, Zenon DEF Reads, Below, Done, BottomOf
<1> QED BY <1>1, <1>2 DEF ReaderFits, Busy

\* Nothing is lost: what was there is there.
LEMMA ThereStays ==
    ASSUME StoreFits, RunsKept, artifacts \subseteq artifacts', NEW g \in 1..commits, There(g)
    PROVE  There(g)'
<1>1. made'[g] = made[g]
  BY DEF RunsKept, Extends
<1>2. \A a, b \in artifacts' : a.key = b.key => a = b
  BY DEF RunsKept, StoreFits
<1>3. Art!Valid(made[g].key) /\ Art!Gen(made[g].key) = g
  BY DEF There
<1>4. PICK k : k = made[g].key
  OBVIOUS
<1>5. Art!Valid(k)' /\ Art!Gen(k)' = g
  BY <1>2, <1>3, <1>4, ValidStays
<1> QED BY <1>1, <1>4, <1>5 DEF There

\* Runs that go on do not disturb the reader as long as nothing is lost.
LEMMA UndisturbedStays ==
    ASSUME StoreFits, MadeFits, RunsFit, RunsKept, artifacts \subseteq artifacts', NEW rd,
           ReaderFits(rd), Busy(rd), Undisturbed(rd)
    PROVE  Undisturbed(rd)'
<1>1. /\ commits \in Nat /\ commits' \in Nat /\ \A g \in 1..commits : made'[g] = made[g]
      /\ rd \in Readers /\ Reads(rd)
  BY DEF RunsKept, Extends, ReaderFits
<1>2. ASSUME rd.pc = "checking", Below(rd) PROVE There(made[rd.above].ref)'
  <2>1. rd.above \in 1..commits /\ made[rd.above].ref \in 1..commits
    BY <1>2, Underneath DEF LeadsTo
  <2>2. There(made[rd.above].ref)
    BY <1>2 DEF Undisturbed
  <2>3. PICK g : g = made[rd.above].ref
    OBVIOUS
  <2>4. There(g)'
    BY <2>1, <2>2, <2>3, ThereStays
  <2>5. g = made'[rd.above].ref
    BY <1>1, <2>1, <2>3
  <2>6. made'[g] = made[g]
    BY <1>1, <2>1, <2>3
  <2> QED BY <2>4, <2>5, Zenon
<1>3. ASSUME rd.pc = "reading" PROVE There(rd.above)'
  <2>1. rd.above \in 1..commits
    BY <1>1, <1>3 DEF Reads, Readers, ReaderFits
  <2> QED BY <1>3, <2>1, ThereStays DEF Undisturbed
<1>4. ASSUME rd.pc = "reading", rd.level < Summary
      PROVE  rd.above = made'[rd.got[rd.at][rd.level + 1]].ref
  <2>1. Done(rd, rd.at, rd.level + 1) /\ rd.level + 1 \in BottomOf(rd)..Summary
    BY <1>1, <1>4 DEF Done, Reads, BottomOf, Raw, Analysis, Summary
  <2>2. rd.got[rd.at][rd.level + 1] \in 1..commits
    BY <1>1, <2>1 DEF Reads
  <2> QED BY <1>1, <1>4, <2>2 DEF Undisturbed
<1>5. ASSUME NEW i \in 1..Len(rd.runs), NEW l \in BottomOf(rd)..Analysis, Done(rd, i, l)
      PROVE  rd.got[i][l] = made'[rd.got[i][l + 1]].ref
  <2>1. Done(rd, i, l + 1) /\ l + 1 \in BottomOf(rd)..Summary
    BY <1>1, <1>5 DEF Done, Reads, BottomOf, Raw, Analysis, Summary
  <2>2. rd.got[i][l + 1] \in 1..commits
    BY <1>1, <2>1 DEF Reads
  <2> QED BY <1>1, <1>5, <2>2 DEF Undisturbed
<1> QED BY <1>2, <1>3, <1>4, <1>5 DEF Undisturbed, Below, Done, BottomOf

\* Runs and losses do not disturb a request, but for the loss of an artifact.
LEMMA ReaderApart ==
    ASSUME CInv, RunsKept, reader' = reader,
           \/ (Art!Lost' = Art!Lost /\ artifacts \subseteq artifacts')
           \/ Art!Lost' = Art!Lost + 1
    PROVE  CInv'
<1>1. PICK rd : rd = reader
  OBVIOUS
<1>2. ReaderFits(rd) /\ LossesFit(rd)
  BY <1>1, Zenon DEF CInv
<1>3. ReaderFits(rd)'
  BY <1>2, ReadsStay DEF CInv
<1>4. LossesFit(rd)'
  <2>1. Art!Lost \in Nat
    BY Losses DEF CInv
  <2>2. rd.lost \in Int
    BY <1>2 DEF ReaderFits, Readers
  <2>3. CASE Art!Lost' = Art!Lost /\ artifacts \subseteq artifacts'
    <3>1. Busy(rd) /\ Undisturbed(rd) => Undisturbed(rd)'
      BY <1>2, <2>3, UndisturbedStays DEF CInv
    <3> QED BY <1>2, <2>3, <3>1 DEF LossesFit, Busy
  <2>4. CASE Art!Lost' = Art!Lost + 1
    BY <1>2, <2>1, <2>2, <2>4 DEF LossesFit, Busy
  <2> QED BY <2>3, <2>4
<1> QED BY <1>1, <1>3, <1>4, ReaderNext DEF CInv, RunsKept

\* The reader moves: the invariant holds if it holds of what the reader is then.
LEMMA ReaderMoves ==
    ASSUME CInv, UNCHANGED <<artifacts, commits, made, run>>, NEW rd, rd = reader',
           ReaderFits(rd), LossesFit(rd)
    PROVE  CInv'
<1>1. StoreFits' /\ MadeFits'
  BY StoreStays DEF CInv
<1>2. RunsFit'
  BY RunsStay DEF CInv
<1>3. ReaderFits(reader)' /\ LossesFit(reader)'
  BY ReaderGoes
<1> QED BY <1>1, <1>2, <1>3 DEF CInv

\* The number of artifacts lost is a number.
LEMMA LostNat ==
    ASSUME CInv
    PROVE  Art!Lost \in Nat /\ commits \in Nat
BY Losses, MaxCommitsAssumption DEF CInv, StoreFits

\* A request begins at the summary of the first run.
LEMMA RequestKeeps ==
    ASSUME CInv, NEW service \in {"compare", "report"}, NEW rs \in Seq(Runs),
           Len(rs) = IF service = "compare" THEN 2 ELSE 1, Request(service, rs)
    PROVE  CInv'
<1>1. /\ Finished(rs[1])
      /\ reader' = [Idle EXCEPT !.pc = "checking", !.service = service, !.runs = rs,
                                !.got = [i \in DOMAIN rs |-> Unread], !.lost = Art!Lost]
      /\ UNCHANGED <<artifacts, commits, made, run>>
  BY DEF Request
<1>2. PICK rd : rd = reader'
  OBVIOUS
<1>3. rd = [pc |-> "checking", service |-> service, runs |-> rs, at |-> 1, level |-> Summary,
            above |-> 0, got |-> [i \in DOMAIN rs |-> Unread], lost |-> Art!Lost]
  BY <1>1, <1>2 DEF Idle
<1>4. Art!Lost \in Nat
  BY LostNat
<1>5. PICK n : n = Len(rs)
  OBVIOUS
<1>6. n \in 1..2 /\ DOMAIN rs = 1..n /\ (n = IF service = "compare" THEN 2 ELSE 1)
  <2>1. n = IF service = "compare" THEN 2 ELSE 1
    BY <1>5, Zenon
  <2>2. DOMAIN rs = 1..n
    BY <1>5, LenProperties, Zenon
  <2> QED BY <2>1, <2>2
<1>7. Unread \in Read
  BY MaxCommitsAssumption DEF Unread, Read, Levels
<1>8. rd.got \in [1..n -> Read]
  BY <1>3, <1>6, <1>7
<1>9. /\ rd.pc = "checking" /\ rd.service = service /\ rd.runs = rs /\ rd.at = 1
      /\ rd.level = Summary /\ rd.above = 0 /\ rd.lost = Art!Lost
  BY <1>3
<1>10. rd \in Readers
  <2>1. rd.got \in {<<>>} \cup [1..1 -> Read] \cup [1..2 -> Read]
    BY <1>6, <1>8
  <2>2. Summary \in Levels /\ 0 \in 0..MaxCommits /\ "checking" \in PCs
    BY MaxCommitsAssumption DEF Levels, PCs, Raw, Summary
  <2>3. rd = [pc |-> "checking", service |-> service, runs |-> rs, at |-> 1, level |-> Summary,
              above |-> 0, got |-> rd.got, lost |-> Art!Lost]
    BY <1>3
  <2> QED BY <1>4, <2>1, <2>2, <2>3 DEF Readers
<1>11. ~ Below(rd) /\ \A i \in 1..n, l \in BottomOf(rd)..Summary : ~ Done(rd, i, l)
  BY <1>6, <1>9, StepNumbers DEF Below, Done, BottomOf
<1>12. Reads(rd)
  <2>1. rd.level \in BottomOf(rd)..Summary /\ rd.at \in 1..n
    BY <1>6, <1>9, StepNumbers DEF BottomOf
  <2> QED BY <1>1, <1>5, <1>6, <1>8, <1>9, <1>11, <2>1 DEF Reads
<1>13. Undisturbed(rd)
  <2>1. \A l \in BottomOf(rd)..Analysis : l \in BottomOf(rd)..Summary
    BY StepNumbers DEF BottomOf
  <2> QED BY <1>5, <1>9, <1>11, <2>1 DEF Undisturbed
<1>14. ReaderFits(rd)
  BY <1>4, <1>9, <1>10, <1>12, LostNat DEF ReaderFits
<1>15. LossesFit(rd)
  BY <1>4, <1>9, <1>13 DEF LossesFit
<1> QED BY <1>1, <1>2, <1>14, <1>15, ReaderMoves

\* A request is refused: something was lost.
LEMMA RefuseKeeps ==
    ASSUME CInv, UNCHANGED <<artifacts, commits, made, run>>, reader' = Refuse, Art!Lost # 0
    PROVE  CInv'
<1>1. PICK rd : rd = reader'
  OBVIOUS
<1>2. reader \in Readers /\ reader.above <= commits
  BY DEF CInv, ReaderFits
<1>3. rd \in Readers /\ rd.pc = "refused" /\ rd.above <= commits
  BY <1>1, <1>2 DEF Refuse, Readers, PCs
<1> QED BY <1>1, <1>3, ReaderMoves DEF ReaderFits, LossesFit, Busy

\* The answer is sent, or nothing is asked any more.
LEMMA IdleKeeps ==
    ASSUME CInv, UNCHANGED <<artifacts, commits, made, run>>, reader' = Idle
    PROVE  CInv'
<1>1. PICK rd : rd = Idle
  OBVIOUS
<1>2. rd = reader' /\ UNCHANGED <<artifacts, commits, made, run>>
  BY <1>1
<1>3. rd \in Readers /\ rd.pc = "idle" /\ rd.above = 0
  <2>1. <<>> \in Seq(Runs)
    OBVIOUS
  <2> QED BY <1>1, <2>1, MaxCommitsAssumption DEF Idle, Readers, PCs, Levels, Raw, Summary
<1> QED BY <1>2, <1>3, LostNat, ReaderMoves DEF ReaderFits, LossesFit, Busy

\* The hash of the next manifest: if nothing is lost it is the one that was named.
LEMMA VerifyKeeps ==
    ASSUME CInv, VerifyManifestHash
    PROVE  CInv'
<1>1. PICK rd : rd = reader
  OBVIOUS
<1>2. /\ rd.pc = "verifying" /\ UNCHANGED <<artifacts, commits, made, run>>
      /\ reader' = IF HashMatches THEN [rd EXCEPT !.pc = "checking"] ELSE Refuse
  BY <1>1 DEF VerifyManifestHash
<1>3. ReaderFits(rd) /\ LossesFit(rd) /\ StoreFits /\ MadeFits /\ RunsFit
  BY <1>1, Zenon DEF CInv
<1>4. Busy(rd) /\ Reads(rd) /\ rd \in Readers /\ rd.above <= commits
  BY <1>2, <1>3 DEF Busy, ReaderFits
<1>5. Below(rd)
  BY <1>2, <1>4 DEF Reads, Below
<1>6. made[rd.above].ref \in 1..commits
  BY <1>3, <1>4, <1>5, Underneath DEF LeadsTo
<1>7. PICK h : h = made[rd.above].ref
  OBVIOUS
<1>8. HashMatches <=> There(h)
  <2>1. reader.level # Summary
    BY <1>1, <1>4, <1>5 DEF Below, Readers, Levels, Summary
  <2> QED BY <1>1, <1>7, <2>1 DEF HashMatches, Path, RefHash, There
<1>9. CASE HashMatches
  <2>1. PICK new : new = [rd EXCEPT !.pc = "checking"]
    OBVIOUS
  <2>2. new = reader'
    BY <1>2, <1>9, <2>1
  <2>3. /\ new \in Readers /\ new.pc = "checking" /\ new.service = rd.service
        /\ new.runs = rd.runs /\ new.at = rd.at /\ new.level = rd.level
        /\ new.above = rd.above /\ new.got = rd.got /\ new.lost = rd.lost
    BY <1>4, <2>1 DEF Readers, PCs
  <2>4. /\ Below(new) /\ BottomOf(new) = BottomOf(rd) /\ Out(new) = Out(rd)
        /\ \A i, l : Done(new, i, l) => Done(rd, i, l)
    BY <1>5, <2>3 DEF Below, BottomOf, Out, Done
  <2>5. Reads(new)
    BY <1>4, <1>5, <2>3, <2>4 DEF Reads
  <2>6. Undisturbed(rd) => Undisturbed(new)
    <3>1. There(made[new.above].ref)
      BY <1>7, <1>8, <1>9, <2>3
    <3> QED BY <1>5, <2>3, <2>4, <3>1 DEF Undisturbed
  <2>7. ReaderFits(new) /\ LossesFit(new)
    BY <1>2, <1>3, <1>4, <2>3, <2>5, <2>6 DEF ReaderFits, LossesFit, Busy
  <2> QED BY <1>2, <2>2, <2>7, ReaderMoves
<1>10. CASE ~ HashMatches
  <2>1. Art!Lost # 0
    BY <1>3, <1>6, <1>7, <1>8, <1>10, AllThere
  <2> QED BY <1>2, <1>10, <2>1, RefuseKeeps
<1> QED BY <1>9, <1>10

\* The manifest of an artifact: if nothing is lost it is there and is what the run says.
LEMMA ManifestKeeps ==
    ASSUME CInv, ValidManifest
    PROVE  CInv'
<1>1. PICK rd : rd = reader
  OBVIOUS
<1>2. PICK path : path = Path
  OBVIOUS
<1>3. /\ rd.pc = "checking" /\ UNCHANGED <<artifacts, commits, made, run>>
      /\ reader' = IF /\ Art!Valid(path)
                      /\ rd.service = "compare" =>
                            IF rd.level = Summary THEN FirstInputHash ELSE FindStep
                   THEN [rd EXCEPT !.pc = "reading", !.above = Art!Gen(path)]
                   ELSE Refuse
  BY <1>1, <1>2 DEF ValidManifest
<1>4. ReaderFits(rd) /\ LossesFit(rd) /\ StoreFits /\ MadeFits /\ RunsFit
  BY <1>1, Zenon DEF CInv
<1>5. Busy(rd) /\ Reads(rd) /\ rd \in Readers /\ rd.above <= commits
  BY <1>3, <1>4 DEF Busy, ReaderFits
<1>6. PICK r : r = rd.runs[rd.at]
  OBVIOUS
<1>7. /\ r \in Runs /\ Finished(r) /\ Out(rd) = run[r].out /\ Current = r
      /\ rd.level \in BottomOf(rd)..Summary /\ rd.level \in Raw..Summary
  <2>1. rd.at \in 1..Len(rd.runs) /\ rd.runs \in Seq(Runs) /\ Finished(rd.runs[rd.at])
    BY <1>5 DEF Reads, Readers
  <2>2. rd.runs[rd.at] \in Runs
    BY <2>1
  <2>3. Out(rd) = run[r].out /\ Current = r
    BY <1>1, <1>6 DEF Out, Current
  <2> QED BY <1>5, <1>6, <2>1, <2>2, <2>3, Zenon DEF Reads, Readers, Levels
<1>8. OutputsFit(run[r]) /\ ClaimFits(run[r]) /\ Len(run[r].out) = Summary
  BY <1>4, <1>7 DEF RunsFit, RunFits, Finished
<1>9. rd.level # Summary => Below(rd)
  BY <1>3, <1>7 DEF Below, Raw, Summary
<1>10. PICK h : h = made[rd.above].ref
  OBVIOUS
<1>11. Below(rd) => /\ path = made[h].key /\ h \in 1..commits /\ FindStep
                    /\ path = Out(rd)[rd.level]
  <2> SUFFICES ASSUME Below(rd)
               PROVE  path = made[h].key /\ h \in 1..commits /\ FindStep /\ path = Out(rd)[rd.level]
    OBVIOUS
  <2>1. LeadsTo(Out(rd), rd.level, rd.above)
    BY <1>4, <1>5, Underneath
  <2>2. path = made[h].key
    <3>1. rd.level # Summary
      BY <1>7 DEF Below, Raw, Summary
    <3> QED BY <1>1, <1>2, <1>10, <3>1 DEF Path, RefHash
  <2>3. \E i \in DOMAIN run[r].out : run[r].out[i] = path
    BY <1>7, <1>10, <2>1, <2>2 DEF LeadsTo
  <2>4. FindStep
    BY <1>2, <1>7, <2>3, Zenon DEF FindStep
  <2> QED BY <1>10, <2>1, <2>2, <2>4 DEF LeadsTo
<1>12. rd.level = Summary => path = run[r].out[Summary] /\ path = Out(rd)[rd.level]
  BY <1>1, <1>2, <1>7 DEF Path
<1>13. Art!Valid(path) => Art!Gen(path) \in 1..commits /\ made[Art!Gen(path)].key = path
  BY <1>4, Stored
<1>14. Art!Valid(path) /\ rd.level = Summary => FirstInputHash
  <2>1. run[r].out[Summary].input = run[r].ref
    BY <1>8 DEF ClaimFits
  <2>2. \A g \in 1..commits : made[g].ref = made[g].key.input
    BY <1>4 DEF MadeFits
  <2> QED BY <1>2, <1>7, <1>12, <1>13, <2>1, <2>2 DEF FirstInputHash
<1>15. CASE Art!Valid(path)
  <2>1. PICK new : new = [rd EXCEPT !.pc = "reading", !.above = Art!Gen(path)]
    OBVIOUS
  <2>2. new = reader'
    BY <1>3, <1>9, <1>11, <1>14, <1>15, <2>1
  <2>3. /\ new.pc = "reading" /\ new.service = rd.service
        /\ new.runs = rd.runs /\ new.at = rd.at /\ new.level = rd.level
        /\ new.above = Art!Gen(path) /\ new.got = rd.got /\ new.lost = rd.lost
    BY <1>5, <2>1 DEF Readers
  <2>4. new.above \in 1..commits /\ made[new.above].key = path
    BY <1>13, <1>15, <2>3
  <2>5. new \in Readers /\ new.above <= commits
    <3>1. commits \in 0..MaxCommits /\ MaxCommits \in Nat
      BY <1>4, MaxCommitsAssumption DEF StoreFits
    <3>2. Art!Gen(path) \in 1..commits
      BY <1>13, <1>15
    <3>3. Art!Gen(path) \in 0..MaxCommits
      BY <3>1, <3>2
    <3>4. PICK g : g = Art!Gen(path)
      OBVIOUS
    <3>5. new = [rd EXCEPT !.pc = "reading", !.above = g]
      BY <2>1, <3>4, Zenon
    <3>6. new \in Readers
      BY <1>5, <3>3, <3>4, <3>5 DEF Readers, PCs
    <3>7. Art!Gen(path) <= commits
      BY <3>1, <3>2
    <3> QED BY <2>3, <3>6, <3>7, Zenon
  <2>6. /\ ~ Below(new) /\ BottomOf(new) = BottomOf(rd) /\ Out(new) = Out(rd)
        /\ \A i, l : Done(new, i, l) => Done(rd, i, l)
    BY <1>3, <2>3 DEF Below, BottomOf, Out, Done
  <2>7. Reads(new)
    <3>1. made[new.above].key = Out(new)[new.level] /\ new.above # 0
      BY <1>9, <1>11, <1>12, <2>3, <2>4, <2>6
    <3> QED BY <1>5, <2>3, <2>6, <3>1 DEF Reads
  <2>8. Undisturbed(rd) => Undisturbed(new)
    <3> SUFFICES ASSUME Undisturbed(rd) PROVE Undisturbed(new)
      OBVIOUS
    <3>1. There(new.above)
      BY <1>15, <2>3, <2>4 DEF There
    <3>2. ASSUME new.level < Summary
          PROVE  new.above = made[new.got[new.at][new.level + 1]].ref
      <4>1. Below(rd)
        BY <1>3, <2>3, <3>2 DEF Below
      <4>2. There(h) /\ rd.above = rd.got[rd.at][rd.level + 1]
        BY <1>3, <1>10, <4>1 DEF Undisturbed
      <4>3. Art!Gen(path) = h
        BY <1>11, <4>1, <4>2 DEF There
      <4> QED BY <1>10, <2>3, <4>2, <4>3
    <3>3. \A i \in 1..Len(new.runs), l \in BottomOf(new)..Analysis : Done(new, i, l) =>
             new.got[i][l] = made[new.got[i][l + 1]].ref
      BY <2>3, <2>6 DEF Undisturbed
    <3> QED BY <2>3, <2>6, <3>1, <3>2, <3>3 DEF Undisturbed
  <2>9. ReaderFits(new) /\ LossesFit(new)
    BY <1>4, <1>5, <2>3, <2>5, <2>7, <2>8 DEF ReaderFits, LossesFit, Busy
  <2> QED BY <1>3, <2>2, <2>9, ReaderMoves
<1>16. CASE ~ Art!Valid(path)
  <2>1. Art!Lost # 0
    <3>1. PICK g \in 1..commits : made[g].key = path
      <4>1. CASE rd.level = Summary
        <5>1. MadeOf(run[r].out[Summary], run[r].asks)
          <6>1. Summary \in 1..Len(run[r].out)
            BY <1>8, StepNumbers
          <6> QED BY <1>8, <6>1 DEF OutputsFit
        <5> QED BY <1>12, <4>1, <5>1 DEF MadeOf
      <4>2. CASE rd.level # Summary
        BY <1>9, <1>11, <4>2
      <4> QED BY <4>1, <4>2
    <3> QED BY <1>4, <1>16, <3>1, AllThere DEF There
  <2> QED BY <1>3, <1>16, <2>1, RefuseKeeps
<1> QED BY <1>15, <1>16

\* What is read of a run, with one more.
ReadMore(n, old, i, l, h, new) ==
    /\ new \in [1..n -> Read] /\ new[i][l] = h
    /\ \A j \in 1..n, k \in Levels : j # i \/ k # l => new[j][k] = old[j][k]

\* It is a function again, and differs in one place.
LEMMA OneMoreRead ==
    ASSUME NEW n \in 1..2, NEW old \in [1..n -> Read], NEW i \in 1..n, NEW l \in Levels,
           NEW h \in 0..MaxCommits, NEW line, line = [old[i] EXCEPT ![l] = h],
           NEW new, new = [old EXCEPT ![i] = line]
    PROVE  ReadMore(n, old, i, l, h, new)
<1>1. old[i] \in Read
  OBVIOUS
<1>2. line \in Read /\ line[l] = h /\ \A k \in Levels : k # l => line[k] = old[i][k]
  BY <1>1 DEF Read
<1>3. new \in [1..n -> Read] /\ new[i] = line /\ \A j \in 1..n : j # i => new[j] = old[j]
  BY <1>2
<1> QED BY <1>2, <1>3 DEF ReadMore

\* The data is read: the directory holds what has that manifest, or another artifact with
\* the same key; at the bottom the reader turns to the next run.
LEMMA ReadKeeps ==
    ASSUME CInv, ReadArtifact
    PROVE  CInv'
<1>1. PICK rd : rd = reader
  OBVIOUS
<1>2. PICK g : g = rd.above
  OBVIOUS
<1>3. PICK path : path = made[g].key
  OBVIOUS
<1>4. PICK h : h = Art!Gen(path)
  OBVIOUS
<1>19. PICK line : line = [rd.got[rd.at] EXCEPT ![rd.level] = h]
  OBVIOUS
<1>5. PICK got : got = [rd.got EXCEPT ![rd.at] = line]
  OBVIOUS
<1>6. PICK pc : pc = IF rd.level # BottomOf(rd) THEN "verifying"
                     ELSE IF rd.at < Len(rd.runs) THEN "checking" ELSE "answered"
  OBVIOUS
<1>7. PICK at : at = IF rd.level = BottomOf(rd) /\ rd.at < Len(rd.runs) THEN rd.at + 1 ELSE rd.at
  OBVIOUS
<1>8. PICK level : level = IF rd.level = BottomOf(rd) THEN Summary ELSE rd.level - 1
  OBVIOUS
<1>9. PICK new : new = [rd EXCEPT !.got = got, !.pc = pc, !.at = at, !.level = level]
  OBVIOUS
<1>10. /\ rd.pc = "reading" /\ UNCHANGED <<artifacts, commits, made, run>>
       /\ reader' = IF ~ Art!Valid(path) THEN Refuse
                    ELSE IF rd.level = BottomOf(rd) /\ rd.at < Len(rd.runs)
                                /\ ~ Finished(rd.runs[rd.at + 1]) THEN Idle
                    ELSE new
  <2>1. Bottom = BottomOf(rd)
    BY <1>1 DEF Bottom, BottomOf
  <2>2. rd.pc = "reading" /\ UNCHANGED <<artifacts, commits, made, run>>
    BY <1>1 DEF ReadArtifact
  <2> QED BY <1>1, <1>2, <1>3, <1>4, <1>19, <1>5, <1>6, <1>7, <1>8, <1>9, <2>1, <2>2 DEF ReadArtifact
<1>11. ReaderFits(rd) /\ LossesFit(rd) /\ StoreFits /\ MadeFits /\ RunsFit
  BY <1>1, Zenon DEF CInv
<1>12. Busy(rd) /\ Reads(rd) /\ rd \in Readers /\ rd.above <= commits
  BY <1>10, <1>11 DEF Busy, ReaderFits
<1>13. PICK n : n = Len(rd.runs)
  OBVIOUS
<1>14. /\ n \in 1..2 /\ rd.at \in 1..n /\ rd.got \in [1..n -> Read]
       /\ rd.level \in BottomOf(rd)..Summary /\ rd.level \in Levels
       /\ BottomOf(rd) \in {Raw, Analysis}
  <2>1. n = IF rd.service = "compare" THEN 2 ELSE 1
    BY <1>12, <1>13 DEF Reads
  <2>2. n \in 1..2
    BY <2>1
  <2> QED BY <1>12, <1>13, <2>2 DEF Reads, Readers, BottomOf
<1>15. g \in 1..commits /\ path = Out(rd)[rd.level]
  <2>1. rd.above # 0 /\ made[rd.above].key = Out(rd)[rd.level]
    BY <1>10, <1>12 DEF Reads
  <2>2. g \in Nat /\ commits \in Nat /\ g <= commits /\ g # 0
    BY <1>2, <1>12, <2>1, LostNat DEF Readers
  <2> QED BY <1>2, <1>3, <2>1, <2>2
<1>16. CASE ~ Art!Valid(path)
  <2>1. Art!Lost # 0
    BY <1>3, <1>11, <1>15, <1>16, AllThere DEF There
  <2> QED BY <1>10, <1>16, <2>1, RefuseKeeps
<1>18. CASE Art!Valid(path) /\ reader' = Idle
  BY <1>10, <1>18, IdleKeeps
<1>17. CASE Art!Valid(path) /\ reader' # Idle
  <2>1. reader' = new
    BY <1>10, <1>17
  <2>2. h \in 1..commits /\ made[h].key = path
    BY <1>4, <1>11, <1>17, Stored
  <2>3. h \in 0..MaxCommits
    BY <1>11, <2>2, MaxCommitsAssumption DEF StoreFits
  <2>4. /\ got \in [1..n -> Read] /\ got[rd.at][rd.level] = h
        /\ \A j \in 1..n, k \in Levels : j # rd.at \/ k # rd.level => got[j][k] = rd.got[j][k]
    <3>1. PICK i : i = rd.at
      OBVIOUS
    <3>2. PICK l : l = rd.level
      OBVIOUS
    <3>3. PICK old : old = rd.got
      OBVIOUS
    <3>4. i \in 1..n /\ l \in Levels /\ old \in [1..n -> Read] /\ n \in 1..2
      BY <1>14, <3>1, <3>2, <3>3, Zenon
    <3>5. line = [old[i] EXCEPT ![l] = h] /\ got = [old EXCEPT ![i] = line]
      BY <1>5, <1>19, <3>1, <3>2, <3>3, Zenon
    <3>6. ReadMore(n, old, i, l, h, got)
      BY <2>3, <3>4, <3>5, OneMoreRead, Zenon
    <3> QED BY <3>1, <3>2, <3>3, <3>6, Zenon DEF ReadMore
  <2>5. /\ new.pc = pc /\ new.service = rd.service /\ new.runs = rd.runs /\ new.at = at
        /\ new.level = level /\ new.above = g /\ new.got = got /\ new.lost = rd.lost
    BY <1>2, <1>9, <1>12 DEF Readers
  <2>6. pc \in PCs /\ at \in 1..n /\ level \in Levels /\ level \in BottomOf(rd)..Summary
    <3>1. pc \in PCs
      BY <1>6 DEF PCs
    <3>2. at \in 1..n
      BY <1>7, <1>13, <1>14
    <3>3. level \in Levels /\ level \in BottomOf(rd)..Summary
      BY <1>8, <1>14 DEF Levels, Raw, Analysis, Summary
    <3> QED BY <3>1, <3>2, <3>3
  <2>7. new \in Readers
    <3>1. got \in {<<>>} \cup [1..1 -> Read] \cup [1..2 -> Read]
      BY <1>14, <2>4
    <3>2. at \in Nat
      BY <1>14, <2>6
    <3> QED BY <1>9, <1>12, <2>6, <3>1, <3>2 DEF Readers
  <2>8. BottomOf(new) = BottomOf(rd)
    BY <2>5 DEF BottomOf
  <2>9. \A i \in 1..n, l \in BottomOf(rd)..Summary :
           Done(new, i, l) => Done(rd, i, l) \/ (i = rd.at /\ l = rd.level)
    <3> SUFFICES ASSUME NEW i \in 1..n, NEW l \in BottomOf(rd)..Summary, Done(new, i, l),
                        ~ (i = rd.at /\ l = rd.level)
                 PROVE  Done(rd, i, l)
      OBVIOUS
    <3>1. l \in Int /\ l <= Summary /\ l >= BottomOf(rd)
      BY <1>14 DEF Raw, Analysis, Summary
    <3>2. i < at \/ (i = at /\ (l > level \/ pc = "answered"))
      BY <2>5 DEF Done
    <3>3. CASE rd.level # BottomOf(rd)
      <4>1. at = rd.at /\ level = rd.level - 1 /\ pc # "answered"
        BY <1>6, <1>7, <1>8, <3>3
      <4> QED BY <1>14, <3>1, <3>2, <4>1 DEF Done, Levels
    <3>4. CASE rd.level = BottomOf(rd)
      <4>1. l > rd.level \/ l = rd.level
        BY <1>14, <3>1, <3>4 DEF Raw, Analysis
      <4>2. CASE rd.at < n
        <5>1. at = rd.at + 1 /\ pc = "checking" /\ level = Summary
          BY <1>6, <1>7, <1>8, <1>13, <3>4, <4>2
        <5>2. i < rd.at + 1
          BY <3>1, <3>2, <5>1 DEF Summary
        <5>3. i < rd.at \/ i = rd.at
          BY <1>14, <5>2
        <5> QED BY <4>1, <5>3 DEF Done
      <4>3. CASE ~ rd.at < n
        <5>1. at = rd.at
          BY <1>7, <1>13, <4>3
        <5> QED BY <3>2, <4>1, <5>1 DEF Done
      <4> QED BY <4>2, <4>3
    <3> QED BY <3>3, <3>4
  <2>10. \A i \in 1..n, l \in BottomOf(rd)..Summary : l \in Levels
    BY <1>14 DEF Levels, Raw, Analysis, Summary
  <2>11. Below(new) => Out(new)[new.level + 1] = path
    <3>1. CASE rd.level = BottomOf(rd)
      BY <1>8, <2>5, <3>1 DEF Below, Summary
    <3>2. CASE rd.level # BottomOf(rd)
      <4>1. new.level + 1 = rd.level /\ new.at = rd.at
        BY <1>7, <1>8, <1>14, <2>5, <3>2 DEF Levels
      <4> QED BY <1>15, <2>5, <4>1 DEF Out
    <3> QED BY <3>1, <3>2
  <2>15. new.above # 0 /\ made[new.above].key = path
    <3>1. g # 0
      BY <1>15, LostNat
    <3> QED BY <1>3, <2>5, <3>1, Zenon
  <2>16. new.service = rd.service /\ new.runs = rd.runs /\ Len(new.runs) = n
    BY <1>13, <2>5
  <2>12. Reads(new)
    <3>1. ASSUME NEW i \in 1..n, NEW l \in BottomOf(rd)..Summary, Done(new, i, l)
          PROVE  got[i][l] \in 1..commits /\ made[got[i][l]].key = run[rd.runs[i]].out[l]
      <4>1. CASE i = rd.at /\ l = rd.level
        BY <1>15, <2>2, <2>4, <4>1 DEF Out
      <4>2. CASE ~ (i = rd.at /\ l = rd.level)
        <5>1. Done(rd, i, l) /\ got[i][l] = rd.got[i][l]
          BY <2>4, <2>9, <2>10, <3>1, <4>2
        <5>2. rd.got[i][l] \in 1..commits /\ made[rd.got[i][l]].key = run[rd.runs[i]].out[l]
          BY <1>12, <1>13, <5>1 DEF Reads
        <5> QED BY <5>1, <5>2
      <4> QED BY <4>1, <4>2
    <3>2. pc = "verifying" => level < Summary
      BY <1>6, <1>8, <1>14 DEF Levels, Raw, Summary
    <3>3. pc = "answered" => at = n
      BY <1>6, <1>7, <1>13, <1>14
    <3>4. pc # "reading"
      BY <1>6
    <3>5. Below(new) => new.above # 0 /\ made[new.above].key = Out(new)[new.level + 1]
      BY <2>11, <2>15, Zenon
    <3>6. /\ rd.service \in {"compare", "report"}
          /\ n = IF rd.service = "compare" THEN 2 ELSE 1
      BY <1>12, <1>13 DEF Reads
    <3>10. \A i \in 1..at : Finished(rd.runs[i])
      <4>1. \A i \in 1..rd.at : Finished(rd.runs[i])
        BY <1>12 DEF Reads
      <4>2. at = rd.at \/ (at = rd.at + 1 /\ Finished(rd.runs[rd.at + 1]))
        BY <1>7, <1>10, <1>17
      <4> QED BY <1>14, <4>1, <4>2
    <3>7. /\ new.service \in {"compare", "report"}
          /\ Len(new.runs) = IF new.service = "compare" THEN 2 ELSE 1
          /\ \A i \in 1..new.at : Finished(new.runs[i])
      BY <2>5, <2>16, <3>6, <3>10, Zenon
    <3>8. /\ new.at \in 1..Len(new.runs) /\ new.level \in BottomOf(new)..Summary
          /\ new.got \in [1..Len(new.runs) -> Read]
          /\ new.pc = "verifying" => new.level < Summary
          /\ new.pc = "answered" => new.at = Len(new.runs)
          /\ new.pc # "reading"
      BY <2>4, <2>5, <2>6, <2>8, <2>16, <3>2, <3>3, <3>4, Zenon
    <3>9. \A i \in 1..Len(new.runs), l \in BottomOf(new)..Summary : Done(new, i, l) =>
             /\ new.got[i][l] \in 1..commits
             /\ made[new.got[i][l]].key = run[new.runs[i]].out[l]
      BY <2>5, <2>8, <2>16, <3>1, Zenon
    <3> QED BY <3>5, <3>7, <3>8, <3>9, Zenon DEF Reads
  <2>13. Undisturbed(rd) => Undisturbed(new)
    <3> SUFFICES ASSUME Undisturbed(rd) PROVE Undisturbed(new)
      OBVIOUS
    <3>1. h = g
      BY <1>2, <1>3, <1>4, <1>10 DEF Undisturbed, There
    <3>2. pc = "checking" => ~ Below(new)
      BY <1>6, <1>8, <2>5 DEF Below, Summary
    <3>3. Below(new) => g = got[at][level + 1]
      <4>1. ASSUME Below(new) PROVE rd.level # BottomOf(rd)
        BY <1>8, <2>5, <4>1 DEF Below, Summary
      <4>2. ASSUME rd.level # BottomOf(rd) PROVE at = rd.at /\ level + 1 = rd.level
        BY <1>7, <1>8, <1>14, <4>2 DEF Levels
      <4> QED BY <2>4, <3>1, <4>1, <4>2
    <3>4. pc # "reading"
      BY <1>6
    <3>5. ASSUME NEW i \in 1..n, NEW l \in BottomOf(rd)..Analysis, Done(new, i, l)
          PROVE  got[i][l] = made[got[i][l + 1]].ref
      <4>1. /\ l \in BottomOf(rd)..Summary /\ l + 1 \in BottomOf(rd)..Summary
            /\ l \in Levels /\ l + 1 \in Levels /\ l \in Int
        BY <1>14 DEF Raw, Analysis, Summary, Levels
      <4>2. rd.level < Summary => g = made[rd.got[rd.at][rd.level + 1]].ref
        BY <1>2, <1>10 DEF Undisturbed
      <4>3. \A j \in 1..n, k \in BottomOf(rd)..Analysis : Done(rd, j, k) =>
               rd.got[j][k] = made[rd.got[j][k + 1]].ref
        BY <1>13 DEF Undisturbed
      <4>4. CASE i = rd.at /\ l = rd.level
        <5>1. l < Summary /\ l + 1 # rd.level
          BY <4>1, <4>4 DEF Analysis, Summary
        <5>2. got[i][l] = g /\ got[i][l + 1] = rd.got[rd.at][rd.level + 1]
          BY <2>4, <3>1, <4>1, <4>4, <5>1
        <5> QED BY <4>2, <4>4, <5>1, <5>2
      <4>5. CASE ~ (i = rd.at /\ l = rd.level)
        <5>1. Done(rd, i, l) /\ got[i][l] = rd.got[i][l]
          BY <2>4, <2>9, <3>5, <4>1, <4>5
        <5>2. ~ (i = rd.at /\ l + 1 = rd.level)
          BY <1>10, <1>14, <4>1, <5>1 DEF Done, Levels
        <5>3. got[i][l + 1] = rd.got[i][l + 1]
          BY <2>4, <4>1, <5>2
        <5> QED BY <4>3, <5>1, <5>3
      <4> QED BY <4>4, <4>5
    <3>6. /\ ~ (new.pc = "checking" /\ Below(new)) /\ new.pc # "reading"
          /\ Below(new) => new.above = new.got[new.at][new.level + 1]
      BY <2>5, <3>2, <3>3, <3>4, Zenon
    <3>7. \A i \in 1..Len(new.runs), l \in BottomOf(new)..Analysis : Done(new, i, l) =>
             new.got[i][l] = made[new.got[i][l + 1]].ref
      BY <2>5, <2>8, <2>16, <3>5, Zenon
    <3> QED BY <3>6, <3>7, Zenon DEF Undisturbed
  <2>14. ReaderFits(new) /\ LossesFit(new)
    <3>1. pc # "refused" /\ new.above <= commits
      BY <1>2, <1>6, <1>12, <2>5
    <3> QED BY <1>11, <1>12, <2>5, <2>7, <2>12, <2>13, <3>1 DEF ReaderFits, LossesFit, Busy
  <2> QED BY <1>10, <2>1, <2>14, ReaderMoves
<1> QED BY <1>16, <1>17, <1>18

-----------------------------------------------------------------------------
(* The theorems. *)

\* Nothing is there, no run has begun and nothing is asked.
LEMMA InitFits ==
    ASSUME Init
    PROVE  CInv
<1>1. artifacts = {} /\ commits = 0 /\ made = <<>>
  BY DEF Init, Art!Init
<1>2. StoreFits /\ MadeFits
  <2>1. 0 \in 0..MaxCommits /\ 1..0 = {}
    BY MaxCommitsAssumption
  <2>2. <<>> \in Seq(Commits) /\ Len(<<>>) = 0
    OBVIOUS
  <2> QED BY <1>1, <2>1, <2>2 DEF StoreFits, MadeFits
<1>3. RunsFit
  <2>1. run \in [Runs -> [asks : Lines, out : {<<>>}, next : {Null}, ref : {0}]]
    BY DEF Init, Lines
  <2>2. \A r \in Runs : RunFits(run[r])
    <3> SUFFICES ASSUME NEW r \in Runs PROVE RunFits(run[r])
      OBVIOUS
    <3>1. run[r] \in [asks : Lines, out : {<<>>}, next : {Null}, ref : {0}]
      BY <2>1
    <3>2. run[r].out = <<>> /\ run[r].next = Null /\ run[r].ref = 0
      BY <3>1
    <3>3. run[r] \in RunStates
      <4>1. <<>> \in Seq(ArtifactKeys) /\ 0 \in 0..MaxCommits
        BY MaxCommitsAssumption
      <4> QED BY <3>1, <4>1 DEF RunStates
    <3>4. Len(<<>>) = 0 /\ 1..0 = {} /\ 2..0 = {}
      OBVIOUS
    <3>5. OutputsFit(run[r])
      BY <3>2, <3>4 DEF OutputsFit, Summary
    <3>6. ClaimFits(run[r])
      BY <1>1, <3>2, <3>4 DEF ClaimFits, Summary
    <3> QED BY <3>3, <3>5, <3>6 DEF RunFits
  <2>3. run \in [Runs -> RunStates]
    BY <2>1, <2>2 DEF RunFits
  <2> QED BY <2>2, <2>3 DEF RunsFit
<1>4. reader = Idle /\ reader.pc = "idle" /\ reader.above = 0
  BY DEF Init, Idle
<1>5. Idle \in Readers
  <2>1. <<>> \in Seq(Runs)
    OBVIOUS
  <2> QED BY <2>1, MaxCommitsAssumption DEF Idle, Readers, PCs, Levels, Raw, Summary
<1>6. ReaderFits(reader) /\ LossesFit(reader)
  BY <1>1, <1>4, <1>5 DEF ReaderFits, LossesFit, Busy
<1> QED BY <1>2, <1>3, <1>6, Zenon DEF CInv

\* Every step keeps the invariant.
LEMMA StepFits ==
    ASSUME CInv, [Next]_vars
    PROVE  CInv'
<1>1. ASSUME NEW r \in Runs, Prepare(r) PROVE CInv'
  <2>1. RunsKept /\ UNCHANGED <<artifacts, commits, reader>>
    BY <1>1, PrepareKeeps DEF CInv
  <2>2. Art!Lost' = Art!Lost
    BY <2>1 DEF Art!Lost
  <2> QED BY <2>1, <2>2, ReaderApart
<1>2. ASSUME NEW r \in Runs, Execute(r) PROVE CInv'
  <2>1. RunsKept /\ Art!Lost' = Art!Lost /\ artifacts \subseteq artifacts' /\ reader' = reader
    BY <1>2, ExecuteKeeps DEF CInv
  <2> QED BY <2>1, ReaderApart
<1>3. ASSUME NEW r \in Runs, Fail(r) PROVE CInv'
  <2>1. RunsKept /\ UNCHANGED <<artifacts, commits, reader>>
    BY <1>3, FailKeeps DEF CInv
  <2>2. Art!Lost' = Art!Lost
    BY <2>1 DEF Art!Lost
  <2> QED BY <2>1, <2>2, ReaderApart
<1>4. ASSUME LoseArtifact PROVE CInv'
  BY <1>4, LoseKeeps, ReaderApart DEF CInv
<1>5. ASSUME NEW r \in Runs, NEW q \in Runs, Request("compare", <<r, q>>) PROVE CInv'
  <2>1. <<r, q>> \in Seq(Runs) /\ Len(<<r, q>>) = 2
    OBVIOUS
  <2>2. PICK service : service = "compare"
    OBVIOUS
  <2>3. PICK rs : rs = <<r, q>>
    OBVIOUS
  <2> QED BY <1>5, <2>1, <2>2, <2>3, RequestKeeps
<1>6. ASSUME NEW r \in Runs, Request("report", <<r>>) PROVE CInv'
  <2>1. <<r>> \in Seq(Runs) /\ Len(<<r>>) = 1
    OBVIOUS
  <2>2. PICK service : service = "report"
    OBVIOUS
  <2>3. PICK rs : rs = <<r>>
    OBVIOUS
  <2> QED BY <1>6, <2>1, <2>2, <2>3, RequestKeeps
<1>7. CASE VerifyManifestHash
  BY <1>7, VerifyKeeps
<1>8. CASE ValidManifest
  BY <1>8, ManifestKeeps
<1>9. CASE ReadArtifact
  BY <1>9, ReadKeeps
<1>10. CASE Respond
  BY <1>10, IdleKeeps DEF Respond
<1>11. CASE UNCHANGED vars
  <2>1. UNCHANGED <<artifacts, commits, made, run>> /\ reader' = reader
    BY <1>11 DEF vars
  <2>2. PICK rd : rd = reader
    OBVIOUS
  <2>3. ReaderFits(rd) /\ LossesFit(rd) /\ rd = reader'
    BY <2>1, <2>2, Zenon DEF CInv
  <2> QED BY <2>1, <2>3, ReaderMoves
<1> QED BY <1>1, <1>2, <1>3, <1>4, <1>5, <1>6, <1>7, <1>8, <1>9, <1>10, <1>11, Zenon DEF Next

\* The invariant holds in every state of every behaviour: requests, runs and losses in
\* any order.
THEOREM Invariance == Spec => []CInv
BY InitFits, StepFits, PTL DEF Spec

\* Every variable has its type, the log of commits and the store agree on their number,
\* and what a commit was made from came before it.
THEOREM TypeCorrect == Spec => []TypeOK
<1>1. CInv => TypeOK
  <2> SUFFICES ASSUME CInv PROVE TypeOK
    OBVIOUS
  <2>1. StoreFits /\ MadeFits /\ RunsFit /\ ReaderFits(reader)
    BY DEF CInv
  <2>2. /\ commits \in 0..MaxCommits /\ commits \in Nat /\ made \in Seq(Commits)
        /\ Len(made) = commits /\ DOMAIN made = 1..commits
    BY <2>1, MaxCommitsAssumption DEF StoreFits
  <2>3. artifacts \subseteq [key : ArtifactKeys, gen : 1..commits]
    <3> SUFFICES ASSUME NEW a \in artifacts PROVE a \in [key : ArtifactKeys, gen : 1..commits]
      OBVIOUS
    <3>1. PICK g \in 1..commits : a = [key |-> made[g].key, gen |-> g]
      BY <2>1 DEF StoreFits
    <3>2. made[g].key \in ArtifactKeys
      <4>1. made[g] \in Commits
        BY <2>2
      <4> QED BY <4>1 DEF Commits
    <3> QED BY <3>1, <3>2
  <2>4. \A g \in DOMAIN made : made[g] \in [key : ArtifactKeys, ref : 0..g - 1, of : DOMAIN RecordsOf]
    <3> SUFFICES ASSUME NEW g \in 1..commits
                 PROVE  made[g] \in [key : ArtifactKeys, ref : 0..g - 1, of : DOMAIN RecordsOf]
      BY <2>2
    <3>1. made[g] \in Commits
      BY <2>2
    <3>2. made[g].ref \in 0..g - 1
      BY <2>1, <3>1, MaxCommitsAssumption DEF MadeFits, Commits
    <3> QED BY <3>1, <3>2 DEF Commits, Lines
  <2>5. ASSUME NEW r \in Runs
        PROVE  /\ Len(run[r].out) <= Summary
               /\ \A i \in DOMAIN run[r].out : run[r].out[i] \in ArtifactKeys
               /\ run[r].next \in ArtifactKeys \cup {Null} /\ run[r].ref \in 0..commits
    <3>1. RunFits(run[r]) /\ run[r] \in RunStates
      BY <2>1 DEF RunsFit
    <3>2. Len(run[r].out) <= Summary /\ run[r].ref \in 0..commits
      BY <3>1 DEF RunFits, OutputsFit, ClaimFits
    <3>3. run[r].out \in Seq(ArtifactKeys) /\ run[r].next \in ArtifactKeys \cup {Null}
      BY <3>1 DEF RunStates
    <3> QED BY <3>2, <3>3
  <2>6. reader.pc \in PCs /\ reader.above \in 0..commits
    BY <2>1, <2>2, MaxCommitsAssumption DEF ReaderFits, Readers
  <2> QED BY <2>2, <2>3, <2>4, <2>5, <2>6 DEF TypeOK, PCs
<1> QED BY <1>1, Invariance, PTL

\* Unless an artifact is lost under the reader's hands, it reads the very artifacts that
\* the summary was made from, although nothing is locked and runs go on.
THEOREM ReadsWhatTheSummaryNamesCorrect == Spec => []ReadsWhatTheSummaryNames
<1>1. CInv => ReadsWhatTheSummaryNames
  <2> SUFFICES ASSUME CInv, reader.pc = "answered", Art!Lost = reader.lost,
                      NEW i \in DOMAIN reader.got, NEW l \in Bottom..Analysis
               PROVE  reader.got[i][l] = made[reader.got[i][l + 1]].ref
    BY DEF ReadsWhatTheSummaryNames
  <2>1. PICK rd : rd = reader
    OBVIOUS
  <2>2. ReaderFits(rd) /\ LossesFit(rd)
    BY <2>1, Zenon DEF CInv
  <2>3. Busy(rd) /\ Reads(rd) /\ Undisturbed(rd)
    BY <2>1, <2>2 DEF Busy, ReaderFits, LossesFit
  <2>4. i \in 1..Len(rd.runs) /\ Bottom = BottomOf(rd) /\ rd.at = Len(rd.runs) /\ rd.pc = "answered"
    BY <2>1, <2>3 DEF Reads, Bottom, BottomOf
  <2>5. Done(rd, i, l)
    <3>1. rd.at \in Nat /\ i \in Nat /\ i <= rd.at
      BY <2>2, <2>4 DEF ReaderFits, Readers
    <3> QED BY <2>4, <3>1 DEF Done
  <2>6. rd.got[i][l] = made[rd.got[i][l + 1]].ref
    BY <2>3, <2>4, <2>5 DEF Undisturbed
  <2> QED BY <2>1, <2>6
<1> QED BY <1>1, Invariance, PTL

\* As long as nothing was lost no request is refused: every artifact of a finished run
\* can be read, whether the run made it or found it.
THEOREM FinishedIsReadableCorrect == Spec => []FinishedIsReadable
<1>1. CInv => FinishedIsReadable
  BY DEF CInv, LossesFit, FinishedIsReadable
<1> QED BY <1>1, Invariance, PTL

\* What is read of a run at any level comes from what that run was asked to fetch.
ReadsWhatWasAsked ==
    reader.pc = "answered" =>
        \A i \in DOMAIN reader.got : \A l \in Bottom..Summary :
            /\ reader.runs[i] \in Runs
            /\ made[reader.got[i][l]].of = run[reader.runs[i]].asks

\* Whatever is lost and made again, by this run or another, an answer is made of what
\* the runs were asked to fetch.
LEMMA AnswersFit ==
    ASSUME CInv
    PROVE  ReadsWhatWasAsked
<1> SUFFICES ASSUME reader.pc = "answered", NEW i \in DOMAIN reader.got, NEW l \in Bottom..Summary
             PROVE  /\ reader.runs[i] \in Runs
                    /\ made[reader.got[i][l]].of = run[reader.runs[i]].asks
  BY DEF ReadsWhatWasAsked
<1>1. PICK rd : rd = reader
  OBVIOUS
<1>2. ReaderFits(rd) /\ RunsFit
  BY <1>1, Zenon DEF CInv
<1>3. Reads(rd) /\ rd \in Readers
  BY <1>1, <1>2 DEF Busy, ReaderFits
<1>4. i \in 1..Len(rd.runs) /\ Bottom = BottomOf(rd) /\ rd.at = Len(rd.runs) /\ rd.pc = "answered"
  BY <1>1, <1>3 DEF Reads, Bottom, BottomOf
<1>5. Done(rd, i, l)
  <2>1. rd.at \in Nat /\ i \in Nat /\ i <= rd.at
    BY <1>3, <1>4 DEF Readers
  <2> QED BY <1>4, <2>1 DEF Done
<1>6. PICK r : r = rd.runs[i]
  OBVIOUS
<1>7. r \in Runs /\ Finished(r)
  <2>1. rd.runs \in Seq(Runs) /\ Finished(rd.runs[i])
    BY <1>3, <1>4 DEF Readers, Reads
  <2>2. rd.runs[i] \in Runs
    BY <1>4, <2>1
  <2> QED BY <1>6, <2>1, <2>2, Zenon
<1>8. OutputsFit(run[r]) /\ Len(run[r].out) = Summary
  BY <1>2, <1>7 DEF RunsFit, RunFits, Finished
<1>9. l \in 1..Summary
  BY <1>4, StepNumbers DEF BottomOf
<1>10. MadeOf(run[r].out[l], run[r].asks)
  BY <1>8, <1>9, Zenon DEF OutputsFit
<1>11. rd.got[i][l] \in 1..commits /\ made[rd.got[i][l]].key = run[r].out[l]
  BY <1>3, <1>4, <1>5, <1>6 DEF Reads
<1> QED BY <1>1, <1>6, <1>7, <1>10, <1>11 DEF MadeOf

\* Every answer is made of what the runs were asked to fetch.
THEOREM ReadsWhatWasAskedCorrect == Spec => []ReadsWhatWasAsked
BY AnswersFit, Invariance, PTL

\* Two of the lists that are compared are lists of the same records.
LEMMA SameRecords ==
    ASSUME NEW l, l \in Seq({l[i] : i \in DOMAIN l}), NEW r, r \in Seq({r[i] : i \in DOMAIN r})
    PROVE  \E X : l \in Seq(X) /\ r \in Seq(X)
<1> DEFINE X == {l[i] : i \in DOMAIN l} \cup {r[i] : i \in DOMAIN r}
<1>1. ASSUME NEW s, s \in Seq({s[i] : i \in DOMAIN s}), {s[i] : i \in DOMAIN s} \subseteq X
      PROVE  s \in Seq(X)
  <2>1. PICK Y : Y = {s[i] : i \in DOMAIN s}
    OBVIOUS
  <2>2. s \in Seq(Y) /\ Y \subseteq X
    BY <1>1, <2>1, Zenon
  <2> HIDE DEF X
  <2>3. Len(s) \in Nat /\ s \in [1..Len(s) -> Y]
    BY <2>2, LenProperties
  <2>4. s \in [1..Len(s) -> X]
    BY <2>2, <2>3
  <2> QED BY <2>3, <2>4, SeqDef
<1>2. l \in Seq(X) /\ r \in Seq(X)
  BY <1>1
<1> QED BY <1>2

\* What compare counts is right for every pair of lists in Samples.
THEOREM DifferenceIsExactCorrect == Spec => []DifferenceIsExact
<1>1. DifferenceIsExact
  <2> SUFFICES ASSUME NEW l \in Samples, NEW r \in Samples,
                      ~ HasDuplicates(l), ~ HasDuplicates(r), DistinctTexts(l, r)
               PROVE  Difference(l, r) = TrueDifference(l, r)
    BY DEF DifferenceIsExact
  <2>1. l \in Seq({l[i] : i \in DOMAIN l}) /\ r \in Seq({r[i] : i \in DOMAIN r})
    BY ListsAssumption
  <2>2. PICK X : l \in Seq(X) /\ r \in Seq(X)
    BY <2>1, SameRecords, Zenon
  <2> QED BY <2>2, DifferenceExact
<1> QED BY <1>1, PTL

\* What compare and download say is true of what the runs were asked to fetch, although
\* nothing is locked and any artifact may be lost or made again between two reads.
THEOREM AnswersAreTrueCorrect == Spec => []AnswersAreTrue
<1>1. CInv => AnswersAreTrue
  <2> SUFFICES ASSUME CInv, reader.pc = "answered" PROVE AnswersAreTrue
    BY DEF AnswersAreTrue
  <2>1. PICK rd : rd = reader
    OBVIOUS
  <2>2. ReaderFits(rd) /\ RunsFit
    BY <2>1, Zenon DEF CInv
  <2>3. Reads(rd)
    BY <2>1, <2>2 DEF Busy, ReaderFits
  <2>4. /\ reader.service \in {"compare", "report"}
        /\ DOMAIN reader.got = 1..(IF reader.service = "compare" THEN 2 ELSE 1)
    BY <2>1, <2>3 DEF Reads
  <2>5. \A i \in DOMAIN reader.got : \A l \in Bottom..Summary :
           /\ reader.runs[i] \in Runs
           /\ made[reader.got[i][l]].of = run[reader.runs[i]].asks
    BY AnswersFit DEF ReadsWhatWasAsked
  <2>6. CASE reader.service = "report"
    <3>1. Analysis \in Bottom..Summary /\ 1 \in DOMAIN reader.got
      BY <2>4, <2>6 DEF Bottom, Analysis, Summary
    <3>2. made[reader.got[1][Analysis]].of = run[reader.runs[1]].asks
      BY <2>5, <3>1, Zenon
    <3> QED BY <2>6, <3>2, Zenon DEF AnswersAreTrue
  <2>7. CASE reader.service = "compare"
    <3>1. Raw \in Bottom..Summary /\ 1 \in DOMAIN reader.got /\ 2 \in DOMAIN reader.got
      BY <2>4, <2>7, StepNumbers DEF Bottom
    <3>2. ASSUME NEW i \in {1, 2}
          PROVE  /\ Records(i) = Asked(i)
                 /\ Asked(i) \in Seq({Asked(i)[j] : j \in DOMAIN Asked(i)})
      <4>1. i \in DOMAIN reader.got
        BY <3>1
      <4>2. reader.runs[i] \in Runs /\ made[reader.got[i][Raw]].of = run[reader.runs[i]].asks
        BY <2>5, <3>1, <4>1, Zenon
      <4>3. PICK q : q = run[reader.runs[i]].asks
        OBVIOUS
      <4>4. q \in DOMAIN RecordsOf
        BY <2>2, <4>2, <4>3 DEF RunsFit, RunStates, Lines
      <4>5. PICK s : s = RecordsOf[q]
        OBVIOUS
      <4>6. s \in Seq({s[j] : j \in DOMAIN s})
        BY <4>4, <4>5, ListsAssumption
      <4>7. Records(i) = s /\ Asked(i) = s
        BY <4>2, <4>3, <4>5, Zenon DEF Records, Asked
      <4> QED BY <4>6, <4>7, Zenon
    <3>3. PICK l : l = Asked(1)
      OBVIOUS
    <3>4. PICK r : r = Asked(2)
      OBVIOUS
    <3>5. l \in Seq({l[j] : j \in DOMAIN l}) /\ r \in Seq({r[j] : j \in DOMAIN r})
      <4>1. 1 \in {1, 2} /\ 2 \in {1, 2}
        OBVIOUS
      <4> QED BY <3>2, <3>3, <3>4, <4>1, Zenon
    <3>6. PICK X : l \in Seq(X) /\ r \in Seq(X)
      BY <3>5, SameRecords
    <3>7. ~ HasDuplicates(l) /\ ~ HasDuplicates(r) /\ DistinctTexts(l, r)
             => Difference(l, r) = TrueDifference(l, r)
      BY <3>6, DifferenceExact
    <3>8. Records(1) = l /\ Records(2) = r
      BY <3>2, <3>3, <3>4
    <3>9. reader.service # "report"
      BY <2>7
    <3> QED BY <3>3, <3>4, <3>7, <3>8, <3>9, Zenon DEF AnswersAreTrue
  <2> QED BY <2>4, <2>6, <2>7
<1> QED BY <1>1, Invariance, PTL
=============================================================================
