---------------------------- MODULE CompareService ----------------------------
(***************************************************************************)
(* A request that reads results (compare_service.py, result_service.py)    *)
(* while runs are executed and artifacts are lost and made again.  Nothing *)
(* is locked: the reader goes from the summary of a run to the artifacts   *)
(* it was made from, and checks each manifest against the hash in the one  *)
(* above.                                                                  *)
(*                                                                         *)
(* Runs are executed as SqliteWorker does it, without the queue: a worker  *)
(* computes the key of the next step (Prepare) and executes it later.      *)
(***************************************************************************)
EXTENDS RecordDiff

CONSTANTS
    Runs, Null,
    RecordsOf,      \* the records that each request fetches
    Samples,        \* lists of records on which Difference is checked
    MaxLosses, MaxCommits       \* bounds

VARIABLES
    artifacts, commits,     \* see Artifacts
    made,                   \* what each commit has put on disk
    run,                    \* what a run asks for, the outputs of its finished steps,
                            \* key and input hash of the step that is claimed
    reader                  \* the request that is being answered

vars == <<artifacts, commits, made, run, reader>>

Package == 1   Raw == 2   Analysis == 3   Summary == 4

\* build_cache_key: fetch_raw and analyze hash the params, all but fetch_raw the
\* hash of their input manifest, which every commit makes a new one.
ArtifactKeys == [step : Package..Summary, line : DOMAIN RecordsOf \cup {Null},
                 input : 0..MaxCommits]

ASSUME MaxCommitsAssumption == MaxCommits \in Nat
ASSUME NullAssumption == Null \notin ArtifactKeys
ASSUME ListsAssumption ==
    \A s \in {RecordsOf[q] : q \in DOMAIN RecordsOf} \cup Samples : s \in Seq({s[i] : i \in DOMAIN s})

Art == INSTANCE Artifacts WITH Keys <- ArtifactKeys

Unread == [l \in Raw..Summary |-> 0]
Idle == [pc |-> "idle", service |-> Null, runs |-> <<>>, at |-> 1, level |-> Summary,
         above |-> 0, got |-> <<>>, lost |-> 0]

Init == /\ Art!Init
        /\ made = <<>>
        /\ run \in [Runs -> [asks : DOMAIN RecordsOf, out : {<<>>}, next : {Null},
                             ref : {0}]]
        /\ reader = Idle

Finished(r) == Len(run[r].out) = Summary

-----------------------------------------------------------------------------
(* Runs. *)

\* The artifact that run r has as the input of its next step, if it has one,
\* and the hash of its manifest.
Input(r) == run[r].out[Len(run[r].out)]
InputHash(r) == IF run[r].out = <<>> THEN 0 ELSE Art!Gen(Input(r))
InputValid(r) == run[r].out # <<>> => Art!Valid(Input(r))

\* Mutant: the key leaves out the hash of the input manifest.
NextKeyWithoutInput(r) ==
    LET step == Len(run[r].out) + 1 IN
    [step  |-> step,
     line  |-> IF step \in {Package, Analysis} THEN run[r].asks ELSE Null,
     input |-> 0]

NextKey(r) ==
    LET step == Len(run[r].out) + 1 IN
    [step  |-> step,
     line  |-> IF step \in {Package, Analysis} THEN run[r].asks ELSE Null,
     input |-> InputHash(r)]

Prepare(r) ==
    /\ ~Finished(r) /\ run[r].next = Null
    /\ InputValid(r)
    /\ run' = [run EXCEPT ![r].next = NextKey(r), ![r].ref = InputHash(r)]
    /\ UNCHANGED <<artifacts, commits, made, reader>>

\* The artifact is found under its key, or made from what is at the input path.
Execute(r) ==
    LET key == run[r].next IN
    /\ key # Null /\ commits < MaxCommits
    /\ Art!Valid(key) \/ InputValid(r)
    /\ Art!Commit(key)
    /\ made' = IF Art!Valid(key) THEN made
               ELSE Append(made, [key |-> key, ref |-> run[r].ref,
                                  of  |-> IF key.step = Package THEN run[r].asks
                                          ELSE made[Art!Gen(Input(r))].of])
    /\ run' = [run EXCEPT ![r].out = Append(@, key), ![r].next = Null]
    /\ UNCHANGED reader

\* The filter raises, or the worker loses the step.
Fail(r) ==
    /\ run[r].next # Null
    /\ run' = [run EXCEPT ![r].next = Null]
    /\ UNCHANGED <<artifacts, commits, made, reader>>

\* A file of an artifact is deleted.
LoseArtifact ==
    /\ Art!Lost < MaxLosses
    /\ Art!Lose
    /\ UNCHANGED <<made, run, reader>>

-----------------------------------------------------------------------------
(* Requests.  The hash of a manifest, the manifest and the data file are     *)
(* read one after the other.                                               *)

\* compare reads two runs down to their records; get and download read one
\* down to the full report.
Bottom == IF reader.service = "compare" THEN Raw ELSE Analysis

\* A run that is not finished when its turn comes ends the request (409,
\* not_ready).
Request(service, rs) ==
    /\ reader.pc = "idle"
    /\ Finished(rs[1])
    /\ reader' = [Idle EXCEPT !.pc = "checking", !.service = service, !.runs = rs,
                              !.got = [i \in DOMAIN rs |-> Unread], !.lost = Art!Lost]
    /\ UNCHANGED <<artifacts, commits, made, run>>

\* The run that is being read, the manifest hash that the manifest read before
\* names, and the path of the next manifest.
Current == reader.runs[reader.at]
RefHash == made[reader.above].ref
Path == IF reader.level = Summary THEN run[Current].out[Summary] ELSE made[RefHash].key

Refuse == [reader EXCEPT !.pc = "refused"]

\* Mutant: the hash of the manifest is not compared.
AnyHash == Art!Valid(Path)

HashMatches == Art!Valid(Path) /\ Art!Gen(Path) = RefHash

\* (compare does so twice in a row: only the second time counts.)
VerifyManifestHash ==
    /\ reader.pc = "verifying"
    /\ reader' = IF HashMatches THEN [reader EXCEPT !.pc = "checking"] ELSE Refuse
    /\ UNCHANGED <<artifacts, commits, made, run>>

\* Mutant: only the step before the final one is looked at.
FindStepBeforeFinal == run[Current].out[Summary - 1] = Path

\* compare accepts an artifact only as the output of a step of the run, and a
\* summary only if it was made from the input of the final step.
FindStep == \E i \in DOMAIN run[Current].out : run[Current].out[i] = Path
FirstInputHash == made[Art!Gen(Path)].ref = run[Current].ref

ValidManifest ==
    /\ reader.pc = "checking"
    /\ reader' = IF /\ Art!Valid(Path)
                    /\ reader.service = "compare" =>
                          IF reader.level = Summary THEN FirstInputHash ELSE FindStep
                 THEN [reader EXCEPT !.pc = "reading", !.above = Art!Gen(Path)]
                 ELSE Refuse
    /\ UNCHANGED <<artifacts, commits, made, run>>

\* The data file is read from the directory of the manifest, whatever commit has
\* put it there by now.
ReadArtifact ==
    /\ reader.pc = "reading"
    /\ LET path == made[reader.above].key
           done == reader.level = Bottom
           more == reader.at < Len(reader.runs) IN
       reader' =
          IF ~Art!Valid(path) THEN Refuse
          ELSE IF done /\ more /\ ~Finished(reader.runs[reader.at + 1]) THEN Idle
          ELSE [reader EXCEPT
                   !.got[reader.at][reader.level] = Art!Gen(path),
                   !.pc = IF ~done THEN "verifying" ELSE IF more THEN "checking" ELSE "answered",
                   !.at = IF done /\ more THEN @ + 1 ELSE @,
                   !.level = IF done THEN Summary ELSE @ - 1]
    /\ UNCHANGED <<artifacts, commits, made, run>>

Respond ==
    /\ reader.pc \in {"answered", "refused"}
    /\ reader' = Idle
    /\ UNCHANGED <<artifacts, commits, made, run>>

Next ==
    \/ \E r \in Runs : Prepare(r) \/ Execute(r) \/ Fail(r)
    \/ LoseArtifact
    \/ \E r, q \in Runs : Request("compare", <<r, q>>)
    \/ \E r \in Runs : Request("report", <<r>>)
    \/ VerifyManifestHash \/ ValidManifest \/ ReadArtifact \/ Respond

Spec == Init /\ [][Next]_vars

-----------------------------------------------------------------------------
(* Properties. *)

TypeOK ==
    /\ artifacts \subseteq [key : ArtifactKeys, gen : 1..commits]
    /\ commits \in 0..MaxCommits /\ commits = Len(made)
    /\ \A g \in DOMAIN made : made[g] \in [key : ArtifactKeys, ref : 0..g - 1, of : DOMAIN RecordsOf]
    /\ \A r \in Runs : /\ Len(run[r].out) <= Summary
                       /\ \A i \in DOMAIN run[r].out : run[r].out[i] \in ArtifactKeys
                       /\ run[r].next \in ArtifactKeys \cup {Null}
                       /\ run[r].ref \in 0..commits
    /\ reader.pc \in {"idle", "verifying", "checking", "reading", "answered", "refused"}
    /\ reader.above \in 0..commits

\* What the answer says about the i-th run.
Records(i) == RecordsOf[made[reader.got[i][Raw]].of]
Asked(i) == RecordsOf[run[reader.runs[i]].asks]

\* What compare and download say is true of what the runs were asked to fetch,
\* although nothing is locked and any artifact may be lost or made again, by
\* another run too, between two reads.
AnswersAreTrue ==
    reader.pc = "answered" =>
        IF reader.service = "report"
        THEN made[reader.got[1][Analysis]].of = run[reader.runs[1]].asks
        ELSE ~HasDuplicates(Asked(1)) /\ ~HasDuplicates(Asked(2))
                 /\ DistinctTexts(Asked(1), Asked(2))
             => Difference(Records(1), Records(2)) = TrueDifference(Asked(1), Asked(2))

\* Unless an artifact is lost under the reader's hands, it reads the very
\* artifacts that the summary was made from, and none made later in their place.
ReadsWhatTheSummaryNames ==
    reader.pc = "answered" /\ Art!Lost = reader.lost =>
        \A i \in DOMAIN reader.got : \A l \in Bottom..Analysis :
            reader.got[i][l] = made[reader.got[i][l + 1]].ref

\* A finished run can be read as long as nothing was lost, whether its steps
\* were executed or found in the cache.
FinishedIsReadable ==
    Art!Lost = 0 => reader.pc # "refused"

\* The record difference is exact for all lists of records in Samples whose ids
\* are distinct and print differently: what is said to be added, removed or
\* changed is, and equal records without an id are told apart by their number.
\* (A fact about operators: it is enough to look at it in an initial state.)
DifferenceIsExact ==
    Init => \A l, r \in Samples :
               ~HasDuplicates(l) /\ ~HasDuplicates(r) /\ DistinctTexts(l, r)
                   => Difference(l, r) = TrueDifference(l, r)
=============================================================================
