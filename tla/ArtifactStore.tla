----------------------------- MODULE ArtifactStore -----------------------------
(***************************************************************************)
(* repositories/artifact_store.py at the level of files: how execute()     *)
(* makes an artifact under the artifact lock (temporary directory, filter, *)
(* commit), what a process that reads artifacts without the lock sees      *)
(* (valid_manifest, manifest_hash), and clean_tmp, which a starting API    *)
(* runs beside the workers of other processes.  One action is one          *)
(* operation on one file or directory.  (The checks of execute and commit, *)
(* the hashes of build_manifest and the deletion of a temporary directory  *)
(* by an attempt are one step each.)                                       *)
(*                                                                         *)
(* A temporary directory has the name of a run, a step and an attempt, and *)
(* no key.  A stale executor and the one that has the step now may be in   *)
(* one directory with one key, and the artifact lock keeps them apart; or  *)
(* with two keys (the input was made again, or the nonce was saved in      *)
(* between), and nothing does.                                             *)
(***************************************************************************)
EXTENDS Integers

CONSTANTS
    Keys,           \* cache keys: each names a target directory
    Files,          \* the files of an artifact, manifest.json not counted
    Dirs,           \* temporary directories: one per run, step and attempt
    Attempts,       \* the executions of steps: each makes one artifact, or not
    KeyOf, DirOf,   \* the key and the temporary directory of an attempt
    Wanted,         \* the keys of the artifacts that are read
    Product,        \* what the filter of an attempt writes into the files
    None,           \* there is no such file or directory
    MaxFaults       \* bound: how many artifacts are lost or damaged, and how
                    \* often an API starts, together

Products == {Product[a] : a \in Attempts}

\* A file that has been opened to copy x into it, and is not complete.
Partial(x) == <<"partial", x>>
Partials == {Partial(x) : x \in Products}

ASSUME AttemptsAssumption == /\ KeyOf \in [Attempts -> Keys]
                             /\ DirOf \in [Attempts -> Dirs]
                             /\ Files # {} /\ Wanted \subseteq Keys
ASSUME NoneAssumption == /\ None \notin Products \cup Partials
                         /\ Products \cap Partials = {}
                         /\ None \notin [gen : Nat, hashes : [Files -> Products]]

VARIABLES
    target,     \* the target directory of each key
    tmp,        \* the temporary directories
    attempt,    \* where each attempt is, the files it has still to handle, and the
                \* hashes that its manifest has
    reader,     \* a process that reads artifacts: _deps, a filter, a service
    cleaning,   \* the directories that clean_tmp has still to delete
    commits,    \* how many manifests have been written
    losses, cleans      \* how many losses and API starts there have been

vars == <<target, tmp, attempt, reader, cleaning, commits, losses, cleans>>

\* The hash of a file tells what the file holds.
Manifest == [gen : Nat, hashes : [Files -> Products]]
NoFiles == [f \in Files |-> None]
Idle == [pc |-> "idle", key |-> None, manifest |-> None, unchecked |-> {}]

\* A target directory.
Directory == [files    : [Files -> Products \cup {None} \cup Partials],
              manifest : Manifest \cup {None}]

\* Where an attempt may be, without and with a manifest in its hands.
Position == [pc     : {"waiting", "filtering", "written", "done", "aborted"},
             left   : SUBSET Files,
             hashes : {NoFiles}]
                \cup [pc     : {"built", "removing", "copying"},
                      left   : SUBSET Files,
                      hashes : [Files -> Products]]

TypeOK ==
    /\ target \in [Keys -> Directory]
    /\ tmp \in [Dirs -> [Files -> Products \cup {None}] \cup {None}]
    /\ attempt \in [Attempts -> Position]
    /\ reader \in [pc : {"idle", "checking", "valid"}, key : Keys \cup {None},
                   manifest : Manifest \cup {None}, unchecked : SUBSET Files]
    /\ cleaning \subseteq Dirs
    /\ commits \in Nat
    /\ losses \in Nat
    /\ cleans \in Nat

Init == /\ target = [k \in Keys |-> [files |-> NoFiles, manifest |-> None]]
        /\ tmp = [d \in Dirs |-> None]
        /\ attempt = [a \in Attempts |-> [pc |-> "waiting", left |-> {}, hashes |-> NoFiles]]
        /\ reader = Idle
        /\ cleaning = {}
        /\ commits = 0
        /\ losses = 0
        /\ cleans = 0

-----------------------------------------------------------------------------
\* valid_manifest: the files are there and are what the manifest says.
Intact(k, manifest) == \A f \in Files : target[k].files[f] = manifest.hashes[f]
Valid(k) == target[k].manifest # None /\ Intact(k, target[k].manifest)

At(a, pc) == attempt[a].pc = pc
Goto(a, pc, left) == attempt' = [attempt EXCEPT ![a].pc = pc, ![a].left = left]
End(a, pc) == attempt' = [attempt EXCEPT ![a] = [pc |-> pc, left |-> {}, hashes |-> NoFiles]]

\* The attempts inside `with artifact_lock`.  The lock is released at the end
\* of the block, by an exception, and by the end of the process.
HoldsLock(a) == attempt[a].pc \notin {"waiting", "done", "aborted"}

\* Mutant: there is no lock.
LockFreeAlways(k) == k \in Keys

LockFree(k) == \A a \in Attempts : KeyOf[a] = k => ~HoldsLock(a)

-----------------------------------------------------------------------------
(* An attempt: execute() under the lock, and commit. *)

\* The lock is taken; a valid artifact ends the attempt, else tmp_dir makes an
\* empty directory, whoever is at work in it.
Acquire(a) ==
    /\ At(a, "waiting") /\ LockFree(KeyOf[a])
    /\ IF Valid(KeyOf[a])
       THEN End(a, "done") /\ UNCHANGED tmp
       ELSE Goto(a, "filtering", Files) /\ tmp' = [tmp EXCEPT ![DirOf[a]] = NoFiles]
    /\ UNCHANGED <<target, reader, cleaning, commits, losses, cleans>>

\* The filter writes a file, if its directory is still there.
WriteFile(a, f) ==
    /\ At(a, "filtering") /\ f \in attempt[a].left
    /\ tmp[DirOf[a]] # None
    /\ tmp' = [tmp EXCEPT ![DirOf[a]][f] = Product[a]]
    /\ Goto(a, "filtering", attempt[a].left \ {f})
    /\ UNCHANGED <<target, reader, cleaning, commits, losses, cleans>>

\* build_manifest hashes the files, which have to be there, as they are now.
BuildManifest(a) ==
    /\ At(a, "filtering") /\ attempt[a].left = {}
    /\ tmp[DirOf[a]] # None /\ \A f \in Files : tmp[DirOf[a]][f] # None
    /\ attempt' = [attempt EXCEPT ![a] = [pc |-> "built", left |-> {},
                                          hashes |-> tmp[DirOf[a]]]]
    /\ UNCHANGED <<target, tmp, reader, cleaning, commits, losses, cleans>>

\* commit keeps an artifact that is valid; any other is removed.
StartCommit(a) ==
    /\ At(a, "built")
    /\ IF Valid(KeyOf[a])
       THEN End(a, "done") /\ tmp' = [tmp EXCEPT ![DirOf[a]] = None]
       ELSE Goto(a, "removing", {}) /\ UNCHANGED tmp
    /\ UNCHANGED <<target, reader, cleaning, commits, losses, cleans>>

\* rmtree(target): the files and the manifest, in any order.
RemoveOld(a) ==
    /\ At(a, "removing")
    /\ \/ \E f \in Files : /\ target[KeyOf[a]].files[f] # None
                           /\ target' = [target EXCEPT ![KeyOf[a]].files[f] = None]
       \/ /\ target[KeyOf[a]].manifest # None
          /\ target' = [target EXCEPT ![KeyOf[a]].manifest = None]
    /\ UNCHANGED <<tmp, attempt, reader, cleaning, commits, losses, cleans>>

\* Mutant: whatever lies in the directory is an item to copy.
ListedAny(a) == {f \in Files : tmp[DirOf[a]][f] # None} \cup {"manifest.json.tmp"}

\* What tmp.iterdir() finds.
Listed(a) == {f \in Files : tmp[DirOf[a]][f] # None}

\* The target is empty; the files to copy are listed.
ListFiles(a) ==
    /\ At(a, "removing")
    /\ target[KeyOf[a]] = [files |-> NoFiles, manifest |-> None]
    /\ tmp[DirOf[a]] # None
    /\ Goto(a, "copying", Listed(a))
    /\ UNCHANGED <<target, tmp, reader, cleaning, commits, losses, cleans>>

\* copy2 opens source and copy...
OpenCopy(a, f) ==
    LET k == KeyOf[a] IN
    /\ At(a, "copying") /\ f \in attempt[a].left
    /\ \A g \in attempt[a].left : target[k].files[g] \notin Partials
    /\ tmp[DirOf[a]] # None /\ tmp[DirOf[a]][f] # None
    /\ target' = [target EXCEPT ![k].files[f] = Partial(tmp[DirOf[a]][f])]
    /\ UNCHANGED <<tmp, attempt, reader, cleaning, commits, losses, cleans>>

\* ... and completes the copy, even if the source is deleted meanwhile.
EndCopy(a, f) ==
    LET k == KeyOf[a] IN
    /\ At(a, "copying") /\ f \in attempt[a].left
    /\ \E x \in Products : /\ target[k].files[f] = Partial(x)
                           /\ target' = [target EXCEPT ![k].files[f] = x]
    /\ Goto(a, "copying", attempt[a].left \ {f})
    /\ UNCHANGED <<tmp, reader, cleaning, commits, losses, cleans>>

\* Mutant: the manifest is written while files are still to be copied.
CopiedSome(a) == attempt[a].left # Files

Copied(a) == attempt[a].left = {}

\* manifest.json is written under another name and moved into place.
WriteManifest(a) ==
    /\ At(a, "copying") /\ Copied(a)
    /\ target' = [target EXCEPT ![KeyOf[a]].manifest =
                                    [gen |-> commits + 1, hashes |-> attempt[a].hashes]]
    /\ commits' = commits + 1
    /\ End(a, "written")
    /\ UNCHANGED <<tmp, reader, cleaning, losses, cleans>>

\* rmtree(tmp) ends the commit, and the attempt.
Finish(a) ==
    /\ At(a, "written")
    /\ tmp' = [tmp EXCEPT ![DirOf[a]] = None]
    /\ End(a, "done")
    /\ UNCHANGED <<target, reader, cleaning, commits, losses, cleans>>

\* An exception (of the filter, of a full disk, for a file that is not there)
\* or the end of the process.  Nothing is cleaned up; the next try of the step
\* is another attempt.
Abort(a) ==
    /\ HoldsLock(a)
    /\ End(a, "aborted")
    /\ UNCHANGED <<target, tmp, reader, cleaning, commits, losses, cleans>>

AttemptStep(a) ==
    \/ Acquire(a) \/ BuildManifest(a) \/ StartCommit(a) \/ RemoveOld(a)
    \/ ListFiles(a) \/ WriteManifest(a) \/ Finish(a)
    \/ \E f \in Files : WriteFile(a, f) \/ OpenCopy(a, f) \/ EndCopy(a, f)

-----------------------------------------------------------------------------
(* A reader: valid_manifest without the lock, then manifest_hash. *)

\* The manifest is read.
ReadManifest(k) ==
    /\ reader.pc = "idle" /\ target[k].manifest # None
    /\ reader' = [pc |-> "checking", key |-> k, manifest |-> target[k].manifest,
                  unchecked |-> Files]
    /\ UNCHANGED <<target, tmp, attempt, cleaning, commits, losses, cleans>>

\* A file is compared with the manifest; one that differs makes it invalid.
CheckFile(f) ==
    /\ reader.pc = "checking" /\ f \in reader.unchecked
    /\ reader' = IF target[reader.key].files[f] # reader.manifest.hashes[f]
                 THEN Idle
                 ELSE [reader EXCEPT !.unchecked = @ \ {f},
                                     !.pc = IF reader.unchecked = {f} THEN "valid" ELSE @]
    /\ UNCHANGED <<target, tmp, attempt, cleaning, commits, losses, cleans>>

\* The reader uses the artifact: it hashes the manifest, reads the files.
Use ==
    /\ reader.pc = "valid"
    /\ reader' = Idle
    /\ UNCHANGED <<target, tmp, attempt, cleaning, commits, losses, cleans>>

-----------------------------------------------------------------------------
(* clean_tmp and the environment. *)

CleanStart ==
    /\ losses + cleans < MaxFaults /\ cleaning = {}
    /\ cleaning' = {d \in Dirs : tmp[d] # None}
    /\ cleans' = cleans + 1
    /\ UNCHANGED <<target, tmp, attempt, reader, commits, losses>>

CleanFile(d, f) ==
    /\ d \in cleaning /\ tmp[d] # None /\ tmp[d][f] # None
    /\ tmp' = [tmp EXCEPT ![d][f] = None]
    /\ UNCHANGED <<target, attempt, reader, cleaning, commits, losses, cleans>>

\* rmdir fails, and is ignored, for a directory that has got a new file.
CleanDir(d) ==
    /\ d \in cleaning
    /\ cleaning' = cleaning \ {d}
    /\ tmp' = IF tmp[d] = NoFiles THEN [tmp EXCEPT ![d] = None] ELSE tmp
    /\ UNCHANGED <<target, attempt, reader, commits, losses, cleans>>

\* A file or the manifest of a valid artifact is deleted or damaged.
Damage(k) ==
    /\ losses + cleans < MaxFaults /\ Valid(k)
    /\ losses' = losses + 1
    /\ \/ target' = [target EXCEPT ![k].manifest = None]
       \/ \E f \in Files : \E x \in {None, Partial(target[k].files[f])} :
             target' = [target EXCEPT ![k].files[f] = x]
    /\ UNCHANGED <<tmp, attempt, reader, cleaning, commits, cleans>>

Next ==
    \/ \E a \in Attempts : AttemptStep(a) \/ Abort(a)
    \/ \E k \in Keys : Damage(k)
    \/ \E k \in Wanted : ReadManifest(k)
    \/ \E f \in Files : CheckFile(f)
    \/ Use
    \/ CleanStart
    \/ \E d \in Dirs : CleanDir(d) \/ \E f \in Files : CleanFile(d, f)

Spec == Init /\ [][Next]_vars

-----------------------------------------------------------------------------
(* Properties. *)

\* For everyone who looks at artifacts through valid_manifest, commit is
\* atomic: whatever is interrupted between two files, whoever cleans up, and
\* whoever is in the same directory, an artifact is absent or complete, only a
\* commit brings it, only a loss takes it away, and a valid one is never
\* rewritten.
Abstract == INSTANCE Artifacts WITH
    artifacts <- {[key |-> k, gen |-> target[k].manifest.gen] : k \in {x \in Keys : Valid(x)}}

ImplementsArtifacts == Abstract!Spec

\* The attempts at k had their directories for themselves: so far, nobody has
\* tried to make another artifact in one of them.
Started(a) == ~At(a, "waiting")
Alone(k) == \A a, b \in Attempts :
               KeyOf[a] = k /\ Started(a) /\ Started(b) /\ DirOf[a] = DirOf[b] => KeyOf[b] = k

\* A manifest is the mark of a complete artifact, at every moment of a commit
\* and after every crash, unless a file was lost, an API started or a directory
\* was shared with another key meanwhile.
ManifestIsLast ==
    losses = 0 /\ cleans = 0 =>
        \A k \in Keys : Alone(k) /\ target[k].manifest # None => Valid(k)

\* A reader that has checked the files one by one, without the lock, uses the
\* artifact it has checked: the manifest is still the one it read.
ReaderUsesWhatItChecked ==
    losses = 0 /\ cleans = 0 /\ reader.pc = "valid" /\ Alone(reader.key) =>
        /\ Valid(reader.key)
        /\ target[reader.key].manifest = reader.manifest

\* What is valid is the work of one attempt at this very artifact: not of two
\* that were in one directory, nor of a crashed one and its successor,
\* whatever was damaged, removed or cleaned up in between.
OneAttemptsWork ==
    \A k \in Keys : Alone(k) /\ Valid(k) =>
        \E a \in Attempts : KeyOf[a] = k /\ \A f \in Files : target[k].files[f] = Product[a]

\* "manifest.json is the only completion mark of an artifact" (README.md): as
\* long as no artifact was damaged, where there is a manifest there are the
\* files.
ManifestMarksCompletion ==
    losses = 0 => \A k \in Keys : target[k].manifest # None => Valid(k)
=============================================================================
