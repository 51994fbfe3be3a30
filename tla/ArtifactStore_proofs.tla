------------------------- MODULE ArtifactStore_proofs -------------------------
(***************************************************************************)
(* Proofs about ArtifactStore, for any keys, files, attempts and temporary *)
(* directories, and any number of losses and of API starts.                *)
(***************************************************************************)
EXTENDS ArtifactStore, TLAPS

\* The artifact lock is one: two attempts at the same artifact are not both in.
Mutex == \A a, b \in Attempts :
            HoldsLock(a) /\ HoldsLock(b) /\ KeyOf[a] = KeyOf[b] => a = b

\* What commit knows of its target: it removes only what is not valid, and
\* copies into a directory without a manifest.
CommitKnows ==
    \A a \in Attempts :
        /\ At(a, "removing") => ~Valid(KeyOf[a])
        /\ At(a, "copying") => target[KeyOf[a]].manifest = None

\* The inductive invariant that the refinement needs.
Safe == TypeOK /\ Mutex /\ CommitKnows

-----------------------------------------------------------------------------
(* What an action leaves alone. *)

\* Whether an artifact is valid depends on its own directory only.
LEMMA ValidFrame ==
    ASSUME NEW k \in Keys, target'[k] = target[k]
    PROVE  Valid(k)' <=> Valid(k)
  BY DEF Valid, Intact

\* An attempt whose record does not change is where it was.
LEMMA AttemptFrame ==
    ASSUME NEW a \in Attempts, attempt'[a] = attempt[a]
    PROVE  /\ \A pc : At(a, pc)' <=> At(a, pc)
           /\ HoldsLock(a)' <=> HoldsLock(a)
  BY DEF At, HoldsLock

\* A move of one attempt.
LEMMA GotoFrame ==
    ASSUME TypeOK, NEW a \in Attempts, NEW pc, NEW left, Goto(a, pc, left)
    PROVE  /\ attempt'[a].pc = pc /\ attempt'[a].left = left
           /\ attempt'[a].hashes = attempt[a].hashes
           /\ \A b \in Attempts \ {a} : attempt'[b] = attempt[b]
  BY DEF Goto, TypeOK

\* An attempt that ends.
LEMMA EndFrame ==
    ASSUME TypeOK, NEW a \in Attempts, NEW pc, End(a, pc)
    PROVE  /\ attempt'[a].pc = pc
           /\ \A b \in Attempts \ {a} : attempt'[b] = attempt[b]
  BY DEF End, TypeOK

\* An attempt that has hashed its files.
LEMMA BuildFrame ==
    ASSUME TypeOK, NEW a \in Attempts, BuildManifest(a)
    PROVE  /\ attempt'[a].pc = "built" /\ attempt'[a].left = attempt[a].left
           /\ attempt'[a].hashes = tmp[DirOf[a]]
           /\ \A b \in Attempts \ {a} : attempt'[b] = attempt[b]
  BY DEF BuildManifest, TypeOK

\* A file of a target directory is written, truncated or deleted.
LEMMA FileTyping ==
    ASSUME TypeOK, NEW k \in Keys, NEW f \in Files,
           NEW x \in Products \cup {None} \cup Partials,
           target' = [target EXCEPT ![k].files[f] = x]
    PROVE  target' \in [Keys -> Directory]
<1>1. target \in [Keys -> Directory]
  BY DEF TypeOK
<1>2. [target[k] EXCEPT !.files = [target[k].files EXCEPT ![f] = x]] \in Directory
  BY <1>1 DEF Directory
<1> QED BY <1>1, <1>2

\* A manifest is written or deleted.
LEMMA ManifestTyping ==
    ASSUME TypeOK, NEW k \in Keys, NEW m \in Manifest \cup {None},
           target' = [target EXCEPT ![k].manifest = m]
    PROVE  target' \in [Keys -> Directory]
<1>1. target \in [Keys -> Directory]
  BY DEF TypeOK
<1>2. [target[k] EXCEPT !.manifest = m] \in Directory
  BY <1>1 DEF Directory
<1> QED BY <1>1, <1>2

\* An attempt that goes on keeps the type of all attempts.
LEMMA GotoTyping ==
    ASSUME TypeOK, NEW a \in Attempts, NEW pc, NEW left \in SUBSET Files, Goto(a, pc, left),
           \/ pc = "filtering" /\ attempt[a].pc \in {"waiting", "filtering"}
           \/ pc \in {"removing", "copying"} /\ attempt[a].pc \in {"built", "removing", "copying"}
    PROVE  attempt' \in [Attempts -> Position]
<1>1. attempt \in [Attempts -> Position]
  BY DEF TypeOK
<1>2. [attempt[a] EXCEPT !.pc = pc, !.left = left] \in Position
  <2>1. CASE pc = "filtering"
    BY <1>1, <2>1 DEF Position
  <2>2. CASE pc # "filtering"
    BY <1>1, <2>2 DEF Position
  <2> QED BY <2>1, <2>2
<1>3. attempt' = [attempt EXCEPT ![a] = [attempt[a] EXCEPT !.pc = pc, !.left = left]]
  BY <1>1 DEF Goto, Position
<1> QED BY <1>1, <1>2, <1>3

\* So does one that ends.
LEMMA EndTyping ==
    ASSUME TypeOK, NEW a \in Attempts, NEW pc \in {"written", "done", "aborted"}, End(a, pc)
    PROVE  attempt' \in [Attempts -> Position]
<1>1. attempt \in [Attempts -> Position]
  BY DEF TypeOK
<1>2. [pc |-> pc, left |-> {}, hashes |-> NoFiles] \in Position
  BY DEF Position, NoFiles
<1> QED BY <1>1, <1>2 DEF End

\* What damage leaves of a file of a valid artifact is a part of it.
LEMMA DamagedIsPartial ==
    ASSUME TypeOK, NEW k \in Keys, Valid(k), NEW f \in Files
    PROVE  Partial(target[k].files[f]) \in Partials
<1>1. target[k] \in Directory
  BY DEF TypeOK
<1>2. target[k].manifest.hashes[f] \in Products
  BY <1>1 DEF Valid, Directory, Manifest
<1> QED BY <1>2 DEF Valid, Intact, Partials

\* Nobody holds a lock, nothing is being committed.
LEMMA InitSafe == Init => Safe
<1> SUFFICES ASSUME Init PROVE Safe
  OBVIOUS
<1>1. [files |-> NoFiles, manifest |-> None] \in Directory
  BY DEF Directory, NoFiles
<1>2. [pc |-> "waiting", left |-> {}, hashes |-> NoFiles] \in Position
  BY DEF Position
<1>3. TypeOK
  BY <1>1, <1>2 DEF Init, TypeOK, Idle
<1>4. \A a \in Attempts : At(a, "waiting")
  BY DEF Init, At
<1> QED BY <1>3, <1>4 DEF Safe, Mutex, CommitKnows, HoldsLock, At

-----------------------------------------------------------------------------
(* Safe is inductive: typing first, then the lock and what commit knows. *)

\* Every step keeps the types.
LEMMA NextTypeOK == TypeOK /\ [Next]_vars => TypeOK'
<1> SUFFICES ASSUME TypeOK, [Next]_vars PROVE TypeOK'
  OBVIOUS
<1> USE AttemptsAssumption, NoneAssumption
<1>1. ASSUME NEW a \in Attempts, Acquire(a) PROVE TypeOK'
  <2>1. attempt' \in [Attempts -> Position]
    BY <1>1, GotoTyping, EndTyping DEF Acquire, At
  <2>2. NoFiles \in [Files -> Products \cup {None}]
    BY DEF NoFiles
  <2>3. tmp' \in [Dirs -> [Files -> Products \cup {None}] \cup {None}]
    BY <1>1, <2>2 DEF TypeOK, Acquire
  <2> QED BY <1>1, <2>1, <2>3 DEF TypeOK, Acquire, Position
<1>2. ASSUME NEW a \in Attempts, NEW f \in Files, WriteFile(a, f) PROVE TypeOK'
  <2>1. Product[a] \in Products
    BY DEF Products
  <2>2. tmp[DirOf[a]] \in [Files -> Products \cup {None}]
    BY <1>2 DEF TypeOK, WriteFile
  <2>3. attempt' \in [Attempts -> Position]
    <3>1. attempt[a].left \ {f} \in SUBSET Files
      BY DEF TypeOK, Position
    <3> QED BY <1>2, <3>1, GotoTyping DEF WriteFile, At
  <2>4. tmp' \in [Dirs -> [Files -> Products \cup {None}] \cup {None}]
    BY <1>2, <2>1, <2>2 DEF TypeOK, WriteFile
  <2> QED BY <1>2, <2>3, <2>4 DEF TypeOK, WriteFile, Position
<1>3. ASSUME NEW a \in Attempts, BuildManifest(a) PROVE TypeOK'
  <2>1. tmp[DirOf[a]] \in [Files -> Products]
    BY <1>3 DEF TypeOK, BuildManifest
  <2>2. [pc |-> "built", left |-> {}, hashes |-> tmp[DirOf[a]]] \in Position
    BY <2>1 DEF Position
  <2>3. attempt' \in [Attempts -> Position]
    BY <1>3, <2>2 DEF TypeOK, BuildManifest
  <2> QED BY <1>3, <2>3 DEF TypeOK, BuildManifest, Position
<1>4. ASSUME NEW a \in Attempts, StartCommit(a) PROVE TypeOK'
  <2>1. attempt' \in [Attempts -> Position]
    BY <1>4, GotoTyping, EndTyping DEF StartCommit, At
  <2>2. tmp' \in [Dirs -> [Files -> Products \cup {None}] \cup {None}]
    BY <1>4 DEF TypeOK, StartCommit
  <2> QED BY <1>4, <2>1, <2>2 DEF TypeOK, StartCommit, Position
<1>5. ASSUME NEW a \in Attempts, RemoveOld(a) PROVE TypeOK'
  <2>1. target' \in [Keys -> Directory]
    BY <1>5, FileTyping, ManifestTyping DEF RemoveOld
  <2> QED BY <1>5, <2>1 DEF TypeOK, RemoveOld, Directory
<1>6. ASSUME NEW a \in Attempts, ListFiles(a) PROVE TypeOK'
  <2>1. Listed(a) \in SUBSET Files
    BY DEF Listed
  <2>2. attempt' \in [Attempts -> Position]
    BY <1>6, <2>1, GotoTyping DEF ListFiles, At
  <2> QED BY <1>6, <2>2 DEF TypeOK, ListFiles, Position
<1>7. ASSUME NEW a \in Attempts, NEW f \in Files, OpenCopy(a, f) PROVE TypeOK'
  <2>1. tmp[DirOf[a]][f] \in Products
    BY <1>7 DEF TypeOK, OpenCopy
  <2>2. Partial(tmp[DirOf[a]][f]) \in Partials
    BY <2>1 DEF Partials
  <2>3. target' \in [Keys -> Directory]
    BY <1>7, <2>2, FileTyping DEF OpenCopy
  <2> QED BY <1>7, <2>3 DEF TypeOK, OpenCopy, Directory
<1>8. ASSUME NEW a \in Attempts, NEW f \in Files, EndCopy(a, f) PROVE TypeOK'
  <2>1. PICK x \in Products : target' = [target EXCEPT ![KeyOf[a]].files[f] = x]
    BY <1>8 DEF EndCopy
  <2>2. target' \in [Keys -> Directory]
    BY <2>1, FileTyping
  <2>3. attempt[a].left \ {f} \in SUBSET Files
    BY DEF TypeOK, Position
  <2>4. attempt' \in [Attempts -> Position]
    BY <1>8, <2>3, GotoTyping DEF EndCopy, At
  <2> QED BY <1>8, <2>2, <2>4 DEF TypeOK, EndCopy, Directory, Position
<1>9. ASSUME NEW a \in Attempts, WriteManifest(a) PROVE TypeOK'
  <2>0. At(a, "copying")
    BY <1>9 DEF WriteManifest
  <2>1. [gen |-> commits + 1, hashes |-> attempt[a].hashes] \in Manifest
    BY <2>0 DEF Manifest, TypeOK, Position, At
  <2>2. target' \in [Keys -> Directory]
    BY <1>9, <2>1, ManifestTyping DEF WriteManifest
  <2>3. attempt' \in [Attempts -> Position]
    BY <1>9, EndTyping DEF WriteManifest
  <2>4. commits' \in Nat
    BY <1>9 DEF TypeOK, WriteManifest
  <2>5. UNCHANGED <<tmp, reader, cleaning, losses, cleans>>
    BY <1>9 DEF WriteManifest
  <2> QED BY <2>2, <2>3, <2>4, <2>5 DEF TypeOK, Directory, Position
<1>10. ASSUME NEW a \in Attempts, Finish(a) PROVE TypeOK'
  <2>1. attempt' \in [Attempts -> Position]
    BY <1>10, EndTyping DEF Finish
  <2> QED BY <1>10, <2>1 DEF TypeOK, Finish, Position
<1>11. ASSUME NEW a \in Attempts, Abort(a) PROVE TypeOK'
  <2>1. attempt' \in [Attempts -> Position]
    BY <1>11, EndTyping DEF Abort
  <2> QED BY <1>11, <2>1 DEF TypeOK, Abort, Position
<1>12. ASSUME NEW k \in Keys, ReadManifest(k) PROVE TypeOK'
  BY <1>12 DEF TypeOK, ReadManifest, Directory
<1>13. ASSUME NEW k \in Keys, Damage(k) PROVE TypeOK'
  <2>1. \A f \in Files : Partial(target[k].files[f]) \in Partials
    BY <1>13, DamagedIsPartial DEF Damage
  <2>2. target' \in [Keys -> Directory]
    BY <1>13, <2>1, FileTyping, ManifestTyping DEF Damage
  <2> QED BY <1>13, <2>2 DEF TypeOK, Damage
<1>14. ASSUME NEW f \in Files, CheckFile(f) PROVE TypeOK'
  BY <1>14 DEF TypeOK, CheckFile, Idle
<1>15. CASE Use
  BY <1>15 DEF TypeOK, Use, Idle
<1>16. CASE CleanStart
  BY <1>16 DEF TypeOK, CleanStart
<1>17. ASSUME NEW d \in Dirs, CleanDir(d) PROVE TypeOK'
  BY <1>17 DEF TypeOK, CleanDir
<1>18. ASSUME NEW d \in Dirs, NEW f \in Files, CleanFile(d, f) PROVE TypeOK'
  <2>1. tmp[d] \in [Files -> Products \cup {None}]
    BY <1>18 DEF TypeOK, CleanFile
  <2> QED BY <1>18, <2>1 DEF TypeOK, CleanFile
<1>19. CASE UNCHANGED vars
  BY <1>19 DEF TypeOK, vars
<1> QED
  BY <1>1, <1>2, <1>3, <1>4, <1>5, <1>6, <1>7, <1>8, <1>9, <1>10, <1>11, <1>12, <1>13,
     <1>14, <1>15, <1>16, <1>17, <1>18, <1>19 DEF Next, AttemptStep

\* Only an attempt that finds the lock free takes it.
LEMMA NextMutex == TypeOK /\ Mutex /\ [Next]_vars => Mutex'
<1> SUFFICES ASSUME TypeOK, Mutex, [Next]_vars,
                    NEW a \in Attempts, NEW b \in Attempts, KeyOf[a] = KeyOf[b],
                    HoldsLock(a)', HoldsLock(b)'
             PROVE  a = b
  BY DEF Mutex
<1>1. CASE \E c \in Attempts : Acquire(c)
  <2>1. PICK c \in Attempts : Acquire(c)
    BY <1>1
  <2>2. \A x \in Attempts \ {c} : HoldsLock(x)' <=> HoldsLock(x)
    BY <2>1 DEF Acquire, Goto, End, HoldsLock, TypeOK
  <2> QED BY <2>1, <2>2 DEF Acquire, LockFree, Mutex
<1>2. CASE ~\E c \in Attempts : Acquire(c)
  <2>1. \A x \in Attempts : HoldsLock(x)' => HoldsLock(x)
    <3> SUFFICES ASSUME NEW x \in Attempts, HoldsLock(x)' PROVE HoldsLock(x)
      OBVIOUS
    <3>1. CASE attempt' = attempt
      BY <3>1 DEF HoldsLock
    <3>2. CASE \E c \in Attempts :
                 \/ BuildManifest(c) \/ StartCommit(c) \/ ListFiles(c) \/ WriteManifest(c)
                 \/ Finish(c) \/ Abort(c) \/ \E f \in Files : WriteFile(c, f) \/ EndCopy(c, f)
      <4>1. PICK c \in Attempts :
                 \/ BuildManifest(c) \/ StartCommit(c) \/ ListFiles(c) \/ WriteManifest(c)
                 \/ Finish(c) \/ Abort(c) \/ \E f \in Files : WriteFile(c, f) \/ EndCopy(c, f)
        BY <3>2
      <4>2. HoldsLock(c)
        BY <4>1 DEF BuildManifest, StartCommit, ListFiles, WriteManifest, Finish, Abort,
                    WriteFile, EndCopy, HoldsLock, At
      <4>3. \A y \in Attempts \ {c} : attempt'[y] = attempt[y]
        <5>1. CASE BuildManifest(c)
          BY <5>1, BuildFrame
        <5>2. CASE ~BuildManifest(c)
          BY <4>1, <5>2, GotoFrame, EndFrame
          DEF StartCommit, ListFiles, WriteManifest, Finish, Abort, WriteFile, EndCopy
        <5> QED BY <5>1, <5>2
      <4> QED BY <4>2, <4>3 DEF HoldsLock
    <3> QED
      BY <1>2, <3>1, <3>2
      DEF Next, AttemptStep, RemoveOld, OpenCopy, ReadManifest, Damage, CheckFile, Use,
          CleanStart, CleanDir, CleanFile, vars
  <2> QED BY <2>1 DEF Mutex
<1> QED BY <1>1, <1>2

\* What commit knows of an attempt whose target and place do not change.
LEMMA KnowsFrame ==
    ASSUME TypeOK, CommitKnows, NEW b \in Attempts,
           target'[KeyOf[b]] = target[KeyOf[b]],
           attempt'[b].pc = attempt[b].pc \/ attempt'[b].pc \notin {"removing", "copying"}
    PROVE  /\ At(b, "removing")' => ~Valid(KeyOf[b])'
           /\ At(b, "copying")' => target'[KeyOf[b]].manifest = None
<1>1. KeyOf[b] \in Keys
  BY AttemptsAssumption
<1>2. Valid(KeyOf[b])' <=> Valid(KeyOf[b])
  BY <1>1, ValidFrame
<1> QED BY <1>2 DEF CommitKnows, At

\* An artifact without one of its files is not valid.
LEMMA MissingFile ==
    ASSUME TypeOK, NEW k \in Keys, NEW f \in Files, NEW x \in {None} \cup Partials,
           target' = [target EXCEPT ![k].files[f] = x]
    PROVE  ~Valid(k)'
<1>0. target[k] \in Directory
  BY DEF TypeOK
<1>1. target'[k].files[f] = x /\ target'[k].manifest = target[k].manifest
  BY <1>0 DEF TypeOK, Directory
<1>2. CASE target[k].manifest = None
  BY <1>1, <1>2 DEF Valid
<1>3. CASE target[k].manifest \in Manifest
  BY <1>1, <1>3, NoneAssumption DEF Valid, Intact, Manifest
<1> QED BY <1>0, <1>2, <1>3 DEF Directory

\* Two attempts in the lock work on different targets.
LEMMA OtherTarget ==
    ASSUME Mutex, NEW a \in Attempts, NEW b \in Attempts \ {a},
           HoldsLock(a), HoldsLock(b)
    PROVE  KeyOf[a] # KeyOf[b]
  BY DEF Mutex

\* What commit found under its lock stays so until it goes on: nobody else writes.
LEMMA NextCommitKnows == Safe /\ [Next]_vars => CommitKnows'
<1> SUFFICES ASSUME Safe, [Next]_vars, NEW b \in Attempts
             PROVE  /\ At(b, "removing")' => ~Valid(KeyOf[b])'
                    /\ At(b, "copying")' => target'[KeyOf[b]].manifest = None
  BY DEF CommitKnows
<1> DEFINE Knows == /\ At(b, "removing")' => ~Valid(KeyOf[b])'
                    /\ At(b, "copying")' => target'[KeyOf[b]].manifest = None
           Same == target'[KeyOf[b]] = target[KeyOf[b]]
           InCommit == attempt[b].pc \in {"removing", "copying"}
<1>0. TypeOK /\ Mutex /\ CommitKnows /\ KeyOf[b] \in Keys
  BY AttemptsAssumption DEF Safe
<1>1. CASE target' = target /\ attempt' = attempt
  BY <1>0, <1>1, KnowsFrame
<1>2. ASSUME NEW a \in Attempts, StartCommit(a) PROVE Knows
  <2>1. target' = target
    BY <1>2 DEF StartCommit
  <2>2. CASE a # b
    BY <1>0, <1>2, <2>1, <2>2, KnowsFrame, GotoFrame, EndFrame DEF StartCommit
  <2>3. CASE a = b /\ Valid(KeyOf[a])
    <3>1. attempt'[b].pc = "done"
      BY <1>0, <1>2, <2>3, EndFrame DEF StartCommit
    <3> QED BY <3>1 DEF At
  <2>4. CASE a = b /\ ~Valid(KeyOf[a])
    <3>1. attempt'[b].pc = "removing"
      BY <1>0, <1>2, <2>4, GotoFrame DEF StartCommit
    <3> QED BY <1>0, <2>1, <2>4, <3>1, ValidFrame DEF At
  <2> QED BY <2>2, <2>3, <2>4
<1>3. ASSUME NEW a \in Attempts, RemoveOld(a) PROVE Knows
  <2>1. attempt' = attempt /\ At(a, "removing")
    BY <1>3 DEF RemoveOld
  <2>2. CASE a # b /\ InCommit
    <3>1. KeyOf[a] # KeyOf[b]
      BY <1>0, <2>1, <2>2, OtherTarget DEF HoldsLock, At
    <3>2. Same
      BY <1>0, <1>3, <3>1 DEF RemoveOld, TypeOK
    <3> QED BY <1>0, <2>1, <3>2, KnowsFrame
  <2>3. CASE a = b
    <3>1. CASE \E f \in Files : target' = [target EXCEPT ![KeyOf[b]].files[f] = None]
      <4>1. ~Valid(KeyOf[b])'
        BY <1>0, <3>1, MissingFile
      <4> QED BY <2>1, <2>3, <4>1 DEF At
    <3>2. CASE target' = [target EXCEPT ![KeyOf[b]].manifest = None]
      <4>1. target'[KeyOf[b]].manifest = None
        BY <1>0, <3>2 DEF TypeOK
      <4> QED BY <4>1 DEF Valid
    <3> QED BY <1>3, <2>3, <3>1, <3>2 DEF RemoveOld
  <2>4. CASE ~InCommit
    BY <2>1, <2>4 DEF At
  <2> QED BY <2>2, <2>3, <2>4
<1>4. ASSUME NEW a \in Attempts, ListFiles(a) PROVE Knows
  <2>1. CASE a # b
    BY <1>0, <1>4, <2>1, KnowsFrame, GotoFrame DEF ListFiles
  <2>2. CASE a = b
    <3>1. attempt'[b].pc = "copying"
      BY <1>0, <1>4, <2>2, GotoFrame DEF ListFiles
    <3>2. target'[KeyOf[b]].manifest = None
      BY <1>4, <2>2 DEF ListFiles
    <3> QED BY <3>1, <3>2 DEF At
  <2> QED BY <2>1, <2>2
<1>5. ASSUME NEW a \in Attempts, NEW f \in Files, OpenCopy(a, f) \/ EndCopy(a, f)
      PROVE  Knows
  <2>1. At(a, "copying")
    BY <1>5 DEF OpenCopy, EndCopy
  <2>2. attempt'[b].pc = attempt[b].pc
    BY <1>0, <1>5, GotoFrame DEF OpenCopy, EndCopy, At
  <2>3. target'[KeyOf[b]].manifest = target[KeyOf[b]].manifest
    <3>1. KeyOf[a] \in Keys
      BY AttemptsAssumption
    <3>2. PICK x : target' = [target EXCEPT ![KeyOf[a]].files[f] = x]
      BY <1>5 DEF OpenCopy, EndCopy
    <3> QED BY <1>0, <3>1, <3>2 DEF TypeOK, Directory
  <2>4. CASE attempt[b].pc = "removing"
    <3>1. KeyOf[a] # KeyOf[b]
      BY <1>0, <2>1, <2>4, OtherTarget DEF HoldsLock, At
    <3>2. Same
      BY <1>0, <1>5, <3>1 DEF OpenCopy, EndCopy, TypeOK
    <3> QED BY <1>0, <2>2, <3>2, KnowsFrame
  <2>5. CASE attempt[b].pc # "removing"
    BY <1>0, <2>2, <2>3, <2>5 DEF CommitKnows, At
  <2> QED BY <2>4, <2>5
<1>6. ASSUME NEW a \in Attempts, WriteManifest(a) PROVE Knows
  <2>1. CASE a = b
    <3>1. attempt'[b].pc = "written"
      BY <1>0, <1>6, <2>1, EndFrame DEF WriteManifest
    <3> QED BY <3>1 DEF At
  <2>2. CASE a # b /\ InCommit
    <3>1. KeyOf[a] # KeyOf[b]
      BY <1>6, <1>0, <2>2, OtherTarget DEF WriteManifest, HoldsLock, At
    <3>2. Same
      BY <1>0, <1>6, <3>1 DEF WriteManifest, TypeOK
    <3>3. attempt'[b] = attempt[b]
      BY <1>0, <1>6, <2>2, EndFrame DEF WriteManifest
    <3> QED BY <1>0, <3>2, <3>3, KnowsFrame
  <2>3. CASE a # b /\ ~InCommit
    <3>1. attempt'[b] = attempt[b]
      BY <1>0, <1>6, <2>3, EndFrame DEF WriteManifest
    <3> QED BY <2>3, <3>1 DEF At
  <2> QED BY <2>1, <2>2, <2>3
<1>7. ASSUME NEW k \in Keys, Damage(k) PROVE Knows
  <2>1. attempt' = attempt
    BY <1>7 DEF Damage
  <2>2. CASE InCommit
    <3>1. k # KeyOf[b]
      BY <1>0, <1>7, <2>2 DEF Damage, CommitKnows, At, Valid
    <3>2. Same
      BY <1>0, <1>7, <3>1 DEF Damage, TypeOK
    <3> QED BY <1>0, <2>1, <3>2, KnowsFrame
  <2>3. CASE ~InCommit
    BY <2>1, <2>3 DEF At
  <2> QED BY <2>2, <2>3
<1>8. ASSUME NEW a \in Attempts,
             \/ Acquire(a) \/ BuildManifest(a) \/ Finish(a) \/ Abort(a)
             \/ \E f \in Files : WriteFile(a, f)
      PROVE  Knows
  <2>1. target' = target
    BY <1>8 DEF Acquire, BuildManifest, Finish, Abort, WriteFile
  <2>2. attempt'[b].pc = attempt[b].pc \/ attempt'[b].pc \notin {"removing", "copying"}
    <3>1. \/ \E left : Goto(a, "filtering", left)
          \/ End(a, "done") \/ End(a, "aborted") \/ BuildManifest(a)
      BY <1>8 DEF Acquire, Finish, Abort, WriteFile
    <3> QED BY <1>0, <3>1, GotoFrame, EndFrame, BuildFrame
  <2> QED BY <1>0, <2>1, <2>2, KnowsFrame
<1> QED
  <2>1. CASE \E a \in Attempts : AttemptStep(a) \/ Abort(a)
    BY <2>1, <1>1, <1>2, <1>3, <1>4, <1>5, <1>6, <1>8 DEF AttemptStep
  <2>2. CASE \E k \in Keys : Damage(k)
    BY <2>2, <1>7
  <2>3. CASE UNCHANGED <<target, attempt>>
    BY <2>3, <1>1
  <2>4. \/ \E a \in Attempts : AttemptStep(a) \/ Abort(a)
        \/ \E k \in Keys : Damage(k)
        \/ UNCHANGED <<target, attempt>>
    BY DEF Next, ReadManifest, CheckFile, Use, CleanStart, CleanDir, CleanFile, vars
  <2> QED BY <2>1, <2>2, <2>3, <2>4


\* Every step keeps the invariant.
LEMMA NextSafe == Safe /\ [Next]_vars => Safe'
  BY NextTypeOK, NextMutex, NextCommitKnows DEF Safe

\* Every reachable state is well typed, holds each artifact lock for at most
\* one attempt, and has no commit that removes or completes a valid artifact.
THEOREM SafeInvariance == Spec => []Safe
  BY InitSafe, NextSafe, PTL DEF Spec

\* Type correctness.
THEOREM TypeCorrect == Spec => []TypeOK
<1>1. Safe => TypeOK
  BY DEF Safe
<1> QED BY <1>1, SafeInvariance, PTL

-----------------------------------------------------------------------------
(* Every step of a file is a step of the store of whole artifacts.         *)

\* The artifacts that readers find valid.
Whole == {[key |-> k, gen |-> target[k].manifest.gen] : k \in {x \in Keys : Valid(x)}}

\* The artifacts depend on which ones are valid, and on their manifests.
LEMMA WholeFrame ==
    ASSUME \A k \in Keys : /\ Valid(k)' <=> Valid(k)
                           /\ Valid(k) => target'[k].manifest = target[k].manifest
    PROVE  Whole' = Whole
<1>1. {x \in Keys : Valid(x)'} = {x \in Keys : Valid(x)}
  OBVIOUS
<1>2. Whole' = {[key |-> k, gen |-> target'[k].manifest.gen] : k \in {x \in Keys : Valid(x)'}}
  BY DEF Whole
<1> QED BY <1>1, <1>2 DEF Whole

\* A step on a target that is invalid before and after.
LEMMA InvalidTarget ==
    ASSUME NEW k \in Keys, ~Valid(k), ~Valid(k)',
           \A x \in Keys \ {k} : target'[x] = target[x]
    PROVE  Whole' = Whole
<1>1. \A x \in Keys \ {k} : Valid(x)' <=> Valid(x)
  BY ValidFrame
<1> QED BY <1>1, WholeFrame

\* No artifact is whole at the beginning.
LEMMA InitAbstract == Init => Abstract!Init
<1> SUFFICES ASSUME Init PROVE Abstract!Init
  OBVIOUS
<1>1. \A k \in Keys : ~Valid(k)
  BY DEF Init, Valid
<1>2. Whole = {}
  BY <1>1 DEF Whole
<1> QED BY <1>2 DEF Abstract!Init, Whole, Init

\* What a step does to files is a commit, a loss or nothing to the whole artifacts.
LEMMA NextAbstract == Safe /\ Safe' /\ [Next]_vars => [Abstract!Next]_(Abstract!vars)
<1> SUFFICES ASSUME Safe, Safe', [Next]_vars PROVE [Abstract!Next]_(Abstract!vars)
  OBVIOUS
<1> DEFINE Stutter == Whole' = Whole /\ commits' = commits
<1>0. TypeOK /\ CommitKnows /\ TypeOK' /\ CommitKnows'
  BY DEF Safe
<1>1. Stutter => [Abstract!Next]_(Abstract!vars)
  BY DEF Abstract!vars, Whole
<1>2. ASSUME UNCHANGED <<target, commits>> PROVE Stutter
  <2>1. \A k \in Keys : Valid(k)' <=> Valid(k)
    BY <1>2, ValidFrame
  <2> QED BY <1>2, <2>1, WholeFrame
<1>3. ASSUME NEW a \in Attempts, RemoveOld(a) PROVE Stutter
  <2>1. ~Valid(KeyOf[a])
    BY <1>0, <1>3 DEF RemoveOld, CommitKnows
  <2>2. ~Valid(KeyOf[a])'
    BY <1>0, <1>3 DEF RemoveOld, CommitKnows, At
  <2>3. \A x \in Keys \ {KeyOf[a]} : target'[x] = target[x]
    BY <1>0, <1>3 DEF RemoveOld, TypeOK
  <2> QED BY <1>3, <2>1, <2>2, <2>3, InvalidTarget, AttemptsAssumption DEF RemoveOld
<1>4. ASSUME NEW a \in Attempts, NEW f \in Files, OpenCopy(a, f) \/ EndCopy(a, f)
      PROVE  Stutter
  <2>1. target[KeyOf[a]].manifest = None
    BY <1>0, <1>4 DEF OpenCopy, EndCopy, CommitKnows
  <2>2. target'[KeyOf[a]].manifest = None
    <3>1. KeyOf[a] \in Keys
      BY AttemptsAssumption
    <3>2. PICK x : target' = [target EXCEPT ![KeyOf[a]].files[f] = x]
      BY <1>4 DEF OpenCopy, EndCopy
    <3> QED BY <1>0, <2>1, <3>1, <3>2 DEF TypeOK
  <2>3. \A x \in Keys \ {KeyOf[a]} : target'[x] = target[x]
    BY <1>0, <1>4 DEF OpenCopy, EndCopy, TypeOK
  <2>4. ~Valid(KeyOf[a]) /\ ~Valid(KeyOf[a])'
    BY <2>1, <2>2 DEF Valid
  <2> QED BY <1>4, <2>3, <2>4, InvalidTarget, AttemptsAssumption DEF OpenCopy, EndCopy
<1>5. ASSUME NEW a \in Attempts, WriteManifest(a) PROVE [Abstract!Next]_(Abstract!vars)
  <2> DEFINE k == KeyOf[a]
  <2>1. k \in Keys
    BY AttemptsAssumption
  <2>2. ~Valid(k)
    BY <1>0, <1>5 DEF WriteManifest, CommitKnows, Valid
  <2>3. \A x \in Keys \ {k} : target'[x] = target[x]
    BY <1>0, <1>5 DEF WriteManifest, TypeOK
  <2>4. \A x \in Keys \ {k} : Valid(x)' <=> Valid(x)
    BY <2>3, ValidFrame
  <2>5. target'[k].manifest.gen = commits + 1 /\ commits' = commits + 1
    BY <1>0, <1>5, <2>1 DEF WriteManifest, TypeOK
  <2>6. CASE Valid(k)'
    <3>1. {x \in Keys : Valid(x)'} = {x \in Keys : Valid(x)} \cup {k}
      BY <2>1, <2>4, <2>6
    <3>2. Whole' = {[key |-> y, gen |-> target'[y].manifest.gen] :
                        y \in {x \in Keys : Valid(x)'}}
      BY DEF Whole
    <3>3. Whole' = Whole \cup {[key |-> k, gen |-> commits + 1]}
      BY <2>2, <2>3, <2>5, <3>1, <3>2 DEF Whole
    <3>4. ~Abstract!Valid(k)
      BY <2>2 DEF Abstract!Valid
    <3>5. Abstract!Commit(k)
      BY <2>5, <3>3, <3>4 DEF Abstract!Commit, Whole
    <3> QED BY <2>1, <3>5 DEF Abstract!Next
  <2>7. CASE ~Valid(k)'
    <3>1. Whole' = Whole
      BY <2>1, <2>2, <2>3, <2>7, InvalidTarget
    <3> QED BY <2>5, <3>1 DEF Abstract!Next, Abstract!Spoil, Whole
  <2> QED BY <2>6, <2>7
<1>6. ASSUME NEW k \in Keys, Damage(k) PROVE [Abstract!Next]_(Abstract!vars)
  <2>1. Valid(k) /\ commits' = commits
    BY <1>6 DEF Damage
  <2>2. \A x \in Keys \ {k} : target'[x] = target[x]
    BY <1>0, <1>6 DEF Damage, TypeOK
  <2>3. \A x \in Keys \ {k} : Valid(x)' <=> Valid(x)
    BY <2>2, ValidFrame
  <2>4. ~Valid(k)'
    <3>1. CASE \E f \in Files, x \in {None} \cup Partials :
                 target' = [target EXCEPT ![k].files[f] = x]
      BY <1>0, <3>1, MissingFile
    <3>2. CASE target' = [target EXCEPT ![k].manifest = None]
      <4>1. target'[k].manifest = None
        BY <1>0, <3>2 DEF TypeOK
      <4> QED BY <4>1 DEF Valid
    <3>3. \A f \in Files : Partial(target[k].files[f]) \in Partials
      BY <1>0, <2>1, DamagedIsPartial
    <3> QED BY <1>6, <3>1, <3>2, <3>3 DEF Damage
  <2> DEFINE lost == [key |-> k, gen |-> target[k].manifest.gen]
  <2>5. {x \in Keys : Valid(x)'} = {x \in Keys : Valid(x)} \ {k}
    BY <2>3, <2>4
  <2>6. Whole' = {[key |-> y, gen |-> target'[y].manifest.gen] :
                      y \in {x \in Keys : Valid(x)'}}
    BY DEF Whole
  <2>7. lost \in Whole /\ Whole' = Whole \ {lost}
    BY <2>1, <2>2, <2>5, <2>6 DEF Whole
  <2>8. Abstract!Lose
    BY <2>1, <2>7 DEF Abstract!Lose, Whole
  <2> QED BY <2>8 DEF Abstract!Next
<1> QED
  <2>1. CASE \E a \in Attempts : AttemptStep(a)
    <3>1. PICK a \in Attempts : AttemptStep(a)
      BY <2>1
    <3>2. \/ UNCHANGED <<target, commits>> \/ RemoveOld(a) \/ WriteManifest(a)
          \/ \E f \in Files : OpenCopy(a, f) \/ EndCopy(a, f)
      BY <3>1 DEF AttemptStep, Acquire, WriteFile, BuildManifest, StartCommit, ListFiles, Finish
    <3> QED BY <1>1, <1>2, <1>3, <1>4, <1>5, <3>2
  <2>2. CASE \E k \in Keys : Damage(k)
    BY <1>6, <2>2
  <2>3. CASE UNCHANGED <<target, commits>>
    BY <1>1, <1>2, <2>3
  <2>4. \/ \E a \in Attempts : AttemptStep(a)
        \/ \E k \in Keys : Damage(k)
        \/ UNCHANGED <<target, commits>>
    BY DEF Next, Abort, ReadManifest, CheckFile, Use, CleanStart, CleanDir, CleanFile, vars
  <2> QED BY <2>1, <2>2, <2>3, <2>4

\* ArtifactStore implements Artifacts: for readers, commit is atomic, only a
\* commit brings an artifact, only a loss takes it away.
THEOREM Implements == Spec => ImplementsArtifacts
  BY InitAbstract, NextAbstract, SafeInvariance, PTL
  DEF Spec, ImplementsArtifacts, Abstract!Spec


-----------------------------------------------------------------------------
(* A valid artifact is the work of one attempt.                             *)

\* Only its own actions move an attempt.
LEMMA AttemptMoves ==
    ASSUME TypeOK, [Next]_vars, NEW a \in Attempts, attempt'[a] # attempt[a]
    PROVE  \/ Acquire(a) \/ BuildManifest(a) \/ StartCommit(a) \/ ListFiles(a)
           \/ WriteManifest(a) \/ Finish(a) \/ Abort(a)
           \/ \E f \in Files : WriteFile(a, f) \/ EndCopy(a, f)
<1>1. CASE \E b \in Attempts : AttemptStep(b) \/ Abort(b)
  <2>1. PICK b \in Attempts : AttemptStep(b) \/ Abort(b)
    BY <1>1
  <2>2. CASE b = a
    BY <2>1, <2>2 DEF AttemptStep, RemoveOld, OpenCopy
  <2>3. CASE b # a
    <3>1. \/ attempt' = attempt \/ BuildManifest(b)
          \/ \E pc : End(b, pc) \/ \E left : Goto(b, pc, left)
      BY <2>1 DEF AttemptStep, Acquire, StartCommit, RemoveOld, ListFiles,
                  WriteManifest, Finish, Abort, WriteFile, OpenCopy, EndCopy
    <3> QED BY <2>3, <3>1, GotoFrame, EndFrame, BuildFrame
  <2> QED BY <2>2, <2>3
<1>2. CASE attempt' = attempt
  BY <1>2
<1> QED
  BY <1>1, <1>2
  DEF Next, ReadManifest, Damage, CheckFile, Use, CleanStart, CleanDir, CleanFile, vars

\* An attempt that has started has started for good, so that a key whose attempts
\* are alone was so before.
LEMMA AloneBefore ==
    ASSUME TypeOK, [Next]_vars, NEW k \in Keys, Alone(k)'
    PROVE  Alone(k)
<1>1. ASSUME NEW a \in Attempts, Started(a) PROVE Started(a)'
  <2>1. CASE attempt'[a] = attempt[a]
    BY <1>1, <2>1 DEF Started, At
  <2>2. CASE attempt'[a] # attempt[a]
    <3>1. \/ BuildManifest(a)
          \/ \E pc \in {"done", "written", "aborted"} : End(a, pc)
          \/ \E pc \in {"filtering", "removing", "copying"} : \E left : Goto(a, pc, left)
      BY <2>2, AttemptMoves
      DEF Acquire, StartCommit, ListFiles, WriteManifest, Finish, Abort, WriteFile, EndCopy
    <3> QED BY <3>1, GotoFrame, EndFrame, BuildFrame DEF Started, At
  <2> QED BY <2>1, <2>2
<1> QED BY <1>1 DEF Alone

\* In the directory of an attempt that is at work for a key that is alone, nobody
\* else is at work.
LEMMA OneInDir ==
    ASSUME Mutex, NEW a \in Attempts, NEW b \in Attempts, DirOf[b] = DirOf[a],
           Alone(KeyOf[a]), HoldsLock(a), HoldsLock(b)
    PROVE  b = a
<1>1. Started(a) /\ Started(b)
  BY DEF HoldsLock, Started, At
<1> QED BY <1>1 DEF Alone, Mutex

\* An attempt finds what it has written itself, and hashes that.
OwnFiles(a) ==
    Alone(KeyOf[a]) /\ HoldsLock(a) =>
        /\ tmp[DirOf[a]] # None => \A f \in Files : tmp[DirOf[a]][f] \in {None, Product[a]}
        /\ attempt[a].pc \in {"built", "removing", "copying"} =>
              \A f \in Files : attempt[a].hashes[f] = Product[a]

\* A manifest has the hashes of what one attempt for its key has written.
OwnManifests ==
    \A k \in Keys : Alone(k) /\ target[k].manifest # None =>
        \E a \in Attempts : /\ KeyOf[a] = k
                            /\ \A f \in Files : target[k].manifest.hashes[f] = Product[a]

Own == OwnManifests /\ \A a \in Attempts : OwnFiles(a)

\* There is nothing at the beginning.
LEMMA InitOwn == Init => Own
  BY AttemptsAssumption DEF Init, Own, OwnManifests, OwnFiles, HoldsLock

\* What an attempt finds in its directory: only who is at work there writes, and
\* everybody else deletes.
LEMMA TmpStaysOwn ==
    ASSUME Safe, [Next]_vars, NEW a \in Attempts, HoldsLock(a), Alone(KeyOf[a]), OwnFiles(a),
           tmp'[DirOf[a]] # None, NEW f \in Files
    PROVE  tmp'[DirOf[a]][f] \in {None, Product[a]}
<1>0. /\ TypeOK /\ Mutex /\ DirOf[a] \in Dirs
      /\ tmp[DirOf[a]] # None => tmp[DirOf[a]] \in [Files -> Products \cup {None}]
  BY AttemptsAssumption DEF Safe, TypeOK
<1>1. CASE tmp'[DirOf[a]] = tmp[DirOf[a]]
  BY <1>1 DEF OwnFiles
<1>2. CASE tmp'[DirOf[a]] = NoFiles
  BY <1>2 DEF NoFiles
<1>3. ASSUME NEW b \in Attempts, NEW g \in Files, WriteFile(b, g)
      PROVE  tmp'[DirOf[a]][f] \in {None, Product[a]}
  <2>1. CASE DirOf[b] = DirOf[a]
    <3>1. b = a
      BY <1>0, <1>3, <2>1, OneInDir DEF WriteFile, HoldsLock, At
    <3>2. tmp'[DirOf[a]] = [tmp[DirOf[a]] EXCEPT ![g] = Product[a]]
      BY <1>0, <1>3, <3>1 DEF WriteFile, TypeOK
    <3> QED BY <1>0, <1>3, <3>1, <3>2 DEF WriteFile, OwnFiles
  <2>2. CASE DirOf[b] # DirOf[a]
    BY <1>0, <1>1, <1>3, <2>2 DEF WriteFile, TypeOK
  <2> QED BY <2>1, <2>2
<1>4. ASSUME NEW d \in Dirs, NEW g \in Files, CleanFile(d, g)
      PROVE  tmp'[DirOf[a]][f] \in {None, Product[a]}
  <2>1. CASE d = DirOf[a]
    <3>1. tmp'[DirOf[a]] = [tmp[DirOf[a]] EXCEPT ![g] = None] /\ tmp[DirOf[a]] # None
      BY <1>0, <1>4, <2>1 DEF CleanFile, TypeOK
    <3> QED BY <1>0, <3>1 DEF OwnFiles
  <2>2. CASE d # DirOf[a]
    BY <1>0, <1>1, <1>4, <2>2 DEF CleanFile, TypeOK
  <2> QED BY <2>1, <2>2
<1>5. ASSUME NEW d \in Dirs, NEW x \in {None, NoFiles}, tmp' = [tmp EXCEPT ![d] = x]
      PROVE  tmp'[DirOf[a]] \in {tmp[DirOf[a]], NoFiles}
  BY <1>0, <1>5 DEF TypeOK
<1>6. CASE \E b \in Attempts : Acquire(b) \/ StartCommit(b) \/ Finish(b)
  BY <1>1, <1>2, <1>5, <1>6, AttemptsAssumption DEF Acquire, StartCommit, Finish
<1>7. CASE \E d \in Dirs : CleanDir(d)
  BY <1>1, <1>2, <1>5, <1>7 DEF CleanDir
<1>8. CASE tmp' = tmp
  BY <1>1, <1>8
<1> QED
  BY <1>3, <1>4, <1>6, <1>7, <1>8
  DEF Next, AttemptStep, BuildManifest, RemoveOld, ListFiles, WriteManifest, OpenCopy,
      EndCopy, Abort, ReadManifest, Damage, CheckFile, Use, CleanStart, vars

\* Only WriteManifest brings a manifest.
LEMMA ManifestStays ==
    ASSUME Safe, [Next]_vars, NEW k \in Keys,
           ~\E a \in Attempts : KeyOf[a] = k /\ WriteManifest(a)
    PROVE  target'[k].manifest \in {None, target[k].manifest}
<1>0. TypeOK
  BY DEF Safe
<1>1. ASSUME NEW x \in Keys, NEW f, NEW y, target' = [target EXCEPT ![x].files[f] = y]
      PROVE  target'[k].manifest = target[k].manifest
  BY <1>0, <1>1 DEF TypeOK
<1>2. ASSUME NEW x \in Keys, target' = [target EXCEPT ![x].manifest = None]
      PROVE  target'[k].manifest \in {None, target[k].manifest}
  BY <1>0, <1>2 DEF TypeOK
<1>3. CASE \E a \in Attempts : RemoveOld(a)
  BY <1>1, <1>2, <1>3, AttemptsAssumption DEF RemoveOld
<1>4. CASE \E a \in Attempts, f \in Files : OpenCopy(a, f) \/ EndCopy(a, f)
  BY <1>1, <1>4, AttemptsAssumption DEF OpenCopy, EndCopy
<1>5. CASE \E a \in Attempts : WriteManifest(a)
  <2>1. PICK a \in Attempts : WriteManifest(a)
    BY <1>5
  <2>2. KeyOf[a] # k
    BY <2>1
  <2> QED BY <1>0, <2>1, <2>2 DEF WriteManifest, TypeOK
<1>6. CASE \E x \in Keys : Damage(x)
  BY <1>1, <1>2, <1>6 DEF Damage
<1>7. CASE target' = target
  BY <1>7
<1> QED
  BY <1>3, <1>4, <1>5, <1>6, <1>7
  DEF Next, AttemptStep, Acquire, BuildManifest, StartCommit, ListFiles, Finish, WriteFile,
      Abort, ReadManifest, CheckFile, Use, CleanStart, CleanDir, CleanFile, vars

\* Every step keeps the files and the manifests of one attempt together.
LEMMA NextOwn == Safe /\ Own /\ [Next]_vars => Own'
<1> SUFFICES ASSUME Safe, Own, [Next]_vars PROVE Own'
  OBVIOUS
<1>0. TypeOK /\ Mutex /\ \A a \in Attempts : KeyOf[a] \in Keys /\ DirOf[a] \in Dirs
  BY AttemptsAssumption DEF Safe
<1>1. ASSUME NEW a \in Attempts, Alone(KeyOf[a])', HoldsLock(a)'
      PROVE  /\ tmp'[DirOf[a]] # None =>
                    \A f \in Files : tmp'[DirOf[a]][f] \in {None, Product[a]}
             /\ attempt'[a].pc \in {"built", "removing", "copying"} =>
                    \A f \in Files : attempt'[a].hashes[f] = Product[a]
  <2>1. Alone(KeyOf[a]) /\ OwnFiles(a)
    BY <1>0, <1>1, AloneBefore DEF Own
  <2>2. CASE ~HoldsLock(a)
    <3>1. attempt'[a] # attempt[a]
      BY <1>1, <2>2 DEF HoldsLock
    <3>2. Acquire(a)
      BY <1>0, <2>2, <3>1, AttemptMoves
      DEF HoldsLock, At, BuildManifest, StartCommit, ListFiles, WriteManifest, Finish, Abort,
          WriteFile, EndCopy
    <3>3. ~End(a, "done")
      BY <1>0, <1>1, EndFrame DEF HoldsLock
    <3>4. Goto(a, "filtering", Files) /\ tmp' = [tmp EXCEPT ![DirOf[a]] = NoFiles]
      BY <3>2, <3>3 DEF Acquire
    <3>5. attempt'[a].pc = "filtering" /\ tmp'[DirOf[a]] = NoFiles
      BY <1>0, <3>4, GotoFrame DEF TypeOK
    <3> QED BY <3>5 DEF NoFiles
  <2>3. CASE HoldsLock(a)
    <3>1. tmp'[DirOf[a]] # None => \A f \in Files : tmp'[DirOf[a]][f] \in {None, Product[a]}
      BY <2>1, <2>3, TmpStaysOwn
    <3>2. ASSUME attempt'[a].pc \in {"built", "removing", "copying"}, NEW f \in Files
          PROVE  attempt'[a].hashes[f] = Product[a]
      <4>1. CASE attempt'[a] = attempt[a]
        BY <2>1, <2>3, <3>2, <4>1 DEF OwnFiles
      <4>2. CASE BuildManifest(a)
        <5>1. tmp[DirOf[a]] # None /\ tmp[DirOf[a]][f] # None
          BY <4>2 DEF BuildManifest
        <5> QED BY <1>0, <2>1, <2>3, <4>2, <5>1, BuildFrame DEF OwnFiles
      <4>3. CASE attempt'[a] # attempt[a] /\ ~BuildManifest(a)
        <5>1. \A left : /\ ~End(a, "done") /\ ~End(a, "written") /\ ~End(a, "aborted")
                        /\ ~Goto(a, "filtering", left)
          BY <1>0, <3>2, GotoFrame, EndFrame
        <5>2. /\ attempt[a].pc \in {"built", "removing", "copying"}
              /\ \E pc, left : Goto(a, pc, left)
          BY <1>0, <4>3, <5>1, AttemptMoves
          DEF Acquire, StartCommit, ListFiles, WriteManifest, Finish, Abort, WriteFile,
              EndCopy, At
        <5> QED BY <1>0, <2>1, <2>3, <5>2, GotoFrame DEF OwnFiles
      <4> QED BY <4>1, <4>2, <4>3
    <3> QED BY <3>1, <3>2
  <2> QED BY <2>2, <2>3
<1>2. ASSUME NEW k \in Keys, Alone(k)', target'[k].manifest # None
      PROVE  \E a \in Attempts : /\ KeyOf[a] = k
                                 /\ \A f \in Files : target'[k].manifest.hashes[f] = Product[a]
  <2>1. Alone(k)
    BY <1>0, <1>2, AloneBefore
  <2>2. CASE \E a \in Attempts : KeyOf[a] = k /\ WriteManifest(a)
    <3>1. PICK a \in Attempts : KeyOf[a] = k /\ WriteManifest(a)
      BY <2>2
    <3>2. \A f \in Files : attempt[a].hashes[f] = Product[a]
      BY <2>1, <3>1 DEF WriteManifest, At, HoldsLock, Own, OwnFiles
    <3>3. target'[k].manifest.hashes = attempt[a].hashes
      BY <1>0, <3>1 DEF WriteManifest, TypeOK, Directory
    <3> QED BY <3>1, <3>2, <3>3
  <2>3. CASE ~\E a \in Attempts : KeyOf[a] = k /\ WriteManifest(a)
    <3>1. target'[k].manifest = target[k].manifest /\ target[k].manifest # None
      BY <1>2, <2>3, ManifestStays
    <3> QED BY <2>1, <3>1 DEF Own, OwnManifests
  <2> QED BY <2>2, <2>3
<1> QED BY <1>1, <1>2 DEF Own, OwnManifests, OwnFiles

\* Every reachable state has the files and manifests of one attempt together,
\* for every key whose attempts are alone in their directories.
THEOREM OwnInvariance == Spec => []Own
  BY InitOwn, NextOwn, SafeInvariance, PTL DEF Spec

\* What is valid is the work of one attempt at this very artifact.
THEOREM OneAttempt == Spec => []OneAttemptsWork
<1>1. Own => OneAttemptsWork
  BY DEF Own, OwnManifests, OneAttemptsWork, Valid, Intact
<1> QED BY <1>1, OwnInvariance, PTL

-----------------------------------------------------------------------------
(* Without losses and API starts: manifests and readers.                   *)

Quiet == losses = 0 /\ cleans = 0

\* The files that an attempt is about to copy are there.
Source(a) == tmp[DirOf[a]] # None /\ \A f \in Files : tmp[DirOf[a]][f] # None

\* How far an attempt is, in terms of files.
Progress(a) ==
    Alone(KeyOf[a]) =>
        /\ attempt[a].pc \in {"built", "removing", "copying"} => Source(a)
        /\ At(a, "copying") =>
              \A f \in Files : target[KeyOf[a]].files[f] \in
                 IF f \in attempt[a].left THEN {None, Partial(Product[a])} ELSE {Product[a]}

\* A reader that has not given up has read the manifest that is there.
ReaderUpToDate ==
    reader.pc # "idle" =>
        /\ reader.key \in Keys /\ reader.manifest \in Manifest
        /\ Alone(reader.key) => target[reader.key].manifest = reader.manifest

ManifestsValid == \A k \in Keys : Alone(k) /\ target[k].manifest # None => Valid(k)

Undisturbed ==
    Quiet => /\ cleaning = {}
             /\ ManifestsValid
             /\ \A a \in Attempts : Progress(a)
             /\ ReaderUpToDate

\* At the beginning nothing is disturbed.
LEMMA InitUndisturbed == Init => Undisturbed
  BY AttemptsAssumption
  DEF Init, Undisturbed, ManifestsValid, Progress, At, ReaderUpToDate, Idle

\* Without a loss, nobody touches a valid artifact.
LEMMA ValidStays ==
    ASSUME Safe, [Next]_vars, losses' = losses, NEW k \in Keys, Valid(k)
    PROVE  target'[k] = target[k]
<1>0. TypeOK /\ CommitKnows
  BY DEF Safe
<1>1. ASSUME NEW a \in Attempts, RemoveOld(a) PROVE target'[k] = target[k]
  <2>1. KeyOf[a] # k
    BY <1>0, <1>1 DEF RemoveOld, CommitKnows
  <2> QED BY <1>0, <1>1, <2>1 DEF RemoveOld, TypeOK
<1>2. ASSUME NEW a \in Attempts,
             WriteManifest(a) \/ \E f \in Files : OpenCopy(a, f) \/ EndCopy(a, f)
      PROVE  target'[k] = target[k]
  <2>1. At(a, "copying")
    BY <1>2 DEF WriteManifest, OpenCopy, EndCopy
  <2>2. KeyOf[a] # k
    BY <1>0, <2>1 DEF CommitKnows, Valid
  <2> QED BY <1>0, <1>2, <2>2 DEF WriteManifest, OpenCopy, EndCopy, TypeOK
<1>3. CASE \E x \in Keys : Damage(x)
  BY <1>0, <1>3 DEF Damage, TypeOK
<1>4. CASE target' = target
  BY <1>4
<1> QED
  BY <1>1, <1>2, <1>3, <1>4
  DEF Next, AttemptStep, Acquire, BuildManifest, StartCommit, ListFiles, Finish, WriteFile,
      Abort, ReadManifest, CheckFile, Use, CleanStart, CleanDir, CleanFile, vars

\* The files that an attempt is to copy stay until it has copied them: nobody
\* else in the lock has its temporary directory.
LEMMA SourceStays ==
    ASSUME Safe, [Next]_vars, cleaning = {}, NEW a \in Attempts, Source(a), Alone(KeyOf[a])',
           attempt[a].pc \in {"built", "removing", "copying"},
           attempt'[a].pc \in {"built", "removing", "copying"}
    PROVE  Source(a)'
<1>0. TypeOK /\ Mutex /\ Alone(KeyOf[a])
  BY AloneBefore, AttemptsAssumption DEF Safe
<1>1. CASE tmp'[DirOf[a]] = tmp[DirOf[a]]
  BY <1>1 DEF Source
<1>2. HoldsLock(a)
  BY DEF HoldsLock
<1>3. ASSUME NEW b \in Attempts, DirOf[b] = DirOf[a], HoldsLock(b) PROVE b = a
  BY <1>0, <1>2, <1>3, OneInDir
<1>4. ASSUME NEW b \in Attempts, Acquire(b) PROVE tmp'[DirOf[a]] = tmp[DirOf[a]]
  <2>1. DirOf[b] # DirOf[a]
    <3> SUFFICES ASSUME DirOf[b] = DirOf[a] PROVE FALSE
      OBVIOUS
    <3>1. Started(a)'
      BY DEF Started, At
    <3>2. Started(b)'
      BY <1>0, <1>4, GotoFrame, EndFrame DEF Acquire, Started, At
    <3>3. KeyOf[b] = KeyOf[a]
      BY <3>1, <3>2 DEF Alone
    <3> QED BY <1>2, <1>4, <3>3 DEF Acquire, LockFree
  <2> QED BY <1>0, <1>4, <2>1, AttemptsAssumption DEF Acquire, TypeOK
<1>5. ASSUME NEW b \in Attempts,
             StartCommit(b) \/ Finish(b) \/ \E f \in Files : WriteFile(b, f)
      PROVE  tmp'[DirOf[a]] = tmp[DirOf[a]]
  <2>1. HoldsLock(b)
    BY <1>5 DEF StartCommit, Finish, WriteFile, HoldsLock, At
  <2>2. CASE b = a
    <3>1. StartCommit(a)
      BY <1>5, <2>2 DEF Finish, WriteFile, At
    <3>2. ~End(a, "done")
      BY <1>0, EndFrame
    <3> QED BY <3>1, <3>2 DEF StartCommit
  <2>3. CASE DirOf[b] # DirOf[a]
    BY <1>0, <1>5, <2>3, AttemptsAssumption DEF StartCommit, Finish, WriteFile, TypeOK
  <2> QED BY <1>3, <2>1, <2>2, <2>3
<1>6. CASE tmp' = tmp
  BY <1>1, <1>6
<1>7. ~\E d \in Dirs : CleanDir(d) \/ \E f \in Files : CleanFile(d, f)
  BY DEF CleanDir, CleanFile
<1> QED
  BY <1>1, <1>4, <1>5, <1>6, <1>7
  DEF Next, AttemptStep, BuildManifest, RemoveOld, ListFiles, WriteManifest, OpenCopy,
      EndCopy, Abort, ReadManifest, Damage, CheckFile, Use, CleanStart, vars

\* While an attempt copies, nobody else touches its target.
LEMMA TargetStays ==
    ASSUME Safe, [Next]_vars, NEW a \in Attempts, At(a, "copying"), ~WriteManifest(a),
           ~\E g \in Files : OpenCopy(a, g) \/ EndCopy(a, g)
    PROVE  target'[KeyOf[a]] = target[KeyOf[a]]
<1>0. TypeOK /\ Mutex /\ CommitKnows /\ KeyOf[a] \in Keys
  BY AttemptsAssumption DEF Safe
<1>1. ASSUME NEW b \in Attempts \ {a},
             \/ RemoveOld(b) \/ WriteManifest(b)
             \/ \E g \in Files : OpenCopy(b, g) \/ EndCopy(b, g)
      PROVE  target'[KeyOf[a]] = target[KeyOf[a]]
  <2>1. HoldsLock(a) /\ HoldsLock(b)
    BY <1>1 DEF RemoveOld, WriteManifest, OpenCopy, EndCopy, HoldsLock, At
  <2>2. KeyOf[b] # KeyOf[a]
    BY <1>0, <2>1, OtherTarget
  <2> QED BY <1>0, <1>1, <2>2 DEF RemoveOld, WriteManifest, OpenCopy, EndCopy, TypeOK
<1>2. ASSUME NEW x \in Keys, Damage(x) PROVE target'[KeyOf[a]] = target[KeyOf[a]]
  <2>1. x # KeyOf[a]
    BY <1>0, <1>2 DEF Damage, Valid, CommitKnows
  <2> QED BY <1>0, <1>2, <2>1 DEF Damage, TypeOK
<1>3. ~RemoveOld(a)
  BY DEF RemoveOld, At
<1>4. CASE target' = target
  BY <1>4
<1> QED
  BY <1>1, <1>2, <1>3, <1>4
  DEF Next, AttemptStep, Acquire, BuildManifest, StartCommit, ListFiles, Finish, WriteFile,
      Abort, ReadManifest, CheckFile, Use, CleanStart, CleanDir, CleanFile, vars

\* Every step keeps the manifests in order, if nobody has deleted a file or cleaned up.
LEMMA NextUndisturbed == Safe /\ Safe' /\ Own /\ Undisturbed /\ [Next]_vars => Undisturbed'
<1> SUFFICES ASSUME Safe, Safe', Own, Undisturbed, [Next]_vars, Quiet' PROVE
        /\ cleaning' = {}
        /\ ManifestsValid'
        /\ \A a \in Attempts : Progress(a)'
        /\ ReaderUpToDate'
  BY DEF Undisturbed
<1>0. TypeOK /\ TypeOK' /\ CommitKnows
  BY DEF Safe
<1>1. Quiet /\ losses' = losses /\ cleaning' = {}
  <2>1. /\ losses' = losses \/ losses' = losses + 1
        /\ \/ cleans' = cleans /\ cleaning' \subseteq cleaning
           \/ cleans' = cleans + 1
    BY DEF Next, AttemptStep, Acquire, BuildManifest, StartCommit, RemoveOld, ListFiles,
           WriteManifest, Finish, Abort, WriteFile, OpenCopy, EndCopy, ReadManifest, Damage,
           CheckFile, Use, CleanStart, CleanDir, CleanFile, vars
  <2>2. losses' = losses /\ cleans' = cleans
    BY <1>0, <2>1 DEF Quiet, TypeOK
  <2> QED BY <2>1, <2>2 DEF Quiet, Undisturbed
<1>2. /\ cleaning = {} /\ ManifestsValid /\ ReaderUpToDate
      /\ \A a \in Attempts : Progress(a)
  BY <1>1 DEF Undisturbed
<1>3. \A k \in Keys : Valid(k) => Valid(k)' /\ target'[k] = target[k]
  BY <1>1, ValidStays, ValidFrame
<1>4. ManifestsValid'
  <2> SUFFICES ASSUME NEW k \in Keys, Alone(k)', target'[k].manifest # None PROVE Valid(k)'
    BY DEF ManifestsValid
  <2>0. Alone(k)
    BY <1>0, AloneBefore
  <2>1. CASE \E a \in Attempts : KeyOf[a] = k /\ WriteManifest(a)
    <3>1. PICK a \in Attempts : KeyOf[a] = k /\ WriteManifest(a)
      BY <2>1
    <3>2. \A f \in Files : target[k].files[f] = Product[a]
      BY <1>2, <2>0, <3>1 DEF WriteManifest, Copied, Progress
    <3>3. \A f \in Files : attempt[a].hashes[f] = Product[a]
      BY <2>0, <3>1 DEF WriteManifest, At, HoldsLock, Own, OwnFiles
    <3>4. /\ target'[k].manifest.hashes = attempt[a].hashes
          /\ target'[k].files = target[k].files
      BY <1>0, <3>1 DEF WriteManifest, TypeOK, Directory
    <3> QED BY <3>2, <3>3, <3>4 DEF Valid, Intact
  <2>2. CASE ~\E a \in Attempts : KeyOf[a] = k /\ WriteManifest(a)
    <3>1. target[k].manifest # None
      BY <2>2, ManifestStays
    <3> QED BY <1>2, <1>3, <2>0, <3>1 DEF ManifestsValid
  <2> QED BY <2>1, <2>2
<1>5. ASSUME NEW a \in Attempts, Alone(KeyOf[a])'
      PROVE  /\ attempt'[a].pc \in {"built", "removing", "copying"} => Source(a)'
             /\ At(a, "copying")' =>
                   \A f \in Files : target'[KeyOf[a]].files[f] \in
                      IF f \in attempt'[a].left THEN {None, Partial(Product[a])}
                                               ELSE {Product[a]}
  <2> DEFINE k == KeyOf[a]
             InCommit == {"built", "removing", "copying"}
  <2>0. k \in Keys /\ DirOf[a] \in Dirs /\ Alone(k) /\ OwnFiles(a)
    BY <1>0, <1>5, AloneBefore, AttemptsAssumption DEF Own
  <2>1. attempt'[a].pc \in InCommit => Source(a)'
    <3> SUFFICES ASSUME attempt'[a].pc \in InCommit PROVE Source(a)'
      OBVIOUS
    <3>1. CASE attempt[a].pc \in InCommit
      BY <1>2, <1>5, <2>0, <3>1, SourceStays DEF Progress
    <3>2. CASE attempt[a].pc \notin InCommit
      <4>1. BuildManifest(a)
        <5>1. attempt'[a] # attempt[a]
          BY <3>2
        <5>2. \A left : /\ ~End(a, "done") /\ ~End(a, "written") /\ ~End(a, "aborted")
                        /\ ~Goto(a, "filtering", left)
          BY <1>0, GotoFrame, EndFrame
        <5> QED
          BY <1>0, <3>2, <5>1, <5>2, AttemptMoves
          DEF Acquire, StartCommit, ListFiles, WriteManifest, Finish, Abort, WriteFile,
              EndCopy, At
      <4> QED BY <4>1 DEF BuildManifest, Source
    <3> QED BY <3>1, <3>2
  <2>2. ASSUME At(a, "copying")', NEW f \in Files
        PROVE  target'[k].files[f] \in IF f \in attempt'[a].left THEN {None, Partial(Product[a])}
                                                               ELSE {Product[a]}
    <3>1. CASE ListFiles(a)
      <4>1. attempt'[a].left = Listed(a)
        BY <1>0, <3>1, GotoFrame DEF ListFiles
      <4>2. Listed(a) = Files
        BY <1>2, <2>0, <3>1 DEF ListFiles, Progress, Source, Listed, At
      <4>3. target'[k].files[f] = None
        BY <3>1 DEF ListFiles, NoFiles
      <4> QED BY <4>1, <4>2, <4>3
    <3>2. CASE \E g \in Files : EndCopy(a, g)
      <4>1. PICK g \in Files : EndCopy(a, g)
        BY <3>2
      <4>2. PICK y \in Products : /\ target[k].files[g] = Partial(y)
                                 /\ target' = [target EXCEPT ![k].files[g] = y]
        BY <4>1 DEF EndCopy
      <4>3. At(a, "copying") /\ g \in attempt[a].left /\ attempt'[a].left = attempt[a].left \ {g}
        BY <1>0, <4>1, GotoFrame DEF EndCopy
      <4>4. /\ target'[k].files[g] = y
            /\ \A h \in Files \ {g} : target'[k].files[h] = target[k].files[h]
        BY <1>0, <2>0, <4>2 DEF TypeOK, Directory
      <4>5. y = Product[a]
        <5>1. Partial(y) \in {None, Partial(Product[a])}
          BY <1>2, <2>0, <4>2, <4>3 DEF Progress
        <5>2. Partial(y) # None
          BY NoneAssumption DEF Partials
        <5> QED BY <5>1, <5>2 DEF Partial
      <4> QED BY <1>2, <2>0, <4>3, <4>4, <4>5 DEF Progress
    <3>3. CASE \E g \in Files : OpenCopy(a, g)
      <4>1. PICK g \in Files : OpenCopy(a, g)
        BY <3>3
      <4>2. At(a, "copying") /\ g \in attempt[a].left /\ attempt' = attempt
        BY <4>1 DEF OpenCopy
      <4>3. tmp[DirOf[a]][g] = Product[a]
        BY <2>0, <4>1, <4>2 DEF OpenCopy, OwnFiles, HoldsLock, At
      <4>4. /\ target'[k].files[g] = Partial(Product[a])
            /\ \A h \in Files \ {g} : target'[k].files[h] = target[k].files[h]
        BY <1>0, <2>0, <4>1, <4>3 DEF OpenCopy, TypeOK, Directory
      <4> QED BY <1>2, <2>0, <4>2, <4>4 DEF Progress
    <3>4. CASE ~ListFiles(a) /\ ~\E g \in Files : OpenCopy(a, g) \/ EndCopy(a, g)
      <4>1. \A left : /\ ~End(a, "done") /\ ~End(a, "written") /\ ~End(a, "aborted")
                      /\ ~Goto(a, "filtering", left) /\ ~Goto(a, "removing", left)
                      /\ ~BuildManifest(a)
        BY <1>0, <2>2, GotoFrame, EndFrame, BuildFrame DEF At
      <4>2. attempt'[a] = attempt[a]
        BY <1>0, <3>4, <4>1, AttemptMoves
        DEF Acquire, StartCommit, WriteManifest, Finish, Abort, WriteFile
      <4>3. At(a, "copying") /\ ~WriteManifest(a)
        BY <2>2, <4>1, <4>2 DEF At, WriteManifest
      <4>4. target'[k] = target[k]
        BY <3>4, <4>3, TargetStays
      <4> QED BY <1>2, <2>0, <4>2, <4>3, <4>4 DEF Progress
    <3> QED BY <3>1, <3>2, <3>3, <3>4
  <2> QED BY <2>1, <2>2
<1>6. ReaderUpToDate'
  <2>1. CASE reader' = reader
    <3> SUFFICES ASSUME reader.pc # "idle"
                 PROVE  /\ reader.key \in Keys /\ reader.manifest \in Manifest
                        /\ Alone(reader.key)' => target'[reader.key].manifest = reader.manifest
      BY <2>1 DEF ReaderUpToDate, Alone, Started, At
    <3>1. reader.key \in Keys /\ reader.manifest \in Manifest
      BY <1>2 DEF ReaderUpToDate
    <3>2. ASSUME Alone(reader.key)' PROVE target'[reader.key].manifest = reader.manifest
      <4>1. Alone(reader.key)
        <5>1. PICK k \in Keys : k = reader.key
          BY <3>1
        <5>2. Alone(k)'
          BY <2>1, <3>2, <5>1 DEF Alone, Started, At
        <5> QED BY <1>0, <5>1, <5>2, AloneBefore
      <4>2. target[reader.key].manifest = reader.manifest
        BY <1>2, <4>1 DEF ReaderUpToDate
      <4>3. Valid(reader.key)
        BY <1>2, <3>1, <4>1, <4>2, NoneAssumption DEF ManifestsValid, Manifest
      <4> QED BY <1>3, <3>1, <4>2, <4>3
    <3> QED BY <3>1, <3>2
  <2>2. CASE \E k \in Wanted : ReadManifest(k)
    BY <1>0, <2>2, AttemptsAssumption DEF ReadManifest, ReaderUpToDate, TypeOK, Directory
  <2>3. CASE \E f \in Files : CheckFile(f)
    <3>1. /\ target' = target /\ reader.pc = "checking"
          /\ \/ reader' = Idle
             \/ reader'.key = reader.key /\ reader'.manifest = reader.manifest
      BY <1>0, <2>3 DEF CheckFile, TypeOK
    <3>2. attempt' = attempt
      BY <2>3 DEF CheckFile
    <3> QED BY <1>2, <3>1, <3>2 DEF ReaderUpToDate, Idle, Alone, Started, At
  <2>4. CASE Use
    BY <2>4 DEF Use, ReaderUpToDate, Idle
  <2> QED
    BY <2>1, <2>2, <2>3, <2>4
    DEF Next, AttemptStep, Acquire, BuildManifest, StartCommit, RemoveOld, ListFiles,
        WriteManifest, Finish, Abort, WriteFile, OpenCopy, EndCopy, Damage, CleanStart,
        CleanDir, CleanFile, vars
<1>7. \A a \in Attempts : Progress(a)'
  BY <1>5 DEF Progress
<1> QED BY <1>1, <1>4, <1>6, <1>7

\* As long as nothing was lost and no API started, every reachable state has
\* complete artifacts behind manifests and behind readers, for every key whose
\* attempts are alone in their directories.
THEOREM UndisturbedInvariance == Spec => []Undisturbed
  BY InitUndisturbed, NextUndisturbed, SafeInvariance, OwnInvariance, PTL DEF Spec

\* A manifest is written last: where there is one, there are the files.
THEOREM ManifestLast == Spec => []ManifestIsLast
<1>1. Undisturbed => ManifestIsLast
  BY DEF Undisturbed, ManifestIsLast, ManifestsValid, Quiet
<1> QED BY <1>1, UndisturbedInvariance, PTL

\* A reader without the lock uses the artifact that it has checked.
THEOREM ReaderUses == Spec => []ReaderUsesWhatItChecked
<1>1. Undisturbed => ReaderUsesWhatItChecked
  BY NoneAssumption
  DEF Undisturbed, ReaderUsesWhatItChecked, ReaderUpToDate, ManifestsValid, Manifest, Quiet
<1> QED BY <1>1, UndisturbedInvariance, PTL
=============================================================================
