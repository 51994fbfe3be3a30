--------------------------- MODULE Background_proofs ---------------------------
(***************************************************************************)
(* Theorems about the trigger and the robots: for any number of runs,      *)
(* workers and robots, whatever may be lost and however often something    *)
(* fails or starts again, no pair is sent twice, a pair leaves out only    *)
(* newer results, and the trigger creates a run only when no scheduled one *)
(* is active.                                                              *)
(***************************************************************************)
EXTENDS Background, SequenceTheorems, FiniteSetTheorems, TLAPS

-----------------------------------------------------------------------------
(* The invariant. *)

Modes == {"absent", "waiting", "owned", "stopped", "done"}
Losses == {"nothing", "inputs", "summary"}
Robots == [pc : Robot!PC, unread : 0..NRuns, before : SUBSET Runs, found : SUBSET Runs,
           pair : Robot!Pairs \cup {Robot!NoPair}, sent : Seq(Robot!Pairs)]
Triggers == [pc : Trigger!PC, unread : 0..NRuns, active : SUBSET Runs]

\* Runs are numbered as they are created, and the finished ones are done.
RunsFit ==
    /\ mode \in [Runs -> Modes] /\ stage \in [Runs -> Nat]
    /\ \A r \in Runs : mode[r] # "done" => stage[r] = 0
    /\ Created \in 0..NRuns /\ Trigger!Created = 1..Created
    /\ finished \in Seq(Runs) /\ Robot!IsInjective(finished)
    /\ \A r \in Runs : mode[r] = "done" <=> r \in Robot!Range(finished)

LossesFit == /\ lost \in [Runs -> Losses]
             /\ \A r \in Runs : lost[r] # "nothing" => r \in Fragile

HistoryFits == history \in Seq(Robot!Pairs) /\ Len(history) <= HistoryLimit

\* What a robot has seen: of the results that were there when it began, those whose
\* turn is over; and then a pair that leaves out only older ones.
Scanned(me) ==
    /\ me.pair = Robot!NoPair
    /\ me.before \subseteq Robot!Range(finished) \ Fragile
    /\ me.found \subseteq Robot!Range(finished)
    /\ \A r \in me.before : r <= me.unread \/ r \in me.found

Paired(me) ==
    /\ me.pair \in Robot!Pairs
    /\ me.before \cup {me.pair[1], me.pair[2]} \subseteq Robot!Range(finished)
    /\ \A r \in me.before \ {me.pair[1], me.pair[2]} :
          Robot!Position(r) < Robot!Position(me.pair[1])

Seen(me) ==
    /\ me.pc = "asleep" => me.pair = Robot!NoPair
    /\ me.pc = "scanning" => Scanned(me)
    /\ me.pc = "paired" => Paired(me)
    /\ me.pc \in {"comparing", "announced"} => me.pair \in Robot!Pairs /\ me.before = {}

RobotsFit ==
    /\ robot \in [Owners -> Robots]
    /\ \A p \in Owners : Seen(robot[p])

\* One robot has the lock, and its pair was not sent when it took it.
LockKept ==
    /\ outbox \in [Robot!Pairs -> 0..1]
    /\ \A p, q \in Owners : Robot!HoldsLock(p) /\ Robot!HoldsLock(q) => p = q
    /\ \A p \in Owners : robot[p].pc = "comparing" => outbox[robot[p].pair] = 0

\* What the trigger has seen: no scheduled run escapes it that is active, though
\* runs stop being active while it looks.
TriggerFits ==
    /\ trigger \in Triggers
    /\ scheduled \subseteq Trigger!Created
    /\ trigger.pc = "listing" =>
          \A r \in InProgress : r <= trigger.unread \/ r \in trigger.active
    /\ trigger.pc = "looking" =>
          \A r \in InProgress : r <= trigger.unread /\ r \in trigger.active

BInv ==
    /\ RunsFit /\ LossesFit /\ HistoryFits /\ RobotsFit /\ LockKept /\ TriggerFits
    /\ enabled \in Fleets /\ faults \in 0..MaxFaults

-----------------------------------------------------------------------------
(* Sequences and the places in them. *)

\* A nonempty set of places has a last one.
LEMMA LastPlace ==
    ASSUME NEW n \in Nat, NEW S \in SUBSET (1..n), S # {}
    PROVE  /\ Robot!Max(S) \in S
           /\ \A j \in S : j <= Robot!Max(S)
<1> DEFINE Less == OpToRel(<, Nat)
           T == {k \in 0..n : n - k \in S}
<1>1. T \subseteq Nat /\ T # {}
  <2>1. PICK j \in S : TRUE
    OBVIOUS
  <2>2. n - j \in 0..n /\ n - (n - j) = j
    OBVIOUS
  <2>3. n - j \in T
    BY <2>1, <2>2
  <2>4. T \subseteq Nat
    OBVIOUS
  <2> HIDE DEF T
  <2> QED BY <2>3, <2>4
<1>2. PICK x \in T : \A y \in T : ~ (<<y, x>> \in Less)
  <2> HIDE DEF Less, T
  <2> QED BY <1>1, NatLessThanWellFounded, WFMin DEF Less
<1>3. \A y \in T : ~ (y < x)
  BY <1>1, <1>2 DEF OpToRel
<1>4. \A j \in S : j <= n - x
  <2> SUFFICES ASSUME NEW j \in S PROVE j <= n - x
    OBVIOUS
  <2>1. n - j \in T
    <3>1. n - j \in 0..n /\ n - (n - j) = j
      OBVIOUS
    <3> QED BY <3>1
  <2>2. ~ (n - j < x)
    BY <1>3, <2>1
  <2> QED BY <2>2
<1>5. n - x \in S
  OBVIOUS
<1> QED BY <1>4, <1>5 DEF Robot!Max

\* t is s with r at place i.
Inserted(t, s, i, r) ==
    /\ t \in Seq(Runs) /\ Len(t) = Len(s) + 1
    /\ \A k \in 1..(Len(s) + 1) :
          t[k] = IF k < i THEN s[k] ELSE IF k = i THEN r ELSE s[k - 1]

\* What a run that finishes does to the sequence of the finished ones.
LEMMA Insertion ==
    ASSUME NEW s \in Seq(Runs), NEW i \in 1..(Len(s) + 1), NEW r \in Runs
    PROVE  Inserted(Robot!InsertAt(s, i, r), s, i, r)
<1> DEFINE a == SubSeq(s, 1, i - 1)
           b == SubSeq(s, i, Len(s))
           ar == a \o <<r>>
<1>1. /\ a \in Seq(Runs) /\ Len(a) = i - 1
      /\ \A k \in 1..(i - 1) : a[k] = s[k]
  <2>1. \A k \in 1..(i - 1) : s[k] \in Runs
    BY ElementOfSeq
  <2> QED BY <2>1, SubSeqProperties
<1>2. /\ b \in Seq(Runs) /\ Len(b) = Len(s) - i + 1
      /\ \A k \in 1..(Len(s) - i + 1) : b[k] = s[i + k - 1]
  <2>1. \A k \in i..Len(s) : s[k] \in Runs
    BY ElementOfSeq
  <2>2. IF i <= Len(s) THEN TRUE ELSE i = Len(s) + 1
    OBVIOUS
  <2> QED BY <2>1, <2>2, SubSeqProperties
<1>3. <<r>> \in Seq(Runs) /\ Len(<<r>>) = 1 /\ <<r>>[1] = r
  OBVIOUS
<1>4. /\ ar \in Seq(Runs) /\ Len(ar) = i
      /\ \A k \in 1..i : ar[k] = IF k < i THEN s[k] ELSE r
  <2> HIDE DEF a
  <2>1. /\ ar \in Seq(Runs) /\ Len(ar) = Len(a) + 1
        /\ \A k \in 1..(Len(a) + 1) : ar[k] = IF k <= Len(a) THEN a[k] ELSE <<r>>[k - Len(a)]
    BY <1>1, <1>3, ConcatProperties
  <2> QED BY <1>1, <1>3, <2>1
<1>5. /\ ar \o b \in Seq(Runs) /\ Len(ar \o b) = Len(ar) + Len(b)
      /\ \A k \in 1..(Len(ar) + Len(b)) :
            (ar \o b)[k] = IF k <= Len(ar) THEN ar[k] ELSE b[k - Len(ar)]
  <2> HIDE DEF ar, b
  <2> QED BY <1>2, <1>4, ConcatProperties
<1>6. Robot!InsertAt(s, i, r) = ar \o b
  BY DEF Robot!InsertAt
<1>7. ASSUME NEW k \in 1..(Len(s) + 1)
      PROVE  (ar \o b)[k] = IF k < i THEN s[k] ELSE IF k = i THEN r ELSE s[k - 1]
  <2> HIDE DEF ar, b
  <2>1. k \in 1..(Len(ar) + Len(b))
    BY <1>2, <1>4
  <2>2. CASE k <= i
    BY <1>4, <1>5, <2>1, <2>2
  <2>3. CASE k > i
    <3>1. (ar \o b)[k] = b[k - i]
      BY <1>4, <1>5, <2>1, <2>3
    <3>2. k - i \in 1..(Len(s) - i + 1) /\ i + (k - i) - 1 = k - 1
      BY <2>3
    <3>3. b[k - i] = s[k - 1]
      BY <1>2, <3>2
    <3> QED BY <2>3, <3>1, <3>3
  <2>4. k <= i \/ k > i
    OBVIOUS
  <2> QED BY <2>2, <2>3, <2>4
<1>8. Len(ar \o b) = Len(s) + 1
  <2> HIDE DEF ar, b
  <2> QED BY <1>2, <1>4, <1>5
<1> HIDE DEF ar, b
<1> QED BY <1>5, <1>6, <1>7, <1>8 DEF Inserted

\* A finished run has one place among the finished ones.
LEMMA Place ==
    ASSUME finished \in Seq(Runs), Robot!IsInjective(finished),
           NEW r \in Robot!Range(finished)
    PROVE  /\ Robot!Position(r) \in 1..Len(finished)
           /\ finished[Robot!Position(r)] = r
           /\ \A i \in 1..Len(finished) : finished[i] = r => i = Robot!Position(r)
<1>1. PICK i \in DOMAIN finished : finished[i] = r
  BY DEF Robot!Range
<1>2. /\ Robot!Position(r) \in DOMAIN finished
      /\ finished[Robot!Position(r)] = r
  BY <1>1 DEF Robot!Position
<1>3. DOMAIN finished = 1..Len(finished)
  OBVIOUS
<1> QED BY <1>2, <1>3 DEF Robot!IsInjective

\* The pair of two results that were found: the places of both are later than those
\* of all the others.
LEMMA NewestOfFound ==
    ASSUME finished \in Seq(Runs), Robot!IsInjective(finished),
           NEW found \in SUBSET Runs, found \subseteq Robot!Range(finished),
           NEW a \in found, NEW c \in found, a # c
    PROVE  LET pair == Robot!NewestPair(found) IN
           /\ pair \in Robot!Pairs
           /\ pair[1] \in found /\ pair[2] \in found
           /\ \A r \in found \ {pair[1], pair[2]} :
                 Robot!Position(r) < Robot!Position(pair[1])
<1> DEFINE S == Robot!Positions(found)
           last == Robot!Max(S)
           prev == Robot!Max(S \ {last})
<1>1. S \in SUBSET (1..Len(finished)) /\ \A i \in S : finished[i] \in found
  BY DEF Robot!Positions
<1>2. \A r \in found : /\ Robot!Position(r) \in S
                       /\ finished[Robot!Position(r)] = r
                       /\ \A i \in S : finished[i] = r => i = Robot!Position(r)
  BY <1>1, Place DEF Robot!Positions
<1>3. last \in S /\ \A j \in S : j <= last
  <2> HIDE DEF S
  <2>1. S # {} /\ Len(finished) \in Nat
    BY <1>2
  <2> QED BY <1>1, <2>1, LastPlace
<1>4. prev \in S \ {last} /\ \A j \in S \ {last} : j <= prev
  <2> HIDE DEF S, last
  <2>1. S \ {last} # {} /\ Len(finished) \in Nat
    BY <1>2
  <2>2. S \ {last} \in SUBSET (1..Len(finished))
    BY <1>1
  <2> HIDE DEF prev
  <2> QED BY <2>1, <2>2, LastPlace DEF prev
<1>5. Robot!NewestPair(found) = <<finished[prev], finished[last]>>
  BY DEF Robot!NewestPair
<1> HIDE DEF S, last, prev
<1> DEFINE x == finished[prev]
           y == finished[last]
<1>6. x \in found /\ y \in found /\ x # y /\ Robot!Position(x) = prev
  BY <1>1, <1>2, <1>3, <1>4
<1>7. \A r \in found \ {x, y} : Robot!Position(r) < prev
  <2> SUFFICES ASSUME NEW r \in found \ {x, y} PROVE Robot!Position(r) < prev
    OBVIOUS
  <2>1. Robot!Position(r) \in S /\ Robot!Position(r) # last /\ Robot!Position(r) # prev
    BY <1>2
  <2>2. \A i \in S : i \in Int
    <3>1. S \subseteq 1..Len(finished)
      BY <1>1, Zenon
    <3> QED BY <3>1
  <2> QED BY <1>4, <2>1, <2>2
<1>8. <<x, y>> \in Robot!Pairs /\ <<x, y>>[1] = x /\ <<x, y>>[2] = y
  BY <1>6 DEF Robot!Pairs, Robot!Runs, Runs
<1> HIDE DEF x, y
<1> QED BY <1>5, <1>6, <1>7, <1>8 DEF x, y

-----------------------------------------------------------------------------
(* The runs. *)

\* The functions of the actions that are parameters of RunProgress here.
LEMMA Names == /\ Progress!Runs = Runs /\ Robot!Runs = Runs /\ Trigger!Runs = Runs
               /\ \A S : Robot!Cardinality(S) = Cardinality(S)
BY DEF Progress!Runs, Robot!Runs, Trigger!Runs, Runs, Robot!Cardinality, Cardinality

\* If the runs 1 to n are created, then n is their number.
LEMMA Counting ==
    ASSUME NEW n \in 0..NRuns
    PROVE  /\ Trigger!Created = 1..n => Created = n
           /\ Trigger!Created' = 1..n => Created' = n
<1>1. Cardinality(1..n) = n
  <2>1. 1 \in Int /\ n \in Int
    OBVIOUS
  <2>2. Cardinality(1..n) = IF 1 > n THEN 0 ELSE n - 1 + 1
    BY <2>1, FS_Interval
  <2> QED BY <2>2
<1> QED BY <1>1, Zenon DEF Created

\* A step that creates no run and finishes none.
LEMMA RunsMove ==
    ASSUME RunsFit, finished' = finished, stage' = stage, mode' \in [Runs -> Modes],
           \A r \in Runs : /\ mode[r] = "absent" <=> mode'[r] = "absent"
                           /\ mode[r] = "done" <=> mode'[r] = "done"
    PROVE  RunsFit' /\ Trigger!Created' = Trigger!Created /\ Created' = Created
<1>1. Trigger!Created' = Trigger!Created
  BY Names DEF Trigger!Created
<1>2. Created' = Created
  BY <1>1, Zenon DEF Created
<1>3. /\ Created' \in 0..NRuns /\ Trigger!Created' = 1..Created'
  BY <1>1, <1>2 DEF RunsFit
<1>4. finished' \in Seq(Runs) /\ Robot!IsInjective(finished)'
  BY DEF RunsFit, Robot!IsInjective
<1>5. Robot!Range(finished)' = Robot!Range(finished)
  BY DEF Robot!Range
<1>6. \A r \in Runs : mode'[r] = "done" <=> r \in Robot!Range(finished)'
  BY <1>5 DEF RunsFit
<1>7. \A r \in Runs : mode'[r] # "done" => stage'[r] = 0
  BY DEF RunsFit
<1>8. stage' \in [Runs -> Nat]
  BY DEF RunsFit
<1> QED BY <1>1, <1>2, <1>3, <1>4, <1>6, <1>7, <1>8 DEF RunsFit

\* A new run takes the next number.
LEMMA RunsGrow ==
    ASSUME RunsFit, Created < NRuns, Progress!Create(Created + 1), finished' = finished
    PROVE  RunsFit' /\ Created' = Created + 1 /\ Trigger!Created' = 1..(Created + 1)
<1> DEFINE n == Created + 1
<1>1. n \in 1..NRuns /\ Trigger!Created = 1..Created /\ Created \in 0..NRuns
  BY NRunsAssumption DEF RunsFit
<1>2. /\ mode[n] = "absent" /\ mode' = [mode EXCEPT ![n] = "waiting"] /\ stage' = stage
      /\ mode \in [Runs -> Modes]
  BY DEF Progress!Create, RunsFit
<1> HIDE DEF n
<1>3. Trigger!Created' = 1..n
  <2>1. \A r \in Runs : mode[r] # "absent" <=> r \in 1..Created
    BY <1>1, Names DEF Trigger!Created
  <2>2. \A r \in Runs : mode'[r] # "absent" <=> r \in 1..Created \/ r = n
    BY <1>1, <1>2, <2>1 DEF Runs
  <2>3. \A r \in Runs : r \in 1..n <=> r \in 1..Created \/ r = n
    BY <1>1 DEF Runs, n
  <2>4. Trigger!Created' = {r \in Runs : r \in 1..n}
    BY <2>2, <2>3, Names DEF Trigger!Created
  <2>5. {r \in Runs : r \in 1..n} = 1..n
    BY <1>1, NRunsAssumption DEF Runs
  <2> QED BY <2>4, <2>5
<1>4. n \in 0..NRuns /\ Created' = n
  BY <1>1, <1>3, Counting
<1>5. mode' \in [Runs -> Modes] /\ stage' \in [Runs -> Nat]
  BY <1>2 DEF RunsFit, Modes
<1>6. \A r \in Runs : mode'[r] # "done" => stage'[r] = 0
  BY <1>2 DEF RunsFit
<1>7. \A r \in Runs : mode'[r] = "done" <=> r \in Robot!Range(finished)'
  <2>1. Robot!Range(finished)' = Robot!Range(finished)
    BY DEF Robot!Range
  <2>2. \A r \in Runs : mode'[r] = "done" <=> mode[r] = "done"
    BY <1>2
  <2> QED BY <2>1, <2>2 DEF RunsFit
<1>8. finished' \in Seq(Runs) /\ Robot!IsInjective(finished)'
  BY DEF RunsFit, Robot!IsInjective
<1> QED BY <1>3, <1>4, <1>5, <1>6, <1>7, <1>8 DEF RunsFit, n

\* A run that finishes is put among the finished ones, and the order of the others
\* stays.
LEMMA RunsEnd ==
    ASSUME RunsFit, NEW r \in Runs, Progress!Complete(r), Robot!RunFinishes(r)
    PROVE  /\ RunsFit' /\ Trigger!Created' = Trigger!Created /\ Created' = Created
           /\ mode' = [mode EXCEPT ![r] = "done"]
           /\ Robot!Range(finished)' = Robot!Range(finished) \cup {r}
           /\ \A a, c \in Robot!Range(finished) :
                 Robot!Position(a) < Robot!Position(c)
                    => Robot!Position(a)' < Robot!Position(c)'
<1>1. /\ mode \in [Runs -> Modes] /\ mode[r] = "owned"
      /\ stage \in [Runs -> Nat] /\ stage[r] = 0
      /\ finished \in Seq(Runs) /\ Robot!IsInjective(finished)
      /\ \A q \in Runs : mode[q] = "done" <=> q \in Robot!Range(finished)
  BY DEF RunsFit, Progress!Complete
<1>2. stage' = [stage EXCEPT ![r] = @ + 1] /\ stage'[r] = 1
  BY <1>1 DEF Progress!Complete
<1>3. mode' = [mode EXCEPT ![r] = "done"]
  BY <1>2 DEF Progress!Complete
<1>4. PICK i \in 1..(Len(finished) + 1) : finished' = Robot!InsertAt(finished, i, r)
  <2>1. Len(finished) \in Nat
    BY <1>1
  <2> QED BY <2>1 DEF Robot!RunFinishes
<1>5. /\ finished' \in Seq(Runs) /\ Len(finished') = Len(finished) + 1
      /\ \A k \in 1..(Len(finished) + 1) :
            finished'[k] = IF k < i THEN finished[k]
                           ELSE IF k = i THEN r ELSE finished[k - 1]
  <2>1. finished \in Seq(Runs)
    BY <1>1
  <2>2. Inserted(Robot!InsertAt(finished, i, r), finished, i, r)
    BY <2>1, Insertion
  <2>3. Inserted(finished', finished, i, r)
    BY <1>4, <2>2, Zenon
  <2> QED BY <2>3 DEF Inserted
<1> DEFINE n == Len(finished)
           At(k) == IF k < i THEN k ELSE k + 1      \* where the k-th goes
<1>6. n \in Nat /\ DOMAIN finished = 1..n /\ DOMAIN finished' = 1..(n + 1)
  BY <1>1, <1>5
<1>7. \A k \in 1..n : At(k) \in 1..(n + 1) /\ At(k) # i /\ finished'[At(k)] = finished[k]
  <2> SUFFICES ASSUME NEW k \in 1..n
               PROVE  At(k) \in 1..(n + 1) /\ At(k) # i /\ finished'[At(k)] = finished[k]
    OBVIOUS
  <2>1. CASE k < i
    BY <1>5, <1>6, <2>1
  <2>2. CASE ~ (k < i)
    <3>1. k + 1 \in 1..(n + 1) /\ ~ (k + 1 < i) /\ k + 1 # i /\ k + 1 - 1 = k
      BY <1>6, <2>2
    <3> QED BY <1>5, <2>2, <3>1
  <2> QED BY <2>1, <2>2
<1>8. finished'[i] = r
  BY <1>5, <1>6
<1>9. \A k \in 1..(n + 1) : k = i \/ \E j \in 1..n : k = At(j)
  <2> SUFFICES ASSUME NEW k \in 1..(n + 1), k # i PROVE \E j \in 1..n : k = At(j)
    OBVIOUS
  <2>1. CASE k < i
    <3>1. k \in 1..n /\ k = At(k)
      BY <1>6, <2>1
    <3> QED BY <3>1
  <2>2. CASE ~ (k < i)
    <3>1. k - 1 \in 1..n /\ k = At(k - 1)
      BY <1>6, <2>2
    <3> QED BY <3>1
  <2> QED BY <2>1, <2>2
<1>10. \A k, j \in 1..n : k < j <=> At(k) < At(j)
  BY <1>6
<1> HIDE DEF n, At
<1>11. r \notin Robot!Range(finished)
  BY <1>1
<1>12. \A k \in 1..n : finished[k] \in Robot!Range(finished)
  BY <1>6 DEF Robot!Range
<1>13. \A q \in Robot!Range(finished) : \E k \in 1..n : q = finished[k]
  BY <1>6 DEF Robot!Range
<1>14. Robot!IsInjective(finished)'
  <2> SUFFICES ASSUME NEW a \in 1..(n + 1), NEW c \in 1..(n + 1), finished'[a] = finished'[c]
               PROVE  a = c
    BY <1>6, Zenon DEF Robot!IsInjective
  <2>1. CASE a = i /\ c = i
    BY <2>1
  <2>2. CASE a = i /\ c # i
    BY <1>7, <1>8, <1>9, <1>11, <1>12, <2>2
  <2>3. CASE a # i /\ c = i
    BY <1>7, <1>8, <1>9, <1>11, <1>12, <2>3
  <2>4. CASE a # i /\ c # i
    <3>1. PICK j \in 1..n, k \in 1..n : a = At(j) /\ c = At(k)
      BY <1>9, <2>4
    <3>2. finished[j] = finished[k]
      BY <1>7, <3>1
    <3>3. j = k
      BY <1>1, <1>6, <3>2 DEF Robot!IsInjective
    <3> QED BY <3>1, <3>3
  <2> QED BY <2>1, <2>2, <2>3, <2>4
<1>15. Robot!Range(finished)' = Robot!Range(finished) \cup {r}
  <2>1. \A q \in Robot!Range(finished)' : q \in Robot!Range(finished) \cup {r}
    <3> SUFFICES ASSUME NEW k \in 1..(n + 1)
                 PROVE  finished'[k] \in Robot!Range(finished) \cup {r}
      BY <1>6, Zenon DEF Robot!Range
    <3> QED BY <1>7, <1>8, <1>9, <1>12
  <2>2. \A k \in 1..(n + 1) : finished'[k] \in Robot!Range(finished)'
    BY <1>6, Zenon DEF Robot!Range
  <2>3. i \in 1..(n + 1)
    BY <1>6 DEF n
  <2>4. \A q \in Robot!Range(finished) : q \in Robot!Range(finished)'
    BY <1>7, <1>13, <2>2
  <2> QED BY <1>8, <2>1, <2>2, <2>3, <2>4, Zenon
<1>16. ASSUME NEW a \in Robot!Range(finished)
       PROVE  /\ Robot!Position(a) \in 1..n
              /\ Robot!Position(a)' = At(Robot!Position(a))
  <2>1. /\ Robot!Position(a) \in 1..n /\ finished[Robot!Position(a)] = a
    BY <1>1, Place DEF n
  <2>2. At(Robot!Position(a)) \in 1..(n + 1) /\ finished'[At(Robot!Position(a))] = a
    BY <1>7, <2>1
  <2>3. \A k \in DOMAIN finished' : finished'[k] = a => k = At(Robot!Position(a))
    BY <1>6, <1>14, <2>2, Zenon DEF Robot!IsInjective
  <2>4. Robot!Position(a)' = CHOOSE k \in DOMAIN finished' : finished'[k] = a
    BY Zenon DEF Robot!Position
  <2> QED BY <1>6, <2>1, <2>2, <2>3, <2>4
<1>17. \A a, c \in Robot!Range(finished) :
          Robot!Position(a) < Robot!Position(c) => Robot!Position(a)' < Robot!Position(c)'
  <2> SUFFICES ASSUME NEW a \in Robot!Range(finished), NEW c \in Robot!Range(finished),
                      Robot!Position(a) < Robot!Position(c)
               PROVE  Robot!Position(a)' < Robot!Position(c)'
    OBVIOUS
  <2>1. At(Robot!Position(a)) < At(Robot!Position(c))
    BY <1>10, <1>16
  <2> QED BY <1>16, <2>1
<1>18. Trigger!Created' = Trigger!Created
  BY <1>1, <1>3, Names DEF Trigger!Created
<1>19. Created' = Created
  BY <1>18, Zenon DEF Created
<1>20. /\ mode' \in [Runs -> Modes] /\ stage' \in [Runs -> Nat]
       /\ \A q \in Runs : mode'[q] # "done" => stage'[q] = 0
  <2>1. \A q \in Runs : q # r => mode'[q] = mode[q] /\ stage'[q] = stage[q]
    BY <1>1, <1>2, <1>3
  <2> QED BY <1>1, <1>2, <1>3, <2>1 DEF RunsFit, Modes
<1>21. \A q \in Runs : mode'[q] = "done" <=> q \in Robot!Range(finished)'
  BY <1>1, <1>3, <1>15
<1>22. Created' \in 0..NRuns /\ Trigger!Created' = 1..Created'
  BY <1>18, <1>19 DEF RunsFit
<1> QED BY <1>3, <1>5, <1>14, <1>15, <1>17, <1>18, <1>19, <1>20, <1>21, <1>22 DEF RunsFit

-----------------------------------------------------------------------------
(* The robots. *)

\* What holds of the next state of each robot holds in the next state.
LEMMA SeenNext ==
    ASSUME NEW p, NEW me, me = robot'[p], Seen(me)'
    PROVE  Seen(robot[p])'
BY Zenon DEF Seen, Scanned, Paired

\* and what holds of its state holds of the same state under another name.
LEMMA SeenNow ==
    ASSUME NEW p, NEW me, me = robot[p], Seen(robot[p])
    PROVE  Seen(me)
BY Zenon

\* What a robot has seen stays so if the finished runs stay,
LEMMA SeenStays ==
    ASSUME NEW me, Seen(me), finished' = finished
    PROVE  Seen(me)'
<1>1. Robot!Range(finished)' = Robot!Range(finished)
  BY DEF Robot!Range
<1>2. \A r : Robot!Position(r)' = Robot!Position(r)
  BY DEF Robot!Position
<1> QED BY <1>1, <1>2 DEF Seen, Scanned, Paired

\* or if one more finishes.
LEMMA SeenGrows ==
    ASSUME NEW me, me \in Robots, Seen(me), NEW r,
           Robot!Range(finished)' = Robot!Range(finished) \cup {r},
           \A a, c \in Robot!Range(finished) :
              Robot!Position(a) < Robot!Position(c) => Robot!Position(a)' < Robot!Position(c)'
    PROVE  Seen(me)'
<1>1. Scanned(me) => Scanned(me)'
  BY DEF Scanned
<1>2. Paired(me) => Paired(me)'
  BY DEF Paired
<1> QED BY <1>1, <1>2 DEF Seen

\* So robots that do nothing fit still, if the finished runs stay
LEMMA RobotsStay ==
    ASSUME RobotsFit, robot' = robot, finished' = finished
    PROVE  RobotsFit'
<1> SUFFICES ASSUME NEW p \in Owners PROVE Seen(robot[p])'
  BY DEF RobotsFit
<1>1. PICK me : me = robot[p]
  OBVIOUS
<1>2. Seen(me)'
  BY <1>1, SeenStays, SeenNow DEF RobotsFit
<1> QED BY <1>1, <1>2, SeenNext

\* or if one more finishes.
LEMMA RobotsSeeMore ==
    ASSUME RobotsFit, robot' = robot, NEW r,
           Robot!Range(finished)' = Robot!Range(finished) \cup {r},
           \A a, c \in Robot!Range(finished) :
              Robot!Position(a) < Robot!Position(c) => Robot!Position(a)' < Robot!Position(c)'
    PROVE  RobotsFit'
<1> SUFFICES ASSUME NEW p \in Owners PROVE Seen(robot[p])'
  BY DEF RobotsFit
<1>1. PICK me : me = robot[p]
  OBVIOUS
<1>2. me \in Robots /\ Seen(me)
  BY <1>1, SeenNow DEF RobotsFit
<1>3. Seen(me)'
  BY <1>2, SeenGrows
<1> QED BY <1>1, <1>3, SeenNext

\* A robot goes on to a state that fits.
LEMMA RobotGoes ==
    ASSUME RobotsFit, finished' = finished, NEW p \in Owners, NEW me,
           me \in Robots, Seen(me), robot' = [robot EXCEPT ![p] = me]
    PROVE  RobotsFit'
<1>1. robot \in [Owners -> Robots]
  BY DEF RobotsFit
<1>2. robot' \in [Owners -> Robots]
  BY <1>1
<1>3. ASSUME NEW q \in Owners PROVE Seen(robot[q])'
  <2>1. PICK it : it = robot'[q]
    OBVIOUS
  <2>2. Seen(it)
    <3>1. CASE q = p
      BY <1>1, <2>1, <3>1
    <3>2. CASE q # p
      BY <1>1, <2>1, <3>2, SeenNow DEF RobotsFit
    <3> QED BY <3>1, <3>2
  <2>3. Seen(it)'
    BY <2>2, SeenStays
  <2> QED BY <2>1, <2>3, SeenNext
<1> QED BY <1>2, <1>3 DEF RobotsFit

\* A robot that takes the lock, or goes on with it, is the only one that has it.
LEMMA LockGoes ==
    ASSUME RobotsFit, LockKept, outbox' = outbox, NEW p \in Owners, NEW me \in Robots,
           robot' = [robot EXCEPT ![p] = me],
           me.pc \in {"comparing", "announced"}
              => \A q \in Owners \ {p} : ~ Robot!HoldsLock(q),
           me.pc = "comparing" => outbox[me.pair] = 0
    PROVE  LockKept'
<1>1. robot \in [Owners -> Robots] /\ robot'[p] = me /\ \A q \in Owners \ {p} : robot'[q] = robot[q]
  BY DEF RobotsFit
<1>2. outbox' \in [Robot!Pairs -> 0..1]
  BY DEF LockKept, Robot!Pairs
<1>3. \A a, c \in Owners : Robot!HoldsLock(a)' /\ Robot!HoldsLock(c)' => a = c
  BY <1>1 DEF LockKept, Robot!HoldsLock
<1>4. \A q \in Owners : robot'[q].pc = "comparing" => outbox'[robot'[q].pair] = 0
  BY <1>1 DEF LockKept
<1> QED BY <1>2, <1>3, <1>4, Zenon DEF LockKept, Robot!Pairs, Robot!Runs

\* The lock stays with the robot that has it while the robots do nothing.
LEMMA LockStays ==
    ASSUME LockKept, outbox' = outbox, robot' = robot
    PROVE  LockKept'
BY DEF LockKept, Robot!HoldsLock, Robot!Pairs, Robot!Runs

\* The state file stays what it is until a robot writes it.
LEMMA HistoryStays ==
    ASSUME HistoryFits, history' = history
    PROVE  HistoryFits'
BY DEF HistoryFits, Robot!Pairs, Robot!Runs

\* The state that a robot starts in, and comes back to.
LEMMA AsleepFits == Robot!Asleep \in Robots /\ Seen(Robot!Asleep) /\ Robot!Asleep.pc = "asleep"
<1>1. 0 \in 0..NRuns
  BY NRunsAssumption
<1>2. <<>> \in Seq(Robot!Pairs)
  OBVIOUS
<1> QED BY <1>1, <1>2 DEF Robot!Asleep, Robots, Robot!PC, Seen, Robot!NoPair

\* What the steps of a robot keep.
RobotsKept == RobotsFit' /\ LockKept' /\ HistoryFits'

\* It falls asleep: it was done, or was interrupted.
LEMMA FallAsleep ==
    ASSUME RobotsFit, LockKept, HistoryFits', finished' = finished, outbox' = outbox,
           NEW p \in Owners, Robot!Goto(p, Robot!Asleep)
    PROVE  RobotsKept
BY AsleepFits, RobotGoes, LockGoes DEF RobotsKept, Robot!Goto

\* A robot that begins has all results still before it: none has a number above that
\* of the run created last.
LEMMA StartScanKeeps ==
    ASSUME RunsFit, RobotsFit, LockKept, HistoryFits, NEW p \in Owners,
           Robot!StartScan(p, Created)
    PROVE  RobotsKept
<1> DEFINE me == [Robot!Asleep EXCEPT !.pc = "scanning", !.unread = Created,
                                      !.before = Robot!Range(finished) \ Fragile]
<1>1. Robot!Range(finished) \subseteq Runs /\ Created \in 0..NRuns
  BY ElementOfSeq DEF RunsFit, Robot!Range
<1>2. /\ me \in Robots /\ me.pc = "scanning" /\ me.pair = Robot!NoPair /\ me.unread = Created
      /\ me.before = Robot!Range(finished) \ Fragile /\ me.found = {}
  BY <1>1, AsleepFits DEF Robot!Asleep, Robots, Robot!PC
<1>3. \A r \in Robot!Range(finished) : r <= Created
  <2> SUFFICES ASSUME NEW r \in Robot!Range(finished) PROVE r <= Created
    OBVIOUS
  <2>1. r \in Trigger!Created
    BY <1>1, Names DEF RunsFit, Trigger!Created
  <2> QED BY <2>1, <1>1 DEF RunsFit
<1>4. robot' = [robot EXCEPT ![p] = me] /\ UNCHANGED <<finished, lost, outbox, history>>
  BY DEF Robot!StartScan, Robot!Goto
<1> HIDE DEF me
<1>5. Seen(me)
  BY <1>2, <1>3 DEF Seen, Scanned
<1> QED BY <1>2, <1>4, <1>5, RobotGoes, LockGoes, HistoryStays DEF RobotsKept

\* A result that was there when the robot began is found when its turn comes: nothing
\* that can be lost counts as having been there.
LEMMA ReadRunKeeps ==
    ASSUME RunsFit, LossesFit, RobotsFit, LockKept, HistoryFits, NEW p \in Owners,
           Robot!ReadRun(p)
    PROVE  RobotsKept
<1> DEFINE u == robot[p].unread
           me == [robot[p] EXCEPT !.unread = @ - 1,
                                  !.found = IF Robot!Completed(robot[p].unread)
                                            THEN @ \cup {robot[p].unread} ELSE @]
<1>1. /\ robot[p] \in Robots /\ robot[p].pc = "scanning" /\ Scanned(robot[p]) /\ u # 0
  BY DEF RobotsFit, Robot!ReadRun, Robot!At, Seen
<1>2. u \in 1..NRuns /\ u - 1 \in 0..NRuns
  BY <1>1, NRunsAssumption DEF Robots
<1>3. robot' = [robot EXCEPT ![p] = me] /\ UNCHANGED <<finished, lost, outbox, history>>
  BY DEF Robot!ReadRun, Robot!Goto
<1>4. /\ me.pc = "scanning" /\ me.pair = robot[p].pair /\ me.before = robot[p].before
      /\ me.unread = u - 1
      /\ me.found = IF Robot!Completed(u) THEN robot[p].found \cup {u} ELSE robot[p].found
  BY <1>1 DEF Robots
<1>5. me \in Robots
  <2>1. u \in Runs
    BY <1>2 DEF Runs
  <2> QED BY <1>1, <1>2, <2>1 DEF Robots
<1>6. \A r \in robot[p].before : r \in Robot!Range(finished) /\ r \in Runs /\ Robot!Completed(r)
  BY <1>1 DEF Scanned, Robot!Completed, LossesFit, Robots
<1> HIDE DEF me
<1>7. Scanned(me)
  <2>1. me.pair = Robot!NoPair /\ me.before \subseteq Robot!Range(finished) \ Fragile
    BY <1>1, <1>4 DEF Scanned
  <2>2. me.found \subseteq Robot!Range(finished)
    BY <1>1, <1>4 DEF Scanned, Robot!Completed
  <2>3. ASSUME NEW r \in me.before PROVE r <= me.unread \/ r \in me.found
    <3>1. r <= u \/ r \in robot[p].found
      BY <1>1, <1>4, <2>3 DEF Scanned
    <3>2. r \in Int /\ u \in Int
      BY <1>2, <1>4, <1>6, <2>3 DEF Runs
    <3>3. r <= u - 1 \/ r = u \/ r \in robot[p].found
      BY <3>1, <3>2
    <3>4. r = u => r \in me.found
      BY <1>4, <1>6, <2>3
    <3> QED BY <1>4, <3>3, <3>4
  <2> QED BY <2>1, <2>2, <2>3 DEF Scanned
<1>8. Seen(me)
  BY <1>4, <1>7 DEF Seen
<1> QED BY <1>3, <1>4, <1>5, <1>8, RobotGoes, LockGoes, HistoryStays DEF RobotsKept

\* Two results at least are two different ones.
LEMMA TwoResults ==
    ASSUME NEW found \in SUBSET Runs, ~ (Robot!Cardinality(found) < 2)
    PROVE  \E a, c \in found : a # c
<1>1. IsFiniteSet(found)
  <2>1. IsFiniteSet(1..NRuns)
    BY NRunsAssumption, FS_Interval
  <2> QED BY <2>1, FS_Subset DEF Runs
<1>2. ~ (Cardinality(found) < 2)
  BY Names
<1>3. Cardinality(found) # 0 /\ Cardinality(found) # 1
  BY <1>2
<1>4. found # {}
  BY <1>1, <1>3, FS_EmptySet
<1>5. \A x : found # {x}
  BY <1>1, <1>3, FS_Singleton
<1> QED BY <1>4, <1>5

\* When every run was read, the two newest of those found leave out only older ones.
LEMMA MakePairKeeps ==
    ASSUME RunsFit, RobotsFit, LockKept, HistoryFits, NEW p \in Owners,
           Robot!MakePair(p)
    PROVE  RobotsKept
<1>1. /\ robot[p] \in Robots /\ robot[p].pc = "scanning" /\ Scanned(robot[p])
      /\ robot[p].unread = 0
      /\ UNCHANGED <<finished, lost, outbox, history>>
  BY DEF RobotsFit, Robot!MakePair, Robot!At, Seen
<1>2. CASE Robot!Cardinality(robot[p].found) < 2
  <2>1. Robot!Goto(p, Robot!Asleep)
    BY <1>2 DEF Robot!MakePair
  <2> QED BY <1>1, <2>1, FallAsleep, HistoryStays
<1>3. CASE ~ (Robot!Cardinality(robot[p].found) < 2)
  <2> DEFINE found == robot[p].found
             pair == Robot!NewestPair(found)
             me == [robot[p] EXCEPT !.pc = "paired", !.pair = Robot!NewestPair(robot[p].found),
                                    !.found = {}]
  <2>1. robot' = [robot EXCEPT ![p] = me]
    BY <1>3, Zenon DEF Robot!MakePair, Robot!Goto
  <2>2. found \in SUBSET Runs /\ found \subseteq Robot!Range(finished)
    BY <1>1 DEF Robots, Scanned
  <2>3. PICK a \in found, c \in found : a # c
    BY <1>3, <2>2, TwoResults
  <2>4. /\ pair \in Robot!Pairs
        /\ pair[1] \in found /\ pair[2] \in found
        /\ \A r \in found \ {pair[1], pair[2]} :
              Robot!Position(r) < Robot!Position(pair[1])
    <3> HIDE DEF found
    <3> QED BY <2>2, <2>3, NewestOfFound DEF RunsFit
  <2>5. \A r \in robot[p].before : r \in found /\ r \in Robot!Range(finished)
    <3>1. \A r \in robot[p].before : r \in Runs
      BY <1>1 DEF Robots
    <3> QED BY <1>1, <3>1 DEF Scanned, Runs
  <2> HIDE DEF pair, found
  <2>6. me.pc = "paired" /\ me.pair = pair /\ me.before = robot[p].before
    BY <1>1 DEF Robots, pair, found
  <2>7. me \in Robots
    BY <1>1, <2>4 DEF Robots, Robot!PC, pair, found
  <2> HIDE DEF me
  <2>8. Paired(me)
    BY <2>2, <2>4, <2>5, <2>6 DEF Paired
  <2>9. Seen(me)
    BY <2>6, <2>8 DEF Seen
  <2> QED BY <1>1, <2>1, <2>6, <2>7, <2>9, RobotGoes, LockGoes, HistoryStays DEF RobotsKept
<1> QED BY <1>2, <1>3

\* The lock is taken only if no robot has it, and a pair is compared only if its file
\* is not in the outbox.
LEMMA LockKeeps ==
    ASSUME RobotsFit, LockKept, HistoryFits, NEW p \in Owners, Robot!Lock(p)
    PROVE  RobotsKept
<1>1. PICK sent \in {history, <<>>} :
        Robot!Goto(p, IF Robot!AlreadySent(robot[p].pair, sent) THEN Robot!Asleep
                      ELSE [robot[p] EXCEPT !.pc = "comparing", !.sent = sent, !.before = {}])
  BY Zenon DEF Robot!Lock
<1>2. /\ robot[p] \in Robots /\ robot[p].pc = "paired" /\ Paired(robot[p])
      /\ \A q \in Owners : ~ Robot!HoldsLock(q)
      /\ UNCHANGED <<finished, lost, outbox, history>>
  BY DEF RobotsFit, Robot!Lock, Robot!At, Robot!LockFree, Seen
<1>3. CASE Robot!AlreadySent(robot[p].pair, sent)
  BY <1>1, <1>2, <1>3, FallAsleep, HistoryStays
<1>4. CASE ~ Robot!AlreadySent(robot[p].pair, sent)
  <2> DEFINE me == [robot[p] EXCEPT !.pc = "comparing", !.sent = sent, !.before = {}]
  <2>1. robot' = [robot EXCEPT ![p] = me]
    BY <1>1, <1>4 DEF Robot!Goto
  <2>2. sent \in Seq(Robot!Pairs)
    <3>1. <<>> \in Seq(Robot!Pairs)
      OBVIOUS
    <3> QED BY <3>1, Zenon DEF HistoryFits
  <2>3. /\ me \in Robots /\ me.pc = "comparing" /\ me.pair = robot[p].pair
        /\ me.before = {}
    BY <1>2, <2>2 DEF Robots, Robot!PC
  <2>4. robot[p].pair \in Robot!Pairs
    BY <1>2 DEF Paired
  <2> HIDE DEF me
  <2>5. Seen(me)
    BY <2>3, <2>4 DEF Seen
  <2>6. outbox[me.pair] = 0
    <3>1. outbox[robot[p].pair] \in 0..1
      BY <2>4 DEF LockKept
    <3>2. ~ (outbox[robot[p].pair] > 0)
      BY <1>4 DEF Robot!AlreadySent
    <3> QED BY <2>3, <3>1, <3>2
  <2> QED BY <1>2, <2>1, <2>3, <2>5, <2>6, RobotGoes, LockGoes, HistoryStays DEF RobotsKept
<1> QED BY <1>3, <1>4

\* The file is written by the robot that has the lock, and no other compares a pair.
LEMMA WriteOutboxKeeps ==
    ASSUME RobotsFit, LockKept, HistoryFits, NEW p \in Owners, Robot!WriteOutbox(p)
    PROVE  RobotsKept
<1> DEFINE pair == robot[p].pair
           me == [robot[p] EXCEPT !.pc = "announced"]
<1>1. /\ robot \in [Owners -> Robots]
      /\ robot[p] \in Robots /\ robot[p].pc = "comparing"
      /\ pair \in Robot!Pairs /\ robot[p].before = {}
      /\ UNCHANGED <<finished, lost, history>>
  BY DEF RobotsFit, Robot!WriteOutbox, Robot!At, Seen
<1>2. CASE lost[pair[1]] = "nothing" /\ lost[pair[2]] = "nothing"
  <2>1. outbox' = [outbox EXCEPT ![pair] = @ + 1] /\ robot' = [robot EXCEPT ![p] = me]
    BY <1>2 DEF Robot!WriteOutbox, Robot!Goto
  <2>2. /\ me \in Robots /\ me.pc = "announced" /\ me.pair = pair /\ me.before = {}
    BY <1>1 DEF Robots, Robot!PC
  <2>3. outbox \in [Robot!Pairs -> 0..1] /\ outbox[pair] = 0
    BY <1>1 DEF LockKept
  <2> HIDE DEF me, pair
  <2>4. Seen(me)
    BY <1>1, <2>2 DEF Seen
  <2>5. RobotsFit'
    BY <1>1, <2>1, <2>2, <2>4, RobotGoes
  <2>6. outbox' \in [Robot!Pairs -> 0..1]
    BY <1>1, <2>1, <2>3
  <2>7. robot'[p] = me /\ \A q \in Owners \ {p} : robot'[q] = robot[q]
    BY <1>1, <2>1
  <2>8. \A q \in Owners \ {p} : ~ Robot!HoldsLock(q)
    BY <1>1 DEF LockKept, Robot!HoldsLock
  <2>9. \A q \in Owners : robot'[q].pc # "comparing"
    BY <2>2, <2>7, <2>8 DEF Robot!HoldsLock
  <2>10. \A a, c \in Owners : Robot!HoldsLock(a)' /\ Robot!HoldsLock(c)' => a = c
    BY <2>7, <2>8 DEF Robot!HoldsLock
  <2>11. LockKept'
    BY <2>6, <2>9, <2>10, Zenon DEF LockKept, Robot!Pairs, Robot!Runs
  <2> QED BY <1>1, <2>5, <2>11, HistoryStays DEF RobotsKept
<1>3. CASE ~ (lost[pair[1]] = "nothing" /\ lost[pair[2]] = "nothing")
  <2>1. outbox' = outbox /\ Robot!Goto(p, Robot!Asleep)
    BY <1>3 DEF Robot!WriteOutbox
  <2> QED BY <1>1, <2>1, FallAsleep, HistoryStays
<1> QED BY <1>2, <1>3

\* The state file keeps the last HistoryLimit pairs.
LEMMA RecentPairs ==
    ASSUME NEW sent \in Seq(Robot!Pairs)
    PROVE  Robot!Recent(sent) \in Seq(Robot!Pairs) /\ Len(Robot!Recent(sent)) <= HistoryLimit
<1> DEFINE m == IF Len(sent) > HistoryLimit THEN Len(sent) - HistoryLimit + 1 ELSE 1
<1>1. HistoryLimit \in Nat /\ HistoryLimit # 0 /\ Len(sent) \in Nat
  BY HistoryLimitAssumption
<1>2. m \in Int /\ m >= 1 /\ Len(sent) - m + 1 <= HistoryLimit
  BY <1>1
<1>3. Robot!Recent(sent) = SubSeq(sent, m, Len(sent))
  BY DEF Robot!Recent
<1> HIDE DEF m
<1>4. \A i \in m..Len(sent) : sent[i] \in Robot!Pairs
  BY <1>1, <1>2, ElementOfSeq
<1>5. /\ SubSeq(sent, m, Len(sent)) \in Seq(Robot!Pairs)
      /\ Len(SubSeq(sent, m, Len(sent))) = IF m <= Len(sent) THEN Len(sent) - m + 1 ELSE 0
  BY <1>1, <1>2, <1>4, SubSeqProperties
<1> QED BY <1>1, <1>2, <1>3, <1>5

\* The state file is cut to its limit before it is written.
LEMMA WriteStateKeeps ==
    ASSUME RobotsFit, LockKept, HistoryFits, NEW p \in Owners, Robot!WriteState(p)
    PROVE  RobotsKept
<1>1. robot[p] \in Robots /\ robot[p].pair \in Robot!Pairs
  BY DEF RobotsFit, Robot!WriteState, Robot!At, Seen
<1>2. PICK all : all = Append(robot[p].sent, robot[p].pair)
  OBVIOUS
<1>3. all \in Seq(Robot!Pairs)
  BY <1>1, <1>2, AppendProperties DEF Robots
<1>4. history' = Robot!Recent(all)
  BY <1>2 DEF Robot!WriteState
<1>5. HistoryFits'
  <2>1. history' \in Seq(Robot!Pairs) /\ Len(history') <= HistoryLimit
    BY <1>3, <1>4, RecentPairs
  <2> QED BY <2>1 DEF HistoryFits, Robot!Pairs, Robot!Runs
<1> QED BY <1>5, FallAsleep DEF Robot!WriteState

\* Every step of check_once.
LEMMA RobotStepKeeps ==
    ASSUME RunsFit, LossesFit, RobotsFit, LockKept, HistoryFits, NEW p \in Owners,
           Robot!RobotStep(p, Created)
    PROVE  RobotsKept /\ UNCHANGED <<finished, lost>>
<1>1. RobotsKept
  BY StartScanKeeps, ReadRunKeeps, MakePairKeeps, LockKeeps, WriteOutboxKeeps,
     WriteStateKeeps, Zenon DEF Robot!RobotStep
<1>2. UNCHANGED <<finished, lost>>
  BY DEF Robot!RobotStep, Robot!StartScan, Robot!ReadRun, Robot!MakePair, Robot!Lock,
         Robot!WriteOutbox, Robot!WriteState
<1> QED BY <1>1, <1>2

-----------------------------------------------------------------------------
(* The trigger. *)

\* The runs that count for the trigger, now and in the next state.
LEMMA InProgressIs ==
    /\ InProgress = {r \in scheduled : mode[r] \in {"waiting", "owned"}}
    /\ InProgress' = {r \in scheduled' : mode'[r] \in {"waiting", "owned"}}
BY Zenon DEF InProgress

\* The trigger has not begun, or not again: what runs do does not matter.
LEMMA TriggerWaits ==
    ASSUME TriggerFits, trigger' \in Triggers, trigger'.pc \in {"asleep", "ended"},
           scheduled' \subseteq Trigger!Created'
    PROVE  TriggerFits'
BY DEF TriggerFits, Triggers

\* Runs stop being active while it looks, and none begins.
LEMMA TriggerLooks ==
    ASSUME TriggerFits, UNCHANGED <<trigger, scheduled>>, Trigger!Created' = Trigger!Created,
           InProgress' \subseteq InProgress
    PROVE  TriggerFits'
BY DEF TriggerFits, Triggers

\* A check that begins, a document that is read and a run that is looked at.
LEMMA TriggerReadsKeeps ==
    ASSUME RunsFit, TriggerFits, UNCHANGED <<mode, scheduled>>,
           \/ Trigger!StartCheck(Created)
           \/ Trigger!ReadPipeline(Created) \/ Trigger!LookAtSteps
    PROVE  TriggerFits'
<1>1. /\ InProgress' = InProgress /\ Trigger!Created' = Trigger!Created
      /\ scheduled' \subseteq Trigger!Created'
  BY DEF InProgress, Trigger!Created, TriggerFits
<1>2. /\ trigger \in Triggers /\ Created \in 0..NRuns /\ InProgress \subseteq 1..Created
      /\ Trigger!Asleep \in Triggers /\ InProgress \subseteq Runs
      /\ 1..Created \subseteq Runs
  <2>1. Trigger!Asleep \in Triggers
    BY NRunsAssumption DEF Trigger!Asleep, Triggers, Trigger!PC
  <2>2. InProgress \subseteq scheduled /\ 1..Created \subseteq Runs
    BY NRunsAssumption DEF InProgress, RunsFit, Runs
  <2> QED BY <2>1, <2>2 DEF TriggerFits, RunsFit
<1>3. CASE Trigger!StartCheck(Created)
  <2>1. /\ trigger' \in Triggers /\ trigger'.pc = "listing" /\ trigger'.unread = Created
    BY <1>2, <1>3 DEF Trigger!StartCheck, Trigger!Asleep, Triggers, Trigger!PC
  <2>2. \A r \in InProgress : r <= Created
    BY <1>2
  <2> QED BY <1>1, <2>1, <2>2 DEF TriggerFits, Triggers
<1>4. CASE Trigger!ReadPipeline(Created)
  <2> DEFINE u == trigger.unread
  <2>1. /\ trigger.pc = "listing" /\ u \in 0..NRuns /\ trigger.active \in SUBSET Runs
        /\ \A r \in InProgress : r <= u \/ r \in trigger.active
    BY <1>2, <1>4 DEF Trigger!ReadPipeline, Triggers, TriggerFits
  <2>2. CASE u = 0
    <3>1. trigger' = [trigger EXCEPT !.pc = "looking", !.unread = Created]
      BY <1>4, <2>2 DEF Trigger!ReadPipeline
    <3>2. /\ trigger' \in Triggers /\ trigger'.pc = "looking" /\ trigger'.unread = Created
          /\ trigger'.active = trigger.active
      BY <1>2, <3>1 DEF Triggers, Trigger!PC
    <3>3. \A r \in InProgress : r <= Created /\ r \in trigger.active
      BY <1>2, <2>1, <2>2
    <3> QED BY <1>1, <3>2, <3>3 DEF TriggerFits, Triggers
  <2>3. CASE u # 0
    <3> DEFINE more == IF Trigger!Active(u) THEN trigger.active \cup {u} ELSE trigger.active
    <3>1. trigger' = [trigger EXCEPT !.unread = u - 1, !.active = more]
      BY <1>4, <2>3 DEF Trigger!ReadPipeline
    <3>2. u \in Runs /\ u - 1 \in 0..NRuns /\ more \in SUBSET Runs
      BY <2>1, <2>3, NRunsAssumption DEF Runs
    <3>3. /\ trigger' \in Triggers /\ trigger'.pc = "listing" /\ trigger'.unread = u - 1
          /\ trigger'.active = more
      BY <1>2, <2>1, <3>1, <3>2 DEF Triggers, Trigger!PC
    <3>4. ASSUME NEW r \in InProgress PROVE r <= u - 1 \/ r \in more
      <4>1. r = u => Trigger!Active(u)
        BY DEF InProgress, Trigger!Active
      <4>2. r \in Int /\ u \in Int
        BY <1>2, <2>1 DEF Runs
      <4>3. r <= u - 1 \/ r = u \/ r \in trigger.active
        BY <2>1, <4>2
      <4> QED BY <4>1, <4>3
    <3> HIDE DEF more
    <3> QED BY <1>1, <3>3, <3>4 DEF TriggerFits, Triggers
  <2> QED BY <2>2, <2>3
<1>5. CASE Trigger!LookAtSteps
  <2> DEFINE u == trigger.unread
  <2>1. /\ trigger.pc = "looking" /\ u \in 0..NRuns /\ u # 0
        /\ \A r \in InProgress : r <= u /\ r \in trigger.active
    BY <1>2, <1>5 DEF Trigger!LookAtSteps, Triggers, TriggerFits
  <2>2. CASE trigger' = Trigger!Asleep
    BY <1>1, <1>2, <2>2, TriggerWaits DEF Trigger!Asleep
  <2>3. CASE trigger' = [trigger EXCEPT !.unread = u - 1] /\ u \notin scheduled \cap trigger.active
    <3>1. u - 1 \in 0..NRuns
      BY <2>1, NRunsAssumption
    <3>2. /\ trigger' \in Triggers /\ trigger'.pc = "looking" /\ trigger'.unread = u - 1
          /\ trigger'.active = trigger.active
      BY <1>2, <2>1, <2>3, <3>1 DEF Triggers, Trigger!PC
    <3>3. ASSUME NEW r \in InProgress PROVE r <= u - 1 /\ r \in trigger.active
      <4>1. r # u
        BY <2>1, <2>3 DEF InProgress
      <4>2. r \in Int /\ u \in Int /\ r <= u
        BY <1>2, <2>1 DEF Runs
      <4> QED BY <2>1, <4>1, <4>2
    <3> QED BY <1>1, <3>2, <3>3 DEF TriggerFits, Triggers
  <2> QED BY <1>5, <2>2, <2>3 DEF Trigger!LookAtSteps
<1> QED BY <1>3, <1>4, <1>5

\* No scheduled run is active when the trigger creates one.
LEMMA NoneInProgress ==
    ASSUME RunsFit, TriggerFits, trigger.pc = "looking", trigger.unread = 0
    PROVE  InProgress = {}
<1>1. \A r \in InProgress : r \in 1..Created /\ r <= 0
  BY DEF InProgress, TriggerFits, RunsFit
<1>2. Created \in 0..NRuns
  BY DEF RunsFit
<1> QED BY <1>1, <1>2

-----------------------------------------------------------------------------
(* Every action keeps the invariant. *)

\* What the steps of workers do: no run is created and none finishes, and none
\* becomes active that was not.
LEMMA ClaimOrLoss ==
    ASSUME RunsFit, TriggerFits, NEW r \in Runs, UNCHANGED <<finished, scheduled>>,
           \/ \E w \in Workers : Progress!Claim(r, w)
           \/ Progress!Lose({r})
    PROVE  /\ RunsFit' /\ Trigger!Created' = Trigger!Created
           /\ InProgress' \subseteq InProgress
<1>1. mode \in [Runs -> Modes]
  BY DEF RunsFit
<1>2. /\ stage' = stage /\ mode' \in [Runs -> Modes]
      /\ mode[r] \in {"waiting", "owned"} /\ mode'[r] \in {"waiting", "owned", "stopped"}
      /\ \A q \in Runs \ {r} : mode'[q] = mode[q]
  <2>1. CASE \E w \in Workers : Progress!Claim(r, w)
    <3>1. /\ stage' = stage /\ mode[r] = "waiting"
          /\ mode' = [mode EXCEPT ![r] = "owned"]
      BY <2>1 DEF Progress!Claim
    <3> QED BY <1>1, <3>1 DEF Modes
  <2>2. CASE Progress!Lose({r})
    <3>1. mode[r] = "owned" /\ stage' = stage
      BY <2>2 DEF Progress!Lose
    <3>2. PICK stopped \in SUBSET {r} :
            mode' = [q \in Runs |-> IF q \in stopped THEN "stopped"
                                    ELSE IF q \in {r} THEN "waiting" ELSE mode[q]]
      BY <2>2, Names, Zenon DEF Progress!Lose
    <3> QED BY <1>1, <3>1, <3>2 DEF Modes
  <2> QED BY <2>1, <2>2
<1>3. \A q \in Runs : /\ mode[q] = "absent" <=> mode'[q] = "absent"
                      /\ mode[q] = "done" <=> mode'[q] = "done"
  BY <1>2
<1>4. RunsFit' /\ Trigger!Created' = Trigger!Created
  BY <1>2, <1>3, RunsMove
<1>5. ASSUME NEW q \in scheduled, mode'[q] \in {"waiting", "owned"}
      PROVE  mode[q] \in {"waiting", "owned"}
  <2>1. q \in Runs
    BY Names DEF TriggerFits, Trigger!Created
  <2> QED BY <1>2, <1>5, <2>1
<1>6. InProgress' \subseteq InProgress
  BY <1>5 DEF InProgress
<1> QED BY <1>4, <1>6

\* What a request of the user or the trigger itself does to the runs.
LEMMA RetryRuns ==
    ASSUME RunsFit, NEW r \in Runs, Progress!Retry(r), finished' = finished
    PROVE  RunsFit' /\ Trigger!Created' = Trigger!Created
<1>1. /\ mode \in [Runs -> Modes] /\ stage' = stage
      /\ mode[r] = "stopped" /\ mode' = [mode EXCEPT ![r] = "waiting"]
  BY DEF RunsFit, Progress!Retry
<1>2. mode' \in [Runs -> Modes]
  BY <1>1 DEF Modes
<1>3. \A q \in Runs : /\ mode[q] = "absent" <=> mode'[q] = "absent"
                      /\ mode[q] = "done" <=> mode'[q] = "done"
  BY <1>1
<1> QED BY <1>1, <1>2, <1>3, RunsMove

\* Only the loss of an artifact changes what is lost.
LEMMA LossesStay ==
    ASSUME LossesFit, lost' = lost
    PROVE  LossesFit'
BY DEF LossesFit

\* The robots do not notice what happens beside them.
LEMMA RobotsApart ==
    ASSUME RobotsFit, LockKept, HistoryFits, LossesFit, UNCHANGED robotVars
    PROVE  RobotsKept /\ LossesFit'
BY RobotsStay, LockStays, HistoryStays, LossesStay DEF RobotsKept, robotVars

\* The runs stay as they are.
LEMMA RunsApart ==
    ASSUME RunsFit, UNCHANGED runVars, finished' = finished
    PROVE  /\ RunsFit' /\ Trigger!Created' = Trigger!Created /\ Created' = Created
BY RunsMove DEF RunsFit, runVars

\* The trigger does not notice what happens beside it.
LEMMA TriggerApart ==
    ASSUME TriggerFits, UNCHANGED <<mode, scheduled, trigger>>
    PROVE  TriggerFits'
<1>1. InProgress' = InProgress /\ Trigger!Created' = Trigger!Created
  BY DEF InProgress, Trigger!Created
<1> QED BY <1>1, TriggerLooks

Settings == enabled \in Fleets /\ faults \in 0..MaxFaults

\* A fault is counted, and the settings stay.
LEMMA FaultCounts ==
    ASSUME Settings, enabled' = enabled, Fault
    PROVE  Settings'
BY MaxFaultsAssumption DEF Settings, Fault

\* Requests come only while the trigger and the robot of the process await, so that
\* none makes a run active behind the back of the trigger.
LEMMA UserActions ==
    ASSUME BInv, UserCreates \/ \E r \in Runs : UserRetries(r)
    PROVE  BInv'
<1>1. /\ TriggerAwaits /\ UNCHANGED <<robotVars, scheduled, trigger, enabled, faults>>
  BY DEF UserCreates, UserRetries
<1>2. RobotsKept /\ LossesFit'
  BY <1>1, RobotsApart DEF BInv
<1>3. finished' = finished
  BY <1>1 DEF robotVars
<1>4. RunsFit' /\ Trigger!Created \subseteq Trigger!Created'
  <2>1. CASE UserCreates
    <3>1. RunsFit' /\ Trigger!Created' = 1..(Created + 1)
      BY <1>3, <2>1, RunsGrow DEF BInv, UserCreates
    <3>2. Trigger!Created = 1..Created /\ Created \in 0..NRuns
      BY DEF BInv, RunsFit
    <3> QED BY <3>1, <3>2
  <2>2. CASE \E r \in Runs : UserRetries(r)
    BY <1>3, <2>2, RetryRuns DEF BInv, UserRetries
  <2> QED BY <2>1, <2>2
<1>5. TriggerFits'
  <2>1. trigger' \in Triggers /\ trigger'.pc \in {"asleep", "ended"}
    BY <1>1 DEF BInv, TriggerFits, TriggerAwaits
  <2>2. scheduled' \subseteq Trigger!Created'
    BY <1>1, <1>4 DEF BInv, TriggerFits
  <2> QED BY <2>1, <2>2, TriggerWaits DEF BInv
<1> QED BY <1>1, <1>2, <1>4, <1>5 DEF BInv, RobotsKept

\* The trigger reads, and creates a run with the next number.
LEMMA TriggerActions ==
    ASSUME BInv, TriggerStep
    PROVE  BInv'
<1>1. CASE TriggerReads
  <2>1. /\ UNCHANGED <<runVars, robotVars, scheduled, enabled, faults>>
        /\ \/ Trigger!StartCheck(Created)
           \/ Trigger!ReadPipeline(Created) \/ Trigger!LookAtSteps
    BY <1>1 DEF TriggerReads
  <2>2. RobotsKept /\ LossesFit'
    BY <2>1, RobotsApart DEF BInv
  <2>3. RunsFit'
    BY <2>1, RunsApart DEF BInv, robotVars
  <2>4. TriggerFits'
    BY <2>1, TriggerReadsKeeps DEF BInv, runVars
  <2> QED BY <2>1, <2>2, <2>3, <2>4 DEF BInv, RobotsKept
<1>2. CASE TriggerCreates
  <2>1. /\ UNCHANGED <<robotVars, enabled, faults>>
        /\ Created < NRuns /\ Progress!Create(Created + 1)
        /\ scheduled' = scheduled \cup {Created + 1} /\ trigger' = Trigger!Asleep
    BY <1>2 DEF TriggerCreates, Trigger!CreateScheduled
  <2>2. RobotsKept /\ LossesFit'
    BY <2>1, RobotsApart DEF BInv
  <2>3. RunsFit' /\ Trigger!Created' = 1..(Created + 1)
    BY <2>1, RunsGrow DEF BInv, robotVars
  <2>4. TriggerFits'
    <3>1. Trigger!Asleep \in Triggers /\ Trigger!Asleep.pc = "asleep"
      BY NRunsAssumption DEF Trigger!Asleep, Triggers, Trigger!PC
    <3>2. Trigger!Created = 1..Created /\ Created \in 0..NRuns /\ scheduled \subseteq Trigger!Created
      BY DEF BInv, RunsFit, TriggerFits
    <3>3. Created + 1 \in 1..(Created + 1) /\ 1..Created \subseteq 1..(Created + 1)
      BY <3>2
    <3>4. scheduled' \subseteq Trigger!Created'
      BY <2>1, <2>3, <3>2, <3>3
    <3> QED BY <2>1, <3>1, <3>4, TriggerWaits DEF BInv
  <2> QED BY <2>1, <2>2, <2>3, <2>4 DEF BInv, RobotsKept
<1> QED BY <1>1, <1>2 DEF TriggerStep

\* A step of a robot.
LEMMA RobotActions ==
    ASSUME BInv, NEW p \in Owners, RobotStep(p)
    PROVE  BInv'
<1>1. UNCHANGED <<runVars, scheduled, trigger, enabled, faults>> /\ Robot!RobotStep(p, Created)
  BY DEF RobotStep
<1>2. RobotsKept /\ UNCHANGED <<finished, lost>>
  BY <1>1, RobotStepKeeps DEF BInv
<1>3. RunsFit'
  BY <1>1, <1>2, RunsApart DEF BInv
<1>4. TriggerFits'
  BY <1>1, TriggerApart DEF BInv, runVars
<1>5. LossesFit'
  BY <1>2, LossesStay DEF BInv
<1> QED BY <1>1, <1>2, <1>3, <1>4, <1>5 DEF BInv, RobotsKept

\* Workers claim steps, lose them and finish them at any time.
LEMMA WorkerActions ==
    ASSUME BInv, NEW r \in Runs, Finish(r) \/ LoseStep(r) \/ \E w \in Workers : Claim(r, w)
    PROVE  BInv'
<1>1. CASE Finish(r)
  <2>1. /\ UNCHANGED <<lost, robot, outbox, history, scheduled, trigger, enabled, faults>>
        /\ Progress!Complete(r) /\ Robot!RunFinishes(r)
    BY <1>1 DEF Finish, Robot!RunFinishes
  <2>2. /\ RunsFit' /\ Trigger!Created' = Trigger!Created
        /\ mode' = [mode EXCEPT ![r] = "done"]
        /\ Robot!Range(finished)' = Robot!Range(finished) \cup {r}
        /\ \A a, c \in Robot!Range(finished) :
              Robot!Position(a) < Robot!Position(c) => Robot!Position(a)' < Robot!Position(c)'
    BY <2>1, RunsEnd DEF BInv
  <2>3. RobotsFit'
    BY <2>1, <2>2, RobotsSeeMore DEF BInv
  <2>4. LockKept' /\ HistoryFits' /\ LossesFit'
    BY <2>1, LockStays, HistoryStays, LossesStay DEF BInv
  <2>5. InProgress' \subseteq InProgress
    <3>1. scheduled \subseteq Runs /\ mode \in [Runs -> Modes]
      BY Names DEF BInv, RunsFit, TriggerFits, Trigger!Created
    <3> QED BY <2>1, <2>2, <3>1 DEF InProgress
  <2>6. TriggerFits'
    BY <2>1, <2>2, <2>5, TriggerLooks DEF BInv
  <2> QED BY <2>1, <2>2, <2>3, <2>4, <2>6 DEF BInv
<1>2. CASE LoseStep(r) \/ \E w \in Workers : Claim(r, w)
  <2>1. /\ UNCHANGED <<robotVars, scheduled, trigger, enabled, faults>>
        /\ \/ \E w \in Workers : Progress!Claim(r, w)
           \/ Progress!Lose({r})
    BY <1>2 DEF LoseStep, Claim
  <2>2. RobotsKept /\ LossesFit'
    BY <2>1, RobotsApart DEF BInv
  <2>3. /\ RunsFit' /\ Trigger!Created' = Trigger!Created
        /\ InProgress' \subseteq InProgress
    BY <2>1, ClaimOrLoss DEF BInv, robotVars
  <2>4. TriggerFits'
    BY <2>1, <2>3, TriggerLooks DEF BInv
  <2> QED BY <2>1, <2>2, <2>3, <2>4 DEF BInv, RobotsKept
<1> QED BY <1>1, <1>2

\* Exceptions, restarts and losses come at any time.
LEMMA FaultActions ==
    ASSUME BInv,
           \/ TriggerRaises \/ ApiRestarts
           \/ \E p \in Owners : RobotInterrupted(p)
           \/ \E r \in Fragile : ArtifactsChange(r)
    PROVE  BInv'
<1>1. /\ UNCHANGED <<runVars, finished, outbox, history, scheduled, enabled>> /\ Fault
  BY DEF TriggerRaises, ApiRestarts, RobotInterrupted, ArtifactsChange, robotVars,
         Robot!Interrupt, Robot!ArtifactsChange
<1>2. /\ RunsFit' /\ Trigger!Created' = Trigger!Created
  BY <1>1, RunsApart DEF BInv
<1>3. Settings'
  BY <1>1, FaultCounts DEF BInv, Settings
<1>4. HistoryFits' /\ scheduled' \subseteq Trigger!Created'
  BY <1>1, <1>2, HistoryStays DEF BInv, TriggerFits
<1>5. ASSUME trigger' = Trigger!Asleep \/ trigger' = [Trigger!Asleep EXCEPT !.pc = "ended"]
      PROVE  TriggerFits'
  <2>1. trigger' \in Triggers /\ trigger'.pc \in {"asleep", "ended"}
    BY <1>5, NRunsAssumption DEF Trigger!Asleep, Triggers, Trigger!PC
  <2> QED BY <1>4, <2>1, TriggerWaits DEF BInv
<1>6. CASE TriggerRaises
  <2>1. /\ UNCHANGED robotVars /\ trigger' = [Trigger!Asleep EXCEPT !.pc = "ended"]
    BY <1>6 DEF TriggerRaises, Trigger!Raise
  <2>2. RobotsKept /\ LossesFit'
    BY <2>1, RobotsApart DEF BInv
  <2> QED BY <1>2, <1>3, <1>5, <2>1, <2>2 DEF BInv, RobotsKept, Settings
<1>7. CASE ApiRestarts
  <2>1. /\ trigger' = Trigger!Asleep /\ lost' = lost /\ Robot!Goto(api, Robot!Asleep)
    BY <1>7 DEF ApiRestarts, Robot!Goto
  <2>2. RobotsKept
    BY <1>1, <1>4, <2>1, FallAsleep, ApiAssumption DEF BInv
  <2> QED BY <1>2, <1>3, <1>5, <2>1, <2>2, LossesStay DEF BInv, RobotsKept, Settings
<1>8. CASE \E p \in Owners : RobotInterrupted(p)
  <2>1. PICK p \in Owners : RobotInterrupted(p)
    BY <1>8
  <2>2. /\ Robot!Goto(p, Robot!Asleep) /\ UNCHANGED <<trigger, lost>>
    BY <2>1 DEF RobotInterrupted, Robot!Interrupt
  <2>3. RobotsKept
    BY <1>1, <1>4, <2>2, FallAsleep DEF BInv
  <2>4. TriggerFits'
    BY <1>1, <2>2, TriggerApart DEF BInv, runVars
  <2> QED BY <1>2, <1>3, <2>2, <2>3, <2>4, LossesStay DEF BInv, RobotsKept, Settings
<1>9. CASE \E r \in Fragile : ArtifactsChange(r)
  <2>1. PICK r \in Fragile, what \in Losses :
          lost' = [lost EXCEPT ![r] = what]
    BY <1>9 DEF ArtifactsChange, Robot!ArtifactsChange, Losses
  <2>2. UNCHANGED <<robot, trigger>>
    BY <1>9 DEF ArtifactsChange, Robot!ArtifactsChange
  <2>3. LossesFit'
    BY <2>1 DEF BInv, LossesFit
  <2>4. RobotsFit' /\ LockKept'
    BY <1>1, <2>2, RobotsStay, LockStays DEF BInv
  <2>5. TriggerFits'
    BY <1>1, <2>2, TriggerApart DEF BInv, runVars
  <2> QED BY <1>2, <1>3, <1>4, <2>3, <2>4, <2>5 DEF BInv, Settings
<1> QED BY <1>6, <1>7, <1>8, <1>9

\* The invariant holds at the start,
LEMMA InitFits == Init => BInv
<1> SUFFICES ASSUME Init PROVE BInv
  OBVIOUS
<1>1. /\ mode = [r \in Runs |-> "absent"] /\ stage = [r \in Runs |-> 0]
      /\ finished = <<>> /\ lost = [r \in Runs |-> "nothing"]
      /\ robot = [p \in Owners |-> Robot!Asleep]
      /\ outbox = [pair \in Robot!Pairs |-> 0] /\ history = <<>>
      /\ scheduled = {} /\ trigger = Trigger!Asleep /\ enabled \in Fleets /\ faults = 0
  BY Names, Zenon DEF Init, Progress!Init, Robot!Init
<1>2. RunsFit
  <2>1. finished \in Seq(Runs) /\ Robot!IsInjective(finished) /\ Robot!Range(finished) = {}
    BY <1>1 DEF Robot!IsInjective, Robot!Range
  <2>2. Trigger!Created = 1..0 /\ 0 \in 0..NRuns
    BY <1>1, Names, NRunsAssumption DEF Trigger!Created
  <2>3. Created = 0
    BY <2>2, Counting
  <2> QED BY <1>1, <2>1, <2>2, <2>3 DEF RunsFit, Modes
<1>3. LossesFit
  BY <1>1 DEF LossesFit, Losses
<1>4. HistoryFits
  BY <1>1, HistoryLimitAssumption DEF HistoryFits
<1>5. RobotsFit
  BY <1>1, AsleepFits DEF RobotsFit
<1>6. LockKept
  BY <1>1, AsleepFits DEF LockKept, Robot!HoldsLock
<1>7. TriggerFits
  BY <1>1, NRunsAssumption DEF TriggerFits, Triggers, Trigger!Asleep, Trigger!PC
<1>8. enabled \in Fleets /\ faults \in 0..MaxFaults
  BY <1>1, MaxFaultsAssumption
<1> QED BY <1>2, <1>3, <1>4, <1>5, <1>6, <1>7, <1>8 DEF BInv

\* and every step keeps it.
LEMMA StepFits == BInv /\ [Next]_vars => BInv'
<1> SUFFICES ASSUME BInv, [Next]_vars PROVE BInv'
  OBVIOUS
<1>1. CASE UserCreates \/ \E r \in Runs : UserRetries(r)
  BY <1>1, UserActions
<1>2. CASE TriggerStep
  BY <1>2, TriggerActions
<1>3. CASE \E p \in Owners : RobotStep(p)
  BY <1>3, RobotActions
<1>4. CASE \E r \in Runs : Finish(r) \/ LoseStep(r) \/ \E w \in Workers : Claim(r, w)
  BY <1>4, WorkerActions
<1>5. CASE \/ TriggerRaises \/ ApiRestarts
           \/ \E p \in Owners : RobotInterrupted(p)
           \/ \E r \in Fragile : ArtifactsChange(r)
  BY <1>5, FaultActions
<1>6. CASE UNCHANGED vars
  <2>1. UNCHANGED <<runVars, robotVars, scheduled, trigger, enabled, faults>>
    BY <1>6 DEF vars
  <2>2. RobotsKept /\ LossesFit'
    BY <2>1, RobotsApart DEF BInv
  <2>3. RunsFit' /\ TriggerFits'
    BY <2>1, RunsApart, TriggerApart DEF BInv, robotVars, runVars
  <2> QED BY <2>1, <2>2, <2>3 DEF BInv, RobotsKept
<1> QED BY <1>1, <1>2, <1>3, <1>4, <1>5, <1>6 DEF Next

-----------------------------------------------------------------------------
(* The theorems. *)

\* The invariant holds in every reachable state.
THEOREM Invariance == Spec => []BInv
BY InitFits, StepFits, PTL DEF Spec

\* Every variable keeps its type, and a run is done when it is among the finished
\* ones.
THEOREM TypeCorrect == Spec => []TypeOK
<1>1. BInv => TypeOK
  <2> SUFFICES ASSUME BInv PROVE TypeOK
    OBVIOUS
  <2>1. Robot!TypeOK
    <3>1. lost \in [Runs -> {"nothing", "inputs", "summary"}]
      BY DEF BInv, LossesFit, Losses
    <3>2. outbox \in [Robot!Pairs -> Nat]
      BY DEF BInv, LockKept
    <3>3. robot \in [Owners -> Robots]
      BY DEF BInv, RobotsFit
    <3> QED BY <3>1, <3>2, <3>3, Names DEF BInv, RunsFit, HistoryFits, Robots, Robot!TypeOK
  <2>2. /\ \A r \in Runs : mode[r] = "done" <=> r \in Robot!Range(finished)
        /\ scheduled \subseteq Trigger!Created
        /\ trigger \in Triggers
        /\ enabled \in Fleets /\ faults \in 0..MaxFaults
    BY DEF BInv, RunsFit, TriggerFits
  <2> QED BY <2>1, <2>2 DEF TypeOK, Triggers
<1> QED BY <1>1, Invariance, PTL

\* A pair of results is written to the outbox at most once.
THEOREM SentOnceCorrect == Spec => []SentOnce
<1>1. BInv => SentOnce
  BY DEF BInv, LockKept, SentOnce
<1> QED BY <1>1, Invariance, PTL

\* The pair that a robot is about to announce leaves out only newer results.
THEOREM LeavesOutOnlyNewerCorrect == Spec => []LeavesOutOnlyNewer
<1>1. BInv => LeavesOutOnlyNewer
  <2> SUFFICES ASSUME BInv, NEW p \in Owners, NEW r \in Runs,
                      robot[p].pair # Robot!NoPair,
                      r \in robot[p].before \ {robot[p].pair[1], robot[p].pair[2]}
               PROVE  Robot!Position(r) < Robot!Position(robot[p].pair[1])
    BY DEF LeavesOutOnlyNewer
  <2>1. robot[p].pc \in Robot!PC /\ Seen(robot[p])
    BY DEF BInv, RobotsFit, Robots
  <2>2. Paired(robot[p])
    BY <2>1 DEF Seen, Scanned, Robot!PC
  <2> QED BY <2>2 DEF Paired
<1> QED BY <1>1, Invariance, PTL

\* No scheduled run is active when the trigger creates one, however the workers, the
\* user and the restarts come between the runs that it looks at.
THEOREM OneScheduledCorrect == Spec => OneScheduled
<1>1. BInv /\ [Next]_vars => [TriggerCreates => InProgress = {}]_vars
  <2> SUFFICES ASSUME BInv, TriggerCreates PROVE InProgress = {}
    OBVIOUS
  <2>1. trigger.pc = "looking" /\ trigger.unread = 0
    BY DEF TriggerCreates, Trigger!CreateScheduled
  <2> QED BY <2>1, NoneInProgress DEF BInv
<1> QED BY <1>1, Invariance, PTL DEF Spec, OneScheduled
=============================================================================
