------------------------------ MODULE RecordDiff ------------------------------
(***************************************************************************)
(* How CompareService compares two lists of records: records with an id    *)
(* are matched by the text of the id, records without one by their content *)
(* and the number of equal records before them.                            *)
(***************************************************************************)
EXTENDS Sequences, FiniteSetsExt, Bags

CONSTANTS
    NoId,           \* the id of a record that has none
    TextOf          \* how an id is printed; 1 and "1" print alike

Ids == DOMAIN TextOf

ASSUME NoIdAssumption == NoId \notin Ids

\* Positions of records with an id, and how many records up to i equal record i.
Named(s) == {i \in DOMAIN s : s[i].id # NoId}
Nth(s, i) == Cardinality({j \in 1..i : s[j] = s[i]})

HasDuplicates(s) == \E i, j \in Named(s) : i # j /\ s[i].id = s[j].id

\* Mutant: equal records without an id are not counted.
KeyWithoutCount(s, i) ==
    IF i \in Named(s) THEN <<"id", TextOf[s[i].id]>> ELSE <<"hash", s[i]>>

Key(s, i) ==
    IF i \in Named(s) THEN <<"id", TextOf[s[i].id]>> ELSE <<"hash", s[i], Nth(s, i)>>

\* The last record with a key is the one that stays in the map.
RecordMap(s) ==
    [k \in {Key(s, i) : i \in DOMAIN s} |-> s[Max({i \in DOMAIN s : Key(s, i) = k})]]

Difference(l, r) ==
    LET left == RecordMap(l)
        right == RecordMap(r)
        both == DOMAIN left \cap DOMAIN right IN
    [added   |-> Cardinality(DOMAIN right \ both),
     removed |-> Cardinality(DOMAIN left \ both),
     changed |-> Cardinality({k \in both : left[k] # right[k]})]

-----------------------------------------------------------------------------
(* The same counts without keys: identified records are a function of their *)
(* id, the others a bag.                                                   *)

IdsOf(s) == {s[i].id : i \in Named(s)}
WithId(s, x) == s[CHOOSE i \in Named(s) : s[i].id = x]
Others(s) ==
    LET others == {s[i] : i \in DOMAIN s \ Named(s)} IN
    [x \in others |-> Cardinality({i \in DOMAIN s : s[i] = x})]

TrueDifference(l, r) ==
    [added   |-> Cardinality(IdsOf(r) \ IdsOf(l)) + BagCardinality(Others(r) (-) Others(l)),
     removed |-> Cardinality(IdsOf(l) \ IdsOf(r)) + BagCardinality(Others(l) (-) Others(r)),
     changed |-> Cardinality({x \in IdsOf(l) \cap IdsOf(r) : WithId(l, x) # WithId(r, x)})]

\* No two ids in the lists print alike.
DistinctTexts(l, r) ==
    \A x, y \in IdsOf(l) \cup IdsOf(r) : TextOf[x] = TextOf[y] => x = y
=============================================================================
