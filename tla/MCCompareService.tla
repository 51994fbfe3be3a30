--------------------------- MODULE MCCompareService ---------------------------
(* Instances of CompareService for TLC. *)
EXTENDS CompareService

CONSTANTS r1, r2,           \* the runs, as model values
          one, oneText, two \* ids: the number 1, the text "1", the number 2

\* 1 and "1" print alike.
Texts == [x \in {one, oneText, two} |-> IF x = two THEN 2 ELSE 1]

Rec(x, body) == [id |-> x, body |-> body]

\* A record that is changed, one that goes, one that comes, and copies.
TwoLists == << <<Rec(one, 1), Rec(NoId, 1), Rec(NoId, 1)>>,
               <<Rec(one, 2), Rec(two, 1), Rec(NoId, 1)>> >>

AllRecords == {Rec(x, b) : x \in Ids \cup {NoId}, b \in {1, 2}}
ShortLists == UNION {[1..n -> AllRecords] : n \in 0..2}
                \cup [1..3 -> {Rec(one, 1), Rec(one, 2), Rec(NoId, 1), Rec(NoId, 2)}]
=============================================================================
