--------------------------- MODULE RecordDiff_proofs ---------------------------
(***************************************************************************)
(* That the comparison of records counts what it should, for all lists of  *)
(* records: the keys under which compare_service.py matches records count  *)
(* as the ids and the bags of TrueDifference do.                           *)
(***************************************************************************)
EXTENDS RecordDiff, FunctionTheorems, SequenceTheorems, FiniteSetTheorems,
        WellFoundedInduction, TLAPS

-----------------------------------------------------------------------------
(* Bags: the number of elements of a bag is the number of its copies. *)

\* The copies in bag B of the elements of S, numbered.
Copies(B, S) == {p \in S \X Nat : p[2] \in 1..B[p[1]]}

\* The copies of S are those of S without e and those of e.
LEMMA CopiesOfOne ==
    ASSUME NEW B, NEW S, NEW e \in S, B[e] \in Nat, IsFiniteSet(Copies(B, S \ {e}))
    PROVE  /\ IsFiniteSet(Copies(B, S))
           /\ Cardinality(Copies(B, S)) = B[e] + Cardinality(Copies(B, S \ {e}))
<1> DEFINE rest == Copies(B, S \ {e})
           one == {e} \X (1..B[e])
<1>1. Copies(B, S) = rest \cup one
  BY DEF Copies
<1>2. rest \cap one = {}
  BY DEF Copies
<1>3. IsFiniteSet({e}) /\ Cardinality({e}) = 1
  BY FS_Singleton
<1>4. IsFiniteSet(1..B[e]) /\ Cardinality(1..B[e]) = B[e]
  <2>1. PICK n : n = B[e]
    OBVIOUS
  <2>2. n \in Nat
    BY <2>1
  <2>3. IsFiniteSet(1..n) /\ Cardinality(1..n) = n
    BY <2>2, FS_Interval
  <2> QED BY <2>1, <2>3
<1>5. IsFiniteSet(one) /\ Cardinality(one) = 1 * B[e]
  BY <1>3, <1>4, FS_Product
<1>6. /\ IsFiniteSet(rest \cup one)
      /\ Cardinality(rest \cup one) =
            Cardinality(rest) + Cardinality(one) - Cardinality(rest \cap one)
  <2> HIDE DEF one
  <2> QED BY <1>5, FS_Union
<1>7. Cardinality({}) = 0
  BY FS_EmptySet
<1>8. Cardinality(rest) \in Nat
  BY FS_CardinalityType
<1> HIDE DEF rest, one
<1>9. Cardinality(one) = B[e]
  BY <1>5
<1>10. Cardinality(rest \cup one) = B[e] + Cardinality(rest)
  <2>1. PICK a : a = Cardinality(rest)
    OBVIOUS
  <2>2. PICK b : b = B[e]
    OBVIOUS
  <2>3. Cardinality(rest \cup one) = a + b - 0 /\ a \in Nat /\ b \in Nat
    BY <1>2, <1>6, <1>7, <1>8, <1>9, <2>1, <2>2, Zenon
  <2>4. a + b - 0 = b + a
    BY <2>3
  <2> QED BY <2>1, <2>2, <2>3, <2>4, Zenon
<1> QED BY <1>1, <1>6, <1>10 DEF rest

\* A finite bag has finitely many copies.
LEMMA CopiesFinite ==
    ASSUME NEW D, IsFiniteSet(D), NEW B \in [D -> Nat]
    PROVE  IsFiniteSet(Copies(B, D))
<1> DEFINE Bad == {S \in SUBSET D : ~ IsFiniteSet(Copies(B, S))}
<1> SUFFICES ASSUME Bad # {} PROVE FALSE
  OBVIOUS
<1>1. IsWellFoundedOn(StrictSubsetOrdering(D), FiniteSubsetsOf(D)) /\ FiniteSubsetsOf(D) = SUBSET D
  BY FS_StrictSubsetOrderingWellFounded, FS_FiniteSubsetsOfFinite
<1>2. PICK S \in Bad : \A T \in Bad : ~ (<<T, S>> \in StrictSubsetOrdering(D))
  <2>1. Bad \subseteq SUBSET D
    OBVIOUS
  <2> HIDE DEF Bad
  <2> QED BY <1>1, <2>1, WFMin
<1>3. S # {}
  <2>1. Copies(B, {}) = {}
    BY DEF Copies
  <2>2. IsFiniteSet({})
    BY FS_EmptySet
  <2> QED BY <2>1, <2>2
<1>4. PICK e \in S : TRUE
  BY <1>3
<1>5. S \ {e} \notin Bad
  <2>1. <<S \ {e}, S>> \in StrictSubsetOrdering(D)
    BY <1>4 DEF StrictSubsetOrdering
  <2> QED BY <1>2, <2>1
<1>6. IsFiniteSet(Copies(B, S \ {e})) /\ B[e] \in Nat
  BY <1>5
<1>7. IsFiniteSet(Copies(B, S))
  BY <1>6, CopiesOfOne
<1> QED BY <1>2, <1>7

\* The recursive sum that BagCardinality is.
IsSum(d, B) ==
    d = [S \in SUBSET DOMAIN B |->
            LET elt == CHOOSE e \in S : TRUE
            IN  IF S = {} THEN 0 ELSE B[elt] + d[S \ {elt}]]

\* The number of copies is such a sum.
LEMMA CopiesAreASum ==
    ASSUME NEW D, IsFiniteSet(D), NEW B \in [D -> Nat]
    PROVE  IsSum([S \in SUBSET D |-> Cardinality(Copies(B, S))], B)
<1> DEFINE d == [S \in SUBSET D |-> Cardinality(Copies(B, S))]
<1>1. \A S \in SUBSET D : IsFiniteSet(Copies(B, S))
  <2> SUFFICES ASSUME NEW S \in SUBSET D PROVE IsFiniteSet(Copies(B, S))
    OBVIOUS
  <2>1. Copies(B, S) \subseteq Copies(B, D)
    BY DEF Copies
  <2>2. IsFiniteSet(Copies(B, D))
    BY CopiesFinite
  <2> QED BY <2>1, <2>2, FS_Subset
<1>2. ASSUME NEW S \in SUBSET D
      PROVE  d[S] = LET elt == CHOOSE e \in S : TRUE
                    IN  IF S = {} THEN 0 ELSE B[elt] + d[S \ {elt}]
  <2>1. CASE S = {}
    <3>1. Copies(B, S) = {}
      BY <2>1 DEF Copies
    <3>2. Cardinality({}) = 0
      BY FS_EmptySet
    <3> QED BY <2>1, <3>1, <3>2
  <2>2. CASE S # {}
    <3>1. PICK e : e = CHOOSE x \in S : TRUE
      OBVIOUS
    <3>2. e \in S
      BY <2>2, <3>1
    <3>3. B[e] \in Nat /\ IsFiniteSet(Copies(B, S \ {e})) /\ S \ {e} \in SUBSET D
      BY <1>1, <3>2
    <3>4. Cardinality(Copies(B, S)) = B[e] + Cardinality(Copies(B, S \ {e}))
      BY <3>2, <3>3, CopiesOfOne
    <3>5. d[S] = B[e] + d[S \ {e}]
      BY <3>3, <3>4
    <3> HIDE DEF d
    <3> QED BY <2>2, <3>1, <3>5
  <2> QED BY <2>1, <2>2
<1>3. DOMAIN B = D
  OBVIOUS
<1>4. d = [S \in SUBSET D |-> d[S]]
  OBVIOUS
<1> HIDE DEF d
<1>5. d = [S \in SUBSET D |-> LET elt == CHOOSE e \in S : TRUE
                              IN  IF S = {} THEN 0 ELSE B[elt] + d[S \ {elt}]]
  BY <1>2, <1>4, Zenon
<1>6. IsSum(d, B)
  BY <1>3, <1>5, Zenon DEF IsSum
<1> QED BY <1>6 DEF d

\* Two such sums agree.
LEMMA SumsAgree ==
    ASSUME NEW D, IsFiniteSet(D), NEW B, DOMAIN B = D, NEW c, IsSum(c, B), NEW d, IsSum(d, B)
    PROVE  c[D] = d[D]
<1> DEFINE Bad == {S \in SUBSET D : c[S] # d[S]}
<1> SUFFICES ASSUME Bad # {} PROVE FALSE
  OBVIOUS
<1>1. IsWellFoundedOn(StrictSubsetOrdering(D), FiniteSubsetsOf(D)) /\ FiniteSubsetsOf(D) = SUBSET D
  BY FS_StrictSubsetOrderingWellFounded, FS_FiniteSubsetsOfFinite
<1>2. PICK S \in Bad : \A T \in Bad : ~ (<<T, S>> \in StrictSubsetOrdering(D))
  <2>1. Bad \subseteq SUBSET D
    OBVIOUS
  <2> HIDE DEF Bad
  <2> QED BY <1>1, <2>1, WFMin
<1>3. ASSUME NEW f, IsSum(f, B)
      PROVE  f[S] = IF S = {} THEN 0
                    ELSE B[CHOOSE e \in S : TRUE] + f[S \ {CHOOSE e \in S : TRUE}]
  BY <1>3 DEF IsSum
<1>4. PICK e : e = CHOOSE x \in S : TRUE
  OBVIOUS
<1>5. S # {} /\ c[S \ {e}] # d[S \ {e}]
  BY <1>2, <1>3, <1>4
<1>6. e \in S
  BY <1>4, <1>5
<1>7. S \ {e} \in Bad
  BY <1>5
<1>8. <<S \ {e}, S>> \in StrictSubsetOrdering(D)
  BY <1>6 DEF StrictSubsetOrdering
<1> QED BY <1>2, <1>7, <1>8

\* The cardinality of a finite bag is the number of its copies.
LEMMA BagCardinalityIsCopies ==
    ASSUME NEW D, IsFiniteSet(D), NEW B \in [D -> Nat]
    PROVE  BagCardinality(B) = Cardinality(Copies(B, D))
<1>1. PICK c : c = [S \in SUBSET D |-> Cardinality(Copies(B, S))]
  OBVIOUS
<1>2. IsSum(c, B)
  BY <1>1, CopiesAreASum
<1>3. PICK d : d = CHOOSE x : IsSum(x, B)
  OBVIOUS
<1>4. IsSum(d, B)
  BY <1>2, <1>3, Zenon
<1>5. BagCardinality(B) = d[DOMAIN B]
  BY <1>3, Zenon DEF BagCardinality, IsSum
<1>6. DOMAIN B = D
  OBVIOUS
<1>7. c[D] = d[D]
  BY <1>2, <1>4, <1>6, SumsAgree
<1>8. c[D] = Cardinality(Copies(B, D))
  BY <1>1
<1> QED BY <1>5, <1>6, <1>7, <1>8

-----------------------------------------------------------------------------
(* Equal records are numbered from one. *)

Places(s, x) == {i \in DOMAIN s : s[i] = x}

\* The places of a record are finitely many.
LEMMA PlacesFinite ==
    ASSUME NEW X, NEW s \in Seq(X), NEW x
    PROVE  /\ DOMAIN s = 1..Len(s) /\ Len(s) \in Nat /\ IsFiniteSet(DOMAIN s)
           /\ IsFiniteSet(Places(s, x)) /\ Cardinality(Places(s, x)) \in Nat
<1>1. DOMAIN s = 1..Len(s) /\ Len(s) \in Nat
  BY LenProperties
<1>2. IsFiniteSet(DOMAIN s)
  <2>1. PICK n : n = Len(s)
    OBVIOUS
  <2> QED BY <1>1, <2>1, FS_Interval
<1>3. Places(s, x) \subseteq DOMAIN s
  BY DEF Places
<1>4. IsFiniteSet(Places(s, x))
  BY <1>2, <1>3, FS_Subset
<1> QED BY <1>1, <1>2, <1>4, FS_CardinalityType

\* The number of a record is between one and the number of its places, and greater at
\* later places.
LEMMA NthBounds ==
    ASSUME NEW X, NEW s \in Seq(X), NEW x, NEW i \in Places(s, x)
    PROVE  /\ Nth(s, i) \in 1..Cardinality(Places(s, x))
           /\ \A j \in Places(s, x) : j < i => Nth(s, j) < Nth(s, i)
<1> DEFINE Upto(j) == {k \in 1..j : s[k] = x}
<1>1. /\ DOMAIN s = 1..Len(s) /\ Len(s) \in Nat
      /\ IsFiniteSet(Places(s, x)) /\ Cardinality(Places(s, x)) \in Nat
  BY PlacesFinite
<1>2. ASSUME NEW j \in Places(s, x)
      PROVE  /\ j \in 1..Len(s) /\ Nth(s, j) = Cardinality(Upto(j)) /\ j \in Upto(j)
             /\ Upto(j) \subseteq Places(s, x) /\ IsFiniteSet(Upto(j))
             /\ Cardinality(Upto(j)) \in Nat
             /\ Cardinality(Upto(j)) <= Cardinality(Places(s, x))
  <2>1. j \in 1..Len(s) /\ s[j] = x
    BY <1>1 DEF Places
  <2>2. Nth(s, j) = Cardinality(Upto(j))
    BY <2>1 DEF Nth
  <2>3. j \in Upto(j) /\ Upto(j) \subseteq Places(s, x)
    BY <1>1, <2>1 DEF Places
  <2> HIDE DEF Upto
  <2>4. IsFiniteSet(Upto(j)) /\ Cardinality(Upto(j)) <= Cardinality(Places(s, x))
    BY <1>1, <2>3, FS_Subset
  <2> QED BY <2>1, <2>2, <2>3, <2>4, FS_CardinalityType
<1>3. Nth(s, i) \in 1..Cardinality(Places(s, x))
  <2>1. Cardinality(Upto(i)) # 0
    <3>1. Upto(i) # {} /\ IsFiniteSet(Upto(i))
      BY <1>2
    <3> HIDE DEF Upto
    <3> QED BY <3>1, FS_EmptySet
  <2>2. PICK c : c = Cardinality(Upto(i))
    OBVIOUS
  <2>3. PICK n : n = Cardinality(Places(s, x))
    OBVIOUS
  <2> HIDE DEF Upto
  <2>4. c \in Nat /\ n \in Nat /\ c # 0 /\ c <= n /\ Nth(s, i) = c
    BY <1>1, <1>2, <2>1, <2>2, <2>3, Zenon
  <2>5. c \in 1..n
    BY <2>4
  <2> QED BY <2>3, <2>4, <2>5, Zenon
<1>4. ASSUME NEW j \in Places(s, x), j < i
      PROVE  Nth(s, j) < Nth(s, i)
  <2>1. Upto(j) \subseteq Upto(i) /\ Upto(j) # Upto(i)
    <3>1. i \in 1..Len(s) /\ j \in 1..Len(s) /\ i \in Upto(i)
      BY <1>2
    <3> QED BY <1>1, <1>4, <3>1
  <2>2. IsFiniteSet(Upto(i)) /\ Cardinality(Upto(i)) \in Nat /\ Cardinality(Upto(j)) \in Nat
        /\ Nth(s, i) = Cardinality(Upto(i)) /\ Nth(s, j) = Cardinality(Upto(j))
    BY <1>2
  <2> HIDE DEF Upto
  <2>3. Cardinality(Upto(j)) <= Cardinality(Upto(i)) /\ Cardinality(Upto(i)) # Cardinality(Upto(j))
    BY <2>1, <2>2, FS_Subset
  <2>4. PICK c : c = Cardinality(Upto(i))
    OBVIOUS
  <2>5. PICK d : d = Cardinality(Upto(j))
    OBVIOUS
  <2>6. c \in Nat /\ d \in Nat /\ d <= c /\ c # d
    BY <2>2, <2>3, <2>4, <2>5, Zenon
  <2>7. d < c
    BY <2>6
  <2> QED BY <2>2, <2>4, <2>5, <2>7, Zenon
<1> QED BY <1>3, <1>4

\* No two places of a record have one number, and every number up to how many there
\* are is the number of one.
LEMMA NthIsOnto ==
    ASSUME NEW X, NEW s \in Seq(X), NEW x
    PROVE  /\ \A i, j \in Places(s, x) : Nth(s, i) = Nth(s, j) => i = j
           /\ \A n \in 1..Cardinality(Places(s, x)) : \E i \in Places(s, x) : Nth(s, i) = n
<1> DEFINE P == Places(s, x)
           f == [i \in P |-> Nth(s, i)]
<1>1. IsFiniteSet(P) /\ Cardinality(P) \in Nat /\ P \subseteq Int
  <2>1. P \subseteq Int
    BY PlacesFinite DEF Places
  <2> QED BY <2>1, PlacesFinite
<1>2. \A i, j \in P : Nth(s, i) = Nth(s, j) => i = j
  <2> SUFFICES ASSUME NEW i \in P, NEW j \in P, Nth(s, i) = Nth(s, j), i # j
               PROVE  FALSE
    OBVIOUS
  <2>1. Nth(s, i) \in Int /\ Nth(s, j) \in Int
    BY <1>1, NthBounds
  <2>2. i \in Int /\ j \in Int
    BY <1>1
  <2>3. CASE i < j
    BY <2>1, <2>3, NthBounds
  <2>4. CASE j < i
    BY <2>1, <2>4, NthBounds
  <2> QED BY <2>2, <2>3, <2>4
<1> HIDE DEF P
<1>3. f \in Injection(P, 1..Cardinality(P))
  <2>1. f \in [P -> 1..Cardinality(P)]
    BY NthBounds DEF P
  <2>2. \A i, j \in P : f[i] = f[j] => i = j
    BY <1>2
  <2> HIDE DEF f
  <2> QED BY <2>1, <2>2 DEF Injection, IsInjective
<1>4. PICK c : c = Cardinality(P)
  OBVIOUS
<1>5. IsFiniteSet(1..c) /\ Cardinality(1..c) = c
  <2>1. c \in Nat
    BY <1>1, <1>4
  <2> QED BY <2>1, FS_Interval
<1>6. f \in Surjection(P, 1..c)
  <2> HIDE DEF f
  <2> QED BY <1>3, <1>4, <1>5, FS_Injection
<1>7. \A n \in 1..c : \E i \in P : f[i] = n
  <2> HIDE DEF f
  <2> QED BY <1>6 DEF Surjection
<1>8. \A i \in P : f[i] = Nth(s, i)
  OBVIOUS
<1> HIDE DEF f
<1> QED BY <1>2, <1>4, <1>7, <1>8 DEF P

-----------------------------------------------------------------------------
(* Keys. *)

Unnamed(s) == DOMAIN Others(s)
Count(s, x) == IF x \in Unnamed(s) THEN Others(s)[x] ELSE 0
IdKey(x) == <<"id", TextOf[x]>>
HashKey(x, n) == <<"hash", x, n>>

\* A key tells what it was made from.
LEMMA KeysDiffer ==
    /\ \A x, y, n : IdKey(x) # HashKey(y, n)
    /\ \A x, y : IdKey(x) = IdKey(y) <=> TextOf[x] = TextOf[y]
    /\ \A x, y, m, n : HashKey(x, m) = HashKey(y, n) <=> x = y /\ m = n
<1>1. \A x, y, n : IdKey(x)[1] = "id" /\ HashKey(y, n)[1] = "hash"
  BY DEF IdKey, HashKey
<1>2. \A x, y, n : IdKey(x) # HashKey(y, n)
  BY <1>1
<1>3. \A x, y : IdKey(x) = IdKey(y) <=> TextOf[x] = TextOf[y]
  <2>1. \A x : IdKey(x)[2] = TextOf[x]
    BY DEF IdKey
  <2> QED BY <2>1, Zenon DEF IdKey
<1>4. \A x, y, m, n : HashKey(x, m) = HashKey(y, n) <=> x = y /\ m = n
  <2>1. \A x, m : HashKey(x, m)[2] = x /\ HashKey(x, m)[3] = m
    BY DEF HashKey
  <2> QED BY <2>1, Zenon DEF HashKey
<1> QED BY <1>2, <1>3, <1>4

\* The keys of records with and without an id.
LEMMA KeyForms ==
    ASSUME NEW s, NEW i \in DOMAIN s
    PROVE  /\ s[i].id # NoId => s[i].id \in IdsOf(s) /\ Key(s, i) = IdKey(s[i].id)
           /\ s[i].id = NoId => s[i] \in Unnamed(s) /\ Key(s, i) = HashKey(s[i], Nth(s, i))
BY DEF Named, IdsOf, Others, Unnamed, Key, IdKey, HashKey

\* The records without an id, each as often as it has places.
LEMMA Counts ==
    ASSUME NEW X, NEW s \in Seq(X), NEW x
    PROVE  /\ Count(s, x) \in Nat
           /\ x \in Unnamed(s) => /\ x.id = NoId /\ Count(s, x) = Others(s)[x]
                                  /\ Count(s, x) = Cardinality(Places(s, x))
                                  /\ Places(s, x) # {}
<1>1. x \in Unnamed(s) => Others(s)[x] = Cardinality(Places(s, x))
  BY DEF Unnamed, Others, Places
<1>2. x \in Unnamed(s) => x.id = NoId /\ Places(s, x) # {}
  BY DEF Unnamed, Others, Named, Places
<1>3. Cardinality(Places(s, x)) \in Nat
  BY PlacesFinite
<1> QED BY <1>1, <1>2, <1>3 DEF Count

\* The keys of a list: one for each id, and for each other record one for each of its
\* places.
LEMMA KeysOf ==
    ASSUME NEW X, NEW s \in Seq(X), NEW k
    PROVE  k \in DOMAIN RecordMap(s) <=>
              \/ \E x \in IdsOf(s) : k = IdKey(x)
              \/ \E x \in Unnamed(s) : \E n \in 1..Count(s, x) : k = HashKey(x, n)
<1>1. k \in DOMAIN RecordMap(s) <=> \E i \in DOMAIN s : k = Key(s, i)
  BY DEF RecordMap
<1>2. ASSUME NEW i \in DOMAIN s, k = Key(s, i)
      PROVE  \/ \E x \in IdsOf(s) : k = IdKey(x)
             \/ \E x \in Unnamed(s) : \E n \in 1..Count(s, x) : k = HashKey(x, n)
  <2>1. CASE s[i].id # NoId
    BY <1>2, <2>1, KeyForms
  <2>2. CASE s[i].id = NoId
    <3>1. s[i] \in Unnamed(s) /\ k = HashKey(s[i], Nth(s, i))
      BY <1>2, <2>2, KeyForms
    <3>2. Nth(s, i) \in 1..Cardinality(Places(s, s[i]))
      <4>1. i \in Places(s, s[i])
        BY DEF Places
      <4> QED BY <4>1, NthBounds
    <3>3. Count(s, s[i]) = Cardinality(Places(s, s[i]))
      BY <3>1, Counts
    <3> QED BY <3>1, <3>2, <3>3
  <2> QED BY <2>1, <2>2
<1>3. ASSUME NEW x \in IdsOf(s), k = IdKey(x)
      PROVE  \E i \in DOMAIN s : k = Key(s, i)
  <2>1. PICK i \in DOMAIN s : s[i].id # NoId /\ s[i].id = x
    BY DEF IdsOf, Named
  <2> QED BY <1>3, <2>1, KeyForms
<1>4. ASSUME NEW x \in Unnamed(s), NEW n \in 1..Count(s, x), k = HashKey(x, n)
      PROVE  \E i \in DOMAIN s : k = Key(s, i)
  <2>1. Count(s, x) = Cardinality(Places(s, x)) /\ x.id = NoId
    BY Counts
  <2>2. PICK i \in Places(s, x) : Nth(s, i) = n
    BY <2>1, NthIsOnto
  <2>3. i \in DOMAIN s /\ s[i] = x
    BY DEF Places
  <2> QED BY <1>4, <2>1, <2>2, <2>3, KeyForms
<1> QED BY <1>1, <1>2, <1>3, <1>4

\* The ids and the records of a list are finitely many.
LEMMA FiniteLists ==
    ASSUME NEW X, NEW s \in Seq(X)
    PROVE  IsFiniteSet(IdsOf(s)) /\ IsFiniteSet(Unnamed(s))
<1>1. IsFiniteSet(DOMAIN s)
  BY PlacesFinite
<1>2. Named(s) \subseteq DOMAIN s /\ DOMAIN s \ Named(s) \subseteq DOMAIN s
  BY DEF Named
<1>3. IsFiniteSet(Named(s)) /\ IsFiniteSet(DOMAIN s \ Named(s))
  BY <1>1, <1>2, FS_Subset
<1>4. IsFiniteSet(IdsOf(s))
  <2> DEFINE f == [i \in Named(s) |-> s[i].id]
  <2>1. f \in Surjection(Named(s), IdsOf(s))
    BY DEF Surjection, IdsOf
  <2> HIDE DEF f
  <2> QED BY <1>3, <2>1, FS_Surjection
<1>5. IsFiniteSet(Unnamed(s))
  <2> DEFINE R == DOMAIN s \ Named(s)
             f == [i \in R |-> s[i]]
  <2>1. Unnamed(s) = {s[i] : i \in R}
    BY DEF Unnamed, Others
  <2>2. f \in Surjection(R, Unnamed(s))
    BY <2>1 DEF Surjection
  <2> HIDE DEF f
  <2> QED BY <1>3, <2>2, FS_Surjection
<1> QED BY <1>4, <1>5

-----------------------------------------------------------------------------
(* What one list has and the other has not. *)

NewIdKeys(l, r) == {IdKey(x) : x \in IdsOf(r) \ IdsOf(l)}
More(l, r) == Others(r) (-) Others(l)
MoreOf(l, r) == Copies(More(l, r), DOMAIN More(l, r))
NewHashKeys(l, r) == {HashKey(p[1], p[2] + Count(l, p[1])) : p \in MoreOf(l, r)}

\* A record of r is copied in the difference of the bags as often as r has more of it.
LEMMA MoreCopies ==
    ASSUME NEW X, NEW l \in Seq(X), NEW r \in Seq(X)
    PROVE  /\ DOMAIN More(l, r) = {x \in Unnamed(r) : Count(r, x) > Count(l, x)}
           /\ \A x \in DOMAIN More(l, r) :
                 More(l, r)[x] = Count(r, x) - Count(l, x) /\ More(l, r)[x] \in Nat
           /\ IsFiniteSet(DOMAIN More(l, r))
           /\ More(l, r) \in [DOMAIN More(l, r) -> Nat]
<1> DEFINE D == {x \in Unnamed(r) : Count(r, x) > Count(l, x)}
<1>1. \A x \in Unnamed(r) :
         (IF x \in Unnamed(l) THEN Others(r)[x] - Others(l)[x] ELSE Others(r)[x])
            = Count(r, x) - Count(l, x)
  <2> SUFFICES ASSUME NEW x \in Unnamed(r)
               PROVE  (IF x \in Unnamed(l) THEN Others(r)[x] - Others(l)[x] ELSE Others(r)[x])
                         = Count(r, x) - Count(l, x)
    OBVIOUS
  <2>1. Count(r, x) \in Nat /\ Count(l, x) \in Nat /\ Count(r, x) = Others(r)[x]
    BY Counts
  <2>2. x \in Unnamed(l) => Count(l, x) = Others(l)[x]
    BY DEF Count
  <2>3. x \notin Unnamed(l) => Count(l, x) = 0
    BY DEF Count
  <2> QED BY <2>1, <2>2, <2>3
<1> DEFINE C == [x \in Unnamed(r) |-> IF x \in Unnamed(l) THEN Others(r)[x] - Others(l)[x]
                                                         ELSE Others(r)[x]]
<1>2. Others(r) (-) Others(l) = [x \in {d \in Unnamed(r) : C[d] > 0} |-> C[x]]
  BY DEF (-), Unnamed
<1>3. \A x \in Unnamed(r) : C[x] = Count(r, x) - Count(l, x)
  BY <1>1
<1> HIDE DEF C
<1>4. \A x \in Unnamed(r) : Count(r, x) \in Nat /\ Count(l, x) \in Nat
  BY Counts
<1>5. {d \in Unnamed(r) : C[d] > 0} = D
  BY <1>3, <1>4
<1>6. IsFiniteSet(D)
  <2>1. D \subseteq Unnamed(r)
    OBVIOUS
  <2> HIDE DEF D
  <2> QED BY <2>1, FiniteLists, FS_Subset
<1>7. \A x \in D : C[x] = Count(r, x) - Count(l, x) /\ C[x] \in Nat
  BY <1>3, <1>4
<1> HIDE DEF D
<1>8. Others(r) (-) Others(l) = [x \in D |-> C[x]]
  BY <1>2, <1>5, Zenon
<1>9. PICK B : B = More(l, r)
  OBVIOUS
<1>10. DOMAIN B = D /\ (\A x \in D : B[x] = C[x]) /\ B = [x \in D |-> B[x]]
  BY <1>8, <1>9 DEF More
<1>11. /\ DOMAIN B = D /\ (\A x \in DOMAIN B : B[x] = Count(r, x) - Count(l, x) /\ B[x] \in Nat)
       /\ IsFiniteSet(DOMAIN B) /\ B \in [DOMAIN B -> Nat]
  BY <1>6, <1>7, <1>10
<1> QED BY <1>9, <1>11, Zenon DEF D

\* The copies by which r has more: a record of r and a number above those that l has.
LEMMA MoreOfAre ==
    ASSUME NEW X, NEW l \in Seq(X), NEW r \in Seq(X)
    PROVE  /\ \A x, i : <<x, i>> \in MoreOf(l, r) <=>
                 x \in Unnamed(r) /\ i \in 1..(Count(r, x) - Count(l, x))
           /\ \A p \in MoreOf(l, r) : p = <<p[1], p[2]>>
<1>1. \A x, i : <<x, i>> \in MoreOf(l, r) <=> x \in DOMAIN More(l, r) /\ i \in 1..More(l, r)[x]
  <2> SUFFICES ASSUME NEW x, NEW i
               PROVE  <<x, i>> \in MoreOf(l, r) <=>
                         x \in DOMAIN More(l, r) /\ i \in 1..More(l, r)[x]
    OBVIOUS
  <2>1. i \in 1..More(l, r)[x] => i \in Nat
    OBVIOUS
  <2> QED BY <2>1 DEF MoreOf, Copies
<1>2. ASSUME NEW x, NEW i
      PROVE  x \in DOMAIN More(l, r) /\ i \in 1..More(l, r)[x] <=>
                x \in Unnamed(r) /\ i \in 1..(Count(r, x) - Count(l, x))
  <2>1. Count(r, x) \in Nat /\ Count(l, x) \in Nat
    BY Counts
  <2>2. x \in DOMAIN More(l, r) <=> x \in Unnamed(r) /\ Count(r, x) > Count(l, x)
    BY MoreCopies
  <2>3. x \in DOMAIN More(l, r) => More(l, r)[x] = Count(r, x) - Count(l, x)
    BY MoreCopies
  <2>4. i \in 1..(Count(r, x) - Count(l, x)) => Count(r, x) > Count(l, x)
    BY <2>1
  <2> QED BY <2>2, <2>3, <2>4
<1>3. \A p \in MoreOf(l, r) : p = <<p[1], p[2]>>
  BY DEF MoreOf, Copies
<1> QED BY <1>1, <1>2, <1>3

\* The keys of r that l has not.
LEMMA NewKeys ==
    ASSUME NEW X, NEW l \in Seq(X), NEW r \in Seq(X), DistinctTexts(l, r)
    PROVE  DOMAIN RecordMap(r) \ DOMAIN RecordMap(l) = NewIdKeys(l, r) \cup NewHashKeys(l, r)
<1>1. ASSUME NEW k, k \in DOMAIN RecordMap(r), k \notin DOMAIN RecordMap(l)
      PROVE  k \in NewIdKeys(l, r) \cup NewHashKeys(l, r)
  <2>1. CASE \E x \in IdsOf(r) : k = IdKey(x)
    BY <1>1, <2>1, KeysOf DEF NewIdKeys
  <2>2. CASE \E x \in Unnamed(r) : \E n \in 1..Count(r, x) : k = HashKey(x, n)
    <3>10. PICK x \in Unnamed(r) : \E n \in 1..Count(r, x) : k = HashKey(x, n)
      BY <2>2
    <3>1. PICK n \in 1..Count(r, x) : k = HashKey(x, n)
      BY <3>10
    <3>2. Count(r, x) \in Nat /\ Count(l, x) \in Nat /\ n \in Nat /\ n \in 1..Count(r, x)
      BY Counts
    <3>3. ~ (x \in Unnamed(l) /\ n \in 1..Count(l, x))
      BY <1>1, <3>1, KeysOf
    <3>4. ~ (n \in 1..Count(l, x))
      BY <3>2, <3>3 DEF Count
    <3>5. n - Count(l, x) \in 1..(Count(r, x) - Count(l, x)) /\ n - Count(l, x) + Count(l, x) = n
      BY <3>2, <3>4
    <3>6. PICK i : i = n - Count(l, x)
      OBVIOUS
    <3>7. <<x, i>> \in MoreOf(l, r) /\ k = HashKey(x, i + Count(l, x))
      BY <3>1, <3>5, <3>6, MoreOfAre
    <3>8. PICK p : p = <<x, i>>
      OBVIOUS
    <3>9. p \in MoreOf(l, r) /\ p[1] = x /\ p[2] = i
      BY <3>7, <3>8
    <3> QED BY <3>7, <3>9 DEF NewHashKeys
  <2> QED BY <1>1, <2>1, <2>2, KeysOf
<1>2. ASSUME NEW x \in IdsOf(r) \ IdsOf(l)
      PROVE  IdKey(x) \in DOMAIN RecordMap(r) \ DOMAIN RecordMap(l)
  <2>1. IdKey(x) \in DOMAIN RecordMap(r)
    BY KeysOf
  <2>2. \A y \in IdsOf(l) : IdKey(x) # IdKey(y)
    BY KeysDiffer DEF DistinctTexts
  <2>3. \A y, n : IdKey(x) # HashKey(y, n)
    BY KeysDiffer
  <2>4. IdKey(x) \notin DOMAIN RecordMap(l)
    BY <2>2, <2>3, KeysOf
  <2> QED BY <2>1, <2>4
<1>3. ASSUME NEW p \in MoreOf(l, r)
      PROVE  HashKey(p[1], p[2] + Count(l, p[1])) \in DOMAIN RecordMap(r) \ DOMAIN RecordMap(l)
  <2>1. PICK x : x = p[1]
    OBVIOUS
  <2>2. PICK i : i = p[2]
    OBVIOUS
  <2>3. p = <<x, i>>
    BY <2>1, <2>2, MoreOfAre
  <2>4. x \in Unnamed(r) /\ i \in 1..(Count(r, x) - Count(l, x))
    BY <2>3, MoreOfAre
  <2>5. Count(r, x) \in Nat /\ Count(l, x) \in Nat
    BY Counts
  <2>6. PICK n : n = i + Count(l, x)
    OBVIOUS
  <2>7. n \in 1..Count(r, x) /\ n \notin 1..Count(l, x)
    BY <2>4, <2>5, <2>6
  <2>8. HashKey(x, n) \in DOMAIN RecordMap(r)
    BY <2>4, <2>7, KeysOf
  <2>9. \A y \in IdsOf(l) : HashKey(x, n) # IdKey(y)
    BY KeysDiffer
  <2>10. \A y \in Unnamed(l) : \A m \in 1..Count(l, y) : HashKey(x, n) # HashKey(y, m)
    BY <2>7, KeysDiffer
  <2>11. HashKey(x, n) \notin DOMAIN RecordMap(l)
    BY <2>9, <2>10, KeysOf
  <2> QED BY <2>1, <2>2, <2>6, <2>8, <2>11
<1>4. \A k \in NewIdKeys(l, r) : k \in DOMAIN RecordMap(r) \ DOMAIN RecordMap(l)
  BY <1>2 DEF NewIdKeys
<1>5. \A k \in NewHashKeys(l, r) : k \in DOMAIN RecordMap(r) \ DOMAIN RecordMap(l)
  BY <1>3 DEF NewHashKeys
<1> QED BY <1>1, <1>4, <1>5

\* They are as many as the ids and the copies by which r has more.
LEMMA NewKeysCount ==
    ASSUME NEW X, NEW l \in Seq(X), NEW r \in Seq(X), DistinctTexts(l, r)
    PROVE  Cardinality(DOMAIN RecordMap(r) \ DOMAIN RecordMap(l)) =
              Cardinality(IdsOf(r) \ IdsOf(l)) + BagCardinality(Others(r) (-) Others(l))
<1> DEFINE ids == IdsOf(r) \ IdsOf(l)
           f == [x \in ids |-> IdKey(x)]
           g == [p \in MoreOf(l, r) |-> HashKey(p[1], p[2] + Count(l, p[1]))]
<1>1. IsFiniteSet(ids)
  <2>1. ids \subseteq IdsOf(r)
    OBVIOUS
  <2> HIDE DEF ids
  <2> QED BY <2>1, FiniteLists, FS_Subset
<1>2. /\ IsFiniteSet(NewIdKeys(l, r)) /\ Cardinality(NewIdKeys(l, r)) = Cardinality(ids)
  <2>1. f \in Bijection(ids, NewIdKeys(l, r))
    <3>1. f \in [ids -> NewIdKeys(l, r)]
      BY DEF NewIdKeys
    <3>2. \A x, y \in ids : f[x] = f[y] => x = y
      BY KeysDiffer DEF DistinctTexts
    <3>3. \A k \in NewIdKeys(l, r) : \E x \in ids : f[x] = k
      BY DEF NewIdKeys
    <3> HIDE DEF f, ids
    <3> QED BY <3>1, <3>2, <3>3 DEF Bijection, Injection, Surjection, IsInjective
  <2> HIDE DEF f, ids
  <2>2. ExistsBijection(ids, NewIdKeys(l, r))
    BY <2>1 DEF ExistsBijection
  <2> QED BY <1>1, <2>2, FS_Bijection
<1>3. IsFiniteSet(MoreOf(l, r)) /\ BagCardinality(Others(r) (-) Others(l)) = Cardinality(MoreOf(l, r))
  <2>1. PICK B : B = More(l, r)
    OBVIOUS
  <2>2. PICK D : D = DOMAIN B
    OBVIOUS
  <2>3. IsFiniteSet(D) /\ B \in [D -> Nat]
    BY <2>1, <2>2, MoreCopies, Zenon
  <2>4. IsFiniteSet(Copies(B, D)) /\ BagCardinality(B) = Cardinality(Copies(B, D))
    BY <2>3, CopiesFinite, BagCardinalityIsCopies
  <2> QED BY <2>1, <2>2, <2>4, Zenon DEF MoreOf, More
<1>4. /\ IsFiniteSet(NewHashKeys(l, r))
      /\ Cardinality(NewHashKeys(l, r)) = Cardinality(MoreOf(l, r))
  <2>1. g \in Bijection(MoreOf(l, r), NewHashKeys(l, r))
    <3>1. g \in [MoreOf(l, r) -> NewHashKeys(l, r)]
      BY DEF NewHashKeys
    <3>2. ASSUME NEW p \in MoreOf(l, r), NEW q \in MoreOf(l, r), g[p] = g[q]
          PROVE  p = q
      <4>1. p[1] = q[1] /\ p[2] + Count(l, p[1]) = q[2] + Count(l, q[1])
        BY <3>2, KeysDiffer
      <4>2. p = <<p[1], p[2]>> /\ q = <<q[1], q[2]>>
        BY MoreOfAre
      <4>3. p[2] \in Int /\ q[2] \in Int /\ Count(l, p[1]) \in Nat
        <5>1. \A o \in MoreOf(l, r) : o[2] \in Nat
          BY DEF MoreOf, Copies
        <5> QED BY <5>1, Counts
      <4>4. p[2] = q[2]
        <5>1. PICK c : c = Count(l, p[1])
          OBVIOUS
        <5>2. p[2] + c = q[2] + c /\ c \in Nat
          BY <4>1, <4>3, <5>1
        <5> QED BY <4>3, <5>2
      <4> QED BY <4>1, <4>2, <4>4
    <3>3. \A k \in NewHashKeys(l, r) : \E p \in MoreOf(l, r) : g[p] = k
      BY DEF NewHashKeys
    <3> HIDE DEF g
    <3> QED BY <3>1, <3>2, <3>3 DEF Bijection, Injection, Surjection, IsInjective
  <2> HIDE DEF g
  <2>2. ExistsBijection(MoreOf(l, r), NewHashKeys(l, r))
    BY <2>1 DEF ExistsBijection
  <2> QED BY <1>3, <2>2, FS_Bijection
<1>5. NewIdKeys(l, r) \cap NewHashKeys(l, r) = {}
  BY KeysDiffer DEF NewIdKeys, NewHashKeys
<1>6. Cardinality(NewIdKeys(l, r) \cup NewHashKeys(l, r)) =
         Cardinality(NewIdKeys(l, r)) + Cardinality(NewHashKeys(l, r)) - Cardinality({})
  BY <1>2, <1>4, <1>5, FS_Union
<1>7. Cardinality(ids) \in Nat /\ Cardinality(MoreOf(l, r)) \in Nat /\ Cardinality({}) = 0
  BY <1>1, <1>3, FS_CardinalityType, FS_EmptySet
<1>8. Cardinality(NewIdKeys(l, r) \cup NewHashKeys(l, r)) =
         Cardinality(ids) + Cardinality(MoreOf(l, r))
  <2>1. PICK a : a = Cardinality(ids)
    OBVIOUS
  <2>2. PICK b : b = Cardinality(MoreOf(l, r))
    OBVIOUS
  <2> HIDE DEF ids
  <2>3. Cardinality(NewIdKeys(l, r) \cup NewHashKeys(l, r)) = a + b - 0
        /\ a \in Nat /\ b \in Nat
    BY <1>2, <1>4, <1>6, <1>7, <2>1, <2>2, Zenon
  <2>4. a + b - 0 = a + b
    BY <2>3
  <2> QED BY <2>1, <2>2, <2>3, <2>4, Zenon
<1> QED BY <1>3, <1>8, NewKeys, Zenon

-----------------------------------------------------------------------------
(* What both lists have. *)

Distinct(s) == ~ HasDuplicates(s) /\ \A x, y \in IdsOf(s) : TextOf[x] = TextOf[y] => x = y

\* In a list without duplicates every record has a key of its own.
LEMMA KeyOnce ==
    ASSUME NEW X, NEW s \in Seq(X), Distinct(s), NEW i \in DOMAIN s, NEW j \in DOMAIN s,
           Key(s, i) = Key(s, j)
    PROVE  i = j
<1>1. CASE s[i].id # NoId
  <2>1. s[j].id # NoId
    BY <1>1, KeyForms, KeysDiffer
  <2>2. s[i].id \in IdsOf(s) /\ s[j].id \in IdsOf(s) /\ IdKey(s[i].id) = IdKey(s[j].id)
    BY <1>1, <2>1, KeyForms
  <2>3. s[i].id = s[j].id
    BY <2>2, KeysDiffer DEF Distinct
  <2> QED BY <1>1, <2>1, <2>3 DEF Distinct, HasDuplicates, Named
<1>2. CASE s[i].id = NoId
  <2>1. s[j].id = NoId
    BY <1>2, KeyForms, KeysDiffer
  <2>2. HashKey(s[i], Nth(s, i)) = HashKey(s[j], Nth(s, j))
    BY <1>2, <2>1, KeyForms
  <2>3. s[i] = s[j] /\ Nth(s, i) = Nth(s, j)
    BY <2>2, KeysDiffer
  <2>4. i \in Places(s, s[i]) /\ j \in Places(s, s[i])
    BY <2>3 DEF Places
  <2> QED BY <2>3, <2>4, NthIsOnto
<1> QED BY <1>1, <1>2

\* So the map holds under a key the record that has it.
LEMMA MapOf ==
    ASSUME NEW X, NEW s \in Seq(X), Distinct(s), NEW i \in DOMAIN s
    PROVE  RecordMap(s)[Key(s, i)] = s[i]
<1>1. DOMAIN s \subseteq Int
  BY PlacesFinite
<1>2. {j \in DOMAIN s : Key(s, j) = Key(s, i)} = {i}
  BY KeyOnce
<1>3. Max({i}) = i
  <2>1. i >= i
    BY <1>1
  <2>2. \A x \in {i} : (\A y \in {i} : x >= y) => x = i
    OBVIOUS
  <2> QED BY <2>1, <2>2 DEF Max
<1>4. Key(s, i) \in {Key(s, j) : j \in DOMAIN s}
  OBVIOUS
<1>5. RecordMap(s)[Key(s, i)] = s[Max({j \in DOMAIN s : Key(s, j) = Key(s, i)})]
  BY <1>4 DEF RecordMap
<1> QED BY <1>2, <1>3, <1>5

\* The record with an id is the one that the map holds under its key.
LEMMA WithIdOf ==
    ASSUME NEW X, NEW s \in Seq(X), Distinct(s), NEW x \in IdsOf(s)
    PROVE  RecordMap(s)[IdKey(x)] = WithId(s, x)
<1>1. PICK i : i = CHOOSE j \in Named(s) : s[j].id = x
  OBVIOUS
<1>2. \E j \in Named(s) : s[j].id = x
  BY DEF IdsOf
<1>3. i \in Named(s) /\ s[i].id = x
  BY <1>1, <1>2
<1>4. i \in DOMAIN s /\ s[i].id # NoId
  BY <1>3 DEF Named
<1>5. Key(s, i) = IdKey(x)
  BY <1>3, <1>4, KeyForms
<1>6. WithId(s, x) = s[i]
  BY <1>1 DEF WithId
<1> QED BY <1>4, <1>5, <1>6, MapOf

\* A record without an id is the same under one key in both lists.
LEMMA HashOf ==
    ASSUME NEW X, NEW s \in Seq(X), Distinct(s), NEW x \in Unnamed(s), NEW n \in 1..Count(s, x)
    PROVE  RecordMap(s)[HashKey(x, n)] = x
<1>1. Count(s, x) = Cardinality(Places(s, x)) /\ x.id = NoId
  BY Counts
<1>2. PICK i \in Places(s, x) : Nth(s, i) = n
  BY <1>1, NthIsOnto
<1>3. i \in DOMAIN s /\ s[i] = x
  BY DEF Places
<1>4. Key(s, i) = HashKey(x, n)
  BY <1>1, <1>2, <1>3, KeyForms
<1> QED BY <1>3, <1>4, MapOf

Changed(l, r) == {x \in IdsOf(l) \cap IdsOf(r) : WithId(l, x) # WithId(r, x)}
Both(l, r) == DOMAIN RecordMap(l) \cap DOMAIN RecordMap(r)
ChangedKeys(l, r) == {k \in Both(l, r) : RecordMap(l)[k] # RecordMap(r)[k]}

\* The keys that are changed are those of the ids whose records are.
LEMMA ChangedKeysAre ==
    ASSUME NEW X, NEW l \in Seq(X), NEW r \in Seq(X), Distinct(l), Distinct(r), DistinctTexts(l, r)
    PROVE  ChangedKeys(l, r) = {IdKey(x) : x \in Changed(l, r)}
<1>1. ASSUME NEW x \in Changed(l, r)
      PROVE  IdKey(x) \in ChangedKeys(l, r)
  <2>1. x \in IdsOf(l) /\ x \in IdsOf(r) /\ WithId(l, x) # WithId(r, x)
    BY DEF Changed
  <2>2. IdKey(x) \in DOMAIN RecordMap(l) /\ IdKey(x) \in DOMAIN RecordMap(r)
    BY <2>1, KeysOf
  <2>3. RecordMap(l)[IdKey(x)] = WithId(l, x) /\ RecordMap(r)[IdKey(x)] = WithId(r, x)
    BY <2>1, WithIdOf
  <2> QED BY <2>1, <2>2, <2>3 DEF ChangedKeys, Both
<1>2. ASSUME NEW k \in ChangedKeys(l, r)
      PROVE  \E x \in Changed(l, r) : k = IdKey(x)
  <2>1. k \in DOMAIN RecordMap(l) /\ k \in DOMAIN RecordMap(r) /\ RecordMap(l)[k] # RecordMap(r)[k]
    BY DEF ChangedKeys, Both
  <2>2. CASE \E x \in IdsOf(l) : k = IdKey(x)
    <3>1. PICK x \in IdsOf(l) : k = IdKey(x)
      BY <2>2
    <3>2. \A y \in Unnamed(r) : \A n \in 1..Count(r, y) : k # HashKey(y, n)
      BY <3>1, KeysDiffer
    <3>3. PICK y \in IdsOf(r) : k = IdKey(y)
      BY <2>1, <3>2, KeysOf
    <3>4. x = y
      <4>1. IdKey(x) = IdKey(y)
        BY <3>1, <3>3, Zenon
      <4>2. TextOf[x] = TextOf[y]
        BY <4>1, KeysDiffer, Zenon
      <4> QED BY <4>2 DEF DistinctTexts
    <3>5. WithId(l, x) # WithId(r, x)
      BY <2>1, <3>1, <3>3, <3>4, WithIdOf
    <3> QED BY <3>1, <3>3, <3>4, <3>5 DEF Changed
  <2>3. CASE \E x \in Unnamed(l) : \E n \in 1..Count(l, x) : k = HashKey(x, n)
    <3>1. PICK x \in Unnamed(l) : \E n \in 1..Count(l, x) : k = HashKey(x, n)
      BY <2>3
    <3>2. PICK n \in 1..Count(l, x) : k = HashKey(x, n)
      BY <3>1
    <3>3. \A y \in IdsOf(r) : k # IdKey(y)
      BY <3>2, KeysDiffer
    <3>4. PICK y \in Unnamed(r) : \E m \in 1..Count(r, y) : k = HashKey(y, m)
      BY <2>1, <3>3, KeysOf
    <3>5. PICK m \in 1..Count(r, y) : k = HashKey(y, m)
      BY <3>4
    <3>6. x = y
      <4>1. HashKey(x, n) = HashKey(y, m)
        BY <3>2, <3>5, Zenon
      <4>2. HashKey(x, n)[2] = x /\ HashKey(y, m)[2] = y
        BY DEF HashKey
      <4> QED BY <4>1, <4>2, Zenon
    <3>7. RecordMap(l)[k] = x /\ RecordMap(r)[k] = y
      BY <3>2, <3>5, HashOf
    <3> QED BY <2>1, <3>6, <3>7
  <2> QED BY <2>1, <2>2, <2>3, KeysOf
<1> QED BY <1>1, <1>2

\* They are as many.
LEMMA ChangedKeysCount ==
    ASSUME NEW X, NEW l \in Seq(X), NEW r \in Seq(X), Distinct(l), Distinct(r), DistinctTexts(l, r)
    PROVE  Cardinality(ChangedKeys(l, r)) = Cardinality(Changed(l, r))
<1> DEFINE f == [x \in Changed(l, r) |-> IdKey(x)]
<1>1. IsFiniteSet(Changed(l, r))
  <2>1. Changed(l, r) \subseteq IdsOf(l)
    BY DEF Changed
  <2> QED BY <2>1, FiniteLists, FS_Subset
<1>2. f \in [Changed(l, r) -> ChangedKeys(l, r)]
  BY ChangedKeysAre
<1>3. \A x, y \in Changed(l, r) : f[x] = f[y] => x = y
  BY KeysDiffer DEF DistinctTexts, Changed
<1>4. \A k \in ChangedKeys(l, r) : \E x \in Changed(l, r) : f[x] = k
  BY ChangedKeysAre
<1> HIDE DEF f
<1>5. f \in Bijection(Changed(l, r), ChangedKeys(l, r))
  BY <1>2, <1>3, <1>4 DEF Bijection, Injection, Surjection, IsInjective
<1>6. ExistsBijection(Changed(l, r), ChangedKeys(l, r))
  BY <1>5 DEF ExistsBijection
<1> QED BY <1>1, <1>6, FS_Bijection

-----------------------------------------------------------------------------
(* The theorem. *)

\* For all lists of records whose ids are distinct and print differently, what compare
\* counts as added, removed and changed is just that: no record without an id is taken
\* for another, and equal ones are counted.
THEOREM DifferenceExact ==
    ASSUME NEW X, NEW l \in Seq(X), NEW r \in Seq(X),
           ~ HasDuplicates(l), ~ HasDuplicates(r), DistinctTexts(l, r)
    PROVE  Difference(l, r) = TrueDifference(l, r)
<1>1. DistinctTexts(r, l) /\ Distinct(l) /\ Distinct(r)
  BY DEF DistinctTexts, Distinct
<1>2. Cardinality(DOMAIN RecordMap(r) \ Both(l, r)) =
         Cardinality(IdsOf(r) \ IdsOf(l)) + BagCardinality(Others(r) (-) Others(l))
  <2>1. DOMAIN RecordMap(r) \ Both(l, r) = DOMAIN RecordMap(r) \ DOMAIN RecordMap(l)
    BY DEF Both
  <2> QED BY <2>1, NewKeysCount, Zenon
<1>3. Cardinality(DOMAIN RecordMap(l) \ Both(l, r)) =
         Cardinality(IdsOf(l) \ IdsOf(r)) + BagCardinality(Others(l) (-) Others(r))
  <2>1. DOMAIN RecordMap(l) \ Both(l, r) = DOMAIN RecordMap(l) \ DOMAIN RecordMap(r)
    BY DEF Both
  <2> QED BY <1>1, <2>1, NewKeysCount, Zenon
<1>4. Cardinality(ChangedKeys(l, r)) = Cardinality(Changed(l, r))
  BY <1>1, ChangedKeysCount
<1>5. Difference(l, r) = [added   |-> Cardinality(DOMAIN RecordMap(r) \ Both(l, r)),
                          removed |-> Cardinality(DOMAIN RecordMap(l) \ Both(l, r)),
                          changed |-> Cardinality(ChangedKeys(l, r))]
  BY Zenon DEF Difference, Both, ChangedKeys
<1>6. TrueDifference(l, r) =
         [added   |-> Cardinality(IdsOf(r) \ IdsOf(l)) + BagCardinality(Others(r) (-) Others(l)),
          removed |-> Cardinality(IdsOf(l) \ IdsOf(r)) + BagCardinality(Others(l) (-) Others(r)),
          changed |-> Cardinality(Changed(l, r))]
  BY Zenon DEF TrueDifference, Changed
<1> QED BY <1>2, <1>3, <1>4, <1>5, <1>6, Zenon
=============================================================================
