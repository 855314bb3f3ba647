--------------------------- MODULE SnapshotProofs ---------------------------
(***************************************************************************)
(* The package snapshot, for all repositories and systems: what is         *)
(* searched is sorted, so every search is right (DichotomyProofs); every   *)
(* entry stands for a package that was read; the entries marked as         *)
(* installed are those of the system; files others require are provided;   *)
(* and every answer is exact.                                              *)
(*                                                                         *)
(* The heart is "says", the entries with every PkgId replaced by its name: *)
(* renumbering does not change it and sorting only permutes it.            *)
(***************************************************************************)
EXTENDS Snapshot, DichotomyProofs, FiniteSetTheorems, TLAPS

-----------------------------------------------------------------------------
(***************************************************************************)
(* Sets in order                                                           *)
(***************************************************************************)

StrictOrder(before, S) ==
  /\ \A x \in S : <<x, x>> \notin before
  /\ \A x, y, z \in S : <<x, y>> \in before /\ <<y, z>> \in before => <<x, z>> \in before
  /\ \A x, y \in S : x # y => <<x, y>> \in before \/ <<y, x>> \in before

Before(S, before, x) == {y \in S : <<y, x>> \in before}

\* Members of a set have different numbers of members before them.
LEMMA RanksDiffer ==
  ASSUME NEW S, IsFiniteSet(S), NEW before, StrictOrder(before, S),
         NEW x \in S, NEW y \in S, <<x, y>> \in before
  PROVE  Cardinality(Before(S, before, x)) < Cardinality(Before(S, before, y))
<1>1. Before(S, before, x) \subseteq Before(S, before, y)
  BY DEF Before, StrictOrder
<1>2. x \in Before(S, before, y) /\ x \notin Before(S, before, x)
  BY DEF Before, StrictOrder
<1>3. Before(S, before, y) \subseteq S /\ Before(S, before, x) \subseteq S
  BY DEF Before
<1>4. PICK A, B : A = Before(S, before, x) /\ B = Before(S, before, y)
  OBVIOUS
<1>5. IsFiniteSet(A) /\ IsFiniteSet(B)
  BY <1>3, <1>4, FS_Subset
<1>6. Cardinality(A) <= Cardinality(B) /\ (Cardinality(A) = Cardinality(B) => A = B)
  BY <1>1, <1>4, <1>5, FS_Subset
<1>7. Cardinality(A) \in Nat /\ Cardinality(B) \in Nat
  BY <1>5, FS_CardinalityType
<1>. QED BY <1>2, <1>4, <1>6, <1>7

\* So the numbers are 0, 1 and so on, each once.
LEMMA RanksAreAll ==
  ASSUME NEW S, IsFiniteSet(S), NEW before, StrictOrder(before, S)
  PROVE  /\ Cardinality(S) \in Nat
         /\ \A x \in S : Cardinality(Before(S, before, x)) \in 0 .. Cardinality(S) - 1
         /\ \A k \in 0 .. Cardinality(S) - 1 : \E x \in S : Cardinality(Before(S, before, x)) = k
         /\ \A x, y \in S : Cardinality(Before(S, before, x)) = Cardinality(Before(S, before, y)) => x = y
<1>. DEFINE n == Cardinality(S)
            rank == [x \in S |-> Cardinality(Before(S, before, x))]
<1>1. n \in Nat
  BY FS_CardinalityType
<1>2. ASSUME NEW x \in S PROVE rank[x] \in 0 .. n - 1
  <2>1. PICK A : A = Before(S, before, x)
    OBVIOUS
  <2>2. A \subseteq S /\ x \notin A
    BY <2>1 DEF Before, StrictOrder
  <2>3. IsFiniteSet(A) /\ Cardinality(A) <= n /\ (Cardinality(A) = n => S = A)
    BY <2>2, FS_Subset
  <2>4. Cardinality(A) \in Nat
    BY <2>3, FS_CardinalityType
  <2>. QED BY <1>1, <2>1, <2>2, <2>3, <2>4
<1>3. ASSUME NEW x \in S, NEW y \in S, rank[x] = rank[y] PROVE x = y
  <2>. SUFFICES ASSUME x # y PROVE FALSE
    OBVIOUS
  <2>1. <<x, y>> \in before \/ <<y, x>> \in before
    BY DEF StrictOrder
  <2>2. rank[x] < rank[y] \/ rank[y] < rank[x]
    BY <2>1, RanksDiffer
  <2>. QED BY <1>1, <1>2, <1>3, <2>2
<1>4. rank \in Injection(S, 0 .. n - 1)
  BY <1>2, <1>3 DEF Injection, IsInjective
<1>5. IsFiniteSet(0 .. n - 1) /\ Cardinality(0 .. n - 1) = n
  BY <1>1, FS_Interval
<1>6. rank \in Surjection(S, 0 .. n - 1)
  BY <1>4, <1>5, FS_Injection
<1>7. \A k \in 0 .. n - 1 : \E x \in S : rank[x] = k
  BY <1>6 DEF Surjection
<1>. QED BY <1>1, <1>2, <1>3, <1>7

\* Ordered() has every member once, in order.
LEMMA OrderedFacts ==
  ASSUME NEW S, IsFiniteSet(S), NEW before, StrictOrder(before, S)
  PROVE  /\ Cardinality(S) \in Nat
         /\ Ordered(S, before) \in [1 .. Cardinality(S) -> S]
         /\ \A x \in S : \E k \in 1 .. Cardinality(S) : Ordered(S, before)[k] = x
         /\ \A i, j \in 1 .. Cardinality(S) : i < j => <<Ordered(S, before)[i], Ordered(S, before)[j]>> \in before
<1>. DEFINE n == Cardinality(S)
            Rank(x) == Cardinality(Before(S, before, x))
            o == Ordered(S, before)
<1>1. /\ n \in Nat
      /\ \A x \in S : Rank(x) \in 0 .. n - 1
      /\ \A k \in 0 .. n - 1 : \E x \in S : Rank(x) = k
      /\ \A x, y \in S : Rank(x) = Rank(y) => x = y
  BY RanksAreAll
<1>2. o = [k \in 1 .. n |-> CHOOSE x \in S : Rank(x) = k - 1]
  BY DEF Ordered, Before
<1>3. ASSUME NEW k \in 1 .. n PROVE o[k] \in S /\ Rank(o[k]) = k - 1
  <2>1. \E x \in S : Rank(x) = k - 1
    BY <1>1
  <2>2. o[k] = CHOOSE x \in S : Rank(x) = k - 1
    BY <1>2
  <2>. HIDE DEF o, Rank
  <2>. QED BY <2>1, <2>2
<1>4. ASSUME NEW x \in S PROVE \E k \in 1 .. n : o[k] = x
  <2>1. PICK k \in 1 .. n : k = Rank(x) + 1
    BY <1>1
  <2>2. Rank(o[k]) = Rank(x) /\ o[k] \in S
    BY <1>1, <1>3, <2>1
  <2>. QED BY <1>1, <2>1, <2>2
<1>5. ASSUME NEW i \in 1 .. n, NEW j \in 1 .. n, i < j PROVE <<o[i], o[j]>> \in before
  <2>1. o[i] \in S /\ o[j] \in S /\ Rank(o[i]) < Rank(o[j])
    BY <1>1, <1>3, <1>5
  <2>2. o[i] # o[j]
    BY <1>1, <2>1
  <2>3. ASSUME <<o[j], o[i]>> \in before PROVE FALSE
    <3>1. Rank(o[j]) < Rank(o[i])
      BY <2>1, <2>3, RanksDiffer
    <3>. QED BY <1>1, <2>1, <3>1
  <2>. QED BY <2>1, <2>2, <2>3 DEF StrictOrder
<1>. QED BY <1>1, <1>2, <1>3, <1>4, <1>5

\* Numbers in ascending order.
LEMMA AscendingFacts ==
  ASSUME NEW S \in SUBSET Int, IsFiniteSet(S)
  PROVE  /\ Cardinality(S) \in Nat
         /\ Ascending(S) \in [1 .. Cardinality(S) -> S]
         /\ \A x \in S : \E k \in 1 .. Cardinality(S) : Ascending(S)[k] = x
         /\ \A i, j \in 1 .. Cardinality(S) : i < j => Ascending(S)[i] < Ascending(S)[j]
<1>1. \A x, y \in S : <<x, y>> \in Less(S) <=> x < y
  BY DEF Less
<1>2. StrictOrder(Less(S), S)
  BY <1>1 DEF StrictOrder
<1>3. PICK before : before = Less(S)
  OBVIOUS
<1>4. PICK a : a = Ordered(S, before)
  OBVIOUS
<1>5. /\ Cardinality(S) \in Nat
      /\ a \in [1 .. Cardinality(S) -> S]
      /\ \A x \in S : \E k \in 1 .. Cardinality(S) : a[k] = x
      /\ \A i, j \in 1 .. Cardinality(S) : i < j => <<a[i], a[j]>> \in before
  BY <1>2, <1>3, <1>4, OrderedFacts
<1>6. ASSUME NEW i \in 1 .. Cardinality(S), NEW j \in 1 .. Cardinality(S), i < j
      PROVE  a[i] < a[j]
  <2>1. a[i] \in S /\ a[j] \in S /\ <<a[i], a[j]>> \in Less(S)
    BY <1>3, <1>5, <1>6
  <2>. QED BY <1>1, <2>1
<1>7. Ascending(S) = a
  BY <1>3, <1>4 DEF Ascending
<1>. QED BY <1>5, <1>6, <1>7

\* Some number of a set of naturals is the least.
LEMMA LeastExists ==
  ASSUME NEW S \in SUBSET Nat, S # {}
  PROVE  \E m \in S : \A k \in S : m <= k
<1>1. IsWellFoundedOn(OpToRel(<, Nat), Nat)
  BY NatLessThanWellFounded
<1>2. PICK R : R = OpToRel(<, Nat)
  OBVIOUS
<1>3. \E m \in S : \A k \in S : ~ (<<k, m>> \in R)
  BY <1>1, <1>2, WFMin
<1>4. PICK m \in S : \A k \in S : <<k, m>> \notin R
  BY <1>3
<1>5. \A k \in S : ~ (k < m)
  BY <1>2, <1>4 DEF OpToRel
<1>. QED BY <1>4, <1>5

LEMMA FunctionIsSeq ==
  ASSUME NEW T, NEW n \in Nat, NEW f \in [1 .. n -> T]
  PROVE  f \in Seq(T) /\ Len(f) = n
  OBVIOUS

LEMMA InRange ==
  ASSUME NEW T, NEW s \in Seq(T), NEW i \in 1 .. Len(s)
  PROVE  s[i] \in Range(s)
<1>1. i \in DOMAIN s
  OBVIOUS
<1>. QED BY <1>1 DEF Range

\* No name is there twice.
NoTwice(s) == \A i, j \in 1 .. Len(s) : s[i] = s[j] => i = j

LEMMA SortedNamesFacts ==
  ASSUME NEW S \in SUBSET Int, IsFiniteSet(S)
  PROVE  /\ Ascending(S) \in Seq(Int)
         /\ Len(Ascending(S)) = Cardinality(S)
         /\ Range(Ascending(S)) = S
         /\ NoTwice(Ascending(S))
         /\ Sorted(Ascending(S))
<1>. DEFINE a == Ascending(S)
<1>1. /\ Cardinality(S) \in Nat
      /\ a \in [1 .. Cardinality(S) -> S]
      /\ \A x \in S : \E k \in 1 .. Cardinality(S) : a[k] = x
      /\ \A i, j \in 1 .. Cardinality(S) : i < j => a[i] < a[j]
  BY AscendingFacts
<1>. HIDE DEF a
<1>2. a \in Seq(Int) /\ Len(a) = Cardinality(S)
  <2>1. a \in [1 .. Cardinality(S) -> Int]
    BY <1>1
  <2>. QED BY <1>1, <2>1, FunctionIsSeq
<1>3. Range(a) = S
  BY <1>1 DEF Range
<1>4. NoTwice(a) /\ Sorted(a)
  <2>. SUFFICES ASSUME NEW i \in 1 .. Len(a), NEW j \in 1 .. Len(a)
                PROVE  (a[i] = a[j] => i = j) /\ (i <= j => a[i] <= a[j])
    BY DEF NoTwice, Sorted
  <2>1. a[i] \in Int /\ a[j] \in Int
    BY <1>2
  <2>. QED BY <1>1, <1>2, <2>1
<1>. QED BY <1>2, <1>3, <1>4 DEF a

\* SelectAt() takes what is at the positions, in order.
LEMMA SelectAtFacts ==
  ASSUME NEW T, NEW s \in Seq(T), NEW places \in SUBSET (1 .. Len(s))
  PROVE  /\ SelectAt(s, places) \in Seq(T)
         /\ \A k \in 1 .. Len(SelectAt(s, places)) :
              Ascending(places)[k] \in places /\ SelectAt(s, places)[k] = s[Ascending(places)[k]]
         /\ \A i \in places : \E k \in 1 .. Len(SelectAt(s, places)) :
              Ascending(places)[k] = i /\ SelectAt(s, places)[k] = s[i]
         /\ \A i, j \in 1 .. Len(SelectAt(s, places)) :
              i < j => Ascending(places)[i] < Ascending(places)[j]
<1>. DEFINE a == Ascending(places)
            t == SelectAt(s, places)
<1>1. IsFiniteSet(places) /\ places \in SUBSET Int
  <2>1. IsFiniteSet(1 .. Len(s))
    BY FS_Interval
  <2>2. IsFiniteSet(places)
    BY <2>1, FS_Subset
  <2>. QED BY <2>2
<1>2. /\ Cardinality(places) \in Nat
      /\ a \in [1 .. Cardinality(places) -> places]
      /\ \A x \in places : \E k \in 1 .. Cardinality(places) : a[k] = x
      /\ \A i, j \in 1 .. Cardinality(places) : i < j => a[i] < a[j]
  BY <1>1, AscendingFacts
<1>3. t = [k \in 1 .. Cardinality(places) |-> s[a[k]]]
  BY DEF SelectAt
<1>. HIDE DEF a, t
<1>4. t \in [1 .. Cardinality(places) -> T]
  <2>1. ASSUME NEW k \in 1 .. Cardinality(places) PROVE s[a[k]] \in T
    <3>1. a[k] \in 1 .. Len(s)
      BY <1>2
    <3>. QED BY <3>1
  <2>. QED BY <1>3, <2>1
<1>5. t \in Seq(T) /\ Len(t) = Cardinality(places)
  BY <1>2, <1>4, FunctionIsSeq
<1>6. \A k \in 1 .. Len(t) : a[k] \in places /\ t[k] = s[a[k]]
  BY <1>2, <1>3, <1>5
<1>. QED BY <1>2, <1>5, <1>6 DEF a, t

-----------------------------------------------------------------------------
(***************************************************************************)
(* Names and their places                                                  *)
(***************************************************************************)

\* s is the beginning of t.
Begins(s, t) == Len(s) <= Len(t) /\ \A i \in 1 .. Len(s) : t[i] = s[i]

\* A registered name has one PkgId, and the PkgId leads back to it.
LEMMA IdOfFacts ==
  ASSUME NEW names \in Seq(Int), NoTwice(names), NEW n \in Range(names)
  PROVE  IdOf(names, n) \in 0 .. Len(names) - 1 /\ names[IdOf(names, n) + 1] = n
<1>1. \E i \in DOMAIN names : names[i] = n
  BY DEF Range
<1>2. PICK c : c = CHOOSE i \in DOMAIN names : names[i] = n
  OBVIOUS
<1>3. c \in DOMAIN names /\ names[c] = n
  BY <1>1, <1>2
<1>4. IdOf(names, n) = c - 1
  BY <1>2 DEF IdOf
<1>5. c \in 1 .. Len(names)
  BY <1>3
<1>. QED BY <1>3, <1>4, <1>5

ArePicked(picked, s, places) ==
  /\ picked \in Seq(Int)
  /\ \A k \in 1 .. Len(picked) : Ascending(places)[k] \in places /\ picked[k] = s[Ascending(places)[k]]
  /\ \A i \in places : \E k \in 1 .. Len(picked) : Ascending(places)[k] = i /\ picked[k] = s[i]

LEMMA SelectedNumbers ==
  ASSUME NEW s \in Seq(Int), NEW places \in SUBSET (1 .. Len(s))
  PROVE  ArePicked(SelectAt(s, places), s, places)
<1>1. /\ SelectAt(s, places) \in Seq(Int)
      /\ \A k \in 1 .. Len(SelectAt(s, places)) :
           Ascending(places)[k] \in places /\ SelectAt(s, places)[k] = s[Ascending(places)[k]]
      /\ \A i \in places : \E k \in 1 .. Len(SelectAt(s, places)) :
           Ascending(places)[k] = i /\ SelectAt(s, places)[k] = s[i]
  BY SelectAtFacts
<1>. QED BY <1>1 DEF ArePicked

\* Registration leaves every known name at its place and forgets none.
LEMMA RegisteredFacts ==
  ASSUME NEW names \in Seq(Int), NoTwice(names), NEW more \in Seq(Int)
  PROVE  /\ Registered(names, more) \in Seq(Int)
         /\ NoTwice(Registered(names, more))
         /\ Begins(names, Registered(names, more))
         /\ \A i \in 1 .. Len(more) : more[i] \in Range(Registered(names, more))
<1>. DEFINE places == {i \in DOMAIN more : more[i] \notin Range(names) /\ \A j \in 1 .. i - 1 : more[j] # more[i]}
            new == SelectAt(more, places)
            reg == Registered(names, more)
<1>1. places \in SUBSET (1 .. Len(more))
  OBVIOUS
<1>2. \A i \in places : more[i] \notin Range(names) /\ \A j \in 1 .. i - 1 : more[j] # more[i]
  OBVIOUS
<1>3. reg = names \o new
  BY DEF Registered
<1>4. ASSUME NEW i \in 1 .. Len(more), more[i] \notin Range(names)
      PROVE  \E j \in places : more[j] = more[i]
  <2>. DEFINE equal == {j \in 1 .. Len(more) : more[j] = more[i]}
  <2>1. equal \in SUBSET Nat /\ equal # {}
    OBVIOUS
  <2>. HIDE DEF equal
  <2>2. PICK j \in equal : \A k \in equal : j <= k
    BY <2>1, LeastExists
  <2>3. j \in 1 .. Len(more) /\ more[j] = more[i]
    BY DEF equal
  <2>4. ASSUME NEW k \in 1 .. j - 1 PROVE more[k] # more[j]
    <3>. SUFFICES ASSUME more[k] = more[j] PROVE FALSE
      OBVIOUS
    <3>1. k \in equal
      BY <2>3 DEF equal
    <3>. QED BY <2>2, <2>3, <3>1
  <2>. QED BY <1>4, <2>3, <2>4
<1>. HIDE DEF places
<1>5. /\ new \in Seq(Int)
      /\ \A k \in 1 .. Len(new) : Ascending(places)[k] \in places /\ new[k] = more[Ascending(places)[k]]
      /\ \A i \in places : \E k \in 1 .. Len(new) : Ascending(places)[k] = i /\ new[k] = more[i]
      /\ \A i, j \in 1 .. Len(new) : i < j => Ascending(places)[i] < Ascending(places)[j]
  BY <1>1, SelectAtFacts
<1>. HIDE DEF new, reg
<1>6. reg \in Seq(Int) /\ Len(reg) = Len(names) + Len(new)
  BY <1>3, <1>5
<1>7. \A i \in 1 .. Len(names) : reg[i] = names[i]
  BY <1>3, <1>5
<1>8. \A k \in 1 .. Len(new) : reg[Len(names) + k] = new[k]
  BY <1>3, <1>5
<1>9. ASSUME NEW i \in 1 .. Len(new), NEW j \in 1 .. Len(new), i < j PROVE new[i] # new[j]
  <2>1. PICK a, b : a = Ascending(places)[i] /\ b = Ascending(places)[j]
    OBVIOUS
  <2>2. a \in places /\ b \in places /\ a < b /\ new[i] = more[a] /\ new[j] = more[b]
    BY <1>5, <1>9, <2>1
  <2>3. a \in 1 .. b - 1
    BY <1>1, <2>2
  <2>. QED BY <1>2, <2>2, <2>3
<1>10. NoTwice(reg)
  <2>1. ASSUME NEW i \in 1 .. Len(reg), NEW j \in 1 .. Len(reg), i < j PROVE reg[i] # reg[j]
    <3>0. Len(names) \in Nat /\ Len(new) \in Nat /\ Len(reg) = Len(names) + Len(new)
      BY <1>5, <1>6
    <3>1. CASE j <= Len(names)
      <4>1. i \in 1 .. Len(names) /\ j \in 1 .. Len(names) /\ i # j
        BY <2>1, <3>0, <3>1
      <4>2. reg[i] = names[i] /\ reg[j] = names[j]
        BY <1>7, <4>1
      <4>. QED BY <4>1, <4>2 DEF NoTwice
    <3>2. CASE i <= Len(names) /\ ~ (j <= Len(names))
      <4>1. PICK k \in 1 .. Len(new) : j = Len(names) + k
        <5>1. j - Len(names) \in 1 .. Len(new) /\ j = Len(names) + (j - Len(names))
          BY <3>0, <3>2
        <5>. QED BY <5>1
      <4>2. new[k] \notin Range(names)
        BY <1>2, <1>5
      <4>3. reg[i] \in Range(names)
        <5>1. i \in DOMAIN names /\ reg[i] = names[i]
          BY <1>7, <2>1, <3>0, <3>2
        <5>. QED BY <5>1 DEF Range
      <4>. QED BY <1>8, <4>1, <4>2, <4>3
    <3>3. CASE ~ (i <= Len(names))
      <4>1. PICK k \in 1 .. Len(new), m \in 1 .. Len(new) : i = Len(names) + k /\ j = Len(names) + m
        <5>1. /\ j - Len(names) \in 1 .. Len(new) /\ j = Len(names) + (j - Len(names))
              /\ i - Len(names) \in 1 .. Len(new) /\ i = Len(names) + (i - Len(names))
          BY <2>1, <3>0, <3>3
        <5>. QED BY <5>1
      <4>. QED BY <1>5, <1>8, <1>9, <2>1, <4>1
    <3>. QED BY <1>6, <2>1, <3>1, <3>2, <3>3
  <2>. QED BY <1>6, <2>1 DEF NoTwice
<1>11. ASSUME NEW i \in 1 .. Len(more) PROVE more[i] \in Range(reg)
  <2>1. CASE more[i] \in Range(names)
    <3>1. PICK k \in 1 .. Len(names) : names[k] = more[i]
      BY <2>1 DEF Range
    <3>2. k \in 1 .. Len(reg) /\ reg[k] = more[i]
      BY <1>5, <1>6, <1>7, <3>1
    <3>3. k \in DOMAIN reg
      BY <1>6, <3>2
    <3>. QED BY <3>2, <3>3 DEF Range
  <2>2. CASE more[i] \notin Range(names)
    <3>1. PICK j \in places : more[j] = more[i]
      BY <1>4, <2>2
    <3>2. PICK k \in 1 .. Len(new) : new[k] = more[j]
      BY <1>5
    <3>3. Len(names) + k \in 1 .. Len(reg) /\ reg[Len(names) + k] = more[i]
      <4>1. Len(names) \in Nat /\ Len(new) \in Nat
        BY <1>5
      <4>2. Len(names) + k \in 1 .. Len(reg)
        BY <1>6, <4>1
      <4>3. reg[Len(names) + k] = new[k]
        BY <1>8
      <4>4. new[k] = more[i]
        BY <3>1, <3>2
      <4>. QED BY <4>2, <4>3, <4>4
    <3>4. PICK x : x = Len(names) + k
      OBVIOUS
    <3>5. x \in DOMAIN reg /\ reg[x] = more[i]
      BY <1>6, <3>3, <3>4
    <3>. QED BY <3>5 DEF Range
  <2>. QED BY <2>1, <2>2
<1>12. Begins(names, reg)
  BY <1>5, <1>6, <1>7 DEF Begins
<1>. QED BY <1>6, <1>10, <1>11, <1>12 DEF reg

\* The same entries at other places.
IsOrderOf(o, new, old) ==
  /\ o \in [1 .. Len(old) -> 1 .. Len(old)]
  /\ \A i \in 1 .. Len(old) : new[i] = old[o[i]]
  /\ \A i \in 1 .. Len(old) : \E k \in 1 .. Len(old) : o[k] = i
  /\ \A i, j \in 1 .. Len(old) : o[i] = o[j] => i = j

Permuted(new, old) == \E o : IsOrderOf(o, new, old)

IdsInOrder(entries) == \A i, j \in 1 .. Len(entries) : i < j => entries[i].pkgId <= entries[j].pkgId

\* std::sort: the same items at other positions, by PkgId.
LEMMA SortingsFacts ==
  ASSUME NEW T, NEW s \in Seq(T), NEW t \in Sortings(s)
  PROVE  /\ t \in Seq(T) /\ Len(t) = Len(s)
         /\ IdsInOrder(t)
         /\ Permuted(t, s)
<1>. DEFINE D == 1 .. Len(s)
<1>1. DOMAIN s = D /\ Len(s) \in Nat
  OBVIOUS
<1>2. PICK o \in [D -> D] :
        /\ Range(o) = D
        /\ \A i, j \in D : i < j => s[o[i]].pkgId <= s[o[j]].pkgId
        /\ t = [i \in D |-> s[o[i]]]
  BY <1>1 DEF Sortings
<1>3. o \in [D -> D] /\ \A w \in D : \E v \in D : o[v] = w
  BY <1>2 DEF Range
<1>4. t \in [D -> T]
  <2>1. ASSUME NEW i \in D PROVE s[o[i]] \in T
    <3>1. o[i] \in D
      BY <1>3
    <3>. QED BY <3>1
  <2>. QED BY <1>2, <2>1
<1>5. t \in Seq(T) /\ Len(t) = Len(s)
  BY <1>1, <1>4, FunctionIsSeq
<1>6. \A i, j \in D : o[i] = o[j] => i = j
  <2>1. o \in Surjection(D, D)
    BY <1>3 DEF Surjection
  <2>2. IsFiniteSet(D)
    BY <1>1, FS_Interval
  <2>3. o \in Injection(D, D)
    BY <2>1, <2>2, FS_Surjection
  <2>. QED BY <2>3 DEF Injection, IsInjective
<1>7. \A i \in D : t[i] = s[o[i]]
  BY <1>2
<1>8. \A i, j \in D : i < j => t[i].pkgId <= t[j].pkgId
  BY <1>2, <1>7
<1>9. IsOrderOf(o, t, s)
  BY <1>3, <1>6, <1>7 DEF IsOrderOf
<1>. QED BY <1>5, <1>8, <1>9 DEF IdsInOrder, Permuted

-----------------------------------------------------------------------------
(***************************************************************************)
(* What an entry says: its numbers replaced by names                       *)
(***************************************************************************)

RelationType == [pkgId : Nat, ver : Nat]

WellRelated(names, rels) ==
  rels \in Seq(RelationType) /\ \A i \in 1 .. Len(rels) : rels[i].pkgId < Len(names)

WellPlaced(p, names, rels) ==
  /\ p \in PkgType
  /\ p.pkgId < Len(names)
  /\ p.requires.pos + p.requires.count <= Len(rels)
  /\ p.provides.pos + p.provides.count <= Len(rels)

\* The relations of a span, by name.
Read(names, rels, span) ==
  [k \in 1 .. span.count |->
    [name |-> names[rels[span.pos + k].pkgId + 1], ver |-> rels[span.pos + k].ver]]

Reading(names, rels, p) ==
  [ name |-> names[p.pkgId + 1], ver |-> p.ver, installed |-> p.installed,
    requires |-> Read(names, rels, p.requires), provides |-> Read(names, rels, p.provides) ]

SpanType == [pos : Nat, count : Nat]

LEMMA PkgFacts ==
  ASSUME NEW p \in PkgType
  PROVE  /\ p.pkgId \in Nat /\ p.ver \in Nat /\ p.installed \in BOOLEAN
         /\ p.requires \in SpanType /\ p.provides \in SpanType
  BY DEF PkgType, SpanType

LEMMA RelationFacts ==
  ASSUME NEW names \in Seq(Int), NEW rels, WellRelated(names, rels), NEW i \in 1 .. Len(rels)
  PROVE  /\ rels[i] \in RelationType
         /\ rels[i].pkgId \in Nat /\ rels[i].ver \in Nat
         /\ rels[i].pkgId + 1 \in 1 .. Len(names)
         /\ names[rels[i].pkgId + 1] \in Int
<1>1. rels[i] \in RelationType /\ rels[i].pkgId < Len(names)
  BY DEF WellRelated
<1>2. rels[i].pkgId \in Nat /\ rels[i].ver \in Nat
  BY <1>1 DEF RelationType
<1>3. rels[i].pkgId + 1 \in 1 .. Len(names)
  BY <1>1, <1>2
<1>. QED BY <1>1, <1>2, <1>3

LEMMA ReadIsTyped ==
  ASSUME NEW names \in Seq(Int), NEW rels, WellRelated(names, rels),
         NEW span \in SpanType, span.pos + span.count <= Len(rels)
  PROVE  Read(names, rels, span) \in Seq(RelType) /\ Len(Read(names, rels, span)) = span.count
<1>1. rels \in Seq(RelationType) /\ \A i \in 1 .. Len(rels) : rels[i].pkgId < Len(names)
  BY DEF WellRelated
<1>2. span.pos \in Nat /\ span.count \in Nat
  BY DEF SpanType
<1>3. ASSUME NEW k \in 1 .. span.count
      PROVE  [name |-> names[rels[span.pos + k].pkgId + 1], ver |-> rels[span.pos + k].ver] \in RelType
  <2>1. PICK i \in 1 .. Len(rels) : i = span.pos + k
    BY <1>1, <1>2
  <2>2. rels[i].pkgId \in Nat /\ rels[i].ver \in Nat /\ rels[i].pkgId + 1 \in 1 .. Len(names)
    BY RelationFacts
  <2>3. names[rels[i].pkgId + 1] \in Int
    BY <2>2
  <2>. QED BY <2>1, <2>2, <2>3 DEF RelType
<1>4. Read(names, rels, span) \in [1 .. span.count -> RelType]
  BY <1>3 DEF Read
<1>. QED BY <1>2, <1>4, FunctionIsSeq

\* More names and relations behind the old ones change no entry.
LEMMA ReadStays ==
  ASSUME NEW names \in Seq(Int), NEW rels, WellRelated(names, rels),
         NEW names2 \in Seq(Int), NEW rels2, WellRelated(names2, rels2),
         Begins(names, names2), Begins(rels, rels2),
         NEW span \in SpanType, span.pos + span.count <= Len(rels)
  PROVE  Read(names2, rels2, span) = Read(names, rels, span)
<1>1. ASSUME NEW k \in 1 .. span.count
      PROVE  /\ rels2[span.pos + k] = rels[span.pos + k]
             /\ names2[rels[span.pos + k].pkgId + 1] = names[rels[span.pos + k].pkgId + 1]
  <2>1. PICK i \in 1 .. Len(rels) : i = span.pos + k
    BY DEF WellRelated, SpanType
  <2>2. rels[i].pkgId \in Nat /\ rels[i].pkgId + 1 \in 1 .. Len(names)
    BY RelationFacts
  <2>. QED BY <2>1, <2>2 DEF Begins
<1>. QED BY <1>1 DEF Read

LEMMA ReadingStays ==
  ASSUME NEW names \in Seq(Int), NEW rels, WellRelated(names, rels),
         NEW names2 \in Seq(Int), NEW rels2, WellRelated(names2, rels2),
         Begins(names, names2), Begins(rels, rels2), NEW p, WellPlaced(p, names, rels)
  PROVE  WellPlaced(p, names2, rels2) /\ Reading(names2, rels2, p) = Reading(names, rels, p)
<1>1. /\ p \in PkgType /\ p.pkgId < Len(names)
      /\ p.requires.pos + p.requires.count <= Len(rels)
      /\ p.provides.pos + p.provides.count <= Len(rels)
  BY DEF WellPlaced
<1>2. p.pkgId \in Nat /\ p.requires \in SpanType /\ p.provides \in SpanType
  BY <1>1, PkgFacts
<1>3. Len(names) <= Len(names2) /\ Len(rels) <= Len(rels2) /\ Len(rels) \in Nat /\ Len(rels2) \in Nat
  BY DEF Begins, WellRelated
<1>4. WellPlaced(p, names2, rels2)
  <2>1. p.pkgId < Len(names2)
    BY <1>1, <1>2, <1>3
  <2>2. /\ p.requires.pos \in Nat /\ p.requires.count \in Nat
        /\ p.provides.pos \in Nat /\ p.provides.count \in Nat
    BY <1>2 DEF SpanType
  <2>. QED BY <1>1, <1>3, <2>1, <2>2 DEF WellPlaced
<1>5. names2[p.pkgId + 1] = names[p.pkgId + 1]
  <2>1. p.pkgId + 1 \in 1 .. Len(names)
    BY <1>1, <1>2
  <2>. QED BY <2>1 DEF Begins
<1>6. PICK a, b : a = p.requires /\ b = p.provides
  OBVIOUS
<1>7. Read(names2, rels2, a) = Read(names, rels, a) /\ Read(names2, rels2, b) = Read(names, rels, b)
  BY <1>1, <1>2, <1>6, ReadStays
<1>. QED BY <1>4, <1>5, <1>6, <1>7 DEF Reading

\* rearrangeNames(): with the names at other places and every PkgId replaced
\* by the new one of its name, relations and entries say the same.
Renumbered(names, names2, records) ==
  [i \in DOMAIN records |-> [records[i] EXCEPT !.pkgId = IdOf(names2, names[records[i].pkgId + 1])]]

LEMMA RenumberedRelations ==
  ASSUME NEW names \in Seq(Int), NEW rels, WellRelated(names, rels),
         NEW names2 \in Seq(Int), NoTwice(names2), Range(names) \subseteq Range(names2),
         NEW rels2, rels2 = Renumbered(names, names2, rels)
  PROVE  /\ WellRelated(names2, rels2)
         /\ Len(rels2) = Len(rels)
         /\ \A i \in 1 .. Len(rels) :
              names2[rels2[i].pkgId + 1] = names[rels[i].pkgId + 1] /\ rels2[i].ver = rels[i].ver
<1>1. rels \in Seq(RelationType) /\ \A i \in 1 .. Len(rels) : rels[i].pkgId < Len(names)
  BY DEF WellRelated
<1>2. ASSUME NEW i \in 1 .. Len(rels)
      PROVE  /\ rels2[i] \in RelationType
             /\ rels2[i].pkgId < Len(names2)
             /\ names2[rels2[i].pkgId + 1] = names[rels[i].pkgId + 1]
             /\ rels2[i].ver = rels[i].ver
  <2>1. rels[i] \in RelationType /\ rels[i].pkgId + 1 \in 1 .. Len(names)
    BY RelationFacts
  <2>2. PICK n : n = names[rels[i].pkgId + 1]
    OBVIOUS
  <2>3. n \in Range(names2)
    BY <2>1, <2>2, InRange
  <2>4. IdOf(names2, n) \in 0 .. Len(names2) - 1 /\ names2[IdOf(names2, n) + 1] = n
    BY <2>3, IdOfFacts
  <2>5. rels2[i] = [rels[i] EXCEPT !.pkgId = IdOf(names2, n)]
    BY <1>1, <2>2 DEF Renumbered
  <2>6. rels2[i].pkgId = IdOf(names2, n) /\ rels2[i].ver = rels[i].ver
    BY <2>1, <2>5 DEF RelationType
  <2>7. rels2[i] \in RelationType
    <3>1. IdOf(names2, n) \in Nat
      BY <2>4
    <3>. QED BY <2>1, <2>5, <3>1 DEF RelationType
  <2>. QED BY <2>2, <2>4, <2>6, <2>7
<1>3. rels2 \in [1 .. Len(rels) -> RelationType]
  <2>1. DOMAIN rels = 1 .. Len(rels)
    BY <1>1
  <2>. QED BY <1>2, <2>1 DEF Renumbered
<1>4. rels2 \in Seq(RelationType) /\ Len(rels2) = Len(rels)
  <2>1. Len(rels) \in Nat
    BY <1>1
  <2>. QED BY <1>3, <2>1, FunctionIsSeq
<1>. QED BY <1>2, <1>4 DEF WellRelated

LEMMA RenumberedEntry ==
  ASSUME NEW names \in Seq(Int), NEW rels, WellRelated(names, rels),
         NEW names2 \in Seq(Int), NoTwice(names2), Range(names) \subseteq Range(names2),
         NEW rels2, rels2 = Renumbered(names, names2, rels),
         NEW p, WellPlaced(p, names, rels),
         NEW q, q = [p EXCEPT !.pkgId = IdOf(names2, names[p.pkgId + 1])]
  PROVE  WellPlaced(q, names2, rels2) /\ Reading(names2, rels2, q) = Reading(names, rels, p)
<1>1. /\ WellRelated(names2, rels2)
      /\ Len(rels2) = Len(rels)
      /\ \A i \in 1 .. Len(rels) :
           names2[rels2[i].pkgId + 1] = names[rels[i].pkgId + 1] /\ rels2[i].ver = rels[i].ver
  BY RenumberedRelations
<1>2. /\ p \in PkgType /\ p.pkgId < Len(names)
      /\ p.requires.pos + p.requires.count <= Len(rels)
      /\ p.provides.pos + p.provides.count <= Len(rels)
  BY DEF WellPlaced
<1>3. p.pkgId \in Nat /\ p.requires \in SpanType /\ p.provides \in SpanType
  BY <1>2, PkgFacts
<1>4. PICK n : n = names[p.pkgId + 1]
  OBVIOUS
<1>5. n \in Range(names2)
  <2>1. p.pkgId + 1 \in 1 .. Len(names)
    BY <1>2, <1>3
  <2>. QED BY <1>4, <2>1, InRange
<1>6. IdOf(names2, n) \in 0 .. Len(names2) - 1 /\ names2[IdOf(names2, n) + 1] = n
  BY <1>5, IdOfFacts
<1>7. PICK id \in Nat : id = IdOf(names2, n)
  BY <1>6
<1>8. /\ q \in PkgType /\ q.pkgId = id /\ q.ver = p.ver /\ q.installed = p.installed
      /\ q.requires = p.requires /\ q.provides = p.provides
  BY <1>2, <1>4, <1>7 DEF PkgType
<1>9. WellPlaced(q, names2, rels2)
  BY <1>1, <1>2, <1>6, <1>7, <1>8 DEF WellPlaced
<1>10. ASSUME NEW span \in SpanType, span.pos + span.count <= Len(rels)
       PROVE  Read(names2, rels2, span) = Read(names, rels, span)
  <2>1. ASSUME NEW k \in 1 .. span.count
        PROVE  /\ names2[rels2[span.pos + k].pkgId + 1] = names[rels[span.pos + k].pkgId + 1]
               /\ rels2[span.pos + k].ver = rels[span.pos + k].ver
    <3>1. PICK i \in 1 .. Len(rels) : i = span.pos + k
      BY <1>10 DEF WellRelated, SpanType
    <3>. QED BY <1>1, <3>1
  <2>. QED BY <2>1 DEF Read
<1>11. PICK a, b : a = p.requires /\ b = p.provides
  OBVIOUS
<1>12. Read(names2, rels2, a) = Read(names, rels, a) /\ Read(names2, rels2, b) = Read(names, rels, b)
  BY <1>2, <1>3, <1>10, <1>11
<1>. QED BY <1>4, <1>6, <1>7, <1>8, <1>9, <1>11, <1>12 DEF Reading

LEMMA JoinedFacts ==
  ASSUME NEW T, NEW s \in Seq(T), NEW t \in Seq(T)
  PROVE  /\ s \o t \in Seq(T)
         /\ Len(s) \in Nat /\ Len(t) \in Nat /\ Len(s \o t) = Len(s) + Len(t)
         /\ \A i \in 1 .. Len(s) : (s \o t)[i] = s[i]
         /\ \A k \in 1 .. Len(t) : (s \o t)[Len(s) + k] = t[k]
  OBVIOUS

\* Relations written by name are read by name.
AreWritten(names, rels, more, rels2) ==
  /\ WellRelated(names, rels2)
  /\ Begins(rels, rels2)
  /\ Len(rels2) = Len(rels) + Len(more)
  /\ \A k \in 1 .. Len(more) :
       names[rels2[Len(rels) + k].pkgId + 1] = more[k].name /\ rels2[Len(rels) + k].ver = more[k].ver

LEMMA WrittenRelations ==
  ASSUME NEW names \in Seq(Int), NoTwice(names), NEW rels, WellRelated(names, rels),
         NEW more \in Seq(RelType), \A k \in 1 .. Len(more) : more[k].name \in Range(names),
         NEW rels2, rels2 = rels \o ToRelations(names, more)
  PROVE  AreWritten(names, rels, more, rels2)
<1>. DEFINE new == ToRelations(names, more)
<1>1. ASSUME NEW k \in 1 .. Len(more)
      PROVE  /\ new[k] \in RelationType /\ new[k].pkgId < Len(names)
             /\ names[new[k].pkgId + 1] = more[k].name /\ new[k].ver = more[k].ver
  <2>1. more[k] \in RelType
    OBVIOUS
  <2>2. more[k].ver \in Nat
    BY <2>1 DEF RelType
  <2>3. PICK n : n = more[k].name
    OBVIOUS
  <2>4. IdOf(names, n) \in 0 .. Len(names) - 1 /\ names[IdOf(names, n) + 1] = n
    BY <2>3, IdOfFacts
  <2>5. new[k] = [pkgId |-> IdOf(names, n), ver |-> more[k].ver]
    BY <2>3 DEF ToRelations
  <2>6. IdOf(names, n) \in Nat /\ IdOf(names, n) < Len(names)
    BY <2>4
  <2>. QED BY <2>2, <2>3, <2>4, <2>5, <2>6 DEF RelationType
<1>2. DOMAIN more = 1 .. Len(more) /\ Len(more) \in Nat
  OBVIOUS
<1>3. new \in [1 .. Len(more) -> RelationType]
  BY <1>1, <1>2 DEF ToRelations
<1>. HIDE DEF new
<1>4. new \in Seq(RelationType) /\ Len(new) = Len(more)
  BY <1>2, <1>3, FunctionIsSeq
<1>5. rels \in Seq(RelationType) /\ \A i \in 1 .. Len(rels) : rels[i].pkgId < Len(names)
  BY DEF WellRelated
<1>6. rels2 = rels \o new
  BY DEF new
<1>60. /\ rels2 \in Seq(RelationType)
       /\ Len(rels) \in Nat /\ Len(new) \in Nat /\ Len(rels2) = Len(rels) + Len(new)
       /\ \A i \in 1 .. Len(rels) : rels2[i] = rels[i]
       /\ \A k \in 1 .. Len(new) : rels2[Len(rels) + k] = new[k]
  <2>1. rels \in Seq(RelationType) /\ new \in Seq(RelationType)
    BY <1>4, <1>5
  <2>. QED BY <1>6, <2>1, JoinedFacts
<1>7. rels2 \in Seq(RelationType) /\ Len(rels2) = Len(rels) + Len(more) /\ Len(rels) \in Nat
  BY <1>4, <1>60
<1>8. \A i \in 1 .. Len(rels) : rels2[i] = rels[i]
  BY <1>60
<1>9. \A k \in 1 .. Len(more) : rels2[Len(rels) + k] = new[k]
  BY <1>4, <1>60
<1>10. ASSUME NEW i \in 1 .. Len(rels2) PROVE rels2[i].pkgId < Len(names)
  <2>1. CASE i \in 1 .. Len(rels)
    BY <1>5, <1>8, <2>1
  <2>2. CASE i \notin 1 .. Len(rels)
    <3>1. i - Len(rels) \in 1 .. Len(more) /\ i = Len(rels) + (i - Len(rels))
      BY <1>2, <1>7, <2>2
    <3>2. PICK k \in 1 .. Len(more) : i = Len(rels) + k
      BY <3>1
    <3>. QED BY <1>1, <1>9, <3>2
  <2>. QED BY <2>1, <2>2
<1>11. Begins(rels, rels2)
  BY <1>2, <1>7, <1>8 DEF Begins
<1>. QED BY <1>1, <1>7, <1>9, <1>10, <1>11 DEF WellRelated, AreWritten

\* addNewPkg(): an entry at the end says what it was given.
EntryFor(names, name, ver, flag, want, pos1, offer, pos2) ==
  [ pkgId |-> IdOf(names, name), ver |-> ver, installed |-> flag,
    requires |-> [pos |-> pos1, count |-> Len(want)],
    provides |-> [pos |-> pos2, count |-> Len(offer)] ]

MayEnter(names, rels, name, ver, flag, want, pos1, offer, pos2) ==
  /\ names \in Seq(Int) /\ NoTwice(names) /\ WellRelated(names, rels)
  /\ name \in Range(names) /\ ver \in Nat /\ flag \in BOOLEAN
  /\ want \in Seq(RelType) /\ \A k \in 1 .. Len(want) : want[k].name \in Range(names)
  /\ offer \in Seq(RelType) /\ \A k \in 1 .. Len(offer) : offer[k].name \in Range(names)
  /\ pos1 \in Nat /\ pos1 <= Len(rels) /\ (Len(want) > 0 => pos1 = Len(rels))
  /\ pos2 \in Nat /\ pos2 <= Len(rels) + Len(want) /\ (Len(offer) > 0 => pos2 = Len(rels) + Len(want))

HasEntered(names, rels, rels2, name, ver, flag, want, offer, p) ==
  /\ WellRelated(names, rels2)
  /\ Begins(rels, rels2)
  /\ WellPlaced(p, names, rels2)
  /\ Reading(names, rels2, p) =
       [name |-> name, ver |-> ver, installed |-> flag, requires |-> want, provides |-> offer]

LEMMA NewEntry ==
  ASSUME NEW names, NEW rels, NEW name, NEW ver, NEW flag, NEW want, NEW pos1, NEW offer, NEW pos2,
         MayEnter(names, rels, name, ver, flag, want, pos1, offer, pos2)
  PROVE  HasEntered(names, rels, rels \o ToRelations(names, want \o offer), name, ver, flag, want, offer,
                    EntryFor(names, name, ver, flag, want, pos1, offer, pos2))
<1>0. /\ names \in Seq(Int) /\ NoTwice(names) /\ WellRelated(names, rels)
      /\ name \in Range(names) /\ ver \in Nat /\ flag \in BOOLEAN
      /\ want \in Seq(RelType) /\ \A k \in 1 .. Len(want) : want[k].name \in Range(names)
      /\ offer \in Seq(RelType) /\ \A k \in 1 .. Len(offer) : offer[k].name \in Range(names)
      /\ pos1 \in Nat /\ pos1 <= Len(rels) /\ (Len(want) > 0 => pos1 = Len(rels))
      /\ pos2 \in Nat /\ pos2 <= Len(rels) + Len(want) /\ (Len(offer) > 0 => pos2 = Len(rels) + Len(want))
  BY DEF MayEnter
<1>. PICK rels2 : rels2 = rels \o ToRelations(names, want \o offer)
  OBVIOUS
<1>. PICK p : p = EntryFor(names, name, ver, flag, want, pos1, offer, pos2)
  OBVIOUS
<1>1. PICK more \in Seq(RelType) : more = want \o offer
  BY <1>0, JoinedFacts
<1>2. /\ Len(want) \in Nat /\ Len(offer) \in Nat /\ Len(more) = Len(want) + Len(offer)
      /\ \A k \in 1 .. Len(want) : more[k] = want[k]
      /\ \A k \in 1 .. Len(offer) : more[Len(want) + k] = offer[k]
  BY <1>0, <1>1, JoinedFacts, SMTT(30)
<1>3. ASSUME NEW k \in 1 .. Len(more) PROVE more[k].name \in Range(names)
  <2>1. CASE k \in 1 .. Len(want)
    BY <1>0, <1>2, <2>1
  <2>2. CASE k \notin 1 .. Len(want)
    <3>1. k - Len(want) \in 1 .. Len(offer) /\ k = Len(want) + (k - Len(want))
      BY <1>2, <2>2
    <3>2. PICK i \in 1 .. Len(offer) : k = Len(want) + i
      BY <3>1
    <3>. QED BY <1>0, <1>2, <3>2
  <2>. QED BY <2>1, <2>2
<1>4. /\ WellRelated(names, rels2)
      /\ Begins(rels, rels2)
      /\ Len(rels2) = Len(rels) + Len(more)
      /\ \A k \in 1 .. Len(more) :
           names[rels2[Len(rels) + k].pkgId + 1] = more[k].name /\ rels2[Len(rels) + k].ver = more[k].ver
  <2>1. rels2 = rels \o ToRelations(names, more)
    BY <1>1
  <2>2. \A k \in 1 .. Len(more) : more[k].name \in Range(names)
    BY <1>3
  <2>3. AreWritten(names, rels, more, rels2)
    BY <1>0, <2>1, <2>2, WrittenRelations
  <2>. QED BY <2>3 DEF AreWritten
<1>5. Len(rels) \in Nat
  BY <1>0 DEF WellRelated
<1>6. IdOf(names, name) \in 0 .. Len(names) - 1 /\ names[IdOf(names, name) + 1] = name
  BY <1>0, IdOfFacts
<1>7. /\ p.pkgId = IdOf(names, name) /\ p.ver = ver /\ p.installed = flag
      /\ p.requires = [pos |-> pos1, count |-> Len(want)]
      /\ p.provides = [pos |-> pos2, count |-> Len(offer)]
      /\ p \in PkgType
  <2>1. IdOf(names, name) \in Nat
    BY <1>6
  <2>. QED BY <1>0, <1>2, <2>1 DEF PkgType, EntryFor
<1>8. WellPlaced(p, names, rels2)
  <2>1. pos1 + Len(want) <= Len(rels2)
    BY <1>0, <1>2, <1>4, <1>5
  <2>2. pos2 + Len(offer) <= Len(rels2)
    BY <1>0, <1>2, <1>4, <1>5
  <2>3. p.pkgId < Len(names)
    BY <1>6, <1>7
  <2>. QED BY <1>7, <2>1, <2>2, <2>3 DEF WellPlaced
<1>9. Read(names, rels2, [pos |-> pos1, count |-> Len(want)]) = want
  <2>1. ASSUME NEW k \in 1 .. Len(want)
        PROVE  [name |-> names[rels2[pos1 + k].pkgId + 1], ver |-> rels2[pos1 + k].ver] = want[k]
    <3>1. pos1 = Len(rels) /\ k \in 1 .. Len(more)
      BY <1>0, <1>2
    <3>2. want[k] \in RelType
      BY <1>0
    <3>. QED BY <1>2, <1>4, <3>1, <3>2 DEF RelType
  <2>2. want = [k \in 1 .. Len(want) |-> want[k]]
    BY <1>0
  <2>. QED BY <2>1, <2>2 DEF Read
<1>10. Read(names, rels2, [pos |-> pos2, count |-> Len(offer)]) = offer
  <2>1. ASSUME NEW k \in 1 .. Len(offer)
        PROVE  [name |-> names[rels2[pos2 + k].pkgId + 1], ver |-> rels2[pos2 + k].ver] = offer[k]
    <3>1. PICK m \in 1 .. Len(more) : m = Len(want) + k
      BY <1>2
    <3>2. pos2 + k = Len(rels) + m
      <4>1. pos2 = Len(rels) + Len(want)
        BY <1>0, <1>2
      <4>. QED BY <1>2, <1>5, <3>1, <4>1
    <3>3. offer[k] \in RelType /\ more[m] = offer[k]
      BY <1>0, <1>2, <3>1
    <3>. QED BY <1>4, <3>2, <3>3 DEF RelType
  <2>2. offer = [k \in 1 .. Len(offer) |-> offer[k]]
    BY <1>0
  <2>. QED BY <2>1, <2>2 DEF Read
<1>. QED BY <1>4, <1>6, <1>7, <1>8, <1>9, <1>10 DEF Reading, HasEntered

-----------------------------------------------------------------------------
(***************************************************************************)
(* A snapshot whose numbers all lead somewhere, and what it says           *)
(***************************************************************************)

Filled(names, rels, entries) ==
  /\ names \in Seq(Int) /\ NoTwice(names)
  /\ WellRelated(names, rels)
  /\ entries \in Seq(PkgType)
  /\ \A i \in 1 .. Len(entries) : WellPlaced(entries[i], names, rels)

Says(names, rels, entries) == [i \in 1 .. Len(entries) |-> Reading(names, rels, entries[i])]

ReadingType ==
  [name : Int, ver : Nat, installed : BOOLEAN, requires : Seq(RelType), provides : Seq(RelType)]

LEMMA SaysIsTyped ==
  ASSUME NEW names, NEW rels, NEW entries, Filled(names, rels, entries)
  PROVE  /\ Says(names, rels, entries) \in Seq(ReadingType)
         /\ Len(Says(names, rels, entries)) = Len(entries)
         /\ \A i \in 1 .. Len(entries) : Says(names, rels, entries)[i] = Reading(names, rels, entries[i])
<1>1. ASSUME NEW i \in 1 .. Len(entries) PROVE Reading(names, rels, entries[i]) \in ReadingType
  <2>1. PICK p : p = entries[i]
    OBVIOUS
  <2>2. WellPlaced(p, names, rels) /\ names \in Seq(Int) /\ WellRelated(names, rels)
    BY <2>1 DEF Filled
  <2>3. /\ p \in PkgType /\ p.pkgId < Len(names)
        /\ p.requires.pos + p.requires.count <= Len(rels)
        /\ p.provides.pos + p.provides.count <= Len(rels)
    BY <2>2 DEF WellPlaced
  <2>4. /\ p.pkgId \in Nat /\ p.ver \in Nat /\ p.installed \in BOOLEAN
        /\ p.requires \in SpanType /\ p.provides \in SpanType
    BY <2>3, PkgFacts
  <2>5. names[p.pkgId + 1] \in Int
    <3>1. p.pkgId + 1 \in 1 .. Len(names)
      BY <2>3, <2>4
    <3>. QED BY <2>2, <3>1
  <2>6. PICK a \in SpanType, b \in SpanType : a = p.requires /\ b = p.provides
    BY <2>4
  <2>7. Read(names, rels, a) \in Seq(RelType) /\ Read(names, rels, b) \in Seq(RelType)
    BY <2>2, <2>3, <2>6, ReadIsTyped
  <2>. QED BY <2>1, <2>4, <2>5, <2>6, <2>7 DEF Reading, ReadingType
<1>2. Len(entries) \in Nat
  BY DEF Filled
<1>3. Says(names, rels, entries) \in [1 .. Len(entries) -> ReadingType]
  BY <1>1 DEF Says
<1>4. \A i \in 1 .. Len(entries) : Says(names, rels, entries)[i] = Reading(names, rels, entries[i])
  BY DEF Says
<1>. QED BY <1>2, <1>3, <1>4, FunctionIsSeq

\* A sequence and one item more.
LEMMA AppendFacts ==
  ASSUME NEW T, NEW s \in Seq(T), NEW x \in T
  PROVE  /\ Append(s, x) \in Seq(T)
         /\ Len(s) \in Nat /\ Len(Append(s, x)) = Len(s) + 1
         /\ \A i \in 1 .. Len(s) : Append(s, x)[i] = s[i]
         /\ Append(s, x)[Len(s) + 1] = x
  OBVIOUS

Grows(names, rels, entries, names2, rels2, p) ==
  /\ Filled(names, rels, entries)
  /\ names2 \in Seq(Int) /\ NoTwice(names2) /\ Begins(names, names2)
  /\ WellRelated(names2, rels2) /\ Begins(rels, rels2)
  /\ WellPlaced(p, names2, rels2)

LEMMA FilledWithOneMore ==
  ASSUME NEW names, NEW rels, NEW entries, NEW names2, NEW rels2, NEW p,
         Grows(names, rels, entries, names2, rels2, p)
  PROVE  /\ Filled(names2, rels2, Append(entries, p))
         /\ Says(names2, rels2, Append(entries, p)) =
              Append(Says(names, rels, entries), Reading(names2, rels2, p))
<1>0. /\ Filled(names, rels, entries)
      /\ names2 \in Seq(Int) /\ NoTwice(names2) /\ Begins(names, names2)
      /\ WellRelated(names2, rels2) /\ Begins(rels, rels2)
      /\ WellPlaced(p, names2, rels2)
  BY DEF Grows
<1>. PICK entries2 : entries2 = Append(entries, p)
  OBVIOUS
<1>1. /\ names \in Seq(Int) /\ WellRelated(names, rels) /\ entries \in Seq(PkgType)
      /\ \A i \in 1 .. Len(entries) : WellPlaced(entries[i], names, rels)
  BY <1>0 DEF Filled
<1>2. p \in PkgType
  BY <1>0 DEF WellPlaced
<1>3. /\ entries2 \in Seq(PkgType)
      /\ Len(entries) \in Nat /\ Len(entries2) = Len(entries) + 1
      /\ \A i \in 1 .. Len(entries) : entries2[i] = entries[i]
      /\ entries2[Len(entries) + 1] = p
  BY <1>1, <1>2, AppendFacts
<1>4. ASSUME NEW i \in 1 .. Len(entries)
      PROVE  /\ WellPlaced(entries2[i], names2, rels2)
             /\ Reading(names2, rels2, entries2[i]) = Reading(names, rels, entries[i])
  <2>1. PICK q : q = entries[i]
    OBVIOUS
  <2>2. WellPlaced(q, names, rels)
    BY <1>1, <2>1
  <2>3. WellPlaced(q, names2, rels2) /\ Reading(names2, rels2, q) = Reading(names, rels, q)
    BY <1>0, <1>1, <2>2, ReadingStays
  <2>. QED BY <1>3, <2>1, <2>3
<1>5. Filled(names2, rels2, entries2)
  <2>1. ASSUME NEW i \in 1 .. Len(entries2) PROVE WellPlaced(entries2[i], names2, rels2)
    <3>1. i \in 1 .. Len(entries) \/ i = Len(entries) + 1
      BY <1>3
    <3>. QED BY <1>0, <1>3, <1>4, <3>1
  <2>. QED BY <1>0, <1>3, <2>1 DEF Filled
<1>. DEFINE old == Says(names, rels, entries)
            new == Says(names2, rels2, entries2)
            one == Reading(names2, rels2, p)
<1>6. /\ old \in Seq(ReadingType) /\ Len(old) = Len(entries)
      /\ \A i \in 1 .. Len(entries) : old[i] = Reading(names, rels, entries[i])
  BY <1>0, SaysIsTyped, ZenonT(30)
<1>7. /\ new \in Seq(ReadingType) /\ Len(new) = Len(entries2)
      /\ \A i \in 1 .. Len(entries2) : new[i] = Reading(names2, rels2, entries2[i])
  BY <1>5, SaysIsTyped, ZenonT(30)
<1>8. \A i \in 1 .. Len(old) : new[i] = old[i]
  <2>1. \A i \in 1 .. Len(entries) : i \in 1 .. Len(entries2)
    BY <1>3
  <2>. QED BY <1>4, <1>6, <1>7, <2>1
<1>9. new[Len(old) + 1] = one
  <2>1. Len(entries) + 1 \in 1 .. Len(entries2)
    BY <1>3
  <2>. QED BY <1>3, <1>6, <1>7, <2>1
<1>. HIDE DEF old, new, one
<1>10. Len(new) = Len(old) + 1 /\ Len(old) \in Nat
  BY <1>3, <1>6, <1>7
<1>11. one \in ReadingType
  <2>1. Len(old) + 1 \in 1 .. Len(new)
    BY <1>10
  <2>. QED BY <1>7, <1>9, <2>1
<1>12. new = Append(old, one)
  <2>1. /\ Append(old, one) \in Seq(ReadingType) /\ Len(Append(old, one)) = Len(old) + 1
        /\ \A i \in 1 .. Len(old) : Append(old, one)[i] = old[i]
        /\ Append(old, one)[Len(old) + 1] = one
    BY <1>6, <1>11, AppendFacts
  <2>2. ASSUME NEW i \in 1 .. Len(new) PROVE new[i] = Append(old, one)[i]
    <3>1. i \in 1 .. Len(old) \/ i = Len(old) + 1
      BY <1>10
    <3>. QED BY <1>8, <1>9, <2>1, <3>1
  <2>. QED BY <1>7, <1>10, <2>1, <2>2
<1>. QED BY <1>5, <1>12 DEF old, new, one

LEMMA FilledRenumbered ==
  ASSUME NEW names, NEW rels, NEW entries, Filled(names, rels, entries),
         NEW names2 \in Seq(Int), NoTwice(names2), Range(names) \subseteq Range(names2),
         NEW rels2, rels2 = Renumbered(names, names2, rels),
         NEW entries2, entries2 = Renumbered(names, names2, entries)
  PROVE  /\ Filled(names2, rels2, entries2)
         /\ Len(entries2) = Len(entries)
         /\ Says(names2, rels2, entries2) = Says(names, rels, entries)
<1>1. /\ names \in Seq(Int) /\ WellRelated(names, rels) /\ entries \in Seq(PkgType)
      /\ \A i \in 1 .. Len(entries) : WellPlaced(entries[i], names, rels)
  BY DEF Filled
<1>2. DOMAIN entries = 1 .. Len(entries) /\ Len(entries) \in Nat
  BY <1>1
<1>3. ASSUME NEW i \in 1 .. Len(entries)
      PROVE  /\ WellPlaced(entries2[i], names2, rels2)
             /\ Reading(names2, rels2, entries2[i]) = Reading(names, rels, entries[i])
  <2>1. PICK p : p = entries[i]
    OBVIOUS
  <2>2. PICK q : q = entries2[i]
    OBVIOUS
  <2>3. q = [p EXCEPT !.pkgId = IdOf(names2, names[p.pkgId + 1])]
    BY <1>2, <2>1, <2>2 DEF Renumbered
  <2>4. WellPlaced(p, names, rels)
    BY <1>1, <2>1
  <2>5. WellPlaced(q, names2, rels2) /\ Reading(names2, rels2, q) = Reading(names, rels, p)
    BY <1>1, <2>3, <2>4, RenumberedEntry, SMTT(30)
  <2>. QED BY <2>1, <2>2, <2>5
<1>4. entries2 \in [1 .. Len(entries) -> PkgType]
  <2>1. \A i \in 1 .. Len(entries) : entries2[i] \in PkgType
    BY <1>3 DEF WellPlaced
  <2>. QED BY <1>2, <2>1 DEF Renumbered
<1>5. entries2 \in Seq(PkgType) /\ Len(entries2) = Len(entries)
  BY <1>2, <1>4, FunctionIsSeq
<1>6. WellRelated(names2, rels2)
  BY <1>1, RenumberedRelations
<1>7. Filled(names2, rels2, entries2)
  BY <1>3, <1>5, <1>6 DEF Filled
<1>. QED BY <1>3, <1>5, <1>7 DEF Says

\* Sorting, and leaving entries out.
IsPickedBy(o, new, old) ==
  o \in [1 .. Len(new) -> 1 .. Len(old)] /\ \A i \in 1 .. Len(new) : new[i] = old[o[i]]

LEMMA FilledPicked ==
  ASSUME NEW names, NEW rels, NEW entries, Filled(names, rels, entries),
         NEW o, NEW entries2 \in Seq(PkgType), IsPickedBy(o, entries2, entries)
  PROVE  /\ Filled(names, rels, entries2)
         /\ IsPickedBy(o, Says(names, rels, entries2), Says(names, rels, entries))
<1>1. \A i \in 1 .. Len(entries2) : o[i] \in 1 .. Len(entries) /\ entries2[i] = entries[o[i]]
  BY DEF IsPickedBy
<1>2. Filled(names, rels, entries2)
  BY <1>1 DEF Filled
<1>3. /\ Len(Says(names, rels, entries)) = Len(entries)
      /\ Len(Says(names, rels, entries2)) = Len(entries2)
  BY <1>2, SaysIsTyped
<1>4. \A i \in 1 .. Len(entries2) : Says(names, rels, entries2)[i] = Says(names, rels, entries)[o[i]]
  BY <1>1 DEF Says
<1>. QED BY <1>2, <1>3, <1>4 DEF IsPickedBy

\* Marking entries as installed.
Marked(new, old, flag) ==
  /\ new.name = old.name /\ new.ver = old.ver
  /\ new.requires = old.requires /\ new.provides = old.provides
  /\ new.installed = flag

WithMarks(entries, same) ==
  [i \in DOMAIN entries |-> IF i \in same THEN [entries[i] EXCEPT !.installed = TRUE] ELSE entries[i]]

AreMarked(new, old, same) ==
  /\ Len(new) = Len(old)
  /\ \A i \in 1 .. Len(old) :
       /\ i \in same => Marked(new[i], old[i], TRUE)
       /\ i \notin same => new[i] = old[i]

LEMMA FilledMarked ==
  ASSUME NEW names, NEW rels, NEW entries, Filled(names, rels, entries), NEW same,
         NEW entries2, entries2 = WithMarks(entries, same)
  PROVE  /\ Filled(names, rels, entries2)
         /\ Len(entries2) = Len(entries)
         /\ \A i \in 1 .. Len(entries) : entries2[i].pkgId = entries[i].pkgId
         /\ AreMarked(Says(names, rels, entries2), Says(names, rels, entries), same)
<1>1. /\ names \in Seq(Int) /\ NoTwice(names) /\ WellRelated(names, rels) /\ entries \in Seq(PkgType)
      /\ \A i \in 1 .. Len(entries) : WellPlaced(entries[i], names, rels)
  BY DEF Filled
<1>2. DOMAIN entries = 1 .. Len(entries) /\ Len(entries) \in Nat
  BY <1>1
<1>3. ASSUME NEW i \in 1 .. Len(entries)
      PROVE  /\ WellPlaced(entries2[i], names, rels)
             /\ entries2[i].pkgId = entries[i].pkgId
             /\ i \in same => Marked(Reading(names, rels, entries2[i]), Reading(names, rels, entries[i]), TRUE)
             /\ i \notin same => Reading(names, rels, entries2[i]) = Reading(names, rels, entries[i])
  <2>1. PICK p : p = entries[i]
    OBVIOUS
  <2>2. PICK q : q = entries2[i]
    OBVIOUS
  <2>3. WellPlaced(p, names, rels) /\ p \in PkgType
    BY <1>1, <2>1 DEF WellPlaced
  <2>4. q = IF i \in same THEN [p EXCEPT !.installed = TRUE] ELSE p
    BY <1>2, <2>1, <2>2 DEF WithMarks
  <2>5. CASE i \in same
    <3>1. q = [p EXCEPT !.installed = TRUE]
      BY <2>4, <2>5
    <3>2. /\ q \in PkgType /\ q.pkgId = p.pkgId /\ q.ver = p.ver /\ q.installed = TRUE
          /\ q.requires = p.requires /\ q.provides = p.provides
      BY <2>3, <3>1 DEF PkgType
    <3>3. WellPlaced(q, names, rels)
      BY <2>3, <3>2 DEF WellPlaced
    <3>4. Marked(Reading(names, rels, q), Reading(names, rels, p), TRUE)
      BY <3>2 DEF Reading, Marked
    <3>. QED BY <2>1, <2>2, <2>5, <3>2, <3>3, <3>4
  <2>6. CASE i \notin same
    BY <2>1, <2>2, <2>3, <2>4, <2>6
  <2>. QED BY <2>5, <2>6
<1>4. entries2 \in [1 .. Len(entries) -> PkgType]
  <2>1. \A i \in 1 .. Len(entries) : entries2[i] \in PkgType
    BY <1>3 DEF WellPlaced
  <2>. QED BY <1>2, <2>1 DEF WithMarks
<1>5. entries2 \in Seq(PkgType) /\ Len(entries2) = Len(entries)
  BY <1>2, <1>4, FunctionIsSeq
<1>6. Filled(names, rels, entries2)
  BY <1>1, <1>3, <1>5 DEF Filled
<1>7. /\ Len(Says(names, rels, entries)) = Len(entries)
      /\ Len(Says(names, rels, entries2)) = Len(entries)
  BY <1>5, <1>6, SaysIsTyped
<1>8. AreMarked(Says(names, rels, entries2), Says(names, rels, entries), same)
  BY <1>3, <1>5, <1>7 DEF Says, AreMarked
<1>. QED BY <1>3, <1>5, <1>6, <1>8

-----------------------------------------------------------------------------
(***************************************************************************)
(* What each action does to the snapshot and to what it says               *)
(***************************************************************************)

NoneTwice(files) ==
  \A i, j \in DOMAIN files : files[i].name = files[j].name /\ files[i].ver = files[j].ver => i = j

KnownTo(names, f) ==
  /\ f.name \in Range(names)
  /\ \A k \in 1 .. Len(f.requires) : f.requires[k].name \in Range(names)
  /\ \A k \in 1 .. Len(f.provides) : f.provides[k].name \in Range(names)

TypesInv ==
  /\ stage \in { "reading", "saved", "marking", "named", "ranged", "enhancing", "enhanced", "ready",
                 "located", "required", "providers", "end", "refused", "abort" }
  /\ repoPkgs \in Seq(FileType)
  /\ installed \in Seq(FileType) /\ NoneTwice(installed)
  /\ todo \in Seq(FileType) /\ enhanceWith \in Seq(FileType)
  /\ Filled(pkgNames, relations, pkgs)
  /\ stage \in {"named", "ranged"} => todo # <<>>
  /\ stage = "enhancing" => \A i \in 1 .. Len(todo) : KnownTo(pkgNames, todo[i])

says == Says(pkgNames, relations, pkgs)

\* What is said of a package that is added.
Told(f, flag, provides) ==
  [name |-> f.name, ver |-> f.ver, installed |-> flag, requires |-> f.requires, provides |-> provides]

LEMMA FileFacts ==
  ASSUME NEW f \in FileType
  PROVE  /\ f.name \in Int /\ f.ver \in Nat /\ f.files \in Seq(Int)
         /\ f.requires \in Seq(RelType) /\ f.provides \in Seq(RelType)
  BY DEF FileType

LEMMA NamesOfFacts ==
  ASSUME NEW rels \in Seq(RelType)
  PROVE  /\ NamesOf(rels) \in Seq(Int) /\ Len(NamesOf(rels)) = Len(rels)
         /\ \A k \in 1 .. Len(rels) : NamesOf(rels)[k] = rels[k].name
<1>1. DOMAIN rels = 1 .. Len(rels) /\ Len(rels) \in Nat
  OBVIOUS
<1>2. ASSUME NEW k \in 1 .. Len(rels) PROVE rels[k].name \in Int
  <2>1. rels[k] \in RelType
    OBVIOUS
  <2>. QED BY <2>1 DEF RelType
<1>3. NamesOf(rels) \in [1 .. Len(rels) -> Int]
  BY <1>1, <1>2 DEF NamesOf
<1>4. \A k \in 1 .. Len(rels) : NamesOf(rels)[k] = rels[k].name
  BY <1>1 DEF NamesOf
<1>. QED BY <1>1, <1>3, <1>4, FunctionIsSeq

LEMMA WellRelatedStays ==
  ASSUME NEW names \in Seq(Int), NEW rels, WellRelated(names, rels),
         NEW names2 \in Seq(Int), Begins(names, names2)
  PROVE  WellRelated(names2, rels)
<1>1. Len(names) <= Len(names2) /\ Len(names) \in Nat /\ Len(names2) \in Nat
  BY DEF Begins
<1>2. ASSUME NEW i \in 1 .. Len(rels) PROVE rels[i].pkgId < Len(names2)
  <2>1. rels[i].pkgId \in Nat /\ rels[i].pkgId + 1 \in 1 .. Len(names)
    BY RelationFacts
  <2>. QED BY <1>1, <2>1
<1>. QED BY <1>2 DEF WellRelated

LEMMA SpanFacts ==
  ASSUME NEW pos \in Nat, NEW count \in Nat
  PROVE  /\ Span(pos, count) = [pos |-> Span(pos, count).pos, count |-> count]
         /\ Span(pos, count).pos \in Nat /\ Span(pos, count).pos <= pos
         /\ count > 0 => Span(pos, count).pos = pos
  BY DEF Span

\* An entry of a repository is registered as it was read.
LEMMA AddNewPkgEffect ==
  ASSUME TypesInv, AddNewPkg
  PROVE  /\ TypesInv'
         /\ Len(pkgs) + 1 \in 1 .. Len(repoPkgs)
         /\ says' = Append(says, Told(repoPkgs[Len(pkgs) + 1], FALSE, repoPkgs[Len(pkgs) + 1].provides))
<1>. DEFINE f == repoPkgs[Len(pkgs) + 1]
<1>1. /\ repoPkgs \in Seq(FileType) /\ pkgNames \in Seq(Int) /\ NoTwice(pkgNames)
      /\ WellRelated(pkgNames, relations) /\ pkgs \in Seq(PkgType)
      /\ Filled(pkgNames, relations, pkgs)
  BY DEF TypesInv, Filled
<1>2. Len(pkgs) + 1 \in 1 .. Len(repoPkgs)
  BY <1>1 DEF AddNewPkg
<1>3. f \in FileType
  BY <1>1, <1>2
<1>4. PICK want \in Seq(RelType), offer \in Seq(RelType) : want = f.requires /\ offer = f.provides
  BY <1>3, FileFacts
<1>5. f.name \in Int /\ f.ver \in Nat
  BY <1>3, FileFacts
<1>6. PICK rels \in Seq(RelType) : rels = want \o offer
  BY JoinedFacts
<1>7. /\ Len(want) \in Nat /\ Len(offer) \in Nat /\ Len(rels) = Len(want) + Len(offer)
      /\ \A i \in 1 .. Len(want) : rels[i] = want[i]
      /\ \A k \in 1 .. Len(offer) : rels[Len(want) + k] = offer[k]
  BY <1>6, JoinedFacts
<1>8. /\ NamesOf(rels) \in Seq(Int) /\ Len(NamesOf(rels)) = Len(rels)
      /\ \A k \in 1 .. Len(rels) : NamesOf(rels)[k] = rels[k].name
  BY NamesOfFacts
<1>9. PICK head \in Seq(Int), rest \in Seq(Int) : head = <<f.name>> /\ rest = NamesOf(rels)
  <2>1. PICK n \in Int : n = f.name
    BY <1>5
  <2>2. <<n>> \in Seq(Int)
    OBVIOUS
  <2>. QED BY <1>8, <2>1, <2>2
<1>10. Len(head) = 1 /\ head[1] = f.name
  BY <1>9
<1>11. PICK more \in Seq(Int) : more = head \o rest
  BY JoinedFacts
<1>12. /\ Len(more) = 1 + Len(rels)
       /\ more[1] = f.name
       /\ \A k \in 1 .. Len(rels) : more[1 + k] = rels[k].name
  <2>1. /\ Len(more) = Len(head) + Len(rest)
        /\ \A i \in 1 .. Len(head) : more[i] = head[i]
        /\ \A k \in 1 .. Len(rest) : more[Len(head) + k] = rest[k]
    BY <1>11, JoinedFacts
  <2>2. 1 \in 1 .. Len(head)
    BY <1>10
  <2>. QED BY <1>8, <1>9, <1>10, <2>1, <2>2
<1>13. PICK names : names = Registered(pkgNames, more)
  OBVIOUS
<1>14. PICK old, oldRels : old = pkgNames /\ oldRels = relations
  OBVIOUS
<1>15. /\ names \in Seq(Int) /\ NoTwice(names) /\ Begins(old, names)
       /\ \A i \in 1 .. Len(more) : more[i] \in Range(names)
  BY <1>1, <1>13, <1>14, RegisteredFacts
<1>16. /\ f.name \in Range(names)
       /\ \A k \in 1 .. Len(want) : want[k].name \in Range(names)
       /\ \A k \in 1 .. Len(offer) : offer[k].name \in Range(names)
  <2>1. f.name \in Range(names)
    <3>1. 1 \in 1 .. Len(more)
      BY <1>7, <1>12
    <3>. QED BY <1>12, <1>15, <3>1
  <2>2. ASSUME NEW k \in 1 .. Len(rels) PROVE rels[k].name \in Range(names)
    <3>1. PICK m \in 1 .. Len(more) : m = 1 + k
      BY <1>7, <1>12
    <3>. QED BY <1>12, <1>15, <3>1
  <2>3. ASSUME NEW k \in 1 .. Len(want) PROVE want[k].name \in Range(names)
    <3>1. k \in 1 .. Len(rels)
      BY <1>7
    <3>. QED BY <1>7, <2>2, <3>1
  <2>4. ASSUME NEW k \in 1 .. Len(offer) PROVE offer[k].name \in Range(names)
    <3>1. PICK m \in 1 .. Len(rels) : m = Len(want) + k
      BY <1>7
    <3>. QED BY <1>7, <2>2, <3>1
  <2>. QED BY <2>1, <2>3, <2>4
<1>17. WellRelated(names, oldRels)
  BY <1>1, <1>14, <1>15, WellRelatedStays
<1>18. Len(oldRels) \in Nat
  BY <1>17 DEF WellRelated
<1>19. PICK pos1, pos2 :
         /\ pos1 \in Nat /\ pos1 <= Len(oldRels) /\ (Len(want) > 0 => pos1 = Len(oldRels))
         /\ pos2 \in Nat /\ pos2 <= Len(oldRels) + Len(want)
         /\ Len(offer) > 0 => pos2 = Len(oldRels) + Len(want)
         /\ Span(Len(oldRels), Len(want)) = [pos |-> pos1, count |-> Len(want)]
         /\ Span(Len(oldRels) + Len(want), Len(offer)) = [pos |-> pos2, count |-> Len(offer)]
  <2>1. PICK count1, count2, start1, start2 :
          /\ count1 = Len(want) /\ count2 = Len(offer)
          /\ start1 = Len(oldRels) /\ start2 = Len(oldRels) + Len(want)
    OBVIOUS
  <2>2. count1 \in Nat /\ count2 \in Nat /\ start1 \in Nat /\ start2 \in Nat
    BY <1>7, <1>18, <2>1
  <2>3. /\ Span(start1, count1) = [pos |-> Span(start1, count1).pos, count |-> count1]
        /\ Span(start1, count1).pos \in Nat /\ Span(start1, count1).pos <= start1
        /\ count1 > 0 => Span(start1, count1).pos = start1
    BY <2>2, SpanFacts
  <2>4. /\ Span(start2, count2) = [pos |-> Span(start2, count2).pos, count |-> count2]
        /\ Span(start2, count2).pos \in Nat /\ Span(start2, count2).pos <= start2
        /\ count2 > 0 => Span(start2, count2).pos = start2
    BY <2>2, SpanFacts
  <2>5. PICK pos1, pos2 : pos1 = Span(start1, count1).pos /\ pos2 = Span(start2, count2).pos
    OBVIOUS
  <2>. QED BY <2>1, <2>3, <2>4, <2>5
<1>20. PICK names2, rels2, entries2, entries, p :
         /\ names2 = pkgNames' /\ rels2 = relations' /\ entries2 = pkgs' /\ entries = pkgs
         /\ p = EntryFor(names, f.name, f.ver, FALSE, want, pos1, offer, pos2)
  OBVIOUS
<1>21. /\ names2 = names
       /\ rels2 = oldRels \o ToRelations(names, want \o offer)
       /\ entries2 = Append(entries, p)
  BY <1>4, <1>6, <1>9, <1>11, <1>13, <1>14, <1>19, <1>20 DEF AddNewPkg, EntryFor
<1>22. MayEnter(names, oldRels, f.name, f.ver, FALSE, want, pos1, offer, pos2)
  BY <1>5, <1>15, <1>16, <1>17, <1>19 DEF MayEnter
<1>23. HasEntered(names, oldRels, rels2, f.name, f.ver, FALSE, want, offer, p)
  BY <1>20, <1>21, <1>22, NewEntry
<1>24. /\ WellRelated(names, rels2) /\ Begins(oldRels, rels2) /\ WellPlaced(p, names, rels2)
       /\ Reading(names, rels2, p) = Told(f, FALSE, offer)
  BY <1>4, <1>23 DEF HasEntered, Told
<1>25. Filled(old, oldRels, entries)
  BY <1>1, <1>14, <1>20
<1>26. Grows(old, oldRels, entries, names, rels2, p)
  BY <1>15, <1>24, <1>25 DEF Grows
<1>27. /\ Filled(names, rels2, entries2)
       /\ Says(names, rels2, entries2) = Append(Says(old, oldRels, entries), Reading(names, rels2, p))
  BY <1>21, <1>26, FilledWithOneMore
<1>28. Filled(pkgNames', relations', pkgs')
  BY <1>20, <1>21, <1>27
<1>29. says' = Append(says, Told(f, FALSE, f.provides))
  BY <1>4, <1>14, <1>20, <1>21, <1>24, <1>27 DEF says
<1>30. TypesInv'
  BY <1>28 DEF TypesInv, AddNewPkg, systemVars
<1>. QED BY <1>2, <1>29, <1>30

LEMMA FilledSorted ==
  ASSUME NEW names, NEW rels, NEW entries, Filled(names, rels, entries), NEW entries2 \in Sortings(entries)
  PROVE  /\ Filled(names, rels, entries2)
         /\ Len(entries2) = Len(entries)
         /\ IdsInOrder(entries2)
         /\ Permuted(Says(names, rels, entries2), Says(names, rels, entries))
<1>1. entries \in Seq(PkgType)
  BY DEF Filled
<1>2. entries2 \in Seq(PkgType) /\ Len(entries2) = Len(entries) /\ IdsInOrder(entries2) /\ Permuted(entries2, entries)
  BY <1>1, SortingsFacts
<1>3. PICK o : IsOrderOf(o, entries2, entries)
  BY <1>2 DEF Permuted
<1>4. IsPickedBy(o, entries2, entries)
  BY <1>2, <1>3 DEF IsOrderOf, IsPickedBy
<1>5. /\ Filled(names, rels, entries2)
      /\ IsPickedBy(o, Says(names, rels, entries2), Says(names, rels, entries))
  BY <1>2, <1>4, FilledPicked
<1>6. PICK new, old : new = Says(names, rels, entries2) /\ old = Says(names, rels, entries)
  OBVIOUS
<1>7. Len(old) = Len(entries) /\ Len(new) = Len(entries2)
  BY <1>5, <1>6, SaysIsTyped
<1>8. IsOrderOf(o, new, old)
  BY <1>2, <1>3, <1>5, <1>6, <1>7 DEF IsOrderOf, IsPickedBy
<1>. QED BY <1>2, <1>5, <1>6, <1>8 DEF Permuted

LEMMA RangeIsFinite ==
  ASSUME NEW s \in Seq(Int)
  PROVE  Range(s) \in SUBSET Int /\ IsFiniteSet(Range(s))
<1>1. DOMAIN s = 1 .. Len(s) /\ Len(s) \in Nat /\ \A i \in 1 .. Len(s) : s[i] \in Int
  OBVIOUS
<1>2. Range(s) \in SUBSET Int
  BY <1>1 DEF Range
<1>3. IsFiniteSet(1 .. Len(s))
  BY <1>1, FS_Interval
<1>4. s \in Surjection(1 .. Len(s), Range(s))
  BY <1>1 DEF Surjection, Range
<1>. QED BY <1>2, <1>3, <1>4, FS_Surjection

\* rearrangeNames() and the sort after it.
LEMMA RearrangeEffect ==
  ASSUME TypesInv, Rearrange
  PROVE  /\ TypesInv'
         /\ Len(pkgs') = Len(pkgs)
         /\ Sorted(pkgNames)'
         /\ IdsInOrder(pkgs')
         /\ Permuted(says', says)
<1>1. PICK names, rels, entries : names = pkgNames /\ rels = relations /\ entries = pkgs
  OBVIOUS
<1>2. PICK names2, rels2, entries2 : names2 = pkgNames' /\ rels2 = relations' /\ entries2 = pkgs'
  OBVIOUS
<1>3. Filled(names, rels, entries) /\ names \in Seq(Int)
  BY <1>1 DEF TypesInv, Filled
<1>4. PICK all \in SUBSET Int : all = Range(names) /\ IsFiniteSet(all)
  BY <1>3, RangeIsFinite
<1>5. names2 = Ascending(all)
  BY <1>1, <1>2, <1>4 DEF Rearrange, SortedNames
<1>6. names2 \in Seq(Int) /\ NoTwice(names2) /\ Sorted(names2) /\ Range(names2) = Range(names)
  BY <1>4, <1>5, SortedNamesFacts
<1>7. PICK entries1 : entries1 = Renumbered(names, names2, entries)
  OBVIOUS
<1>8. rels2 = Renumbered(names, names2, rels)
  BY <1>1, <1>2 DEF Rearrange, Rearranged, Renumbered
<1>9. entries2 \in Sortings(entries1)
  BY <1>1, <1>2, <1>7 DEF Rearrange, Rearranged, Renumbered
<1>10. Range(names) \subseteq Range(names2)
  BY <1>6
<1>11. /\ Filled(names2, rels2, entries1)
       /\ Len(entries1) = Len(entries)
       /\ Says(names2, rels2, entries1) = Says(names, rels, entries)
  BY <1>3, <1>6, <1>7, <1>8, <1>10, FilledRenumbered
<1>12. /\ Filled(names2, rels2, entries2)
       /\ Len(entries2) = Len(entries1)
       /\ IdsInOrder(entries2)
       /\ Permuted(Says(names2, rels2, entries2), Says(names2, rels2, entries1))
  BY <1>9, <1>11, FilledSorted
<1>13. TypesInv'
  <2>1. Filled(pkgNames', relations', pkgs')
    BY <1>2, <1>12
  <2>. QED BY <2>1 DEF TypesInv, Rearrange, systemVars
<1>14. Sorted(pkgNames)'
  BY <1>2, <1>6 DEF Sorted
<1>15. Permuted(says', says)
  BY <1>1, <1>2, <1>11, <1>12 DEF says
<1>. QED BY <1>1, <1>2, <1>11, <1>12, <1>13, <1>14, <1>15

\* The sort at the end of enhance().
LEMMA EndEnhanceEffect ==
  ASSUME TypesInv, EndEnhance
  PROVE  TypesInv' /\ IdsInOrder(pkgs') /\ Len(pkgs') = Len(pkgs) /\ Permuted(says', says)
<1>1. PICK names, rels, entries, entries2 :
        names = pkgNames /\ rels = relations /\ entries = pkgs /\ entries2 = pkgs'
  OBVIOUS
<1>2. Filled(names, rels, entries) /\ entries2 \in Sortings(entries)
  BY <1>1 DEF TypesInv, EndEnhance
<1>3. /\ Filled(names, rels, entries2)
      /\ Len(entries2) = Len(entries)
      /\ IdsInOrder(entries2)
      /\ Permuted(Says(names, rels, entries2), Says(names, rels, entries))
  BY <1>2, FilledSorted
<1>4. names = pkgNames' /\ rels = relations'
  BY <1>1 DEF EndEnhance
<1>5. Filled(pkgNames', relations', pkgs')
  BY <1>1, <1>3, <1>4
<1>6. TypesInv'
  BY <1>5 DEF TypesInv, EndEnhance, systemVars
<1>7. Permuted(says', says)
  BY <1>1, <1>3, <1>4 DEF says
<1>. QED BY <1>1, <1>3, <1>6, <1>7

\* removeEqualPkgs(): the entries that repeat no earlier one, in their order.
KeptBy(o) ==
  /\ IsPickedBy(o, pkgs', pkgs)
  /\ IsPickedBy(o, says', says)
  /\ \A i, j \in 1 .. Len(pkgs') : i < j => o[i] < o[j]
  /\ \A k \in 1 .. Len(pkgs') : ~ Repeats(o[k])
  /\ \A i \in 1 .. Len(pkgs) : ~ Repeats(i) => \E k \in 1 .. Len(pkgs') : o[k] = i

LEMMA LoadEffect ==
  ASSUME TypesInv, Load, pkgs # <<>>
  PROVE  TypesInv' /\ \E o : KeptBy(o)
<1>. DEFINE kept == {i \in DOMAIN pkgs : ~ Repeats(i)}
<1>1. PICK names, rels, entries, entries2, places :
        names = pkgNames /\ rels = relations /\ entries = pkgs /\ entries2 = pkgs' /\ places = kept
  OBVIOUS
<1>2. Filled(names, rels, entries) /\ entries \in Seq(PkgType) /\ places \in SUBSET (1 .. Len(entries))
  BY <1>1 DEF TypesInv, Filled
<1>3. \A i \in 1 .. Len(entries) : i \in places <=> ~ Repeats(i)
  BY <1>1, <1>2
<1>4. entries2 = SelectAt(entries, places)
  BY <1>1 DEF Load, removeEqualPkgs
<1>. HIDE DEF kept
<1>5. /\ entries2 \in Seq(PkgType)
      /\ \A k \in 1 .. Len(entries2) : Ascending(places)[k] \in places /\ entries2[k] = entries[Ascending(places)[k]]
      /\ \A i \in places : \E k \in 1 .. Len(entries2) :
           Ascending(places)[k] = i /\ entries2[k] = entries[i]
      /\ \A i, j \in 1 .. Len(entries2) : i < j => Ascending(places)[i] < Ascending(places)[j]
  BY <1>2, <1>4, SelectAtFacts
<1>6. PICK o : o = [k \in 1 .. Len(entries2) |-> Ascending(places)[k]]
  OBVIOUS
<1>7. /\ \A k \in 1 .. Len(entries2) : o[k] \in places /\ entries2[k] = entries[o[k]]
      /\ \A i \in places : \E k \in 1 .. Len(entries2) : o[k] = i
      /\ \A i, j \in 1 .. Len(entries2) : i < j => o[i] < o[j]
  BY <1>5, <1>6
<1>8. IsPickedBy(o, entries2, entries)
  <2>1. o \in [1 .. Len(entries2) -> 1 .. Len(entries)]
    BY <1>2, <1>6, <1>7
  <2>. QED BY <1>7, <2>1 DEF IsPickedBy
<1>9. Filled(names, rels, entries2) /\ IsPickedBy(o, Says(names, rels, entries2), Says(names, rels, entries))
  BY <1>2, <1>5, <1>8, FilledPicked
<1>10. names = pkgNames' /\ rels = relations'
  BY <1>1 DEF Load
<1>11. TypesInv'
  <2>1. Filled(pkgNames', relations', pkgs')
    BY <1>1, <1>9, <1>10
  <2>. QED BY <2>1 DEF TypesInv, Load
<1>12. KeptBy(o)
  <2>1. IsPickedBy(o, pkgs', pkgs) /\ IsPickedBy(o, says', says)
    BY <1>1, <1>8, <1>9, <1>10 DEF says
  <2>2. \A k \in 1 .. Len(entries2) : ~ Repeats(o[k])
    BY <1>2, <1>3, <1>7
  <2>3. \A i \in 1 .. Len(entries) : ~ Repeats(i) => \E k \in 1 .. Len(entries2) : o[k] = i
    BY <1>3, <1>7
  <2>. QED BY <1>1, <1>7, <2>1, <2>2, <2>3 DEF KeptBy
<1>. QED BY <1>11, <1>12

SameAsHead == {i \in fromPos + 1 .. toPos : pkgs[i].ver = Head(todo).ver}

LEMMA TakenFacts ==
  ASSUME NEW T, NEW s \in Seq(T), s # <<>>
  PROVE  /\ Head(s) \in T /\ Head(s) = s[1]
         /\ Tail(s) \in Seq(T) /\ Len(s) \in Nat /\ Len(s) > 0 /\ Len(Tail(s)) = Len(s) - 1
         /\ \A i \in 1 .. Len(s) - 1 : Tail(s)[i] = s[i + 1]
  OBVIOUS

LEMMA MarkInstalledEffect ==
  ASSUME TypesInv, MarkInstalled
  PROVE  /\ TypesInv'
         /\ Len(pkgs') = Len(pkgs)
         /\ \A i \in 1 .. Len(pkgs) : pkgs'[i].pkgId = pkgs[i].pkgId
         /\ AreMarked(says', says, SameAsHead)
         /\ enhanceWith' = IF SameAsHead = {} THEN Append(enhanceWith, Head(todo)) ELSE enhanceWith
<1>1. PICK names, rels, entries, entries2, same :
        /\ names = pkgNames /\ rels = relations /\ entries = pkgs
        /\ entries2 = pkgs' /\ same = SameAsHead
  OBVIOUS
<1>2. Filled(names, rels, entries)
  BY <1>1 DEF TypesInv
<1>3. entries2 = WithMarks(entries, same)
  BY <1>1 DEF MarkInstalled, SameAsHead, WithMarks
<1>4. /\ Filled(names, rels, entries2)
      /\ Len(entries2) = Len(entries)
      /\ \A i \in 1 .. Len(entries) : entries2[i].pkgId = entries[i].pkgId
      /\ AreMarked(Says(names, rels, entries2), Says(names, rels, entries), same)
  BY <1>2, <1>3, FilledMarked
<1>5. names = pkgNames' /\ rels = relations'
  BY <1>1 DEF MarkInstalled
<1>7. enhanceWith' = IF SameAsHead = {} THEN Append(enhanceWith, Head(todo)) ELSE enhanceWith
  BY DEF MarkInstalled, SameAsHead
<1>8. TypesInv'
  <2>1. Filled(pkgNames', relations', pkgs')
    BY <1>1, <1>4, <1>5
  <2>2. todo \in Seq(FileType) /\ todo # <<>> /\ enhanceWith \in Seq(FileType)
    BY DEF TypesInv, MarkInstalled
  <2>3. Head(todo) \in FileType /\ Tail(todo) \in Seq(FileType)
    BY <2>2, TakenFacts
  <2>4. Append(enhanceWith, Head(todo)) \in Seq(FileType)
    BY <2>2, <2>3
  <2>5. todo' \in Seq(FileType) /\ enhanceWith' \in Seq(FileType)
    BY <1>7, <2>2, <2>3, <2>4 DEF MarkInstalled
  <2>. QED BY <2>1, <2>5 DEF TypesInv, MarkInstalled
<1>9. AreMarked(says', says, SameAsHead)
  BY <1>1, <1>4, <1>5 DEF says
<1>. QED BY <1>1, <1>4, <1>7, <1>8, <1>9

\* The names of one package, and those of a list of packages.
NamesIn(f) == {f.name} \cup Range(NamesOf(f.requires)) \cup Range(NamesOf(f.provides))

LEMMA NamesInFacts ==
  ASSUME NEW f \in FileType
  PROVE  /\ NamesIn(f) \in SUBSET Int /\ IsFiniteSet(NamesIn(f))
         /\ \A names : NamesIn(f) \subseteq Range(names) => KnownTo(names, f)
<1>1. f.name \in Int
  BY FileFacts
<1>2. PICK want \in Seq(RelType), offer \in Seq(RelType) : want = f.requires /\ offer = f.provides
  BY FileFacts
<1>3. /\ NamesOf(want) \in Seq(Int) /\ Len(NamesOf(want)) = Len(want)
      /\ \A k \in 1 .. Len(want) : NamesOf(want)[k] = want[k].name
  BY NamesOfFacts
<1>4. /\ NamesOf(offer) \in Seq(Int) /\ Len(NamesOf(offer)) = Len(offer)
      /\ \A k \in 1 .. Len(offer) : NamesOf(offer)[k] = offer[k].name
  BY NamesOfFacts
<1>5. PICK a \in Seq(Int), b \in Seq(Int) : a = NamesOf(want) /\ b = NamesOf(offer)
  BY <1>3, <1>4
<1>6. PICK A \in SUBSET Int, B \in SUBSET Int :
        A = Range(a) /\ B = Range(b) /\ IsFiniteSet(A) /\ IsFiniteSet(B)
  BY RangeIsFinite
<1>7. NamesIn(f) = {f.name} \cup A \cup B
  BY <1>2, <1>5, <1>6 DEF NamesIn
<1>8. IsFiniteSet({f.name} \cup A \cup B)
  BY <1>6, FS_Singleton, FS_Union
<1>9. \A k \in 1 .. Len(want) : want[k].name \in A
  BY <1>3, <1>5, <1>6, InRange
<1>10. \A k \in 1 .. Len(offer) : offer[k].name \in B
  BY <1>4, <1>5, <1>6, InRange
<1>11. ASSUME NEW names, NamesIn(f) \subseteq Range(names) PROVE KnownTo(names, f)
  BY <1>2, <1>7, <1>9, <1>10, <1>11 DEF KnownTo
<1>. QED BY <1>1, <1>6, <1>7, <1>8, <1>11

LEMMA NamesToAddFacts ==
  ASSUME enhanceWith \in Seq(FileType)
  PROVE  /\ NamesToAdd \in SUBSET Int /\ IsFiniteSet(NamesToAdd)
         /\ \A i \in 1 .. Len(enhanceWith) : NamesIn(enhanceWith[i]) \subseteq NamesToAdd
<1>1. PICK files, D : files = enhanceWith /\ D = 1 .. Len(files)
  OBVIOUS
<1>2. files \in Seq(FileType) /\ D = DOMAIN files /\ IsFiniteSet(D) /\ \A i \in D : files[i] \in FileType
  <2>1. files \in Seq(FileType)
    BY <1>1
  <2>2. Len(files) \in Nat /\ 1 \in Int /\ D = DOMAIN files /\ \A i \in D : files[i] \in FileType
    BY <1>1, <2>1
  <2>3. IsFiniteSet(D)
    BY <1>1, <2>2, FS_Interval
  <2>. QED BY <2>1, <2>2, <2>3
<1>3. PICK sets, S : sets = [i \in D |-> NamesIn(files[i])] /\ S = {sets[i] : i \in D}
  OBVIOUS
<1>4. IsFiniteSet(S)
  <2>1. sets \in Surjection(D, S)
    BY <1>3 DEF Surjection
  <2>. QED BY <1>2, <2>1, FS_Surjection
<1>5. ASSUME NEW i \in D
      PROVE  sets[i] = NamesIn(files[i]) /\ sets[i] \in SUBSET Int /\ IsFiniteSet(sets[i])
  <2>1. PICK f \in FileType : f = files[i]
    BY <1>2
  <2>2. NamesIn(f) \in SUBSET Int /\ IsFiniteSet(NamesIn(f))
    BY NamesInFacts
  <2>. QED BY <1>3, <2>1, <2>2
<1>6. IsFiniteSet(UNION S)
  <2>1. \A T \in S : IsFiniteSet(T)
    BY <1>3, <1>5
  <2>. QED BY <1>4, <2>1, FS_UNION
<1>7. NamesToAdd = UNION S
  <2>1. NamesToAdd = UNION {NamesIn(f) : f \in Range(files)}
    BY <1>1 DEF NamesToAdd, NamesIn
  <2>2. \A x : x \in {NamesIn(f) : f \in Range(files)} <=> x \in S
    BY <1>2, <1>3 DEF Range
  <2>3. {NamesIn(f) : f \in Range(files)} = S
    BY <2>2
  <2>. QED BY <2>1, <2>3
<1>8. UNION S \in SUBSET Int
  BY <1>3, <1>5
<1>9. \A i \in D : NamesIn(files[i]) \subseteq UNION S
  BY <1>3, <1>5
<1>. QED BY <1>1, <1>6, <1>7, <1>8, <1>9

\* enhance() begins: all names are sorted, nothing that is said changes.
LEMMA BeginEnhanceEffect ==
  ASSUME TypesInv, BeginEnhance
  PROVE  /\ TypesInv' /\ says' = says /\ Len(pkgs') = Len(pkgs)
         /\ enhanceWith = <<>> => UNCHANGED <<pkgNames, pkgs, relations>>
         /\ enhanceWith # <<>> => Sorted(pkgNames)'
<1>1. CASE enhanceWith = <<>>
  <2>1. UNCHANGED <<pkgNames, pkgs, relations, todo, enhanceWith, repoPkgs, installed>> /\ stage' = "enhanced"
    BY <1>1 DEF BeginEnhance, snapshotVars
  <2>2. Filled(pkgNames', relations', pkgs') /\ says' = says /\ Len(pkgs') = Len(pkgs)
    BY <2>1 DEF TypesInv, says
  <2>. QED BY <1>1, <2>1, <2>2 DEF TypesInv
<1>2. CASE enhanceWith # <<>>
  <2>1. PICK names, rels, entries, files : names = pkgNames /\ rels = relations /\ entries = pkgs /\ files = enhanceWith
    OBVIOUS
  <2>2. PICK names2, rels2, entries2 : names2 = pkgNames' /\ rels2 = relations' /\ entries2 = pkgs'
    OBVIOUS
  <2>3. Filled(names, rels, entries) /\ names \in Seq(Int) /\ files \in Seq(FileType) /\ enhanceWith \in Seq(FileType)
    BY <2>1 DEF TypesInv, Filled
  <2>4. PICK add, had : add = NamesToAdd /\ had = Range(names)
    OBVIOUS
  <2>5. /\ add \in SUBSET Int /\ IsFiniteSet(add)
        /\ \A i \in 1 .. Len(files) : NamesIn(files[i]) \subseteq add
    BY <2>1, <2>3, <2>4, NamesToAddFacts
  <2>6. had \in SUBSET Int /\ IsFiniteSet(had)
    BY <2>3, <2>4, RangeIsFinite
  <2>7. PICK all \in SUBSET Int : all = had \cup add /\ IsFiniteSet(all)
    BY <2>5, <2>6, FS_Union
  <2>8. names2 = Ascending(all)
    BY <1>2, <2>1, <2>2, <2>4, <2>7 DEF BeginEnhance
  <2>9. names2 \in Seq(Int) /\ NoTwice(names2) /\ Sorted(names2) /\ Range(names2) = all
    BY <2>7, <2>8, SortedNamesFacts
  <2>10. rels2 = Renumbered(names, names2, rels) /\ entries2 = Renumbered(names, names2, entries)
    BY <1>2, <2>1, <2>2 DEF BeginEnhance, Rearranged, Renumbered
  <2>11. Range(names) \subseteq Range(names2)
    BY <2>4, <2>7, <2>9
  <2>12. /\ Filled(names2, rels2, entries2)
         /\ Len(entries2) = Len(entries)
         /\ Says(names2, rels2, entries2) = Says(names, rels, entries)
    BY <2>3, <2>9, <2>10, <2>11, FilledRenumbered
  <2>13. ASSUME NEW i \in 1 .. Len(files) PROVE KnownTo(names2, files[i])
    <3>1. PICK f \in FileType : f = files[i]
      BY <2>3
    <3>2. NamesIn(f) \subseteq Range(names2)
      BY <2>5, <2>7, <2>9, <3>1
    <3>. QED BY <3>1, <3>2, NamesInFacts
  <2>14. stage' = "enhancing" /\ todo' = files /\ UNCHANGED <<repoPkgs, installed, enhanceWith>>
    BY <1>2, <2>1 DEF BeginEnhance
  <2>15. TypesInv'
    <3>1. Filled(pkgNames', relations', pkgs')
      BY <2>2, <2>12
    <3>2. \A i \in 1 .. Len(todo') : KnownTo(pkgNames', todo'[i])
      BY <2>2, <2>13, <2>14
    <3>. QED BY <2>3, <2>14, <3>1, <3>2 DEF TypesInv
  <2>16. Sorted(pkgNames)'
    BY <2>2, <2>9 DEF Sorted
  <2>. QED BY <1>2, <2>1, <2>2, <2>12, <2>15, <2>16 DEF says
<1>. QED BY <1>1, <1>2

-----------------------------------------------------------------------------
\* addProvidesForEnhancing(): the files whose names are known, and no other.
LEMMA FileProvidesFacts ==
  ASSUME pkgNames \in Seq(Int), NEW f \in FileType
  PROVE  /\ FileProvides(f) \in Seq(RelType)
         /\ \A k \in 1 .. Len(FileProvides(f)) :
              FileProvides(f)[k].name \in Range(pkgNames) /\ FileProvides(f)[k].name \in Range(f.files)
         /\ \A n \in Range(f.files) : n \in Range(pkgNames) =>
              \E k \in 1 .. Len(FileProvides(f)) : FileProvides(f)[k].name = n
<1>1. PICK known : known = Range(pkgNames)
  OBVIOUS
<1>2. PICK files \in Seq(Int) : files = f.files
  BY FileFacts
<1>3. PICK places : places = {i \in DOMAIN files : files[i] \in known}
  OBVIOUS
<1>30. places \in SUBSET (1 .. Len(files)) /\ DOMAIN files = 1 .. Len(files)
  BY <1>3
<1>4. PICK picked : picked = SelectAt(files, places)
  OBVIOUS
<1>5. /\ picked \in Seq(Int)
      /\ \A k \in 1 .. Len(picked) : Ascending(places)[k] \in places /\ picked[k] = files[Ascending(places)[k]]
      /\ \A i \in places : \E k \in 1 .. Len(picked) : Ascending(places)[k] = i /\ picked[k] = files[i]
  <2>1. ArePicked(SelectAt(files, places), files, places)
    BY <1>30, SelectedNumbers
  <2>2. ArePicked(picked, files, places)
    BY <2>1, <1>4
  <2>. QED BY <2>2 DEF ArePicked
<1>6. \A k \in 1 .. Len(picked) : picked[k] \in known /\ picked[k] \in Range(files)
  BY <1>3, <1>30, <1>5, InRange
<1>7. ASSUME NEW n \in Range(files), n \in known PROVE \E k \in 1 .. Len(picked) : picked[k] = n
  <2>1. PICK i \in DOMAIN files : files[i] = n
    BY DEF Range
  <2>2. i \in places
    BY <1>3, <1>7, <2>1
  <2>. QED BY <1>5, <2>1, <2>2
<1>8. FileProvides(f) = [i \in DOMAIN picked |-> [name |-> picked[i], ver |-> 0]]
  BY <1>1, <1>2, <1>3, <1>4 DEF FileProvides
<1>9. DOMAIN picked = 1 .. Len(picked) /\ Len(picked) \in Nat
  BY <1>5
<1>10. FileProvides(f) \in [1 .. Len(picked) -> RelType]
  BY <1>5, <1>8, <1>9 DEF RelType
<1>11. FileProvides(f) \in Seq(RelType) /\ Len(FileProvides(f)) = Len(picked)
  BY <1>9, <1>10, FunctionIsSeq
<1>12. \A k \in 1 .. Len(picked) : FileProvides(f)[k].name = picked[k]
  BY <1>8, <1>9
<1>. QED BY <1>1, <1>2, <1>6, <1>7, <1>11, <1>12

\* enhance() goes on: a package of the system is registered as it was read,
\* with its files of known names among the provides.
LEMMA EnhanceWithOneEffect ==
  ASSUME TypesInv, EnhanceWithOne
  PROVE  /\ TypesInv'
         /\ Head(todo) \in FileType /\ todo' = Tail(todo)
         /\ says' = Append(says, Told(Head(todo), TRUE, Head(todo).provides \o FileProvides(Head(todo))))
<1>1. /\ todo \in Seq(FileType) /\ todo # <<>> /\ pkgNames \in Seq(Int)
      /\ \A i \in 1 .. Len(todo) : KnownTo(pkgNames, todo[i])
  BY DEF TypesInv, Filled, EnhanceWithOne
<1>2. PICK f \in FileType : f = Head(todo)
  BY <1>1, TakenFacts
<1>3. KnownTo(pkgNames, f)
  <2>1. f = todo[1] /\ 1 \in 1 .. Len(todo)
    BY <1>1, <1>2, TakenFacts
  <2>. QED BY <1>1, <2>1
<1>4. Tail(todo) \in Seq(FileType) /\ \A i \in 1 .. Len(Tail(todo)) : KnownTo(pkgNames, Tail(todo)[i])
  <2>1. /\ Tail(todo) \in Seq(FileType) /\ Len(todo) \in Nat /\ Len(Tail(todo)) = Len(todo) - 1
        /\ \A i \in 1 .. Len(todo) - 1 : Tail(todo)[i] = todo[i + 1]
    BY <1>1, TakenFacts
  <2>2. ASSUME NEW i \in 1 .. Len(Tail(todo)) PROVE KnownTo(pkgNames, Tail(todo)[i])
    <3>1. PICK j \in 1 .. Len(todo) : j = i + 1
      BY <2>1
    <3>2. Tail(todo)[i] = todo[j]
      BY <2>1, <3>1
    <3>. QED BY <1>1, <3>2
  <2>. QED BY <2>1, <2>2
<1>5. PICK names, rels, entries, entries2, rels2 :
        /\ names = pkgNames /\ rels = relations /\ entries = pkgs
        /\ entries2 = pkgs' /\ rels2 = relations'
  OBVIOUS
<1>6. Filled(names, rels, entries) /\ names \in Seq(Int) /\ NoTwice(names) /\ WellRelated(names, rels)
  BY <1>5 DEF TypesInv, Filled
<1>7. PICK want \in Seq(RelType), offer1 \in Seq(RelType), offer2 \in Seq(RelType) :
        want = f.requires /\ offer1 = f.provides /\ offer2 = FileProvides(f)
  BY <1>1, FileFacts, FileProvidesFacts
<1>8. PICK offer : offer = offer1 \o offer2
  OBVIOUS
<1>9. /\ offer \in Seq(RelType) /\ Len(offer1) \in Nat /\ Len(offer2) \in Nat
      /\ Len(offer) = Len(offer1) + Len(offer2)
      /\ \A i \in 1 .. Len(offer1) : offer[i] = offer1[i]
      /\ \A k \in 1 .. Len(offer2) : offer[Len(offer1) + k] = offer2[k]
  BY <1>8, JoinedFacts
<1>10. ASSUME NEW i \in 1 .. Len(offer) PROVE offer[i].name \in Range(names)
  <2>1. CASE i \in 1 .. Len(offer1)
    BY <1>3, <1>5, <1>7, <1>9, <2>1 DEF KnownTo
  <2>2. CASE i \notin 1 .. Len(offer1)
    <3>1. i - Len(offer1) \in 1 .. Len(offer2) /\ i = Len(offer1) + (i - Len(offer1))
      BY <1>9, <2>2
    <3>2. PICK k \in 1 .. Len(offer2) : i = Len(offer1) + k
      BY <3>1
    <3>3. offer2[k].name \in Range(names)
      BY <1>1, <1>5, <1>7, FileProvidesFacts
    <3>. QED BY <1>9, <3>2, <3>3
  <2>. QED BY <2>1, <2>2
<1>11. Len(rels) \in Nat /\ Len(want) \in Nat /\ Len(offer) \in Nat
  BY <1>6, <1>9 DEF WellRelated
<1>12. PICK pos1, pos2 :
         /\ pos1 \in Nat /\ pos1 <= Len(rels) /\ (Len(want) > 0 => pos1 = Len(rels))
         /\ pos2 = Len(rels) + Len(want)
         /\ Span(Len(rels), Len(want)) = [pos |-> pos1, count |-> Len(want)]
  <2>1. PICK count, start : count = Len(want) /\ start = Len(rels)
    OBVIOUS
  <2>2. /\ Span(start, count) = [pos |-> Span(start, count).pos, count |-> count]
        /\ Span(start, count).pos \in Nat /\ Span(start, count).pos <= start
        /\ count > 0 => Span(start, count).pos = start
    BY <1>11, <2>1, SpanFacts
  <2>3. PICK pos1 : pos1 = Span(start, count).pos
    OBVIOUS
  <2>. QED BY <2>1, <2>2, <2>3
<1>13. PICK p : p = EntryFor(names, f.name, f.ver, TRUE, want, pos1, offer, pos2)
  OBVIOUS
<1>14. rels2 = rels \o ToRelations(names, want \o offer) /\ entries2 = Append(entries, p)
  BY <1>2, <1>5, <1>7, <1>8, <1>12, <1>13 DEF EnhanceWithOne, EntryFor
<1>15. f.name \in Range(names) /\ \A k \in 1 .. Len(want) : want[k].name \in Range(names)
  BY <1>3, <1>5, <1>7 DEF KnownTo
<1>16. f.ver \in Nat
  BY FileFacts
<1>17. MayEnter(names, rels, f.name, f.ver, TRUE, want, pos1, offer, pos2)
  BY <1>6, <1>9, <1>10, <1>11, <1>12, <1>15, <1>16 DEF MayEnter
<1>18. HasEntered(names, rels, rels2, f.name, f.ver, TRUE, want, offer, p)
  BY <1>13, <1>14, <1>17, NewEntry
<1>19. /\ WellRelated(names, rels2) /\ Begins(rels, rels2) /\ WellPlaced(p, names, rels2)
       /\ Reading(names, rels2, p) = Told(f, TRUE, offer)
  BY <1>7, <1>18 DEF HasEntered, Told
<1>20. Begins(names, names)
  BY <1>6 DEF Begins
<1>21. Grows(names, rels, entries, names, rels2, p)
  BY <1>6, <1>19, <1>20 DEF Grows
<1>22. /\ Filled(names, rels2, entries2)
       /\ Says(names, rels2, entries2) = Append(Says(names, rels, entries), Reading(names, rels2, p))
  BY <1>14, <1>21, FilledWithOneMore
<1>23. names = pkgNames'
  BY <1>5 DEF EnhanceWithOne
<1>24. says' = Append(says, Told(f, TRUE, f.provides \o FileProvides(f)))
  BY <1>5, <1>7, <1>8, <1>19, <1>22, <1>23 DEF says
<1>25. TypesInv'
  <2>1. Filled(pkgNames', relations', pkgs')
    BY <1>5, <1>22, <1>23
  <2>2. todo' = Tail(todo) /\ UNCHANGED <<stage, repoPkgs, installed, enhanceWith, pkgNames>>
    BY DEF EnhanceWithOne
  <2>3. \A i \in 1 .. Len(todo') : KnownTo(pkgNames', todo'[i])
    BY <1>4, <2>2
  <2>4. stage' = "enhancing"
    BY <2>2 DEF EnhanceWithOne
  <2>. QED BY <1>4, <2>1, <2>2, <2>3, <2>4 DEF TypesInv
<1>26. todo' = Tail(todo)
  BY DEF EnhanceWithOne
<1>. QED BY <1>2, <1>24, <1>25, <1>26

-----------------------------------------------------------------------------
(***************************************************************************)
(* Types, order and searches                                               *)
(***************************************************************************)

\* The steps that leave the snapshot alone.
Looks ==
  \/ NextInstalled
  \/ Named
  \/ InitMetadata
  \/ Ask
  \/ Located
  \/ Answered
  \/ Search /\ UNCHANGED <<stage, repoPkgs, systemVars, snapshotVars, mapVars, queryVars>>
  \/ UNCHANGED vars

LEMMA LooksEffect ==
  ASSUME TypesInv, Looks
  PROVE  /\ TypesInv' /\ says' = says /\ UNCHANGED <<pkgNames, pkgs, relations, repoPkgs, installed>>
<1>1. UNCHANGED <<pkgNames, pkgs, relations, repoPkgs, installed>>
  BY DEF Looks, NextInstalled, Named, InitMetadata, Ask, Located, Answered, vars, snapshotVars, systemVars
<1>2. Filled(pkgNames', relations', pkgs') /\ says' = says
  BY <1>1 DEF TypesInv, says
<1>3. CASE NextInstalled
  BY <1>1, <1>2, <1>3 DEF TypesInv, NextInstalled, systemVars
<1>4. CASE Named
  <2>1. todo \in Seq(FileType) /\ todo # <<>> /\ enhanceWith \in Seq(FileType)
    BY <1>4 DEF TypesInv, Named
  <2>2. Head(todo) \in FileType /\ Tail(todo) \in Seq(FileType)
    BY <2>1, TakenFacts
  <2>3. Append(enhanceWith, Head(todo)) \in Seq(FileType)
    BY <2>1, <2>2
  <2>. QED BY <1>1, <1>2, <1>4, <2>1, <2>2, <2>3 DEF TypesInv, Named
<1>5. CASE InitMetadata
  BY <1>1, <1>2, <1>5 DEF TypesInv, InitMetadata, systemVars
<1>6. CASE Ask
  BY <1>1, <1>2, <1>6 DEF TypesInv, Ask, systemVars
<1>7. CASE Located
  BY <1>1, <1>2, <1>7 DEF TypesInv, Located, systemVars
<1>8. CASE Answered
  BY <1>1, <1>2, <1>8 DEF TypesInv, Answered, systemVars
<1>9. CASE Search /\ UNCHANGED <<stage, repoPkgs, systemVars, snapshotVars, mapVars, queryVars>>
  BY <1>1, <1>2, <1>9 DEF TypesInv, systemVars
<1>10. CASE UNCHANGED vars
  BY <1>1, <1>2, <1>10 DEF TypesInv, systemVars, vars
<1>. QED BY <1>3, <1>4, <1>5, <1>6, <1>7, <1>8, <1>9, <1>10 DEF Looks

LEMMA RefusedEffect ==
  ASSUME TypesInv, Load, pkgs = <<>>
  PROVE  TypesInv' /\ stage' = "refused" /\ UNCHANGED <<pkgNames, pkgs, relations>> /\ says' = says
<1>1. UNCHANGED <<pkgNames, pkgs, relations, repoPkgs, installed, todo, enhanceWith>> /\ stage' = "refused"
  BY DEF Load
<1>2. Filled(pkgNames', relations', pkgs') /\ says' = says
  BY <1>1 DEF TypesInv, says
<1>. QED BY <1>1, <1>2 DEF TypesInv

LEMMA StepCases ==
  ASSUME [Next]_vars
  PROVE  \/ AddNewPkg \/ Rearrange \/ Load \/ MarkInstalled
         \/ BeginEnhance \/ EnhanceWithOne \/ EndEnhance \/ Looks
  BY DEF Next, Looks

LEMMA TypesStep ==
  ASSUME TypesInv, [Next]_vars
  PROVE  TypesInv'
  BY StepCases, AddNewPkgEffect, RearrangeEffect, LoadEffect, RefusedEffect, MarkInstalledEffect,
     BeginEnhanceEffect, EnhanceWithOneEffect, EndEnhanceEffect, LooksEffect

LEMMA TypesStart == Init => TypesInv
<1>. SUFFICES ASSUME Init PROVE TypesInv
  OBVIOUS
<1>1. repoPkgs \in Seq(FileType) /\ installed \in Seq(FileType) /\ NoneTwice(installed)
  BY ListsAssumption DEF Init, NoneTwice
<1>2. Filled(pkgNames, relations, pkgs)
  BY DEF Init, Filled, NoTwice, WellRelated
<1>. QED BY <1>1, <1>2 DEF Init, TypesInv

\* Names are in order once they are all known, and entries whenever the
\* package scope looks at them.
OrderInv ==
  /\ stage # "reading" => Sorted(pkgNames)
  /\ stage \notin {"reading", "enhancing"} => IdsInOrder(pkgs)

LEMMA OrderStep ==
  ASSUME TypesInv, OrderInv, [Next]_vars
  PROVE  OrderInv'
<1>1. CASE AddNewPkg
  BY <1>1 DEF OrderInv, AddNewPkg
<1>2. CASE Rearrange
  BY <1>2, RearrangeEffect DEF OrderInv
<1>3. CASE Load
  <2>1. stage = "saved" /\ pkgNames' = pkgNames
    BY <1>3 DEF Load
  <2>2. Sorted(pkgNames)' /\ IdsInOrder(pkgs)
    BY <2>1 DEF OrderInv, Sorted
  <2>3. CASE pkgs = <<>>
    BY <1>3, <2>2, <2>3, RefusedEffect DEF OrderInv, IdsInOrder
  <2>4. CASE pkgs # <<>>
    <3>1. PICK o : KeptBy(o)
      BY <1>3, <2>4, LoadEffect
    <3>2. ASSUME NEW i \in 1 .. Len(pkgs'), NEW j \in 1 .. Len(pkgs'), i < j
          PROVE  pkgs'[i].pkgId <= pkgs'[j].pkgId
      <4>1. /\ o[i] \in 1 .. Len(pkgs) /\ o[j] \in 1 .. Len(pkgs) /\ o[i] < o[j]
            /\ pkgs'[i] = pkgs[o[i]] /\ pkgs'[j] = pkgs[o[j]]
        BY <3>1, <3>2 DEF KeptBy, IsPickedBy
      <4>. QED BY <2>2, <4>1 DEF IdsInOrder
    <3>. QED BY <2>2, <3>2 DEF OrderInv, IdsInOrder
  <2>. QED BY <2>3, <2>4
<1>4. CASE MarkInstalled
  <2>1. Len(pkgs') = Len(pkgs) /\ \A i \in 1 .. Len(pkgs) : pkgs'[i].pkgId = pkgs[i].pkgId
    BY <1>4, MarkInstalledEffect
  <2>2. stage = "ranged" /\ pkgNames' = pkgNames
    BY <1>4 DEF MarkInstalled
  <2>. QED BY <2>1, <2>2 DEF OrderInv, IdsInOrder, Sorted
<1>5. CASE BeginEnhance
  <2>1. stage = "marking" /\ (enhanceWith # <<>> => stage' = "enhancing")
    BY <1>5 DEF BeginEnhance
  <2>2. /\ enhanceWith = <<>> => UNCHANGED <<pkgNames, pkgs, relations>>
        /\ enhanceWith # <<>> => Sorted(pkgNames)'
    BY <1>5, BeginEnhanceEffect
  <2>. QED BY <2>1, <2>2 DEF OrderInv, IdsInOrder, Sorted
<1>6. CASE EnhanceWithOne
  BY <1>6 DEF OrderInv, EnhanceWithOne, Sorted
<1>7. CASE EndEnhance
  <2>1. stage = "enhancing" /\ pkgNames' = pkgNames
    BY <1>7 DEF EndEnhance
  <2>. QED BY <1>7, <2>1, EndEnhanceEffect DEF OrderInv, Sorted
<1>8. CASE Looks
  <2>1. UNCHANGED <<pkgNames, pkgs, relations, repoPkgs, installed>>
    BY <1>8, LooksEffect
  <2>2. stage' \in {"reading", "enhancing"} \/ stage \notin {"reading", "enhancing"}
    BY <1>8 DEF Looks, NextInstalled, Named, InitMetadata, Ask, Located, Answered, vars
  <2>3. stage = "reading" => stage' = "reading"
    BY <1>8 DEF Looks, NextInstalled, Named, InitMetadata, Ask, Located, Answered, vars
  <2>. QED BY <2>1, <2>2, <2>3 DEF OrderInv, IdsInOrder, Sorted
<1>. QED BY <1>1, <1>2, <1>3, <1>4, <1>5, <1>6, <1>7, <1>8, StepCases

-----------------------------------------------------------------------------
(***************************************************************************)
(* The reverse maps                                                        *)
(***************************************************************************)

ItemType == [first : Nat, second : Nat]

LEMMA SortedItemsFacts ==
  ASSUME NEW items \in SUBSET ItemType, IsFiniteSet(items)
  PROVE  /\ SortedItems(items) \in Seq(ItemType)
         /\ Range(SortedItems(items)) = items
         /\ \A i, j \in 1 .. Len(SortedItems(items)) :
              i < j => SortedItems(items)[i].first <= SortedItems(items)[j].first
<1>1. PICK before : before = {pair \in items \X items :
        \/ pair[1].first < pair[2].first
        \/ pair[1].first = pair[2].first /\ pair[1].second < pair[2].second}
  OBVIOUS
<1>2. \A x, y \in items : <<x, y>> \in before <=>
        \/ x.first < y.first
        \/ x.first = y.first /\ x.second < y.second
  BY <1>1
<1>3. \A x \in items : x.first \in Nat /\ x.second \in Nat /\ x = [first |-> x.first, second |-> x.second]
  BY DEF ItemType
<1>4. StrictOrder(before, items)
  <2>1. \A x \in items : <<x, x>> \notin before
    BY <1>2, <1>3
  <2>2. \A x, y, z \in items : <<x, y>> \in before /\ <<y, z>> \in before => <<x, z>> \in before
    BY <1>2, <1>3
  <2>3. ASSUME NEW x \in items, NEW y \in items, x # y PROVE <<x, y>> \in before \/ <<y, x>> \in before
    <3>1. x.first # y.first \/ x.second # y.second
      BY <1>3, <2>3
    <3>. QED BY <1>2, <1>3, <3>1
  <2>. QED BY <2>1, <2>2, <2>3 DEF StrictOrder
<1>5. PICK sorted : sorted = SortedItems(items)
  OBVIOUS
<1>6. sorted = Ordered(items, before)
  BY <1>1, <1>5 DEF SortedItems
<1>7. /\ Cardinality(items) \in Nat
      /\ sorted \in [1 .. Cardinality(items) -> items]
      /\ \A x \in items : \E k \in 1 .. Cardinality(items) : sorted[k] = x
      /\ \A i, j \in 1 .. Cardinality(items) : i < j => <<sorted[i], sorted[j]>> \in before
  BY <1>4, <1>6, OrderedFacts
<1>8. sorted \in [1 .. Cardinality(items) -> ItemType]
  BY <1>7
<1>9. sorted \in Seq(ItemType) /\ Len(sorted) = Cardinality(items)
  BY <1>7, <1>8, FunctionIsSeq
<1>10. Range(sorted) = items
  BY <1>7 DEF Range
<1>11. \A i, j \in 1 .. Len(sorted) : i < j => sorted[i].first <= sorted[j].first
  <2>. SUFFICES ASSUME NEW i \in 1 .. Len(sorted), NEW j \in 1 .. Len(sorted), i < j
                PROVE  sorted[i].first <= sorted[j].first
    OBVIOUS
  <2>1. PICK x \in items, y \in items : x = sorted[i] /\ y = sorted[j]
    BY <1>7, <1>9
  <2>2. <<x, y>> \in before
    BY <1>7, <1>9, <2>1
  <2>. QED BY <1>2, <1>3, <2>1, <2>2
<1>. QED BY <1>5, <1>9, <1>10, <1>11

\* The span names the PkgId.
Names(span, id) == \E k \in 1 .. span.count : relations[span.pos + k].pkgId = id

LEMMA RelatedFacts ==
  ASSUME relations \in Seq(RelationType), NEW span \in SpanType, span.pos + span.count <= Len(relations)
  PROVE  /\ DOMAIN Related(span) = 1 .. span.count
         /\ \A k \in 1 .. span.count :
              /\ span.pos + k \in 1 .. Len(relations)
              /\ Related(span)[k] = relations[span.pos + k]
<1>1. PICK rels, a, b : rels = relations /\ a = span.pos + 1 /\ b = span.pos + span.count
  OBVIOUS
<1>2. rels \in Seq(RelationType) /\ Len(rels) \in Nat /\ a \in 1 .. Len(rels) + 1 /\ b \in 0 .. Len(rels)
  BY <1>1 DEF SpanType
<1>3. span.pos \in Nat /\ span.count \in Nat
  BY DEF SpanType
<1>4. Related(span) = SubSeq(rels, a, b)
  BY <1>1 DEF Related
<1>5. /\ DOMAIN SubSeq(rels, a, b) = 1 .. b + 1 - a
      /\ \A k \in 1 .. b + 1 - a : SubSeq(rels, a, b)[k] = rels[a + k - 1]
  BY <1>2
<1>6. b + 1 - a = span.count
  BY <1>1, <1>3
<1>7. \A k \in 1 .. span.count : a + k - 1 = span.pos + k /\ span.pos + k \in 1 .. Len(rels)
  BY <1>1, <1>2, <1>3
<1>. QED BY <1>1, <1>4, <1>5, <1>6, <1>7

LEMMA RevMapItemsFacts ==
  ASSUME relations \in Seq(RelationType), NEW span \in SpanType, span.pos + span.count <= Len(relations),
         NEW i \in Nat \ {0}
  PROVE  /\ Range(RevMapItems(i, span)) \in SUBSET ItemType
         /\ IsFiniteSet(Range(RevMapItems(i, span)))
         /\ \A item : item \in Range(RevMapItems(i, span)) <=>
              item \in ItemType /\ item.second = i - 1 /\ Names(span, item.first)
<1>1. /\ DOMAIN Related(span) = 1 .. span.count
      /\ \A k \in 1 .. span.count :
           /\ span.pos + k \in 1 .. Len(relations)
           /\ Related(span)[k] = relations[span.pos + k]
  BY RelatedFacts
<1>2. PICK items, D : items = RevMapItems(i, span) /\ D = 1 .. span.count
  OBVIOUS
<1>3. items = [k \in D |-> [first |-> relations[span.pos + k].pkgId, second |-> i - 1]]
  BY <1>1, <1>2 DEF RevMapItems
<1>4. ASSUME NEW k \in D
      PROVE items[k] \in ItemType /\ items[k].first = relations[span.pos + k].pkgId /\ items[k].second = i - 1
  <2>1. relations[span.pos + k] \in RelationType
    BY <1>1, <1>2
  <2>2. relations[span.pos + k].pkgId \in Nat /\ i - 1 \in Nat
    BY <2>1 DEF RelationType
  <2>. QED BY <1>3, <2>2 DEF ItemType
<1>5. \A item : item \in Range(items) <=> \E k \in D : items[k] = item
  BY <1>3 DEF Range
<1>6. IsFiniteSet(D)
  <2>1. span.count \in Nat /\ 1 \in Int
    BY DEF SpanType
  <2>. QED BY <1>2, <2>1, FS_Interval
<1>7. IsFiniteSet(Range(items))
  <2>1. items \in Surjection(D, Range(items))
    BY <1>3, <1>5 DEF Surjection
  <2>. QED BY <1>6, <2>1, FS_Surjection
<1>8. ASSUME NEW item
      PROVE  item \in Range(items) <=> item \in ItemType /\ item.second = i - 1 /\ Names(span, item.first)
  <2>1. ASSUME item \in Range(items) PROVE item \in ItemType /\ item.second = i - 1 /\ Names(span, item.first)
    <3>1. PICK k \in D : items[k] = item
      BY <1>5, <2>1
    <3>. QED BY <1>2, <1>4, <3>1 DEF Names
  <2>2. ASSUME item \in ItemType, item.second = i - 1, Names(span, item.first) PROVE item \in Range(items)
    <3>1. PICK k \in D : relations[span.pos + k].pkgId = item.first
      BY <1>2, <2>2 DEF Names
    <3>2. item = items[k]
      BY <1>4, <2>2, <3>1 DEF ItemType
    <3>. QED BY <1>5, <3>2
  <2>. QED BY <2>1, <2>2
<1>. QED BY <1>2, <1>4, <1>5, <1>7, <1>8

\* The maps hold what their packages provide and require, by PkgId.
Provided(item) ==
  /\ item \in ItemType
  /\ item.second < Len(pkgs)
  /\ Names(pkgs[item.second + 1].provides, item.first)

Required(item) ==
  /\ item \in ItemType
  /\ item.second < Len(pkgs)
  /\ pkgs[item.second + 1].installed
  /\ Names(pkgs[item.second + 1].requires, item.first)

LEMMA FillProvidesFacts ==
  ASSUME TypesInv
  PROVE  /\ fillRevMapProvides \in Seq(ItemType)
         /\ \A item : item \in Range(fillRevMapProvides) <=> Provided(item)
         /\ \A i, j \in 1 .. Len(fillRevMapProvides) :
              i < j => fillRevMapProvides[i].first <= fillRevMapProvides[j].first
<1>1. PICK D, sets, S :
        /\ D = 1 .. Len(pkgs)
        /\ sets = [i \in D |-> Range(RevMapItems(i, pkgs[i].provides))]
        /\ S = {sets[i] : i \in D}
  OBVIOUS
<1>2. D = DOMAIN pkgs /\ IsFiniteSet(D) /\ D \subseteq Nat \ {0} /\ Len(pkgs) \in Nat
  <2>1. D = DOMAIN pkgs /\ D \subseteq Nat \ {0} /\ Len(pkgs) \in Nat /\ 1 \in Int
    BY <1>1 DEF TypesInv, Filled
  <2>2. IsFiniteSet(D)
    BY <1>1, <2>1, FS_Interval
  <2>. QED BY <2>1, <2>2
<1>3. ASSUME NEW i \in D
      PROVE  /\ sets[i] \in SUBSET ItemType /\ IsFiniteSet(sets[i])
             /\ \A item : item \in sets[i] <=>
                  item \in ItemType /\ item.second = i - 1 /\ Names(pkgs[i].provides, item.first)
  <2>1. WellPlaced(pkgs[i], pkgNames, relations) /\ relations \in Seq(RelationType)
    BY <1>1 DEF TypesInv, Filled, WellRelated
  <2>2. pkgs[i].provides \in SpanType /\ pkgs[i].provides.pos + pkgs[i].provides.count <= Len(relations)
    BY <2>1, PkgFacts DEF WellPlaced
  <2>3. PICK span \in SpanType : span = pkgs[i].provides
    BY <2>2
  <2>4. /\ Range(RevMapItems(i, span)) \in SUBSET ItemType
        /\ IsFiniteSet(Range(RevMapItems(i, span)))
        /\ \A item : item \in Range(RevMapItems(i, span)) <=>
             item \in ItemType /\ item.second = i - 1 /\ Names(span, item.first)
    BY <1>2, <2>1, <2>2, <2>3, RevMapItemsFacts
  <2>5. sets[i] = Range(RevMapItems(i, span))
    BY <1>1, <2>3
  <2>. QED BY <2>3, <2>4, <2>5
<1>4. PICK items : items = UNION S
  OBVIOUS
<1>5. IsFiniteSet(items)
  <2>1. sets \in Surjection(D, S)
    BY <1>1 DEF Surjection
  <2>2. IsFiniteSet(S)
    BY <1>2, <2>1, FS_Surjection
  <2>3. \A T \in S : IsFiniteSet(T)
    BY <1>1, <1>3
  <2>. QED BY <1>4, <2>2, <2>3, FS_UNION
<1>6. items \in SUBSET ItemType
  BY <1>1, <1>3, <1>4
<1>7. ASSUME NEW item PROVE item \in items <=> Provided(item)
  <2>1. ASSUME item \in items PROVE Provided(item)
    <3>1. PICK i \in D : item \in sets[i]
      BY <1>1, <1>4, <2>1
    <3>2. item \in ItemType /\ item.second = i - 1 /\ Names(pkgs[i].provides, item.first)
      BY <1>3, <3>1
    <3>3. item.second + 1 = i /\ item.second < Len(pkgs)
      BY <1>1, <1>2, <3>2
    <3>. QED BY <3>2, <3>3 DEF Provided
  <2>2. ASSUME Provided(item) PROVE item \in items
    <3>1. item \in ItemType /\ item.second < Len(pkgs) /\ Names(pkgs[item.second + 1].provides, item.first)
      BY <2>2 DEF Provided
    <3>2. item.second \in Nat
      BY <3>1 DEF ItemType
    <3>3. PICK i \in D : i = item.second + 1
      BY <1>1, <1>2, <3>1, <3>2
    <3>4. item.second = i - 1
      BY <3>2, <3>3
    <3>5. item \in sets[i]
      BY <1>3, <3>1, <3>3, <3>4
    <3>. QED BY <1>1, <1>4, <3>5
  <2>. QED BY <2>1, <2>2
<1>8. fillRevMapProvides = SortedItems(items)
  <2>1. \A x : x \in {Range(RevMapItems(i, pkgs[i].provides)) : i \in DOMAIN pkgs} <=> x \in S
    BY <1>1, <1>2
  <2>2. {Range(RevMapItems(i, pkgs[i].provides)) : i \in DOMAIN pkgs} = S
    BY <2>1
  <2>. QED BY <1>4, <2>2 DEF fillRevMapProvides
<1>9. /\ SortedItems(items) \in Seq(ItemType)
      /\ Range(SortedItems(items)) = items
      /\ \A i, j \in 1 .. Len(SortedItems(items)) :
           i < j => SortedItems(items)[i].first <= SortedItems(items)[j].first
  BY <1>5, <1>6, SortedItemsFacts
<1>. QED BY <1>7, <1>8, <1>9

LEMMA FillRequiresFacts ==
  ASSUME TypesInv
  PROVE  /\ fillRevMapRequires \in Seq(ItemType)
         /\ \A item : item \in Range(fillRevMapRequires) <=> Required(item)
         /\ \A i, j \in 1 .. Len(fillRevMapRequires) :
              i < j => fillRevMapRequires[i].first <= fillRevMapRequires[j].first
<1>1. PICK D, sets, S :
        /\ D = {i \in DOMAIN pkgs : pkgs[i].installed}
        /\ sets = [i \in D |-> Range(RevMapItems(i, pkgs[i].requires))]
        /\ S = {sets[i] : i \in D}
  OBVIOUS
<1>2. /\ Len(pkgs) \in Nat /\ DOMAIN pkgs = 1 .. Len(pkgs)
      /\ D \subseteq 1 .. Len(pkgs) /\ D \subseteq Nat \ {0} /\ IsFiniteSet(D)
  <2>1. /\ DOMAIN pkgs = 1 .. Len(pkgs) /\ Len(pkgs) \in Nat /\ 1 \in Int
        /\ D \subseteq 1 .. Len(pkgs) /\ D \subseteq Nat \ {0}
    BY <1>1 DEF TypesInv, Filled
  <2>2. PICK n : n = Len(pkgs)
    OBVIOUS
  <2>3. IsFiniteSet(1 .. n)
    BY <2>1, <2>2, FS_Interval
  <2>4. IsFiniteSet(D)
    BY <2>1, <2>2, <2>3, FS_Subset
  <2>. QED BY <2>1, <2>4
<1>3. ASSUME NEW i \in D
      PROVE  /\ sets[i] \in SUBSET ItemType /\ IsFiniteSet(sets[i])
             /\ \A item : item \in sets[i] <=>
                  item \in ItemType /\ item.second = i - 1 /\ Names(pkgs[i].requires, item.first)
  <2>1. WellPlaced(pkgs[i], pkgNames, relations) /\ relations \in Seq(RelationType)
    BY <1>2 DEF TypesInv, Filled, WellRelated
  <2>2. pkgs[i].requires \in SpanType /\ pkgs[i].requires.pos + pkgs[i].requires.count <= Len(relations)
    BY <2>1, PkgFacts DEF WellPlaced
  <2>3. PICK span \in SpanType : span = pkgs[i].requires
    BY <2>2
  <2>4. /\ Range(RevMapItems(i, span)) \in SUBSET ItemType
        /\ IsFiniteSet(Range(RevMapItems(i, span)))
        /\ \A item : item \in Range(RevMapItems(i, span)) <=>
             item \in ItemType /\ item.second = i - 1 /\ Names(span, item.first)
    BY <1>2, <2>1, <2>2, <2>3, RevMapItemsFacts
  <2>5. sets[i] = Range(RevMapItems(i, span))
    BY <1>1, <2>3
  <2>. QED BY <2>3, <2>4, <2>5
<1>4. PICK items : items = UNION S
  OBVIOUS
<1>5. IsFiniteSet(items)
  <2>1. sets \in Surjection(D, S)
    BY <1>1 DEF Surjection
  <2>2. IsFiniteSet(S)
    BY <1>2, <2>1, FS_Surjection
  <2>3. \A T \in S : IsFiniteSet(T)
    BY <1>1, <1>3
  <2>. QED BY <1>4, <2>2, <2>3, FS_UNION
<1>6. items \in SUBSET ItemType
  BY <1>1, <1>3, <1>4
<1>7. ASSUME NEW item PROVE item \in items <=> Required(item)
  <2>1. ASSUME item \in items PROVE Required(item)
    <3>1. PICK i \in D : item \in sets[i]
      BY <1>1, <1>4, <2>1
    <3>2. item \in ItemType /\ item.second = i - 1 /\ Names(pkgs[i].requires, item.first)
      BY <1>3, <3>1
    <3>3. item.second + 1 = i /\ item.second < Len(pkgs) /\ pkgs[i].installed
      BY <1>1, <1>2, <3>2
    <3>. QED BY <3>2, <3>3 DEF Required
  <2>2. ASSUME Required(item) PROVE item \in items
    <3>1. /\ item \in ItemType /\ item.second < Len(pkgs) /\ pkgs[item.second + 1].installed
          /\ Names(pkgs[item.second + 1].requires, item.first)
      BY <2>2 DEF Required
    <3>2. item.second \in Nat
      BY <3>1 DEF ItemType
    <3>3. PICK i \in D : i = item.second + 1
      <4>1. PICK j \in 1 .. Len(pkgs) : j = item.second + 1
        BY <1>2, <3>1, <3>2
      <4>. QED BY <1>1, <1>2, <3>1, <4>1
    <3>4. item.second = i - 1
      BY <3>2, <3>3
    <3>5. item \in sets[i]
      BY <1>3, <3>1, <3>3, <3>4
    <3>. QED BY <1>1, <1>4, <3>5
  <2>. QED BY <2>1, <2>2
<1>8. fillRevMapRequires = SortedItems(items)
  <2>1. \A x : x \in {Range(RevMapItems(i, pkgs[i].requires)) : i \in D} <=> x \in S
    BY <1>1
  <2>2. {Range(RevMapItems(i, pkgs[i].requires)) : i \in D} = S
    BY <2>1
  <2>. QED BY <1>1, <1>4, <2>2 DEF fillRevMapRequires
<1>9. /\ SortedItems(items) \in Seq(ItemType)
      /\ Range(SortedItems(items)) = items
      /\ \A i, j \in 1 .. Len(SortedItems(items)) :
           i < j => SortedItems(items)[i].first <= SortedItems(items)[j].first
  BY <1>5, <1>6, SortedItemsFacts
<1>. QED BY <1>7, <1>8, <1>9

FirstsInOrder(map) == \A i, j \in 1 .. Len(map) : i < j => map[i].first <= map[j].first

Mapped == {"ready", "located", "required", "providers", "end", "abort"}

\* Once built, the maps stay what they are.
MapsInv ==
  stage \in Mapped =>
    /\ revMapProvides \in Seq(ItemType) /\ FirstsInOrder(revMapProvides)
    /\ \A item : item \in Range(revMapProvides) <=> Provided(item)
    /\ revMapInstalledRequires \in Seq(ItemType) /\ FirstsInOrder(revMapInstalledRequires)
    /\ \A item : item \in Range(revMapInstalledRequires) <=> Required(item)

LEMMA MapsStay ==
  ASSUME MapsInv, stage \in Mapped, UNCHANGED <<pkgs, relations, revMapProvides, revMapInstalledRequires>>
  PROVE  MapsInv'
<1>1. ASSUME NEW item PROVE (Provided(item) <=> Provided(item)') /\ (Required(item) <=> Required(item)')
  BY DEF Provided, Required, Names
<1>. QED BY <1>1 DEF MapsInv, FirstsInOrder

LEMMA MapsStep ==
  ASSUME TypesInv, MapsInv, [Next]_vars
  PROVE  MapsInv'
<1>1. CASE InitMetadata
  <2>1. /\ revMapProvides' = fillRevMapProvides /\ revMapInstalledRequires' = fillRevMapRequires
        /\ UNCHANGED <<pkgs, relations>>
    BY <1>1 DEF InitMetadata, snapshotVars
  <2>2. /\ fillRevMapProvides \in Seq(ItemType)
        /\ \A item : item \in Range(fillRevMapProvides) <=> Provided(item)
        /\ FirstsInOrder(fillRevMapProvides)
    BY FillProvidesFacts DEF FirstsInOrder
  <2>3. /\ fillRevMapRequires \in Seq(ItemType)
        /\ \A item : item \in Range(fillRevMapRequires) <=> Required(item)
        /\ FirstsInOrder(fillRevMapRequires)
    BY FillRequiresFacts DEF FirstsInOrder
  <2>4. ASSUME NEW item PROVE (Provided(item) <=> Provided(item)') /\ (Required(item) <=> Required(item)')
    BY <2>1 DEF Provided, Required, Names
  <2>5. PICK a, b : a = revMapProvides' /\ b = revMapInstalledRequires'
    OBVIOUS
  <2>6. /\ a \in Seq(ItemType) /\ FirstsInOrder(a)
        /\ b \in Seq(ItemType) /\ FirstsInOrder(b)
        /\ \A item : item \in Range(a) <=> Provided(item)'
        /\ \A item : item \in Range(b) <=> Required(item)'
    BY <2>1, <2>2, <2>3, <2>4, <2>5
  <2>. QED BY <2>5, <2>6 DEF MapsInv, FirstsInOrder
<1>2. CASE Looks /\ ~ InitMetadata
  <2>1. UNCHANGED <<pkgs, relations, revMapProvides, revMapInstalledRequires>>
    BY <1>2, LooksEffect
       DEF Looks, NextInstalled, Named, Ask, Located, Answered, vars, mapVars
  <2>2. stage' \in Mapped => stage \in Mapped
    BY <1>2 DEF Looks, NextInstalled, Named, Ask, Located, Answered, vars, Mapped
  <2>. QED BY <2>1, <2>2, MapsStay DEF MapsInv
<1>3. CASE AddNewPkg \/ Rearrange \/ Load \/ MarkInstalled \/ BeginEnhance \/ EnhanceWithOne \/ EndEnhance
  <2>1. stage' \notin Mapped
    BY <1>3 DEF AddNewPkg, Rearrange, Load, MarkInstalled, BeginEnhance, EnhanceWithOne, EndEnhance, Mapped
  <2>. QED BY <2>1 DEF MapsInv
<1>. QED BY <1>1, <1>2, <1>3, StepCases

-----------------------------------------------------------------------------
\* The VarIds a query should find, by PkgIds.
NamedBy(id) == {i \in 0 .. Len(pkgs) - 1 : pkgs[i + 1].pkgId = id}
ProvidersOf(id) == {i \in 0 .. Len(pkgs) - 1 : Names(pkgs[i + 1].provides, id)}
RequirersOf(id) == {i \in 0 .. Len(pkgs) - 1 : pkgs[i + 1].installed /\ Names(pkgs[i + 1].requires, id)}

\* What is searched, and why.
QueryInv ==
  /\ stage = "named" => vec = pkgNames /\ value = Head(todo).name /\ ~ many
  /\ stage = "ranged" =>
       /\ vec = PkgIds /\ many
       /\ value \in 0 .. Len(pkgNames) - 1 /\ pkgNames[value + 1] = Head(todo).name
  /\ stage \in {"located", "required", "providers", "end"} =>
       query.pkgId \in 0 .. Len(pkgNames) - 1
  /\ stage = "located" => vec = PkgIds /\ many /\ value = query.pkgId /\ ~ query.requires
  /\ stage = "providers" =>
       /\ vec = Firsts(revMapProvides) /\ many /\ value = query.pkgId /\ ~ query.requires
       /\ answer = NamedBy(query.pkgId)
  /\ stage = "required" =>
       vec = Firsts(revMapInstalledRequires) /\ many /\ value = query.pkgId /\ query.requires
  /\ stage \notin {"providers", "end"} => answer = {}
  /\ stage = "end" =>
       answer = IF query.requires THEN RequirersOf(query.pkgId)
                ELSE NamedBy(query.pkgId) \cup ProvidersOf(query.pkgId)

LEMMA SearchKeepsCall ==
  ASSUME Search
  PROVE  UNCHANGED <<vec, value, many>>
  BY DEF Search, Begin, Halve, Settle, StepLeft, StopLeft, StepRight, StopRight

LEMMA PkgIdsFacts ==
  ASSUME TypesInv
  PROVE  /\ PkgIds \in Seq(Int) /\ Len(PkgIds) = Len(pkgs) /\ Len(pkgs) \in Nat
         /\ \A i \in 1 .. Len(pkgs) : PkgIds[i] = pkgs[i].pkgId /\ pkgs[i].pkgId \in 0 .. Len(pkgNames) - 1
         /\ IdsInOrder(pkgs) => Sorted(PkgIds)
<1>1. pkgs \in Seq(PkgType) /\ DOMAIN pkgs = 1 .. Len(pkgs) /\ Len(pkgs) \in Nat
  BY DEF TypesInv, Filled
<1>2. ASSUME NEW i \in 1 .. Len(pkgs) PROVE pkgs[i].pkgId \in 0 .. Len(pkgNames) - 1
  <2>1. pkgs[i].pkgId < Len(pkgNames) /\ pkgs[i] \in PkgType /\ Len(pkgNames) \in Nat
    BY DEF TypesInv, Filled, WellPlaced
  <2>2. PICK p \in PkgType : p = pkgs[i]
    BY <2>1
  <2>3. p.pkgId \in Nat /\ p.pkgId < Len(pkgNames)
    BY <2>1, <2>2, PkgFacts
  <2>. QED BY <2>1, <2>2, <2>3
<1>3. PkgIds = [i \in 1 .. Len(pkgs) |-> pkgs[i].pkgId]
  BY <1>1 DEF PkgIds
<1>4. PkgIds \in [1 .. Len(pkgs) -> Int]
  BY <1>2, <1>3
<1>0. PICK n \in Nat : n = Len(pkgs)
  BY <1>1
<1>5. PICK ids \in [1 .. n -> Int] : ids = PkgIds
  BY <1>0, <1>4
<1>6. ids \in Seq(Int) /\ Len(ids) = n
  BY FunctionIsSeq
<1>7. ASSUME IdsInOrder(pkgs) PROVE Sorted(ids)
  <2>. SUFFICES ASSUME NEW i \in 1 .. n, NEW j \in 1 .. n, i <= j PROVE ids[i] <= ids[j]
    BY <1>6 DEF Sorted
  <2>1. ids[i] = pkgs[i].pkgId /\ ids[j] = pkgs[j].pkgId /\ ids[i] \in Int /\ ids[j] \in Int
    BY <1>3, <1>0, <1>5
  <2>2. CASE i = j
    BY <2>1, <2>2
  <2>3. CASE i < j
    BY <1>0, <1>5, <1>7, <2>1, <2>3 DEF IdsInOrder
  <2>. QED BY <2>2, <2>3
<1>. QED BY <1>2, <1>3, <1>0, <1>5, <1>6, <1>7

LEMMA FirstsFacts ==
  ASSUME NEW map \in Seq(ItemType), FirstsInOrder(map)
  PROVE  /\ Firsts(map) \in Seq(Int) /\ Len(Firsts(map)) = Len(map) /\ Sorted(Firsts(map))
         /\ \A i \in 1 .. Len(map) : Firsts(map)[i] = map[i].first /\ map[i] \in ItemType
<1>1. DOMAIN map = 1 .. Len(map) /\ Len(map) \in Nat /\ \A i \in 1 .. Len(map) : map[i] \in ItemType
  OBVIOUS
<1>2. \A i \in 1 .. Len(map) : map[i].first \in Nat
  BY <1>1 DEF ItemType
<1>3. Firsts(map) = [i \in 1 .. Len(map) |-> map[i].first]
  BY <1>1 DEF Firsts
<1>4. Firsts(map) \in [1 .. Len(map) -> Int]
  BY <1>2, <1>3
<1>0. PICK n \in Nat : n = Len(map)
  BY <1>1
<1>5. PICK firsts \in [1 .. n -> Int] : firsts = Firsts(map)
  BY <1>0, <1>4
<1>6. firsts \in Seq(Int) /\ Len(firsts) = n
  BY FunctionIsSeq
<1>7. Sorted(firsts)
  <2>. SUFFICES ASSUME NEW i \in 1 .. n, NEW j \in 1 .. n, i <= j PROVE firsts[i] <= firsts[j]
    BY <1>6 DEF Sorted
  <2>1. firsts[i] = map[i].first /\ firsts[j] = map[j].first /\ firsts[i] \in Int /\ firsts[j] \in Int
    BY <1>3, <1>0, <1>5
  <2>2. CASE i = j
    BY <2>1, <2>2
  <2>3. CASE i < j
    BY <1>0, <1>5, <2>1, <2>3 DEF FirstsInOrder
  <2>. QED BY <2>2, <2>3
<1>. QED BY <1>1, <1>3, <1>0, <1>5, <1>6, <1>7

\* The range of all places, as a caller reads it.
LEMMA RangeFound ==
  ASSUME SearchInv, at = "done", many
  PROVE  /\ fromPos \in Nat /\ toPos \in Nat
         /\ \A i \in Int : i \in fromPos + 1 .. toPos <=> i \in 1 .. Len(vec) /\ vec[i] = value
<1>1. fromPos \in Nat /\ toPos \in Nat /\ vec \in Seq(Int) /\ Places = fromPos .. toPos - 1
  BY DEF SearchInv, SearchType, FindsExactlyThePlaces
<1>2. Len(vec) \in Nat
  BY <1>1
<1>3. ASSUME NEW i \in Int PROVE i \in fromPos + 1 .. toPos <=> i \in 1 .. Len(vec) /\ vec[i] = value
  <2>1. i \in fromPos + 1 .. toPos <=> i - 1 \in Places
    BY <1>1
  <2>2. i - 1 \in Places <=> i - 1 \in 0 .. Len(vec) - 1 /\ vec[(i - 1) + 1] = value
    BY DEF Places, Size, Item
  <2>3. (i - 1) + 1 = i
    OBVIOUS
  <2>. QED BY <1>2, <2>1, <2>2, <2>3
<1>. QED BY <1>1, <1>3

LEMMA OneFound ==
  ASSUME SearchInv, at = "done", ~ many
  PROVE  /\ fromPos \in Nat
         /\ found => fromPos \in 0 .. Len(vec) - 1 /\ vec[fromPos + 1] = value
         /\ ~ found => \A i \in 1 .. Len(vec) : vec[i] # value
<1>1. fromPos \in Nat /\ vec \in Seq(Int) /\ (found => fromPos \in Places) /\ (~ found => Places = {})
  BY DEF SearchInv, SearchType, FindsExactlyThePlaces
<1>2. ASSUME ~ found, NEW i \in 1 .. Len(vec) PROVE vec[i] # value
  <2>1. i - 1 \in 0 .. Len(vec) - 1 /\ (i - 1) + 1 = i
    BY <1>1
  <2>2. i - 1 \notin Places
    BY <1>1, <1>2
  <2>. QED BY <2>1, <2>2 DEF Places, Size, Item
<1>3. found => fromPos \in 0 .. Len(vec) - 1 /\ vec[fromPos + 1] = value
  BY <1>1 DEF Places, Size, Item
<1>. QED BY <1>1, <1>2, <1>3

\* The items of a range of a map are those of the PkgId looked for.
LEMMA SecondsFacts ==
  ASSUME SearchInv, at = "done", many,
         NEW map \in Seq(ItemType), FirstsInOrder(map), vec = Firsts(map)
  PROVE  \A x : x \in Seconds(map) <=> x \in Nat /\ [first |-> value, second |-> x] \in Range(map)
<1>1. /\ fromPos \in Nat /\ toPos \in Nat
      /\ \A i \in Int : i \in fromPos + 1 .. toPos <=> i \in 1 .. Len(vec) /\ vec[i] = value
  BY RangeFound
<1>2. /\ Len(vec) = Len(map)
      /\ \A i \in 1 .. Len(map) : vec[i] = map[i].first /\ map[i] \in ItemType
  BY FirstsFacts
<1>3. \A i \in Int : i \in fromPos + 1 .. toPos <=> i \in 1 .. Len(map) /\ map[i].first = value
  BY <1>1, <1>2
<1>4. ASSUME NEW x, x \in Seconds(map) PROVE x \in Nat /\ [first |-> value, second |-> x] \in Range(map)
  <2>1. PICK i \in fromPos + 1 .. toPos : map[i].second = x
    BY <1>4 DEF Seconds
  <2>2. i \in 1 .. Len(map) /\ map[i].first = value
    BY <1>1, <1>3, <2>1
  <2>3. x \in Nat /\ map[i] = [first |-> value, second |-> x]
    BY <1>2, <2>1, <2>2 DEF ItemType
  <2>. QED BY <2>2, <2>3, InRange
<1>5. ASSUME NEW x, x \in Nat, [first |-> value, second |-> x] \in Range(map) PROVE x \in Seconds(map)
  <2>1. PICK i \in 1 .. Len(map) : map[i] = [first |-> value, second |-> x]
    BY <1>5 DEF Range
  <2>2. i \in fromPos + 1 .. toPos
    BY <1>3, <2>1
  <2>3. map[i].second = x
    BY <2>1
  <2>. QED BY <2>2, <2>3 DEF Seconds
<1>. QED BY <1>4, <1>5

\* Whatever is searched is sorted.
LEMMA SearchStep ==
  ASSUME TypesInv, OrderInv, MapsInv, QueryInv, SearchInv, [Next]_vars
  PROVE  SearchInv'
<1>1. CASE UNCHANGED searchVars
  BY <1>1 DEF SearchInv, SearchType, HalveInv, LeftInv, RightInv, FindsExactlyThePlaces,
              SearchStaysInside, Places, Size, Item, Sorted, searchVars
<1>2. ASSUME NEW v, NEW x \in Int, NEW all \in BOOLEAN, v \in Seq(Int) /\ Sorted(v), Call(v, x, all)
      PROVE  SearchInv'
  BY <1>2, CallStartsSearch
<1>3. CASE NextInstalled
  <2>1. PICK v, f : v = pkgNames /\ f = Head(todo)
    OBVIOUS
  <2>2. Call(v, f.name, FALSE) /\ stage = "marking" /\ todo # <<>>
    BY <1>3, <2>1 DEF NextInstalled
  <2>3. v \in Seq(Int) /\ Sorted(v)
    BY <2>1, <2>2 DEF TypesInv, Filled, OrderInv
  <2>4. f \in FileType
    BY <2>1, <2>2, TakenFacts DEF TypesInv
  <2>5. f.name \in Int
    BY <2>4, FileFacts
  <2>. QED BY <1>2, <2>2, <2>3, <2>5
<1>4. ASSUME NEW x \in Int, Call(PkgIds, x, TRUE), stage \notin {"reading", "enhancing"} PROVE SearchInv'
  <2>1. PICK v : v = PkgIds
    OBVIOUS
  <2>2. v \in Seq(Int) /\ Sorted(v)
    BY <1>4, <2>1, PkgIdsFacts DEF OrderInv
  <2>3. Call(v, x, TRUE)
    BY <1>4, <2>1
  <2>. QED BY <1>2, <2>2, <2>3
<1>5. ASSUME NEW map \in Seq(ItemType), FirstsInOrder(map), NEW x \in Int, Call(Firsts(map), x, TRUE)
      PROVE  SearchInv'
  <2>1. Firsts(map) \in Seq(Int) /\ Sorted(Firsts(map))
    BY <1>5, FirstsFacts
  <2>. QED BY <1>2, <1>5, <2>1
<1>6. CASE Named
  <2>1. CASE found
    <3>1. Call(PkgIds, fromPos, TRUE) /\ stage = "named"
      BY <1>6, <2>1 DEF Named
    <3>2. PICK x \in Int : x = fromPos
      BY DEF SearchInv, SearchType
    <3>. QED BY <1>4, <3>1, <3>2
  <2>2. CASE ~ found
    BY <1>1, <1>6, <2>2 DEF Named
  <2>. QED BY <2>1, <2>2
<1>7. CASE Ask
  <2>1. PICK id \in 0 .. Len(pkgNames) - 1, requires \in BOOLEAN :
          IF requires THEN Call(Firsts(revMapInstalledRequires), id, TRUE) ELSE Call(PkgIds, id, TRUE)
    BY <1>7 DEF Ask
  <2>2. stage = "ready" /\ id \in Int
    BY <1>7, <2>1 DEF Ask
  <2>3. PICK map : map = revMapInstalledRequires
    OBVIOUS
  <2>4. map \in Seq(ItemType) /\ FirstsInOrder(map)
    BY <2>2, <2>3 DEF MapsInv, Mapped
  <2>5. CASE requires
    BY <1>5, <2>1, <2>2, <2>3, <2>4, <2>5
  <2>6. CASE ~ requires
    BY <1>4, <2>1, <2>2, <2>6
  <2>. QED BY <2>1, <2>5, <2>6
<1>8. CASE Located
  <2>1. stage = "located" /\ (UNCHANGED searchVars \/ Call(Firsts(revMapProvides), query.pkgId, TRUE))
    BY <1>8 DEF Located
  <2>2. PICK map : map = revMapProvides
    OBVIOUS
  <2>3. map \in Seq(ItemType) /\ FirstsInOrder(map)
    BY <2>1, <2>2 DEF MapsInv, Mapped
  <2>4. PICK id \in Int : id = query.pkgId
    BY <2>1 DEF QueryInv
  <2>. QED BY <1>1, <1>5, <2>1, <2>2, <2>3, <2>4
<1>9. CASE Search
  BY <1>9, SearchKeepsInv
<1>10. CASE \/ AddNewPkg \/ Rearrange \/ Load \/ MarkInstalled
            \/ BeginEnhance \/ EnhanceWithOne \/ EndEnhance \/ InitMetadata \/ Answered \/ UNCHANGED vars
  <2>1. UNCHANGED searchVars
    BY <1>10 DEF AddNewPkg, Rearrange, Load, MarkInstalled, BeginEnhance, EnhanceWithOne, EndEnhance,
                 InitMetadata, Answered, vars
  <2>. QED BY <1>1, <2>1
<1>. QED BY <1>3, <1>6, <1>7, <1>8, <1>9, <1>10 DEF Next

LEMMA QueryStep ==
  ASSUME TypesInv, OrderInv, MapsInv, QueryInv, SearchInv, [Next]_vars
  PROVE  QueryInv'
<1>1. CASE stage' \in {"reading", "saved", "marking", "refused", "enhancing", "enhanced", "ready"}
  <2>1. stage' # stage \/ stage' \notin {"providers", "end"} => answer' = answer
    BY <1>1 DEF Next, AddNewPkg, Rearrange, Load, NextInstalled, Named, MarkInstalled, BeginEnhance,
                EnhanceWithOne, EndEnhance, InitMetadata, Ask, Located, Answered, vars, queryVars
  <2>2. stage \notin {"providers", "end"}
    BY <1>1 DEF Next, AddNewPkg, Rearrange, Load, NextInstalled, Named, MarkInstalled, BeginEnhance,
                EnhanceWithOne, EndEnhance, InitMetadata, Ask, Located, Answered, vars
  <2>3. answer' = {}
    BY <1>1, <2>1, <2>2 DEF QueryInv
  <2>. QED BY <1>1, <2>3 DEF QueryInv
<1>2. CASE Search /\ UNCHANGED <<stage, repoPkgs, systemVars, snapshotVars, mapVars, queryVars>>
  <2>1. UNCHANGED <<vec, value, many, stage, todo, pkgNames, pkgs, relations, query, answer>>
    BY <1>2, SearchKeepsCall DEF systemVars, snapshotVars, queryVars
  <2>2. UNCHANGED <<revMapProvides, revMapInstalledRequires>>
    BY <1>2 DEF mapVars
  <2>. QED BY <2>1, <2>2 DEF QueryInv, PkgIds, Firsts, NamedBy, ProvidersOf, RequirersOf, Names
<1>3. CASE UNCHANGED vars
  <2>1. UNCHANGED <<vec, value, many, stage, todo, pkgNames, pkgs, relations, query, answer>>
    BY <1>3 DEF vars, systemVars, snapshotVars, queryVars, searchVars
  <2>2. UNCHANGED <<revMapProvides, revMapInstalledRequires>>
    BY <1>3 DEF vars, mapVars
  <2>. QED BY <2>1, <2>2 DEF QueryInv, PkgIds, Firsts, NamedBy, ProvidersOf, RequirersOf, Names
<1>4. CASE NextInstalled
  <2>1. /\ stage = "marking" /\ stage' = "named" /\ UNCHANGED <<todo, pkgNames, answer>>
        /\ vec' = pkgNames /\ value' = Head(todo).name /\ many' = FALSE
    BY <1>4 DEF NextInstalled, Call, systemVars, snapshotVars, queryVars
  <2>2. answer = {}
    BY <2>1 DEF QueryInv
  <2>. QED BY <2>1, <2>2 DEF QueryInv
<1>5. CASE Named /\ stage' = "ranged"
  <2>1. /\ stage = "named" /\ at = "done" /\ found /\ UNCHANGED <<todo, pkgNames, pkgs, answer>>
        /\ vec' = PkgIds /\ value' = fromPos /\ many' = TRUE
    BY <1>5 DEF Named, Call, snapshotVars, queryVars
  <2>2. vec = pkgNames /\ value = Head(todo).name /\ ~ many /\ answer = {}
    BY <2>1 DEF QueryInv
  <2>3. fromPos \in 0 .. Len(pkgNames) - 1 /\ pkgNames[fromPos + 1] = Head(todo).name
    BY <2>1, <2>2, OneFound
  <2>4. PkgIds' = PkgIds
    BY <2>1 DEF PkgIds
  <2>. QED BY <1>5, <2>1, <2>2, <2>3, <2>4 DEF QueryInv
<1>6. CASE Ask
  <2>1. PICK id \in 0 .. Len(pkgNames) - 1, requires \in BOOLEAN :
          /\ query' = [pkgId |-> id, requires |-> requires]
          /\ IF requires
             THEN Call(Firsts(revMapInstalledRequires), id, TRUE) /\ stage' = "required"
             ELSE Call(PkgIds, id, TRUE) /\ stage' = "located"
    BY <1>6 DEF Ask
  <2>2. /\ stage = "ready" /\ UNCHANGED <<pkgNames, pkgs, answer>>
        /\ revMapInstalledRequires' = revMapInstalledRequires
    BY <1>6 DEF Ask, snapshotVars, mapVars
  <2>3. query'.pkgId = id /\ query'.requires = requires
    BY <2>1
  <2>4. answer = {}
    BY <2>2 DEF QueryInv
  <2>5. PkgIds' = PkgIds /\ Firsts(revMapInstalledRequires)' = Firsts(revMapInstalledRequires)
    BY <2>2 DEF PkgIds, Firsts
  <2>6. CASE requires
    <3>1. /\ vec' = Firsts(revMapInstalledRequires) /\ value' = id /\ many' = TRUE
          /\ stage' = "required"
      BY <2>1, <2>6 DEF Call
    <3>. QED BY <2>2, <2>3, <2>4, <2>5, <2>6, <3>1 DEF QueryInv
  <2>7. CASE ~ requires
    <3>1. vec' = PkgIds /\ value' = id /\ many' = TRUE /\ stage' = "located"
      BY <2>1, <2>7 DEF Call
    <3>. QED BY <2>2, <2>3, <2>4, <2>5, <2>7, <3>1 DEF QueryInv
  <2>. QED BY <2>6, <2>7
<1>7. CASE Located
  <2>1. /\ stage = "located" /\ at = "done"
        /\ UNCHANGED <<pkgNames, pkgs, query>> /\ revMapProvides' = revMapProvides
    BY <1>7 DEF Located, snapshotVars, mapVars
  <2>2. /\ vec = PkgIds /\ many /\ value = query.pkgId /\ ~ query.requires
        /\ query.pkgId \in 0 .. Len(pkgNames) - 1 /\ answer = {}
    BY <2>1 DEF QueryInv
  <2>3. CASE fromPos < Len(pkgs) /\ toPos < Len(pkgs)
    <3>1. /\ answer' = fromPos .. toPos - 1 /\ stage' = "providers"
          /\ vec' = Firsts(revMapProvides) /\ value' = query.pkgId /\ many' = TRUE
      BY <1>7, <2>3 DEF Located, Call
    <3>2. /\ fromPos \in Nat /\ toPos \in Nat
          /\ \A i \in Int : i \in fromPos + 1 .. toPos <=> i \in 1 .. Len(vec) /\ vec[i] = value
      BY <2>1, <2>2, RangeFound
    <3>3. /\ Len(vec) = Len(pkgs) /\ Len(pkgs) \in Nat
          /\ \A i \in 1 .. Len(pkgs) : vec[i] = pkgs[i].pkgId
      BY <2>2, PkgIdsFacts
    <3>4. ASSUME NEW x \in Int PROVE x \in fromPos .. toPos - 1 <=> x \in NamedBy(query.pkgId)
      <4>1. x \in fromPos .. toPos - 1 <=> x + 1 \in fromPos + 1 .. toPos
        BY <3>2
      <4>2. x + 1 \in fromPos + 1 .. toPos <=> x + 1 \in 1 .. Len(pkgs) /\ pkgs[x + 1].pkgId = query.pkgId
        BY <2>2, <3>2, <3>3
      <4>3. x + 1 \in 1 .. Len(pkgs) <=> x \in 0 .. Len(pkgs) - 1
        BY <3>3
      <4>. QED BY <4>1, <4>2, <4>3 DEF NamedBy
    <3>5. fromPos .. toPos - 1 = NamedBy(query.pkgId)
      <4>1. fromPos .. toPos - 1 \subseteq Int /\ NamedBy(query.pkgId) \subseteq Int
        BY <3>2, <3>3 DEF NamedBy
      <4>. QED BY <3>4, <4>1
    <3>6. NamedBy(query.pkgId)' = NamedBy(query.pkgId)
      BY <2>1 DEF NamedBy
    <3>7. Firsts(revMapProvides)' = Firsts(revMapProvides)
      BY <2>1 DEF Firsts
    <3>. QED BY <2>1, <2>2, <3>1, <3>5, <3>6, <3>7 DEF QueryInv
  <2>4. CASE ~ (fromPos < Len(pkgs) /\ toPos < Len(pkgs))
    <3>1. stage' = "abort" /\ answer' = answer
      BY <1>7, <2>4 DEF Located
    <3>. QED BY <2>2, <3>1 DEF QueryInv
  <2>. QED BY <2>3, <2>4
<1>8. CASE Answered
  <2>1. /\ stage \in {"providers", "required"} /\ at = "done" /\ stage' = "end"
        /\ UNCHANGED <<pkgNames, pkgs, relations, query>>
        /\ answer' = answer \union
             Seconds(IF query.requires THEN revMapInstalledRequires ELSE revMapProvides)
    BY <1>8 DEF Answered, snapshotVars
  <2>2. many /\ value = query.pkgId /\ query.pkgId \in 0 .. Len(pkgNames) - 1
    BY <2>1 DEF QueryInv
  <2>3. PICK a, b, id : a = revMapProvides /\ b = revMapInstalledRequires /\ id = query.pkgId
    OBVIOUS
  <2>4. /\ a \in Seq(ItemType) /\ FirstsInOrder(a) /\ \A item : item \in Range(a) <=> Provided(item)
        /\ b \in Seq(ItemType) /\ FirstsInOrder(b) /\ \A item : item \in Range(b) <=> Required(item)
    BY <2>1, <2>3 DEF MapsInv, Mapped
  <2>5. id \in Nat /\ Len(pkgs) \in Nat
    BY <2>2, <2>3, PkgIdsFacts
  <2>6. NamedBy(query.pkgId)' = NamedBy(id) /\ ProvidersOf(query.pkgId)' = ProvidersOf(id)
        /\ RequirersOf(query.pkgId)' = RequirersOf(id)
    BY <2>1, <2>3 DEF NamedBy, ProvidersOf, RequirersOf, Names
  <2>7. CASE stage = "providers"
    <3>1. vec = Firsts(a) /\ ~ query.requires /\ answer = NamedBy(id)
      BY <2>3, <2>7 DEF QueryInv
    <3>2. \A x : x \in Seconds(a) <=> x \in Nat /\ [first |-> id, second |-> x] \in Range(a)
      BY <2>1, <2>2, <2>3, <2>4, <3>1, SecondsFacts
    <3>3. \A x : x \in Seconds(a) <=> x \in ProvidersOf(id)
      <4>. SUFFICES ASSUME NEW x PROVE x \in Seconds(a) <=> x \in ProvidersOf(id)
        OBVIOUS
      <4>1. x \in Seconds(a) <=> x \in Nat /\ Provided([first |-> id, second |-> x])
        BY <2>4, <3>2
      <4>2. x \in Nat => [first |-> id, second |-> x] \in ItemType
        BY <2>5 DEF ItemType
      <4>3. x \in Nat => (x < Len(pkgs) <=> x \in 0 .. Len(pkgs) - 1)
        BY <2>5
      <4>. QED BY <2>5, <4>1, <4>2, <4>3 DEF Provided, ProvidersOf
    <3>4. answer' = NamedBy(id) \cup ProvidersOf(id)
      BY <2>1, <2>3, <3>1, <3>3
    <3>. QED BY <2>1, <2>2, <2>6, <3>1, <3>4 DEF QueryInv
  <2>8. CASE stage = "required"
    <3>1. vec = Firsts(b) /\ query.requires /\ answer = {}
      BY <2>3, <2>8 DEF QueryInv
    <3>2. \A x : x \in Seconds(b) <=> x \in Nat /\ [first |-> id, second |-> x] \in Range(b)
      BY <2>1, <2>2, <2>3, <2>4, <3>1, SecondsFacts
    <3>3. \A x : x \in Seconds(b) <=> x \in RequirersOf(id)
      <4>. SUFFICES ASSUME NEW x PROVE x \in Seconds(b) <=> x \in RequirersOf(id)
        OBVIOUS
      <4>1. x \in Seconds(b) <=> x \in Nat /\ Required([first |-> id, second |-> x])
        BY <2>4, <3>2
      <4>2. x \in Nat => [first |-> id, second |-> x] \in ItemType
        BY <2>5 DEF ItemType
      <4>3. x \in Nat => (x < Len(pkgs) <=> x \in 0 .. Len(pkgs) - 1)
        BY <2>5
      <4>. QED BY <2>5, <4>1, <4>2, <4>3 DEF Required, RequirersOf
    <3>4. answer' = RequirersOf(id)
      BY <2>1, <2>3, <3>1, <3>3
    <3>. QED BY <2>1, <2>2, <2>6, <3>1, <3>4 DEF QueryInv
  <2>. QED BY <2>1, <2>7, <2>8
<1>9. CASE (Named /\ stage' = "marking") \/ AddNewPkg \/ Rearrange \/ Load \/ MarkInstalled
           \/ BeginEnhance \/ EnhanceWithOne \/ EndEnhance \/ InitMetadata
  BY <1>1, <1>9 DEF AddNewPkg, Rearrange, Load, MarkInstalled, BeginEnhance, EnhanceWithOne, EndEnhance,
                    InitMetadata
<1>10. Named => stage' \in {"ranged", "marking"}
  BY DEF Named
<1>. QED BY <1>2, <1>3, <1>4, <1>5, <1>6, <1>7, <1>8, <1>9, <1>10 DEF Next

-----------------------------------------------------------------------------
\* What searches and queries rest on.
SearchedInv ==
  /\ TypesInv
  /\ OrderInv
  /\ MapsInv
  /\ QueryInv
  /\ SearchInv

LEMMA SearchedStart == Init => SearchedInv
<1>. SUFFICES ASSUME Init PROVE SearchedInv
  OBVIOUS
<1>1. TypesInv
  BY TypesStart
<1>2. stage = "reading" /\ answer = {} /\ at = "idle"
  BY DEF Init
<1>3. OrderInv /\ MapsInv /\ QueryInv
  BY <1>2 DEF OrderInv, MapsInv, Mapped, QueryInv
<1>4. SearchInv
  <2>1. /\ vec = <<>> /\ value = 0 /\ many = FALSE /\ at = "idle"
        /\ l = 0 /\ r = 0 /\ fromPos = 0 /\ toPos = 0 /\ found = FALSE
    BY DEF Init
  <2>2. SearchType
    <3>1. vec \in Seq(Int)
      BY <2>1
    <3>2. many \in BOOLEAN /\ found \in BOOLEAN
      BY <2>1, Zenon
    <3>3. /\ value \in Int /\ at \in {"idle", "called", "halve", "left", "right", "done"}
          /\ l \in Nat /\ r \in Nat /\ fromPos \in Nat /\ toPos \in Nat
      BY <2>1
    <3>. QED BY <3>1, <3>2, <3>3 DEF SearchType
  <2>. QED BY <2>1, <2>2 DEF SearchInv, HalveInv, LeftInv, RightInv, FindsExactlyThePlaces, SearchStaysInside
<1>. QED BY <1>1, <1>3, <1>4 DEF SearchedInv

LEMMA SearchedStep == SearchedInv /\ [Next]_vars => SearchedInv'
  BY TypesStep, OrderStep, MapsStep, QueryStep, SearchStep DEF SearchedInv

LEMMA SearchedAlways == SnapshotSpec => []SearchedInv
  BY SearchedStart, SearchedStep, PTL DEF SnapshotSpec

\* Whatever the two programs search is sorted when they search it: the names
\* after registration and after enhance(), the entries after renumbering and
\* merging, both reverse maps (PkgSnapshot.cpp, PkgScope.cpp).
THEOREM SnapshotSearchesSorted == SnapshotSpec => []SearchedIsSorted
<1>1. SearchedInv => SearchedIsSorted
  BY DEF SearchedInv, SearchInv, SearchedIsSorted
<1>. QED BY <1>1, SearchedAlways, PTL

\* Every search of the two programs returns exactly the places of the value,
\* and no position runs out of the vector (utils.h, as PkgScope and
\* PkgSnapshot call it).
THEOREM SnapshotSearchIsRight == SnapshotSpec => [](FindsExactlyThePlaces /\ SearchStaysInside)
<1>1. SearchedInv => FindsExactlyThePlaces /\ SearchStaysInside
  BY DEF SearchedInv, SearchInv
<1>. QED BY <1>1, SearchedAlways, PTL

LEMMA AnswersArePlaces ==
  ASSUME SearchedInv
  PROVE  answer \subseteq 0 .. Len(pkgs) - 1
  BY DEF SearchedInv, QueryInv, NamedBy, ProvidersOf, RequirersOf

\* Every PkgId in the snapshot, of an entry or of a relation, has a name, every
\* entry finds its relations inside of the vector, and an answer names
\* entries only: through registration, both sorts, renumbering and enhance().
THEOREM SnapshotTyped == SnapshotSpec => []SnapshotTypeOK
<1>1. SearchedInv => SnapshotTypeOK
  <2>. SUFFICES ASSUME SearchedInv PROVE SnapshotTypeOK
    OBVIOUS
  <2>1. TypesInv
    BY DEF SearchedInv
  <2>2. /\ DOMAIN pkgs = 1 .. Len(pkgs)
        /\ \A i \in 1 .. Len(pkgs) : WellPlaced(pkgs[i], pkgNames, relations)
    BY <2>1 DEF TypesInv, Filled
  <2>3. /\ pkgNames \in Seq(Int) /\ WellRelated(pkgNames, relations)
        /\ relations \in Seq(RelationType) /\ DOMAIN relations = 1 .. Len(relations)
    BY <2>1 DEF TypesInv, Filled, WellRelated
  <2>4. ASSUME NEW i \in 1 .. Len(relations) PROVE relations[i].pkgId \in 0 .. Len(pkgNames) - 1
    <3>1. PICK names \in Seq(Int), rels \in Seq(RelationType) : names = pkgNames /\ rels = relations
      BY <2>3
    <3>2. rels[i].pkgId \in Nat /\ rels[i].pkgId + 1 \in 1 .. Len(names)
      BY <2>3, <3>1, RelationFacts
    <3>. QED BY <3>1, <3>2
  <2>. QED BY <2>1, <2>2, <2>3, <2>4, AnswersArePlaces DEF SnapshotTypeOK, TypesInv, WellPlaced
<1>. QED BY <1>1, SearchedAlways, PTL

\* A span names a PkgId exactly when it reads the name.
LEMMA NamesAreRead ==
  ASSUME TypesInv, NEW span \in SpanType, span.pos + span.count <= Len(relations),
         NEW id \in 0 .. Len(pkgNames) - 1
  PROVE  pkgNames[id + 1] \in Range(NamesOf(ByName(pkgNames, Related(span)))) <=> Names(span, id)
<1>1. relations \in Seq(RelationType) /\ WellRelated(pkgNames, relations)
      /\ pkgNames \in Seq(Int) /\ NoTwice(pkgNames) /\ Len(pkgNames) \in Nat
  BY DEF TypesInv, Filled, WellRelated
<1>2. /\ DOMAIN Related(span) = 1 .. span.count
      /\ \A k \in 1 .. span.count :
           /\ span.pos + k \in 1 .. Len(relations)
           /\ Related(span)[k] = relations[span.pos + k]
  BY <1>1, RelatedFacts
<1>3. PICK byName : byName = NamesOf(ByName(pkgNames, Related(span)))
  OBVIOUS
<1>4. byName = [k \in 1 .. span.count |-> pkgNames[relations[span.pos + k].pkgId + 1]]
  BY <1>2, <1>3 DEF NamesOf, ByName
<1>5. ASSUME NEW k \in 1 .. span.count
      PROVE  pkgNames[relations[span.pos + k].pkgId + 1] = pkgNames[id + 1] <=> relations[span.pos + k].pkgId = id
  <2>1. PICK names \in Seq(Int), rels \in Seq(RelationType) : names = pkgNames /\ rels = relations
    BY <1>1
  <2>2. PICK j \in 1 .. Len(rels) : j = span.pos + k
    BY <1>2, <2>1
  <2>3. rels[j].pkgId \in Nat /\ rels[j].pkgId + 1 \in 1 .. Len(names)
    BY <1>1, <2>1, RelationFacts
  <2>4. id + 1 \in 1 .. Len(names) /\ id \in Nat
    BY <1>1, <2>1
  <2>5. names[rels[j].pkgId + 1] = names[id + 1] => rels[j].pkgId + 1 = id + 1
    <3>1. NoTwice(names)
      BY <1>1, <2>1
    <3>. QED BY <2>3, <2>4, <3>1 DEF NoTwice
  <2>6. names[rels[j].pkgId + 1] = names[id + 1] <=> rels[j].pkgId = id
    BY <2>3, <2>4, <2>5
  <2>7. pkgNames[relations[j].pkgId + 1] = pkgNames[id + 1] <=> relations[j].pkgId = id
    BY <2>1, <2>6
  <2>. QED BY <2>2, <2>7
<1>6. pkgNames[id + 1] \in Range(byName) <=> \E k \in 1 .. span.count : byName[k] = pkgNames[id + 1]
  <2>1. DOMAIN byName = 1 .. span.count
    BY <1>4
  <2>. QED BY <2>1 DEF Range
<1>. QED BY <1>3, <1>4, <1>5, <1>6 DEF Names

LEMMA EntryNames ==
  ASSUME TypesInv, NEW i \in 0 .. Len(pkgs) - 1, NEW id \in 0 .. Len(pkgNames) - 1
  PROVE  /\ pkgNames[id + 1] = NameOf(pkgs[i + 1]) <=> pkgs[i + 1].pkgId = id
         /\ pkgNames[id + 1] \in Range(NamesOf(RequiresOf(pkgs[i + 1]))) <=> Names(pkgs[i + 1].requires, id)
         /\ pkgNames[id + 1] \in Range(NamesOf(ProvidesOf(pkgs[i + 1]))) <=> Names(pkgs[i + 1].provides, id)
<1>1. PICK p : p = pkgs[i + 1]
  OBVIOUS
<1>2. WellPlaced(p, pkgNames, relations) /\ pkgNames \in Seq(Int) /\ NoTwice(pkgNames)
  <2>1. Len(pkgs) \in Nat /\ i + 1 \in 1 .. Len(pkgs)
    BY DEF TypesInv, Filled
  <2>. QED BY <1>1, <2>1 DEF TypesInv, Filled
<1>3. /\ p \in PkgType /\ p.pkgId < Len(pkgNames)
      /\ p.requires.pos + p.requires.count <= Len(relations)
      /\ p.provides.pos + p.provides.count <= Len(relations)
  BY <1>2 DEF WellPlaced
<1>4. p.pkgId \in Nat /\ p.requires \in SpanType /\ p.provides \in SpanType
  BY <1>3, PkgFacts
<1>5. pkgNames[id + 1] = NameOf(p) <=> p.pkgId = id
  <2>1. Len(pkgNames) \in Nat /\ id + 1 \in 1 .. Len(pkgNames) /\ p.pkgId + 1 \in 1 .. Len(pkgNames)
    BY <1>2, <1>3, <1>4
  <2>2. pkgNames[id + 1] = pkgNames[p.pkgId + 1] => id + 1 = p.pkgId + 1
    BY <1>2, <2>1 DEF NoTwice
  <2>. QED BY <1>4, <2>2 DEF NameOf
<1>6. PICK want \in SpanType, offer \in SpanType : want = p.requires /\ offer = p.provides
  BY <1>4
<1>7. /\ pkgNames[id + 1] \in Range(NamesOf(ByName(pkgNames, Related(want)))) <=> Names(want, id)
      /\ pkgNames[id + 1] \in Range(NamesOf(ByName(pkgNames, Related(offer)))) <=> Names(offer, id)
  BY <1>3, <1>6, NamesAreRead
<1>. QED BY <1>1, <1>5, <1>6, <1>7 DEF RequiresOf, ProvidesOf

\* A query answers with exactly the packages that match: all of the name or
\* with a provide of it, or all installed ones that require it, and no other,
\* however many entries share a name (PkgScope::selectVarsToTry,
\* findPkgsByRequire).
THEOREM AnswersAreExact == SnapshotSpec => []AnswerIsExact
<1>1. SearchedInv => AnswerIsExact
  <2>. SUFFICES ASSUME SearchedInv, stage = "end"
                PROVE  LET name == pkgNames[query.pkgId + 1] IN
                         answer = {i \in 0 .. Len(pkgs) - 1 :
                           LET p == pkgs[i + 1] IN
                             IF query.requires
                             THEN p.installed /\ name \in Range(NamesOf(RequiresOf(p)))
                             ELSE name = NameOf(p) \/ name \in Range(NamesOf(ProvidesOf(p)))}
    BY DEF AnswerIsExact
  <2>1. PICK id \in 0 .. Len(pkgNames) - 1 : id = query.pkgId
    BY DEF SearchedInv, QueryInv
  <2>2. answer = IF query.requires THEN RequirersOf(id) ELSE NamedBy(id) \cup ProvidersOf(id)
    BY <2>1 DEF SearchedInv, QueryInv
  <2>3. \A i \in 0 .. Len(pkgs) - 1 :
          /\ pkgNames[id + 1] = NameOf(pkgs[i + 1]) <=> pkgs[i + 1].pkgId = id
          /\ pkgNames[id + 1] \in Range(NamesOf(RequiresOf(pkgs[i + 1]))) <=> Names(pkgs[i + 1].requires, id)
          /\ pkgNames[id + 1] \in Range(NamesOf(ProvidesOf(pkgs[i + 1]))) <=> Names(pkgs[i + 1].provides, id)
    BY EntryNames DEF SearchedInv
  <2>4. CASE query.requires
    BY <2>1, <2>2, <2>3, <2>4 DEF RequirersOf
  <2>5. CASE ~ query.requires
    BY <2>1, <2>2, <2>3, <2>5 DEF NamedBy, ProvidersOf
  <2>. QED BY <2>4, <2>5
<1>. QED BY <1>1, SearchedAlways, PTL

-----------------------------------------------------------------------------
(***************************************************************************)
(* What the entries say                                                    *)
(***************************************************************************)

\* The entries, as the properties read them.
SaysWell ==
  /\ says \in Seq(ReadingType) /\ Len(says) = Len(pkgs) /\ Len(pkgs) \in Nat
  /\ DOMAIN pkgs = 1 .. Len(pkgs)
  /\ \A i \in 1 .. Len(pkgs) :
       /\ says[i].name = NameOf(pkgs[i]) /\ says[i].ver = pkgs[i].ver
       /\ says[i].installed = pkgs[i].installed
       /\ says[i].requires = RequiresOf(pkgs[i]) /\ says[i].provides = ProvidesOf(pkgs[i])

LEMMA ReadIsByName ==
  ASSUME relations \in Seq(RelationType), NEW span \in SpanType, span.pos + span.count <= Len(relations)
  PROVE  Read(pkgNames, relations, span) = ByName(pkgNames, Related(span))
<1>1. /\ DOMAIN Related(span) = 1 .. span.count
      /\ \A k \in 1 .. span.count : Related(span)[k] = relations[span.pos + k]
  BY RelatedFacts
<1>. QED BY <1>1 DEF Read, ByName

LEMMA SaysFacts == TypesInv => SaysWell
<1>. SUFFICES ASSUME TypesInv PROVE SaysWell
  OBVIOUS
<1>1. PICK names, rels, entries : names = pkgNames /\ rels = relations /\ entries = pkgs
  OBVIOUS
<1>2. Filled(names, rels, entries)
  BY <1>1 DEF TypesInv
<1>3. /\ Says(names, rels, entries) \in Seq(ReadingType)
      /\ Len(Says(names, rels, entries)) = Len(entries)
      /\ \A i \in 1 .. Len(entries) : Says(names, rels, entries)[i] = Reading(names, rels, entries[i])
  BY <1>2, SaysIsTyped
<1>4. /\ says \in Seq(ReadingType) /\ Len(says) = Len(pkgs)
      /\ \A i \in 1 .. Len(pkgs) : says[i] = Reading(pkgNames, relations, pkgs[i])
  BY <1>1, <1>3 DEF says
<1>5. relations \in Seq(RelationType) /\ pkgs \in Seq(PkgType)
  BY DEF TypesInv, Filled, WellRelated
<1>6. ASSUME NEW i \in 1 .. Len(pkgs)
      PROVE  /\ says[i].name = NameOf(pkgs[i]) /\ says[i].ver = pkgs[i].ver
             /\ says[i].installed = pkgs[i].installed
             /\ says[i].requires = RequiresOf(pkgs[i]) /\ says[i].provides = ProvidesOf(pkgs[i])
  <2>1. PICK p : p = pkgs[i]
    OBVIOUS
  <2>2. WellPlaced(p, pkgNames, relations)
    BY <2>1 DEF TypesInv, Filled
  <2>3. /\ p \in PkgType
        /\ p.requires.pos + p.requires.count <= Len(relations)
        /\ p.provides.pos + p.provides.count <= Len(relations)
    BY <2>2 DEF WellPlaced
  <2>4. p.requires \in SpanType /\ p.provides \in SpanType
    BY <2>3, PkgFacts
  <2>5. PICK want \in SpanType, offer \in SpanType : want = p.requires /\ offer = p.provides
    BY <2>4
  <2>6. /\ Read(pkgNames, relations, want) = ByName(pkgNames, Related(want))
        /\ Read(pkgNames, relations, offer) = ByName(pkgNames, Related(offer))
    BY <1>5, <2>3, <2>5, ReadIsByName
  <2>7. /\ Read(pkgNames, relations, p.requires) = RequiresOf(p)
        /\ Read(pkgNames, relations, p.provides) = ProvidesOf(p)
    BY <2>5, <2>6 DEF RequiresOf, ProvidesOf
  <2>8. says[i] = [ name |-> pkgNames[p.pkgId + 1], ver |-> p.ver, installed |-> p.installed,
                    requires |-> Read(pkgNames, relations, p.requires),
                    provides |-> Read(pkgNames, relations, p.provides) ]
    BY <1>4, <2>1 DEF Reading
  <2>. QED BY <2>1, <2>7, <2>8 DEF NameOf
<1>. QED BY <1>4, <1>5, <1>6 DEF SaysWell

LEMMA SaysAfter == TypesInv' => SaysWell'
  BY SaysFacts, PTL

\* The entry is the one of the package f; it says nothing else than f.
IsOf(x, f) == x.name = f.name /\ x.ver = f.ver

Tells(x, f) ==
  /\ IsOf(x, f)
  /\ x.requires = f.requires
  /\ Begins(f.provides, x.provides)
  /\ \A k \in Len(f.provides) + 1 .. Len(x.provides) : x.provides[k].name \in Range(f.files)

Retold(x, y) == IsOf(x, y) /\ x.requires = y.requires /\ x.provides = y.provides

\* Nothing new is said, and no package is left out.
Covers(new, old) ==
  /\ \A i \in 1 .. Len(new) : \E j \in 1 .. Len(old) : Retold(new[i], old[j])
  /\ \A j \in 1 .. Len(old) : \E i \in 1 .. Len(new) : IsOf(new[i], old[j])

LEMMA PermutedCovers ==
  ASSUME NEW new, NEW old, Permuted(new, old), Len(new) = Len(old)
  PROVE  Covers(new, old)
<1>1. PICK o : IsOrderOf(o, new, old)
  BY DEF Permuted
<1>2. ASSUME NEW i \in 1 .. Len(new) PROVE \E j \in 1 .. Len(old) : Retold(new[i], old[j])
  <2>1. i \in 1 .. Len(old)
    OBVIOUS
  <2>2. PICK j \in 1 .. Len(old) : new[i] = old[j]
    BY <1>1, <2>1 DEF IsOrderOf
  <2>. QED BY <2>2 DEF Retold, IsOf
<1>3. ASSUME NEW j \in 1 .. Len(old) PROVE \E i \in 1 .. Len(new) : IsOf(new[i], old[j])
  <2>1. PICK i \in 1 .. Len(old) : o[i] = j
    BY <1>1 DEF IsOrderOf
  <2>2. new[i] = old[j] /\ i \in 1 .. Len(new)
    BY <1>1, <2>1 DEF IsOrderOf
  <2>. QED BY <2>2 DEF IsOf
<1>. QED BY <1>2, <1>3 DEF Covers

LEMMA MarkedCovers ==
  ASSUME NEW new, NEW old, NEW same, AreMarked(new, old, same)
  PROVE  Covers(new, old)
<1>1. ASSUME NEW i \in 1 .. Len(new) PROVE Retold(new[i], old[i])
  BY DEF AreMarked, Marked, Retold, IsOf
<1>2. Len(new) = Len(old)
  BY DEF AreMarked
<1>. QED BY <1>1, <1>2 DEF Covers, Retold

\* removeEqualPkgs() keeps an entry of every package: the first of its equals
\* repeats none.
LEMMA LoadCovers ==
  ASSUME TypesInv, TypesInv', NEW o, KeptBy(o), UNCHANGED <<pkgNames, relations>>
  PROVE  Covers(says', says)
<1>1. SaysWell /\ SaysWell'
  BY SaysFacts, SaysAfter
<1>2. /\ Len(says) = Len(pkgs) /\ Len(says') = Len(pkgs') /\ Len(pkgs) \in Nat
      /\ \A i \in 1 .. Len(pkgs) : says[i].name = NameOf(pkgs[i]) /\ says[i].ver = pkgs[i].ver
  BY <1>1 DEF SaysWell
<1>3. ASSUME NEW i \in 1 .. Len(says') PROVE \E j \in 1 .. Len(says) : Retold(says'[i], says[j])
  <2>1. o[i] \in 1 .. Len(says) /\ says'[i] = says[o[i]]
    BY <1>2 DEF KeptBy, IsPickedBy
  <2>. QED BY <2>1 DEF Retold, IsOf
<1>4. ASSUME NEW j \in 1 .. Len(pkgs) PROVE \E i \in 1 .. Len(pkgs') : IsOf(says'[i], says[j])
  <2>1. PICK S : S = {i \in 1 .. Len(pkgs) : pkgs[i].pkgId = pkgs[j].pkgId /\ pkgs[i].ver = pkgs[j].ver}
    OBVIOUS
  <2>2. S \in SUBSET Nat /\ S # {}
    BY <1>2, <2>1
  <2>3. PICK m \in S : \A k \in S : m <= k
    BY <2>2, LeastExists
  <2>4. ~ Repeats(m)
    <3>1. SUFFICES ASSUME Repeats(m) PROVE FALSE
      OBVIOUS
    <3>2. PICK k \in 1 .. m - 1 : (\A i \in k .. m : pkgs[i].pkgId = pkgs[m].pkgId) /\ pkgs[k].ver = pkgs[m].ver
      BY <3>1 DEF Repeats
    <3>3. m \in 1 .. Len(pkgs) /\ k \in 1 .. Len(pkgs) /\ k \in k .. m /\ k < m
      BY <1>2, <2>1, <3>2
    <3>4. k \in S
      BY <2>1, <3>2, <3>3
    <3>. QED BY <2>3, <3>3, <3>4
  <2>5. PICK i \in 1 .. Len(pkgs') : o[i] = m
    BY <2>1, <2>4 DEF KeptBy
  <2>6. says'[i] = says[m]
    BY <1>2, <2>5 DEF KeptBy, IsPickedBy
  <2>7. says[m].name = says[j].name /\ says[m].ver = says[j].ver
    BY <1>2, <2>1 DEF NameOf
  <2>. QED BY <2>6, <2>7 DEF IsOf
<1>. QED BY <1>2, <1>3, <1>4 DEF Covers

-----------------------------------------------------------------------------
(***************************************************************************)
(* Packages of the system on their way into the snapshot                   *)
(***************************************************************************)

LEMMA TakenSets ==
  ASSUME NEW T, NEW s \in Seq(T), s # <<>>, NoTwice(s)
  PROVE  /\ Head(s) \in Range(s) /\ NoTwice(Tail(s))
         /\ Range(Tail(s)) = Range(s) \ {Head(s)}
<1>1. PICK h, t, n : h = Head(s) /\ t = Tail(s) /\ n = Len(s)
  OBVIOUS
<1>2. /\ h = s[1] /\ t \in Seq(T) /\ n \in Nat /\ n > 0 /\ Len(t) = n - 1
      /\ \A i \in 1 .. n - 1 : t[i] = s[i + 1]
  BY <1>1, TakenFacts
<1>3. DOMAIN s = 1 .. n /\ DOMAIN t = 1 .. n - 1
  BY <1>1, <1>2
<1>4. 1 \in 1 .. n
  BY <1>2
<1>5. h \in Range(s)
  BY <1>2, <1>3, <1>4 DEF Range
<1>6. ASSUME NEW x \in Range(t) PROVE x \in Range(s) /\ x # h
  <2>1. PICK i \in 1 .. n - 1 : t[i] = x
    BY <1>3 DEF Range
  <2>2. x = s[i + 1] /\ i + 1 \in 1 .. n /\ i + 1 # 1
    BY <1>2, <2>1
  <2>3. x # s[1]
    BY <1>1, <1>4, <2>2 DEF NoTwice
  <2>. QED BY <1>2, <1>3, <2>2, <2>3 DEF Range
<1>7. ASSUME NEW x \in Range(s), x # h PROVE x \in Range(t)
  <2>1. PICK i \in 1 .. n : s[i] = x
    BY <1>3 DEF Range
  <2>2. i - 1 \in 1 .. n - 1 /\ (i - 1) + 1 = i
    BY <1>2, <1>7, <2>1
  <2>3. t[i - 1] = x
    BY <1>2, <2>1, <2>2
  <2>. QED BY <1>3, <2>2, <2>3 DEF Range
<1>8. ASSUME NEW i \in 1 .. Len(t), NEW j \in 1 .. Len(t), t[i] = t[j] PROVE i = j
  <2>1. i + 1 \in 1 .. n /\ j + 1 \in 1 .. n /\ s[i + 1] = s[j + 1]
    BY <1>2, <1>8
  <2>2. i + 1 = j + 1
    BY <1>1, <2>1 DEF NoTwice
  <2>. QED BY <2>2
<1>. QED BY <1>1, <1>5, <1>6, <1>7, <1>8 DEF NoTwice

LEMMA AppendedSets ==
  ASSUME NEW T, NEW s \in Seq(T), NEW x \in T
  PROVE  /\ Range(Append(s, x)) = Range(s) \cup {x}
         /\ NoTwice(s) /\ x \notin Range(s) => NoTwice(Append(s, x))
<1>1. PICK t, n : t = Append(s, x) /\ n = Len(s)
  OBVIOUS
<1>2. /\ t \in Seq(T) /\ n \in Nat /\ Len(t) = n + 1
      /\ \A i \in 1 .. n : t[i] = s[i]
      /\ t[n + 1] = x
  BY <1>1, AppendFacts
<1>3. DOMAIN s = 1 .. n /\ DOMAIN t = 1 .. n + 1
  BY <1>1, <1>2
<1>4. \A i \in 1 .. n + 1 : i \in 1 .. n \/ i = n + 1
  BY <1>2
<1>5. Range(t) = Range(s) \cup {x}
  <2>1. ASSUME NEW y \in Range(t) PROVE y \in Range(s) \cup {x}
    BY <1>2, <1>3, <1>4 DEF Range
  <2>2. ASSUME NEW y \in Range(s) PROVE y \in Range(t)
    <3>1. PICK i \in 1 .. n : s[i] = y
      BY <1>3 DEF Range
    <3>2. i \in 1 .. n + 1 /\ t[i] = y
      BY <1>2, <3>1
    <3>. QED BY <1>3, <3>2 DEF Range
  <2>3. n + 1 \in 1 .. n + 1
    BY <1>2
  <2>4. x \in Range(t)
    BY <1>2, <1>3, <2>3 DEF Range
  <2>. QED BY <2>1, <2>2, <2>4
<1>6. ASSUME NoTwice(s), x \notin Range(s), NEW i \in 1 .. n + 1, NEW j \in 1 .. n + 1, t[i] = t[j]
      PROVE  i = j
  <2>1. \A k \in 1 .. n : s[k] # x
    BY <1>3, <1>6 DEF Range
  <2>2. CASE i \in 1 .. n /\ j \in 1 .. n
    BY <1>1, <1>2, <1>6, <2>2 DEF NoTwice
  <2>3. CASE i = n + 1 \/ j = n + 1
    BY <1>2, <1>4, <1>6, <2>1, <2>3
  <2>. QED BY <1>4, <2>2, <2>3
<1>7. NoTwice(s) /\ x \notin Range(s) => NoTwice(t)
  BY <1>2, <1>6 DEF NoTwice
<1>. QED BY <1>1, <1>5, <1>7

Marking == {"marking", "named", "ranged"}

\* Every installed package is looked up once and added once.
QueueInv ==
  /\ NoTwice(todo) /\ NoTwice(enhanceWith)
  /\ Range(todo) \subseteq Range(installed)
  /\ Range(enhanceWith) \subseteq Range(installed)
  /\ stage \in Marking => Range(todo) \cap Range(enhanceWith) = {}
  /\ stage \in {"reading", "saved"} => enhanceWith = <<>>
  /\ stage = "enhancing" => Range(todo) \subseteq Range(enhanceWith)
  /\ stage \notin Marking \cup {"enhancing"} => todo = <<>>

LEMMA EmptySets == Range(<<>>) = {} /\ NoTwice(<<>>)
  BY DEF Range, NoTwice

LEMMA QueueStep ==
  ASSUME TypesInv, QueueInv, [Next]_vars
  PROVE  QueueInv'
<1>1. ASSUME UNCHANGED <<todo, enhanceWith, installed>>,
             stage' \in Marking => stage \in Marking,
             stage' \in {"reading", "saved"} => stage \in {"reading", "saved"},
             stage' = "enhancing" => stage = "enhancing",
             stage' \notin Marking \cup {"enhancing"} =>
               stage \notin Marking \cup {"enhancing"} \/ todo = <<>>
      PROVE  QueueInv'
  <2>1. /\ NoTwice(todo)' /\ NoTwice(enhanceWith)' /\ Range(todo)' = Range(todo)
        /\ Range(enhanceWith)' = Range(enhanceWith) /\ Range(installed)' = Range(installed)
    BY <1>1 DEF QueueInv, NoTwice, Range
  <2>2. Range(todo)' \subseteq Range(installed)' /\ Range(enhanceWith)' \subseteq Range(installed)'
    BY <2>1 DEF QueueInv
  <2>3. stage' \in Marking => Range(todo)' \cap Range(enhanceWith)' = {}
    BY <1>1, <2>1 DEF QueueInv
  <2>4. stage' \in {"reading", "saved"} => enhanceWith' = <<>>
    BY <1>1 DEF QueueInv
  <2>5. stage' = "enhancing" => Range(todo)' \subseteq Range(enhanceWith)'
    BY <1>1, <2>1 DEF QueueInv
  <2>6. stage' \notin Marking \cup {"enhancing"} => todo' = <<>>
    BY <1>1 DEF QueueInv
  <2>. QED BY <2>1, <2>2, <2>3, <2>4, <2>5, <2>6 DEF QueueInv
<1>2. ASSUME stage \in Marking, stage' = "marking", todo # <<>>, todo' = Tail(todo), installed' = installed,
             enhanceWith' = enhanceWith \/ enhanceWith' = Append(enhanceWith, Head(todo))
      PROVE  QueueInv'
  <2>1. PICK s \in Seq(FileType), e \in Seq(FileType) : s = todo /\ e = enhanceWith
    BY DEF TypesInv
  <2>2. NoTwice(s) /\ NoTwice(e) /\ Range(s) \cap Range(e) = {}
        /\ Range(s) \subseteq Range(installed) /\ Range(e) \subseteq Range(installed)
    BY <1>2, <2>1 DEF QueueInv
  <2>3. Head(s) \in Range(s) /\ NoTwice(Tail(s)) /\ Range(Tail(s)) = Range(s) \ {Head(s)} /\ Head(s) \in FileType
    BY <1>2, <2>1, <2>2, TakenSets, TakenFacts
  <2>4. Range(Append(e, Head(s))) = Range(e) \cup {Head(s)} /\ NoTwice(Append(e, Head(s)))
    BY <2>2, <2>3, AppendedSets
  <2>5. PICK t, f : t = Tail(s) /\ f = enhanceWith'
    OBVIOUS
  <2>6. NoTwice(t) /\ NoTwice(f) /\ Range(t) \subseteq Range(installed) /\ Range(f) \subseteq Range(installed)
        /\ Range(t) \cap Range(f) = {}
    BY <1>2, <2>1, <2>2, <2>3, <2>4, <2>5
  <2>7. NoTwice(todo)' /\ NoTwice(enhanceWith)' /\ Range(todo)' = Range(t) /\ Range(enhanceWith)' = Range(f)
        /\ Range(installed)' = Range(installed)
    BY <1>2, <2>1, <2>5, <2>6 DEF NoTwice, Range
  <2>. QED BY <1>2, <2>6, <2>7 DEF QueueInv, Marking
<1>3. CASE Load /\ pkgs # <<>>
  <2>1. stage = "saved" /\ stage' = "marking" /\ todo' = installed /\ UNCHANGED <<installed, enhanceWith>>
    BY <1>3 DEF Load
  <2>2. enhanceWith = <<>>
    BY <2>1 DEF QueueInv
  <2>3. NoTwice(installed)
    BY DEF TypesInv, NoneTwice, NoTwice
  <2>4. PICK s : s = installed
    OBVIOUS
  <2>5. /\ NoTwice(todo)' /\ NoTwice(enhanceWith)' /\ Range(todo)' = Range(s) /\ Range(installed)' = Range(s)
        /\ Range(enhanceWith)' = {}
    BY <2>1, <2>2, <2>3, <2>4, EmptySets DEF NoTwice, Range
  <2>. QED BY <2>1, <2>5 DEF QueueInv, Marking
<1>4. CASE MarkInstalled
  <2>1. /\ stage = "ranged" /\ stage' = "marking" /\ todo' = Tail(todo) /\ installed' = installed
        /\ enhanceWith' = enhanceWith \/ enhanceWith' = Append(enhanceWith, Head(todo))
    BY <1>4 DEF MarkInstalled
  <2>2. todo # <<>>
    BY <2>1 DEF TypesInv
  <2>. QED BY <1>2, <2>1, <2>2 DEF Marking
<1>5. CASE Named
  <2>1. stage = "named" /\ installed' = installed
    BY <1>5 DEF Named
  <2>2. todo # <<>>
    BY <2>1 DEF TypesInv
  <2>3. CASE found
    BY <1>1, <1>5, <2>1, <2>3 DEF Named, Marking
  <2>4. CASE ~ found
    BY <1>2, <1>5, <2>1, <2>2, <2>4 DEF Named, Marking
  <2>. QED BY <2>3, <2>4
<1>6. CASE BeginEnhance
  <2>1. /\ stage = "marking" /\ todo = <<>> /\ UNCHANGED <<installed, enhanceWith>>
        /\ IF enhanceWith = <<>> THEN stage' = "enhanced" /\ todo' = todo
           ELSE stage' = "enhancing" /\ todo' = enhanceWith
    BY <1>6 DEF BeginEnhance
  <2>2. CASE enhanceWith = <<>>
    BY <1>1, <2>1, <2>2 DEF Marking
  <2>3. CASE enhanceWith # <<>>
    <3>1. PICK e : e = enhanceWith
      OBVIOUS
    <3>2. NoTwice(e) /\ Range(e) \subseteq Range(installed)
      BY <3>1 DEF QueueInv
    <3>3. /\ NoTwice(todo)' /\ NoTwice(enhanceWith)' /\ Range(todo)' = Range(e) /\ Range(enhanceWith)' = Range(e)
          /\ Range(installed)' = Range(installed)
      BY <2>1, <2>3, <3>1, <3>2 DEF NoTwice, Range
    <3>. QED BY <2>1, <2>3, <3>2, <3>3 DEF QueueInv, Marking
  <2>. QED BY <2>2, <2>3
<1>7. CASE EnhanceWithOne
  <2>1. /\ stage = "enhancing" /\ stage' = stage /\ todo # <<>> /\ todo' = Tail(todo)
        /\ UNCHANGED <<installed, enhanceWith>>
    BY <1>7 DEF EnhanceWithOne
  <2>2. PICK s \in Seq(FileType) : s = todo
    BY DEF TypesInv
  <2>3. NoTwice(s)
    BY <2>2 DEF QueueInv
  <2>4. NoTwice(Tail(s)) /\ Range(Tail(s)) = Range(s) \ {Head(s)}
    BY <2>1, <2>2, <2>3, TakenSets
  <2>5. PICK t : t = Tail(s)
    OBVIOUS
  <2>6. NoTwice(todo)' /\ Range(todo)' = Range(t)
    BY <2>1, <2>2, <2>4, <2>5 DEF NoTwice, Range
  <2>7. Range(t) \subseteq Range(s)
    BY <2>4, <2>5
  <2>8. NoTwice(enhanceWith)' /\ Range(enhanceWith)' = Range(enhanceWith) /\ Range(installed)' = Range(installed)
    BY <2>1 DEF QueueInv, NoTwice, Range
  <2>. QED BY <2>1, <2>2, <2>6, <2>7, <2>8 DEF QueueInv, Marking
<1>8. CASE Load /\ pkgs = <<>>
  <2>1. /\ stage = "saved" /\ stage' = "refused" /\ UNCHANGED <<todo, enhanceWith, installed>>
    BY <1>8 DEF Load
  <2>. QED BY <1>1, <2>1 DEF Marking
<1>9. CASE AddNewPkg \/ Rearrange \/ EndEnhance
  <2>1. /\ UNCHANGED <<todo, enhanceWith, installed>>
        /\ \/ stage = "reading" /\ stage' = "reading"
           \/ stage = "reading" /\ stage' = "saved"
           \/ stage = "enhancing" /\ todo = <<>> /\ stage' = "enhanced"
    BY <1>9 DEF AddNewPkg, Rearrange, EndEnhance, systemVars
  <2>. QED BY <1>1, <2>1 DEF Marking
<1>10. CASE Looks /\ ~ Named
  <2>1. UNCHANGED <<todo, enhanceWith, installed>>
    BY <1>10 DEF Looks, NextInstalled, InitMetadata, Ask, Located, Answered, vars, systemVars
  <2>2. \/ stage' = stage
        \/ stage = "marking" /\ stage' = "named"
        \/ stage \notin {"reading", "saved", "marking", "named", "ranged", "enhancing"}
           /\ stage' \notin {"reading", "saved", "marking", "named", "ranged", "enhancing"}
    BY <1>10 DEF Looks, NextInstalled, InitMetadata, Ask, Located, Answered, vars
  <2>. QED BY <1>1, <2>1, <2>2 DEF Marking
<1>. QED BY <1>3, <1>4, <1>5, <1>6, <1>7, <1>8, <1>9, <1>10, StepCases

LEMMA QueueStart == Init => QueueInv
  BY EmptySets DEF Init, QueueInv, Marking

-----------------------------------------------------------------------------
(***************************************************************************)
(* No package gets lost                                                    *)
(***************************************************************************)
AllTell(s, F) == \A i \in 1 .. Len(s) : \E f \in F : Tells(s[i], f)

EachIsIn(s, F) == \A f \in F : \E i \in 1 .. Len(s) : IsOf(s[i], f)

KeptInv ==
  /\ stage = "reading" =>
       /\ Len(pkgs) <= Len(repoPkgs)
       /\ \A i \in 1 .. Len(pkgs) : says[i] = Told(repoPkgs[i], FALSE, repoPkgs[i].provides)
  /\ AllTell(says, Range(repoPkgs) \cup Range(installed))
  /\ stage # "reading" => EachIsIn(says, Range(repoPkgs))

LEMMA CoversKeeps ==
  ASSUME NEW new, NEW old, Covers(new, old), NEW F, AllTell(old, F)
  PROVE  AllTell(new, F) /\ \A G : EachIsIn(old, G) => EachIsIn(new, G)
<1>1. ASSUME NEW i \in 1 .. Len(new) PROVE \E f \in F : Tells(new[i], f)
  <2>1. PICK j \in 1 .. Len(old) : Retold(new[i], old[j])
    BY DEF Covers
  <2>2. PICK f \in F : Tells(old[j], f)
    BY DEF AllTell
  <2>3. Tells(new[i], f)
    BY <2>1, <2>2 DEF Tells, Retold, IsOf
  <2>. QED BY <2>3
<1>2. ASSUME NEW G, EachIsIn(old, G), NEW f \in G PROVE \E i \in 1 .. Len(new) : IsOf(new[i], f)
  <2>1. PICK j \in 1 .. Len(old) : IsOf(old[j], f)
    BY <1>2 DEF EachIsIn
  <2>2. PICK i \in 1 .. Len(new) : IsOf(new[i], old[j])
    BY DEF Covers
  <2>. QED BY <2>1, <2>2 DEF IsOf
<1>. QED BY <1>1, <1>2 DEF AllTell, EachIsIn

LEMMA ToldTells ==
  ASSUME NEW f \in FileType, NEW flag
  PROVE  Tells(Told(f, flag, f.provides), f)
<1>1. PICK n \in Nat : n = Len(f.provides)
  BY FileFacts
<1>2. n + 1 .. n = {}
  OBVIOUS
<1>3. Begins(f.provides, f.provides)
  BY <1>1 DEF Begins
<1>4. PICK x : x = Told(f, flag, f.provides)
  OBVIOUS
<1>5. x.name = f.name /\ x.ver = f.ver /\ x.requires = f.requires /\ x.provides = f.provides
  BY <1>4 DEF Told
<1>. QED BY <1>1, <1>2, <1>3, <1>4, <1>5 DEF Tells, IsOf

LEMMA ToldMoreTells ==
  ASSUME NEW f \in FileType, NEW flag, NEW more \in Seq(RelType),
         \A k \in 1 .. Len(more) : more[k].name \in Range(f.files)
  PROVE  Tells(Told(f, flag, f.provides \o more), f)
<1>1. PICK offer \in Seq(RelType) : offer = f.provides
  BY FileFacts
<1>2. PICK all : all = offer \o more
  OBVIOUS
<1>3. /\ Len(offer) \in Nat /\ Len(more) \in Nat /\ Len(all) = Len(offer) + Len(more)
      /\ \A i \in 1 .. Len(offer) : all[i] = offer[i]
      /\ \A k \in 1 .. Len(more) : all[Len(offer) + k] = more[k]
  BY <1>2, JoinedFacts
<1>4. Begins(offer, all)
  BY <1>3 DEF Begins
<1>5. ASSUME NEW i \in Len(offer) + 1 .. Len(all) PROVE all[i].name \in Range(f.files)
  <2>1. i - Len(offer) \in 1 .. Len(more) /\ i = Len(offer) + (i - Len(offer))
    BY <1>3
  <2>2. PICK k \in 1 .. Len(more) : i = Len(offer) + k
    BY <2>1
  <2>. QED BY <1>3, <2>2
<1>6. PICK x : x = Told(f, flag, all)
  OBVIOUS
<1>7. x.name = f.name /\ x.ver = f.ver /\ x.requires = f.requires /\ x.provides = all
  BY <1>6 DEF Told
<1>. QED BY <1>1, <1>2, <1>4, <1>5, <1>6, <1>7 DEF Tells, IsOf

LEMMA AppendTells ==
  ASSUME NEW s \in Seq(ReadingType), NEW x \in ReadingType, NEW t, t = Append(s, x),
         NEW F, AllTell(s, F), NEW f \in F, Tells(x, f)
  PROVE  AllTell(t, F) /\ \A G : EachIsIn(s, G) => EachIsIn(t, G)
<1>1. PICK n : n = Len(s)
  OBVIOUS
<1>2. n \in Nat /\ Len(t) = n + 1 /\ (\A i \in 1 .. n : t[i] = s[i]) /\ t[n + 1] = x
  BY <1>1, AppendFacts
<1>3. \A i \in 1 .. n + 1 : i \in 1 .. n \/ i = n + 1
  BY <1>2
<1>4. ASSUME NEW i \in 1 .. n + 1 PROVE \E g \in F : Tells(t[i], g)
  BY <1>1, <1>2, <1>3 DEF AllTell
<1>5. ASSUME NEW G, EachIsIn(s, G), NEW g \in G PROVE \E i \in 1 .. n + 1 : IsOf(t[i], g)
  <2>1. PICK i \in 1 .. n : IsOf(s[i], g)
    BY <1>1, <1>5 DEF EachIsIn
  <2>2. i \in 1 .. n + 1 /\ t[i] = s[i]
    BY <1>2
  <2>. QED BY <2>1, <2>2
<1>. QED BY <1>2, <1>4, <1>5 DEF AllTell, EachIsIn

LEMMA CoveredIsKept ==
  ASSUME KeptInv, stage # "reading", stage' # "reading", UNCHANGED <<repoPkgs, installed>>,
         Covers(says', says)
  PROVE  KeptInv'
<1>1. PICK new, old, F, G : /\ new = says' /\ old = says
                            /\ F = Range(repoPkgs) \cup Range(installed) /\ G = Range(repoPkgs)
  OBVIOUS
<1>2. AllTell(old, F) /\ EachIsIn(old, G) /\ Covers(new, old)
  BY <1>1 DEF KeptInv
<1>3. AllTell(new, F) /\ EachIsIn(new, G)
  BY <1>2, CoversKeeps
<1>4. (Range(repoPkgs) \cup Range(installed))' = F /\ Range(repoPkgs)' = G
  BY <1>1 DEF Range
<1>. QED BY <1>1, <1>3, <1>4 DEF KeptInv

LEMMA SameCovers ==
  ASSUME NEW s
  PROVE  Covers(s, s)
  BY DEF Covers, Retold, IsOf

LEMMA ToldIsTyped ==
  ASSUME NEW f \in FileType, NEW flag \in BOOLEAN, NEW offer \in Seq(RelType)
  PROVE  Told(f, flag, offer) \in ReadingType
<1>1. f.name \in Int /\ f.ver \in Nat /\ f.requires \in Seq(RelType)
  BY FileFacts
<1>. QED BY <1>1 DEF Told, ReadingType

LEMMA KeptStep ==
  ASSUME TypesInv, TypesInv', QueueInv, KeptInv, [Next]_vars
  PROVE  KeptInv'
<1>0. /\ says \in Seq(ReadingType) /\ Len(says) = Len(pkgs) /\ Len(says') = Len(pkgs') /\ Len(pkgs) \in Nat
      /\ repoPkgs \in Seq(FileType) /\ installed \in Seq(FileType)
  BY SaysFacts, SaysAfter DEF SaysWell, TypesInv
<1>1. CASE AddNewPkg
  <2>1. /\ stage = "reading" /\ stage' = "reading" /\ UNCHANGED <<repoPkgs, installed>>
        /\ Len(pkgs) + 1 \in 1 .. Len(repoPkgs)
        /\ says' = Append(says, Told(repoPkgs[Len(pkgs) + 1], FALSE, repoPkgs[Len(pkgs) + 1].provides))
    BY <1>1, AddNewPkgEffect DEF AddNewPkg, systemVars
  <2>0. PICK t : t = says'
    OBVIOUS
  <2>2. PICK s \in Seq(ReadingType), files \in Seq(FileType) : s = says /\ files = repoPkgs
    BY <1>0
  <2>3. PICK n \in Nat : n = Len(s)
    BY <1>0, <2>2
  <2>4. PICK f \in FileType : f = files[n + 1]
    BY <1>0, <2>1, <2>2, <2>3
  <2>5. PICK x \in ReadingType : x = Told(f, FALSE, f.provides)
    BY ToldIsTyped, FileFacts
  <2>6. t = Append(s, x)
    BY <1>0, <2>0, <2>1, <2>2, <2>3, <2>4, <2>5
  <2>7. Len(t) = n + 1 /\ (\A i \in 1 .. n : t[i] = s[i]) /\ t[n + 1] = x
    BY <2>3, <2>6, AppendFacts
  <2>8. PICK F : F = Range(repoPkgs) \cup Range(installed)
    OBVIOUS
  <2>9. AllTell(s, F) /\ \A i \in 1 .. n : s[i] = Told(files[i], FALSE, files[i].provides)
    BY <1>0, <2>1, <2>2, <2>3, <2>8 DEF KeptInv
  <2>10. f \in F
    <3>1. n + 1 \in 1 .. Len(files)
      BY <1>0, <2>1, <2>2, <2>3
    <3>2. f \in Range(files)
      BY <2>4, <3>1, InRange
    <3>. QED BY <2>2, <2>8, <3>2
  <2>11. Tells(x, f)
    BY <2>5, ToldTells
  <2>12. AllTell(t, F)
    BY <2>6, <2>9, <2>10, <2>11, AppendTells
  <2>13. \A i \in 1 .. n + 1 : t[i] = Told(files[i], FALSE, files[i].provides)
    <3>1. \A i \in 1 .. n + 1 : i \in 1 .. n \/ i = n + 1
      OBVIOUS
    <3>. QED BY <2>4, <2>5, <2>7, <2>9, <3>1
  <2>14. (Range(repoPkgs) \cup Range(installed))' = F
    BY <2>1, <2>8 DEF Range
  <2>15. Len(pkgs') = n + 1 /\ n + 1 <= Len(files)
    BY <1>0, <2>0, <2>1, <2>2, <2>3, <2>7
  <2>. QED BY <2>0, <2>1, <2>2, <2>12, <2>13, <2>14, <2>15 DEF KeptInv
<1>2. CASE Rearrange
  <2>1. /\ stage = "reading" /\ stage' = "saved" /\ Len(pkgs) = Len(repoPkgs)
        /\ UNCHANGED <<repoPkgs, installed>>
    BY <1>2 DEF Rearrange, systemVars
  <2>2. Permuted(says', says) /\ Len(says') = Len(says)
    BY <1>0, <1>2, RearrangeEffect
  <2>3. PICK new, old, F, G : /\ new = says' /\ old = says
                              /\ F = Range(repoPkgs) \cup Range(installed) /\ G = Range(repoPkgs)
    OBVIOUS
  <2>4. Covers(new, old)
    BY <2>2, <2>3, PermutedCovers
  <2>5. AllTell(old, F)
    BY <2>3 DEF KeptInv
  <2>6. ASSUME NEW f \in G PROVE \E i \in 1 .. Len(old) : IsOf(old[i], f)
    <3>1. PICK i \in 1 .. Len(repoPkgs) : repoPkgs[i] = f
      BY <1>0, <2>3 DEF Range
    <3>2. i \in 1 .. Len(old) /\ old[i] = Told(f, FALSE, f.provides)
      BY <1>0, <2>1, <2>3, <3>1 DEF KeptInv
    <3>. QED BY <3>2 DEF Told, IsOf
  <2>7. EachIsIn(old, G)
    BY <2>6 DEF EachIsIn
  <2>8. AllTell(new, F) /\ EachIsIn(new, G)
    BY <2>4, <2>5, <2>7, CoversKeeps
  <2>9. (Range(repoPkgs) \cup Range(installed))' = F /\ Range(repoPkgs)' = G
    BY <2>1, <2>3 DEF Range
  <2>. QED BY <2>1, <2>3, <2>8, <2>9 DEF KeptInv
<1>3. CASE Load
  <2>1. stage = "saved" /\ stage' # "reading" /\ UNCHANGED <<repoPkgs, installed, pkgNames, relations>>
    BY <1>3 DEF Load
  <2>2. CASE pkgs = <<>>
    <3>1. says' = says
      BY <1>3, <2>2, RefusedEffect
    <3>. QED BY <2>1, <3>1, SameCovers, CoveredIsKept
  <2>3. CASE pkgs # <<>>
    <3>1. PICK o : KeptBy(o)
      BY <1>3, <2>3, LoadEffect
    <3>2. Covers(says', says)
      BY <2>1, <3>1, LoadCovers
    <3>. QED BY <2>1, <3>2, CoveredIsKept
  <2>. QED BY <2>2, <2>3
<1>4. CASE MarkInstalled
  <2>1. stage = "ranged" /\ stage' = "marking" /\ UNCHANGED <<repoPkgs, installed>>
    BY <1>4 DEF MarkInstalled
  <2>2. PICK new, old, same : new = says' /\ old = says /\ same = SameAsHead
    OBVIOUS
  <2>3. Covers(new, old)
    BY <1>4, <2>2, MarkInstalledEffect, MarkedCovers
  <2>. QED BY <2>1, <2>2, <2>3, CoveredIsKept
<1>5. CASE BeginEnhance
  <2>1. stage = "marking" /\ stage' # "reading" /\ UNCHANGED <<repoPkgs, installed>> /\ says' = says
    BY <1>5, BeginEnhanceEffect DEF BeginEnhance
  <2>. QED BY <2>1, SameCovers, CoveredIsKept
<1>6. CASE EnhanceWithOne
  <2>1. /\ stage = "enhancing" /\ stage' = stage /\ UNCHANGED <<repoPkgs, installed>> /\ todo # <<>>
        /\ Head(todo) \in FileType
        /\ says' = Append(says, Told(Head(todo), TRUE, Head(todo).provides \o FileProvides(Head(todo))))
    BY <1>6, EnhanceWithOneEffect DEF EnhanceWithOne
  <2>2. PICK s \in Seq(ReadingType), f \in FileType : s = says /\ f = Head(todo)
    BY <1>0, <2>1
  <2>3. /\ FileProvides(f) \in Seq(RelType)
        /\ \A k \in 1 .. Len(FileProvides(f)) : FileProvides(f)[k].name \in Range(f.files)
    BY FileProvidesFacts DEF TypesInv, Filled
  <2>4. PICK more \in Seq(RelType) : more = FileProvides(f)
    BY <2>3
  <2>5. PICK x : x = Told(f, TRUE, f.provides \o more)
    OBVIOUS
  <2>6. f.provides \o more \in Seq(RelType)
    <3>1. PICK offer \in Seq(RelType) : offer = f.provides
      BY FileFacts
    <3>. QED BY <3>1, JoinedFacts
  <2>7. x \in ReadingType
    BY <2>5, <2>6, ToldIsTyped
  <2>8. Tells(x, f)
    BY <2>3, <2>4, <2>5, ToldMoreTells
  <2>9. PICK t, F, G : /\ t = says' /\ F = Range(repoPkgs) \cup Range(installed) /\ G = Range(repoPkgs)
    OBVIOUS
  <2>10. t = Append(s, x)
    BY <2>1, <2>2, <2>4, <2>5, <2>9
  <2>11. f \in F
    <3>1. PICK q \in Seq(FileType) : q = todo
      BY DEF TypesInv
    <3>2. f \in Range(q)
      BY <2>1, <2>2, <3>1, TakenSets DEF QueueInv
    <3>. QED BY <2>9, <3>1, <3>2 DEF QueueInv
  <2>12. AllTell(s, F) /\ EachIsIn(s, G)
    BY <2>1, <2>2, <2>9 DEF KeptInv
  <2>13. AllTell(t, F) /\ EachIsIn(t, G)
    BY <2>7, <2>8, <2>10, <2>11, <2>12, AppendTells
  <2>14. (Range(repoPkgs) \cup Range(installed))' = F /\ Range(repoPkgs)' = G
    BY <2>1, <2>9 DEF Range
  <2>. QED BY <2>1, <2>9, <2>13, <2>14 DEF KeptInv
<1>7. CASE EndEnhance
  <2>1. stage = "enhancing" /\ stage' = "enhanced" /\ UNCHANGED <<repoPkgs, installed>>
    BY <1>7 DEF EndEnhance, systemVars
  <2>2. Permuted(says', says) /\ Len(says') = Len(says)
    BY <1>0, <1>7, EndEnhanceEffect
  <2>3. PICK new, old : new = says' /\ old = says
    OBVIOUS
  <2>4. Covers(new, old)
    BY <2>2, <2>3, PermutedCovers
  <2>. QED BY <2>1, <2>3, <2>4, CoveredIsKept
<1>8. CASE Looks
  <2>1. says' = says /\ UNCHANGED <<pkgs, repoPkgs, installed>>
    BY <1>8, LooksEffect
  <2>2. stage = "reading" <=> stage' = "reading"
    BY <1>8 DEF Looks, NextInstalled, Named, InitMetadata, Ask, Located, Answered, vars
  <2>3. CASE stage = "reading"
    <3>1. PICK s : s = says
      OBVIOUS
    <3>2. (Range(repoPkgs) \cup Range(installed))' = Range(repoPkgs) \cup Range(installed)
      BY <2>1 DEF Range
    <3>. QED BY <2>1, <2>2, <2>3, <3>1, <3>2 DEF KeptInv
  <2>4. CASE stage # "reading"
    BY <2>1, <2>2, <2>4, SameCovers, CoveredIsKept
  <2>. QED BY <2>3, <2>4
<1>. QED BY <1>1, <1>2, <1>3, <1>4, <1>5, <1>6, <1>7, <1>8, StepCases

LEMMA KeptStart == Init => KeptInv
<1>. SUFFICES ASSUME Init PROVE KeptInv
  OBVIOUS
<1>1. stage = "reading" /\ pkgs = <<>> /\ repoPkgs \in Seq(FileType)
  BY TypesStart DEF Init, TypesInv
<1>2. Len(says) = 0
  BY <1>1, TypesStart, SaysFacts DEF SaysWell
<1>3. AllTell(says, Range(repoPkgs) \cup Range(installed))
  BY <1>2 DEF AllTell
<1>. QED BY <1>1, <1>3 DEF KeptInv

\* What a prefix tells.
LEMMA BeginsIsSubSeq ==
  ASSUME NEW T, NEW s \in Seq(T), NEW t \in Seq(T), Begins(s, t)
  PROVE  Len(s) <= Len(t) /\ SubSeq(t, 1, Len(s)) = s
<1>1. Len(s) \in Nat /\ Len(t) \in Nat /\ Len(s) <= Len(t) /\ \A i \in 1 .. Len(s) : t[i] = s[i]
  BY DEF Begins
<1>2. PICK u : u = SubSeq(t, 1, Len(s))
  OBVIOUS
<1>3. u \in Seq(T) /\ Len(u) = Len(s) /\ \A i \in 1 .. Len(s) : u[i] = t[i]
  BY <1>1, <1>2
<1>4. \A i \in 1 .. Len(s) : u[i] = s[i]
  BY <1>1, <1>3
<1>. QED BY <1>1, <1>2, <1>3, <1>4

LEMMA TellsStandsFor ==
  ASSUME SaysWell, NEW i \in 1 .. Len(pkgs), NEW f \in FileType, Tells(says[i], f)
  PROVE  StandsFor(pkgs[i], f)
<1>1. PICK x, p : x = says[i] /\ p = pkgs[i]
  OBVIOUS
<1>2. /\ x.name = NameOf(p) /\ x.ver = p.ver /\ x.requires = RequiresOf(p) /\ x.provides = ProvidesOf(p)
      /\ x \in ReadingType
  BY <1>1 DEF SaysWell
<1>3. PICK s \in Seq(RelType), t \in Seq(RelType) : s = f.provides /\ t = x.provides
  BY <1>2, FileFacts DEF ReadingType
<1>4. /\ x.name = f.name /\ x.ver = f.ver /\ x.requires = f.requires /\ Begins(s, t)
      /\ \A k \in Len(s) + 1 .. Len(t) : t[k].name \in Range(f.files)
  BY <1>1, <1>3 DEF Tells, IsOf
<1>5. Len(s) <= Len(t) /\ SubSeq(t, 1, Len(s)) = s
  BY <1>4, BeginsIsSubSeq
<1>6. t = ProvidesOf(p)
  BY <1>2, <1>3
<1>7. Same(p, f) /\ RequiresOf(p) = f.requires
  BY <1>2, <1>4 DEF Same
<1>8. /\ Len(f.provides) <= Len(ProvidesOf(p))
      /\ SubSeq(ProvidesOf(p), 1, Len(f.provides)) = f.provides
      /\ \A k \in Len(f.provides) + 1 .. Len(ProvidesOf(p)) : ProvidesOf(p)[k].name \in Range(f.files)
  BY <1>3, <1>4, <1>5, <1>6
<1>. QED BY <1>1, <1>7, <1>8 DEF StandsFor

LEMMA SameIsOf ==
  ASSUME SaysWell, NEW i \in 1 .. Len(pkgs), NEW f
  PROVE  Same(pkgs[i], f) <=> IsOf(says[i], f)
  BY DEF SaysWell, Same, IsOf

LEMMA KeptAlways == SnapshotSpec => [](TypesInv /\ QueueInv /\ KeptInv)
<1>1. TypesInv /\ QueueInv /\ KeptInv /\ [Next]_vars => (TypesInv /\ QueueInv /\ KeptInv)'
  BY TypesStep, QueueStep, KeptStep
<1>. QED BY TypesStart, QueueStart, KeptStart, <1>1, PTL DEF SnapshotSpec

\* Registration, renumbering by rearrangeNames(), both sorts, saving,
\* removeEqualPkgs(), marking and enhance() lose nothing: every entry has the
\* name, version, requires and provides of one package that was read, and
\* after the first program every package of the repositories has an entry.
THEOREM SnapshotKeepsPackages == SnapshotSpec => []PackagesAreKept
<1>1. TypesInv /\ QueueInv /\ KeptInv => PackagesAreKept
  <2>. SUFFICES ASSUME TypesInv, KeptInv PROVE PackagesAreKept
    OBVIOUS
  <2>1. SaysWell
    BY SaysFacts
  <2>2. /\ Len(says) = Len(pkgs) /\ DOMAIN pkgs = 1 .. Len(pkgs)
    BY <2>1 DEF SaysWell
  <2>3. ASSUME NEW f \in Range(repoPkgs) \union Range(installed) PROVE f \in FileType
    <3>1. repoPkgs \in Seq(FileType) /\ installed \in Seq(FileType)
      BY DEF TypesInv
    <3>. QED BY <3>1 DEF Range
  <2>4. ASSUME NEW i \in 1 .. Len(pkgs)
        PROVE  \E f \in Range(repoPkgs) \union Range(installed) : StandsFor(pkgs[i], f)
    <3>1. PICK f \in Range(repoPkgs) \union Range(installed) : Tells(says[i], f)
      BY <2>2 DEF KeptInv, AllTell
    <3>2. StandsFor(pkgs[i], f)
      BY <2>1, <2>3, <3>1, TellsStandsFor
    <3>. QED BY <3>2
  <2>5. ASSUME stage # "reading", NEW f \in Range(repoPkgs) PROVE \E i \in 1 .. Len(pkgs) : Same(pkgs[i], f)
    <3>1. PICK i \in 1 .. Len(pkgs) : IsOf(says[i], f)
      BY <2>2, <2>5 DEF KeptInv, EachIsIn
    <3>. QED BY <2>1, <3>1, SameIsOf
  <2>. QED BY <2>2, <2>4, <2>5 DEF PackagesAreKept
<1>. QED BY <1>1, KeptAlways, PTL

-----------------------------------------------------------------------------
(***************************************************************************)
(* What is marked is installed                                             *)
(***************************************************************************)
Unique(s) == \A i, j \in 1 .. Len(s) : IsOf(s[i], s[j]) => i = j

MarksAre(s, D) == \A i \in 1 .. Len(s) : s[i].installed <=> \E f \in D : IsOf(s[i], f)

NoneIsIn(s, M) == \A f \in M : \A i \in 1 .. Len(s) : ~ IsOf(s[i], f)

\* Of the packages of the system, those in D are settled: marked, with an entry
\* of their own.  Those in M have none yet.
Settled(s, D, M) ==
  /\ Unique(s)
  /\ MarksAre(s, D)
  /\ EachIsIn(s, D)
  /\ NoneIsIn(s, M)

LEMMA PermutedSettled ==
  ASSUME NEW new, NEW old, Permuted(new, old), Len(new) = Len(old), NEW D, NEW M, Settled(old, D, M)
  PROVE  Settled(new, D, M)
<1>1. PICK o : IsOrderOf(o, new, old)
  BY DEF Permuted
<1>2. ASSUME NEW i \in 1 .. Len(new) PROVE o[i] \in 1 .. Len(old) /\ new[i] = old[o[i]]
  BY <1>1 DEF IsOrderOf
<1>3. ASSUME NEW i \in 1 .. Len(new), NEW j \in 1 .. Len(new), IsOf(new[i], new[j]) PROVE i = j
  <2>1. o[i] = o[j]
    BY <1>2, <1>3 DEF Settled, Unique
  <2>. QED BY <1>1, <2>1 DEF IsOrderOf
<1>4. ASSUME NEW i \in 1 .. Len(new) PROVE new[i].installed <=> \E f \in D : IsOf(new[i], f)
  BY <1>2 DEF Settled, MarksAre
<1>5. ASSUME NEW f \in D PROVE \E i \in 1 .. Len(new) : IsOf(new[i], f)
  <2>1. PICK j \in 1 .. Len(old) : IsOf(old[j], f)
    BY DEF Settled, EachIsIn
  <2>2. PICK i \in 1 .. Len(old) : o[i] = j
    BY <1>1 DEF IsOrderOf
  <2>. QED BY <1>2, <2>1, <2>2
<1>6. ASSUME NEW f \in M, NEW i \in 1 .. Len(new) PROVE ~ IsOf(new[i], f)
  BY <1>2 DEF Settled, NoneIsIn
<1>. QED BY <1>3, <1>4, <1>5, <1>6 DEF Settled, Unique, MarksAre, EachIsIn, NoneIsIn

\* All entries of a package get the mark.
LEMMA MarkedSettled ==
  ASSUME NEW new, NEW old, NEW h, NEW same, same = {i \in 1 .. Len(old) : IsOf(old[i], h)}, same # {},
         AreMarked(new, old, same), NEW D, NEW M, Settled(old, D, M)
  PROVE  Settled(new, D \cup {h}, M)
<1>1. Len(new) = Len(old)
  BY DEF AreMarked
<1>2. ASSUME NEW i \in 1 .. Len(new)
      PROVE  /\ new[i].name = old[i].name /\ new[i].ver = old[i].ver
             /\ i \in same => new[i].installed /\ IsOf(old[i], h)
             /\ i \notin same => new[i] = old[i] /\ ~ IsOf(old[i], h)
  BY <1>1 DEF AreMarked, Marked
<1>3. ASSUME NEW i \in 1 .. Len(new), NEW f PROVE IsOf(new[i], f) <=> IsOf(old[i], f)
  BY <1>2 DEF IsOf
<1>4. ASSUME NEW i \in 1 .. Len(new), NEW j \in 1 .. Len(new), IsOf(new[i], new[j]) PROVE i = j
  <2>1. IsOf(old[i], old[j])
    BY <1>2, <1>4 DEF IsOf
  <2>. QED BY <1>1, <2>1 DEF Settled, Unique
<1>5. ASSUME NEW i \in 1 .. Len(new) PROVE new[i].installed <=> \E f \in D \cup {h} : IsOf(new[i], f)
  <2>1. CASE i \in same
    BY <1>2, <1>3, <2>1
  <2>2. CASE i \notin same
    <3>1. new[i] = old[i] /\ ~ IsOf(new[i], h)
      BY <1>2, <2>2
    <3>2. old[i].installed <=> \E f \in D : IsOf(old[i], f)
      BY <1>1 DEF Settled, MarksAre
    <3>. QED BY <3>1, <3>2
  <2>. QED BY <2>1, <2>2
<1>6. ASSUME NEW f \in D \cup {h} PROVE \E i \in 1 .. Len(new) : IsOf(new[i], f)
  <2>1. \E i \in 1 .. Len(old) : IsOf(old[i], f)
    BY <1>6 DEF Settled, EachIsIn
  <2>. QED BY <1>1, <1>3, <2>1
<1>7. ASSUME NEW f \in M, NEW i \in 1 .. Len(new) PROVE ~ IsOf(new[i], f)
  BY <1>1, <1>3 DEF Settled, NoneIsIn
<1>. QED BY <1>4, <1>5, <1>6, <1>7 DEF Settled, Unique, MarksAre, EachIsIn, NoneIsIn

LEMMA MissedSettled ==
  ASSUME NEW s, NEW D, NEW M, Settled(s, D, M), NEW h, \A i \in 1 .. Len(s) : ~ IsOf(s[i], h)
  PROVE  Settled(s, D, M \cup {h})
  BY DEF Settled, NoneIsIn

LEMMA UnmarkedSettled ==
  ASSUME NEW new, NEW old, AreMarked(new, old, {}), NEW D, NEW M, Settled(old, D, M)
  PROVE  Settled(new, D, M)
<1>1. Len(new) = Len(old) /\ \A i \in 1 .. Len(old) : new[i] = old[i]
  BY DEF AreMarked
<1>2. Unique(new)
  BY <1>1 DEF Settled, Unique
<1>3. MarksAre(new, D)
  BY <1>1 DEF Settled, MarksAre
<1>4. EachIsIn(new, D)
  BY <1>1 DEF Settled, EachIsIn
<1>5. NoneIsIn(new, M)
  BY <1>1 DEF Settled, NoneIsIn
<1>. QED BY <1>2, <1>3, <1>4, <1>5 DEF Settled

Distinct(M) == \A f, g \in M : f.name = g.name /\ f.ver = g.ver => f = g

\* One that was missing is added.
LEMMA AddedSettled ==
  ASSUME NEW old \in Seq(ReadingType), NEW x \in ReadingType, NEW new, new = Append(old, x),
         NEW D, NEW M, Settled(old, D, M), Distinct(M), NEW h \in M, IsOf(x, h), x.installed
  PROVE  Settled(new, D \cup {h}, M \ {h})
<1>1. PICK n : n = Len(old)
  OBVIOUS
<1>2. n \in Nat /\ Len(new) = n + 1 /\ (\A i \in 1 .. n : new[i] = old[i]) /\ new[n + 1] = x
  BY <1>1, AppendFacts
<1>3. (\A i \in 1 .. n + 1 : i \in 1 .. n \/ i = n + 1) /\ (\A i \in 1 .. n : i \in 1 .. n + 1)
      /\ n + 1 \in 1 .. n + 1
  BY <1>2
<1>4. \A i \in 1 .. n : ~ IsOf(new[i], h)
  BY <1>1, <1>2 DEF Settled, NoneIsIn
<1>5. \A i \in 1 .. n : ~ IsOf(new[i], x) /\ ~ IsOf(x, new[i])
  BY <1>4 DEF IsOf
<1>6. ASSUME NEW i \in 1 .. n + 1, NEW j \in 1 .. n + 1, IsOf(new[i], new[j]) PROVE i = j
  <2>1. CASE i \in 1 .. n /\ j \in 1 .. n
    BY <1>1, <1>2, <1>6, <2>1 DEF Settled, Unique
  <2>2. CASE i = n + 1 \/ j = n + 1
    BY <1>2, <1>3, <1>5, <1>6, <2>2
  <2>. QED BY <1>3, <2>1, <2>2
<1>7. ASSUME NEW i \in 1 .. n + 1 PROVE new[i].installed <=> \E f \in D \cup {h} : IsOf(new[i], f)
  <2>1. CASE i \in 1 .. n
    <3>1. new[i] = old[i] /\ ~ IsOf(new[i], h)
      BY <1>2, <1>4, <2>1
    <3>2. old[i].installed <=> \E f \in D : IsOf(old[i], f)
      BY <1>1, <2>1 DEF Settled, MarksAre
    <3>. QED BY <3>1, <3>2
  <2>2. CASE i = n + 1
    BY <1>2, <2>2
  <2>. QED BY <1>3, <2>1, <2>2
<1>8. ASSUME NEW f \in D \cup {h} PROVE \E i \in 1 .. n + 1 : IsOf(new[i], f)
  <2>1. CASE f \in D
    <3>1. PICK i \in 1 .. n : IsOf(old[i], f)
      BY <1>1, <2>1 DEF Settled, EachIsIn
    <3>. QED BY <1>2, <1>3, <3>1
  <2>2. CASE f = h
    BY <1>2, <1>3, <2>2
  <2>. QED BY <2>1, <2>2
<1>9. ASSUME NEW f \in M \ {h}, NEW i \in 1 .. n + 1 PROVE ~ IsOf(new[i], f)
  <2>1. CASE i \in 1 .. n
    BY <1>1, <1>2, <2>1 DEF Settled, NoneIsIn
  <2>2. CASE i = n + 1
    BY <1>2, <2>2 DEF Distinct, IsOf
  <2>. QED BY <1>3, <2>1, <2>2
<1>. QED BY <1>2, <1>6, <1>7, <1>8, <1>9 DEF Settled, Unique, MarksAre, EachIsIn, NoneIsIn

LEMMA SameNameSameId ==
  ASSUME TypesInv, SaysWell, NEW i \in 1 .. Len(pkgs), NEW id \in 0 .. Len(pkgNames) - 1
  PROVE  says[i].name = pkgNames[id + 1] <=> pkgs[i].pkgId = id
<1>1. i - 1 \in 0 .. Len(pkgs) - 1 /\ (i - 1) + 1 = i
  BY DEF SaysWell
<1>2. PICK j \in 0 .. Len(pkgs) - 1 : j + 1 = i
  BY <1>1
<1>3. pkgNames[id + 1] = NameOf(pkgs[j + 1]) <=> pkgs[j + 1].pkgId = id
  BY EntryNames
<1>. QED BY <1>2, <1>3 DEF SaysWell

\* removeEqualPkgs() leaves one entry of every package: equal names are next
\* to each other, so whatever repeats an earlier entry is seen to.
LEMMA LoadUnique ==
  ASSUME TypesInv, TypesInv', NEW o, KeptBy(o), IdsInOrder(pkgs), UNCHANGED <<pkgNames, relations>>
  PROVE  Unique(says')
<1>1. SaysWell /\ SaysWell'
  BY SaysFacts, SaysAfter
<1>2. /\ Len(says) = Len(pkgs) /\ Len(says') = Len(pkgs') /\ Len(pkgs) \in Nat /\ Len(pkgs') \in Nat
      /\ \A i \in 1 .. Len(pkgs) : says[i].ver = pkgs[i].ver
  BY <1>1 DEF SaysWell
<1>3. \A i \in 1 .. Len(pkgs) : pkgs[i].pkgId \in 0 .. Len(pkgNames) - 1
  BY PkgIdsFacts
<1>4. ASSUME NEW i \in 1 .. Len(pkgs'), NEW j \in 1 .. Len(pkgs'), IsOf(says'[i], says'[j]), i < j PROVE FALSE
  <2>1. PICK a \in 1 .. Len(pkgs), b \in 1 .. Len(pkgs) : a = o[i] /\ b = o[j]
    BY DEF KeptBy, IsPickedBy
  <2>2. a < b /\ ~ Repeats(b) /\ says'[i] = says[a] /\ says'[j] = says[b]
    BY <1>2, <1>4, <2>1 DEF KeptBy, IsPickedBy
  <2>3. says[a].name = says[b].name /\ pkgs[a].ver = pkgs[b].ver
    BY <1>2, <1>4, <2>2 DEF IsOf
  <2>4. PICK id \in 0 .. Len(pkgNames) - 1 : id = pkgs[b].pkgId
    BY <1>3
  <2>5. says[b].name = pkgNames[id + 1]
    BY <1>1, <2>4, SameNameSameId
  <2>6. pkgs[a].pkgId = id
    BY <1>1, <2>3, <2>5, SameNameSameId
  <2>7. ASSUME NEW m \in a .. b PROVE pkgs[m].pkgId = id
    <3>1. m \in 1 .. Len(pkgs) /\ (a < m \/ a = m) /\ (m < b \/ m = b)
      BY <1>2
    <3>2. id <= pkgs[m].pkgId /\ pkgs[m].pkgId <= id /\ pkgs[m].pkgId \in Int /\ id \in Int
      BY <1>3, <2>4, <2>6, <3>1 DEF IdsInOrder
    <3>. QED BY <3>2
  <2>8. a \in 1 .. b - 1
    BY <1>2, <2>2
  <2>9. Repeats(b)
    BY <2>3, <2>4, <2>7, <2>8 DEF Repeats
  <2>. QED BY <2>2, <2>9
<1>5. ASSUME NEW i \in 1 .. Len(pkgs'), NEW j \in 1 .. Len(pkgs'), IsOf(says'[i], says'[j]) PROVE i = j
  <2>1. IsOf(says'[j], says'[i])
    BY <1>5 DEF IsOf
  <2>2. i < j \/ j < i \/ i = j
    BY <1>2
  <2>. QED BY <1>4, <1>5, <2>1, <2>2
<1>. QED BY <1>2, <1>5 DEF Unique

\* Of the range found, those of the version are all entries of the package.
LEMMA SameAsHeadFacts ==
  ASSUME TypesInv, QueryInv, SearchInv, stage = "ranged", at = "done"
  PROVE  SameAsHead = {i \in 1 .. Len(says) : IsOf(says[i], Head(todo))}
<1>1. SaysWell
  BY SaysFacts
<1>2. /\ Len(says) = Len(pkgs) /\ Len(pkgs) \in Nat
      /\ \A i \in 1 .. Len(pkgs) : says[i].ver = pkgs[i].ver
  BY <1>1 DEF SaysWell
<1>3. vec = PkgIds /\ many /\ value \in 0 .. Len(pkgNames) - 1 /\ pkgNames[value + 1] = Head(todo).name
  BY DEF QueryInv
<1>4. /\ fromPos \in Nat /\ toPos \in Nat
      /\ \A i \in Int : i \in fromPos + 1 .. toPos <=> i \in 1 .. Len(vec) /\ vec[i] = value
  BY <1>3, RangeFound
<1>5. Len(vec) = Len(pkgs) /\ \A i \in 1 .. Len(pkgs) : vec[i] = pkgs[i].pkgId
  BY <1>3, PkgIdsFacts
<1>6. PICK id \in 0 .. Len(pkgNames) - 1 : id = value
  BY <1>3
<1>7. \A i \in 1 .. Len(pkgs) : says[i].name = pkgNames[id + 1] <=> pkgs[i].pkgId = id
  BY <1>1, SameNameSameId
<1>8. \A i \in Int : i \in fromPos + 1 .. toPos <=> i \in 1 .. Len(pkgs) /\ says[i].name = Head(todo).name
  BY <1>3, <1>4, <1>5, <1>6, <1>7
<1>9. fromPos + 1 .. toPos \subseteq Int /\ 1 .. Len(says) \subseteq Int
  BY <1>2, <1>4
<1>10. ASSUME NEW i \in Int PROVE i \in SameAsHead <=> i \in 1 .. Len(says) /\ IsOf(says[i], Head(todo))
  BY <1>2, <1>8 DEF SameAsHead, IsOf
<1>. QED BY <1>9, <1>10 DEF SameAsHead

\* Packages of the system that have no entry for certain yet, and those known
\* to have none.
Waiting == Range(todo) \cup (IF stage \in Marking THEN Range(enhanceWith) ELSE {})
Missing == IF stage \in Marking THEN Range(enhanceWith) ELSE Range(todo)

MarkInv ==
  /\ stage \in {"reading", "saved"} => \A i \in 1 .. Len(says) : ~ says[i].installed
  /\ stage \notin {"reading", "saved", "refused"} => Settled(says, Range(installed) \ Waiting, Missing)

LEMMA MarkKept ==
  ASSUME MarkInv, stage \notin {"reading", "saved", "refused"}, stage' \notin {"reading", "saved", "refused"},
         Settled(says, Range(installed) \ Waiting, Missing) =>
           Settled(says', Range(installed)' \ Waiting', Missing')
  PROVE  MarkInv'
  BY DEF MarkInv

LEMMA MarkStep ==
  ASSUME TypesInv, TypesInv', OrderInv, QueryInv, SearchInv, QueueInv, MarkInv, [Next]_vars
  PROVE  MarkInv'
<1>0. /\ says \in Seq(ReadingType) /\ Len(says) = Len(pkgs) /\ Len(says') = Len(pkgs') /\ Len(pkgs) \in Nat
      /\ todo \in Seq(FileType) /\ enhanceWith \in Seq(FileType) /\ installed \in Seq(FileType)
  BY SaysFacts, SaysAfter DEF SaysWell, TypesInv
<1>1. CASE AddNewPkg
  <2>1. /\ stage = "reading" /\ stage' = "reading"
        /\ Len(pkgs) + 1 \in 1 .. Len(repoPkgs) /\ repoPkgs \in Seq(FileType)
        /\ says' = Append(says, Told(repoPkgs[Len(pkgs) + 1], FALSE, repoPkgs[Len(pkgs) + 1].provides))
    BY <1>1, AddNewPkgEffect DEF AddNewPkg, TypesInv
  <2>2. PICK s \in Seq(ReadingType), f \in FileType : s = says /\ f = repoPkgs[Len(pkgs) + 1]
    BY <1>0, <2>1
  <2>3. PICK x \in ReadingType : x = Told(f, FALSE, f.provides)
    BY ToldIsTyped, FileFacts
  <2>4. PICK t : t = says'
    OBVIOUS
  <2>5. PICK n : n = Len(s)
    OBVIOUS
  <2>6. t = Append(s, x)
    BY <2>1, <2>2, <2>3, <2>4
  <2>7. n \in Nat /\ Len(t) = n + 1 /\ (\A i \in 1 .. n : t[i] = s[i]) /\ t[n + 1] = x
    BY <2>5, <2>6, AppendFacts
  <2>8. \A i \in 1 .. n : ~ s[i].installed
    BY <2>1, <2>2, <2>5 DEF MarkInv
  <2>9. ~ x.installed
    BY <2>3 DEF Told
  <2>10. \A i \in 1 .. n + 1 : i \in 1 .. n \/ i = n + 1
    BY <2>7
  <2>11. \A i \in 1 .. n + 1 : ~ t[i].installed
    BY <2>7, <2>8, <2>9, <2>10
  <2>. QED BY <2>1, <2>4, <2>7, <2>11 DEF MarkInv
<1>2. CASE Rearrange
  <2>1. stage = "reading" /\ stage' = "saved" /\ Permuted(says', says) /\ Len(says') = Len(says)
    BY <1>0, <1>2, RearrangeEffect DEF Rearrange
  <2>2. PICK new, old : new = says' /\ old = says
    OBVIOUS
  <2>3. PICK o : IsOrderOf(o, new, old)
    BY <2>1, <2>2 DEF Permuted
  <2>4. \A i \in 1 .. Len(old) : ~ old[i].installed
    BY <2>1, <2>2 DEF MarkInv
  <2>5. \A i \in 1 .. Len(new) : ~ new[i].installed
    <3>1. ASSUME NEW i \in 1 .. Len(old) PROVE ~ new[i].installed
      <4>1. o[i] \in 1 .. Len(old) /\ new[i] = old[o[i]]
        BY <2>3 DEF IsOrderOf
      <4>. QED BY <2>4, <4>1
    <3>2. Len(new) = Len(old)
      BY <2>1, <2>2
    <3>. QED BY <3>1, <3>2
  <2>. QED BY <2>1, <2>2, <2>5 DEF MarkInv
<1>3. CASE Load
  <2>1. stage = "saved" /\ UNCHANGED <<installed, pkgNames, relations, enhanceWith>>
    BY <1>3 DEF Load
  <2>2. CASE pkgs = <<>>
    BY <1>3, <2>2, RefusedEffect DEF MarkInv
  <2>3. CASE pkgs # <<>>
    <3>1. stage' = "marking" /\ todo' = installed /\ enhanceWith = <<>>
      BY <1>3, <2>1, <2>3 DEF Load, QueueInv
    <3>2. PICK o : KeptBy(o)
      BY <1>3, <2>3, LoadEffect
    <3>3. IdsInOrder(pkgs)
      BY <2>1 DEF OrderInv
    <3>4. Unique(says')
      BY <2>1, <3>2, <3>3, LoadUnique
    <3>5. \A i \in 1 .. Len(says') : ~ says'[i].installed
      BY <1>0, <2>1, <3>2 DEF MarkInv, KeptBy, IsPickedBy
    <3>6. PICK s : s = says'
      OBVIOUS
    <3>7. Settled(s, {}, {})
      BY <3>4, <3>5, <3>6 DEF Settled, MarksAre, EachIsIn, NoneIsIn
    <3>8. Range(installed)' = Range(todo)' /\ Range(enhanceWith)' = {}
      BY <2>1, <3>1, EmptySets DEF Range
    <3>9. Missing' = {} /\ (Range(installed) \ Waiting)' = {}
      BY <3>1, <3>8 DEF Missing, Waiting, Marking
    <3>. QED BY <3>1, <3>6, <3>7, <3>9 DEF MarkInv
  <2>. QED BY <2>2, <2>3
<1>4. CASE MarkInstalled
  <2>1. /\ stage = "ranged" /\ stage' = "marking" /\ at = "done" /\ todo' = Tail(todo) /\ installed' = installed
    BY <1>4 DEF MarkInstalled
  <2>2. todo # <<>>
    BY <2>1 DEF TypesInv
  <2>3. /\ AreMarked(says', says, SameAsHead)
        /\ enhanceWith' = IF SameAsHead = {} THEN Append(enhanceWith, Head(todo)) ELSE enhanceWith
    BY <1>4, MarkInstalledEffect
  <2>4. PICK q \in Seq(FileType), e \in Seq(FileType) : q = todo /\ e = enhanceWith
    BY <1>0
  <2>5. PICK h : h = Head(q)
    OBVIOUS
  <2>6. NoTwice(q) /\ Range(q) \cap Range(e) = {} /\ Range(q) \subseteq Range(installed)
    BY <2>1, <2>4 DEF QueueInv, Marking
  <2>7. h \in Range(q) /\ Range(Tail(q)) = Range(q) \ {h} /\ h \in FileType
    BY <2>2, <2>4, <2>5, <2>6, TakenSets, TakenFacts
  <2>8. Range(Append(e, h)) = Range(e) \cup {h}
    BY <2>7, AppendedSets
  <2>9. PICK new, old, same : new = says' /\ old = says /\ same = SameAsHead
    OBVIOUS
  <2>10. same = {i \in 1 .. Len(old) : IsOf(old[i], h)}
    BY <2>1, <2>4, <2>5, <2>9, SameAsHeadFacts
  <2>11. PICK all, D, M : all = Range(installed) /\ D = all \ (Range(q) \cup Range(e)) /\ M = Range(e)
    OBVIOUS
  <2>12. Settled(old, D, M)
    <3>1. Range(installed) \ Waiting = D /\ Missing = M
      BY <2>1, <2>4, <2>11 DEF Waiting, Missing, Marking
    <3>. QED BY <2>1, <2>9, <3>1 DEF MarkInv
  <2>13. Range(todo)' = Range(q) \ {h} /\ Range(installed)' = all
    BY <2>1, <2>4, <2>7, <2>11 DEF Range
  <2>14. CASE same = {}
    <3>1. Range(enhanceWith)' = Range(e) \cup {h}
      BY <2>3, <2>4, <2>5, <2>8, <2>9, <2>14 DEF Range
    <3>2. Settled(old, D, M \cup {h})
      BY <2>10, <2>12, <2>14, MissedSettled
    <3>3. Settled(new, D, M \cup {h})
      BY <2>3, <2>9, <2>14, <3>2, UnmarkedSettled
    <3>4. (Range(installed) \ Waiting)' = D /\ Missing' = M \cup {h}
      BY <2>1, <2>7, <2>11, <2>13, <3>1 DEF Waiting, Missing, Marking
    <3>. QED BY <2>1, <2>9, <3>3, <3>4 DEF MarkInv
  <2>15. CASE same # {}
    <3>1. Range(enhanceWith)' = Range(e)
      BY <2>3, <2>4, <2>9, <2>15 DEF Range
    <3>2. Settled(new, D \cup {h}, M)
      BY <2>3, <2>9, <2>10, <2>12, <2>15, MarkedSettled
    <3>3. (Range(installed) \ Waiting)' = D \cup {h} /\ Missing' = M
      BY <2>1, <2>6, <2>7, <2>11, <2>13, <3>1 DEF Waiting, Missing, Marking
    <3>. QED BY <2>1, <2>9, <3>2, <3>3 DEF MarkInv
  <2>. QED BY <2>14, <2>15
<1>5. CASE BeginEnhance
  <2>1. /\ stage = "marking" /\ todo = <<>> /\ installed' = installed /\ enhanceWith' = enhanceWith
        /\ IF enhanceWith = <<>> THEN stage' = "enhanced" /\ todo' = todo
           ELSE stage' = "enhancing" /\ todo' = enhanceWith
        /\ says' = says
    BY <1>5, BeginEnhanceEffect DEF BeginEnhance
  <2>2. PICK e, all : e = enhanceWith /\ all = Range(installed)
    OBVIOUS
  <2>3. Range(installed)' = all /\ Range(enhanceWith)' = Range(e) /\ Range(todo) = {}
    BY <2>1, <2>2, EmptySets DEF Range
  <2>4. Range(todo)' = Range(e)
    BY <2>1, <2>2, EmptySets DEF Range
  <2>5. (Range(installed) \ Waiting)' = Range(installed) \ Waiting /\ Missing' = Missing
    BY <2>1, <2>2, <2>3, <2>4 DEF Waiting, Missing, Marking
  <2>. QED BY <2>1, <2>5 DEF MarkInv
<1>6. CASE EnhanceWithOne
  <2>1. /\ stage = "enhancing" /\ stage' = stage /\ todo # <<>> /\ todo' = Tail(todo)
        /\ UNCHANGED <<installed, enhanceWith>> /\ Head(todo) \in FileType
        /\ says' = Append(says, Told(Head(todo), TRUE, Head(todo).provides \o FileProvides(Head(todo))))
    BY <1>6, EnhanceWithOneEffect DEF EnhanceWithOne
  <2>2. PICK s \in Seq(ReadingType), q \in Seq(FileType) : s = says /\ q = todo
    BY <1>0
  <2>3. PICK h \in FileType : h = Head(q)
    BY <2>1, <2>2
  <2>4. PICK more \in Seq(RelType) : more = FileProvides(h)
    BY FileProvidesFacts DEF TypesInv, Filled
  <2>5. h.provides \o more \in Seq(RelType)
    <3>1. PICK offer \in Seq(RelType) : offer = h.provides
      BY FileFacts
    <3>. QED BY <3>1, JoinedFacts
  <2>6. PICK x \in ReadingType : x = Told(h, TRUE, h.provides \o more)
    BY <2>5, ToldIsTyped
  <2>7. IsOf(x, h) /\ x.installed
    BY <2>6 DEF IsOf, Told
  <2>8. PICK t, all : t = says' /\ all = Range(installed)
    OBVIOUS
  <2>9. t = Append(s, x)
    BY <2>1, <2>2, <2>3, <2>4, <2>6, <2>8
  <2>10. NoTwice(q) /\ Range(q) \subseteq all
    BY <2>2, <2>8 DEF QueueInv
  <2>11. h \in Range(q) /\ Range(Tail(q)) = Range(q) \ {h}
    BY <2>1, <2>2, <2>3, <2>10, TakenSets
  <2>12. Distinct(Range(q))
    <3>1. NoneTwice(installed)
      BY DEF TypesInv
    <3>2. Distinct(all)
      BY <2>8, <3>1 DEF Distinct, NoneTwice, Range
    <3>. QED BY <2>10, <3>2 DEF Distinct
  <2>13. Settled(s, all \ Range(q), Range(q))
    <3>1. Waiting = Range(q) /\ Missing = Range(q)
      BY <2>1, <2>2 DEF Waiting, Missing, Marking
    <3>. QED BY <2>1, <2>2, <2>8, <3>1 DEF MarkInv
  <2>14. Settled(t, (all \ Range(q)) \cup {h}, Range(q) \ {h})
    BY <2>7, <2>9, <2>11, <2>12, <2>13, AddedSettled
  <2>15. Range(todo)' = Range(q) \ {h} /\ Range(installed)' = all
    BY <2>1, <2>2, <2>8, <2>11 DEF Range
  <2>16. (Range(installed) \ Waiting)' = (all \ Range(q)) \cup {h} /\ Missing' = Range(q) \ {h}
    BY <2>1, <2>10, <2>11, <2>15 DEF Waiting, Missing, Marking
  <2>. QED BY <2>1, <2>8, <2>14, <2>16 DEF MarkInv
<1>7. CASE EndEnhance
  <2>1. /\ stage = "enhancing" /\ stage' = "enhanced" /\ UNCHANGED <<todo, enhanceWith, installed>>
        /\ Permuted(says', says) /\ Len(says') = Len(says)
    BY <1>0, <1>7, EndEnhanceEffect DEF EndEnhance, systemVars
  <2>2. PICK new, old, D, M : /\ new = says' /\ old = says
                              /\ D = Range(installed) \ Waiting /\ M = Missing
    OBVIOUS
  <2>3. Settled(new, D, M)
    BY <2>1, <2>2, PermutedSettled DEF MarkInv
  <2>4. (Range(installed) \ Waiting)' = D /\ Missing' = M
    BY <2>1, <2>2 DEF Waiting, Missing, Marking, Range
  <2>. QED BY <2>1, <2>2, <2>3, <2>4 DEF MarkInv
<1>8. CASE Named
  <2>1. /\ stage = "named" /\ at = "done" /\ says' = says /\ UNCHANGED <<pkgNames, pkgs, installed>>
        /\ vec = pkgNames /\ value = Head(todo).name /\ ~ many
    BY <1>8, LooksEffect DEF Looks, Named, QueryInv
  <2>2. PICK q \in Seq(FileType), e \in Seq(FileType) : q = todo /\ e = enhanceWith
    BY <1>0
  <2>3. q # <<>>
    BY <2>1, <2>2 DEF TypesInv
  <2>4. CASE found
    <3>1. stage' = "ranged" /\ UNCHANGED <<todo, enhanceWith>>
      BY <1>8, <2>4 DEF Named
    <3>2. (Range(installed) \ Waiting)' = Range(installed) \ Waiting /\ Missing' = Missing
      BY <2>1, <3>1 DEF Waiting, Missing, Marking, Range
    <3>. QED BY <2>1, <3>1, <3>2 DEF MarkInv
  <2>5. CASE ~ found
    <3>1. stage' = "marking" /\ todo' = Tail(todo) /\ enhanceWith' = Append(enhanceWith, Head(todo))
      BY <1>8, <2>5 DEF Named
    <3>2. PICK h : h = Head(q)
      OBVIOUS
    <3>3. NoTwice(q) /\ Range(q) \cap Range(e) = {} /\ Range(q) \subseteq Range(installed)
      BY <2>1, <2>2 DEF QueueInv, Marking
    <3>4. h \in Range(q) /\ Range(Tail(q)) = Range(q) \ {h} /\ h \in FileType
      BY <2>3, <3>2, <3>3, TakenSets, TakenFacts
    <3>5. Range(Append(e, h)) = Range(e) \cup {h}
      BY <3>4, AppendedSets
    <3>6. PICK s, all, D, M : /\ s = says /\ all = Range(installed)
                              /\ D = all \ (Range(q) \cup Range(e)) /\ M = Range(e)
      OBVIOUS
    <3>7. Settled(s, D, M)
      <4>1. Range(installed) \ Waiting = D /\ Missing = M
        BY <2>1, <2>2, <3>6 DEF Waiting, Missing, Marking
      <4>. QED BY <2>1, <3>6, <4>1 DEF MarkInv
    <3>8. ASSUME NEW i \in 1 .. Len(s) PROVE ~ IsOf(s[i], h)
      <4>1. i \in 1 .. Len(pkgs) /\ SaysWell
        BY <1>0, <3>6, SaysFacts
      <4>2. PICK id \in 0 .. Len(pkgNames) - 1 : id = pkgs[i].pkgId
        BY <4>1, PkgIdsFacts
      <4>3. says[i].name = pkgNames[id + 1]
        BY <4>1, <4>2, SameNameSameId
      <4>4. id + 1 \in 1 .. Len(pkgNames)
        BY DEF TypesInv, Filled
      <4>5. pkgNames[id + 1] # h.name
        BY <2>1, <2>2, <2>5, <3>2, <4>4, OneFound
      <4>. QED BY <3>6, <4>3, <4>5 DEF IsOf
    <3>9. Settled(s, D, M \cup {h})
      BY <3>7, <3>8, MissedSettled
    <3>10. Range(todo)' = Range(q) \ {h} /\ Range(installed)' = all /\ Range(enhanceWith)' = Range(e) \cup {h}
      <4>1. PICK t, u : t = Tail(q) /\ u = Append(e, h)
        OBVIOUS
      <4>2. todo' = t /\ enhanceWith' = u
        BY <2>2, <3>1, <3>2, <4>1
      <4>3. Range(todo)' = Range(t) /\ Range(enhanceWith)' = Range(u) /\ Range(installed)' = Range(installed)
        BY <2>1, <4>2 DEF Range
      <4>. QED BY <3>4, <3>5, <3>6, <4>1, <4>3
    <3>11. (Range(installed) \ Waiting)' = D /\ Missing' = M \cup {h}
      BY <3>1, <3>4, <3>6, <3>10 DEF Waiting, Missing, Marking
    <3>. QED BY <2>1, <3>1, <3>6, <3>9, <3>11 DEF MarkInv
  <2>. QED BY <2>4, <2>5
<1>9. CASE Looks /\ ~ Named
  <2>1. says' = says /\ installed' = installed
    BY <1>9, LooksEffect
  <2>2. UNCHANGED <<todo, enhanceWith>>
    BY <1>9 DEF Looks, NextInstalled, InitMetadata, Ask, Located, Answered, vars, systemVars
  <2>3. \/ stage' = stage
        \/ stage \in {"marking"} /\ stage' = "named"
        \/ stage \notin Marking \cup {"reading", "saved", "refused", "enhancing"}
           /\ stage' \notin Marking \cup {"reading", "saved", "refused", "enhancing"}
    BY <1>9 DEF Looks, NextInstalled, InitMetadata, Ask, Located, Answered, vars, Marking
  <2>4. (Range(installed) \ Waiting)' = Range(installed) \ Waiting /\ Missing' = Missing
    BY <2>1, <2>2, <2>3 DEF Waiting, Missing, Marking, Range
  <2>. QED BY <2>1, <2>3, <2>4 DEF MarkInv, Marking
<1>. QED BY <1>1, <1>2, <1>3, <1>4, <1>5, <1>6, <1>7, <1>8, <1>9, StepCases

\* Everything that is invariant of the two programs, searches and files aside.
WholeInv ==
  /\ SearchedInv
  /\ QueueInv
  /\ KeptInv
  /\ MarkInv

LEMMA MarkStart == Init => MarkInv
<1>. SUFFICES ASSUME Init PROVE MarkInv
  OBVIOUS
<1>1. stage = "reading" /\ pkgs = <<>>
  BY DEF Init
<1>2. Len(says) = 0
  BY <1>1, TypesStart, SaysFacts DEF SaysWell
<1>. QED BY <1>1, <1>2 DEF MarkInv

LEMMA WholeAlways == SnapshotSpec => []WholeInv
<1>1. Init => WholeInv
  BY SearchedStart, QueueStart, KeptStart, MarkStart DEF WholeInv
<1>2. WholeInv /\ [Next]_vars => WholeInv'
  <2>. SUFFICES ASSUME WholeInv, [Next]_vars PROVE WholeInv'
    OBVIOUS
  <2>1. TypesInv /\ OrderInv /\ QueryInv /\ SearchInv /\ QueueInv /\ KeptInv /\ MarkInv
    BY DEF WholeInv, SearchedInv
  <2>2. SearchedInv'
    BY SearchedStep DEF WholeInv
  <2>3. TypesInv'
    BY <2>2 DEF SearchedInv
  <2>4. QueueInv' /\ KeptInv' /\ MarkInv'
    BY <2>1, <2>3, QueueStep, KeptStep, MarkStep
  <2>. QED BY <2>2, <2>4 DEF WholeInv
<1>. QED BY <1>1, <1>2, PTL DEF SnapshotSpec

\* What the task solver takes for the system is the system: when the snapshot
\* is enhanced, the entries marked are those of the packages librpm lists, each
\* package of the system has exactly one entry, and so has each package of a
\* repository (removeEqualPkgs, fillWithhInstalledPackages, enhance).
THEOREM SnapshotMarksInstalled == SnapshotSpec => []MarkedAreInstalled
<1>1. WholeInv => MarkedAreInstalled
  <2>. SUFFICES ASSUME WholeInv, stage \in {"enhanced", "ready", "located", "required", "providers", "end"}
                PROVE  /\ \A i \in DOMAIN pkgs :
                            pkgs[i].installed <=> \E f \in Range(installed) : Same(pkgs[i], f)
                       /\ \A f \in Range(installed) \union Range(repoPkgs) :
                            \E i \in DOMAIN pkgs :
                              Same(pkgs[i], f) /\ \A j \in DOMAIN pkgs : Same(pkgs[j], f) => j = i
    BY DEF MarkedAreInstalled
  <2>1. TypesInv /\ QueueInv /\ KeptInv /\ MarkInv /\ SaysWell
    BY SaysFacts DEF WholeInv, SearchedInv
  <2>2. DOMAIN pkgs = 1 .. Len(pkgs) /\ Len(says) = Len(pkgs)
        /\ \A i \in 1 .. Len(pkgs) : says[i].installed = pkgs[i].installed
    BY <2>1 DEF SaysWell
  <2>3. \A i \in 1 .. Len(pkgs) : \A f : Same(pkgs[i], f) <=> IsOf(says[i], f)
    BY <2>1, SameIsOf
  <2>4. Waiting = {}
    BY <2>1, EmptySets DEF QueueInv, Waiting, Marking
  <2>5. Settled(says, Range(installed), Missing)
    BY <2>1, <2>4 DEF MarkInv
  <2>6. ASSUME NEW i \in 1 .. Len(pkgs)
        PROVE  pkgs[i].installed <=> \E f \in Range(installed) : Same(pkgs[i], f)
    BY <2>2, <2>3, <2>5 DEF Settled, MarksAre
  <2>7. ASSUME NEW f \in Range(installed) \union Range(repoPkgs)
        PROVE  \E i \in 1 .. Len(pkgs) : Same(pkgs[i], f) /\ \A j \in 1 .. Len(pkgs) : Same(pkgs[j], f) => j = i
    <3>1. PICK i \in 1 .. Len(says) : IsOf(says[i], f)
      BY <2>1, <2>5 DEF Settled, EachIsIn, KeptInv
    <3>2. ASSUME NEW j \in 1 .. Len(says), IsOf(says[j], f) PROVE j = i
      <4>1. IsOf(says[j], says[i])
        BY <3>1, <3>2 DEF IsOf
      <4>. QED BY <2>5, <4>1 DEF Settled, Unique
    <3>. QED BY <2>2, <2>3, <3>1, <3>2
  <2>. QED BY <2>2, <2>6, <2>7
<1>. QED BY <1>1, WholeAlways, PTL

-----------------------------------------------------------------------------
(***************************************************************************)
(* Files as provides                                                       *)
(***************************************************************************)

\* The package f has an entry that provides every file of it whose name is known.
Offers(s, names, f) ==
  \E i \in 1 .. Len(s) :
    /\ IsOf(s[i], f)
    /\ \A n \in Range(f.files) :
         n \in Range(names) => \E k \in 1 .. Len(s[i].provides) : s[i].provides[k].name = n

FilesInv ==
  stage \in {"enhancing", "enhanced", "ready"} =>
    \A f \in Range(enhanceWith) \ Range(todo) : Offers(says, pkgNames, f)

LEMMA PermutedOffers ==
  ASSUME NEW new, NEW old, Permuted(new, old), Len(new) = Len(old), NEW names, NEW f, Offers(old, names, f)
  PROVE  Offers(new, names, f)
<1>1. PICK o : IsOrderOf(o, new, old)
  BY DEF Permuted
<1>2. PICK j \in 1 .. Len(old) :
        /\ IsOf(old[j], f)
        /\ \A n \in Range(f.files) :
             n \in Range(names) => \E k \in 1 .. Len(old[j].provides) : old[j].provides[k].name = n
  BY DEF Offers
<1>3. PICK i \in 1 .. Len(old) : o[i] = j
  BY <1>1 DEF IsOrderOf
<1>4. i \in 1 .. Len(new) /\ new[i] = old[j]
  BY <1>1, <1>3 DEF IsOrderOf
<1>. QED BY <1>2, <1>4 DEF Offers

LEMMA AppendOffers ==
  ASSUME NEW s \in Seq(ReadingType), NEW x \in ReadingType, NEW t, t = Append(s, x), NEW names
  PROVE  /\ \A f : Offers(s, names, f) => Offers(t, names, f)
         /\ \A f : /\ IsOf(x, f)
                   /\ \A n \in Range(f.files) :
                        n \in Range(names) => \E k \in 1 .. Len(x.provides) : x.provides[k].name = n
                   => Offers(t, names, f)
<1>1. PICK n : n = Len(s)
  OBVIOUS
<1>2. n \in Nat /\ Len(t) = n + 1 /\ (\A i \in 1 .. n : t[i] = s[i]) /\ t[n + 1] = x
  BY <1>1, AppendFacts
<1>3. n + 1 \in 1 .. n + 1 /\ \A i \in 1 .. n : i \in 1 .. n + 1
  BY <1>2
<1>4. ASSUME NEW f, Offers(s, names, f) PROVE Offers(t, names, f)
  <2>1. PICK i \in 1 .. n :
          /\ IsOf(s[i], f)
          /\ \A m \in Range(f.files) :
               m \in Range(names) => \E k \in 1 .. Len(s[i].provides) : s[i].provides[k].name = m
    BY <1>1, <1>4 DEF Offers
  <2>2. i \in 1 .. Len(t) /\ t[i] = s[i]
    BY <1>2, <1>3
  <2>. QED BY <2>1, <2>2 DEF Offers
<1>5. ASSUME NEW f, IsOf(x, f),
             \A m \in Range(f.files) :
               m \in Range(names) => \E k \in 1 .. Len(x.provides) : x.provides[k].name = m
      PROVE  Offers(t, names, f)
  BY <1>2, <1>3, <1>5 DEF Offers
<1>. QED BY <1>4, <1>5

\* An added package offers its known files.
KnownAreAmong(f, names, provides) ==
  \A n \in Range(f.files) : n \in Range(names) => \E k \in 1 .. Len(provides) : provides[k].name = n

LEMMA JoinedOffers ==
  ASSUME NEW f, NEW names, NEW offer \in Seq(RelType), NEW more \in Seq(RelType), KnownAreAmong(f, names, more)
  PROVE  KnownAreAmong(f, names, offer \o more)
<1>1. PICK all : all = offer \o more
  OBVIOUS
<1>2. /\ Len(offer) \in Nat /\ Len(more) \in Nat /\ Len(all) = Len(offer) + Len(more)
      /\ \A k \in 1 .. Len(more) : all[Len(offer) + k] = more[k]
  BY <1>1, JoinedFacts
<1>3. ASSUME NEW n \in Range(f.files), n \in Range(names) PROVE \E k \in 1 .. Len(all) : all[k].name = n
  <2>1. PICK k \in 1 .. Len(more) : more[k].name = n
    BY <1>3 DEF KnownAreAmong
  <2>2. Len(offer) + k \in 1 .. Len(all) /\ all[Len(offer) + k].name = n
    BY <1>2, <2>1
  <2>. QED BY <2>2
<1>. QED BY <1>1, <1>3 DEF KnownAreAmong

LEMMA FilesStep ==
  ASSUME WholeInv, WholeInv', FilesInv, [Next]_vars
  PROVE  FilesInv'
<1>0. /\ TypesInv /\ QueueInv /\ says \in Seq(ReadingType) /\ todo \in Seq(FileType)
      /\ Len(says) = Len(pkgs) /\ Len(says') = Len(pkgs') /\ pkgNames \in Seq(Int)
  <2>1. TypesInv /\ TypesInv' /\ QueueInv
    BY DEF WholeInv, SearchedInv
  <2>. QED BY <2>1, SaysFacts, SaysAfter DEF SaysWell, TypesInv, Filled
<1>1. CASE BeginEnhance
  <2>1. /\ todo = <<>> /\ enhanceWith' = enhanceWith
        /\ IF enhanceWith = <<>> THEN todo' = todo ELSE todo' = enhanceWith
    BY <1>1 DEF BeginEnhance
  <2>2. PICK e : e = enhanceWith
    OBVIOUS
  <2>3. Range(todo)' = Range(e) /\ Range(enhanceWith)' = Range(e)
    BY <2>1, <2>2 DEF Range
  <2>. QED BY <2>3 DEF FilesInv
<1>2. CASE EnhanceWithOne
  <2>1. /\ stage = "enhancing" /\ todo # <<>> /\ todo' = Tail(todo)
        /\ UNCHANGED <<enhanceWith, pkgNames>> /\ Head(todo) \in FileType
        /\ says' = Append(says, Told(Head(todo), TRUE, Head(todo).provides \o FileProvides(Head(todo))))
    BY <1>0, <1>2, EnhanceWithOneEffect DEF EnhanceWithOne
  <2>2. PICK s \in Seq(ReadingType), q \in Seq(FileType) : s = says /\ q = todo
    BY <1>0
  <2>3. PICK h \in FileType : h = Head(q)
    BY <2>1, <2>2
  <2>4. FileProvides(h) \in Seq(RelType)
    BY <1>0, FileProvidesFacts
  <2>5. h.provides \o FileProvides(h) \in Seq(RelType)
    <3>1. PICK offer \in Seq(RelType), more \in Seq(RelType) : offer = h.provides /\ more = FileProvides(h)
      BY <2>4, FileFacts
    <3>. QED BY <3>1, JoinedFacts
  <2>6. PICK offer \in Seq(RelType) : offer = h.provides \o FileProvides(h)
    BY <2>5
  <2>7. PICK x \in ReadingType : x = Told(h, TRUE, offer)
    BY ToldIsTyped
  <2>8. PICK t, names : t = says' /\ names = pkgNames
    OBVIOUS
  <2>9. t = Append(s, x)
    BY <2>1, <2>2, <2>3, <2>6, <2>7, <2>8
  <2>10. IsOf(x, h)
    BY <2>7 DEF IsOf, Told
  <2>11. \A n \in Range(h.files) :
           n \in Range(names) => \E k \in 1 .. Len(x.provides) : x.provides[k].name = n
    <3>1. PICK given \in Seq(RelType), more \in Seq(RelType) : given = h.provides /\ more = FileProvides(h)
      BY <2>4, FileFacts
    <3>2. \A n \in Range(h.files) : n \in Range(pkgNames) =>
            \E k \in 1 .. Len(FileProvides(h)) : FileProvides(h)[k].name = n
      BY <1>0, FileProvidesFacts
    <3>3. KnownAreAmong(h, names, more)
      BY <2>8, <3>1, <3>2 DEF KnownAreAmong
    <3>4. KnownAreAmong(h, names, offer)
      BY <2>6, <3>1, <3>3, JoinedOffers
    <3>5. x.provides = offer
      BY <2>7 DEF Told
    <3>. QED BY <3>4, <3>5 DEF KnownAreAmong
  <2>12. Offers(t, names, h)
    BY <2>9, <2>10, <2>11, AppendOffers
  <2>13. NoTwice(q)
    BY <1>0, <2>2 DEF QueueInv
  <2>14. Range(Tail(q)) = Range(q) \ {h}
    BY <2>1, <2>2, <2>3, <2>13, TakenSets
  <2>15. PICK E : E = Range(enhanceWith)
    OBVIOUS
  <2>16. ASSUME NEW f \in E \ Range(Tail(q)) PROVE Offers(t, names, f)
    <3>1. CASE f = h
      BY <2>12, <3>1
    <3>2. CASE f # h
      <4>1. f \in Range(enhanceWith) \ Range(todo)
        BY <2>2, <2>14, <2>15, <3>2
      <4>2. Offers(s, names, f)
        BY <2>1, <2>2, <2>8, <4>1 DEF FilesInv
      <4>. QED BY <2>9, <4>2, AppendOffers
    <3>. QED BY <3>1, <3>2
  <2>17. (Range(enhanceWith) \ Range(todo))' = E \ Range(Tail(q))
    BY <2>1, <2>2, <2>15 DEF Range
  <2>. QED BY <2>1, <2>8, <2>16, <2>17 DEF FilesInv
<1>3. CASE EndEnhance
  <2>1. /\ stage = "enhancing" /\ UNCHANGED <<todo, enhanceWith, pkgNames>>
        /\ Permuted(says', says) /\ Len(says') = Len(says)
    BY <1>0, <1>3, EndEnhanceEffect DEF EndEnhance, systemVars
  <2>2. PICK new, old, names : new = says' /\ old = says /\ names = pkgNames
    OBVIOUS
  <2>3. PICK S : S = Range(enhanceWith) \ Range(todo)
    OBVIOUS
  <2>4. (Range(enhanceWith) \ Range(todo))' = S
    BY <2>1, <2>3 DEF Range
  <2>5. \A f \in S : Offers(old, names, f)
    BY <2>1, <2>2, <2>3 DEF FilesInv
  <2>6. \A f \in S : Offers(new, names, f)
    BY <2>1, <2>2, <2>5, PermutedOffers
  <2>. QED BY <2>1, <2>2, <2>4, <2>6 DEF FilesInv
<1>4. CASE Looks
  <2>1. says' = says /\ pkgNames' = pkgNames
    BY <1>0, <1>4, LooksEffect
  <2>2. stage' \in {"enhancing", "enhanced", "ready"} =>
          stage \in {"enhancing", "enhanced", "ready"} /\ UNCHANGED <<todo, enhanceWith>>
    BY <1>4 DEF Looks, NextInstalled, Named, InitMetadata, Ask, Located, Answered, vars, systemVars
  <2>3. PICK s, names : s = says /\ names = pkgNames
    OBVIOUS
  <2>4. ASSUME UNCHANGED <<todo, enhanceWith>>
        PROVE  (Range(enhanceWith) \ Range(todo))' = Range(enhanceWith) \ Range(todo)
    BY <2>4 DEF Range
  <2>. QED BY <2>1, <2>2, <2>3, <2>4 DEF FilesInv
<1>5. CASE AddNewPkg \/ Rearrange \/ Load \/ MarkInstalled
  <2>1. stage' \notin {"enhancing", "enhanced", "ready"}
    BY <1>5 DEF AddNewPkg, Rearrange, Load, MarkInstalled
  <2>. QED BY <2>1 DEF FilesInv
<1>. QED BY <1>1, <1>2, <1>3, <1>4, <1>5, StepCases

LEMMA FilesAlways == SnapshotSpec => [](WholeInv /\ FilesInv)
<1>1. Init => FilesInv
  BY DEF Init, FilesInv
<1>2. WholeInv /\ WholeInv' /\ FilesInv /\ [Next]_vars => FilesInv'
  BY FilesStep
<1>. QED BY <1>1, <1>2, WholeAlways, PTL DEF SnapshotSpec

\* Names of requires are names of the snapshot.
LEMMA RequiredNamesKnown ==
  ASSUME TypesInv, NEW p \in Range(pkgs), NEW n \in Range(NamesOf(RequiresOf(p)))
  PROVE  n \in Range(pkgNames)
<1>1. PICK i \in 1 .. Len(pkgs) : p = pkgs[i]
  BY DEF TypesInv, Filled, Range
<1>2. WellPlaced(p, pkgNames, relations) /\ WellRelated(pkgNames, relations) /\ pkgNames \in Seq(Int)
      /\ relations \in Seq(RelationType)
  BY <1>1 DEF TypesInv, Filled, WellRelated
<1>3. p \in PkgType /\ p.requires.pos + p.requires.count <= Len(relations)
  BY <1>2 DEF WellPlaced
<1>4. PICK span \in SpanType : span = p.requires
  BY <1>3, PkgFacts
<1>5. /\ DOMAIN Related(span) = 1 .. span.count
      /\ \A k \in 1 .. span.count :
           /\ span.pos + k \in 1 .. Len(relations)
           /\ Related(span)[k] = relations[span.pos + k]
  BY <1>2, <1>3, <1>4, RelatedFacts
<1>6. PICK want : want = NamesOf(RequiresOf(p))
  OBVIOUS
<1>7. want = [k \in 1 .. span.count |-> pkgNames[relations[span.pos + k].pkgId + 1]]
  BY <1>4, <1>5, <1>6 DEF NamesOf, RequiresOf, ByName
<1>8. PICK k \in 1 .. span.count : n = pkgNames[relations[span.pos + k].pkgId + 1]
  BY <1>6, <1>7 DEF Range
<1>9. PICK names \in Seq(Int), rels \in Seq(RelationType) : names = pkgNames /\ rels = relations
  BY <1>2
<1>10. PICK j \in 1 .. Len(rels) : j = span.pos + k
  BY <1>5, <1>9
<1>11. rels[j].pkgId + 1 \in 1 .. Len(names)
  BY <1>2, <1>9, RelationFacts
<1>12. names[rels[j].pkgId + 1] \in Range(names)
  BY <1>11, InRange
<1>. QED BY <1>8, <1>9, <1>10, <1>12

\* addProvidesForEnhancing() may drop files of unknown names: whatever a
\* package of the snapshot requires, repository's or added, and an added
\* package has as a file, is among the provides of that package's entry, as all
\* names are known before the first package is added (PkgSnapshot.cpp:327-333).
THEOREM SnapshotProvidesFiles == SnapshotSpec => []RequiredFilesAreProvided
<1>1. WholeInv /\ FilesInv => RequiredFilesAreProvided
  <2>. SUFFICES ASSUME WholeInv, FilesInv, stage = "ready",
                       NEW f \in Range(enhanceWith),
                       NEW n \in UNION {Range(NamesOf(RequiresOf(p))) : p \in Range(pkgs)},
                       n \in Range(f.files)
                PROVE  \E p \in Range(pkgs) : Same(p, f) /\ n \in Range(NamesOf(ProvidesOf(p)))
    BY DEF RequiredFilesAreProvided
  <2>1. TypesInv /\ QueueInv /\ SaysWell
    BY SaysFacts DEF WholeInv, SearchedInv
  <2>2. n \in Range(pkgNames)
    BY <2>1, RequiredNamesKnown
  <2>3. Range(todo) = {}
    BY <2>1, EmptySets DEF QueueInv, Marking
  <2>4. Offers(says, pkgNames, f)
    BY <2>3 DEF FilesInv
  <2>5. PICK i \in 1 .. Len(says) :
          IsOf(says[i], f) /\ \E k \in 1 .. Len(says[i].provides) : says[i].provides[k].name = n
    BY <2>2, <2>4 DEF Offers
  <2>6. PICK k \in 1 .. Len(says[i].provides) : says[i].provides[k].name = n
    BY <2>5
  <2>7. i \in 1 .. Len(pkgs) /\ says[i].provides = ProvidesOf(pkgs[i]) /\ says[i] \in ReadingType
    BY <2>1 DEF SaysWell
  <2>8. PICK offer \in Seq(RelType) : offer = ProvidesOf(pkgs[i])
    BY <2>7 DEF ReadingType
  <2>9. NamesOf(offer) \in Seq(Int) /\ Len(NamesOf(offer)) = Len(offer)
        /\ \A m \in 1 .. Len(offer) : NamesOf(offer)[m] = offer[m].name
    BY NamesOfFacts
  <2>10. n \in Range(NamesOf(offer))
    <3>1. PICK given \in Seq(Int) : given = NamesOf(offer)
      BY <2>9
    <3>2. k \in 1 .. Len(given) /\ given[k] = n
      BY <2>6, <2>7, <2>8, <2>9, <3>1
    <3>. QED BY <3>1, <3>2, InRange
  <2>11. Same(pkgs[i], f) /\ pkgs[i] \in Range(pkgs)
    <3>1. DOMAIN pkgs = 1 .. Len(pkgs)
      BY <2>1 DEF SaysWell
    <3>. QED BY <2>1, <2>5, <2>7, <3>1, SameIsOf DEF Range
  <2>. QED BY <2>8, <2>10, <2>11
<1>. QED BY <1>1, FilesAlways, PTL

=============================================================================
