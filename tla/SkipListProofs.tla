--------------------------- MODULE SkipListProofs ---------------------------
(***************************************************************************)
(* Theorems about SkipList, for any entries and any draws: Search finds    *)
(* the greatest smaller node of every level, so Insert keeps each level a  *)
(* sorted list through all nodes whose towers reach it, and Get finds the  *)
(* newest entry of a key.                                                  *)
(*                                                                         *)
(* Walk, Search and Along are recursive functions.  A solution of the      *)
(* equation that defines one is written down, so the function satisfies    *)
(* it; that its values are the ones meant follows by looking at the first  *)
(* place, or the greatest node, at which one is not.                       *)
(***************************************************************************)
EXTENDS SkipList, FiniteSetTheorems, SequenceTheorems, WellFoundedInduction, TLAPS

-----------------------------------------------------------------------------
(* The inductive invariant.                                                *)

(* The nodes that a walk along level i can meet.                           *)
On(i) == {head_} \union {n \in Inserted : \E m \in Nodes : next_[m][i] = n}

(* m comes next after n in S; nothing comes after n in S.                  *)
Follows(m, n, S) == /\ m \in S /\ Less(n, m)
                    /\ \A p \in S : Less(n, p) => p = m \/ Less(m, p)
IsLast(n, S) == \A p \in S : ~ Less(n, p)

(* A link leads to the next node of its level, if there is one.            *)
Chained(i) ==
    \A n \in On(i) : IF next_[n][i] \in Nodes THEN Follows(next_[n][i], n, On(i))
                     ELSE IsLast(n, On(i))

(* Nodes with lower towers have no link on this level.                     *)
Bare(i) == \A n \in Nodes : n \notin On(i) => next_[n][i] = Garbage

(* Every node is on level 0, and each level is a part of the one below.    *)
Nested ==
    /\ On(0) = Nodes
    /\ \A i \in Top : i > 0 => On(i) \subseteq On(i - 1)
    /\ \A i \in Top : i > levels_ => On(i) = {head_}

Typed ==
    /\ head_ \in Nodes
    /\ Inserted \subseteq Pool
    /\ next_ \in [Nodes -> [Top -> Nodes \union {tail_, Garbage}]]
    /\ levels_ \in Top
    /\ levels_ <= Cardinality(Inserted)

Lists == Nested /\ \A i \in Top : Chained(i) /\ Bare(i)

(* Below the level that the constructor leaves out every list has an end,  *)
(* no level is higher than the draws, and none is in use for nothing.      *)
Ended ==
    /\ levels_ <= MaxDraws
    /\ \A i \in Top : i < kMaxLevels => \A n \in On(i) : next_[n][i] # Garbage
    /\ \A i \in Top : 0 < i /\ i <= levels_ => On(i) # {head_}

ListInv == Typed /\ Lists /\ Ended

-----------------------------------------------------------------------------
(* Numbers and finite sets: a set of numbers has a smallest element, and a *)
(* finite set has an element that no other one exceeds.                    *)
LEMMA SmallestNat ==
    ASSUME NEW A \in SUBSET Nat, A # {}
    PROVE  \E x \in A : \A y \in A : x <= y
<1>0. \E R : IsWellFoundedOn(R, Nat) /\ \A x, y \in Nat : <<x, y>> \in R <=> x < y
  <2>1. IsWellFoundedOn(OpToRel(<, Nat), Nat)
    BY NatLessThanWellFounded
  <2>2. \A x, y \in Nat : <<x, y>> \in OpToRel(<, Nat) <=> x < y
    BY DEF OpToRel
  <2> QED
    BY <2>1, <2>2
<1>1. PICK R : IsWellFoundedOn(R, Nat) /\ \A x, y \in Nat : <<x, y>> \in R <=> x < y
  BY <1>0
<1>2. IsWellFoundedOn(R, Nat) /\ A \subseteq Nat
  BY <1>1
<1>3. \E x \in A : \A y \in A : ~ (<<y, x>> \in R)
  BY <1>2, WFMin, Zenon
<1>4. PICK x \in A : \A y \in A : ~ (<<y, x>> \in R)
  BY <1>3
<1>5. \A y \in A : ~ (y < x)
  <2> TAKE y \in A
  <2>1. y \in Nat /\ x \in Nat
    OBVIOUS
  <2>2. ~ (<<y, x>> \in R)
    BY <1>4
  <2> QED
    BY <1>1, <2>1, <2>2, Zenon
<1>6. \A y \in A : x <= y
  BY <1>5
<1> QED
  BY <1>6
(* R orders S in part: nothing is below itself, and R is transitive.       *)
Orders(R, S) ==
    \A x, y, z \in S : ~ (<<x, x>> \in R)
                       /\ (<<x, y>> \in R /\ <<y, z>> \in R => <<x, z>> \in R)

(* A finite set has an element with none above it: one with the fewest     *)
(* above it.                                                               *)
LEMMA MaximalElement ==
    ASSUME NEW S, IsFiniteSet(S), S # {}, NEW R, Orders(R, S)
    PROVE  \E x \in S : \A y \in S : ~ (<<x, y>> \in R)
<1> DEFINE Up(x) == {y \in S : <<x, y>> \in R}
           A == {n \in Nat : \E x \in S : Cardinality(Up(x)) = n}
<1>1. \A x \in S : IsFiniteSet(Up(x)) /\ Cardinality(Up(x)) \in Nat
  <2> TAKE x \in S
  <2>1. Up(x) \in SUBSET S
    OBVIOUS
  <2>2. IsFiniteSet(Up(x))
    BY <2>1, FS_Subset
  <2> QED
    BY <2>2, FS_CardinalityType
<1>2. A \in SUBSET Nat /\ A # {}
  BY <1>1
<1>3. PICK n \in A : \A m \in A : n <= m
  BY <1>2, SmallestNat
<1>4. PICK x \in S : Cardinality(Up(x)) = n
  BY <1>3
<1>5. \A y \in S : ~ (<<x, y>> \in R)
  <2> SUFFICES ASSUME NEW y \in S, <<x, y>> \in R
               PROVE  FALSE
    OBVIOUS
  <2>1. Up(y) \in SUBSET Up(x)
    BY DEF Orders
  <2>2. y \in Up(x) /\ y \notin Up(y)
    BY DEF Orders
  <2>3. Cardinality(Up(y)) <= Cardinality(Up(x))
    BY <1>1, <2>1, FS_Subset
  <2>4. Cardinality(Up(y)) # Cardinality(Up(x))
    BY <1>1, <2>1, <2>2, FS_Subset
  <2>5. Cardinality(Up(y)) \in A
    BY <1>1
  <2>6. Cardinality(Up(x)) <= Cardinality(Up(y))
    BY <1>3, <1>4, <2>5
  <2>7. Cardinality(Up(x)) \in Nat /\ Cardinality(Up(y)) \in Nat
    BY <1>1
  <2> HIDE DEF Up
  <2> QED
    BY <2>3, <2>4, <2>6, <2>7
<1> QED
  BY <1>5

-----------------------------------------------------------------------------
(* The order of entries and of the head, which is below all of them.       *)
Points == Pool \union {head_}
Comparable(x) == x.key \in Int /\ x.id \in Int

(* Keys and ids are numbers, those of the head are smaller than all        *)
(* others, and tail and uninitialised links are not mistaken for nodes.    *)
LEMMA PointsComparable ==
    /\ \A x \in Points : Comparable(x)
    /\ IsFiniteSet(Points)
    /\ \A x \in Pool : Less(head_, x) /\ x # head_ /\ x # tail_ /\ x # Garbage
    /\ head_ # tail_ /\ head_ # Garbage /\ tail_ # Garbage
<1>1. \A x \in Pool : x.key \in Nat /\ x.id \in Nat
  BY SkipListAssumption
<1>2. head_.key = -1 /\ head_.id = -1 /\ tail_.key = -2 /\ Garbage.key = -3
  BY DEF head_, tail_, Garbage
<1>3. \A x \in Points : Comparable(x)
  BY <1>1, <1>2 DEF Points, Comparable
<1>4. IsFiniteSet(Points)
  BY SkipListAssumption, FS_AddElement DEF Points
<1>5. \A x \in Pool : x # head_ /\ x # tail_ /\ x # Garbage
  BY <1>1, <1>2
<1>6. \A x \in Pool : Less(head_, x)
  BY <1>1, <1>2 DEF Less
<1>7. head_ # tail_ /\ head_ # Garbage /\ tail_ # Garbage
  BY <1>2
<1> QED
  BY <1>3, <1>4, <1>5, <1>6, <1>7

(* The comparator of internal entries is transitive ...                    *)
LEMMA LessTransitive ==
    ASSUME NEW x, NEW y, NEW z, Comparable(x), Comparable(y), Comparable(z),
           Less(x, y), Less(y, z)
    PROVE  Less(x, z)
BY DEF Less, Comparable

(* ... never holds both ways ...                                           *)
LEMMA LessAsymmetric ==
    ASSUME NEW x, NEW y, Comparable(x), Comparable(y), Less(x, y)
    PROVE  ~ Less(y, x) /\ x # y
BY DEF Less, Comparable

(* ... and tells any two nodes apart, since entries of a key differ in     *)
(* their ids.                                                              *)
LEMMA LessTotal ==
    ASSUME NEW x \in Points, NEW y \in Points, x # y
    PROVE  Less(x, y) \/ Less(y, x)
<1>1. CASE x \in Pool /\ y \in Pool
  <2>1. x.key # y.key \/ x.id # y.id
    BY <1>1, SkipListAssumption
  <2> QED
    BY <2>1, PointsComparable DEF Less, Comparable
<1>2. CASE x = head_ \/ y = head_
  BY <1>2, PointsComparable DEF Points
<1> QED
  BY <1>1, <1>2 DEF Points

(* A finite set of points has a greatest one.                              *)
LEMMA GreatestPoint ==
    ASSUME NEW S, S \subseteq Points, S # {}
    PROVE  \E x \in S : \A y \in S : y = x \/ Less(y, x)
<1> DEFINE R == {p \in S \X S : Less(p[1], p[2])}
<1>1. IsFiniteSet(S)
  BY PointsComparable, FS_Subset
<1>2. Orders(R, S)
  <2> SUFFICES ASSUME NEW x \in S, NEW y \in S, NEW z \in S
               PROVE  /\ ~ (<<x, x>> \in R)
                      /\ <<x, y>> \in R /\ <<y, z>> \in R => <<x, z>> \in R
    BY DEF Orders
  <2>1. Comparable(x) /\ Comparable(y) /\ Comparable(z)
    BY PointsComparable
  <2> QED
    BY <2>1, LessTransitive, LessAsymmetric
<1>3. \A x, y \in S : Less(x, y) => <<x, y>> \in R
  OBVIOUS
<1> HIDE DEF R
<1>4. PICK x \in S : \A y \in S : ~ (<<x, y>> \in R)
  BY <1>1, <1>2, MaximalElement
<1>5. \A y \in S : y = x \/ Less(y, x)
  BY <1>3, <1>4, LessTotal
<1> QED
  BY <1>5

-----------------------------------------------------------------------------
(* What a search finds: on each level the greatest node below the target.  *)
Target(e) == Comparable(e) /\ Less(head_, e)

IsPred(p, i, e) == /\ p \in On(i) /\ Less(p, e)
                   /\ \A q \in On(i) : Less(q, e) => q = p \/ Less(q, p)
Pred(i, e) == CHOOSE p \in On(i) : IsPred(p, i, e)

(* What is in the list can be compared.                                    *)
LEMMA NodesArePoints ==
    ASSUME Typed
    PROVE  /\ Nodes \subseteq Points
           /\ \A i : On(i) \subseteq Nodes /\ head_ \in On(i)
           /\ \A n \in Nodes : Comparable(n)
BY PointsComparable DEF Typed, On, Inserted, Points

(* There is a greatest smaller node on every level, since the head is      *)
(* smaller.                                                                *)
LEMMA PredProperties ==
    ASSUME Typed, NEW i, NEW e, Target(e)
    PROVE  IsPred(Pred(i, e), i, e)
<1> DEFINE S == {n \in On(i) : Less(n, e)}
<1>1. S \subseteq Points /\ head_ \in S
  BY NodesArePoints DEF Target
<1>2. PICK p \in S : \A q \in S : q = p \/ Less(q, p)
  BY <1>1, GreatestPoint
<1>3. p \in On(i) /\ IsPred(p, i, e)
  BY <1>2 DEF IsPred
<1> QED
  BY <1>3 DEF Pred

(* There is one such node.                                                 *)
LEMMA PredUnique ==
    ASSUME Typed, NEW i, NEW e, Target(e), NEW p, IsPred(p, i, e)
    PROVE  p = Pred(i, e)
<1> DEFINE q == Pred(i, e)
<1>1. IsPred(q, i, e)
  BY PredProperties
<1>2. p \in Nodes /\ q \in Nodes
  BY <1>1, NodesArePoints DEF IsPred
<1>3. p = q \/ (Less(p, q) /\ Less(q, p))
  BY <1>1 DEF IsPred
<1> QED
  BY <1>2, <1>3, NodesArePoints, LessAsymmetric

(* One step of a walk: it goes on to a smaller node or has arrived.        *)
LEMMA WalkStep ==
    ASSUME Typed, NEW i \in Top, Chained(i), NEW e, Target(e),
           NEW n \in On(i), Less(n, e)
    PROVE  IF next_[n][i] \in Nodes /\ Less(next_[n][i], e)
           THEN next_[n][i] \in On(i) /\ Less(n, next_[n][i])
           ELSE IsPred(n, i, e)
<1> DEFINE m == next_[n][i]
<1>1. CASE m \in Nodes
  <2>1. Follows(m, n, On(i))
    BY <1>1 DEF Chained
  <2>2. CASE ~ Less(m, e)
    <3> SUFFICES ASSUME NEW q \in On(i), Less(q, e)
                 PROVE  q = n \/ Less(q, n)
      BY <1>1, <2>2 DEF IsPred
    <3>1. q \in Nodes /\ n \in Nodes
      BY NodesArePoints
    <3>2. Comparable(m) /\ Comparable(q) /\ Comparable(e)
      BY <1>1, <3>1, NodesArePoints DEF Target
    <3>3. q # m /\ ~ Less(m, q)
      BY <2>2, <3>2, LessTransitive
    <3>4. ~ Less(n, q)
      BY <2>1, <3>3 DEF Follows
    <3> QED
      BY <3>1, <3>4, LessTotal, NodesArePoints
  <2> QED
    BY <1>1, <2>1, <2>2 DEF Follows
<1>2. CASE m \notin Nodes
  <2>1. IsLast(n, On(i))
    BY <1>2 DEF Chained
  <2>2. \A q \in On(i) : q = n \/ Less(q, n)
    BY <2>1, LessTotal, NodesArePoints DEF IsLast
  <2> QED
    BY <1>2, <2>2 DEF IsPred
<1> QED
  BY <1>1, <1>2

(* Where a walk starts that has arrived, it stays.                         *)
LEMMA WalkStays ==
    ASSUME Typed, NEW i \in Top, Chained(i), Bare(i), NEW e, Target(e),
           NEW n \in Nodes, ~ (n \in On(i) /\ Less(n, e))
    PROVE  ~ (next_[n][i] \in Nodes /\ Less(next_[n][i], e))
<1> SUFFICES ASSUME next_[n][i] \in Nodes, Less(next_[n][i], e)
             PROVE  FALSE
  OBVIOUS
<1>1. CASE n \notin On(i)
  <2>1. Garbage \in Nodes
    BY <1>1 DEF Bare
  <2> QED
    BY <2>1, NodesArePoints, PointsComparable DEF Points
<1>2. CASE n \in On(i)
  <2>1. Less(n, next_[n][i])
    BY <1>2 DEF Chained, Follows
  <2>2. Less(n, e)
    BY <2>1, NodesArePoints, LessTransitive DEF Target
  <2> QED
    BY <1>2, <2>2
<1> QED
  BY <1>1, <1>2

(* The equation of Walk.                                                   *)
WalkDef(to, i, e) ==
    to = [m \in Nodes |-> IF next_[m][i] \in Nodes /\ Less(next_[m][i], e)
                          THEN to[next_[m][i]] ELSE m]

(* Where Walk ends: at the greatest node of the level below the target.    *)
LEMMA WalkFinds ==
    ASSUME Typed, NEW i \in Top, Chained(i), Bare(i), NEW e, Target(e),
           NEW n \in On(i), Less(n, e)
    PROVE  Walk(n, i, e) = Pred(i, e)
<1> DEFINE g == [m \in Nodes |-> IF m \in On(i) /\ Less(m, e) THEN Pred(i, e) ELSE m]
           to == CHOOSE to : WalkDef(to, i, e)
           Goes(m) == next_[m][i] \in Nodes /\ Less(next_[m][i], e)
<1>1. WalkDef(g, i, e)
  <2>1. \A m \in Nodes : g[m] = IF Goes(m) THEN g[next_[m][i]] ELSE m
    <3> TAKE m \in Nodes
    <3>1. CASE m \in On(i) /\ Less(m, e)
      <4>1. CASE Goes(m)
        <5>1. next_[m][i] \in On(i)
          BY <3>1, <4>1, WalkStep
        <5> QED
          BY <3>1, <4>1, <5>1
      <4>2. CASE ~ Goes(m)
        <5>1. IsPred(m, i, e)
          BY <3>1, <4>2, WalkStep
        <5>2. m = Pred(i, e)
          BY <5>1, PredUnique
        <5> QED
          BY <3>1, <4>2, <5>2
      <4> QED
        BY <4>1, <4>2
    <3>2. CASE ~ (m \in On(i) /\ Less(m, e))
      BY <3>2, WalkStays
    <3> QED
      BY <3>1, <3>2
  <2> QED
    BY <2>1 DEF WalkDef
<1>2. WalkDef(to, i, e)
  BY <1>1
<1>3. Walk(n, i, e) = to[n]
  BY DEF Walk, WalkDef
<1> HIDE DEF to
<1>4. \A m \in Nodes : to[m] = IF Goes(m) THEN to[next_[m][i]] ELSE m
  BY <1>2, Zenon DEF WalkDef
<1> DEFINE Astray == {m \in On(i) : Less(m, e) /\ to[m] # Pred(i, e)}
<1>5. Astray = {}
  <2> SUFFICES ASSUME Astray # {}
               PROVE  FALSE
    OBVIOUS
  <2>1. Astray \subseteq Points
    BY NodesArePoints
  <2>2. PICK m \in Astray : \A q \in Astray : q = m \/ Less(q, m)
    BY <2>1, GreatestPoint
  <2>3. m \in Nodes /\ m \in On(i) /\ Less(m, e)
    BY NodesArePoints
  <2>4. CASE Goes(m)
    <3>1. next_[m][i] \in On(i) /\ Less(m, next_[m][i])
      BY <2>3, <2>4, WalkStep
    <3>2. next_[m][i] \in Astray
      BY <1>4, <2>3, <2>4, <3>1
    <3>3. Less(next_[m][i], m) \/ next_[m][i] = m
      BY <2>2, <3>2
    <3> QED
      BY <2>3, <2>4, <3>1, <3>3, LessAsymmetric, NodesArePoints
  <2>5. CASE ~ Goes(m)
    <3>1. IsPred(m, i, e)
      BY <2>3, <2>5, WalkStep
    <3>2. m = Pred(i, e)
      BY <3>1, PredUnique
    <3> QED
      BY <1>4, <2>3, <2>5, <3>2
  <2> QED
    BY <2>4, <2>5
<1> QED
  BY <1>3, <1>5

(* The equation of Search.                                                 *)
SearchDef(before, e) ==
    before = [i \in 0..levels_ |-> IF i = levels_ THEN Walk(head_, i, e)
                                   ELSE Walk(before[i + 1], i, e)]

(* Search leaves each level at the greatest smaller node.                  *)
LEMMA SearchFinds ==
    ASSUME ListInv, NEW e, Target(e), NEW i \in 0..levels_
    PROVE  Search(e)[i] = Pred(i, e)
<1> DEFINE g == [j \in 0..levels_ |-> Pred(j, e)]
<1>0. levels_ \in Nat /\ kMaxLevels \in Nat /\ 0..levels_ \subseteq Top
  BY SkipListAssumption DEF ListInv, Typed, Top
<1>1. \A j \in 0..levels_ : \A n \in On(j) :
          Less(n, e) => Walk(n, j, e) = Pred(j, e)
  BY <1>0, WalkFinds DEF ListInv, Lists
<1>2. Walk(head_, levels_, e) = Pred(levels_, e)
  BY <1>0, <1>1, NodesArePoints DEF ListInv, Target
<1>3. \A j \in 0..levels_ : j # levels_ => Walk(Pred(j + 1, e), j, e) = Pred(j, e)
  <2> SUFFICES ASSUME NEW j \in 0..levels_, j # levels_
               PROVE  Walk(Pred(j + 1, e), j, e) = Pred(j, e)
    OBVIOUS
  <2>1. j + 1 \in Top /\ j + 1 > 0 /\ (j + 1) - 1 = j
    BY <1>0 DEF Top
  <2>2. On(j + 1) \subseteq On(j)
    BY <2>1 DEF ListInv, Lists, Nested
  <2>3. IsPred(Pred(j + 1, e), j + 1, e)
    BY PredProperties DEF ListInv
  <2> QED
    BY <1>1, <2>2, <2>3 DEF IsPred
<1>4. SearchDef(g, e)
  <2>1. \A j \in 0..levels_ : j # levels_ => j + 1 \in 0..levels_
    BY <1>0
  <2> QED
    BY <1>2, <1>3, <2>1 DEF SearchDef
<1>5. SearchDef(Search(e), e)
  BY <1>4 DEF Search, SearchDef
<1> DEFINE f == Search(e)
<1>6. \A j \in 0..levels_ :
          f[j] = IF j = levels_ THEN Walk(head_, j, e) ELSE Walk(f[j + 1], j, e)
  BY <1>5, Zenon DEF SearchDef
<1> HIDE DEF f
<1> DEFINE Wrong == {d \in Nat : levels_ - d \in 0..levels_
                                 /\ f[levels_ - d] # Pred(levels_ - d, e)}
<1>7. Wrong = {}
  <2> SUFFICES ASSUME Wrong # {}
               PROVE  FALSE
    OBVIOUS
  <2>1. PICK d \in Wrong : \A c \in Wrong : d <= c
    BY SmallestNat
  <2> DEFINE j == levels_ - d
  <2>2. d \in Nat /\ j \in 0..levels_ /\ f[j] # Pred(j, e)
    OBVIOUS
  <2>3. d # 0
    <3>1. d = 0 => j = levels_
      BY <1>0
    <3> QED
      BY <1>2, <1>6, <2>2, <3>1
  <2>4. d - 1 \in Nat /\ levels_ - (d - 1) = j + 1 /\ j + 1 \in 0..levels_ /\ j # levels_
    BY <1>0, <2>2, <2>3
  <2>5. d - 1 \notin Wrong
    BY <2>1, <2>2, <2>4
  <2>6. f[j + 1] = Pred(j + 1, e)
    BY <2>4, <2>5
  <2>7. f[j] = Walk(f[j + 1], j, e)
    BY <1>6, <2>2, <2>4
  <2> QED
    BY <1>3, <2>2, <2>4, <2>6, <2>7
<1>8. levels_ - i \in Nat /\ levels_ - (levels_ - i) = i
  BY <1>0
<1>9. f[i] = Pred(i, e)
  <2>1. levels_ - i \notin Wrong
    BY <1>7
  <2> QED
    BY <1>8, <2>1
<1> QED
  BY <1>9 DEF f

-----------------------------------------------------------------------------
(* Get.  The id it asks with is larger than those of all entries.          *)
LEMMA MaxIdProperties ==
    ASSUME Pool # {}
    PROVE  MaxId \in Nat /\ \A e \in Pool : e.id < MaxId
<1> DEFINE R == {p \in Pool \X Pool : p[1].id < p[2].id}
           I == {e.id : e \in Pool}
<1>1. IsFiniteSet(Pool) /\ \A e \in Pool : e.id \in Nat
  BY SkipListAssumption
<1>2. Orders(R, Pool)
  BY <1>1 DEF Orders
<1>3. \A x, y \in Pool : x.id < y.id => <<x, y>> \in R
  OBVIOUS
<1> HIDE DEF R
<1>4. PICK x \in Pool : \A y \in Pool : ~ (<<x, y>> \in R)
  BY <1>1, <1>2, MaximalElement
<1>5. \A y \in Pool : y.id <= x.id
  <2> TAKE y \in Pool
  <2>1. ~ (x.id < y.id)
    BY <1>3, <1>4
  <2>2. x.id \in Nat /\ y.id \in Nat
    BY <1>1
  <2> QED
    BY <2>1, <2>2
<1>6. x.id \in I /\ \A y \in I : x.id >= y
  BY <1>1, <1>5
<1>7. Max(I) \in I /\ \A y \in I : Max(I) >= y
  BY <1>6 DEF Max
<1>8. Max(I) \in Nat /\ \A e \in Pool : e.id <= Max(I)
  BY <1>1, <1>7
<1>9. MaxId = 1 + Max(I)
  BY DEF MaxId
<1> HIDE DEF I
<1> QED
  BY <1>1, <1>8, <1>9

(* The entry that all others of a set are below is its largest one.        *)
LEMMA LargestUnique ==
    ASSUME NEW S, S \subseteq Points, NEW x \in S, \A y \in S : y = x \/ Less(y, x)
    PROVE  Largest(S) = x
<1> DEFINE l == Largest(S)
<1>1. \A y \in S : ~ Less(x, y)
  BY PointsComparable, LessAsymmetric
<1>2. l \in S /\ \A y \in S : ~ Less(l, y)
  BY <1>1 DEF Largest
<1> QED
  BY <1>2

(* The node that Search finds on level 0 for the largest id is the newest  *)
(* entry of the key, if there is one.                                      *)
LEMMA GetIsNewest ==
    ASSUME ListInv
    PROVE  GetFindsNewest
<1> SUFFICES ASSUME NEW d \in Pool, NEW k, k = d.key
             PROVE  Get(k) = IF {e \in Inserted : e.key = k} = {} THEN tail_
                             ELSE Largest({e \in Inserted : e.key = k})
  BY DEF GetFindsNewest
<1> DEFINE q == [key |-> k, id |-> MaxId]
           n == Search(q)[0]
           S == {e \in Inserted : e.key = k}
<1>1. k \in Nat /\ MaxId \in Nat /\ \A e \in Pool : e.id < MaxId
  BY SkipListAssumption, MaxIdProperties
<1>2. q.key = k /\ q.id = MaxId
  OBVIOUS
<1>3. Comparable(q)
  BY <1>1, <1>2 DEF Comparable
<1>4. Less(head_, q)
  BY <1>1, <1>2 DEF Less, head_
<1>5. Typed /\ 0 \in 0..levels_ /\ On(0) = Nodes
  BY SkipListAssumption DEF ListInv, Typed, Lists, Nested, Top
<1>6. IsPred(n, 0, q)
  <2>1. n = Pred(0, q)
    BY <1>3, <1>4, <1>5, SearchFinds DEF Target
  <2> QED
    BY <1>3, <1>4, <1>5, <2>1, PredProperties, Zenon DEF Target
<1>7. Get(k) = IF n.key = k THEN n ELSE tail_
  BY DEF Get
<1> HIDE DEF n
<1>8. S \subseteq Points /\ S \subseteq Nodes /\ n \in Nodes
  BY <1>5, <1>6, NodesArePoints DEF IsPred, Inserted
<1>9. \A e \in S : Less(e, q)
  <2> SUFFICES ASSUME NEW e \in S
               PROVE  Less(e, q)
    OBVIOUS
  <2>1. e \in Pool /\ e.key = k
    BY <1>5 DEF Typed
  <2> QED
    BY <1>1, <1>2, <2>1 DEF Less
<1> HIDE DEF q
<1>10. \A e \in S : e = n \/ Less(e, n)
  BY <1>5, <1>6, <1>8, <1>9 DEF IsPred
<1>11. CASE n.key = k
  <2>1. n # head_
    BY <1>1, <1>11 DEF head_
  <2>2. n \in S
    BY <1>8, <1>11, <2>1 DEF Inserted
  <2>3. Largest(S) = n
    BY <1>8, <1>10, <2>2, LargestUnique
  <2> QED
    BY <1>7, <1>11, <2>2, <2>3
<1>12. CASE n.key # k
  <2>1. S = {}
    <3> SUFFICES ASSUME NEW e \in S
                 PROVE  FALSE
      OBVIOUS
    <3>1. e.key = k /\ Less(e, n)
      BY <1>10, <1>12
    <3>2. Less(n, q)
      BY <1>6 DEF IsPred
    <3>3. Comparable(n)
      BY <1>5, <1>8, NodesArePoints
    <3> QED
      BY <1>1, <1>2, <1>12, <3>1, <3>2, <3>3 DEF Less, Comparable
  <2> QED
    BY <1>7, <1>12, <2>1
<1> QED
  BY <1>11, <1>12

-----------------------------------------------------------------------------
(* Insert.  On each level of the new tower the last node is the greatest   *)
(* one below the entry; on a new level that is the head.                   *)
LEMMA LastNodesFound ==
    ASSUME ListInv, NEW e \in Pool, NEW r \in 0..kMaxLevels
    PROVE  /\ Level(r) \in Top
           /\ \A i \in 0..Level(r) : IsPred(LastNodes(e, r)[i], i, e)
<1> DEFINE last == LastNodes(e, r)
<1>0. levels_ \in Nat /\ kMaxLevels \in Nat /\ levels_ <= kMaxLevels /\ Typed
  BY SkipListAssumption DEF ListInv, Typed, Top
<1>1. Target(e)
  BY PointsComparable DEF Target, Points
<1>2. Level(r) \in Top
  BY <1>0 DEF Level, Top
<1>3. \A i \in Top : last[i] = IF i <= levels_ THEN Search(e)[i]
                               ELSE IF i = levels_ + 1 /\ i <= r THEN head_
                               ELSE last_node_[i]
  BY Zenon DEF LastNodes
<1> HIDE DEF last
<1> SUFFICES ASSUME NEW i \in 0..Level(r)
             PROVE  IsPred(last[i], i, e)
  BY <1>2 DEF last
<1>4. i \in Top
  BY <1>0, <1>2 DEF Top
<1>5. CASE i <= levels_
  <2>1. i \in 0..levels_
    BY <1>0, <1>4, <1>5 DEF Top
  <2>2. last[i] = Pred(i, e)
    BY <1>1, <1>3, <1>4, <1>5, <2>1, SearchFinds
  <2> QED
    BY <1>0, <1>1, <2>2, PredProperties, Zenon
<1>6. CASE ~ (i <= levels_)
  <2>1. i = levels_ + 1 /\ i <= r /\ i > levels_
    BY <1>0, <1>4, <1>6 DEF Level, Top
  <2>2. last[i] = head_
    BY <1>3, <1>4, <1>6, <2>1
  <2>3. On(i) = {head_}
    BY <1>4, <2>1 DEF ListInv, Lists, Nested
  <2> QED
    BY <1>1, <2>2, <2>3 DEF IsPred, Target
<1> QED
  BY <1>5, <1>6

(* What an insertion does to the links and levels, in a form for use.      *)
LEMMA InsertEffect ==
    ASSUME ListInv, NEW e \in Pool, NEW r \in 0..kMaxLevels, Insert(e, r)
    PROVE  /\ Nodes' = Nodes \union {e} /\ e \notin Nodes
           /\ next_' \in [Nodes' -> [Top -> Nodes' \union {tail_, Garbage}]]
           /\ \A i \in Top : i > Level(r) =>
                 /\ next_'[e][i] = Garbage
                 /\ \A n \in Nodes : next_'[n][i] = next_[n][i]
           /\ \A i \in 0..Level(r) : \E w \in Nodes :
                 /\ IsPred(w, i, e)
                 /\ next_'[w][i] = e
                 /\ next_'[e][i] = next_[w][i]
                 /\ \A n \in Nodes \ {w} : next_'[n][i] = next_[n][i]
<1> DEFINE last == LastNodes(e, r)
           Linked(n, i) == i <= Level(r) /\ last[i] = n
           New(n, i) == IF n = e
                        THEN IF i <= Level(r) /\ last[i] \in Nodes
                             THEN next_[last[i]][i] ELSE Garbage
                        ELSE IF Linked(n, i) THEN e ELSE next_[n][i]
<1>1. e \notin Nodes /\ next_' = [n \in Nodes \union {e} |-> [i \in Top |-> New(n, i)]]
  BY DEF Insert
<1>2. Nodes' = Nodes \union {e}
  BY <1>1 DEF Nodes
<1>3. \A i \in 0..Level(r) : IsPred(last[i], i, e) /\ last[i] \in Nodes
  BY LastNodesFound, NodesArePoints DEF IsPred, ListInv
<1>4. Level(r) \in Top /\ kMaxLevels \in Nat
  BY LastNodesFound, SkipListAssumption
<1> HIDE DEF last
<1>5. next_ \in [Nodes -> [Top -> Nodes \union {tail_, Garbage}]]
  BY DEF ListInv, Typed
<1>6. \A n \in Nodes, i \in Top : next_[n][i] \in Nodes \union {tail_, Garbage}
  BY <1>5
<1>7. \A n \in Nodes \union {e}, i \in Top : next_'[n][i] = New(n, i)
  BY <1>1
<1>8. \A n \in Nodes \union {e}, i \in Top :
          New(n, i) \in Nodes \union {e} \union {tail_, Garbage}
  BY <1>6
<1>9. next_' \in [Nodes' -> [Top -> Nodes' \union {tail_, Garbage}]]
  <2> HIDE DEF New
  <2> QED
    BY <1>1, <1>2, <1>8
<1>10. \A i \in Top : i > Level(r) =>
          /\ next_'[e][i] = Garbage
          /\ \A n \in Nodes : next_'[n][i] = next_[n][i]
  <2> SUFFICES ASSUME NEW i \in Top, i > Level(r)
               PROVE  /\ next_'[e][i] = Garbage
                      /\ \A n \in Nodes : next_'[n][i] = next_[n][i]
    OBVIOUS
  <2>1. ~ (i <= Level(r))
    BY <1>4 DEF Top
  <2> QED
    BY <1>1, <1>7, <2>1
<1>11. ASSUME NEW i \in 0..Level(r)
       PROVE  /\ next_'[last[i]][i] = e
              /\ next_'[e][i] = next_[last[i]][i]
              /\ \A n \in Nodes \ {last[i]} : next_'[n][i] = next_[n][i]
  <2>1. i \in Top /\ i <= Level(r) /\ last[i] \in Nodes
    BY <1>3, <1>4 DEF Top
  <2> QED
    BY <1>1, <1>7, <2>1
<1> QED
  BY <1>1, <1>2, <1>3, <1>9, <1>10, <1>11

(* A level that the new tower does not reach stays as it is.               *)
LEMMA LevelKept ==
    ASSUME Typed, NEW i \in Top, Chained(i), Bare(i), NEW e \in Pool,
           e \notin Nodes, Nodes' = Nodes \union {e},
           next_'[e][i] = Garbage,
           \A n \in Nodes : next_'[n][i] = next_[n][i]
    PROVE  On(i)' = On(i) /\ Chained(i)' /\ Bare(i)'
<1>1. head_ \in Nodes /\ e # head_ /\ e # Garbage /\ Garbage # head_
  BY PointsComparable DEF Typed
<1>2. \A m \in Nodes : next_[m][i] \in Nodes \union {tail_, Garbage}
  BY DEF Typed
<1>3. \A m \in Nodes : next_[m][i] # e
  BY <1>2, PointsComparable
<1>4. Garbage \notin Nodes
  BY NodesArePoints, PointsComparable DEF Points
<1>5. On(i)' = On(i)
  <2>1. On(i)' = {head_} \union {n \in Nodes' \ {head_} : \E m \in Nodes' : next_'[m][i] = n}
    BY DEF On, Inserted
  <2>2. On(i) = {head_} \union {n \in Nodes \ {head_} : \E m \in Nodes : next_[m][i] = n}
    BY DEF On, Inserted
  <2> QED
    BY <1>1, <1>3, <1>4, <2>1, <2>2
<1>6. On(i) \subseteq Nodes
  BY NodesArePoints
<1>7. Chained(i)'
  <2> SUFFICES ASSUME NEW n \in On(i)
               PROVE  IF next_'[n][i] \in Nodes' THEN Follows(next_'[n][i], n, On(i))
                      ELSE IsLast(n, On(i))
    BY <1>5 DEF Chained, Follows, IsLast
  <2>1. n \in Nodes /\ next_'[n][i] = next_[n][i] /\ next_[n][i] # e
    BY <1>3, <1>6
  <2> QED
    BY <2>1 DEF Chained
<1>8. Bare(i)'
  <2> SUFFICES ASSUME NEW n \in Nodes \union {e}, n \notin On(i)
               PROVE  next_'[n][i] = Garbage
    BY <1>5 DEF Bare
  <2> QED
    BY DEF Bare
<1> QED
  BY <1>5, <1>7, <1>8

(* On a level that it reaches it is linked in behind its predecessor.      *)
LEMMA LevelLinked ==
    ASSUME Typed, NEW i \in Top, Chained(i), Bare(i), NEW e \in Pool,
           e \notin Nodes, Nodes' = Nodes \union {e},
           NEW w \in Nodes, IsPred(w, i, e),
           next_'[w][i] = e, next_'[e][i] = next_[w][i],
           \A n \in Nodes \ {w} : next_'[n][i] = next_[n][i]
    PROVE  On(i)' = On(i) \union {e} /\ Chained(i)' /\ Bare(i)'
<1> DEFINE S == On(i)
           T == S \union {e}
           q == next_[w][i]
<1>1. head_ \in Nodes /\ e # head_ /\ e # tail_ /\ e # Garbage
  BY PointsComparable DEF Typed
<1>2. \A m \in Nodes : next_[m][i] \in Nodes \union {tail_, Garbage}
  BY DEF Typed
<1>3. \A m \in Nodes : next_[m][i] # e
  BY <1>1, <1>2
<1>4. S \subseteq Nodes /\ w \in S /\ Less(w, e)
  BY NodesArePoints DEF IsPred
<1>5. \A x \in T : x \in Points /\ Comparable(x)
  BY <1>4, NodesArePoints, PointsComparable DEF Points
<1>6. \A x, y, z \in T : Less(x, y) /\ Less(y, z) => Less(x, z)
  BY <1>5, LessTransitive
<1>7. \A x, y \in T : Less(x, y) => ~ Less(y, x) /\ x # y
  BY <1>5, LessAsymmetric
<1>8. \A x, y \in T : x = y \/ Less(x, y) \/ Less(y, x)
  BY <1>5, LessTotal
<1>9. \A x \in S : Less(x, e) => x = w \/ Less(x, w)
  BY DEF IsPred
<1>10. \A x \in S : e # x
  BY <1>4
<1>11. On(i)' = T
  <2>1. On(i)' = {head_} \union {n \in Nodes' \ {head_} : \E m \in Nodes' : next_'[m][i] = n}
    BY DEF On, Inserted
  <2>2. S = {head_} \union {n \in Nodes \ {head_} : \E m \in Nodes : next_[m][i] = n}
    BY DEF On, Inserted
  <2>3. \A n \in S : n \in On(i)'
    <3> SUFFICES ASSUME NEW n \in S, n # head_
                 PROVE  n \in On(i)'
      BY <2>1
    <3>1. PICK m \in Nodes : next_[m][i] = n
      BY <2>2
    <3>2. \E k \in Nodes' : next_'[k][i] = n
      BY <3>1
    <3> QED
      BY <1>4, <2>1, <3>2
  <2>4. e \in On(i)'
    BY <1>1, <2>1
  <2>5. \A n \in On(i)' : n \in T
    <3> SUFFICES ASSUME NEW n \in On(i)', n # head_, n # e
                 PROVE  n \in S
      BY <2>2
    <3>1. n \in Nodes /\ \E m \in Nodes' : next_'[m][i] = n
      BY <2>1
    <3>2. \E m \in Nodes : next_[m][i] = n
      BY <3>1
    <3> QED
      BY <2>2, <3>1, <3>2
  <2> QED
    BY <2>3, <2>4, <2>5
<1>12. \A n \in S : IF next_[n][i] \in Nodes THEN Follows(next_[n][i], n, S)
                    ELSE IsLast(n, S)
  BY DEF Chained
<1>13. \A n \in T : IF next_'[n][i] \in Nodes' THEN Follows(next_'[n][i], n, T)
                    ELSE IsLast(n, T)
  <2> SUFFICES ASSUME NEW n \in T
               PROVE  IF next_'[n][i] \in Nodes' THEN Follows(next_'[n][i], n, T)
                      ELSE IsLast(n, T)
    OBVIOUS
  <2> HIDE DEF S
  <2>1. CASE n = e
    <3>1. CASE q \in Nodes
      <4>1. Follows(q, w, S)
        BY <1>4, <1>12, <3>1
      <4>2. q \in S /\ ~ Less(q, e)
        BY <1>4, <1>7, <1>9, <4>1 DEF Follows
      <4>3. Less(e, q)
        BY <1>8, <1>10, <4>2
      <4>4. \A p \in T : Less(e, p) => p = q \/ Less(q, p)
        <5> SUFFICES ASSUME NEW p \in T, Less(e, p)
                     PROVE  p = q \/ Less(q, p)
          OBVIOUS
        <5>1. p \in S /\ Less(w, p)
          BY <1>4, <1>6, <1>7
        <5> QED
          BY <4>1, <5>1 DEF Follows
      <4>5. Follows(q, e, T)
        BY <4>2, <4>3, <4>4 DEF Follows
      <4> QED
        BY <2>1, <3>1, <4>5
    <3>2. CASE q \notin Nodes
      <4>1. q \notin Nodes'
        BY <1>3, <3>2
      <4>2. IsLast(w, S)
        BY <1>4, <1>12, <3>2
      <4>3. \A p \in T : ~ Less(e, p)
        BY <1>4, <1>6, <1>7, <4>2 DEF IsLast
      <4> QED
        BY <2>1, <4>1, <4>3 DEF IsLast
    <3> QED
      BY <3>1, <3>2
  <2>2. CASE n = w
    <3>1. \A p \in T : Less(w, p) => p = e \/ Less(e, p)
      BY <1>4, <1>7, <1>8, <1>9
    <3>2. Follows(e, w, T)
      BY <1>4, <3>1 DEF Follows
    <3> QED
      BY <2>2, <3>2
  <2>3. CASE n # e /\ n # w
    <3> DEFINE m == next_[n][i]
    <3>1. n \in S /\ n \in Nodes /\ next_'[n][i] = m
      BY <1>4, <2>3
    <3>2. Less(n, e) => Less(n, w)
      BY <1>9, <2>3, <3>1
    <3>3. CASE m \in Nodes
      <4>1. Follows(m, n, S)
        BY <1>12, <3>1, <3>3
      <4>2. Less(n, e) => Less(m, e)
        BY <1>4, <1>6, <3>2, <4>1 DEF Follows
      <4>3. Follows(m, n, T)
        BY <4>1, <4>2 DEF Follows
      <4> QED
        BY <3>1, <3>3, <4>3
    <3>4. CASE m \notin Nodes
      <4>1. m \notin Nodes'
        BY <1>3, <3>1, <3>4
      <4>2. IsLast(n, S)
        BY <1>12, <3>1, <3>4
      <4>3. IsLast(n, T)
        BY <1>4, <3>2, <4>2 DEF IsLast
      <4> QED
        BY <3>1, <4>1, <4>3
    <3> QED
      BY <3>3, <3>4
  <2> QED
    BY <2>1, <2>2, <2>3
<1>14. Chained(i)'
  BY <1>11, <1>13 DEF Chained, Follows, IsLast
<1>15. Bare(i)'
  <2> SUFFICES ASSUME NEW n \in Nodes, n \notin S
               PROVE  next_'[n][i] = Garbage
    BY <1>11 DEF Bare
  <2> QED
    BY <1>4 DEF Bare
<1> QED
  BY <1>11, <1>14, <1>15

(* After an insertion of any tower that is drawn the invariant holds.      *)
LEMMA InsertPreserves ==
    ASSUME ListInv, NEW e \in Pool, NEW r \in 0..kMaxLevels, r <= MaxDraws,
           Insert(e, r)
    PROVE  ListInv'
<1>1. Nodes' = Nodes \union {e} /\ e \notin Nodes
  BY InsertEffect
<1>2. Level(r) \in Top
  BY LastNodesFound
<1>3. levels_ \in Nat /\ kMaxLevels \in Nat /\ levels_ <= kMaxLevels /\ Typed
  BY SkipListAssumption DEF ListInv, Typed, Top
<1>4. levels_' = IF r > levels_ THEN Level(r) ELSE levels_
  BY DEF Insert
<1>5. Inserted' = Inserted \union {e} /\ e \notin Inserted
  BY <1>1, PointsComparable DEF Inserted
<1>6. Cardinality(Inserted)' = Cardinality(Inserted) + 1 /\ Cardinality(Inserted) \in Nat
  <2>1. IsFiniteSet(Inserted)
    BY <1>3, SkipListAssumption, FS_Subset DEF Typed
  <2> QED
    BY <1>5, <2>1, FS_AddElement, FS_CardinalityType
<1>7. Typed'
  <2>1. next_' \in [Nodes' -> [Top -> Nodes' \union {tail_, Garbage}]]
    BY InsertEffect
  <2>2. levels_' \in Top /\ levels_' <= levels_ + 1
    BY <1>2, <1>3, <1>4 DEF Top, Level
  <2>3. levels_' <= Cardinality(Inserted)'
    BY <1>3, <1>6, <2>2 DEF Typed, Top
  <2> QED
    BY <1>1, <1>3, <1>5, <2>1, <2>2, <2>3 DEF Typed
<1>8. \A i \in Top : /\ Chained(i)' /\ Bare(i)'
                     /\ On(i)' = IF i <= Level(r) THEN On(i) \union {e} ELSE On(i)
  <2> SUFFICES ASSUME NEW i \in Top
               PROVE  /\ Chained(i)' /\ Bare(i)'
                      /\ On(i)' = IF i <= Level(r) THEN On(i) \union {e} ELSE On(i)
    OBVIOUS
  <2>1. Chained(i) /\ Bare(i)
    BY DEF ListInv, Lists
  <2>2. CASE i <= Level(r)
    <3>1. i \in 0..Level(r)
      BY <1>2, <1>3, <2>2 DEF Top
    <3>2. PICK w \in Nodes :
             /\ IsPred(w, i, e)
             /\ next_'[w][i] = e
             /\ next_'[e][i] = next_[w][i]
             /\ \A n \in Nodes \ {w} : next_'[n][i] = next_[n][i]
      BY <3>1, InsertEffect
    <3>3. On(i)' = On(i) \union {e} /\ Chained(i)' /\ Bare(i)'
      BY <1>1, <1>3, <2>1, <3>2, LevelLinked
    <3> QED
      BY <2>2, <3>3
  <2>3. CASE ~ (i <= Level(r))
    <3>1. i > Level(r)
      BY <1>2, <1>3, <2>3 DEF Top
    <3>2. next_'[e][i] = Garbage /\ \A n \in Nodes : next_'[n][i] = next_[n][i]
      BY <3>1, InsertEffect
    <3>3. On(i)' = On(i) /\ Chained(i)' /\ Bare(i)'
      BY <1>1, <1>3, <2>1, <3>2, LevelKept
    <3> QED
      BY <2>3, <3>3
  <2> QED
    BY <2>2, <2>3
<1>9. Nested'
  <2>1. 0 \in Top /\ 0 <= Level(r)
    BY <1>2, <1>3 DEF Top
  <2>2. On(0)' = Nodes'
    BY <1>1, <1>8, <2>1 DEF ListInv, Lists, Nested
  <2>3. ASSUME NEW i \in Top, i > 0
        PROVE  On(i)' \subseteq On(i - 1)'
    <3>1. i - 1 \in Top /\ (i <= Level(r) => i - 1 <= Level(r))
      BY <1>2, <1>3, <2>3 DEF Top
    <3>2. On(i) \subseteq On(i - 1)
      BY <2>3 DEF ListInv, Lists, Nested
    <3>3. On(i)' = IF i <= Level(r) THEN On(i) \union {e} ELSE On(i)
      BY <1>8
    <3>4. On(i - 1)' = IF i - 1 <= Level(r) THEN On(i - 1) \union {e} ELSE On(i - 1)
      BY <1>8, <3>1
    <3> QED
      BY <3>1, <3>2, <3>3, <3>4
  <2>4. ASSUME NEW i \in Top, i > levels_'
        PROVE  On(i)' = {head_}
    <3>1. i > levels_ /\ ~ (i <= Level(r))
      BY <1>2, <1>3, <1>4, <2>4 DEF Top, Level
    <3> QED
      BY <1>8, <3>1 DEF ListInv, Lists, Nested
  <2>5. \A i \in Top : (i - 1)' = i - 1
    OBVIOUS
  <2> QED
    BY <2>2, <2>3, <2>4 DEF Nested, Top
<1>10. MaxDraws \in Nat /\ levels_' \in Nat
  BY <1>7, <1>3, SkipListAssumption DEF Typed, Top
<1>11. levels_' <= MaxDraws
  BY <1>3, <1>4, <1>10 DEF ListInv, Ended, Level
<1>12. ASSUME NEW i \in Top, i < kMaxLevels, NEW n \in On(i)'
       PROVE  next_'[n][i] # Garbage
  <2>1. \A m \in On(i) : next_[m][i] # Garbage
    BY <1>12 DEF ListInv, Ended
  <2>2. On(i) \subseteq Nodes /\ e # Garbage
    BY <1>3, NodesArePoints, PointsComparable
  <2>3. CASE i <= Level(r)
    <3>1. i \in 0..Level(r)
      BY <1>2, <1>3, <2>3 DEF Top
    <3>2. PICK w \in Nodes :
             /\ IsPred(w, i, e)
             /\ next_'[w][i] = e
             /\ next_'[e][i] = next_[w][i]
             /\ \A m \in Nodes \ {w} : next_'[m][i] = next_[m][i]
      BY <3>1, InsertEffect
    <3>3. n \in On(i) \union {e} /\ w \in On(i)
      BY <1>8, <1>12, <2>3, <3>2 DEF IsPred
    <3> QED
      BY <2>1, <2>2, <3>2, <3>3
  <2>4. CASE ~ (i <= Level(r))
    <3>1. i > Level(r)
      BY <1>2, <1>3, <2>4 DEF Top
    <3>2. n \in On(i)
      BY <1>8, <1>12, <2>4
    <3> QED
      BY <2>1, <2>2, <3>1, <3>2, InsertEffect
  <2> QED
    BY <2>3, <2>4
<1>13. ASSUME NEW i \in Top, 0 < i, i <= levels_'
       PROVE  On(i)' # {head_}
  <2>1. e # head_ /\ head_ \in On(i)
    BY <1>3, NodesArePoints, PointsComparable
  <2>2. i <= levels_ => On(i) # {head_}
    BY <1>13 DEF ListInv, Ended
  <2>3. i <= levels_ \/ i <= Level(r)
    BY <1>2, <1>3, <1>4, <1>13 DEF Top
  <2> QED
    BY <1>8, <2>1, <2>2, <2>3
<1>14. Ended'
  BY <1>11, <1>12, <1>13 DEF Ended, Top
<1> QED
  BY <1>7, <1>8, <1>9, <1>14 DEF ListInv, Lists, Top

-----------------------------------------------------------------------------
(* The theorems.  The constructor makes levels with a head only.           *)
LEMMA InitLists == Init => ListInv
<1> SUFFICES ASSUME Init
             PROVE  ListInv
  OBVIOUS
<1>1. kMaxLevels \in Nat /\ MaxDraws \in Nat /\ 0 \in Top
  BY SkipListAssumption DEF Top
<1>2. Nodes = {head_} /\ Inserted = {} /\ levels_ = 0
  BY DEF Init, Nodes, Inserted
<1>3. \A i \in Top : next_[head_][i] = IF i < kMaxLevels THEN tail_ ELSE Garbage
  BY DEF Init
<1>4. \A i \in Top : next_[head_][i] \in {tail_, Garbage}
  BY <1>3
<1>5. next_ \in [Nodes -> [Top -> Nodes \union {tail_, Garbage}]]
  BY <1>2 DEF Init
<1>6. Cardinality(Inserted) = 0
  BY <1>2, FS_EmptySet
<1>7. Typed
  BY <1>1, <1>2, <1>5, <1>6 DEF Typed
<1>8. \A i : On(i) = {head_}
  BY <1>2 DEF On
<1>9. Nested
  BY <1>2, <1>8 DEF Nested
<1>10. \A i \in Top : next_[head_][i] \notin Nodes
  BY <1>2, <1>4, PointsComparable
<1>11. ~ Less(head_, head_)
  BY DEF Less, head_
<1>12. \A i \in Top : Chained(i)
  BY <1>8, <1>10, <1>11 DEF Chained, IsLast
<1>13. \A i \in Top : Bare(i)
  BY <1>2, <1>8 DEF Bare
<1>14. Ended
  <2>1. \A i \in Top : i < kMaxLevels => next_[head_][i] # Garbage
    BY <1>3, PointsComparable
  <2>2. \A i \in Top : ~ (0 < i /\ i <= levels_)
    BY <1>1, <1>2 DEF Top
  <2> QED
    BY <1>1, <1>2, <1>8, <2>1, <2>2 DEF Ended
<1> QED
  BY <1>7, <1>9, <1>12, <1>13, <1>14 DEF ListInv, Lists

(* Every insertion keeps the invariant, whatever order entries come in and *)
(* whatever RandomLevel draws.                                             *)
THEOREM ListInvariance == Spec => []ListInv
<1>1. Init => ListInv
  BY InitLists
<1>2. ListInv /\ [Next]_vars => ListInv'
  <2> SUFFICES ASSUME ListInv, [Next]_vars
               PROVE  ListInv'
    OBVIOUS
  <2>1. ASSUME NEW e \in Pool, NEW lev \in 0..MaxDraws, Insert(e, RandomLevel(lev))
        PROVE  ListInv'
    <3>1. RandomLevel(lev) \in 0..kMaxLevels /\ RandomLevel(lev) <= MaxDraws
      BY SkipListAssumption DEF RandomLevel
    <3> QED
      BY <2>1, <3>1, InsertPreserves
  <2>2. CASE UNCHANGED vars
    <3>1. next_' = next_ /\ levels_' = levels_
      BY <2>2 DEF vars
    <3> QED
      BY <3>1 DEF ListInv, Typed, Lists, Nested, Chained, Bare, Ended, On, Nodes,
                  Inserted, Follows, IsLast
  <2> QED
    BY <2>1, <2>2 DEF Next
<1> QED
  BY <1>1, <1>2, PTL DEF Spec

(* Every link leads to a node or to the tail or is uninitialised, and the  *)
(* list has no more levels than entries.                                   *)
THEOREM TypeCorrect == Spec => []TypeOK
<1>1. ListInv => TypeOK
  <2> SUFFICES ASSUME ListInv
               PROVE  TypeOK
    OBVIOUS
  <2>1. IsFiniteSet(Inserted)
    BY SkipListAssumption, FS_Subset DEF ListInv, Typed
  <2>2. Cardinality(Inserted) \in Nat
    BY <2>1, FS_CardinalityType
  <2>3. levels_ \in 0..Cardinality(Inserted)
    BY <2>2, SkipListAssumption DEF ListInv, Typed, Top
  <2> QED
    BY <2>3 DEF TypeOK, ListInv, Typed
<1> QED
  BY <1>1, ListInvariance, PTL

(* If no draw reaches the level that the constructor leaves out (what a    *)
(* search does with its link is undefined), Get, which asks with an id     *)
(* that no entry has, finds the newest entry of a key and nothing for a    *)
(* key without one.                                                        *)
THEOREM NewestFound ==
    ASSUME MaxDraws < kMaxLevels
    PROVE  Spec => []GetFindsNewest
BY GetIsNewest, ListInvariance, PTL

-----------------------------------------------------------------------------
(* The entries along a level, collected link by link: what Along computes. *)
Extended(s, i) == IF Last(s) \in Nodes THEN Append(s, next_[Last(s)][i]) ELSE s
AlongDef(f, n, i) ==
    f = [c \in 0..n |-> IF c = 0 THEN <<next_[head_][i]>> ELSE Extended(f[c - 1], i)]

(* Such a collection exists for any number of links followed.              *)
LEMMA AlongExists ==
    ASSUME NEW i, NEW n \in Nat
    PROVE  \E f : AlongDef(f, n, i)
<1> DEFINE Missing == {c \in Nat : ~ \E f : AlongDef(f, c, i)}
<1>1. Missing = {}
  <2> SUFFICES ASSUME Missing # {}
               PROVE  FALSE
    OBVIOUS
  <2>1. PICK c \in Missing : \A d \in Missing : c <= d
    BY SmallestNat
  <2>2. c # 0
    <3> SUFFICES ASSUME c = 0
                 PROVE  FALSE
      OBVIOUS
    <3> DEFINE g == [d \in 0..0 |-> <<next_[head_][i]>>]
    <3>1. AlongDef(g, 0, i)
      BY DEF AlongDef
    <3> QED
      BY <2>1, <3>1
  <2>3. c - 1 \in Nat /\ c \in Nat /\ c - 1 \notin Missing
    BY <2>1, <2>2
  <2>4. PICK f : AlongDef(f, c - 1, i)
    BY <2>3
  <2> DEFINE g == [d \in 0..c |-> IF d < c THEN f[d] ELSE Extended(f[c - 1], i)]
  <2>5. \A d \in 0..(c - 1) :
            f[d] = IF d = 0 THEN <<next_[head_][i]>> ELSE Extended(f[d - 1], i)
    BY <2>4, Zenon DEF AlongDef
  <2>6. \A d \in 0..c :
            g[d] = IF d = 0 THEN <<next_[head_][i]>> ELSE Extended(g[d - 1], i)
    <3> SUFFICES ASSUME NEW d \in 0..c
                 PROVE  g[d] = IF d = 0 THEN <<next_[head_][i]>>
                               ELSE Extended(g[d - 1], i)
      OBVIOUS
    <3>1. CASE d < c
      <4>1. d \in 0..(c - 1) /\ (d # 0 => d - 1 \in 0..c /\ d - 1 < c)
        BY <2>3, <3>1
      <4>2. g[d] = f[d] /\ (d # 0 => g[d - 1] = f[d - 1])
        BY <3>1, <4>1
      <4> QED
        BY <2>5, <4>1, <4>2
    <3>2. CASE d = c
      <4>1. c \in 0..c /\ c - 1 \in 0..c /\ c - 1 < c /\ ~ (c < c)
        BY <2>2, <2>3
      <4>2. g[c] = Extended(f[c - 1], i) /\ g[c - 1] = f[c - 1]
        BY <4>1
      <4> QED
        BY <2>2, <3>2, <4>2
    <3> QED
      BY <2>3, <3>1, <3>2
  <2>7. AlongDef(g, c, i)
    BY <2>6 DEF AlongDef
  <2> QED
    BY <2>1, <2>7
<1> QED
  BY <1>1

(* Along is one of as many links as there are nodes.                       *)
LEMMA AlongUnfolds ==
    ASSUME NEW i, Cardinality(Nodes) \in Nat
    PROVE  \E f : AlongDef(f, Cardinality(Nodes), i) /\ Along(i) = f[Cardinality(Nodes)]
<1> DEFINE n == Cardinality(Nodes)
           f == CHOOSE f : AlongDef(f, n, i)
<1>1. AlongDef(f, n, i)
  BY AlongExists
<1>2. Along(i) = f[n]
  BY DEF Along, AlongDef, Extended
<1> QED
  BY <1>1, <1>2

(* A path along level i: the nodes of the level in ascending order, from   *)
(* the first one on and without a gap, and the tail behind the last.       *)
Walked(i) == On(i) \ {head_}
Ascends(s) ==
    \A j, k \in 1..Len(s) : j < k => s[j] # tail_ /\ (s[k] # tail_ => Less(s[j], s[k]))
Covers(s, i) ==
    \A p \in Walked(i) : \/ \E j \in 1..Len(s) : s[j] = p
                         \/ s[Len(s)] # tail_ /\ Less(s[Len(s)], p)
Path(s, i) ==
    s \in Seq(Walked(i) \union {tail_}) /\ s # <<>> /\ Ascends(s) /\ Covers(s, i)

(* Below the level that the constructor leaves out, a link leads to the    *)
(* next node, or to the tail when there is none.                           *)
LEMMA LinkLeads ==
    ASSUME ListInv, NEW i \in Top, i < kMaxLevels, NEW n \in On(i)
    PROVE  \/ /\ next_[n][i] = tail_
              /\ \A p \in Walked(i) : ~ Less(n, p)
           \/ /\ next_[n][i] \in Walked(i)
              /\ Less(n, next_[n][i])
              /\ \A p \in Walked(i) : Less(n, p) => p = next_[n][i] \/ Less(next_[n][i], p)
<1> DEFINE m == next_[n][i]
<1>1. Typed /\ Chained(i)
  BY DEF ListInv, Lists
<1>2. n \in Nodes /\ On(i) \subseteq Nodes
  BY <1>1, NodesArePoints
<1>3. m \in Nodes \union {tail_, Garbage} /\ m # Garbage
  BY <1>1, <1>2 DEF Typed, ListInv, Ended
<1>4. CASE m \in Nodes
  <2>1. Follows(m, n, On(i))
    BY <1>1, <1>4 DEF Chained
  <2>2. ~ Less(n, head_)
    <3>1. head_ \in Nodes /\ (n = head_ \/ Less(head_, n))
      BY <1>1, <1>2, PointsComparable DEF Typed, Inserted
    <3> QED
      BY <1>1, <1>2, <3>1, NodesArePoints, LessAsymmetric
  <2> QED
    BY <2>1, <2>2 DEF Follows, Walked
<1>5. CASE m \notin Nodes
  BY <1>1, <1>3, <1>5 DEF Chained, IsLast, Walked
<1> QED
  BY <1>4, <1>5

(* Every step of Along makes a path longer, until it is at the tail.       *)
LEMMA PathExtended ==
    ASSUME ListInv, NEW i \in Top, i < kMaxLevels, NEW s, Path(s, i), Last(s) # tail_
    PROVE  Path(Extended(s, i), i) /\ Len(Extended(s, i)) = Len(s) + 1
<1> DEFINE W == Walked(i)
           T == W \union {tail_}
           z == s[Len(s)]
           m == next_[z][i]
           t == Append(s, m)
<1>1. s \in Seq(T) /\ Len(s) \in Nat /\ Len(s) \in 1..Len(s) /\ Last(s) = z
  <2>1. s \in Seq(T) /\ s # <<>>
    BY DEF Path
  <2>2. Len(s) \in Nat \ {0}
    BY <2>1, EmptySeq
  <2> QED
    BY <2>1, <2>2 DEF Last
<1>2. z \in W /\ z # tail_
  BY <1>1, ElementOfSeq
<1>3. W \subseteq On(i) /\ W \subseteq Nodes /\ W \subseteq Pool
  BY NodesArePoints DEF Walked, ListInv, Typed, Inserted
<1>4. z \in Nodes /\ Extended(s, i) = t
  BY <1>1, <1>2, <1>3 DEF Extended
<1>5. \/ m = tail_ /\ \A p \in W : ~ Less(z, p)
      \/ m \in W /\ Less(z, m) /\ \A p \in W : Less(z, p) => p = m \/ Less(m, p)
  BY <1>2, <1>3, LinkLeads
<1>6. \A x \in W : Comparable(x) /\ x # tail_
  BY <1>3, PointsComparable DEF Points
<1>7. m \in T
  BY <1>5
<1> HIDE DEF W
<1>8. t \in Seq(T) /\ t # <<>> /\ Len(t) = Len(s) + 1 /\ t[Len(s) + 1] = m
  BY <1>1, <1>7, AppendProperties
<1>9. \A j \in 1..Len(s) : t[j] = s[j] /\ s[j] \in T
  BY <1>1, <1>7, AppendProperties, ElementOfSeq
<1> HIDE DEF t
<1>10. Ascends(t)
  <2> SUFFICES ASSUME NEW j \in 1..Len(t), NEW k \in 1..Len(t), j < k
               PROVE  t[j] # tail_ /\ (t[k] # tail_ => Less(t[j], t[k]))
    BY DEF Ascends
  <2>1. j \in 1..Len(s)
    BY <1>1, <1>8
  <2>2. CASE k \in 1..Len(s)
    BY <1>9, <2>1, <2>2 DEF Path, Ascends
  <2>3. CASE k \notin 1..Len(s)
    <3>1. k = Len(s) + 1
      BY <1>1, <1>8, <2>3
    <3>2. s[j] # tail_ /\ (j = Len(s) \/ Less(s[j], z))
      <4>1. j = Len(s) \/ j < Len(s)
        BY <1>1, <2>1
      <4> QED
        BY <1>1, <1>2, <2>1, <4>1 DEF Path, Ascends
    <3>3. s[j] \in W
      BY <1>9, <2>1, <3>2
    <3>4. m # tail_ => Less(s[j], m)
      <4> SUFFICES ASSUME m # tail_, j # Len(s)
                   PROVE  Less(s[j], m)
        BY <1>5
      <4>1. Less(s[j], z) /\ Less(z, m) /\ m \in W
        BY <1>5, <3>2
      <4> QED
        BY <1>2, <1>6, <3>3, <4>1, LessTransitive
    <3> QED
      BY <1>8, <1>9, <2>1, <3>1, <3>2, <3>4
  <2> QED
    BY <2>2, <2>3
<1>11. Covers(t, i)
  <2> SUFFICES ASSUME NEW p \in W
               PROVE  \/ \E j \in 1..Len(t) : t[j] = p
                      \/ t[Len(t)] # tail_ /\ Less(t[Len(t)], p)
    BY DEF Covers, W
  <2>1. CASE \E j \in 1..Len(s) : s[j] = p
    <3>1. PICK j \in 1..Len(s) : s[j] = p
      BY <2>1
    <3>2. j \in 1..Len(t) /\ t[j] = p
      BY <1>1, <1>8, <1>9, <3>1
    <3> QED
      BY <3>2
  <2>2. CASE ~ \E j \in 1..Len(s) : s[j] = p
    <3>1. Less(z, p)
      BY <2>2 DEF Path, Covers, W
    <3>2. m # tail_ /\ (p = m \/ Less(m, p))
      BY <1>5, <1>6, <3>1
    <3>3. t[Len(t)] = m /\ Len(t) \in 1..Len(t)
      BY <1>1, <1>8
    <3> QED
      BY <3>2, <3>3
  <2> QED
    BY <2>1, <2>2
<1>12. Path(t, i)
  BY <1>8, <1>10, <1>11 DEF Path, W
<1> QED
  BY <1>4, <1>8, <1>12

(* Along begins with the path to the first node.                           *)
LEMMA PathBegins ==
    ASSUME ListInv, NEW i \in Top, i < kMaxLevels
    PROVE  Path(<<next_[head_][i]>>, i) /\ Len(<<next_[head_][i]>>) = 1
<1> DEFINE m == next_[head_][i]
           s == <<m>>
<1>1. head_ \in On(i)
  BY DEF On
<1>2. \/ m = tail_ /\ \A p \in Walked(i) : ~ Less(head_, p)
      \/ /\ m \in Walked(i)
         /\ \A p \in Walked(i) : Less(head_, p) => p = m \/ Less(m, p)
  BY <1>1, LinkLeads
<1>3. \A p \in Walked(i) : Less(head_, p) /\ p # tail_
  BY NodesArePoints, PointsComparable DEF Walked, ListInv, Typed, Inserted
<1>4. s \in Seq(Walked(i) \union {tail_}) /\ Len(s) = 1 /\ s[1] = m /\ s # <<>>
  BY <1>2
<1> HIDE DEF s, m
<1>5. Ascends(s)
  BY <1>4 DEF Ascends
<1>6. Covers(s, i)
  BY <1>2, <1>3, <1>4 DEF Covers
<1> QED
  BY <1>4, <1>5, <1>6 DEF Path, s, m

(* A path has no node twice, so it ends at the tail in time.               *)
LEMMA AlongIsPath ==
    ASSUME ListInv, NEW i \in Top, i < kMaxLevels
    PROVE  Path(Along(i), i) /\ Last(Along(i)) = tail_
<1> DEFINE n == Cardinality(Nodes)
<1>1. IsFiniteSet(Nodes) /\ n \in Nat
  <2>1. Nodes \in SUBSET Points
    BY NodesArePoints DEF ListInv
  <2>2. IsFiniteSet(Nodes)
    BY <2>1, PointsComparable, FS_Subset
  <2> QED
    BY <2>2, FS_CardinalityType
<1>2. PICK f : AlongDef(f, n, i) /\ Along(i) = f[n]
  BY <1>1, AlongUnfolds
<1> HIDE DEF n
<1>3. \A c \in 0..n : f[c] = IF c = 0 THEN <<next_[head_][i]>> ELSE Extended(f[c - 1], i)
  BY <1>2, Zenon DEF AlongDef
<1> DEFINE Good(c) == Path(f[c], i) /\ (Last(f[c]) # tail_ => Len(f[c]) = c + 1)
           Bad == {c \in Nat : c <= n /\ ~ Good(c)}
<1>4. tail_ \notin Nodes
  BY NodesArePoints, PointsComparable DEF ListInv, Points
<1>5. Bad = {}
  <2> SUFFICES ASSUME Bad # {}
               PROVE  FALSE
    OBVIOUS
  <2>1. PICK c \in Bad : \A d \in Bad : c <= d
    BY SmallestNat
  <2>2. CASE c = 0
    <3>1. f[0] = <<next_[head_][i]>>
      BY <1>1, <1>3
    <3>2. Good(0)
      BY <3>1, PathBegins
    <3> QED
      BY <2>1, <2>2, <3>2
  <2>3. CASE c # 0
    <3>1. c - 1 \in Nat /\ c - 1 <= n /\ c \in 0..n /\ ~ (c <= c - 1) /\ (c - 1) + 1 = c
      BY <1>1, <2>1, <2>3
    <3>2. Good(c - 1)
      BY <2>1, <3>1
    <3> DEFINE s == f[c - 1]
    <3>3. f[c] = Extended(s, i) /\ Path(s, i)
      BY <1>3, <2>3, <3>1, <3>2
    <3>4. CASE Last(s) # tail_
      <4>1. Path(f[c], i) /\ Len(f[c]) = Len(s) + 1
        BY <3>3, <3>4, PathExtended
      <4> QED
        BY <2>1, <3>1, <3>2, <3>4, <4>1
    <3>5. CASE Last(s) = tail_
      <4>1. f[c] = s
        BY <1>4, <3>3, <3>5 DEF Extended
      <4> QED
        BY <2>1, <3>3, <3>5, <4>1
    <3> QED
      BY <3>4, <3>5
  <2> QED
    BY <2>2, <2>3
<1> DEFINE s == Along(i)
<1>6. Path(s, i) /\ (Last(s) # tail_ => Len(s) = n + 1)
  <2>1. n \in Nat /\ n <= n /\ n \notin Bad
    BY <1>1, <1>5
  <2>2. Good(n)
    BY <2>1
  <2> QED
    BY <1>2, <2>2
<1> HIDE DEF s, Bad
<1>7. ASSUME Last(s) # tail_
      PROVE  FALSE
  <2>1. Len(s) = n + 1 /\ s \in Seq(Walked(i) \union {tail_})
    BY <1>6, <1>7 DEF Path
  <2>2. s[n + 1] # tail_ /\ n + 1 \in 1..(n + 1)
    BY <1>1, <1>7, <2>1 DEF Last
  <2>3. \A j \in 1..(n + 1) : s[j] # tail_
    <3> SUFFICES ASSUME NEW j \in 1..(n + 1)
                 PROVE  s[j] # tail_
      OBVIOUS
    <3>1. j = n + 1 \/ j < n + 1
      BY <1>1
    <3> QED
      BY <1>6, <2>1, <2>2, <3>1 DEF Path, Ascends
  <2>4. Walked(i) \subseteq Nodes
    BY NodesArePoints DEF Walked, ListInv
  <2>5. \A j \in 1..(n + 1) : s[j] \in Nodes
    BY <2>1, <2>3, <2>4, ElementOfSeq
  <2> DEFINE h == [j \in 1..(n + 1) |-> s[j]]
  <2>6. h \in [1..(n + 1) -> Nodes]
    BY <2>5
  <2>7. IsFiniteSet(1..(n + 1)) /\ Cardinality(1..(n + 1)) = n + 1
    BY <1>1, FS_Interval
  <2>8. Cardinality(Nodes) < Cardinality(1..(n + 1))
    BY <1>1, <2>7 DEF n
  <2> HIDE DEF h
  <2>9. \E x, y \in 1..(n + 1) : x # y /\ h[x] = h[y]
    BY <1>1, <2>6, <2>7, <2>8, FS_PigeonHole
  <2>10. PICK x \in 1..(n + 1), y \in 1..(n + 1) : x # y /\ s[x] = s[y]
    BY <2>9 DEF h
  <2>11. x < y \/ y < x
    BY <1>1, <2>10
  <2>12. Less(s[x], s[y]) \/ Less(s[y], s[x])
    BY <1>6, <2>1, <2>3, <2>11 DEF Path, Ascends
  <2> QED
    BY <2>5, <2>10, <2>12, NodesArePoints, LessAsymmetric DEF ListInv
<1> QED
  BY <1>6, <1>7 DEF s

(* It has met all nodes of its level then.                                 *)
LEMMA AlongListsLevel ==
    ASSUME ListInv, NEW i \in Top, i < kMaxLevels
    PROVE  /\ Along(i) \in Seq(Walked(i) \union {tail_})
           /\ Len(Along(i)) \in Nat \ {0}
           /\ Along(i)[Len(Along(i))] = tail_
           /\ Ascends(Along(i))
           /\ \A p \in Walked(i) : \E j \in 1..(Len(Along(i)) - 1) : Along(i)[j] = p
           /\ \A j \in 1..(Len(Along(i)) - 1) : Along(i)[j] \in Walked(i)
<1> DEFINE s == Along(i)
<1>1. Path(s, i) /\ Last(s) = tail_
  BY AlongIsPath
<1> HIDE DEF s
<1>2. s \in Seq(Walked(i) \union {tail_}) /\ s # <<>> /\ Ascends(s) /\ Covers(s, i)
  BY <1>1 DEF Path
<1>3. Len(s) \in Nat \ {0}
  BY <1>2, EmptySeq
<1>4. s[Len(s)] = tail_
  BY <1>1 DEF Last
<1>5. \A p \in Walked(i) : p # tail_
  BY NodesArePoints, PointsComparable DEF Walked, ListInv, Points
<1>6. \A p \in Walked(i) : \E j \in 1..(Len(s) - 1) : s[j] = p
  <2> SUFFICES ASSUME NEW p \in Walked(i)
               PROVE  \E j \in 1..(Len(s) - 1) : s[j] = p
    OBVIOUS
  <2>1. PICK j \in 1..Len(s) : s[j] = p
    BY <1>2, <1>4 DEF Covers
  <2>2. j # Len(s)
    BY <1>4, <1>5, <2>1
  <2>3. j \in 1..(Len(s) - 1)
    BY <1>3, <2>2
  <2> QED
    BY <2>1, <2>3
<1>7. \A j \in 1..(Len(s) - 1) : s[j] \in Walked(i)
  <2> SUFFICES ASSUME NEW j \in 1..(Len(s) - 1)
               PROVE  s[j] \in Walked(i)
    OBVIOUS
  <2>1. j \in 1..Len(s) /\ Len(s) \in 1..Len(s) /\ j < Len(s)
    BY <1>3
  <2>2. s[j] # tail_
    BY <1>2, <2>1 DEF Ascends
  <2> QED
    BY <1>2, <2>1, <2>2, ElementOfSeq
<1> QED
  BY <1>2, <1>3, <1>4, <1>6, <1>7 DEF s

(* What the levels look like to Along is what LevelsLinked asks for.       *)
LEMMA LevelsAreLists ==
    ASSUME ListInv, MaxDraws < kMaxLevels
    PROVE  LevelsLinked
<1>1. levels_ \in Nat /\ levels_ < kMaxLevels /\ kMaxLevels \in Nat
  BY SkipListAssumption DEF ListInv, Ended, Typed, Top
<1>2. \A i \in 0..levels_ : i \in Top /\ i < kMaxLevels /\ i \in Nat
  BY <1>1 DEF Top
<1>3. 0 \in 0..levels_
  BY <1>1
<1>4. Range(EntrySet) = Inserted
  <2> DEFINE s == Along(0)
             t == Front(s)
  <2>1. /\ Len(s) \in Nat \ {0}
        /\ \A p \in Walked(0) : \E j \in 1..(Len(s) - 1) : s[j] = p
        /\ \A j \in 1..(Len(s) - 1) : s[j] \in Walked(0)
    BY <1>2, <1>3, AlongListsLevel
  <2>2. Walked(0) = Inserted
    BY DEF Walked, Inserted, ListInv, Lists, Nested
  <2> HIDE DEF s
  <2>3. /\ t \in Seq(Inserted) /\ Len(t) = Len(s) - 1
        /\ \A j \in 1..(Len(s) - 1) : t[j] = s[j]
    <3>1. Len(s) - 1 \in Int /\ 1 \in Int /\ t = SubSeq(s, 1, Len(s) - 1)
      BY <2>1 DEF Front
    <3>2. \A j \in 1..(Len(s) - 1) : s[j] \in Inserted
      BY <2>1, <2>2
    <3>3. /\ t \in Seq(Inserted)
          /\ Len(t) = IF 1 <= Len(s) - 1 THEN (Len(s) - 1) - 1 + 1 ELSE 0
          /\ \A j \in 1..((Len(s) - 1) - 1 + 1) : t[j] = s[1 + j - 1]
      BY <3>1, <3>2, SubSeqProperties
    <3>4. \A l \in Nat \ {0} : /\ (l - 1) - 1 + 1 = l - 1
                              /\ (IF 1 <= l - 1 THEN (l - 1) - 1 + 1 ELSE 0) = l - 1
                              /\ \A j \in 1..(l - 1) : 1 + j - 1 = j
      OBVIOUS
    <3>5. Len(t) = Len(s) - 1
      BY <2>1, <3>3, <3>4, Zenon
    <3>6. \A j \in 1..(Len(s) - 1) : t[j] = s[j]
      <4> TAKE j \in 1..(Len(s) - 1)
      <4>1. j \in 1..((Len(s) - 1) - 1 + 1) /\ 1 + j - 1 = j
        BY <2>1, <3>4
      <4>2. t[j] = s[1 + j - 1]
        BY <3>3, <4>1, Zenon
      <4> QED
        BY <4>1, <4>2, Zenon
    <3> QED
      BY <3>3, <3>5, <3>6, Zenon
  <2> HIDE DEF t
  <2>4. DOMAIN t = 1..(Len(s) - 1)
    BY <2>3, LenProperties
  <2>5. Range(t) = {t[j] : j \in 1..(Len(s) - 1)}
    BY <2>4 DEF Range
  <2>6. \A p \in Inserted : \E j \in 1..(Len(s) - 1) : t[j] = p
    <3> TAKE p \in Inserted
    <3>1. PICK j \in 1..(Len(s) - 1) : s[j] = p
      BY <2>1, <2>2
    <3>2. t[j] = p
      BY <2>3, <3>1
    <3> QED
      BY <3>2
  <2>7. \A j \in 1..(Len(s) - 1) : t[j] \in Inserted
    BY <2>1, <2>2, <2>3, Zenon
  <2> QED
    BY <2>5, <2>6, <2>7 DEF EntrySet, t, s
<1>5. ASSUME NEW i \in 0..levels_
      PROVE  LET s == Along(i)
             IN  /\ Last(s) = tail_
                 /\ \A j, k \in 1..(Len(s) - 1) : j < k => Less(s[j], s[k])
                 /\ i > 0 => Len(s) > 1 /\ Range(s) \subseteq Range(Along(i - 1))
  <2> DEFINE s == Along(i)
  <2>1. /\ s \in Seq(Walked(i) \union {tail_})
        /\ Len(s) \in Nat \ {0}
        /\ s[Len(s)] = tail_
        /\ Ascends(s)
        /\ \A p \in Walked(i) : \E j \in 1..(Len(s) - 1) : s[j] = p
        /\ \A j \in 1..(Len(s) - 1) : s[j] \in Walked(i)
    BY <1>2, AlongListsLevel
  <2>2. \A p \in Walked(i) : p # tail_
    BY NodesArePoints, PointsComparable DEF Walked, ListInv, Points
  <2>3. ASSUME i > 0
        PROVE  Len(s) > 1 /\ Range(s) \subseteq Range(Along(i - 1))
    <3> DEFINE t == Along(i - 1)
    <3>1. i - 1 \in 0..levels_ /\ i <= levels_ /\ 0 < i /\ i \in Top
      BY <1>1, <1>2, <2>3
    <3>2. /\ t \in Seq(Walked(i - 1) \union {tail_})
          /\ Len(t) \in Nat \ {0}
          /\ t[Len(t)] = tail_
          /\ \A p \in Walked(i - 1) : \E j \in 1..(Len(t) - 1) : t[j] = p
      BY <1>2, <3>1, AlongListsLevel
    <3>3. Walked(i) \subseteq Walked(i - 1)
      BY <2>3, <3>1 DEF Walked, ListInv, Lists, Nested
    <3>4. Walked(i) # {}
      BY <3>1 DEF Walked, ListInv, Ended, On
    <3> HIDE DEF s, t
    <3>5. Len(s) > 1
      <4>1. PICK p \in Walked(i) : TRUE
        BY <3>4
      <4>2. PICK j \in 1..(Len(s) - 1) : s[j] = p
        BY <2>1, <4>1
      <4> QED
        BY <2>1, <4>2
    <3>6. Range(s) \subseteq Walked(i) \union {tail_}
      BY <2>1, LenProperties, ElementOfSeq DEF Range
    <3>7. DOMAIN t = 1..Len(t)
      BY <3>2, LenProperties
    <3>8. \A p \in Walked(i - 1) \union {tail_} : p \in Range(t)
      <4> SUFFICES ASSUME NEW p \in Walked(i - 1) \union {tail_}
                   PROVE  \E j \in 1..Len(t) : t[j] = p
        BY <3>7 DEF Range
      <4>1. CASE p = tail_
        <5>1. Len(t) \in 1..Len(t)
          BY <3>2
        <5> QED
          BY <3>2, <4>1, <5>1
      <4>2. CASE p \in Walked(i - 1)
        <5>1. PICK j \in 1..(Len(t) - 1) : t[j] = p
          BY <3>2, <4>2
        <5>2. j \in 1..Len(t)
          BY <3>2
        <5> QED
          BY <5>1, <5>2
      <4> QED
        BY <4>1, <4>2
    <3> QED
      BY <3>3, <3>5, <3>6, <3>8 DEF s, t
  <2> HIDE DEF s
  <2>4. \A j, k \in 1..(Len(s) - 1) : j < k => Less(s[j], s[k])
    <3> SUFFICES ASSUME NEW j \in 1..(Len(s) - 1), NEW k \in 1..(Len(s) - 1), j < k
                 PROVE  Less(s[j], s[k])
      OBVIOUS
    <3>1. j \in 1..Len(s) /\ k \in 1..Len(s)
      BY <2>1
    <3>2. s[k] # tail_
      BY <2>1, <2>2
    <3> QED
      BY <2>1, <3>1, <3>2 DEF Ascends
  <2>5. Last(s) = tail_
    BY <2>1 DEF Last
  <2> QED
    BY <2>3, <2>4, <2>5 DEF s
<1> QED
  BY <1>4, <1>5 DEF LevelsLinked

(* If no draw reaches the level that the constructor leaves out, each level *)
(* in use leads through its nodes in ascending order and ends at the tail,  *)
(* so that a flush writes every entry once and in order.                    *)
THEOREM LevelsStayLinked ==
    ASSUME MaxDraws < kMaxLevels
    PROVE  Spec => []LevelsLinked
<1>1. ListInv => LevelsLinked
  BY LevelsAreLists
<1> QED
  BY <1>1, ListInvariance, PTL

=============================================================================
