----------------------------- MODULE LSMProofs -----------------------------
(***************************************************************************)
(* Theorems about LSM, for any keys, limits and workloads: however often   *)
(* BackgroundCompact moves files from level to level, no entry gets into   *)
(* two files of a manifest, and no version has a level with more files     *)
(* than kDefaultLevelSize allows; and if keys arrive in order, the files   *)
(* of a level stay in order and the store is a map.                        *)
(*                                                                         *)
(* The first argument is about positions in the manifest.  After           *)
(* UpdateManifest each position holds a file that was in the same level    *)
(* before, at a position that the compaction did not take, or a new file;  *)
(* a new file holds entries of the files that were taken and of no others. *)
(*                                                                         *)
(* The second one is about order.  What is held for a key is its last      *)
(* entry, and ages order entries as keys do, or the other way round.       *)
(* Level 0 is a queue by age and each deeper level a list by key; a        *)
(* compaction takes the oldest files of a level, and what it takes of the  *)
(* next one is a stretch of it, so that the merged files fit in its place. *)
(***************************************************************************)
EXTENDS LSM, FiniteSetTheorems, SequenceTheorems, WellFoundedInduction, TLAPS

-----------------------------------------------------------------------------
(* The inductive invariant.                                                *)

(* All entries that are in memory or were written to a file.               *)
Held == mem_table_ \union immutable \union UNION {sst[f] : f \in DOMAIN sst}

(* Manifests list files that exist.                                        *)
Typed ==
    /\ entry_id_ \in Nat
    /\ sst \in Seq(SUBSET Entry)
    /\ manifest \in Seq(Seq(1..Len(sst)))
    /\ version \in Seq(Seq(1..Len(sst)))

(* The next id is a new one.                                               *)
Fresh ==
    /\ IsFiniteSet(Held)
    /\ \A e \in Held : e \in Entry /\ e.id < entry_id_

(* The active table, the one being flushed and the files share no entry.   *)
Apart ==
    /\ mem_table_ \intersect immutable = {}
    /\ \A f \in DOMAIN sst : /\ mem_table_ \intersect sst[f] = {}
                             /\ immutable \intersect sst[f] = {}

(* Two positions of m hold two files, without an entry in common.          *)
Single(m, s) ==
    \A k, l \in DOMAIN m : \A i \in DOMAIN m[k], j \in DOMAIN m[l] :
        k # l \/ i # j => /\ m[k][i] # m[l][j]
                          /\ s[m[k][i]] \intersect s[m[l][j]] = {}

Below(m, l) == l \in DOMAIN LevelLimit /\ Len(m[l]) < LevelLimit[l]

(* Levels that the loop of BackgroundCompact has passed are below their    *)
(* limits; once it is over all are, and level 0 has room for one more.     *)
Bounded ==
    /\ \A l \in DOMAIN version :
          /\ l \in DOMAIN LevelLimit
          /\ Len(version[l]) < LevelLimit[l] + (IF l = 1 THEN 1 ELSE 0)
    /\ bg = "first" =>
          lvl = 1 /\ manifest # <<>> /\ Len(manifest[1]) >= LevelLimit[1]
    /\ bg = "level" =>
          lvl \in 1..Len(manifest) /\ \A l \in 1..(lvl - 1) : Below(manifest, l)
    /\ bg = "write" => \A l \in DOMAIN manifest : Below(manifest, l)

Parts == Typed /\ Fresh /\ Apart /\ Single(manifest, sst) /\ Single(version, sst)

LSMInv == Parts /\ Bounded

-----------------------------------------------------------------------------
(* Numbers: every set of them has a smallest element, and a largest one if *)
(* it is bounded.                                                          *)
LEMMA SmallestNat ==
    ASSUME NEW A \in SUBSET Nat, A # {}
    PROVE  \E x \in A : \A y \in A : x <= y
<1>0. \E R : IsWellFoundedOn(R, Nat) /\ \A x, y \in Nat : <<x, y>> \in R <=> x < y
  <2>1. IsWellFoundedOn(OpToRel(<, Nat), Nat)
    BY NatLessThanWellFounded
  <2>2. \A x, y \in Nat : <<x, y>> \in OpToRel(<, Nat) <=> x < y
    BY DEF OpToRel
  <2> QED
    BY <2>1, <2>2
<1>1. PICK R : IsWellFoundedOn(R, Nat) /\ \A x, y \in Nat : <<x, y>> \in R <=> x < y
  BY <1>0
<1>2. IsWellFoundedOn(R, Nat) /\ A \subseteq Nat
  BY <1>1
<1>3. \E x \in A : \A y \in A : ~ (<<y, x>> \in R)
  BY <1>2, WFMin, Zenon
<1>4. PICK x \in A : \A y \in A : ~ (<<y, x>> \in R)
  BY <1>3
<1>5. \A y \in A : ~ (y < x)
  <2> TAKE y \in A
  <2>1. y \in Nat /\ x \in Nat
    OBVIOUS
  <2>2. ~ (<<y, x>> \in R)
    BY <1>4
  <2> QED
    BY <1>1, <2>1, <2>2, Zenon
<1>6. \A y \in A : x <= y
  BY <1>5
<1> QED
  BY <1>6

(* The smallest element of a set of numbers.                               *)
LEMMA MinProperties ==
    ASSUME NEW A \in SUBSET Nat, A # {}
    PROVE  Min(A) \in A /\ \A y \in A : Min(A) <= y
BY SmallestNat DEF Min

(* The largest element of a bounded set of numbers.                        *)
LEMMA MaxProperties ==
    ASSUME NEW n \in Nat, NEW A \in SUBSET (0..n), A # {}
    PROVE  Max(A) \in A /\ \A y \in A : Max(A) >= y
<1> DEFINE B == {b \in 0..n : n - b \in A}
<1>1. B \in SUBSET Nat /\ B # {}
  <2>1. PICK a \in A : TRUE
    OBVIOUS
  <2>2. n - a \in 0..n /\ n - (n - a) = a
    OBVIOUS
  <2> QED
    BY <2>1, <2>2
<1>2. PICK x \in B : \A y \in B : x <= y
  BY <1>1, SmallestNat
<1>3. n - x \in A /\ \A y \in A : n - x >= y
  <2> SUFFICES ASSUME NEW y \in A
               PROVE  n - x >= y
    BY <1>2
  <2>1. y \in 0..n /\ n - y \in 0..n /\ n - (n - y) = y
    OBVIOUS
  <2>2. n - y \in B
    BY <2>1
  <2>3. x <= n - y /\ x \in 0..n
    BY <1>2, <2>2
  <2> QED
    BY <2>1, <2>3
<1> QED
  BY <1>3 DEF Max

-----------------------------------------------------------------------------
(* Remove: what is left are the elements at the positions that are kept,   *)
(* each of them once.                                                      *)

(* Sets of positions are finite.                                           *)
LEMMA FiniteRange ==
    ASSUME NEW m \in Nat, NEW K, K \subseteq 1..m
    PROVE  IsFiniteSet(K) /\ Cardinality(K) \in Nat
<1>1. IsFiniteSet(1..m)
  BY FS_Interval
<1>2. IsFiniteSet(K)
  BY <1>1, FS_Subset
<1> QED
  BY <1>2, FS_CardinalityType

(* Counting upwards, each number up to the size of a set is reached at an  *)
(* element of it.                                                          *)
LEMMA NthExists ==
    ASSUME NEW m \in Nat, NEW K \in SUBSET (1..m), NEW n \in 1..Cardinality(K)
    PROVE  \E i \in K : Cardinality({j \in K : j <= i}) = n
<1> DEFINE Upto(i) == {j \in K : j <= i}
           A == {i \in 0..m : Cardinality(Upto(i)) >= n}
<1>0. K \subseteq 1..m
  OBVIOUS
<1>1. IsFiniteSet(K) /\ Cardinality(K) \in Nat
  BY FiniteRange, <1>0
<1>2. ASSUME NEW i
      PROVE  IsFiniteSet(Upto(i)) /\ Cardinality(Upto(i)) \in Nat
  BY <1>1, FS_Subset, FS_CardinalityType
<1> HIDE DEF Upto, A
<1>3. A \in SUBSET Nat /\ A # {}
  <2>1. \A j \in K : j <= m
    BY <1>0
  <2>2. Upto(m) = K
    BY <2>1 DEF Upto
  <2>3. Cardinality(Upto(m)) >= n
    BY <1>1, <2>2
  <2>4. m \in A
    BY <2>3 DEF A
  <2>5. A \subseteq Nat
    BY DEF A
  <2> QED
    BY <2>4, <2>5
<1>a. \A i \in 0..m : i \in A <=> Cardinality(Upto(i)) >= n
  BY DEF A
<1>b. A \subseteq 0..m
  BY DEF A
<1>4. PICK x \in A : \A y \in A : x <= y
  BY <1>3, SmallestNat
<1>5. x # 0
  <2>1. \A j \in K : ~ (j <= 0)
    BY <1>0
  <2>2. Upto(0) = {}
    BY <2>1 DEF Upto
  <2>3. ~ (Cardinality(Upto(0)) >= n)
    BY <2>2, <1>1, FS_EmptySet
  <2> QED
    BY <2>3, <1>4, <1>a
<1>6. x \in 0..m /\ x - 1 \in 0..m /\ x - 1 \notin A
  BY <1>4, <1>5, <1>b
<1>7. Cardinality(Upto(x - 1)) < n
  <2>1. PICK d \in Nat : d = Cardinality(Upto(x - 1))
    BY <1>2
  <2>2. ~ (d >= n)
    BY <2>1, <1>6, <1>a
  <2> QED
    BY <2>1, <2>2, <1>1
<1>8. Upto(x) = IF x \in K THEN Upto(x - 1) \union {x} ELSE Upto(x - 1)
  <2>1. \A j \in K : j <= x <=> j <= x - 1 \/ j = x
    BY <1>0, <1>6
  <2> QED
    BY <2>1 DEF Upto
<1>c. Cardinality(Upto(x)) >= n
  BY <1>4, <1>6, <1>a
<1>9. x \in K
  <2>1. PICK d \in Nat : d = Cardinality(Upto(x - 1))
    BY <1>2
  <2>2. x \notin K => d >= n /\ d < n
    BY <2>1, <1>7, <1>8, <1>c
  <2> QED
    BY <2>2, <1>1
<1>10. Cardinality(Upto(x)) = n
  <2>1. x \notin Upto(x - 1)
    BY <1>6, <1>4 DEF Upto
  <2>2. Cardinality(Upto(x)) = Cardinality(Upto(x - 1)) + 1
    BY <1>2, <1>8, <1>9, <2>1, FS_AddElement
  <2> QED
    BY <2>2, <1>2, <1>7, <1>c, <1>1
<1> QED
  BY <1>9, <1>10 DEF Upto

Thinned(R, s, I) ==
    \E o \in [DOMAIN R -> DOMAIN s \ I] :
        /\ \A a, b \in DOMAIN R : o[a] = o[b] => a = b
        /\ \A a \in DOMAIN R : R[a] = s[o[a]]

(* Remove keeps the elements at the other positions.                       *)
LEMMA RemoveProperties ==
    ASSUME NEW T, NEW s \in Seq(T), NEW I
    PROVE  Remove(s, I) \in Seq(T) /\ Thinned(Remove(s, I), s, I)
<1> DEFINE K == DOMAIN s \ I
           c == Cardinality(K)
           Nth(n) == CHOOSE i \in K : Cardinality({j \in K : j <= i}) = n
           o == [n \in 1..c |-> Nth(n)]
<1>1. Len(s) \in Nat /\ DOMAIN s = 1..Len(s) /\ \A i \in DOMAIN s : s[i] \in T
  BY LenProperties
<1>2. K \subseteq 1..Len(s) /\ c \in Nat
  BY <1>1, FiniteRange
<1>3. ASSUME NEW n \in 1..c
      PROVE  Nth(n) \in K /\ Cardinality({j \in K : j <= Nth(n)}) = n
  <2>0. K \in SUBSET (1..Len(s)) /\ n \in 1..Cardinality(K) /\ Len(s) \in Nat
    BY <1>1, <1>2
  <2> HIDE DEF K
  <2>1. \E i \in K : Cardinality({j \in K : j <= i}) = n
    BY <2>0, NthExists
  <2> QED
    BY <2>1
<1>4. Remove(s, I) = [n \in 1..c |-> s[Nth(n)]]
  BY DEF Remove
<1>5. \A a, b \in 1..c : o[a] = o[b] => a = b
  <2> SUFFICES ASSUME NEW a \in 1..c, NEW b \in 1..c, Nth(a) = Nth(b)
               PROVE  a = b
    OBVIOUS
  <2>1. Cardinality({j \in K : j <= Nth(a)}) = a
    BY <1>3
  <2>2. Cardinality({j \in K : j <= Nth(b)}) = b
    BY <1>3
  <2> QED
    BY <2>1, <2>2
<1> HIDE DEF Nth, c
<1>6. /\ Remove(s, I) \in Seq(T)
      /\ DOMAIN Remove(s, I) = 1..c
  <2>1. \A n \in 1..c : s[Nth(n)] \in T
    BY <1>1, <1>3
  <2> QED
    BY <1>2, <1>4, <2>1
<1>7. o \in [1..c -> K] /\ \A a \in 1..c : Remove(s, I)[a] = s[o[a]]
  BY <1>3, <1>4
<1> QED
  BY <1>5, <1>6, <1>7 DEF Thinned

-----------------------------------------------------------------------------
(* RearrangeFilesInManifest: the positions up to first and those after     *)
(* last, with the new files between them.                                  *)
Spliced(R, s, new, first, last, c) ==
    /\ Len(R) = c + (Len(s) - last)
    /\ \A i \in 1..first : R[i] = s[i]
    /\ \A i \in (first + 1)..c : R[i] = new[i - first]
    /\ \A i \in (c + 1)..Len(R) : R[i] = s[i - c + last]

(* RearrangeFilesInManifest splices the new files in.                      *)
LEMMA RearrangeProperties ==
    ASSUME NEW T, NEW s \in Seq(T), NEW new \in Seq(T),
           NEW first \in Nat, NEW last \in Nat,
           first <= last, last <= Len(s),
           NEW R, R = Rearrange(s, first, last, new),
           NEW c, c = first + Len(new)
    PROVE  R \in Seq(T) /\ Spliced(R, s, new, first, last, c)
<1> DEFINE a == SubSeq(s, 1, first)
           b == SubSeq(s, last + 1, Len(s))
<1>0. PICK n \in Nat, w \in Nat : n = Len(s) /\ w = Len(new)
  BY LenProperties
<1>s. \A i \in 1..n : s[i] \in T
  BY <1>0, ElementOfSeq
<1>1. a \in Seq(T) /\ Len(a) = first /\ \A i \in 1..first : a[i] = s[i]
  <2>1. \A i \in 1..first : s[i] \in T
    BY <1>0, <1>s
  <2>2. /\ a \in Seq(T)
        /\ Len(a) = IF 1 <= first THEN first - 1 + 1 ELSE 0
        /\ \A i \in 1..(first - 1 + 1) : a[i] = s[1 + i - 1]
    BY <2>1, SubSeqProperties
  <2> HIDE DEF a
  <2> QED
    BY <2>2
<1>2. b \in Seq(T) /\ Len(b) = n - last /\ \A i \in 1..(n - last) : b[i] = s[last + i]
  <2>1. \A i \in (last + 1)..n : s[i] \in T
    BY <1>0, <1>s
  <2>2. /\ b \in Seq(T)
        /\ Len(b) = IF last + 1 <= n THEN n - (last + 1) + 1 ELSE 0
        /\ \A i \in 1..(n - (last + 1) + 1) : b[i] = s[last + 1 + i - 1]
    BY <1>0, <2>1, SubSeqProperties
  <2> HIDE DEF b
  <2>3. last <= n
    BY <1>0
  <2>4. Len(b) = n - last
    BY <2>2, <2>3
  <2>5. \A i \in 1..(n - last) : i \in 1..(n - (last + 1) + 1) /\ last + 1 + i - 1 = last + i
    BY <2>3
  <2> QED
    BY <2>2, <2>4, <2>5
<1>3. Rearrange(s, first, last, new) = (a \o new) \o b
  BY DEF Rearrange
<1> HIDE DEF a, b
<1>4. /\ a \o new \in Seq(T) /\ Len(a \o new) = first + w
      /\ \A i \in 1..(first + w) :
            (a \o new)[i] = IF i <= first THEN a[i] ELSE new[i - first]
  BY <1>0, <1>1, ConcatProperties
<1>5. PICK x : x = a \o new
  OBVIOUS
<1>6. /\ x \o b \in Seq(T) /\ Len(x \o b) = first + w + (n - last)
      /\ \A i \in 1..(first + w + (n - last)) :
            (x \o b)[i] = IF i <= first + w THEN x[i] ELSE b[i - (first + w)]
  <2>1. x \in Seq(T) /\ b \in Seq(T) /\ Len(x) = first + w
    BY <1>2, <1>4, <1>5
  <2>2. /\ x \o b \in Seq(T) /\ Len(x \o b) = Len(x) + Len(b)
        /\ \A i \in 1..(Len(x) + Len(b)) :
              (x \o b)[i] = IF i <= Len(x) THEN x[i] ELSE b[i - Len(x)]
    BY <2>1, ConcatProperties
  <2> QED
    BY <1>2, <2>1, <2>2
<1>8. PICK y : y = x \o b
  OBVIOUS
<1>9. R = y /\ last <= n
  BY <1>0, <1>3, <1>5, <1>8
<1>10. \A i \in 1..first : R[i] = s[i]
  BY <1>1, <1>4, <1>5, <1>6, <1>8, <1>9
<1>11. \A i \in (first + 1)..(first + w) : R[i] = new[i - first]
  <2> SUFFICES ASSUME NEW i \in (first + 1)..(first + w)
               PROVE  R[i] = new[i - first]
    OBVIOUS
  <2>1. i \in 1..(first + w + (n - last)) /\ i \in 1..(first + w)
        /\ i <= first + w /\ ~ (i <= first)
    BY <1>9
  <2> QED
    BY <2>1, <1>4, <1>5, <1>6, <1>8, <1>9
<1>12. \A i \in (first + w + 1)..(first + w + (n - last)) :
          R[i] = s[i - (first + w) + last]
  <2> SUFFICES ASSUME NEW i \in (first + w + 1)..(first + w + (n - last))
               PROVE  R[i] = s[i - (first + w) + last]
    OBVIOUS
  <2>1. R[i] = b[i - (first + w)]
    <3>1. i \in 1..(first + w + (n - last)) /\ ~ (i <= first + w)
      BY <1>9
    <3> QED
      BY <3>1, <1>6, <1>8, <1>9
  <2>2. i - (first + w) \in 1..(n - last)
    BY <1>9
  <2>3. last + (i - (first + w)) = i - (first + w) + last
    OBVIOUS
  <2> QED
    BY <2>1, <2>2, <2>3, <1>2
<1> QED
  BY <1>0, <1>6, <1>8, <1>9, <1>10, <1>11, <1>12 DEF Spliced

-----------------------------------------------------------------------------
(* A merge deals the entries out to files.  Their number is a natural one. *)
LEMMA DivNat == \A a \in Nat, d \in Nat \ {0} : a \div d \in Nat
OBVIOUS

(* What IterMerge writes: files of merged entries, no two of them with an  *)
(* entry in common.                                                        *)
LEMMA MergeProperties ==
    ASSUME NEW S, IsFiniteSet(S), NEW limit \in Nat \ {0, 1}
    PROVE  /\ Merge(S, limit) \in Seq(SUBSET S)
           /\ \A n, p \in DOMAIN Merge(S, limit) :
                 n # p => Merge(S, limit)[n] \intersect Merge(S, limit)[p] = {}
<1>1. PICK c \in Nat : c = (Cardinality(S) + limit - 2) \div (limit - 1)
  <2>1. Cardinality(S) \in Nat
    BY FS_CardinalityType
  <2>2. Cardinality(S) + limit - 2 \in Nat /\ limit - 1 \in Nat \ {0}
    BY <2>1
  <2> QED
    BY <2>2, DivNat
<1> DEFINE File(n) == KeepNewest({e \in S : Rank(e, S) \div (limit - 1) = n - 1})
<1>2. Merge(S, limit) = [n \in 1..c |-> File(n)]
  BY <1>1 DEF Merge
<1>3. ASSUME NEW n \in 1..c, NEW e \in File(n)
      PROVE  e \in S /\ Rank(e, S) \div (limit - 1) = n - 1
  BY DEF KeepNewest
<1> HIDE DEF File
<1>4. \A n \in 1..c : File(n) \in SUBSET S
  BY <1>3
<1>5. \A n, p \in 1..c : n # p => File(n) \intersect File(p) = {}
  <2> SUFFICES ASSUME NEW n \in 1..c, NEW p \in 1..c,
                      NEW e, e \in File(n), e \in File(p)
               PROVE  n = p
    OBVIOUS
  <2>1. Rank(e, S) \div (limit - 1) = n - 1 /\ Rank(e, S) \div (limit - 1) = p - 1
    BY <1>3
  <2>2. n - 1 = p - 1
    BY <2>1
  <2> QED
    BY <2>2
<1>6. Merge(S, limit) \in Seq(SUBSET S)
  BY <1>2, <1>4
<1>7. DOMAIN Merge(S, limit) = 1..c /\ \A n \in 1..c : Merge(S, limit)[n] = File(n)
  BY <1>2
<1> QED
  BY <1>5, <1>6, <1>7

-----------------------------------------------------------------------------
(* UpdateManifest.  Where the file at a position of level k came from: a   *)
(* positive number is its position in that level before, one that was not  *)
(* taken, and -n is the n-th new file.                                     *)
Took(l, plan, k, p) ==
    (k = l /\ p \in plan.current) \/ (k = l + 1 /\ p \in plan.next)

Origin(m, m2, l, plan, N, w, k, o) ==
    /\ o \in [DOMAIN m2[k] -> Int]
    /\ \A i, j \in DOMAIN m2[k] : o[i] = o[j] => i = j
    /\ \A i \in DOMAIN m2[k] : o[i] > 0 =>
          /\ k \in DOMAIN m /\ o[i] \in DOMAIN m[k]
          /\ ~ Took(l, plan, k, o[i])
          /\ m2[k][i] = m[k][o[i]]
    /\ \A i \in DOMAIN m2[k] : o[i] <= 0 =>
          -o[i] \in 1..w /\ k = l + 1 /\ m2[k][i] = N - o[i]

(* Levels other than l and the next one stay as they were.                 *)
OthersKept(m, m2, l) ==
    /\ Len(m2) >= Len(m) /\ Len(m2) >= l + 1
    /\ \A k \in DOMAIN m2 : k \notin {l, l + 1} =>
          k \in DOMAIN m /\ m2[k] = m[k]

(* What CompactSST hands to UpdateManifest are positions of the two levels. *)
PlanOK(m, l, plan) ==
    /\ plan.current \subseteq DOMAIN m[l]
    /\ plan.next \subseteq DOMAIN Level(m, l + 1)
    /\ plan.insert \in 0..Len(Level(m, l + 1))

(* A level of a manifest is a sequence of files; one that does not exist   *)
(* is empty.                                                               *)
LEMMA LevelType ==
    ASSUME NEW T, NEW m \in Seq(Seq(T)), NEW k \in Nat \ {0}
    PROVE  /\ Level(m, k) \in Seq(T)
           /\ Len(Level(m, k)) \in Nat /\ DOMAIN Level(m, k) = 1..Len(Level(m, k))
           /\ k \in DOMAIN m => Level(m, k) = m[k]
           /\ k \notin DOMAIN m => Level(m, k) = <<>>
<1>1. Len(m) \in Nat /\ DOMAIN m = 1..Len(m) /\ \A i \in DOMAIN m : m[i] \in Seq(T)
  BY LenProperties
<1>2. Level(m, k) \in Seq(T)
  <2>1. CASE k <= Len(m)
    BY <2>1, <1>1 DEF Level
  <2>2. CASE ~ (k <= Len(m))
    BY <2>2, EmptySeq DEF Level
  <2> QED
    BY <2>1, <2>2
<1>3. Len(Level(m, k)) \in Nat /\ DOMAIN Level(m, k) = 1..Len(Level(m, k))
  BY <1>2, LenProperties
<1> QED
  BY <1>1, <1>2, <1>3 DEF Level

(* The stretch of the next level that is replaced.                         *)
Stretch(A, at, first, last) ==
    /\ first = IF A = {} THEN at ELSE Min(A) - 1
    /\ last = IF A = {} THEN at ELSE Max(A)

(* The stretch lies within the level and covers every file that is taken.  *)
LEMMA StretchProperties ==
    ASSUME NEW n \in Nat, NEW A \in SUBSET (1..n), NEW at \in 0..n,
           NEW first, NEW last, Stretch(A, at, first, last)
    PROVE  /\ first \in Nat /\ last \in Nat /\ first <= last /\ last <= n
           /\ \A p \in A : first < p /\ p <= last
<1>1. CASE A = {}
  BY <1>1 DEF Stretch
<1>2. CASE A # {}
  <2>1. Min(A) \in A /\ \A y \in A : Min(A) <= y
    BY <1>2, MinProperties
  <2>2. A \in SUBSET (0..n)
    OBVIOUS
  <2>3. Max(A) \in A /\ \A y \in A : Max(A) >= y
    BY <1>2, <2>2, MaxProperties
  <2>4. PICK x \in 1..n, y \in 1..n : x = Min(A) /\ y = Max(A)
    BY <2>1, <2>3
  <2>5. x <= y /\ first = x - 1 /\ last = y
    BY <1>2, <2>1, <2>3, <2>4 DEF Stretch
  <2>6. \A p \in A : p \in 1..n /\ x <= p /\ p <= y
    BY <2>1, <2>3, <2>4
  <2> QED
    BY <2>5, <2>6
<1> QED
  BY <1>1, <1>2

(* The next level: new files are between those before and those after the  *)
(* stretch.                                                                *)
Woven(R, s, first, last, N, w) ==
    \E o \in [DOMAIN R -> Int] :
        /\ \A i, j \in DOMAIN R : o[i] = o[j] => i = j
        /\ \A i \in DOMAIN R : o[i] > 0 =>
              /\ o[i] \in DOMAIN s
              /\ o[i] <= first \/ last < o[i]
              /\ R[i] = s[o[i]]
        /\ \A i \in DOMAIN R : o[i] <= 0 =>
              -o[i] \in 1..w /\ R[i] = N - o[i]

(* Where the files of the next level come from.                            *)
LEMMA RearrangeOrigin ==
    ASSUME NEW N \in Nat, NEW w \in Nat, NEW s \in Seq(1..N),
           NEW first \in Nat, NEW last \in Nat,
           first <= last, last <= Len(s),
           NEW new, new = [n \in 1..w |-> N + n],
           NEW R, R = Rearrange(s, first, last, new)
    PROVE  R \in Seq(1..(N + w)) /\ Woven(R, s, first, last, N, w)
<1>2. PICK q \in Nat : q = Len(s) /\ DOMAIN s = 1..q
  BY LenProperties
<1>3. new \in Seq(1..(N + w)) /\ Len(new) = w /\ \A n \in 1..w : new[n] = N + n
  <2>1. \A n \in 1..w : N + n \in 1..(N + w)
    OBVIOUS
  <2> QED
    BY <2>1
<1>4. s \in Seq(1..(N + w))
  <2>1. 1..N \subseteq 1..(N + w)
    OBVIOUS
  <2> QED
    BY <2>1, SeqMonotonic
<1>5. PICK c \in Nat : c = first + w
  OBVIOUS
<1>6. /\ R \in Seq(1..(N + w)) /\ Len(R) = c + (q - last)
      /\ \A i \in 1..first : R[i] = s[i]
      /\ \A i \in (first + 1)..c : R[i] = new[i - first]
      /\ \A i \in (c + 1)..Len(R) : R[i] = s[i - c + last]
  <2>1. c = first + Len(new)
    BY <1>3, <1>5
  <2>2. /\ R \in Seq(1..(N + w)) /\ Len(R) = c + (Len(s) - last)
        /\ \A i \in 1..first : R[i] = s[i]
        /\ \A i \in (first + 1)..c : R[i] = new[i - first]
        /\ \A i \in (c + 1)..Len(R) : R[i] = s[i - c + last]
    <3>1. R \in Seq(1..(N + w)) /\ Spliced(R, s, new, first, last, c)
      BY <1>3, <1>4, <2>1, RearrangeProperties
    <3> QED
      BY <3>1 DEF Spliced
  <2> QED
    BY <1>2, <2>2
<1>7. PICK z \in Nat : z = c + (q - last) /\ DOMAIN R = 1..z /\ last <= q
  BY <1>2, <1>6, LenProperties
<1> DEFINE o == [i \in 1..z |-> IF i <= first THEN i
                                ELSE IF i <= c THEN first - i ELSE i - c + last]
<1>8. o \in [1..z -> Int]
  OBVIOUS
<1>9. \A i, j \in 1..z : o[i] = o[j] => i = j
  BY <1>5
<1>10. ASSUME NEW i \in 1..z, o[i] > 0
       PROVE  /\ o[i] \in 1..q
              /\ o[i] <= first \/ last < o[i]
              /\ R[i] = s[o[i]]
  <2>1. CASE i <= first
    <3>1. o[i] = i /\ i \in 1..first /\ i \in 1..q
      BY <2>1, <1>2, <1>7
    <3> QED
      BY <2>1, <3>1, <1>6
  <2>2. CASE ~ (i <= first)
    <3>1. ~ (i <= c) /\ o[i] = i - c + last
      BY <2>2, <1>10, <1>5
    <3>2. i \in (c + 1)..Len(R)
      BY <3>1, <1>6, <1>7
    <3>3. R[i] = s[i - c + last]
      BY <3>2, <1>6
    <3>4. i - c + last \in 1..q /\ last < i - c + last
      BY <3>1, <1>7
    <3> QED
      BY <3>1, <3>3, <3>4
  <2> QED
    BY <2>1, <2>2
<1>11. ASSUME NEW i \in 1..z, o[i] <= 0
       PROVE  -o[i] \in 1..w /\ R[i] = N - o[i]
  <2>1. ~ (i <= first) /\ i <= c /\ o[i] = first - i
    BY <1>11, <1>5, <1>7
  <2>2. i \in (first + 1)..c /\ i - first \in 1..w
    BY <2>1, <1>5
  <2>3. R[i] = N + (i - first)
    BY <2>2, <1>3, <1>6
  <2> QED
    BY <2>1, <2>2, <2>3
<1> HIDE DEF o
<1>12. o \in [DOMAIN R -> Int] /\ \A i, j \in DOMAIN R : o[i] = o[j] => i = j
  BY <1>7, <1>8, <1>9
<1>13. \A i \in DOMAIN R : o[i] > 0 =>
          /\ o[i] \in DOMAIN s
          /\ o[i] <= first \/ last < o[i]
          /\ R[i] = s[o[i]]
  BY <1>2, <1>7, <1>10
<1>14. \A i \in DOMAIN R : o[i] <= 0 => -o[i] \in 1..w /\ R[i] = N - o[i]
  BY <1>7, <1>11
<1> QED
  BY <1>6, <1>12, <1>13, <1>14 DEF Woven

(* A function on 1..n is a sequence of length n.                           *)
LEMMA FcnIsSeq ==
    ASSUME NEW S, NEW n \in Nat, NEW f \in [1..n -> S]
    PROVE  f \in Seq(S) /\ Len(f) = n
OBVIOUS

(* UpdateManifest: where every file of the new manifest comes from.        *)
LEMMA UpdateOrigin ==
    ASSUME NEW N \in Nat, NEW w \in Nat, NEW m \in Seq(Seq(1..N)),
           NEW l \in DOMAIN m, NEW plan, PlanOK(m, l, plan),
           NEW m2, m2 = UpdateManifest(m, l, plan, [n \in 1..w |-> N + n])
    PROVE  /\ m2 \in Seq(Seq(1..(N + w)))
           /\ OthersKept(m, m2, l)
           /\ \A k \in DOMAIN m2 : \E o : Origin(m, m2, l, plan, N, w, k, o)
<1> DEFINE next == Level(m, l + 1)
           first == IF plan.next = {} THEN plan.insert ELSE Min(plan.next) - 1
           last == IF plan.next = {} THEN plan.insert ELSE Max(plan.next)
           new == [n \in 1..w |-> N + n]
           cur == Remove(m[l], plan.current)
           nxt == Rearrange(next, first, last, new)
           h == Max({Len(m), l + 1})
<1>1. Len(m) \in Nat /\ DOMAIN m = 1..Len(m) /\ l \in 1..Len(m)
  BY LenProperties
<1>2. \A k \in DOMAIN m : m[k] \in Seq(1..N)
  BY LenProperties
<1>3. l \in Nat /\ l + 1 \in Nat \ {0} /\ l # l + 1
  BY <1>1
<1>4. /\ next \in Seq(1..N) /\ Len(next) \in Nat /\ DOMAIN next = 1..Len(next)
      /\ l + 1 \in DOMAIN m => next = m[l + 1]
      /\ l + 1 \notin DOMAIN m => next = <<>>
  BY <1>3, LevelType
<1>5. /\ plan.current \subseteq DOMAIN m[l] /\ plan.next \in SUBSET (1..Len(next))
      /\ plan.insert \in 0..Len(next)
  BY <1>4 DEF PlanOK
<1>6. h \in Nat /\ h >= Len(m) /\ h >= l + 1 /\ h \in {Len(m), l + 1}
  <2>1. {Len(m), l + 1} \in SUBSET (0..(Len(m) + 1)) /\ Len(m) + 1 \in Nat
    BY <1>1
  <2>2. h \in {Len(m), l + 1} /\ \A y \in {Len(m), l + 1} : h >= y
    <3> HIDE DEF h
    <3>1. Max({Len(m), l + 1}) \in {Len(m), l + 1}
          /\ \A y \in {Len(m), l + 1} : Max({Len(m), l + 1}) >= y
      BY <2>1, MaxProperties
    <3> QED
      BY <3>1 DEF h
  <2> HIDE DEF h
  <2> QED
    BY <2>2, <1>1
<1>7. m2 = [i \in 1..h |-> IF i = l THEN cur ELSE IF i = l + 1 THEN nxt ELSE m[i]]
  BY DEF UpdateManifest
<1>8. /\ first \in Nat /\ last \in Nat /\ first <= last /\ last <= Len(next)
      /\ \A p \in plan.next : first < p /\ p <= last
  <2>1. Stretch(plan.next, plan.insert, first, last)
    BY DEF Stretch
  <2> HIDE DEF next, first, last
  <2> QED
    BY <2>1, <1>4, <1>5, StretchProperties
<1>9. PICK c : c = cur
  OBVIOUS
<1>10. PICK x : x = nxt
  OBVIOUS
<1>11. c \in Seq(1..N) /\ Thinned(c, m[l], plan.current)
  BY <1>2, <1>9, RemoveProperties
<1> HIDE DEF next, first, last, cur, nxt, h
<1>12. x \in Seq(1..(N + w)) /\ Woven(x, next, first, last, N, w)
  <2>1. x = Rearrange(next, first, last, new)
    BY <1>10 DEF nxt
  <2> QED
    BY <2>1, <1>4, <1>8, RearrangeOrigin
<1>13. /\ \A k \in 1..h : m2[k] = IF k = l THEN c ELSE IF k = l + 1 THEN x ELSE m[k]
       /\ DOMAIN m2 = 1..h
  BY <1>7, <1>9, <1>10
<1>14. \A k \in 1..h : k \notin {l, l + 1} => k \in DOMAIN m
  <2> SUFFICES ASSUME NEW k \in 1..h, k # l, k # l + 1
               PROVE  k \in DOMAIN m
    OBVIOUS
  <2>1. PICK n \in Nat : n = Len(m)
    BY <1>1
  <2>2. k <= n
    BY <2>1, <1>1, <1>3, <1>6
  <2> QED
    BY <2>1, <2>2, <1>1, <1>6
<1>15. m2 \in Seq(Seq(1..(N + w))) /\ Len(m2) = h
  <2>1. 1..N \subseteq 1..(N + w)
    OBVIOUS
  <2>2. ASSUME NEW k \in 1..h
        PROVE  m2[k] \in Seq(1..(N + w))
    <3>1. c \in Seq(1..(N + w))
      BY <1>11, <2>1, SeqMonotonic
    <3>2. k \in DOMAIN m => m[k] \in Seq(1..(N + w))
      BY <1>2, <2>1, SeqMonotonic
    <3> QED
      BY <3>1, <3>2, <1>12, <1>13, <1>14
  <2> DEFINE F(k) == IF k = l THEN cur ELSE IF k = l + 1 THEN nxt ELSE m[k]
  <2>3. m2 = [k \in 1..h |-> F(k)]
    BY <1>7
  <2>4. PICK S : S = Seq(1..(N + w))
    OBVIOUS
  <2>5. \A k \in 1..h : F(k) \in S
    BY <2>2, <2>4, <1>9, <1>10, <1>13
  <2> HIDE DEF F
  <2>6. m2 \in [1..h -> S]
    BY <2>3, <2>5
  <2>7. m2 \in Seq(S) /\ Len(m2) = h
    BY <1>6, <2>6, FcnIsSeq
  <2> QED
    BY <2>4, <2>7
<1>16. ASSUME NEW k \in 1..h
       PROVE  \E o : Origin(m, m2, l, plan, N, w, k, o)
  <2>1. CASE k = l
    <3>1. PICK o \in [DOMAIN c -> DOMAIN m[l] \ plan.current] :
             /\ \A a, b \in DOMAIN c : o[a] = o[b] => a = b
             /\ \A a \in DOMAIN c : c[a] = m[l][o[a]]
      BY <1>11 DEF Thinned
    <3>2. m2[k] = c /\ l # l + 1
      BY <2>1, <1>13, <1>3
    <3>3. DOMAIN m[l] = 1..Len(m[l]) /\ Len(m[l]) \in Nat
      BY <1>2, LenProperties
    <3>4. \A i \in DOMAIN c : o[i] \in DOMAIN m[l] /\ o[i] \notin plan.current /\ o[i] > 0 /\ o[i] \in Int
      BY <3>1, <3>3
    <3>5. \A i \in DOMAIN c : ~ (o[i] <= 0)
      BY <3>4
    <3>6. o \in [DOMAIN c -> Int]
      BY <3>1, <3>4
    <3>7. Origin(m, m2, l, plan, N, w, k, o)
      BY <2>1, <3>1, <3>2, <3>4, <3>5, <3>6 DEF Origin, Took
    <3> QED
      BY <3>7
  <2>2. CASE k = l + 1
    <3>1. PICK o \in [DOMAIN x -> Int] :
             /\ \A i, j \in DOMAIN x : o[i] = o[j] => i = j
             /\ \A i \in DOMAIN x : o[i] > 0 =>
                   /\ o[i] \in DOMAIN next
                   /\ o[i] <= first \/ last < o[i]
                   /\ x[i] = next[o[i]]
             /\ \A i \in DOMAIN x : o[i] <= 0 =>
                   -o[i] \in 1..w /\ x[i] = N - o[i]
      BY <1>12 DEF Woven
    <3>2. m2[k] = x /\ l # l + 1
      BY <2>2, <1>13, <1>3
    <3>3. ASSUME NEW i \in DOMAIN x, o[i] > 0
          PROVE  /\ k \in DOMAIN m /\ o[i] \in DOMAIN m[k]
                 /\ ~ Took(l, plan, k, o[i])
                 /\ x[i] = m[k][o[i]]
      <4>1. /\ o[i] \in DOMAIN next
            /\ o[i] <= first \/ last < o[i]
            /\ x[i] = next[o[i]]
        BY <3>1, <3>3
      <4>2. next # <<>>
        <5>1. Len(next) # 0
          BY <4>1, <1>4
        <5> QED
          BY <5>1, EmptySeq
      <4>3. k \in DOMAIN m /\ next = m[k]
        BY <2>2, <4>2, <1>4
      <4>4. o[i] \notin plan.next
        <5>1. PICK p \in Int : p = o[i]
          BY <3>1
        <5>2. p <= first \/ last < p
          BY <4>1, <5>1
        <5>3. p \in plan.next => first < p /\ p <= last
          BY <1>8
        <5>4. first \in Int /\ last \in Int
          BY <1>8
        <5> QED
          BY <5>1, <5>2, <5>3, <5>4
      <4>5. ~ Took(l, plan, k, o[i])
        BY <2>2, <3>2, <4>4 DEF Took
      <4> QED
        BY <4>1, <4>3, <4>5
    <3>4. Origin(m, m2, l, plan, N, w, k, o)
      BY <2>2, <3>1, <3>2, <3>3 DEF Origin
    <3> QED
      BY <3>4
  <2>3. CASE k \notin {l, l + 1}
    <3>1. k \in DOMAIN m /\ m2[k] = m[k]
      BY <2>3, <1>13, <1>14
    <3>2. DOMAIN m[k] = 1..Len(m[k]) /\ Len(m[k]) \in Nat
      BY <3>1, <1>2, LenProperties
    <3> DEFINE o == [i \in DOMAIN m[k] |-> i]
    <3>3. \A i \in DOMAIN m[k] : o[i] = i /\ i > 0 /\ ~ (i <= 0)
      BY <3>2, SMTT(30)
    <3>4. o \in [DOMAIN m[k] -> Int]
      BY <3>2
    <3> HIDE DEF o
    <3>6. \A i \in DOMAIN m[k] : ~ Took(l, plan, k, o[i])
      BY <2>3 DEF Took
    <3>5. Origin(m, m2, l, plan, N, w, k, o)
      <4>1. o \in [DOMAIN m2[k] -> Int] /\ \A i, j \in DOMAIN m2[k] : o[i] = o[j] => i = j
        <5>1. \A i, j \in DOMAIN m[k] : o[i] = o[j] => i = j
          BY <3>3
        <5> QED
          BY <3>1, <3>4, <5>1
      <4>2. \A i \in DOMAIN m2[k] :
               /\ ~ (o[i] <= 0) /\ k \in DOMAIN m /\ o[i] \in DOMAIN m[k]
               /\ ~ Took(l, plan, k, o[i]) /\ m2[k][i] = m[k][o[i]]
        BY <3>1, <3>3, <3>6
      <4> QED
        BY <4>1, <4>2, Zenon DEF Origin
    <3> QED
      BY <3>5
  <2> QED
    BY <2>1, <2>2, <2>3
<1> QED
  BY <1>6, <1>13, <1>14, <1>15, <1>16 DEF OthersKept

(* Files that are not touched stay apart when others are written.          *)
LEMMA SingleKept ==
    ASSUME NEW N, NEW m \in Seq(Seq(1..N)), NEW s, Single(m, s),
           NEW s2, \A f \in 1..N : s2[f] = s[f]
    PROVE  Single(m, s2)
<1> SUFFICES ASSUME NEW k \in DOMAIN m, NEW l \in DOMAIN m,
                    NEW i \in DOMAIN m[k], NEW j \in DOMAIN m[l], k # l \/ i # j
             PROVE  /\ m[k][i] # m[l][j]
                    /\ s2[m[k][i]] \intersect s2[m[l][j]] = {}
  BY DEF Single
<1>1. m[k] \in Seq(1..N) /\ m[l] \in Seq(1..N)
  BY LenProperties
<1>2. m[k][i] \in 1..N /\ m[l][j] \in 1..N
  BY <1>1, LenProperties
<1>3. /\ m[k][i] # m[l][j]
      /\ s[m[k][i]] \intersect s[m[l][j]] = {}
  BY DEF Single
<1> QED
  BY <1>2, <1>3

(* The new files take the place of the merged ones: s2 are the files after *)
(* the merge, N of them old and w new ones, and the new ones share out     *)
(* entries of files that were taken.                                       *)
Deals(m, l, plan, N, w, s, s2) ==
    /\ \A f \in 1..N : s2[f] = s[f]
    /\ \A n \in 1..w : \A e \in s2[N + n] :
          \E k \in DOMAIN m : \E p \in DOMAIN m[k] :
              Took(l, plan, k, p) /\ e \in s[m[k][p]]
    /\ \A n, p \in 1..w : n # p => s2[N + n] \intersect s2[N + p] = {}

OldAt(m, m2, l, plan, N, s, s2, g, a, p) ==
    /\ g \in DOMAIN m /\ p \in DOMAIN m[g] /\ ~ Took(l, plan, g, p)
    /\ m2[g][a] = m[g][p] /\ m2[g][a] \in 1..N
    /\ s2[m2[g][a]] = s[m[g][p]]

NewAt(m2, l, N, w, g, a, n) == g = l + 1 /\ n \in 1..w /\ m2[g][a] = N + n

(* Numbers with the same negative are equal.                               *)
LEMMA MinusInjective == \A a, b \in Int : -a = -b => a = b
OBVIOUS

(* The manifest after a compaction lists no file twice and no two files    *)
(* with an entry in common.                                                *)
LEMMA CompactSingle ==
    ASSUME NEW N \in Nat, NEW w \in Nat, NEW m \in Seq(Seq(1..N)),
           NEW l \in DOMAIN m, NEW plan, PlanOK(m, l, plan),
           NEW m2, m2 = UpdateManifest(m, l, plan, [n \in 1..w |-> N + n]),
           NEW s, Single(m, s),
           NEW s2, Deals(m, l, plan, N, w, s, s2)
    PROVE  Single(m2, s2)
<1> SUFFICES ASSUME NEW k \in DOMAIN m2, NEW h \in DOMAIN m2,
                    NEW i \in DOMAIN m2[k], NEW j \in DOMAIN m2[h], k # h \/ i # j
             PROVE  /\ m2[k][i] # m2[h][j]
                    /\ s2[m2[k][i]] \intersect s2[m2[h][j]] = {}
  BY DEF Single
<1>1. PICK o : Origin(m, m2, l, plan, N, w, k, o)
  BY UpdateOrigin
<1>2. PICK q : /\ Origin(m, m2, l, plan, N, w, h, q)
               /\ h = k => q = o
  BY <1>1, UpdateOrigin
<1>3. ASSUME NEW g \in DOMAIN m2, NEW r, Origin(m, m2, l, plan, N, w, g, r),
             NEW a \in DOMAIN m2[g], r[a] > 0
      PROVE  OldAt(m, m2, l, plan, N, s, s2, g, a, r[a])
  <2>1. /\ g \in DOMAIN m /\ r[a] \in DOMAIN m[g] /\ ~ Took(l, plan, g, r[a])
        /\ m2[g][a] = m[g][r[a]]
    BY <1>3 DEF Origin
  <2>2. m[g] \in Seq(1..N)
    BY <2>1, LenProperties
  <2>3. m[g][r[a]] \in 1..N
    BY <2>1, <2>2, LenProperties
  <2> QED
    BY <2>1, <2>3 DEF OldAt, Deals
<1>4. ASSUME NEW g \in DOMAIN m2, NEW r, Origin(m, m2, l, plan, N, w, g, r),
             NEW a \in DOMAIN m2[g], ~ (r[a] > 0)
      PROVE  NewAt(m2, l, N, w, g, a, -r[a])
  <2>1. r[a] \in Int /\ r[a] <= 0
    BY <1>4 DEF Origin
  <2>2. -r[a] \in 1..w /\ g = l + 1 /\ m2[g][a] = N - r[a]
    BY <1>4, <2>1 DEF Origin
  <2> QED
    BY <2>1, <2>2 DEF NewAt
<1>5. ASSUME NEW g, NEW a, NEW p, OldAt(m, m2, l, plan, N, s, s2, g, a, p),
             NEW f, NEW b, NEW n, NewAt(m2, l, N, w, f, b, n)
      PROVE  /\ m2[g][a] # m2[f][b]
             /\ s2[m2[g][a]] \intersect s2[m2[f][b]] = {}
  <2>0. /\ g \in DOMAIN m /\ p \in DOMAIN m[g] /\ ~ Took(l, plan, g, p)
        /\ m2[g][a] \in 1..N /\ s2[m2[g][a]] = s[m[g][p]]
    BY <1>5 DEF OldAt
  <2>1. n \in 1..w /\ m2[f][b] = N + n
    BY <1>5 DEF NewAt
  <2>2. s[m[g][p]] \intersect s2[N + n] = {}
    <3> SUFFICES ASSUME NEW e, e \in s[m[g][p]], e \in s2[N + n]
                 PROVE  FALSE
      OBVIOUS
    <3>0. PICK y \in DOMAIN m : \E z \in DOMAIN m[y] :
                 Took(l, plan, y, z) /\ e \in s[m[y][z]]
      BY <2>1 DEF Deals
    <3>1. PICK z \in DOMAIN m[y] : Took(l, plan, y, z) /\ e \in s[m[y][z]]
      BY <3>0
    <3>2. y # g \/ z # p
      BY <2>0, <3>1
    <3>3. s[m[y][z]] \intersect s[m[g][p]] = {}
      BY <2>0, <3>2 DEF Single
    <3> QED
      BY <3>1, <3>3
  <2>3. m2[g][a] # N + n
    BY <2>0, <2>1, SMTT(30)
  <2> QED
    BY <2>0, <2>1, <2>2, <2>3
<1>6. CASE o[i] > 0 /\ q[j] > 0
  <2>1. k # h \/ o[i] # q[j]
    BY <1>1, <1>2 DEF Origin
  <2>2. OldAt(m, m2, l, plan, N, s, s2, k, i, o[i])
    BY <1>1, <1>3, <1>6
  <2>3. OldAt(m, m2, l, plan, N, s, s2, h, j, q[j])
    BY <1>2, <1>3, <1>6
  <2>4. PICK a, b : a = o[i] /\ b = q[j]
    OBVIOUS
  <2>5. /\ k \in DOMAIN m /\ a \in DOMAIN m[k]
        /\ m2[k][i] = m[k][a] /\ s2[m2[k][i]] = s[m[k][a]]
    BY <2>2, <2>4 DEF OldAt
  <2>6. /\ h \in DOMAIN m /\ b \in DOMAIN m[h]
        /\ m2[h][j] = m[h][b] /\ s2[m2[h][j]] = s[m[h][b]]
    BY <2>3, <2>4 DEF OldAt
  <2>7. m[k][a] # m[h][b] /\ s[m[k][a]] \intersect s[m[h][b]] = {}
    <3>1. k # h \/ a # b
      BY <2>1, <2>4
    <3> QED
      BY <3>1, <2>5, <2>6, Zenon DEF Single
  <2> QED
    BY <2>5, <2>6, <2>7
<1>7. CASE o[i] > 0 /\ ~ (q[j] > 0)
  <2>1. OldAt(m, m2, l, plan, N, s, s2, k, i, o[i])
    BY <1>1, <1>3, <1>7
  <2>2. NewAt(m2, l, N, w, h, j, -q[j])
    BY <1>2, <1>4, <1>7
  <2>3. PICK p, n : /\ OldAt(m, m2, l, plan, N, s, s2, k, i, p)
                    /\ NewAt(m2, l, N, w, h, j, n)
    BY <2>1, <2>2
  <2> QED
    BY <1>5, <2>3, ZenonT(30)
<1>8. CASE ~ (o[i] > 0) /\ q[j] > 0
  <2>1. OldAt(m, m2, l, plan, N, s, s2, h, j, q[j])
    BY <1>2, <1>3, <1>8
  <2>2. NewAt(m2, l, N, w, k, i, -o[i])
    BY <1>1, <1>4, <1>8
  <2>3. PICK p, n : /\ OldAt(m, m2, l, plan, N, s, s2, h, j, p)
                    /\ NewAt(m2, l, N, w, k, i, n)
    BY <2>1, <2>2
  <2>4. /\ m2[h][j] # m2[k][i]
        /\ s2[m2[h][j]] \intersect s2[m2[k][i]] = {}
    BY <1>5, <2>3, ZenonT(30)
  <2> QED
    BY <2>4
<1>9. CASE ~ (o[i] > 0) /\ ~ (q[j] > 0)
  <2>1. NewAt(m2, l, N, w, k, i, -o[i])
    BY <1>1, <1>4, <1>9
  <2>2. NewAt(m2, l, N, w, h, j, -q[j])
    BY <1>2, <1>4, <1>9
  <2>3. k = h /\ i # j /\ q = o
    BY <2>1, <2>2, <1>2 DEF NewAt
  <2>4. o[i] # o[j] /\ o[i] \in Int /\ o[j] \in Int
    BY <2>3, <1>1 DEF Origin
  <2>5. PICK n \in 1..w, p \in 1..w : n = -o[i] /\ p = -o[j]
    BY <2>1, <2>2, <2>3 DEF NewAt
  <2>6. n # p /\ m2[k][i] = N + n /\ m2[h][j] = N + p
    <3>1. n # p
      <4>1. PICK x \in Int, y \in Int : x = o[i] /\ y = o[j] /\ x # y
        BY <2>4
      <4>2. n = -x /\ p = -y
        BY <2>5, <4>1
      <4>3. \A a, b \in Int : -a = -b => a = b
        BY MinusInjective
      <4> QED
        BY <4>1, <4>2, <4>3, Zenon
    <3>2. m2[k][i] = N + n
      BY <2>1, <2>5 DEF NewAt
    <3>3. m2[h][j] = N + p
      BY <2>2, <2>3, <2>5 DEF NewAt
    <3> QED
      BY <3>1, <3>2, <3>3
  <2>7. s2[N + n] \intersect s2[N + p] = {} /\ N + n # N + p
    <3>1. s2[N + n] \intersect s2[N + p] = {}
      BY <2>6, Zenon DEF Deals
    <3>2. N + n # N + p
      BY <2>6
    <3> QED
      BY <3>1, <3>2
  <2> QED
    BY <2>6, <2>7
<1> QED
  BY <1>6, <1>7, <1>8, <1>9

-----------------------------------------------------------------------------
(* CompactSST.                                                             *)
LEMMA PlanPositions ==
    ASSUME NEW T, NEW m \in Seq(Seq(T)), NEW l \in DOMAIN m,
           NEW chosen, chosen \subseteq DOMAIN m[l]
    PROVE  PlanOK(m, l, Plan(m, l, chosen))
<1> DEFINE lo == Smallest(EntriesOf(m[l], chosen))
           hi == Largest(EntriesOf(m[l], chosen))
           next == Level(m, l + 1)
           plan == Plan(m, l, chosen)
<1>1. plan.current = Current(m, l, chosen, lo, hi) /\ plan.next = NextFiles(next, lo, hi)
      /\ plan.insert = InsertFrom(next, lo, hi)
  BY DEF Plan
<1>2. l + 1 \in Nat \ {0}
  BY LenProperties
<1>3. Len(next) \in Nat /\ DOMAIN next = 1..Len(next)
  BY <1>2, LevelType
<1> HIDE DEF lo, hi, next, plan
<1>4. plan.current \subseteq DOMAIN m[l]
  BY <1>1 DEF Current
<1>5. NextFiles(next, lo, hi) \subseteq DOMAIN next
  BY DEF NextFiles, Scanned
<1>6. InsertFrom(next, lo, hi) \in 0..Len(next)
  <2>1. CASE NextFiles(next, lo, hi) # {}
    <3>1. NextFiles(next, lo, hi) \in SUBSET Nat
      BY <1>3, <1>5
    <3>2. Min(NextFiles(next, lo, hi)) \in NextFiles(next, lo, hi)
      BY <2>1, <3>1, MinProperties
    <3>3. PICK x \in 1..Len(next) : x = Min(NextFiles(next, lo, hi))
      BY <3>2, <1>3, <1>5
    <3>4. InsertFrom(next, lo, hi) = x - 1
      BY <2>1, <3>3 DEF InsertFrom
    <3> QED
      BY <3>3, <3>4, <1>3
  <2>2. CASE NextFiles(next, lo, hi) = {}
    <3>1. InsertFrom(next, lo, hi) \in {0, Len(next)}
      BY <2>2 DEF InsertFrom
    <3> QED
      BY <3>1, <1>3
  <2> QED
    BY <2>1, <2>2
<1> QED
  BY <1>1, <1>4, <1>5, <1>6 DEF PlanOK, plan, next

(* The entries that are merged come from files that UpdateManifest takes   *)
(* out.                                                                    *)
LEMMA MergedEntries ==
    ASSUME NEW N, NEW m \in Seq(Seq(1..N)), NEW l \in DOMAIN m, NEW plan, PlanOK(m, l, plan),
           NEW e \in EntriesOf(m[l], plan.current)
                     \union EntriesOf(Level(m, l + 1), plan.next)
    PROVE  \E k \in DOMAIN m : \E p \in DOMAIN m[k] :
               Took(l, plan, k, p) /\ e \in sst[m[k][p]]
<1>1. CASE e \in EntriesOf(m[l], plan.current)
  <2>1. PICK p \in plan.current : e \in sst[m[l][p]]
    BY <1>1 DEF EntriesOf
  <2>2. p \in DOMAIN m[l] /\ Took(l, plan, l, p)
    BY DEF PlanOK, Took
  <2> QED
    BY <2>1, <2>2
<1>2. CASE e \in EntriesOf(Level(m, l + 1), plan.next)
  <2>1. PICK p \in plan.next : e \in sst[Level(m, l + 1)[p]]
    BY <1>2 DEF EntriesOf
  <2>2. p \in DOMAIN Level(m, l + 1) /\ Took(l, plan, l + 1, p)
    BY DEF PlanOK, Took
  <2>3. l + 1 \in Nat \ {0}
    BY LenProperties
  <2>4. l + 1 \in DOMAIN m /\ Level(m, l + 1) = m[l + 1]
    <3>1. l + 1 \notin DOMAIN m => Level(m, l + 1) = <<>>
      BY <2>3, LevelType
    <3>2. Level(m, l + 1) # <<>>
      BY <2>2
    <3>3. l + 1 \in DOMAIN m
      BY <3>1, <3>2
    <3> QED
      BY <3>3, <2>3, LevelType
  <2> QED
    BY <2>1, <2>2, <2>4
<1> QED
  BY <1>1, <1>2

(* CompactSST keeps all of the invariant that does not depend on the stage *)
(* of the background task.                                                 *)
LEMMA CompactStep ==
    ASSUME Parts, NEW l \in DOMAIN manifest,
           NEW chosen, chosen \subseteq DOMAIN manifest[l],
           CompactSST(l, chosen),
           UNCHANGED <<mem_table_, immutable, entry_id_, version>>
    PROVE  Parts' /\ OthersKept(manifest, manifest', l)
<1>1. PICK N \in Nat : N = Len(sst) /\ DOMAIN sst = 1..N
  BY LenProperties DEF Parts, Typed
<1>2. /\ sst \in Seq(SUBSET Entry) /\ entry_id_ \in Nat
      /\ manifest \in Seq(Seq(1..N)) /\ version \in Seq(Seq(1..N))
  BY <1>1 DEF Parts, Typed
<1>3. PICK plan : plan = Plan(manifest, l, chosen)
  OBVIOUS
<1>4. PlanOK(manifest, l, plan)
  BY <1>2, <1>3, PlanPositions
<1>5. PICK S : S = EntriesOf(manifest[l], plan.current)
                   \union EntriesOf(Level(manifest, l + 1), plan.next)
  OBVIOUS
<1>6. ASSUME NEW e \in S
      PROVE  \E k \in DOMAIN manifest : \E p \in DOMAIN manifest[k] :
                Took(l, plan, k, p) /\ e \in sst[manifest[k][p]]
  BY <1>2, <1>4, <1>5, MergedEntries
<1>7. ASSUME NEW e \in S
      PROVE  \E f \in 1..N : e \in sst[f]
  <2>1. PICK k \in DOMAIN manifest : \E p \in DOMAIN manifest[k] : e \in sst[manifest[k][p]]
    BY <1>6
  <2>2. PICK p \in DOMAIN manifest[k] : e \in sst[manifest[k][p]]
    BY <2>1
  <2>3. manifest[k] \in Seq(1..N)
    BY <1>2, LenProperties
  <2>4. manifest[k][p] \in 1..N
    BY <2>3, LenProperties
  <2> QED
    BY <2>2, <2>4
<1>8. S \subseteq Held
  BY <1>1, <1>7 DEF Held
<1>9. IsFiniteSet(S)
  BY <1>8, FS_Subset DEF Parts, Fresh
<1>10. PICK merged : merged = Merge(S, FileLimit)
  OBVIOUS
<1>11. /\ merged \in Seq(SUBSET S)
       /\ \A n, p \in DOMAIN merged : n # p => merged[n] \intersect merged[p] = {}
  BY <1>9, <1>10, MergeProperties, LSMAssumption
<1>12. PICK w \in Nat : w = Len(merged) /\ DOMAIN merged = 1..w
  BY <1>11, LenProperties
<1>13. sst' = sst \o merged
  BY <1>3, <1>5, <1>10 DEF CompactSST
<1>14. manifest' = UpdateManifest(manifest, l, plan, [n \in 1..w |-> N + n])
  BY <1>1, <1>3, <1>5, <1>10, <1>12 DEF CompactSST
<1>15. S \subseteq Entry
  BY <1>8 DEF Parts, Fresh
<1>16. /\ sst' \in Seq(SUBSET Entry) /\ Len(sst') = N + w
       /\ \A f \in 1..N : sst'[f] = sst[f]
       /\ \A n \in 1..w : sst'[N + n] = merged[n]
  <2>1. merged \in Seq(SUBSET Entry)
    <3>1. SUBSET S \subseteq SUBSET Entry
      BY <1>15
    <3> QED
      BY <1>11, <3>1, SeqMonotonic
  <2>2. /\ sst \o merged \in Seq(SUBSET Entry)
        /\ Len(sst \o merged) = Len(sst) + Len(merged)
        /\ \A i \in 1..(Len(sst) + Len(merged)) :
              (sst \o merged)[i] = IF i <= Len(sst) THEN sst[i] ELSE merged[i - Len(sst)]
    BY <1>2, <2>1, ConcatProperties
  <2>3. PICK s2 : s2 = sst \o merged
    OBVIOUS
  <2>4. \A i \in 1..(N + w) : s2[i] = IF i <= N THEN sst[i] ELSE merged[i - N]
    BY <2>2, <2>3, <1>1, <1>12
  <2>5. \A f \in 1..N : s2[f] = sst[f]
    BY <2>4
  <2>6. \A n \in 1..w : s2[N + n] = merged[n]
    <3> TAKE n \in 1..w
    <3>1. N + n \in 1..(N + w) /\ ~ (N + n <= N) /\ N + n - N = n
      OBVIOUS
    <3> QED
      BY <2>4, <3>1
  <2> QED
    BY <1>1, <1>12, <1>13, <2>2, <2>3, <2>5, <2>6
<1>17. \A n \in 1..w : merged[n] \subseteq S
  BY <1>11, <1>12, LenProperties
<1>18. Deals(manifest, l, plan, N, w, sst, sst')
  <2>1. \A n \in 1..w : \A e \in sst'[N + n] : e \in S
    BY <1>16, <1>17
  <2>2. \A n, p \in 1..w : n # p => sst'[N + n] \intersect sst'[N + p] = {}
    BY <1>11, <1>12, <1>16, SMTT(30)
  <2> QED
    BY <2>1, <2>2, <1>6, <1>16 DEF Deals
<1>19. Single(manifest', sst')
  BY <1>2, <1>4, <1>14, <1>18, CompactSingle DEF Parts
<1>20. manifest' \in Seq(Seq(1..(N + w))) /\ OthersKept(manifest, manifest', l)
  BY <1>2, <1>4, <1>14, UpdateOrigin
<1>21. version' \in Seq(Seq(1..(N + w))) /\ Single(version', sst')
  <2>1. 1..N \subseteq 1..(N + w)
    OBVIOUS
  <2>2. Seq(1..N) \subseteq Seq(1..(N + w))
    BY <2>1, SeqMonotonic
  <2>3. version \in Seq(Seq(1..(N + w)))
    BY <1>2, <2>2, SeqMonotonic
  <2>4. Single(version, sst')
    BY <1>2, <1>16, SingleKept DEF Parts
  <2> QED
    BY <2>3, <2>4
<1>22. Typed'
  BY <1>2, <1>16, <1>20, <1>21 DEF Typed
<1>23. ASSUME NEW f \in DOMAIN sst'
       PROVE  \A e \in sst'[f] : \E g \in DOMAIN sst : e \in sst[g]
  <2>1. f \in 1..(N + w)
    BY <1>16, LenProperties
  <2>2. CASE f <= N
    BY <1>1, <1>16, <2>1, <2>2
  <2>3. CASE ~ (f <= N)
    <3>1. PICK n \in 1..w : f = N + n
      <4>1. f - N \in 1..w /\ f = N + (f - N)
        BY <2>1, <2>3
      <4> QED
        BY <4>1
    <3>2. sst'[f] \subseteq S
      BY <3>1, <1>16, <1>17
    <3> QED
      BY <3>2, <1>1, <1>7
  <2> QED
    BY <2>2, <2>3
<1>24. Held' \subseteq Held
  BY <1>23 DEF Held
<1>25. Fresh'
  <2>1. IsFiniteSet(Held')
    BY <1>24, FS_Subset DEF Parts, Fresh
  <2> QED
    BY <1>24, <2>1 DEF Parts, Fresh
<1>26. Apart'
  BY <1>23 DEF Parts, Apart
<1> QED
  BY <1>19, <1>20, <1>21, <1>22, <1>25, <1>26 DEF Parts

-----------------------------------------------------------------------------
(* The steps.                                                              *)
LEMMA InitInv == Init => LSMInv
<1> SUFFICES ASSUME Init PROVE LSMInv
  OBVIOUS
<1>1. Typed
  BY EmptySeq DEF Init, Typed
<1>2. Held = {}
  BY DEF Init, Held
<1>3. Fresh /\ Apart
  BY <1>2, FS_EmptySet DEF Init, Fresh, Apart
<1>4. Single(manifest, sst) /\ Single(version, sst)
  BY DEF Init, Single
<1>5. Bounded
  BY DEF Init, Bounded
<1> QED
  BY <1>1, <1>3, <1>4, <1>5 DEF LSMInv, Parts

(* kDefaultLevelSize: at least one level, and every limit positive.        *)
LEMMA Limits ==
    /\ Len(LevelLimit) \in Nat /\ DOMAIN LevelLimit = 1..Len(LevelLimit)
    /\ 1 \in DOMAIN LevelLimit
    /\ \A l \in DOMAIN LevelLimit : LevelLimit[l] \in Nat \ {0}
<1>1. LevelLimit \in Seq(Nat \ {0}) /\ LevelLimit # <<>>
  BY LSMAssumption
<1>2. /\ Len(LevelLimit) \in Nat \ {0} /\ DOMAIN LevelLimit = 1..Len(LevelLimit)
      /\ \A l \in DOMAIN LevelLimit : LevelLimit[l] \in Nat \ {0}
  BY <1>1, LenProperties, EmptySeq
<1> QED
  BY <1>2

(* What a client adds has an id that nothing else has.                     *)
LEMMA PutStep ==
    ASSUME Parts, NEW k \in Keys, NEW op \in Op, NEW table, Put(k, op, table),
           \/ table = mem_table_ /\ immutable' = immutable
           \/ table = {} /\ immutable' = mem_table_,
           UNCHANGED <<sst, version, manifest>>
    PROVE  Parts'
<1>1. PICK e : e = [key |-> k, id |-> entry_id_, op |-> op]
  OBVIOUS
<1>2. mem_table_' = table \union {e} /\ entry_id_' = entry_id_ + 1
  BY <1>1 DEF Put
<1>3. entry_id_ \in Nat
  BY DEF Parts, Typed
<1>4. e \in Entry /\ e.id = entry_id_
  BY <1>1, <1>3 DEF Entry
<1>5. e \notin Held
  BY <1>3, <1>4 DEF Parts, Fresh
<1>6. Held' \subseteq Held \union {e}
  BY <1>2 DEF Held
<1>7. Typed'
  BY <1>2, <1>3 DEF Parts, Typed
<1>8. Fresh'
  <2>1. IsFiniteSet(Held \union {e})
    BY FS_AddElement DEF Parts, Fresh
  <2>2. IsFiniteSet(Held')
    BY <1>6, <2>1, FS_Subset
  <2>3. ASSUME NEW d \in Held'
        PROVE  d \in Entry /\ d.id < entry_id_'
    <3>1. CASE d = e
      BY <3>1, <1>2, <1>3, <1>4
    <3>2. CASE d \in Held
      <4>1. d \in Entry /\ d.id < entry_id_
        BY <3>2 DEF Parts, Fresh
      <4>2. d.id \in Nat
        BY <4>1 DEF Entry
      <4> QED
        BY <4>1, <4>2, <1>2, <1>3
    <3> QED
      BY <1>6, <3>1, <3>2
  <2> QED
    BY <2>2, <2>3 DEF Fresh
<1>9. Apart'
  <2>1. e \notin mem_table_ /\ e \notin immutable /\ \A f \in DOMAIN sst : e \notin sst[f]
    BY <1>5 DEF Held
  <2> QED
    BY <1>2, <2>1 DEF Parts, Apart
<1> QED
  BY <1>7, <1>8, <1>9 DEF Parts

(* Insert, with or without a flush, and Delete.                            *)
LEMMA ClientInv ==
    ASSUME LSMInv, NEW k \in Keys, Insert(k) \/ InsertAndFlush(k) \/ Delete(k)
    PROVE  LSMInv'
<1>1. Parts /\ Bounded
  BY DEF LSMInv
<1>2. "kInsert" \in Op /\ "kDelete" \in Op
  BY DEF Op
<1>3. CASE Insert(k)
  <2>1. Parts'
    BY <1>1, <1>2, <1>3, PutStep DEF Insert
  <2>2. Bounded'
    BY <1>1, <1>3 DEF Insert, Bounded, Below
  <2> QED
    BY <2>1, <2>2 DEF LSMInv
<1>4. CASE InsertAndFlush(k)
  <2>1. Parts'
    BY <1>1, <1>2, <1>4, PutStep DEF InsertAndFlush
  <2>2. Bounded'
    BY <1>1, <1>4 DEF InsertAndFlush, Bounded
  <2> QED
    BY <2>1, <2>2 DEF LSMInv
<1>5. CASE Delete(k)
  <2>1. Parts'
    BY <1>1, <1>2, <1>5, PutStep DEF Delete
  <2>2. Bounded'
    BY <1>1, <1>5 DEF Delete, Bounded, Below
  <2> QED
    BY <2>1, <2>2 DEF LSMInv
<1> QED
  BY <1>3, <1>4, <1>5

(* The lengths of a manifest and of its levels.                            *)
LEMMA LevelLengths ==
    ASSUME NEW N, NEW m \in Seq(Seq(1..N))
    PROVE  /\ Len(m) \in Nat /\ DOMAIN m = 1..Len(m)
           /\ m # <<>> => 1 \in DOMAIN m
           /\ \A l \in DOMAIN m : Len(m[l]) \in Nat /\ DOMAIN m[l] = 1..Len(m[l])
<1>1. Len(m) \in Nat /\ DOMAIN m = 1..Len(m) /\ \A l \in DOMAIN m : m[l] \in Seq(1..N)
  BY LenProperties
<1>2. m # <<>> => Len(m) # 0
  BY <1>1, EmptySeq
<1>3. \A l \in DOMAIN m : Len(m[l]) \in Nat /\ DOMAIN m[l] = 1..Len(m[l])
  BY <1>1, LenProperties
<1> QED
  BY <1>1, <1>2, <1>3

(* The task begins with the latest version; without compaction level 0 has *)
(* room.                                                                   *)
LEMMA FlushBeginInv == ASSUME LSMInv, FlushBegin PROVE LSMInv'
<1>1. Parts /\ Bounded
  BY DEF LSMInv
<1>2. /\ manifest' = version /\ lvl' = 1
      /\ UNCHANGED <<mem_table_, entry_id_, immutable, sst, version>>
      /\ bg' = IF version # <<>> /\ Len(version[1]) >= LevelLimit[1]
               THEN "first" ELSE "write"
  BY DEF FlushBegin, clientvars
<1>3. Parts'
  BY <1>1, <1>2 DEF Parts, Typed, Fresh, Apart, Held
<1>4. /\ Len(version) \in Nat /\ DOMAIN version = 1..Len(version)
      /\ version # <<>> => 1 \in DOMAIN version
      /\ \A l \in DOMAIN version : Len(version[l]) \in Nat
  BY <1>1, LevelLengths DEF Parts, Typed
<1>5. ASSUME bg' = "write", NEW l \in DOMAIN version
      PROVE  Below(version, l)
  <2>1. l \in DOMAIN LevelLimit /\ Len(version[l]) < LevelLimit[l] + (IF l = 1 THEN 1 ELSE 0)
    BY <1>1 DEF Bounded
  <2>2. LevelLimit[l] \in Nat /\ Len(version[l]) \in Nat
    BY <2>1, <1>4, Limits
  <2>3. CASE l = 1
    <3>1. version # <<>>
      OBVIOUS
    <3>2. ~ (Len(version[1]) >= LevelLimit[1])
      BY <1>2, <1>5, <3>1
    <3> QED
      BY <2>1, <2>2, <2>3, <3>2 DEF Below
  <2>4. CASE l # 1
    BY <2>1, <2>2, <2>4 DEF Below
  <2> QED
    BY <2>3, <2>4
<1>6. Bounded'
  <2>1. \A l \in DOMAIN version' :
          /\ l \in DOMAIN LevelLimit
          /\ Len(version'[l]) < LevelLimit[l] + (IF l = 1 THEN 1 ELSE 0)
    BY <1>1, <1>2 DEF Bounded
  <2>2. bg' = "first" =>
          lvl' = 1 /\ manifest' # <<>> /\ Len(manifest'[1]) >= LevelLimit[1]
    BY <1>2
  <2>3. bg' # "level"
    BY <1>2
  <2>4. bg' = "write" => \A l \in DOMAIN manifest' : Below(manifest', l)
    BY <1>2, <1>5
  <2> QED
    BY <2>1, <2>2, <2>3, <2>4 DEF Bounded, Below
<1> QED
  BY <1>3, <1>6 DEF LSMInv

(* The first compaction, of the oldest file of level 0.                    *)
LEMMA CompactFirstInv == ASSUME LSMInv, CompactFirst PROVE LSMInv'
<1>1. Parts /\ Bounded
  BY DEF LSMInv
<1>2. /\ bg = "first" /\ bg' = "level" /\ CompactSST(1, {1})
      /\ UNCHANGED <<mem_table_, entry_id_, immutable, version, lvl>>
  BY DEF CompactFirst, clientvars
<1>3. lvl = 1 /\ manifest # <<>> /\ Len(manifest[1]) >= LevelLimit[1]
  BY <1>1, <1>2 DEF Bounded
<1>4. /\ 1 \in DOMAIN manifest /\ Len(manifest[1]) \in Nat
      /\ DOMAIN manifest[1] = 1..Len(manifest[1])
      /\ Len(manifest) \in Nat
  BY <1>1, <1>3, LevelLengths DEF Parts, Typed
<1>5. {1} \subseteq DOMAIN manifest[1]
  <2>1. LevelLimit[1] \in Nat \ {0}
    BY Limits
  <2> QED
    BY <1>3, <1>4, <2>1
<1>6. Parts' /\ OthersKept(manifest, manifest', 1)
  BY <1>1, <1>2, <1>4, <1>5, CompactStep
<1>7. Len(manifest') \in Nat
  BY <1>6, LevelLengths DEF Parts, Typed
<1>8. lvl' = 1 /\ 1 \in 1..Len(manifest')
  BY <1>2, <1>3, <1>6, <1>7 DEF OthersKept
<1>9. 1..(lvl' - 1) = {}
  BY <1>8
<1>10. Bounded'
  BY <1>1, <1>2, <1>8, <1>9 DEF Bounded
<1> QED
  BY <1>6, <1>10 DEF LSMInv

(* A compaction leaves the levels before it below their limits.            *)
LEMMA CompactLevelInv == ASSUME LSMInv, CompactLevel PROVE LSMInv'
<1>1. Parts /\ Bounded
  BY DEF LSMInv
<1>2. /\ bg = "level" /\ bg' = "level" /\ HasLimit /\ TooMany /\ CompactSST(lvl, Exceed)
      /\ UNCHANGED <<mem_table_, entry_id_, immutable, version, lvl>>
  BY DEF CompactLevel, clientvars
<1>3. lvl \in 1..Len(manifest) /\ \A l \in 1..(lvl - 1) : Below(manifest, l)
  BY <1>1, <1>2 DEF Bounded
<1>4. /\ Len(manifest) \in Nat /\ DOMAIN manifest = 1..Len(manifest)
      /\ \A l \in DOMAIN manifest :
            Len(manifest[l]) \in Nat /\ DOMAIN manifest[l] = 1..Len(manifest[l])
  BY <1>1, LevelLengths DEF Parts, Typed
<1>5. lvl \in DOMAIN manifest
  BY <1>3, <1>4
<1>6. Exceed \subseteq DOMAIN manifest[lvl]
  <2>1. LevelLimit[lvl] \in Nat \ {0}
    BY <1>2, Limits DEF HasLimit
  <2>2. Len(manifest[lvl]) \in Nat /\ DOMAIN manifest[lvl] = 1..Len(manifest[lvl])
    BY <1>4, <1>5
  <2> QED
    BY <2>1, <2>2 DEF Exceed
<1>7. Parts' /\ OthersKept(manifest, manifest', lvl)
  BY <1>1, <1>2, <1>5, <1>6, CompactStep
<1>8. Len(manifest') \in Nat /\ DOMAIN manifest' = 1..Len(manifest')
  BY <1>7, LevelLengths DEF Parts, Typed
<1>9. lvl' = lvl /\ lvl \in 1..Len(manifest')
  BY <1>2, <1>3, <1>4, <1>7, <1>8 DEF OthersKept
<1>10. ASSUME NEW l \in 1..(lvl - 1)
       PROVE  Below(manifest', l)
  <2>1. l \in DOMAIN manifest' /\ l \notin {lvl, lvl + 1}
    BY <1>3, <1>4, <1>8, <1>9
  <2>2. manifest'[l] = manifest[l]
    BY <2>1, <1>7 DEF OthersKept
  <2>3. Below(manifest, l)
    BY <1>3
  <2> QED
    BY <2>2, <2>3 DEF Below
<1>11. Bounded'
  <2>1. \A l \in DOMAIN version' :
          /\ l \in DOMAIN LevelLimit
          /\ Len(version'[l]) < LevelLimit[l] + (IF l = 1 THEN 1 ELSE 0)
    BY <1>1, <1>2 DEF Bounded
  <2>2. lvl' \in 1..Len(manifest') /\ \A l \in 1..(lvl' - 1) : Below(manifest', l)
    BY <1>9, <1>10
  <2>3. bg' # "first" /\ bg' # "write"
    BY <1>2
  <2> QED
    BY <2>1, <2>2, <2>3 DEF Bounded, Below
<1> QED
  BY <1>7, <1>11 DEF LSMInv

(* The loop goes on from a level that is below its limit.                  *)
LEMMA NextLevelInv == ASSUME LSMInv, NextLevel PROVE LSMInv'
<1>1. Parts /\ Bounded
  BY DEF LSMInv
<1>2. /\ bg = "level" /\ HasLimit /\ ~ TooMany
      /\ lvl' = (IF lvl < Len(manifest) THEN lvl + 1 ELSE lvl)
      /\ bg' = (IF lvl < Len(manifest) THEN "level" ELSE "write")
      /\ UNCHANGED <<mem_table_, entry_id_, immutable, sst, version, manifest>>
  BY DEF NextLevel, clientvars
<1>3. Parts'
  BY <1>1, <1>2 DEF Parts, Typed, Fresh, Apart, Held
<1>4. lvl \in 1..Len(manifest) /\ \A l \in 1..(lvl - 1) : Below(manifest, l)
  BY <1>1, <1>2 DEF Bounded
<1>5. /\ Len(manifest) \in Nat /\ DOMAIN manifest = 1..Len(manifest)
      /\ \A l \in DOMAIN manifest : Len(manifest[l]) \in Nat
  BY <1>1, LevelLengths DEF Parts, Typed
<1>6. Below(manifest, lvl)
  <2>1. lvl \in DOMAIN LevelLimit /\ LevelLimit[lvl] \in Nat
    BY <1>2, Limits DEF HasLimit
  <2>2. Len(manifest[lvl]) \in Nat /\ lvl <= Len(manifest)
    BY <1>4, <1>5
  <2>3. ~ (Len(manifest[lvl]) >= LevelLimit[lvl])
    BY <1>2, <2>2 DEF TooMany
  <2> QED
    BY <2>1, <2>2, <2>3 DEF Below
<1>7. \A l \in 1..lvl : Below(manifest, l)
  <2> SUFFICES ASSUME NEW l \in 1..lvl
               PROVE  Below(manifest, l)
    OBVIOUS
  <2>1. l = lvl \/ l \in 1..(lvl - 1)
    BY <1>4, <1>5
  <2> QED
    BY <2>1, <1>4, <1>6
<1>8. \A l \in DOMAIN version' :
          /\ l \in DOMAIN LevelLimit
          /\ Len(version'[l]) < LevelLimit[l] + (IF l = 1 THEN 1 ELSE 0)
  BY <1>1, <1>2 DEF Bounded
<1>9. CASE lvl < Len(manifest)
  <2>1. bg' = "level" /\ lvl' = lvl + 1 /\ lvl' \in 1..Len(manifest) /\ lvl' - 1 = lvl
    BY <1>2, <1>4, <1>5, <1>9
  <2> QED
    BY <1>2, <1>3, <1>7, <1>8, <2>1 DEF LSMInv, Bounded, Below
<1>10. CASE ~ (lvl < Len(manifest))
  <2>0. lvl = Len(manifest)
    <3>1. PICK n \in Nat : n = Len(manifest)
      BY <1>5
    <3>2. lvl \in 1..n /\ ~ (lvl < n)
      BY <3>1, <1>4, <1>10
    <3>3. lvl = n
      BY <3>2
    <3> QED
      BY <3>1, <3>3
  <2>1. bg' = "write" /\ lvl = Len(manifest)
    BY <1>2, <1>10, <2>0
  <2>2. \A l \in DOMAIN manifest : Below(manifest, l)
    BY <1>5, <1>7, <2>1
  <2> QED
    BY <1>2, <1>3, <1>8, <2>1, <2>2 DEF LSMInv, Bounded, Below
<1> QED
  BY <1>9, <1>10

(* WriteLevel0File puts its file behind the others of level 0.             *)
Pushed(m, m2, f) ==
    /\ \A k \in DOMAIN m2 : \A i \in DOMAIN m2[k] :
          \/ k \in DOMAIN m /\ i \in DOMAIN m[k] /\ m2[k][i] = m[k][i]
          \/ k = 1 /\ i = Len(m2[1]) /\ m2[k][i] = f
    /\ \A k \in DOMAIN m2 : k # 1 => k \in DOMAIN m /\ m2[k] = m[k]
    /\ Len(m2[1]) = 1 \/ (1 \in DOMAIN m /\ Len(m2[1]) = Len(m[1]) + 1)

(* The manifest with the file of the flushed table.                        *)
LEMMA PushProperties ==
    ASSUME NEW N \in Nat, manifest \in Seq(Seq(1..N)), NEW f, f = N + 1,
           NEW m2, m2 = Level0Push(f)
    PROVE  m2 \in Seq(Seq(1..(N + 1))) /\ Pushed(manifest, m2, f)
<1>0. f \in 1..(N + 1)
  OBVIOUS
<1>1. CASE manifest = <<>>
  <2>1. m2 = <<<<f>>>>
    BY <1>1 DEF Level0Push
  <2>2. /\ <<f>> \in Seq(1..(N + 1)) /\ Len(<<f>>) = 1 /\ DOMAIN <<f>> = {1} /\ <<f>>[1] = f
    BY <1>0
  <2>3. PICK x, U : x = <<f>> /\ U = Seq(1..(N + 1))
    OBVIOUS
  <2>4. m2 = <<x>> /\ x \in U
    BY <2>1, <2>2, <2>3
  <2>5. m2 \in Seq(U) /\ DOMAIN m2 = {1} /\ m2[1] = x
    <3>1. <<x>> \in Seq(U)
      BY <2>4
    <3>2. DOMAIN <<x>> = {1} /\ <<x>>[1] = x
      OBVIOUS
    <3> QED
      BY <2>4, <3>1, <3>2, Zenon
  <2> QED
    BY <2>2, <2>3, <2>5, ZenonT(30) DEF Pushed
<1>2. CASE manifest # <<>>
  <2>1. m2 = [manifest EXCEPT ![1] = Append(@, f)]
    BY <1>2 DEF Level0Push
  <2>2. 1 \in DOMAIN manifest /\ DOMAIN manifest = 1..Len(manifest)
    BY <1>2, LevelLengths
  <2>3. PICK a \in Seq(1..N) : a = manifest[1]
    BY <2>2, LenProperties
  <2>4. PICK n \in Nat : n = Len(a) /\ DOMAIN a = 1..n
    BY <2>3, LenProperties
  <2>5. PICK b : b = Append(a, f)
    OBVIOUS
  <2>6. 1..N \subseteq 1..(N + 1)
    OBVIOUS
  <2>7. a \in Seq(1..(N + 1))
    BY <2>6, SeqMonotonic
  <2>8. /\ b \in Seq(1..(N + 1)) /\ Len(b) = n + 1 /\ DOMAIN b = 1..(n + 1)
        /\ b[n + 1] = f /\ \A i \in 1..n : b[i] = a[i]
    BY <1>0, <2>4, <2>5, <2>7, AppendProperties, LenProperties
  <2>9. Seq(1..N) \subseteq Seq(1..(N + 1))
    BY <2>6, SeqMonotonic
  <2>10. PICK U : U = Seq(1..(N + 1))
    OBVIOUS
  <2>11. manifest \in Seq(U) /\ b \in U
    BY <2>8, <2>9, <2>10, SeqMonotonic
  <2>12. m2 = [manifest EXCEPT ![1] = b]
    BY <2>1, <2>3, <2>5
  <2>13. m2 \in Seq(U)
    <3>1. Len(manifest) \in Nat /\ manifest \in [1..Len(manifest) -> U]
      BY <2>11, LenProperties
    <3>2. m2 \in [1..Len(manifest) -> U]
      BY <2>11, <2>12, <3>1
    <3> QED
      BY <3>1, <3>2, FcnIsSeq
  <2>14. /\ DOMAIN m2 = DOMAIN manifest /\ m2[1] = b
         /\ \A k \in DOMAIN manifest : k # 1 => m2[k] = manifest[k]
    BY <2>2, <2>12
  <2>15. ASSUME NEW k \in DOMAIN m2, NEW i \in DOMAIN m2[k]
         PROVE  \/ k \in DOMAIN manifest /\ i \in DOMAIN manifest[k]
                     /\ m2[k][i] = manifest[k][i]
                \/ k = 1 /\ i = Len(m2[1]) /\ m2[k][i] = f
    <3>1. CASE k # 1
      BY <3>1, <2>14
    <3>2. CASE k = 1
      <4>1. i \in 1..(n + 1)
        BY <3>2, <2>8, <2>14
      <4>2. CASE i = n + 1
        BY <3>2, <4>2, <2>8, <2>14
      <4>3. CASE i # n + 1
        <5>1. i \in 1..n
          BY <4>1, <4>3
        <5> QED
          BY <3>2, <5>1, <2>2, <2>3, <2>4, <2>8, <2>14
      <4> QED
        BY <4>2, <4>3
    <3> QED
      BY <3>1, <3>2
  <2>16. 1 \in DOMAIN manifest /\ Len(m2[1]) = Len(manifest[1]) + 1
    BY <2>2, <2>3, <2>4, <2>8, <2>14
  <2> QED
    BY <2>10, <2>13, <2>14, <2>15, <2>16 DEF Pushed
<1> QED
  BY <1>1, <1>2

(* The flushed table becomes a file that shares no entry with the others.  *)
LEMMA WriteLevel0Inv == ASSUME LSMInv, WriteLevel0 PROVE LSMInv'
<1>1. Parts /\ Bounded
  BY DEF LSMInv
<1>2. /\ bg = "write" /\ bg' = "idle" /\ immutable' = {}
      /\ sst' = Append(sst, immutable)
      /\ manifest' = Level0Push(Len(sst) + 1) /\ version' = manifest'
      /\ mem_table_' = mem_table_ /\ entry_id_' = entry_id_
  BY DEF WriteLevel0, clientvars
<1>3. PICK N \in Nat : N = Len(sst) /\ DOMAIN sst = 1..N
  BY <1>1, LenProperties DEF Parts, Typed
<1>4. /\ sst \in Seq(SUBSET Entry) /\ entry_id_ \in Nat
      /\ manifest \in Seq(Seq(1..N))
  BY <1>1, <1>3 DEF Parts, Typed
<1>5. immutable \in SUBSET Entry
  BY <1>1 DEF Parts, Fresh, Held
<1>6. /\ sst' \in Seq(SUBSET Entry) /\ Len(sst') = N + 1 /\ DOMAIN sst' = 1..(N + 1)
      /\ sst'[N + 1] = immutable /\ \A f \in 1..N : sst'[f] = sst[f]
  BY <1>2, <1>3, <1>4, <1>5, AppendProperties, LenProperties
<1>7. PICK f : f = N + 1
  OBVIOUS
<1>8. manifest' \in Seq(Seq(1..(N + 1))) /\ Pushed(manifest, manifest', f)
  <2>1. manifest' = Level0Push(f)
    BY <1>2, <1>3, <1>7
  <2> QED
    BY <2>1, <1>4, <1>7, PushProperties
<1>9. Typed'
  BY <1>2, <1>4, <1>6, <1>8 DEF Typed
<1>10. ASSUME NEW g \in DOMAIN sst'
       PROVE  sst'[g] = immutable \/ (g \in DOMAIN sst /\ sst'[g] = sst[g])
  <2>1. g \in 1..N \/ g = N + 1
    BY <1>6
  <2>2. CASE g \in 1..N
    BY <2>2, <1>3, <1>6
  <2>3. CASE g = N + 1
    BY <2>3, <1>6
  <2> QED
    BY <2>1, <2>2, <2>3
<1>11. Held' \subseteq Held
  BY <1>2, <1>10 DEF Held
<1>12. Fresh'
  <2>1. IsFiniteSet(Held')
    BY <1>1, <1>11, FS_Subset DEF Parts, Fresh
  <2> QED
    BY <1>1, <1>2, <1>11, <2>1 DEF Parts, Fresh
<1>13. Apart'
  BY <1>1, <1>2, <1>10 DEF Parts, Apart
<1>14. ASSUME NEW k \in DOMAIN manifest, NEW i \in DOMAIN manifest[k]
       PROVE  /\ manifest[k][i] \in 1..N /\ manifest[k][i] # f
              /\ sst'[manifest[k][i]] = sst[manifest[k][i]]
              /\ sst[manifest[k][i]] \intersect sst'[f] = {}
  <2>1. manifest[k] \in Seq(1..N)
    BY <1>4, LenProperties
  <2>2. PICK g \in 1..N : g = manifest[k][i]
    BY <2>1, LenProperties
  <2>3. g # f /\ sst'[g] = sst[g] /\ sst'[f] = immutable
    BY <1>6, <1>7
  <2>4. sst[g] \intersect immutable = {}
    BY <1>1, <1>3 DEF Parts, Apart
  <2> QED
    BY <2>2, <2>3, <2>4
<1>15. Single(manifest', sst')
  <2>0. PICK m2, s2 : m2 = manifest' /\ s2 = sst'
    OBVIOUS
  <2> SUFFICES ASSUME NEW k \in DOMAIN m2, NEW h \in DOMAIN m2,
                      NEW i \in DOMAIN m2[k], NEW j \in DOMAIN m2[h], k # h \/ i # j
               PROVE  /\ m2[k][i] # m2[h][j]
                      /\ s2[m2[k][i]] \intersect s2[m2[h][j]] = {}
    BY <2>0 DEF Single
  <2>1. \/ k \in DOMAIN manifest /\ i \in DOMAIN manifest[k] /\ m2[k][i] = manifest[k][i]
        \/ k = 1 /\ i = Len(m2[1]) /\ m2[k][i] = f
    BY <1>8, <2>0 DEF Pushed
  <2>2. \/ h \in DOMAIN manifest /\ j \in DOMAIN manifest[h] /\ m2[h][j] = manifest[h][j]
        \/ h = 1 /\ j = Len(m2[1]) /\ m2[h][j] = f
    BY <1>8, <2>0 DEF Pushed
  <2>3. CASE /\ k \in DOMAIN manifest /\ i \in DOMAIN manifest[k] /\ m2[k][i] = manifest[k][i]
             /\ h \in DOMAIN manifest /\ j \in DOMAIN manifest[h] /\ m2[h][j] = manifest[h][j]
    <3>1. /\ manifest[k][i] # manifest[h][j]
          /\ sst[manifest[k][i]] \intersect sst[manifest[h][j]] = {}
      BY <1>1, <2>3 DEF Parts, Single
    <3>2. /\ s2[manifest[k][i]] = sst[manifest[k][i]]
          /\ s2[manifest[h][j]] = sst[manifest[h][j]]
      BY <1>14, <2>0, <2>3
    <3> QED
      BY <2>3, <3>1, <3>2
  <2>4. CASE /\ k \in DOMAIN manifest /\ i \in DOMAIN manifest[k] /\ m2[k][i] = manifest[k][i]
             /\ m2[h][j] = f
    BY <1>14, <2>0, <2>4
  <2>5. CASE /\ h \in DOMAIN manifest /\ j \in DOMAIN manifest[h] /\ m2[h][j] = manifest[h][j]
             /\ m2[k][i] = f
    BY <1>14, <2>0, <2>5
  <2> QED
    BY <2>1, <2>2, <2>3, <2>4, <2>5
<1>16. ASSUME NEW l \in DOMAIN manifest'
       PROVE  /\ l \in DOMAIN LevelLimit
              /\ Len(manifest'[l]) < LevelLimit[l] + (IF l = 1 THEN 1 ELSE 0)
  <2>1. CASE l # 1
    <3>1. l \in DOMAIN manifest /\ manifest'[l] = manifest[l]
      BY <1>8, <2>1 DEF Pushed
    <3>2. Below(manifest, l)
      BY <1>1, <1>2, <3>1 DEF Bounded
    <3>3. LevelLimit[l] \in Nat /\ LevelLimit[l] + 0 = LevelLimit[l]
      BY <3>2, Limits DEF Below
    <3> QED
      BY <2>1, <3>1, <3>2, <3>3 DEF Below
  <2>2. CASE l = 1
    <3>1. 1 \in DOMAIN LevelLimit /\ LevelLimit[1] \in Nat \ {0}
      BY Limits
    <3>2. CASE Len(manifest'[1]) = 1
      BY <2>2, <3>1, <3>2
    <3>3. CASE 1 \in DOMAIN manifest /\ Len(manifest'[1]) = Len(manifest[1]) + 1
      <4>1. Below(manifest, 1)
        BY <1>1, <1>2, <3>3 DEF Bounded
      <4>2. Len(manifest[1]) \in Nat
        BY <1>4, <3>3, LevelLengths
      <4> QED
        BY <2>2, <3>1, <3>3, <4>1, <4>2 DEF Below
    <3> QED
      BY <1>8, <3>2, <3>3 DEF Pushed
  <2> QED
    BY <2>1, <2>2
<1>17. Bounded'
  BY <1>2, <1>16 DEF Bounded
<1> QED
  BY <1>2, <1>9, <1>12, <1>13, <1>15, <1>17 DEF LSMInv, Parts

(* A task that fails leaves a version all of whose levels are in bounds.   *)
LEMMA FailsInv == ASSUME LSMInv, CompactFails \/ WriteLevel0Fails PROVE LSMInv'
<1>1. Parts /\ Bounded
  BY DEF LSMInv
<1>2. CASE CompactFails
  <2>1. /\ bg' = "failed"
        /\ UNCHANGED <<mem_table_, entry_id_, immutable, sst, version, manifest>>
    BY <1>2 DEF CompactFails, clientvars
  <2>2. Parts'
    BY <1>1, <2>1 DEF Parts, Typed, Fresh, Apart, Held
  <2>3. Bounded'
    BY <1>1, <2>1 DEF Bounded
  <2> QED
    BY <2>2, <2>3 DEF LSMInv
<1>3. CASE WriteLevel0Fails
  <2>1. /\ bg = "write" /\ bg' = "failed" /\ version' = manifest /\ immutable' = {}
        /\ UNCHANGED <<mem_table_, entry_id_, sst, manifest>>
    BY <1>3 DEF WriteLevel0Fails, clientvars
  <2>2. Held' \subseteq Held
    BY <2>1 DEF Held
  <2>3. Fresh'
    <3>1. IsFiniteSet(Held')
      BY <1>1, <2>2, FS_Subset DEF Parts, Fresh
    <3> QED
      BY <1>1, <2>1, <2>2, <3>1 DEF Parts, Fresh
  <2>4. Parts'
    BY <1>1, <2>1, <2>3 DEF Parts, Typed, Apart
  <2>5. ASSUME NEW l \in DOMAIN manifest
        PROVE  /\ l \in DOMAIN LevelLimit
               /\ Len(manifest[l]) < LevelLimit[l] + (IF l = 1 THEN 1 ELSE 0)
    <3>1. l \in DOMAIN LevelLimit /\ Len(manifest[l]) < LevelLimit[l]
      BY <1>1, <2>1 DEF Bounded, Below
    <3>2. LevelLimit[l] \in Nat
      BY <3>1, Limits
    <3>3. Len(manifest[l]) \in Nat
      BY <1>1, LevelLengths DEF Parts, Typed
    <3> QED
      BY <3>1, <3>2, <3>3
  <2>6. Bounded'
    BY <2>1, <2>5 DEF Bounded
  <2> QED
    BY <2>4, <2>6 DEF LSMInv
<1> QED
  BY <1>2, <1>3

(* Every step keeps the invariant.                                         *)
LEMMA NextInv == LSMInv /\ [Next]_vars => LSMInv'
<1> SUFFICES ASSUME LSMInv, [Next]_vars PROVE LSMInv'
  OBVIOUS
<1>1. CASE \E k \in Keys : Insert(k) \/ InsertAndFlush(k) \/ Delete(k)
  BY <1>1, ClientInv
<1>2. CASE FlushBegin
  BY <1>2, FlushBeginInv
<1>3. CASE CompactFirst
  BY <1>3, CompactFirstInv
<1>4. CASE CompactLevel
  BY <1>4, CompactLevelInv
<1>5. CASE NextLevel
  BY <1>5, NextLevelInv
<1>6. CASE WriteLevel0
  BY <1>6, WriteLevel0Inv
<1>7. CASE CompactFails \/ WriteLevel0Fails
  BY <1>7, FailsInv
<1>8. CASE UNCHANGED vars
  BY <1>8 DEF vars, LSMInv, Parts, Typed, Fresh, Apart, Held, Bounded, Below
<1> QED
  BY <1>1, <1>2, <1>3, <1>4, <1>5, <1>6, <1>7, <1>8 DEF Next

-----------------------------------------------------------------------------
(* The invariant holds in every behaviour.                                 *)
THEOREM Invariance == Spec => []LSMInv
BY InitInv, NextInv, PTL DEF Spec

(* However often and between whichever levels BackgroundCompact merges,    *)
(* UpdateManifest leaves no entry in two files of the manifest: for any    *)
(* keys, workload and limits, in levels that are out of order as well, and *)
(* after failed reads and writes.                                          *)
THEOREM NoEntryTwice == Spec => []EntriesOnce
<1>1. LSMInv => EntriesOnce
  <2> SUFFICES ASSUME LSMInv, NEW f \in FilesOf(manifest), NEW g \in FilesOf(manifest),
                      f # g
               PROVE  sst[f] \intersect sst[g] = {}
    BY DEF EntriesOnce
  <2>1. PICK k \in DOMAIN manifest : \E i \in DOMAIN manifest[k] : f = manifest[k][i]
    BY DEF FilesOf
  <2>2. PICK i \in DOMAIN manifest[k] : f = manifest[k][i]
    BY <2>1
  <2>3. PICK l \in DOMAIN manifest : \E j \in DOMAIN manifest[l] : g = manifest[l][j]
    BY DEF FilesOf
  <2>4. PICK j \in DOMAIN manifest[l] : g = manifest[l][j]
    BY <2>3
  <2>5. k # l \/ i # j
    BY <2>2, <2>4
  <2> QED
    BY <2>2, <2>4, <2>5 DEF LSMInv, Parts, Single
<1> QED
  BY <1>1, Invariance, PTL

(* Every version keeps to kDefaultLevelSize, for any such vector: the loop *)
(* of BackgroundCompact does not leave a level before it is below its      *)
(* limit, and what it does later to deeper levels leaves that one alone.   *)
THEOREM VersionsBounded == Spec => []LevelsBounded
<1>1. LSMInv => LevelsBounded
  BY DEF LSMInv, Bounded, LevelsBounded
<1> QED
  BY <1>1, Invariance, PTL
-----------------------------------------------------------------------------
(* The order of entries.                                                   *)
LEMMA LessOrder ==
    /\ \A d \in Entry : d.key \in Nat /\ d.id \in Nat /\ ~ Less(d, d)
    /\ \A c, d, e \in Entry : Less(c, d) /\ Less(d, e) => Less(c, e)
    /\ \A d, e \in Entry : d.id # e.id => Less(d, e) \/ Less(e, d)
    /\ \A d, e \in Entry : d.key # e.key => (Less(d, e) <=> d.key < e.key)
<1>1. \A d \in Entry : d.key \in Nat /\ d.id \in Nat
  BY LSMAssumption DEF Entry
<1> QED
  BY <1>1 DEF Less

(* The entries of S differ in their ids.                                   *)
ApartById(S) == \A d, e \in S : d # e => d.id # e.id

(* The rank of such an entry says how many are smaller; the ranks are the  *)
(* numbers below the size of the set.                                      *)
LEMMA RankProperties ==
    ASSUME NEW S, S \subseteq Entry, IsFiniteSet(S), ApartById(S)
    PROVE  /\ Cardinality(S) \in Nat
           /\ \A e \in S : Rank(e, S) \in 0..(Cardinality(S) - 1)
           /\ \A d, e \in S : Less(d, e) <=> Rank(d, S) < Rank(e, S)
           /\ \A r \in 0..(Cardinality(S) - 1) : \E e \in S : Rank(e, S) = r
<1> DEFINE Smaller(e) == {d \in S : Less(d, e)}
           c == Cardinality(S)
<1>1. c \in Nat
  BY FS_CardinalityType
<1>2. ASSUME NEW e \in S
      PROVE  /\ IsFiniteSet(Smaller(e)) /\ Rank(e, S) = Cardinality(Smaller(e))
             /\ Rank(e, S) \in Nat /\ e \notin Smaller(e)
  <2>1. Smaller(e) \in SUBSET S
    OBVIOUS
  <2>2. IsFiniteSet(Smaller(e))
    BY <2>1, FS_Subset
  <2>3. e \notin Smaller(e)
    BY LessOrder
  <2>4. Rank(e, S) = Cardinality(Smaller(e))
    BY DEF Rank
  <2> QED
    BY <2>2, <2>3, <2>4, FS_CardinalityType
<1>3. ASSUME NEW e \in S
      PROVE  Rank(e, S) \in 0..(c - 1)
  <2>1. IsFiniteSet(S \ {e}) /\ Cardinality(S \ {e}) = c - 1
    BY FS_RemoveElement
  <2>2. Smaller(e) \in SUBSET (S \ {e})
    BY <1>2
  <2>3. Cardinality(Smaller(e)) <= Cardinality(S \ {e})
    <3> HIDE DEF Smaller
    <3> QED
      BY <2>1, <2>2, FS_Subset
  <2> QED
    BY <1>1, <1>2, <2>1, <2>3
<1>4. ASSUME NEW d \in S, NEW e \in S, Less(d, e)
      PROVE  Rank(d, S) < Rank(e, S)
  <2>1. Smaller(d) \subseteq Smaller(e)
    BY <1>4, LessOrder
  <2>2. d \in Smaller(e) /\ d \notin Smaller(d)
    BY <1>2, <1>4
  <2> HIDE DEF Smaller
  <2>3. /\ Cardinality(Smaller(d)) <= Cardinality(Smaller(e))
        /\ Cardinality(Smaller(e)) = Cardinality(Smaller(d)) => Smaller(e) = Smaller(d)
    BY <1>2, <2>1, FS_Subset
  <2>4. Cardinality(Smaller(e)) # Cardinality(Smaller(d))
    BY <2>2, <2>3
  <2> QED
    BY <1>2, <2>3, <2>4
<1>5. ASSUME NEW d \in S, NEW e \in S, d # e
      PROVE  Rank(d, S) # Rank(e, S)
  <2>1. Less(d, e) \/ Less(e, d)
    BY <1>5, LessOrder DEF ApartById
  <2>2. Less(d, e) => Rank(d, S) < Rank(e, S)
    BY <1>4
  <2>3. Less(e, d) => Rank(e, S) < Rank(d, S)
    BY <1>4
  <2>4. PICK x \in Nat, y \in Nat : x = Rank(d, S) /\ y = Rank(e, S)
    BY <1>2
  <2> QED
    BY <2>1, <2>2, <2>3, <2>4
<1> HIDE DEF Smaller, c
<1>6. ASSUME NEW d \in S, NEW e \in S, Rank(d, S) < Rank(e, S)
      PROVE  Less(d, e)
  <2>1. d # e
    BY <1>2, <1>6
  <2>2. Less(d, e) \/ Less(e, d)
    BY <2>1, LessOrder DEF ApartById
  <2>3. Less(e, d) => Rank(e, S) < Rank(d, S)
    BY <1>4
  <2>4. PICK x \in Nat, y \in Nat : x = Rank(d, S) /\ y = Rank(e, S)
    BY <1>2
  <2> QED
    BY <2>2, <2>3, <2>4, <1>6
<1>7. \A r \in 0..(c - 1) : \E e \in S : Rank(e, S) = r
  <2> DEFINE f == [e \in S |-> Rank(e, S)]
             T == 0..(c - 1)
  <2>1. f \in Injection(S, T)
    BY <1>3, <1>5 DEF Injection, IsInjective
  <2>2. IsFiniteSet(T) /\ Cardinality(T) = c
    <3>1. IsFiniteSet(T) /\ Cardinality(T) = IF 0 > c - 1 THEN 0 ELSE c - 1 - 0 + 1
      BY <1>1, FS_Interval
    <3> QED
      BY <1>1, <3>1
  <2> HIDE DEF f, T
  <2>3. f \in Surjection(S, T)
    <3>1. Cardinality(S) = Cardinality(T)
      BY <2>2 DEF c
    <3> QED
      BY <2>1, <2>2, <3>1, FS_Injection
  <2>4. \A r \in T : \E e \in S : f[e] = r
    BY <2>3 DEF Surjection
  <2> QED
    BY <2>4 DEF f, T
<1> QED
  BY <1>1, <1>3, <1>4, <1>6, <1>7 DEF c

(* Smallest and Largest of a set of such entries.                          *)
LEMMA Extremes ==
    ASSUME NEW S, S \subseteq Entry, IsFiniteSet(S), ApartById(S), S # {}
    PROVE  /\ Smallest(S) \in S /\ \A d \in S : d = Smallest(S) \/ Less(Smallest(S), d)
           /\ Largest(S) \in S /\ \A d \in S : d = Largest(S) \/ Less(d, Largest(S))
<1>1. PICK c \in Nat : c = Cardinality(S)
  BY RankProperties
<1>2. c # 0
  BY <1>1, FS_EmptySet
<1>3. \A e \in S : Rank(e, S) \in 0..(c - 1)
  BY <1>1, RankProperties
<1>4. \A d, e \in S : Less(d, e) <=> Rank(d, S) < Rank(e, S)
  BY RankProperties
<1>5. \A d, e \in S : d # e => Less(d, e) \/ Less(e, d)
  BY LessOrder DEF ApartById
<1>6. \E e \in S : \A d \in S : ~ Less(d, e)
  <2>1. 0 \in 0..(c - 1)
    BY <1>2
  <2>2. PICK e \in S : Rank(e, S) = 0
    BY <1>1, <2>1, RankProperties
  <2>3. \A d \in S : ~ Less(d, e)
    BY <1>3, <1>4, <2>2
  <2> QED
    BY <2>3
<1>7. \E e \in S : \A d \in S : ~ Less(e, d)
  <2>1. c - 1 \in 0..(c - 1)
    BY <1>2
  <2>2. PICK e \in S : Rank(e, S) = c - 1
    BY <1>1, <2>1, RankProperties
  <2>3. \A d \in S : ~ Less(e, d)
    BY <1>3, <1>4, <2>2
  <2> QED
    BY <2>3
<1>8. Smallest(S) \in S /\ \A d \in S : ~ Less(d, Smallest(S))
  BY <1>6 DEF Smallest
<1>9. Largest(S) \in S /\ \A d \in S : ~ Less(Largest(S), d)
  BY <1>7 DEF Largest
<1> QED
  BY <1>5, <1>8, <1>9

-----------------------------------------------------------------------------
(* Division, as IterMerge deals entries out.                               *)
LEMMA Division ==
    ASSUME NEW r \in Nat, NEW d \in Nat \ {0}
    PROVE  \E q \in Nat : q = r \div d /\ q * d <= r /\ r < q * d + d
<1>1. PICK q \in Nat : q = r \div d
  BY DivNat
<1>2. q * d <= r /\ r < q * d + d
  BY <1>1
<1> QED
  BY <1>1, <1>2

(* Products of one divisor are in the order of the factors.                *)
LEMMA Products ==
    ASSUME NEW p \in Nat, NEW q \in Nat, NEW d \in Nat \ {0}, p * d < q * d + d
    PROVE  p <= q
<1> SUFFICES ASSUME p >= q + 1 PROVE FALSE
  OBVIOUS
<1>1. PICK x \in Nat : p = (q + 1) + x
  <2>1. p - (q + 1) \in Nat /\ p = (q + 1) + (p - (q + 1))
    OBVIOUS
  <2> QED
    BY <2>1
<1>2. p * d = q * d + d + x * d
  BY <1>1
<1>3. x * d \in Nat /\ q * d \in Nat
  OBVIOUS
<1> QED
  BY <1>2, <1>3

(* A quotient grows with the dividend.                                     *)
LEMMA DivMonotone ==
    ASSUME NEW r \in Nat, NEW t \in Nat, NEW d \in Nat \ {0}, r <= t
    PROVE  r \div d <= t \div d
<1>1. PICK p \in Nat : p = r \div d /\ p * d <= r
  BY Division
<1>2. PICK q \in Nat : q = t \div d /\ t < q * d + d
  BY Division
<1>3. p * d \in Nat /\ q * d \in Nat
  OBVIOUS
<1>4. p * d < q * d + d
  BY <1>1, <1>2, <1>3
<1> QED
  BY <1>1, <1>2, <1>4, Products

(* So many files of d entries take s entries, and none of them is empty.   *)
LEMMA FileCount ==
    ASSUME NEW s \in Nat, NEW d \in Nat \ {0}, NEW c, c = (s + d - 1) \div d
    PROVE  /\ c \in Nat
           /\ \A r \in 0..(s - 1) : (r \div d) + 1 \in 1..c
           /\ \A n \in 1..c : \E r \in 0..(s - 1) : r \div d = n - 1
<1>0. s + d - 1 \in Nat
  OBVIOUS
<1>1. PICK q \in Nat : q = c /\ q * d <= s + d - 1 /\ s + d - 1 < q * d + d
  BY <1>0, Division
<1>2. ASSUME NEW r \in 0..(s - 1)
      PROVE  (r \div d) + 1 \in 1..c
  <2>1. r + d \in Nat /\ r + d <= s + d - 1
    OBVIOUS
  <2>2. (r + d) \div d <= c
    BY <2>1, <1>0, DivMonotone
  <2>3. PICK p \in Nat : p = r \div d /\ p * d <= r
    BY Division
  <2>4. PICK z \in Nat : z = (r + d) \div d /\ r + d < z * d + d
    BY <2>1, Division
  <2>5. (p + 1) * d = p * d + d /\ p * d \in Nat /\ z * d \in Nat
    OBVIOUS
  <2>6. (p + 1) * d < z * d + d
    BY <2>3, <2>4, <2>5
  <2>7. p + 1 <= z
    BY <2>6, Products
  <2> QED
    BY <1>1, <2>2, <2>3, <2>4, <2>7
<1>3. ASSUME NEW n \in 1..c
      PROVE  \E r \in 0..(s - 1) : r \div d = n - 1
  <2>1. PICK x \in Nat, y \in Nat : n = x + 1 /\ q = x + 1 + y
    <3>1. n - 1 \in Nat /\ q - n \in Nat /\ n = (n - 1) + 1 /\ q = (n - 1) + 1 + (q - n)
      BY <1>1
    <3> QED
      BY <3>1
  <2>2. q * d = x * d + d + y * d /\ x * d \in Nat /\ y * d \in Nat
    BY <2>1
  <2>3. x * d \in 0..(s - 1)
    BY <1>1, <2>2
  <2>4. PICK z \in Nat : z = (x * d) \div d /\ z * d <= x * d /\ x * d < z * d + d
    BY <2>2, Division
  <2>5. x <= z
    BY <2>4, Products
  <2>6. z * d < x * d + d
    BY <2>2, <2>4
  <2>7. z <= x
    BY <2>6, Products
  <2> QED
    BY <2>1, <2>3, <2>4, <2>5, <2>7
<1> QED
  BY <1>1, <1>2, <1>3

(* A merge of entries with different keys: the files hold all of them, in  *)
(* order, none is empty, and the first begins with the smallest entry.     *)
Under(A, B) == \A a \in A, b \in B : Less(a, b)

(* No key has two entries in S.                                            *)
OneOfKey(S) == \A d, e \in S : d.key = e.key => d = e

(* Merge, with the ranks dealt to files in rows of limit - 1.              *)
LEMMA MergeInOrder ==
    ASSUME NEW S, S \subseteq Entry, IsFiniteSet(S), ApartById(S), OneOfKey(S), S # {},
           NEW limit \in Nat \ {0, 1}, NEW M, M = Merge(S, limit)
    PROVE  /\ Len(M) \in Nat \ {0} /\ DOMAIN M = 1..Len(M)
           /\ \A n \in DOMAIN M : M[n] # {} /\ M[n] \subseteq S
           /\ \A e \in S : \E n \in DOMAIN M : e \in M[n]
           /\ \A n, p \in DOMAIN M : n < p => Under(M[n], M[p])
           /\ Smallest(S) \in M[1]
<1> DEFINE s == Cardinality(S)
           d == limit - 1
<1>1. PICK c : c = (s + d - 1) \div d
  OBVIOUS
<1>2. s \in Nat \ {0} /\ d \in Nat \ {0}
  BY RankProperties, FS_EmptySet
<1>3. /\ c \in Nat
      /\ \A r \in 0..(s - 1) : (r \div d) + 1 \in 1..c
      /\ \A n \in 1..c : \E r \in 0..(s - 1) : r \div d = n - 1
  <2> HIDE DEF s, d
  <2>1. PICK x \in Nat : x = s
    BY <1>2
  <2>2. PICK y \in Nat \ {0} : y = d
    BY <1>2
  <2>3. c = (x + y - 1) \div y
    BY <1>1, <2>1, <2>2
  <2>4. /\ c \in Nat
        /\ \A r \in 0..(x - 1) : (r \div y) + 1 \in 1..c
        /\ \A n \in 1..c : \E r \in 0..(x - 1) : r \div y = n - 1
    BY <2>3, FileCount
  <2> QED
    BY <2>1, <2>2, <2>4
<1>4. s + d - 1 = s + limit - 2
  BY <1>2
<1> DEFINE Dealt(n) == {e \in S : Rank(e, S) \div d = n - 1}
<1>5. M = [n \in 1..c |-> KeepNewest(Dealt(n))]
  BY <1>1, <1>4 DEF Merge
<1>6. \A e \in S : Rank(e, S) \in 0..(s - 1)
  BY RankProperties
<1>7. \A r \in 0..(s - 1) : \E e \in S : Rank(e, S) = r
  BY RankProperties
<1> HIDE DEF s, d
<1>8. ASSUME NEW n \in 1..c
      PROVE  M[n] = Dealt(n)
  <2>1. \A e \in Dealt(n) : \A g \in Dealt(n) : g.key = e.key => g.id <= e.id
    <3> SUFFICES ASSUME NEW e \in Dealt(n), NEW g \in Dealt(n), g.key = e.key
                 PROVE  g.id <= e.id
      OBVIOUS
    <3>1. g = e
      BY DEF OneOfKey
    <3>2. e.id \in Nat
      BY LessOrder
    <3> QED
      BY <3>1, <3>2
  <2> HIDE DEF Dealt
  <2>2. KeepNewest(Dealt(n)) = Dealt(n)
    BY <2>1 DEF KeepNewest
  <2> QED
    BY <1>5, <2>2
<1>9. c \in Nat /\ M \in [1..c -> SUBSET S]
  BY <1>3, <1>5, <1>8
<1>10. Len(M) = c /\ DOMAIN M = 1..c
  BY <1>9, FcnIsSeq
<1>11. ASSUME NEW e \in S
       PROVE  \E n \in 1..c : e \in M[n]
  <2>1. PICK r \in 0..(s - 1) : r = Rank(e, S)
    BY <1>6
  <2>2. PICK n \in 1..c : n = (r \div d) + 1
    BY <1>3
  <2>3. r \div d \in Nat
    BY <1>2, DivNat
  <2>4. r \div d = n - 1
    BY <2>2, <2>3
  <2> QED
    BY <1>8, <2>1, <2>4
<1>12. ASSUME NEW n \in 1..c
       PROVE  M[n] # {} /\ M[n] \subseteq S
  <2>1. PICK r \in 0..(s - 1) : r \div d = n - 1
    BY <1>3
  <2>2. PICK e \in S : Rank(e, S) = r
    BY <1>7
  <2>3. e \in Dealt(n)
    BY <2>1, <2>2
  <2> QED
    BY <1>8, <2>3
<1>13. ASSUME NEW n \in 1..c, NEW p \in 1..c, n < p, NEW a \in M[n], NEW b \in M[p]
       PROVE  Less(a, b)
  <2>1. a \in S /\ b \in S /\ Rank(a, S) \div d = n - 1 /\ Rank(b, S) \div d = p - 1
    BY <1>8
  <2>2. PICK x \in Nat, y \in Nat : x = Rank(a, S) /\ y = Rank(b, S)
    BY <1>2, <1>6, <2>1
  <2>3. y <= x => y \div d <= x \div d
    BY <1>2, DivMonotone
  <2>4. ~ (y <= x)
    BY <2>1, <2>2, <2>3, <1>13
  <2>5. Rank(a, S) < Rank(b, S)
    BY <2>2, <2>4
  <2> QED
    BY <2>1, <2>5, RankProperties
<1>14. c # 0
  BY <1>11
<1>15. Smallest(S) \in M[1]
  <2>1. Smallest(S) \in S /\ \A e \in S : e = Smallest(S) \/ Less(Smallest(S), e)
    BY Extremes
  <2>2. PICK x : x = Smallest(S)
    OBVIOUS
  <2>3. PICK n \in 1..c : x \in M[n]
    BY <1>11, <2>1, <2>2
  <2>4. n # 1 => FALSE
    <3> SUFFICES ASSUME n # 1 PROVE FALSE
      OBVIOUS
    <3>1. 1 \in 1..c /\ 1 < n
      BY <1>9
    <3>2. PICK e : e \in M[1]
      BY <3>1, <1>12
    <3>3. Less(e, x) /\ e \in S
      BY <3>1, <3>2, <2>3, <1>12, <1>13
    <3>4. e = x \/ Less(x, e)
      BY <3>3, <2>1, <2>2
    <3> QED
      BY <3>3, <3>4, <2>1, <2>2, LessOrder
  <2> QED
    BY <2>2, <2>3, <2>4
<1> QED
  BY <1>9, <1>10, <1>11, <1>12, <1>13, <1>14, <1>15 DEF Under

-----------------------------------------------------------------------------
(* A compaction that takes the first files of a level.                     *)

(* Remove moves the others up.                                             *)
LEMMA RemoveFirst ==
    ASSUME NEW T, NEW s \in Seq(T), NEW n \in 0..Len(s)
    PROVE  /\ Remove(s, 1..n) \in Seq(T)
           /\ Len(Remove(s, 1..n)) = Len(s) - n
           /\ \A i \in 1..(Len(s) - n) : Remove(s, 1..n)[i] = s[n + i]
<1>1. PICK q \in Nat : q = Len(s) /\ DOMAIN s = 1..q /\ \A i \in 1..q : s[i] \in T
  BY LenProperties
<1> DEFINE K == DOMAIN s \ 1..n
           Nth(k) == CHOOSE i \in K : Cardinality({j \in K : j <= i}) = k
<1>2. n \in Nat /\ n <= q
  BY <1>1
<1>3. K = (n + 1)..q
  BY <1>1, <1>2
<1>4. Cardinality(K) = q - n
  <2>1. n + 1 \in Int /\ q \in Int
    BY <1>2
  <2>2. Cardinality((n + 1)..q) = IF n + 1 > q THEN 0 ELSE q - (n + 1) + 1
    BY <2>1, FS_Interval
  <2>3. (IF n + 1 > q THEN 0 ELSE q - (n + 1) + 1) = q - n
    BY <1>2
  <2> HIDE DEF K
  <2> QED
    BY <2>2, <2>3, <1>3
<1>5. ASSUME NEW i \in K
      PROVE  Cardinality({j \in K : j <= i}) = i - n
  <2>1. {j \in K : j <= i} = (n + 1)..i
    BY <1>2, <1>3
  <2>2. n + 1 \in Int /\ i \in Int /\ n + 1 <= i
    BY <1>2, <1>3
  <2>3. Cardinality((n + 1)..i) = IF n + 1 > i THEN 0 ELSE i - (n + 1) + 1
    BY <2>2, FS_Interval
  <2>4. (IF n + 1 > i THEN 0 ELSE i - (n + 1) + 1) = i - n
    BY <2>2, <1>2
  <2> HIDE DEF K
  <2> QED
    BY <2>1, <2>3, <2>4
<1>6. Remove(s, 1..n) = [k \in 1..Cardinality(K) |-> s[Nth(k)]]
  BY DEF Remove
<1>7. ASSUME NEW k \in 1..(q - n)
      PROVE  Nth(k) = n + k
  <2>1. n + k \in K /\ (n + k) - n = k
    BY <1>2, <1>3
  <2>2. Cardinality({j \in K : j <= n + k}) = k
    BY <2>1, <1>5
  <2>3. \A i \in K : Cardinality({j \in K : j <= i}) = k => i = n + k
    <3> SUFFICES ASSUME NEW i \in K, Cardinality({j \in K : j <= i}) = k
                 PROVE  i = n + k
      OBVIOUS
    <3>1. k = i - n /\ i \in Nat
      BY <1>2, <1>3, <1>5
    <3> QED
      BY <3>1, <1>2
  <2> HIDE DEF K
  <2> QED
    BY <2>1, <2>2, <2>3
<1> HIDE DEF K, Nth
<1>8. q - n \in Nat /\ \A i \in 1..(q - n) : n + i \in 1..q
  BY <1>2
<1>9. Remove(s, 1..n) = [k \in 1..(q - n) |-> s[n + k]]
  BY <1>4, <1>6, <1>7
<1>10. Remove(s, 1..n) \in [1..(q - n) -> T]
  BY <1>1, <1>8, <1>9
<1> QED
  BY <1>1, <1>8, <1>9, <1>10, FcnIsSeq

(* The manifest that UpdateManifest makes of it: the next level gets the   *)
(* new files in the place of a stretch of its own.                         *)
Shaped(m, m2, l, n, first, last, N, w, new) ==
    /\ DOMAIN m2 = DOMAIN m \union {l + 1}
    /\ Len(m2[l]) = Len(m[l]) - n /\ DOMAIN m2[l] = 1..(Len(m[l]) - n)
    /\ \A i \in 1..(Len(m[l]) - n) : m2[l][i] = m[l][n + i]
    /\ m2[l + 1] \in Seq(1..(N + w))
    /\ Spliced(m2[l + 1], Level(m, l + 1), new, first, last, first + w)
    /\ first <= last /\ last <= Len(Level(m, l + 1))
    /\ \A k \in DOMAIN m : k \notin {l, l + 1} => m2[k] = m[k]

(* UpdateManifest shapes the manifest like that.                           *)
LEMMA UpdateShape ==
    ASSUME NEW N \in Nat, NEW w \in Nat, NEW m \in Seq(Seq(1..N)),
           NEW l \in DOMAIN m, NEW plan, PlanOK(m, l, plan),
           NEW n \in 0..Len(m[l]), plan.current = 1..n,
           NEW first \in Nat, NEW last \in Nat,
           Stretch(plan.next, plan.insert, first, last),
           NEW new, new = [k \in 1..w |-> N + k],
           NEW m2, m2 = UpdateManifest(m, l, plan, new)
    PROVE  Shaped(m, m2, l, n, first, last, N, w, new)
<1> DEFINE next == Level(m, l + 1)
           cur == Remove(m[l], plan.current)
           nxt == Rearrange(next, first, last, new)
<1>1. PICK z \in Nat : z = Len(m) /\ DOMAIN m = 1..z /\ l \in 1..z
  BY LenProperties
<1>2. m[l] \in Seq(1..N)
  BY LenProperties
<1>3. l \in Nat /\ l + 1 \in Nat \ {0} /\ l # l + 1
  BY <1>1
<1>4. next \in Seq(1..N) /\ Len(next) \in Nat /\ DOMAIN next = 1..Len(next)
  BY <1>3, LevelType
<1>5. first <= last /\ last <= Len(next)
  <2>1. plan.next \in SUBSET (1..Len(next)) /\ plan.insert \in 0..Len(next)
    BY <1>4 DEF PlanOK
  <2> QED
    BY <1>4, <2>1, StretchProperties
<1>6. /\ cur \in Seq(1..N) /\ Len(cur) = Len(m[l]) - n
      /\ \A i \in 1..(Len(m[l]) - n) : cur[i] = m[l][n + i]
  <2>1. cur = Remove(m[l], 1..n)
    OBVIOUS
  <2> HIDE DEF cur
  <2>2. PICK a, U : a = m[l] /\ U = 1..N
    OBVIOUS
  <2>4. a \in Seq(U) /\ n \in 0..Len(a)
    BY <1>2, <2>2
  <2>3. /\ Remove(a, 1..n) \in Seq(U) /\ Len(Remove(a, 1..n)) = Len(a) - n
        /\ \A i \in 1..(Len(a) - n) : Remove(a, 1..n)[i] = a[n + i]
    <3>1. Remove(a, 1..n) \in Seq(U)
      BY <2>4, RemoveFirst
    <3>2. Len(Remove(a, 1..n)) = Len(a) - n
      BY <2>4, RemoveFirst
    <3>3. \A i \in 1..(Len(a) - n) : Remove(a, 1..n)[i] = a[n + i]
      BY <2>4, RemoveFirst
    <3> QED
      BY <3>1, <3>2, <3>3
  <2> QED
    BY <2>1, <2>2, <2>3, Zenon
<1>7. nxt \in Seq(1..(N + w)) /\ Spliced(nxt, next, new, first, last, first + w)
  <2>1. new \in [1..w -> 1..(N + w)]
    OBVIOUS
  <2>2. new \in Seq(1..(N + w)) /\ Len(new) = w
    BY <2>1, FcnIsSeq
  <2>3. 1..N \subseteq 1..(N + w)
    OBVIOUS
  <2>4. next \in Seq(1..(N + w))
    BY <1>4, <2>3, SeqMonotonic
  <2> HIDE DEF next
  <2> QED
    BY <1>5, <2>2, <2>4, RearrangeProperties
<1>8. PICK h : h = Max({Len(m), l + 1})
  OBVIOUS
<1>9. h \in Nat /\ h >= z /\ h >= l + 1 /\ h \in {z, l + 1}
  <2>1. {Len(m), l + 1} \in SUBSET (0..(z + 1)) /\ z + 1 \in Nat /\ {Len(m), l + 1} # {}
    BY <1>1
  <2>2. h \in {Len(m), l + 1} /\ \A y \in {Len(m), l + 1} : h >= y
    BY <1>8, <2>1, MaxProperties
  <2> QED
    BY <2>2, <1>1
<1>10. 1..h = (1..z) \union {l + 1}
  BY <1>1, <1>9
<1>11. m2 = [i \in 1..h |-> IF i = l THEN cur ELSE IF i = l + 1 THEN nxt ELSE m[i]]
  <2>1. /\ first = IF plan.next = {} THEN plan.insert ELSE Min(plan.next) - 1
        /\ last = IF plan.next = {} THEN plan.insert ELSE Max(plan.next)
    BY DEF Stretch
  <2> QED
    BY <1>8, <2>1 DEF UpdateManifest
<1> HIDE DEF cur, nxt, next
<1>12. l \in 1..h /\ l + 1 \in 1..h
  BY <1>1, <1>10
<1>13. DOMAIN m2 = 1..h /\ m2[l] = cur /\ m2[l + 1] = nxt
       /\ \A k \in 1..z : k \notin {l, l + 1} => m2[k] = m[k]
  BY <1>3, <1>10, <1>11, <1>12
<1>14. DOMAIN cur = 1..(Len(m[l]) - n)
  BY <1>6, LenProperties
<1> QED
  BY <1>1, <1>5, <1>6, <1>7, <1>10, <1>13, <1>14 DEF Shaped, next

(* The entries of some files of a level.                                   *)
Contents(q, s, I) == UNION {s[q[i]] : i \in I}

(* Each entry is in one of the files.                                      *)
LEMMA ContentsEntries ==
    ASSUME NEW q, NEW s, NEW I
    PROVE  \A e : e \in Contents(q, s, I) <=> \E i \in I : e \in s[q[i]]
BY DEF Contents

(* The entries that a compaction of the first n files of level l merges    *)
(* when the files of the next level from first on to last go along.        *)
Taken(m, s, l, n, first, last) ==
    Contents(m[l], s, 1..n) \union Contents(Level(m, l + 1), s, (first + 1)..last)

(* The next level before that: in order, and the merged entries fit in.    *)
Fits(m, s, l, n, first, last) ==
    /\ \A i, j \in DOMAIN Level(m, l + 1) : i < j =>
          Under(s[Level(m, l + 1)[i]], s[Level(m, l + 1)[j]])
    /\ \A i \in 1..first : Under(s[Level(m, l + 1)[i]], Taken(m, s, l, n, first, last))
    /\ \A i \in DOMAIN Level(m, l + 1) : i > last =>
          Under(Taken(m, s, l, n, first, last), s[Level(m, l + 1)[i]])

(* Position p of level k lists a file that holds entry e.                  *)
From(m, s, k, p, e) == k \in DOMAIN m /\ p \in DOMAIN m[k] /\ e \in s[m[k][p]]

(* What a compaction does to the files, as far as entries are concerned:   *)
(* those of the first n files of level l go to the next one, the others    *)
(* stay in their level.                                                    *)
Moved(m, s, m2, s2, l, n) ==
    /\ DOMAIN m2 = DOMAIN m \union {l + 1}
    /\ Len(m2[l]) = Len(m[l]) - n
    /\ \A k \in DOMAIN m2 : k \notin {l, l + 1} => k \in DOMAIN m /\ m2[k] = m[k]
    /\ \A i, j \in DOMAIN m2[l] : i < j =>
          \E p, q \in DOMAIN m[l] : /\ p < q
                                    /\ s2[m2[l][i]] = s[m[l][p]]
                                    /\ s2[m2[l][j]] = s[m[l][q]]
    /\ \A i, j \in DOMAIN m2[l + 1] : i < j => Under(s2[m2[l + 1][i]], s2[m2[l + 1][j]])
    /\ \A k \in DOMAIN m2 : \A i \in DOMAIN m2[k] : s2[m2[k][i]] # {}
    /\ \A k \in DOMAIN m2 : \A i \in DOMAIN m2[k] : \A e \in s2[m2[k][i]] :
          \/ \E p : From(m, s, k, p, e) /\ (k = l => p > n)
          \/ k = l + 1 /\ \E p : From(m, s, l, p, e) /\ p <= n
    /\ \A k \in DOMAIN m : \A p \in DOMAIN m[k] : \A e \in s[m[k][p]] :
          \E g, i : From(m2, s2, g, i, e)

(* No listed file is empty.                                                *)
Filled(m, s) == \A l \in DOMAIN m : \A i \in DOMAIN m[l] : s[m[l][i]] # {}

(* The w parts of M are not empty, in order and make up S.                 *)
Sliced(M, w, S) ==
    /\ \A k \in 1..w : M[k] # {} /\ M[k] \subseteq S
    /\ \A e \in S : \E k \in 1..w : e \in M[k]
    /\ \A k, p \in 1..w : k < p => Under(M[k], M[p])

(* The files s2 are the N files s and those of M.                          *)
Added(s, s2, N, M, w) ==
    /\ DOMAIN s2 = 1..(N + w)
    /\ \A f \in 1..N : s2[f] = s[f]
    /\ \A k \in 1..w : s2[N + k] = M[k]

(* The first part of M has become the first file of the next level.        *)
AtFront(m2, s2, l, M) == m2[l + 1] # <<>> /\ s2[m2[l + 1][1]] = M[1]

(* The positions after the first a.                                        *)
LEMMA ShiftUp ==
    ASSUME NEW a \in Nat, NEW b \in Nat, NEW i \in 1..(b - a)
    PROVE  a + i \in 1..b
OBVIOUS

(* Each position after the first a is a position moved up by a.            *)
LEMMA ShiftDown ==
    ASSUME NEW a \in Nat, NEW b \in Nat, NEW p \in 1..b, ~ (p <= a)
    PROVE  \E i \in 1..(b - a) : a + i = p
<1>1. p - a \in 1..(b - a) /\ a + (p - a) = p
  OBVIOUS
<1> QED
  BY <1>1

(* CompactSST does that.                                                   *)
LEMMA Placing ==
    ASSUME NEW N \in Nat, NEW w \in Nat \ {0}, NEW m \in Seq(Seq(1..N)),
           NEW l \in DOMAIN m, NEW plan, PlanOK(m, l, plan),
           NEW n \in 0..Len(m[l]), plan.current = 1..n,
           NEW first \in Nat, NEW last \in Nat,
           Stretch(plan.next, plan.insert, first, last),
           NEW s, Fits(m, s, l, n, first, last),
           Filled(m, s),
           NEW S, S = Taken(m, s, l, n, first, last),
           NEW M, Sliced(M, w, S), NEW s2, Added(s, s2, N, M, w),
           NEW m2, m2 = UpdateManifest(m, l, plan, [k \in 1..w |-> N + k])
    PROVE  /\ Moved(m, s, m2, s2, l, n)
           /\ first = 0 => AtFront(m2, s2, l, M)
<1> DEFINE next == Level(m, l + 1)
           R == m2[l + 1]
           c == first + w
<1>1. /\ DOMAIN m2 = DOMAIN m \union {l + 1}
      /\ Len(m2[l]) = Len(m[l]) - n /\ DOMAIN m2[l] = 1..(Len(m[l]) - n)
      /\ \A i \in 1..(Len(m[l]) - n) : m2[l][i] = m[l][n + i]
      /\ R \in Seq(1..(N + w))
      /\ Spliced(R, next, [k \in 1..w |-> N + k], first, last, c)
      /\ first <= last /\ last <= Len(next)
      /\ \A k \in DOMAIN m : k \notin {l, l + 1} => m2[k] = m[k]
  <2>1. PICK new : new = [k \in 1..w |-> N + k]
    OBVIOUS
  <2>2. PICK d \in Nat : d = w
    OBVIOUS
  <2>3. m2 = UpdateManifest(m, l, plan, new)
    BY <2>1
  <2>4. Shaped(m, m2, l, n, first, last, N, d, new)
    BY <2>1, <2>2, <2>3, UpdateShape
  <2> QED
    BY <2>1, <2>2, <2>4, Zenon DEF Shaped
<1>2. l \in Nat \ {0} /\ l + 1 \in Nat \ {0} /\ l # l + 1
  BY LevelLengths
<1>3. /\ next \in Seq(1..N)
      /\ l + 1 \in DOMAIN m => next = m[l + 1]
      /\ l + 1 \notin DOMAIN m => next = <<>>
  <2>1. PICK g \in Nat \ {0} : g = l + 1
    BY <1>2
  <2>2. /\ Level(m, g) \in Seq(1..N)
        /\ g \in DOMAIN m => Level(m, g) = m[g]
        /\ g \notin DOMAIN m => Level(m, g) = <<>>
    BY LevelType, ZenonT(30)
  <2> QED
    BY <2>1, <2>2, Zenon
<1>4. PICK q \in Nat, z \in Nat : /\ q = Len(next) /\ DOMAIN next = 1..q
                                  /\ z = Len(R) /\ DOMAIN R = 1..z
                                  /\ \A i \in 1..q : next[i] \in 1..N
  <2> HIDE DEF next, R
  <2>1. /\ Len(next) \in Nat /\ DOMAIN next = 1..Len(next)
        /\ \A i \in 1..Len(next) : next[i] \in 1..N
    BY <1>3, LenProperties, ElementOfSeq
  <2>2. Len(R) \in Nat /\ DOMAIN R = 1..Len(R)
    BY <1>1, LenProperties
  <2> QED
    BY <2>1, <2>2
<1>5. q # 0 => l + 1 \in DOMAIN m /\ next = m[l + 1]
  BY <1>3, <1>4
<1>6. PICK h \in Nat : /\ h = Len(m[l]) /\ DOMAIN m[l] = 1..h
                       /\ n \in Nat /\ n <= h
                       /\ \A i \in 1..h : m[l][i] \in 1..N
  <2>1. PICK a \in Seq(1..N) : a = m[l]
    BY LenProperties
  <2>2. /\ Len(a) \in Nat /\ DOMAIN a = 1..Len(a)
        /\ \A i \in 1..Len(a) : a[i] \in 1..N
    BY LenProperties, ElementOfSeq
  <2>3. PICK b \in Nat : b = Len(a)
    BY <2>2
  <2>4. n \in Nat /\ n <= b
    BY <2>1, <2>3
  <2>5. /\ b = Len(m[l]) /\ DOMAIN m[l] = 1..b
        /\ \A i \in 1..b : m[l][i] \in 1..N
    BY <2>1, <2>2, <2>3
  <2> QED
    BY <2>4, <2>5
<1>7. /\ z = c + (q - last)
      /\ \A i \in 1..first : R[i] = next[i]
      /\ \A i \in (first + 1)..c : R[i] = N + (i - first)
      /\ \A i \in (c + 1)..z : R[i] = next[i - c + last]
  <2>1. \A i \in (first + 1)..c : i - first \in 1..w
    OBVIOUS
  <2>2. \A i \in (first + 1)..c : [k \in 1..w |-> N + k][i - first] = N + (i - first)
    BY <2>1
  <2> QED
    BY <1>1, <1>4, <2>2 DEF Spliced
<1>8. /\ \A p \in 1..n : s[m[l][p]] \subseteq S
      /\ \A p \in (first + 1)..last : s[next[p]] \subseteq S
      /\ \A e \in S : \/ \E p \in 1..n : e \in s[m[l][p]]
                      \/ \E p \in (first + 1)..last : e \in s[next[p]]
  <2>2. PICK I, J : I = 1..n /\ J = (first + 1)..last
    OBVIOUS
  <2>1. PICK a, A, B : a = m[l] /\ A = Contents(a, s, I) /\ B = Contents(next, s, J)
    OBVIOUS
  <2>3. S = A \union B
    BY <2>1, <2>2 DEF Taken
  <2> HIDE DEF next
  <2>6. \A e : e \in A <=> \E p \in I : e \in s[m[l][p]]
    BY <2>1, ContentsEntries
  <2>7. \A e : e \in B <=> \E p \in J : e \in s[next[p]]
    BY <2>1, ContentsEntries
  <2>4. \A e : e \in S <=> \/ \E p \in I : e \in s[m[l][p]]
                           \/ \E p \in J : e \in s[next[p]]
    BY <2>3, <2>6, <2>7, Zenon
  <2>5. /\ \A p \in I : s[m[l][p]] \subseteq S
        /\ \A p \in J : s[next[p]] \subseteq S
    BY <2>4
  <2> QED
    BY <2>2, <2>4, <2>5
<1>9. /\ \A i, j \in 1..q : i < j => Under(s[next[i]], s[next[j]])
      /\ \A i \in 1..first : Under(s[next[i]], S)
      /\ \A i \in 1..q : i > last => Under(S, s[next[i]])
  BY <1>4 DEF Fits
<1>10. first \in Nat /\ last \in Nat /\ first <= last /\ last <= q /\ c = first + w
  BY <1>1, <1>4
<1>10a. c \in Nat
  OBVIOUS
<1> HIDE DEF R, c, next
<1>30. /\ \A k \in 1..w : M[k] # {} /\ M[k] \subseteq S
       /\ \A e \in S : \E k \in 1..w : e \in M[k]
       /\ \A k, p \in 1..w : k < p => Under(M[k], M[p])
  BY DEF Sliced
<1>31. /\ \A f \in 1..N : s2[f] = s[f]
       /\ \A k \in 1..w : s2[N + k] = M[k]
  BY DEF Added
<1>11. ASSUME NEW i \in 1..z
       PROVE  \/ i \in 1..first /\ i \in 1..q /\ s2[R[i]] = s[next[i]]
              \/ \E k \in 1..w : i = first + k /\ s2[R[i]] = M[k]
              \/ \E p \in 1..q : p > last /\ i = c + (p - last) /\ s2[R[i]] = s[next[p]]
  <2>1. CASE i <= first
    <3>1. i \in 1..first /\ i \in 1..q
      BY <2>1, <1>10
    <3>2. next[i] \in 1..N /\ R[i] = next[i]
      BY <3>1, <1>4, <1>7
    <3> QED
      BY <3>1, <3>2, <1>31
  <2>2. CASE ~ (i <= first) /\ i <= c
    <3>1. PICK k \in 1..w : k = i - first
      <4>1. i - first \in 1..w
        BY <2>2, <1>10
      <4> QED
        BY <4>1
    <3>2. i \in (first + 1)..c /\ i = first + k
      BY <2>2, <3>1, <1>10
    <3>3. R[i] = N + k
      BY <3>1, <3>2, <1>7
    <3> QED
      BY <3>2, <3>3, <1>31
  <2>3. CASE ~ (i <= c)
    <3>1. PICK p \in 1..q : p = i - c + last
      <4>1. i - c + last \in 1..q
        BY <2>3, <1>7, <1>10
      <4> QED
        BY <4>1
    <3>2. i \in (c + 1)..z /\ p > last /\ i = c + (p - last)
      BY <2>3, <3>1, <1>10
    <3>3. R[i] = next[p]
      BY <3>1, <3>2, <1>7
    <3>4. s2[R[i]] = s[next[p]]
      <4>1. PICK g \in 1..N : g = next[p]
        BY <1>4
      <4>2. s2[g] = s[g]
        BY <1>31
      <4> QED
        BY <3>3, <4>1, <4>2, Zenon
    <3> QED
      BY <3>2, <3>4
  <2> QED
    BY <2>1, <2>2, <2>3
<1>12. ASSUME NEW i \in 1..z, NEW j \in 1..z, i < j
       PROVE  Under(s2[R[i]], s2[R[j]])
  <2>1. CASE i \in 1..first /\ i \in 1..q /\ s2[R[i]] = s[next[i]]
    <3>1. CASE j \in 1..first /\ j \in 1..q /\ s2[R[j]] = s[next[j]]
      BY <1>9, <1>12, <2>1, <3>1
    <3>2. CASE \E k \in 1..w : j = first + k /\ s2[R[j]] = M[k]
      <4>1. Under(s[next[i]], S)
        BY <1>9, <2>1
      <4> QED
        BY <2>1, <3>2, <4>1, <1>30 DEF Under
    <3>3. CASE \E p \in 1..q : p > last /\ j = c + (p - last) /\ s2[R[j]] = s[next[p]]
      <4>1. PICK p \in 1..q : p > last /\ s2[R[j]] = s[next[p]]
        BY <3>3
      <4>2. i < p
        BY <2>1, <4>1, <1>10
      <4> QED
        BY <1>9, <2>1, <4>1, <4>2
    <3> QED
      BY <1>11, <3>1, <3>2, <3>3
  <2>2. CASE \E k \in 1..w : i = first + k /\ s2[R[i]] = M[k]
    <3>0. PICK k \in 1..w : i = first + k /\ s2[R[i]] = M[k]
      BY <2>2
    <3>1. CASE j \in 1..first /\ j \in 1..q /\ s2[R[j]] = s[next[j]]
      BY <3>0, <3>1, <1>10, <1>12
    <3>2. CASE \E p \in 1..w : j = first + p /\ s2[R[j]] = M[p]
      <4>1. PICK p \in 1..w : j = first + p /\ s2[R[j]] = M[p]
        BY <3>2
      <4>2. k < p
        BY <3>0, <4>1, <1>10, <1>12
      <4> QED
        BY <3>0, <4>1, <4>2, <1>30
    <3>3. CASE \E p \in 1..q : p > last /\ j = c + (p - last) /\ s2[R[j]] = s[next[p]]
      <4>1. PICK p \in 1..q : p > last /\ s2[R[j]] = s[next[p]]
        BY <3>3
      <4>2. Under(S, s[next[p]])
        BY <4>1, <1>9
      <4> QED
        BY <3>0, <4>1, <4>2, <1>30 DEF Under
    <3> QED
      BY <1>11, <3>1, <3>2, <3>3
  <2>3. CASE \E p \in 1..q : p > last /\ i = c + (p - last) /\ s2[R[i]] = s[next[p]]
    <3>0. PICK p \in 1..q : p > last /\ i = c + (p - last) /\ s2[R[i]] = s[next[p]]
      BY <2>3
    <3>1. CASE j \in 1..first /\ j \in 1..q /\ s2[R[j]] = s[next[j]]
      BY <3>0, <3>1, <1>10, <1>12
    <3>2. CASE \E k \in 1..w : j = first + k /\ s2[R[j]] = M[k]
      BY <3>0, <3>2, <1>10, <1>12
    <3>3. CASE \E r \in 1..q : r > last /\ j = c + (r - last) /\ s2[R[j]] = s[next[r]]
      <4>1. PICK r \in 1..q : r > last /\ j = c + (r - last) /\ s2[R[j]] = s[next[r]]
        BY <3>3
      <4>2. p < r
        BY <3>0, <4>1, <1>10, <1>12
      <4> QED
        BY <1>9, <3>0, <4>1, <4>2
    <3> QED
      BY <1>11, <3>1, <3>2, <3>3
  <2> QED
    BY <1>11, <2>1, <2>2, <2>3
<1>12a. n \in Nat /\ n <= h
  BY <1>6
<1>13. /\ DOMAIN m2[l] = 1..(h - n)
       /\ \A i \in 1..(h - n) : n + i \in 1..h /\ s2[m2[l][i]] = s[m[l][n + i]]
  <2>1. ASSUME NEW i \in 1..(h - n)
        PROVE  n + i \in 1..h /\ s2[m2[l][i]] = s[m[l][n + i]]
    <3>1. n + i \in 1..h
      <4>1. n \in Nat
        BY <1>12a
      <4> QED
        BY <4>1, ShiftUp
    <3>2. m2[l][i] = m[l][n + i]
      BY <1>1, <1>6
    <3>3. m[l][n + i] \in 1..N
      BY <3>1, <1>6
    <3> QED
      BY <3>1, <3>2, <3>3, <1>31
  <2>2. DOMAIN m2[l] = 1..(h - n)
    BY <1>1, <1>6
  <2> QED
    BY <2>1, <2>2
<1>14. ASSUME NEW k \in DOMAIN m2, k \notin {l, l + 1}
       PROVE  /\ k \in DOMAIN m /\ m2[k] = m[k]
              /\ \A i \in DOMAIN m[k] : s2[m2[k][i]] = s[m[k][i]]
  <2>1. k \in DOMAIN m /\ m2[k] = m[k]
    BY <1>1, <1>14
  <2>2. PICK a \in Seq(1..N) : a = m[k]
    BY <2>1, LenProperties
  <2>3. \A i \in DOMAIN a : a[i] \in 1..N
    BY LenProperties, ElementOfSeq
  <2>4. \A i \in DOMAIN m[k] : s2[m[k][i]] = s[m[k][i]]
    BY <2>2, <2>3, <1>31
  <2> QED
    BY <2>1, <2>4
<1>14a. \A k \in DOMAIN m : \A i \in DOMAIN m[k] : s[m[k][i]] # {}
  BY DEF Filled
<1>15. \A i \in 1..q : l + 1 \in DOMAIN m /\ i \in DOMAIN m[l + 1] /\ next[i] = m[l + 1][i]
  <2> SUFFICES ASSUME NEW i \in 1..q
               PROVE  l + 1 \in DOMAIN m /\ i \in DOMAIN m[l + 1] /\ next[i] = m[l + 1][i]
    OBVIOUS
  <2>1. q # 0
    OBVIOUS
  <2>2. i \in DOMAIN next
    BY <1>4, Zenon
  <2> QED
    BY <1>5, <2>1, <2>2, Zenon
<1>16. DOMAIN m2[l + 1] = 1..z
  BY <1>4, Zenon DEF R
<1>17. ASSUME NEW k \in DOMAIN m2, NEW i \in DOMAIN m2[k]
       PROVE  s2[m2[k][i]] # {}
  <2>1. CASE k \notin {l, l + 1}
    <3>1. k \in DOMAIN m /\ i \in DOMAIN m[k] /\ s2[m2[k][i]] = s[m[k][i]]
      <4>1. k \in DOMAIN m /\ m2[k] = m[k]
        BY <2>1, <1>14, Zenon
      <4>2. i \in DOMAIN m[k]
        BY <4>1, Zenon
      <4> QED
        BY <2>1, <1>14, <4>1, <4>2, Zenon
    <3> QED
      BY <3>1, <1>14a
  <2>2. CASE k = l
    <3>1. i \in 1..(h - n)
      BY <2>2, <1>13
    <3>2. n + i \in DOMAIN m[l] /\ s2[m2[k][i]] = s[m[l][n + i]]
      BY <2>2, <3>1, <1>6, <1>13
    <3> QED
      BY <3>2, <1>14a
  <2>3. CASE k = l + 1
    <3>1. i \in 1..z /\ m2[k][i] = R[i]
      <4>1. m2[k] = R
        BY <2>3 DEF R
      <4> QED
        BY <4>1, <1>4, Zenon
    <3>2. \A p \in 1..q : s[next[p]] # {}
      <4> SUFFICES ASSUME NEW p \in 1..q PROVE s[next[p]] # {}
        OBVIOUS
      <4>1. s[m[l + 1][p]] # {} /\ next[p] = m[l + 1][p]
        BY <1>14a, <1>15, Zenon
      <4> QED
        BY <4>1, Zenon
    <3>3. \/ i \in 1..q /\ s2[R[i]] = s[next[i]]
          \/ \E r \in 1..w : s2[R[i]] = M[r]
          \/ \E p \in 1..q : s2[R[i]] = s[next[p]]
      BY <3>1, <1>11
    <3> QED
      BY <3>1, <3>2, <3>3, <1>30
  <2> QED
    BY <2>1, <2>2, <2>3
<1>18. ASSUME NEW k \in DOMAIN m2, NEW i \in DOMAIN m2[k], NEW e \in s2[m2[k][i]]
       PROVE  \/ \E p : From(m, s, k, p, e) /\ (k = l => p > n)
              \/ k = l + 1 /\ \E p : From(m, s, l, p, e) /\ p <= n
  <2>1. CASE k \notin {l, l + 1}
    BY <2>1, <1>14 DEF From
  <2>2. CASE k = l
    <3>1. i \in 1..(h - n)
      BY <2>2, <1>13
    <3>2. n + i \in DOMAIN m[l] /\ s2[m2[k][i]] = s[m[l][n + i]]
      BY <2>2, <3>1, <1>6, <1>13
    <3>3. n + i > n
      BY <3>1, <1>12a
    <3>4. From(m, s, l, n + i, e)
      BY <3>2 DEF From
    <3> QED
      BY <2>2, <3>3, <3>4
  <2>3. CASE k = l + 1
    <3>1. i \in 1..z /\ m2[k][i] = R[i]
      <4>1. m2[k] = R
        BY <2>3 DEF R
      <4> QED
        BY <4>1, <1>4, Zenon
    <3>2. ASSUME NEW p \in 1..q, e \in s[next[p]]
          PROVE  From(m, s, k, p, e) /\ k # l
      BY <2>3, <3>2, <1>2, <1>15 DEF From
    <3>3. CASE \E p \in 1..q : e \in s[next[p]]
      BY <3>2, <3>3
    <3>4. CASE e \in S
      <4>1. CASE \E p \in 1..n : e \in s[m[l][p]]
        <5>1. PICK p \in 1..n : e \in s[m[l][p]]
          BY <4>1
        <5>2. From(m, s, l, p, e) /\ p <= n
          BY <5>1, <1>6 DEF From
        <5> QED
          BY <2>3, <5>2
      <4>2. CASE \E p \in (first + 1)..last : e \in s[next[p]]
        <5>1. \A p \in (first + 1)..last : p \in 1..q
          BY <1>10
        <5> QED
          BY <4>2, <5>1, <3>3
      <4> QED
        BY <3>4, <4>1, <4>2, <1>8
    <3>5. e \in S \/ \E p \in 1..q : e \in s[next[p]]
      <4>1. \/ i \in 1..q /\ s2[R[i]] = s[next[i]]
            \/ \E r \in 1..w : s2[R[i]] = M[r]
            \/ \E p \in 1..q : s2[R[i]] = s[next[p]]
        BY <3>1, <1>11
      <4>2. e \in s2[R[i]]
        BY <3>1
      <4> QED
        BY <4>1, <4>2, <1>30
    <3> QED
      BY <3>3, <3>4, <3>5
  <2> QED
    BY <2>1, <2>2, <2>3
<1>19. ASSUME NEW e \in S
       PROVE  \E g, i : From(m2, s2, g, i, e)
  <2>1. PICK k \in 1..w : e \in M[k]
    BY <1>30
  <2>2. first + k \in 1..z /\ first + k \in (first + 1)..c /\ (first + k) - first = k
    BY <1>7, <1>10
  <2>3. R[first + k] = N + k
    BY <2>2, <1>7
  <2>4. e \in s2[R[first + k]]
    BY <2>1, <2>3, <1>31
  <2>5. From(m2, s2, l + 1, first + k, e)
    BY <2>2, <2>4, <1>1, <1>16 DEF From, R
  <2> QED
    BY <2>5
<1>20. ASSUME NEW k \in DOMAIN m, NEW p \in DOMAIN m[k], NEW e \in s[m[k][p]]
       PROVE  \E g, i : From(m2, s2, g, i, e)
  <2>1. CASE k \notin {l, l + 1}
    <3>1. k \in DOMAIN m2
      BY <1>1
    <3>2. From(m2, s2, k, p, e)
      BY <2>1, <3>1, <1>14 DEF From
    <3> QED
      BY <3>2
  <2>2. CASE k = l
    <3>0. p \in 1..h
      BY <2>2, <1>6
    <3>1. CASE p <= n
      <4>1. p \in 1..n
        BY <3>0, <3>1, <1>6
      <4> QED
        BY <2>2, <4>1, <1>8, <1>19
    <3>2. CASE ~ (p <= n)
      <4>1. PICK i \in 1..(h - n) : n + i = p
        BY <3>0, <3>2, <1>12a, ShiftDown
      <4>2. i \in 1..(h - n) /\ n + i = p
        BY <4>1
      <4>3. i \in DOMAIN m2[l] /\ s2[m2[l][i]] = s[m[l][p]]
        BY <4>2, <1>13
      <4>4. From(m2, s2, l, i, e)
        BY <2>2, <4>3, <1>1 DEF From
      <4> QED
        BY <4>4
    <3> QED
      BY <3>1, <3>2
  <2>3. CASE k = l + 1
    <3>0. p \in 1..q /\ next[p] = m[k][p]
      BY <2>3, <1>3, <1>4
    <3>1. CASE p <= first
      <4>1. p \in 1..z /\ p \in 1..first
        BY <3>0, <3>1, <1>7, <1>10
      <4>2. s2[R[p]] = s[next[p]]
        BY <3>0, <4>1, <1>4, <1>7, <1>31
      <4>3. From(m2, s2, l + 1, p, e)
        BY <3>0, <4>1, <4>2, <1>1, <1>16 DEF From, R
      <4> QED
        BY <4>3
    <3>2. CASE p > last
      <4>0. z = c + (q - last) /\ p \in 1..q /\ c \in Nat
        <5>1. z = c + (q - last)
          BY <1>7
        <5>2. p \in 1..q
          BY <3>0
        <5>3. c \in Nat
          BY <1>10a
        <5> QED
          BY <5>1, <5>2, <5>3
      <4>1. PICK i \in Int : i = c + (p - last)
        BY <4>0, <1>10
      <4>2. i \in 1..z /\ i \in (c + 1)..z /\ i - c + last = p
        BY <3>2, <4>0, <4>1, <1>10
      <4>3. R[i] = next[p]
        BY <4>2, <1>7
      <4>4. s2[R[i]] = s[next[p]]
        <5>1. PICK g \in 1..N : g = next[p]
          BY <3>0, <1>4
        <5>2. s2[g] = s[g]
          BY <1>31
        <5> QED
          BY <4>3, <5>1, <5>2, Zenon
      <4>5. From(m2, s2, l + 1, i, e)
        BY <3>0, <4>2, <4>4, <1>1, <1>16 DEF From, R
      <4> QED
        BY <4>5
    <3>3. CASE ~ (p <= first) /\ ~ (p > last)
      <4>1. p \in (first + 1)..last
        BY <3>0, <3>3, <1>10
      <4>2. e \in S
        BY <3>0, <4>1, <1>8
      <4> QED
        BY <4>2, <1>19
    <3> QED
      BY <3>1, <3>2, <3>3
  <2> QED
    BY <2>1, <2>2, <2>3
<1>21. ASSUME first = 0
       PROVE  AtFront(m2, s2, l, M)
  <2>1. 1 \in (first + 1)..c /\ 1 - first = 1 /\ 1 \in 1..w /\ 1 \in 1..z
    BY <1>21, <1>7, <1>10
  <2>2. R[1] = N + 1
    BY <2>1, <1>7
  <2>3. s2[R[1]] = M[1]
    BY <2>1, <2>2, <1>31
  <2>4. R # <<>>
    BY <2>1, <1>4
  <2> QED
    BY <2>3, <2>4 DEF R, AtFront
<1>22. \A i, j \in DOMAIN m2[l + 1] : i < j => Under(s2[m2[l + 1][i]], s2[m2[l + 1][j]])
  BY <1>12, <1>16 DEF R
<1>23. ASSUME NEW i \in DOMAIN m2[l], NEW j \in DOMAIN m2[l], i < j
       PROVE  \E p, r \in DOMAIN m[l] : /\ p < r
                                        /\ s2[m2[l][i]] = s[m[l][p]]
                                        /\ s2[m2[l][j]] = s[m[l][r]]
  <2>1. n + i \in 1..h /\ n + j \in 1..h /\ n + i < n + j
    <3>1. i \in 1..(h - n) /\ j \in 1..(h - n)
      BY <1>13
    <3>2. n + i \in 1..h /\ n + j \in 1..h
      BY <3>1, <1>13
    <3>3. n + i < n + j
      BY <3>1, <1>12a, <1>23
    <3> QED
      BY <3>2, <3>3
  <2>2. s2[m2[l][i]] = s[m[l][n + i]] /\ s2[m2[l][j]] = s[m[l][n + j]]
    BY <1>13
  <2> QED
    BY <2>1, <2>2, <1>6
<1>24. \A k \in DOMAIN m2 : k \notin {l, l + 1} => k \in DOMAIN m /\ m2[k] = m[k]
  BY <1>14
<1>25. DOMAIN m2 = DOMAIN m \union {l + 1} /\ Len(m2[l]) = Len(m[l]) - n
  BY <1>1
<1>26. Moved(m, s, m2, s2, l, n)
  BY <1>17, <1>18, <1>20, <1>22, <1>23, <1>24, <1>25, Zenon DEF Moved
<1> QED
  BY <1>21, <1>26

-----------------------------------------------------------------------------
(* The inductive invariant of a store whose keys arrive in order.          *)
Older(A, B) == \A a \in A, b \in B : a.id < b.id

(* The keys that were written.                                             *)
Written == {k \in Keys : latest[k] # NoEntry}

(* Keys arrive in ascending order; in descending order.                    *)
Rising == \A j, k \in Written : j < k => latest[j].id < latest[k].id
Falling == \A j, k \in Written : j < k => latest[j].id > latest[k].id

(* Each key that was written has taken an entry id.                        *)
Counted ==
    /\ latest \in [Keys -> Entry \union {NoEntry}]
    /\ \A k \in Written : latest[k].key = k
    /\ IsFiniteSet(Written) /\ Cardinality(Written) <= entry_id_

(* What is held for a key is its last entry.                               *)
Known == \A e \in Held : latest[e.key] = e

(* Files are in the order of their age on level 0, of their keys on the    *)
(* others.                                                                 *)
Ranked(m, s) ==
    \A l \in DOMAIN m : \A i, j \in DOMAIN m[l] : i < j =>
        IF l = 1 THEN Older(s[m[l][i]], s[m[l][j]]) ELSE Under(s[m[l][i]], s[m[l][j]])

(* Level 0 is younger than the others; if keys are ascending each level is *)
(* younger than those below it.                                            *)
Aged(m, s) ==
    \A k, l \in DOMAIN m : k < l /\ (k = 1 \/ Rising) =>
        \A i \in DOMAIN m[k], j \in DOMAIN m[l] : Older(s[m[l][j]], s[m[k][i]])

(* Levels of a manifest in order.                                          *)
Layered(m, s) == Filled(m, s) /\ Ranked(m, s) /\ Aged(m, s)

(* The entries A are younger than all in the files of m.                   *)
Recent(m, s, A) == \A l \in DOMAIN m : \A i \in DOMAIN m[l] : Older(s[m[l][i]], A)

(* The first file of level l begins before everything below that level.    *)
Fronted(m, s, l) ==
    /\ m[l] # <<>>
    /\ \E e \in s[m[l][1]] : \A k \in DOMAIN m : k > l =>
          \A j \in DOMAIN m[k] : Under({e}, s[m[k][j]])

(* If keys are descending, a level that is full, or that the loop has just *)
(* filled, is fronted.                                                     *)
Fronts ==
    Falling /\ bg \in {"first", "level"} =>
        \A l \in DOMAIN manifest : l > 1 /\ l >= lvl =>
            Below(manifest, l) \/ Fronted(manifest, sst, l)

(* Nothing is lost.                                                        *)
Complete ==
    /\ bg # "failed" =>
          \A k \in Written :
              latest[k] \in mem_table_ \union immutable \union EntriesIn(version)
    /\ bg \in {"first", "level", "write"} => EntriesIn(version) \subseteq EntriesIn(manifest)

(* All this holds as long as keys arrive in order.                         *)
Ordered ==
    /\ Known
    /\ Layered(manifest, sst) /\ Layered(version, sst)
    /\ Recent(manifest, sst, immutable \union mem_table_)
    /\ Recent(version, sst, immutable \union mem_table_)
    /\ Older(immutable, mem_table_)
    /\ bg = "idle" => immutable = {}
    /\ bg \notin {"idle", "failed"} => immutable # {}
    /\ Fronts
    /\ Complete

(* The invariant: a client that leaves the order leaves Ordered, too.      *)
OrderInv == Counted /\ (InOrder => Ordered)

(* If keys arrive in order, the age of two entries tells their order.      *)
LEMMA ByAge ==
    ASSUME Parts, Counted, Known
    PROVE  /\ Held \subseteq Entry /\ IsFiniteSet(Held) /\ OneOfKey(Held)
           /\ \A e \in Held : e.key \in Written
           /\ Rising => \A a, b \in Held : a.id < b.id <=> Less(a, b)
           /\ Falling => \A a, b \in Held : a.id < b.id <=> Less(b, a)
           /\ Rising \/ Falling => ApartById(Held)
<1>1. Held \subseteq Entry /\ IsFiniteSet(Held)
  BY DEF Parts, Fresh
<1>2. \A e \in Held : e.key \in Keys /\ e.key \in Nat /\ e.id \in Nat /\ latest[e.key] = e
  BY <1>1, LSMAssumption DEF Known, Entry
<1>3. \A e \in Held : e.key \in Written
  <2>1. NoEntry.key = -1
    BY DEF NoEntry
  <2>2. \A e \in Held : e # NoEntry
    BY <1>2, <2>1
  <2> QED
    BY <1>2, <2>2 DEF Written
<1>4. OneOfKey(Held)
  BY <1>2 DEF OneOfKey
<1>5. ASSUME Rising, NEW a \in Held, NEW b \in Held
      PROVE  (a.id < b.id <=> Less(a, b)) /\ (a # b => a.id # b.id)
  <2>1. a.key < b.key => a.id < b.id
    BY <1>2, <1>3, <1>5 DEF Rising
  <2>2. b.key < a.key => b.id < a.id
    BY <1>2, <1>3, <1>5 DEF Rising
  <2>3. a.key = b.key => a = b
    BY <1>2
  <2> QED
    BY <1>2, <2>1, <2>2, <2>3 DEF Less
<1>6. ASSUME Falling, NEW a \in Held, NEW b \in Held
      PROVE  (a.id < b.id <=> Less(b, a)) /\ (a # b => a.id # b.id)
  <2>1. a.key < b.key => b.id < a.id
    BY <1>2, <1>3, <1>6 DEF Falling
  <2>2. b.key < a.key => a.id < b.id
    BY <1>2, <1>3, <1>6 DEF Falling
  <2>3. a.key = b.key => a = b
    BY <1>2
  <2> QED
    BY <1>2, <2>1, <2>2, <2>3 DEF Less
<1>7. Rising \/ Falling => ApartById(Held)
  BY <1>5, <1>6 DEF ApartById
<1> QED
  BY <1>1, <1>3, <1>4, <1>5, <1>6, <1>7

(* What a file holds: entries that differ in their ids.                    *)
Proper(S) == S \subseteq Entry /\ IsFiniteSet(S) /\ ApartById(S) /\ S # {}

(* Every file that a manifest lists is one of these.                       *)
LEMMA HeldFiles ==
    ASSUME Parts, Counted, Known, Rising \/ Falling,
           NEW m \in Seq(Seq(1..Len(sst))), Filled(m, sst),
           NEW k \in DOMAIN m, NEW i \in DOMAIN m[k]
    PROVE  /\ m[k][i] \in 1..Len(sst) /\ m[k][i] \in DOMAIN sst
           /\ sst[m[k][i]] \subseteq Held /\ Proper(sst[m[k][i]])
<1>1. PICK N \in Nat : N = Len(sst) /\ DOMAIN sst = 1..N
  BY LenProperties DEF Parts, Typed
<1>2. PICK a \in Seq(1..N) : a = m[k]
  BY <1>1, LenProperties
<1>3. a[i] \in 1..N
  BY <1>2, LenProperties, ElementOfSeq
<1>4. m[k][i] \in 1..Len(sst) /\ m[k][i] \in DOMAIN sst
  BY <1>1, <1>2, <1>3
<1>5. sst[m[k][i]] \subseteq Held
  BY <1>4 DEF Held
<1>6. sst[m[k][i]] # {}
  BY DEF Filled
<1>7. /\ Held \subseteq Entry /\ IsFiniteSet(Held) /\ ApartById(Held)
  BY ByAge
<1>8. IsFiniteSet(sst[m[k][i]])
  BY <1>5, <1>7, FS_Subset
<1> QED
  BY <1>4, <1>5, <1>6, <1>7, <1>8 DEF Proper, ApartById

-----------------------------------------------------------------------------
(* Plan.  The smallest and the largest entry of a file.                    *)
LEMMA ProperEnds ==
    ASSUME NEW S, Proper(S)
    PROVE  /\ Smallest(S) \in S /\ Smallest(S) \in Entry
           /\ Largest(S) \in S /\ Largest(S) \in Entry
           /\ \A d \in S : d = Smallest(S) \/ Less(Smallest(S), d)
           /\ \A d \in S : d = Largest(S) \/ Less(d, Largest(S))
BY Extremes DEF Proper

(* A set of positions that has with one all before it.                     *)
LEMMA Prefix ==
    ASSUME NEW q \in Nat, NEW G \in SUBSET (1..q),
           \A i, j \in 1..q : i < j /\ j \in G => i \in G
    PROVE  \E t \in 0..q : G = 1..t
<1>1. CASE G = {}
  <2>1. 0 \in 0..q /\ 1..0 = {}
    OBVIOUS
  <2> QED
    BY <1>1, <2>1
<1>2. CASE G # {}
  <2>1. G \in SUBSET (0..q)
    OBVIOUS
  <2>2. PICK t \in G : \A y \in G : t >= y
    BY <1>2, <2>1, MaxProperties
  <2>3. t \in 1..q
    OBVIOUS
  <2>4. \A i \in 1..t : i \in G
    <3> SUFFICES ASSUME NEW i \in 1..t PROVE i \in G
      OBVIOUS
    <3>1. i \in 1..q /\ (i < t \/ i = t)
      BY <2>3
    <3> QED
      BY <2>3, <3>1
  <2>5. \A i \in G : i \in 1..t
    BY <2>2, <2>3
  <2>6. G = 1..t
    <3>1. PICK U : U = 1..t
      OBVIOUS
    <3>2. \A i : i \in U <=> i \in G
      BY <2>4, <2>5, <3>1, Zenon
    <3> QED
      BY <3>1, <3>2, Zenon
  <2>7. t \in 0..q
    BY <2>3
  <2> QED
    BY <2>6, <2>7
<1> QED
  BY <1>1, <1>2

(* The files of the next level in a merge: in order, none of them empty.   *)
InRow(next, q) ==
    /\ next \in Seq(1..Len(sst)) /\ Len(next) = q /\ DOMAIN next = 1..q
    /\ \A i \in 1..q : Proper(sst[next[i]])
    /\ \A i, j \in 1..q : i < j => Under(sst[next[i]], sst[next[j]])

(* What is merged begins before the whole of the next level: the files     *)
(* that take part are the first ones, and the new files go to the front.   *)
LEMMA PlanFront ==
    ASSUME NEW next, NEW q \in Nat, InRow(next, q), NEW lo \in Entry, NEW hi \in Entry,
           \A i \in 1..q : Under({lo}, sst[next[i]])
    PROVE  \E t \in 0..q :
              /\ NextFiles(next, lo, hi) = 1..t
              /\ Stretch(NextFiles(next, lo, hi), InsertFrom(next, lo, hi), 0, t)
              /\ \A i \in 1..q : i > t => Under({hi}, sst[next[i]])
<1> DEFINE G == {i \in 1..q : ~ Less(hi, Smallest(sst[next[i]]))}
<1>1. ASSUME NEW i \in 1..q
      PROVE  /\ Smallest(sst[next[i]]) \in sst[next[i]] /\ Smallest(sst[next[i]]) \in Entry
             /\ Largest(sst[next[i]]) \in sst[next[i]] /\ Largest(sst[next[i]]) \in Entry
             /\ \A d \in sst[next[i]] :
                   d \in Entry /\ (d = Smallest(sst[next[i]]) \/ Less(Smallest(sst[next[i]]), d))
  <2>1. Proper(sst[next[i]])
    BY DEF InRow
  <2>2. sst[next[i]] \subseteq Entry
    BY <2>1 DEF Proper
  <2> QED
    BY <2>1, <2>2, ProperEnds
<1>2. ASSUME NEW i \in 1..q
      PROVE  /\ Overlaps(sst[next[i]], lo, hi) <=> i \in G
             /\ Beyond(sst[next[i]], lo, hi) <=> i \notin G
  <2>1. Less(lo, Largest(sst[next[i]]))
    BY <1>1 DEF Under
  <2>2. ~ Less(Largest(sst[next[i]]), lo)
    BY <1>1, <2>1, LessOrder
  <2> QED
    BY <2>2 DEF Overlaps, Beyond
<1>3. ASSUME NEW i \in 1..q, NEW j \in 1..q, i < j, j \in G
      PROVE  i \in G
  <2>1. Less(Smallest(sst[next[i]]), Smallest(sst[next[j]]))
    BY <1>1, <1>3 DEF Under, InRow
  <2>2. Less(hi, Smallest(sst[next[i]])) => Less(hi, Smallest(sst[next[j]]))
    BY <1>1, <2>1, LessOrder
  <2> QED
    BY <1>3, <2>2
<1>4. PICK t \in 0..q : G = 1..t
  <2>1. G \in SUBSET (1..q)
    OBVIOUS
  <2> HIDE DEF G
  <2> QED
    BY <1>3, <2>1, Prefix
<1>5. ASSUME NEW i \in 1..q, i > t
      PROVE  Under({hi}, sst[next[i]])
  <2>1. i \notin G
    BY <1>4, <1>5
  <2>2. Less(hi, Smallest(sst[next[i]]))
    BY <2>1
  <2>3. \A d \in sst[next[i]] : Less(hi, d)
    BY <1>1, <2>2, LessOrder
  <2> QED
    BY <2>3 DEF Under
<1> HIDE DEF G
<1>6. DOMAIN next = 1..q /\ Len(next) = q
  BY DEF InRow
<1>7. NextFiles(next, lo, hi) = 1..t
  <2>1. \A i \in 1..t : i \in 1..q
    OBVIOUS
  <2>2. \A i \in 1..t : i \in Scanned(next, lo, hi)
    <3> SUFFICES ASSUME NEW i \in 1..t
                 PROVE  \A j \in 1..i : ~ Beyond(sst[next[j]], lo, hi)
      BY <1>6, <2>1 DEF Scanned
    <3> TAKE j \in 1..i
    <3>1. j \in 1..t /\ j \in 1..q
      OBVIOUS
    <3> QED
      BY <1>2, <1>4, <3>1
  <2>3. \A i : i \in NextFiles(next, lo, hi) => i \in 1..t
    BY <1>2, <1>4, <1>6 DEF NextFiles, Scanned
  <2>4. \A i \in 1..t : i \in NextFiles(next, lo, hi)
    BY <1>2, <1>4, <2>1, <2>2 DEF NextFiles
  <2> QED
    BY <2>3, <2>4
<1>8. Stretch(NextFiles(next, lo, hi), InsertFrom(next, lo, hi), 0, t)
  <2>1. PICK A : A = NextFiles(next, lo, hi)
    OBVIOUS
  <2>2. CASE t = 0
    <3>1. A = {}
      BY <1>7, <2>1, <2>2
    <3>2. InsertFrom(next, lo, hi) = 0
      <4>1. CASE next = <<>>
        BY <2>1, <3>1, <4>1 DEF InsertFrom
      <4>2. CASE next # <<>>
        <5>1. 1 \in 1..q
          <6>1. q # 0
            BY <1>6, <4>2, EmptySeq DEF InRow
          <6> QED
            BY <6>1
        <5>2. Beyond(sst[next[1]], lo, hi)
          BY <1>2, <1>4, <2>2, <5>1
        <5> QED
          BY <2>1, <3>1, <4>2, <5>2 DEF InsertFrom
      <4> QED
        BY <4>1, <4>2
    <3> QED
      BY <2>1, <2>2, <3>1, <3>2 DEF Stretch
  <2>3. CASE t # 0
    <3>1. A \in SUBSET Nat /\ A \in SUBSET (0..t) /\ 1 \in A /\ t \in A /\ t \in Nat
      BY <1>7, <2>1, <2>3
    <3>2. PICK x : x = Min(A)
      OBVIOUS
    <3>3. x \in A /\ \A y \in A : x <= y
      BY <3>1, <3>2, MinProperties
    <3>4. x = 1
      BY <1>7, <2>1, <3>1, <3>3
    <3>5. PICK z : z = Max(A)
      OBVIOUS
    <3>6. z \in A /\ \A y \in A : z >= y
      BY <3>1, <3>5, MaxProperties
    <3>7. z = t
      BY <1>7, <2>1, <3>1, <3>6
    <3> QED
      BY <2>1, <3>1, <3>2, <3>4, <3>5, <3>7 DEF Stretch
  <2> QED
    BY <2>2, <2>3
<1> QED
  BY <1>5, <1>7, <1>8

(* What is merged begins behind the whole of the next level: none of its   *)
(* files takes part, and the new files go to the back.                     *)
LEMMA PlanBack ==
    ASSUME NEW next, NEW q \in Nat, InRow(next, q), NEW lo \in Entry, NEW hi \in Entry,
           \A i \in 1..q : Under(sst[next[i]], {lo})
    PROVE  /\ NextFiles(next, lo, hi) = {}
           /\ Stretch(NextFiles(next, lo, hi), InsertFrom(next, lo, hi), q, q)
<1>1. DOMAIN next = 1..q /\ Len(next) = q
  BY DEF InRow
<1>2. ASSUME NEW i \in 1..q
      PROVE  Less(Largest(sst[next[i]]), lo)
  <2>1. Proper(sst[next[i]])
    BY DEF InRow
  <2> QED
    BY <2>1, ProperEnds DEF Under
<1>3. NextFiles(next, lo, hi) = {}
  BY <1>1, <1>2 DEF NextFiles, Scanned, Overlaps
<1>4. InsertFrom(next, lo, hi) = q
  <2>1. CASE next = <<>>
    BY <1>1, <1>3, <2>1 DEF InsertFrom
  <2>2. CASE next # <<>>
    <3>1. 1 \in 1..q
      <4>1. q # 0
        BY <1>1, <2>2, EmptySeq DEF InRow
      <4> QED
        BY <4>1
    <3>2. ~ Beyond(sst[next[1]], lo, hi)
      BY <1>2, <3>1 DEF Beyond
    <3> QED
      BY <1>1, <1>3, <2>2, <3>2 DEF InsertFrom
  <2> QED
    BY <2>1, <2>2
<1> QED
  BY <1>3, <1>4 DEF Stretch

-----------------------------------------------------------------------------
(* CompactSST when keys arrive in order.                                   *)
Settled == Parts /\ Counted /\ Known /\ (Rising \/ Falling) /\ Layered(manifest, sst)

(* The files of a level and their number.                                  *)
LEMMA SettledFiles ==
    ASSUME Settled
    PROVE  /\ manifest \in Seq(Seq(1..Len(sst))) /\ Len(sst) \in Nat
           /\ \A k \in DOMAIN manifest :
                 /\ Len(manifest[k]) \in Nat /\ DOMAIN manifest[k] = 1..Len(manifest[k])
                 /\ \A i \in DOMAIN manifest[k] :
                       /\ sst[manifest[k][i]] \subseteq Held
                       /\ Proper(sst[manifest[k][i]])
           /\ Held \subseteq Entry /\ IsFiniteSet(Held) /\ ApartById(Held) /\ OneOfKey(Held)
<1>1. Parts /\ Counted /\ Known /\ (Rising \/ Falling) /\ Filled(manifest, sst)
  BY DEF Settled, Layered
<1>2. manifest \in Seq(Seq(1..Len(sst))) /\ Len(sst) \in Nat
  BY <1>1, LenProperties DEF Parts, Typed
<1>3. \A k \in DOMAIN manifest :
         Len(manifest[k]) \in Nat /\ DOMAIN manifest[k] = 1..Len(manifest[k])
  BY <1>2, LevelLengths
<1>4. \A k \in DOMAIN manifest : \A i \in DOMAIN manifest[k] :
         sst[manifest[k][i]] \subseteq Held /\ Proper(sst[manifest[k][i]])
  BY <1>1, <1>2, HeldFiles
<1>5. Held \subseteq Entry /\ IsFiniteSet(Held) /\ ApartById(Held) /\ OneOfKey(Held)
  BY <1>1, ByAge
<1> QED
  BY <1>2, <1>3, <1>4, <1>5

(* The files of level 0 that meet the range of its first ones are these.   *)
LEMMA CurrentFirst ==
    ASSUME Settled, NEW l \in DOMAIN manifest, NEW n \in 1..Len(manifest[l]),
           NEW C, C = EntriesOf(manifest[l], 1..n)
    PROVE  /\ Proper(C) /\ C \subseteq Held
           /\ \A i \in 1..n : i \in DOMAIN manifest[l] /\ sst[manifest[l][i]] \subseteq C
           /\ \A e \in C : \E i \in 1..n : e \in sst[manifest[l][i]]
           /\ Current(manifest, l, 1..n, Smallest(C), Largest(C)) = 1..n
<1>1. PICK h \in Nat : h = Len(manifest[l]) /\ DOMAIN manifest[l] = 1..h /\ n \in 1..h
  BY SettledFiles
<1>2. \A i \in 1..n : i \in DOMAIN manifest[l]
  BY <1>1
<1>3. /\ \A i \in 1..n : sst[manifest[l][i]] \subseteq C
      /\ \A e \in C : \E i \in 1..n : e \in sst[manifest[l][i]]
  <2>1. PICK I : I = 1..n
    OBVIOUS
  <2>2. C = UNION {sst[manifest[l][i]] : i \in I}
    BY <2>1 DEF EntriesOf
  <2>3. /\ \A i \in I : sst[manifest[l][i]] \subseteq C
        /\ \A e \in C : \E i \in I : e \in sst[manifest[l][i]]
    BY <2>2
  <2> QED
    BY <2>1, <2>3
<1>4. C \subseteq Held
  BY <1>2, <1>3, SettledFiles
<1>5. C # {}
  <2>1. 1 \in 1..n
    BY <1>1
  <2>2. Proper(sst[manifest[l][1]])
    BY <1>2, <2>1, SettledFiles
  <2> QED
    BY <1>3, <2>1, <2>2 DEF Proper
<1>6. Proper(C)
  <2>1. IsFiniteSet(C)
    BY <1>4, FS_Subset, SettledFiles
  <2> QED
    BY <1>4, <1>5, <2>1, SettledFiles DEF Proper, ApartById
<1>7. PICK lo, hi : lo = Smallest(C) /\ hi = Largest(C)
  OBVIOUS
<1>8. /\ lo \in C /\ hi \in C /\ lo \in Held /\ hi \in Held
      /\ \A d \in C : d = lo \/ Less(lo, d)
      /\ \A d \in C : d = hi \/ Less(d, hi)
  BY <1>4, <1>6, <1>7, ProperEnds
<1>9. ASSUME l = 1, NEW i \in DOMAIN manifest[1], i > n
      PROVE  ~ Overlaps(sst[manifest[1][i]], lo, hi)
  <2>1. PICK T : T = sst[manifest[1][i]]
    OBVIOUS
  <2>2. Proper(T) /\ T \subseteq Held
    BY <1>9, <2>1, SettledFiles
  <2>3. /\ Smallest(T) \in T /\ Smallest(T) \in Held
        /\ Largest(T) \in T /\ Largest(T) \in Held
    BY <2>2, ProperEnds
  <2>4. \A d \in C, b \in T : d.id < b.id
    <3> SUFFICES ASSUME NEW d \in C, NEW b \in T PROVE d.id < b.id
      OBVIOUS
    <3>1. PICK j \in 1..n : d \in sst[manifest[1][j]]
      BY <1>3, <1>9
    <3>2. j \in DOMAIN manifest[1] /\ j < i
      BY <1>1, <1>2, <1>9, <3>1
    <3>3. Older(sst[manifest[1][j]], T)
      BY <1>9, <2>1, <3>2 DEF Settled, Layered, Ranked
    <3> QED
      BY <3>1, <3>3 DEF Older
  <2>5. CASE Rising
    <3>1. \A a, b \in Held : a.id < b.id <=> Less(a, b)
      BY <2>5, ByAge DEF Settled
    <3>2. Less(hi, Smallest(T))
      BY <1>8, <2>3, <2>4, <3>1
    <3> QED
      BY <2>1, <3>2 DEF Overlaps
  <2>6. CASE Falling
    <3>1. \A a, b \in Held : a.id < b.id <=> Less(b, a)
      BY <2>6, ByAge DEF Settled
    <3>2. Less(Largest(T), lo)
      BY <1>8, <2>3, <2>4, <3>1
    <3> QED
      BY <2>1, <3>2 DEF Overlaps
  <2> QED
    BY <2>5, <2>6 DEF Settled
<1>10. Current(manifest, l, 1..n, lo, hi) = 1..n
  <2>1. PICK I : I = 1..n
    OBVIOUS
  <2>2. \A i \in DOMAIN manifest[l] : l = 1 /\ Overlaps(sst[manifest[l][i]], lo, hi) => i \in I
    <3> SUFFICES ASSUME NEW i \in DOMAIN manifest[l], l = 1,
                        Overlaps(sst[manifest[l][i]], lo, hi)
                 PROVE  i \in I
      OBVIOUS
    <3>1. ~ (i > n)
      BY <1>9
    <3> QED
      BY <1>1, <2>1, <3>1
  <2> QED
    BY <2>1, <2>2 DEF Current
<1> QED
  BY <1>2, <1>3, <1>4, <1>6, <1>7, <1>10

(* What is below level l, compared with the first files of that level.     *)
LEMMA DeeperFiles ==
    ASSUME Settled, NEW l \in DOMAIN manifest, NEW n \in 1..Len(manifest[l]),
           Falling /\ l # 1 => Fronted(manifest, sst, l),
           NEW C, C = EntriesOf(manifest[l], 1..n),
           NEW k \in DOMAIN manifest, k > l, NEW j \in DOMAIN manifest[k]
    PROVE  /\ Falling => Under({Smallest(C)}, sst[manifest[k][j]])
           /\ Rising => Under(sst[manifest[k][j]], C)
<1>1. PICK lo : lo = Smallest(C)
  OBVIOUS
<1>2. /\ Proper(C) /\ C \subseteq Held
      /\ \A i \in 1..n : i \in DOMAIN manifest[l] /\ sst[manifest[l][i]] \subseteq C
      /\ \A e \in C : \E i \in 1..n : e \in sst[manifest[l][i]]
  BY CurrentFirst
<1>3. lo \in C /\ lo \in Held /\ \A d \in C : d = lo \/ Less(lo, d)
  BY <1>1, <1>2, ProperEnds
<1>4. sst[manifest[k][j]] \subseteq Held /\ Held \subseteq Entry
  BY SettledFiles
<1>5. ASSUME l = 1 \/ Rising, NEW a \in sst[manifest[k][j]], NEW c \in C
      PROVE  a.id < c.id
  <2>1. PICK i \in DOMAIN manifest[l] : c \in sst[manifest[l][i]]
    BY <1>2
  <2>2. Older(sst[manifest[k][j]], sst[manifest[l][i]])
    <3>1. Aged(manifest, sst) /\ l < k
      <4>1. l \in Nat /\ k \in Nat
        <5>1. manifest \in Seq(Seq(1..Len(sst)))
          BY SettledFiles
        <5>2. PICK z \in Nat : DOMAIN manifest = 1..z
          BY <5>1, LevelLengths
        <5> QED
          BY <5>2
      <4> QED
        BY <4>1 DEF Settled, Layered
    <3> QED
      BY <1>5, <3>1 DEF Aged
  <2> QED
    BY <2>1, <2>2 DEF Older
<1>6. ASSUME Rising
      PROVE  Under(sst[manifest[k][j]], C)
  <2>1. \A a, b \in Held : a.id < b.id <=> Less(a, b)
    BY <1>6, ByAge DEF Settled
  <2> QED
    BY <1>2, <1>4, <1>5, <1>6, <2>1 DEF Under
<1>7. ASSUME Falling
      PROVE  Under({lo}, sst[manifest[k][j]])
  <2>1. CASE l = 1
    <3>1. \A a, b \in Held : a.id < b.id <=> Less(b, a)
      BY <1>7, ByAge DEF Settled
    <3> QED
      BY <1>3, <1>4, <1>5, <2>1, <3>1 DEF Under
  <2>2. CASE l # 1
    <3>1. PICK e \in sst[manifest[l][1]] : Under({e}, sst[manifest[k][j]])
      BY <1>7, <2>2 DEF Fronted
    <3>2. 1 \in 1..n
      <4>1. PICK z \in Nat : n \in 1..z
        BY SettledFiles
      <4> QED
        BY <4>1
    <3>3. e \in C
      BY <1>2, <3>1, <3>2
    <3>4. e = lo \/ Less(lo, e)
      BY <1>3, <3>3
    <3>5. lo \in Entry /\ e \in Entry
      BY <1>2, <1>3, <1>4, <3>3
    <3> SUFFICES ASSUME NEW b \in sst[manifest[k][j]] PROVE Less(lo, b)
      BY DEF Under
    <3>6. Less(e, b) /\ b \in Entry
      BY <1>4, <3>1 DEF Under
    <3> QED
      BY <3>4, <3>5, <3>6, LessOrder
  <2> QED
    BY <2>1, <2>2
<1> QED
  BY <1>1, <1>6, <1>7

(* Where the merged files go: between two parts of the next level, before  *)
(* all of it if keys are descending.                                       *)
LEMMA PlanInOrder ==
    ASSUME Settled, NEW l \in DOMAIN manifest, NEW n \in 1..Len(manifest[l]),
           Falling /\ l # 1 => Fronted(manifest, sst, l),
           NEW plan, plan = Plan(manifest, l, 1..n)
    PROVE  \E first, last \in Nat :
              /\ Stretch(plan.next, plan.insert, first, last)
              /\ plan.current = 1..n /\ plan.next = (first + 1)..last
              /\ Fits(manifest, sst, l, n, first, last)
              /\ Falling => first = 0
<1>1. PICK C, lo, hi, next : /\ C = EntriesOf(manifest[l], 1..n)
                             /\ lo = Smallest(C) /\ hi = Largest(C)
                             /\ next = Level(manifest, l + 1)
  OBVIOUS
<1>2. /\ plan.current = Current(manifest, l, 1..n, lo, hi)
      /\ plan.next = NextFiles(next, lo, hi)
      /\ plan.insert = InsertFrom(next, lo, hi)
  BY <1>1 DEF Plan
<1>3. plan.current = 1..n
  BY <1>1, <1>2, CurrentFirst
<1>4. manifest \in Seq(Seq(1..Len(sst))) /\ l \in Nat \ {0} /\ l + 1 \in Nat \ {0} /\ l + 1 > l
  <2>1. manifest \in Seq(Seq(1..Len(sst)))
    BY SettledFiles
  <2>2. PICK z \in Nat : DOMAIN manifest = 1..z
    BY <2>1, LevelLengths
  <2> QED
    BY <2>1, <2>2
<1>5. /\ next \in Seq(1..Len(sst)) /\ Len(next) \in Nat /\ DOMAIN next = 1..Len(next)
      /\ l + 1 \in DOMAIN manifest => next = manifest[l + 1]
      /\ l + 1 \notin DOMAIN manifest => next = <<>>
  BY <1>1, <1>4, LevelType
<1>6. PICK q \in Nat : q = Len(next) /\ DOMAIN next = 1..q
  BY <1>5
<1>7. \A i \in 1..q : /\ l + 1 \in DOMAIN manifest /\ i \in DOMAIN manifest[l + 1]
                      /\ next[i] = manifest[l + 1][i]
  BY <1>5, <1>6
<1>8. InRow(next, q)
  <2>1. \A i \in 1..q : Proper(sst[next[i]])
    BY <1>7, SettledFiles
  <2>2. ASSUME NEW i \in 1..q, NEW j \in 1..q, i < j
        PROVE  Under(sst[next[i]], sst[next[j]])
    <3>1. /\ l + 1 \in DOMAIN manifest /\ l + 1 # 1
          /\ i \in DOMAIN manifest[l + 1] /\ j \in DOMAIN manifest[l + 1]
          /\ next[i] = manifest[l + 1][i] /\ next[j] = manifest[l + 1][j]
      BY <1>4, <1>7
    <3> QED
      BY <2>2, <3>1 DEF Settled, Layered, Ranked
  <2> QED
    BY <1>5, <1>6, <2>1, <2>2 DEF InRow
<1>9. /\ Proper(C) /\ C \subseteq Held /\ lo \in Entry /\ hi \in Entry
      /\ \A d \in C : d = hi \/ Less(d, hi)
  <2>1. Proper(C) /\ C \subseteq Held
    BY <1>1, CurrentFirst
  <2> QED
    BY <1>1, <2>1, ProperEnds
<1>10. /\ Falling => \A i \in 1..q : Under({lo}, sst[next[i]])
       /\ Rising => \A i \in 1..q : Under(sst[next[i]], C)
  <2>1. ASSUME NEW i \in 1..q
        PROVE  /\ Falling => Under({lo}, sst[next[i]])
               /\ Rising => Under(sst[next[i]], C)
    <3>1. /\ l + 1 \in DOMAIN manifest /\ i \in DOMAIN manifest[l + 1]
          /\ next[i] = manifest[l + 1][i]
      BY <1>7
    <3>2. /\ Falling => Under({lo}, sst[manifest[l + 1][i]])
          /\ Rising => Under(sst[manifest[l + 1][i]], C)
      BY <1>1, <1>4, <3>1, DeeperFiles
    <3> QED
      BY <3>1, <3>2
  <2> QED
    BY <2>1
<1>11. \A i, j \in DOMAIN next : i < j => Under(sst[next[i]], sst[next[j]])
  BY <1>6, <1>8 DEF InRow
<1>12. \A first, last : Taken(manifest, sst, l, n, first, last)
                        = C \union Contents(next, sst, (first + 1)..last)
  BY <1>1 DEF Taken, Contents, EntriesOf
<1>13. CASE Falling
  <2>1. PICK t \in 0..q :
              /\ NextFiles(next, lo, hi) = 1..t
              /\ Stretch(NextFiles(next, lo, hi), InsertFrom(next, lo, hi), 0, t)
              /\ \A i \in 1..q : i > t => Under({hi}, sst[next[i]])
    BY <1>8, <1>9, <1>10, <1>13, PlanFront
  <2>2. PICK S : S = Taken(manifest, sst, l, n, 0, t)
    OBVIOUS
  <2>3. ASSUME NEW i \in DOMAIN next, i > t
        PROVE  Under(S, sst[next[i]])
    <3> SUFFICES ASSUME NEW e \in S, NEW b \in sst[next[i]] PROVE Less(e, b)
      BY DEF Under
    <3>1. i \in 1..q /\ b \in Entry
      BY <1>6, <1>8 DEF InRow, Proper
    <3>2. CASE e \in C
      <4>1. Less(hi, b)
        BY <2>1, <2>3, <3>1 DEF Under
      <4>2. e = hi \/ Less(e, hi)
        BY <1>9, <3>2
      <4>3. e \in Entry
        BY <1>9, <3>2 DEF Proper
      <4> QED
        BY <1>9, <3>1, <4>1, <4>2, <4>3, LessOrder
    <3>3. CASE e \in Contents(next, sst, (0 + 1)..t)
      <4>1. PICK J : J = (0 + 1)..t
        OBVIOUS
      <4>2. PICK p \in J : e \in sst[next[p]]
        BY <3>3, <4>1, ContentsEntries
      <4>3. p \in 1..q /\ p < i
        BY <2>1, <2>3, <3>1, <4>1
      <4> QED
        BY <1>6, <1>11, <3>1, <4>2, <4>3 DEF Under
    <3> QED
      BY <1>12, <2>2, <3>2, <3>3
  <2>4. \A i \in 1..0 : FALSE
    OBVIOUS
  <2>5. Fits(manifest, sst, l, n, 0, t)
    BY <1>1, <1>11, <2>2, <2>3, <2>4 DEF Fits
  <2>6. 0 \in Nat /\ t \in Nat /\ plan.next = (0 + 1)..t
    BY <1>2, <2>1
  <2> QED
    BY <1>2, <1>3, <2>1, <2>5, <2>6
<1>14. CASE ~ Falling
  <2>0. Rising
    BY <1>14 DEF Settled
  <2>1. \A i \in 1..q : Under(sst[next[i]], {lo})
    <3>1. lo \in C
      BY <1>1, <1>9, ProperEnds
    <3> QED
      BY <1>10, <2>0, <3>1 DEF Under
  <2>2. /\ NextFiles(next, lo, hi) = {}
        /\ Stretch(NextFiles(next, lo, hi), InsertFrom(next, lo, hi), q, q)
    BY <1>8, <1>9, <2>1, PlanBack
  <2>3. (q + 1)..q = {}
    OBVIOUS
  <2>4. PICK S : S = Taken(manifest, sst, l, n, q, q)
    OBVIOUS
  <2>5. S = C
    <3>1. PICK J : J = (q + 1)..q
      OBVIOUS
    <3>2. Contents(next, sst, J) = {}
      BY <2>3, <3>1 DEF Contents
    <3>3. S = C \union Contents(next, sst, J)
      BY <1>12, <2>4, <3>1
    <3> QED
      BY <3>2, <3>3
  <2>6. \A i \in 1..q : Under(sst[next[i]], S)
    BY <1>10, <2>0, <2>5
  <2>7. \A i \in DOMAIN next : ~ (i > q)
    BY <1>6
  <2>8. Fits(manifest, sst, l, n, q, q)
    BY <1>1, <1>11, <2>4, <2>6, <2>7 DEF Fits
  <2> QED
    BY <1>2, <1>3, <1>14, <2>2, <2>3, <2>8
<1> QED
  BY <1>13, <1>14

(* The files that CompactSST adds.                                         *)
LEMMA AddedFiles ==
    ASSUME NEW N \in Nat, NEW w \in Nat, NEW s \in Seq(SUBSET Entry), Len(s) = N,
           NEW M \in Seq(SUBSET Entry), Len(M) = w,
           NEW s2, s2 = s \o M
    PROVE  Added(s, s2, N, M, w)
<1>1. \A i \in 1..(N + w) : s2[i] = IF i <= N THEN s[i] ELSE M[i - N]
  BY ConcatProperties
<1>2. \A f \in 1..N : s2[f] = s[f]
  BY <1>1
<1>3. \A k \in 1..w : s2[N + k] = M[k]
  <2> TAKE k \in 1..w
  <2>1. N + k \in 1..(N + w) /\ ~ (N + k <= N) /\ N + k - N = k
    OBVIOUS
  <2> QED
    BY <1>1, <2>1
<1>4. DOMAIN s2 = 1..(N + w)
  <2>1. s2 \in Seq(SUBSET Entry) /\ Len(s2) = N + w
    BY ConcatProperties
  <2> QED
    BY <2>1, LenProperties
<1> QED
  BY <1>2, <1>3, <1>4 DEF Added

(* A compaction moves the entries of the first files down a level.         *)
LEMMA CompactInOrder ==
    ASSUME Settled, NEW l \in DOMAIN manifest, NEW n \in 1..Len(manifest[l]),
           Falling /\ l # 1 => Fronted(manifest, sst, l),
           CompactSST(l, 1..n)
    PROVE  /\ Moved(manifest, sst, manifest', sst', l, n)
           /\ \A f \in 1..Len(sst) : sst'[f] = sst[f]
           /\ \A f \in DOMAIN sst' : sst'[f] \subseteq Held
           /\ Falling =>
                 /\ manifest'[l + 1] # <<>>
                 /\ \E e \in sst'[manifest'[l + 1][1]] :
                       \A k \in DOMAIN manifest : k > l =>
                          \A j \in DOMAIN manifest[k] : Under({e}, sst[manifest[k][j]])
<1>1. PICK N \in Nat : N = Len(sst) /\ DOMAIN sst = 1..N
  BY LenProperties DEF Settled, Parts, Typed
<1>2. /\ sst \in Seq(SUBSET Entry) /\ manifest \in Seq(Seq(1..N))
      /\ Parts /\ Filled(manifest, sst)
  BY <1>1 DEF Settled, Parts, Typed, Layered
<1>3. PICK plan : plan = Plan(manifest, l, 1..n)
  OBVIOUS
<1>4. PICK first \in Nat, last \in Nat :
              /\ Stretch(plan.next, plan.insert, first, last)
              /\ plan.current = 1..n /\ plan.next = (first + 1)..last
              /\ Fits(manifest, sst, l, n, first, last)
              /\ Falling => first = 0
  BY <1>3, PlanInOrder
<1>5. PICK h \in Nat : h = Len(manifest[l]) /\ DOMAIN manifest[l] = 1..h /\ n \in 1..h
  BY SettledFiles
<1>6. 1..n \subseteq DOMAIN manifest[l] /\ n \in 0..Len(manifest[l])
  BY <1>5
<1>7. PlanOK(manifest, l, plan)
  BY <1>2, <1>3, <1>6, PlanPositions
<1>8. PICK S : S = EntriesOf(manifest[l], plan.current)
                   \union EntriesOf(Level(manifest, l + 1), plan.next)
  OBVIOUS
<1>9. S = Taken(manifest, sst, l, n, first, last)
  BY <1>4, <1>8 DEF Taken, Contents, EntriesOf
<1>10. S \subseteq Held
  <2> SUFFICES ASSUME NEW e \in S PROVE e \in Held
    OBVIOUS
  <2>1. PICK k \in DOMAIN manifest : \E p \in DOMAIN manifest[k] : e \in sst[manifest[k][p]]
    BY <1>2, <1>7, <1>8, MergedEntries
  <2>2. PICK p \in DOMAIN manifest[k] : e \in sst[manifest[k][p]]
    BY <2>1
  <2> QED
    BY <2>2, SettledFiles
<1>11. PICK lo : lo = Smallest(EntriesOf(manifest[l], 1..n))
  OBVIOUS
<1>12. lo \in S
  <2>1. PICK C : C = EntriesOf(manifest[l], 1..n)
    OBVIOUS
  <2>2. Proper(C)
    BY <2>1, CurrentFirst
  <2>3. lo \in C
    BY <1>11, <2>1, <2>2, ProperEnds
  <2> QED
    BY <1>4, <1>8, <2>1, <2>3
<1>13. S \subseteq Entry /\ IsFiniteSet(S) /\ ApartById(S) /\ OneOfKey(S) /\ S # {}
  <2>1. Held \subseteq Entry /\ IsFiniteSet(Held) /\ ApartById(Held) /\ OneOfKey(Held)
    BY SettledFiles
  <2>2. IsFiniteSet(S)
    BY <1>10, <2>1, FS_Subset
  <2> QED
    BY <1>10, <1>12, <2>1, <2>2 DEF ApartById, OneOfKey
<1>14. PICK M : M = Merge(S, FileLimit)
  OBVIOUS
<1>15. FileLimit \in Nat \ {0, 1}
  BY LSMAssumption
<1>16. PICK w \in Nat \ {0} : w = Len(M) /\ DOMAIN M = 1..w
  <2>1. Len(M) \in Nat \ {0} /\ DOMAIN M = 1..Len(M)
    BY <1>13, <1>14, <1>15, MergeInOrder
  <2> QED
    BY <2>1
<1>17. Sliced(M, w, S) /\ Smallest(S) \in M[1]
  <2>1. \A k \in DOMAIN M : M[k] # {} /\ M[k] \subseteq S
    BY <1>13, <1>14, <1>15, MergeInOrder
  <2>2. \A e \in S : \E k \in DOMAIN M : e \in M[k]
    BY <1>13, <1>14, <1>15, MergeInOrder
  <2>3. \A k, p \in DOMAIN M : k < p => Under(M[k], M[p])
    BY <1>13, <1>14, <1>15, MergeInOrder
  <2>4. Smallest(S) \in M[1]
    BY <1>13, <1>14, <1>15, MergeInOrder
  <2> QED
    BY <1>16, <2>1, <2>2, <2>3, <2>4 DEF Sliced
<1>18. M \in Seq(SUBSET Entry)
  <2>1. M \in Seq(SUBSET S)
    BY <1>13, <1>14, <1>15, MergeProperties
  <2>2. SUBSET S \subseteq SUBSET Entry
    BY <1>13
  <2> QED
    BY <2>1, <2>2, SeqMonotonic
<1>19. sst' = sst \o M
  BY <1>3, <1>8, <1>14 DEF CompactSST
<1>20. manifest' = UpdateManifest(manifest, l, plan, [k \in 1..w |-> N + k])
  BY <1>1, <1>3, <1>8, <1>14, <1>16 DEF CompactSST
<1>21. PICK m, s, m2, s2 : m = manifest /\ s = sst /\ m2 = manifest' /\ s2 = sst'
  OBVIOUS
<1>22. Added(s, s2, N, M, w)
  BY <1>1, <1>2, <1>16, <1>18, <1>19, <1>21, AddedFiles
<1>23. /\ Moved(m, s, m2, s2, l, n)
       /\ first = 0 => AtFront(m2, s2, l, M)
  <2>1. m \in Seq(Seq(1..N)) /\ l \in DOMAIN m /\ PlanOK(m, l, plan) /\ n \in 0..Len(m[l])
    BY <1>2, <1>6, <1>7, <1>21
  <2>2. /\ Fits(m, s, l, n, first, last) /\ Filled(m, s)
        /\ S = Taken(m, s, l, n, first, last)
    BY <1>2, <1>4, <1>9, <1>21
  <2>3. m2 = UpdateManifest(m, l, plan, [k \in 1..w |-> N + k])
    BY <1>20, <1>21
  <2>4. Moved(m, s, m2, s2, l, n)
    BY <2>1, <2>2, <2>3, <1>4, <1>17, <1>22, Placing
  <2>5. first = 0 => AtFront(m2, s2, l, M)
    BY <2>1, <2>2, <2>3, <1>4, <1>17, <1>22, Placing
  <2> QED
    BY <2>4, <2>5
<1>24. \A f \in 1..Len(sst) : sst'[f] = sst[f]
  BY <1>1, <1>21, <1>22 DEF Added
<1>25. ASSUME Falling
       PROVE  /\ m2[l + 1] # <<>>
              /\ \E e \in s2[m2[l + 1][1]] :
                    \A k \in DOMAIN manifest : k > l =>
                       \A j \in DOMAIN manifest[k] : Under({e}, sst[manifest[k][j]])
  <2>1. m2[l + 1] # <<>> /\ s2[m2[l + 1][1]] = M[1]
    BY <1>4, <1>23, <1>25 DEF AtFront
  <2>2. PICK e : e = Smallest(S)
    OBVIOUS
  <2>3. e \in M[1] /\ e \in S /\ (lo = e \/ Less(e, lo))
    BY <1>12, <1>13, <1>17, <2>2, Extremes
  <2>4. ASSUME NEW k \in DOMAIN manifest, k > l, NEW j \in DOMAIN manifest[k]
        PROVE  Under({e}, sst[manifest[k][j]])
    <3> SUFFICES ASSUME NEW b \in sst[manifest[k][j]] PROVE Less(e, b)
      BY DEF Under
    <3>1. Under({lo}, sst[manifest[k][j]])
      BY <1>4, <1>11, <1>25, <2>4, DeeperFiles
    <3>2. Less(lo, b) /\ b \in Entry
      BY <3>1, SettledFiles DEF Under, Proper
    <3>3. e \in Entry /\ lo \in Entry
      BY <1>12, <1>13, <2>3
    <3> QED
      BY <2>3, <3>2, <3>3, LessOrder
  <2> QED
    BY <2>1, <2>3, <2>4
<1>26. ASSUME NEW f \in DOMAIN s2
       PROVE  s2[f] \subseteq Held
  <2>1. f \in 1..N \/ \E k \in 1..w : f = N + k
    <3>1. f \in 1..(N + w)
      BY <1>22 DEF Added
    <3>2. f \in 1..N \/ f - N \in 1..w
      BY <3>1
    <3>3. f = N + (f - N)
      BY <3>1
    <3> QED
      BY <3>2, <3>3
  <2>2. CASE f \in 1..N
    <3>1. s2[f] = sst[f] /\ f \in DOMAIN sst
      BY <2>2, <1>1, <1>21, <1>22 DEF Added
    <3> QED
      BY <3>1 DEF Held
  <2>3. CASE \E k \in 1..w : f = N + k
    <3>1. PICK k \in 1..w : f = N + k
      BY <2>3
    <3>2. s2[f] = M[k]
      BY <3>1, <1>22 DEF Added
    <3>3. M[k] \subseteq S
      BY <1>17 DEF Sliced
    <3> QED
      BY <3>2, <3>3, <1>10
  <2> QED
    BY <2>1, <2>2, <2>3
<1> QED
  BY <1>21, <1>23, <1>24, <1>25, <1>26

(* What a compaction leaves of the order of files.                         *)
LEMMA LayeredMoved ==
    ASSUME Settled, NEW l \in DOMAIN manifest, NEW n \in Nat,
           NEW m2, NEW s2, Moved(manifest, sst, m2, s2, l, n),
           \A f \in 1..Len(sst) : s2[f] = sst[f]
    PROVE  /\ Layered(m2, s2)
           /\ \A A : Recent(manifest, sst, A) => Recent(m2, s2, A)
<1>1. /\ \A k \in DOMAIN m2 : k \notin {l, l + 1} => k \in DOMAIN manifest /\ m2[k] = manifest[k]
      /\ \A i, j \in DOMAIN m2[l] : i < j =>
            \E p, q \in DOMAIN manifest[l] : /\ p < q
                                             /\ s2[m2[l][i]] = sst[manifest[l][p]]
                                             /\ s2[m2[l][j]] = sst[manifest[l][q]]
      /\ \A i, j \in DOMAIN m2[l + 1] : i < j => Under(s2[m2[l + 1][i]], s2[m2[l + 1][j]])
      /\ \A k \in DOMAIN m2 : \A i \in DOMAIN m2[k] : s2[m2[k][i]] # {}
      /\ \A k \in DOMAIN m2 : \A i \in DOMAIN m2[k] : \A e \in s2[m2[k][i]] :
            \/ \E p : From(manifest, sst, k, p, e) /\ (k = l => p > n)
            \/ k = l + 1 /\ \E p : From(manifest, sst, l, p, e) /\ p <= n
  BY DEF Moved
<1>2. Ranked(manifest, sst) /\ Aged(manifest, sst) /\ (Rising \/ Falling)
  BY DEF Settled, Layered
<1>3. PICK z \in Nat : DOMAIN manifest = 1..z
  <2>1. manifest \in Seq(Seq(1..Len(sst)))
    BY SettledFiles
  <2> QED
    BY <2>1, LevelLengths
<1>4. l \in Nat \ {0} /\ l + 1 # 1 /\ l # l + 1
  BY <1>3
<1>5. \A k \in DOMAIN m2 : k \in DOMAIN manifest \/ k = l + 1
  BY DEF Moved
<1>6. \A k \in DOMAIN m2 : k \in Nat \ {0}
  BY <1>3, <1>4, <1>5
<1>7. ASSUME NEW k \in DOMAIN manifest, NEW i \in DOMAIN manifest[k]
      PROVE  /\ s2[manifest[k][i]] = sst[manifest[k][i]]
             /\ \A e \in sst[manifest[k][i]] : e \in Held
  <2>1. manifest \in Seq(Seq(1..Len(sst))) /\ sst[manifest[k][i]] \subseteq Held
    BY SettledFiles
  <2>2. manifest[k][i] \in 1..Len(sst)
    <3>1. PICK a \in Seq(1..Len(sst)) : a = manifest[k]
      BY <2>1, LenProperties
    <3>2. a[i] \in 1..Len(sst)
      BY <3>1, LenProperties, ElementOfSeq
    <3> QED
      BY <3>1, <3>2
  <2> QED
    BY <2>1, <2>2
<1>8. Filled(m2, s2)
  BY <1>1 DEF Filled
<1>9. ASSUME NEW k \in DOMAIN m2, NEW i \in DOMAIN m2[k], NEW j \in DOMAIN m2[k], i < j
      PROVE  IF k = 1 THEN Older(s2[m2[k][i]], s2[m2[k][j]]) ELSE Under(s2[m2[k][i]], s2[m2[k][j]])
  <2>1. CASE k = l
    <3>1. PICK p \in DOMAIN manifest[l], q \in DOMAIN manifest[l] :
             /\ p < q
             /\ s2[m2[l][i]] = sst[manifest[l][p]]
             /\ s2[m2[l][j]] = sst[manifest[l][q]]
      BY <1>1, <1>9, <2>1
    <3> QED
      BY <1>2, <2>1, <3>1 DEF Ranked
  <2>2. CASE k = l + 1
    BY <1>1, <1>4, <1>9, <2>2
  <2>3. CASE k \notin {l, l + 1}
    <3>1. k \in DOMAIN manifest /\ m2[k] = manifest[k]
      BY <1>1, <2>3
    <3>2. s2[m2[k][i]] = sst[manifest[k][i]] /\ s2[m2[k][j]] = sst[manifest[k][j]]
      BY <1>7, <3>1
    <3> QED
      BY <1>2, <1>9, <3>1, <3>2 DEF Ranked
  <2> QED
    BY <2>1, <2>2, <2>3
<1>10. Ranked(m2, s2)
  BY <1>9 DEF Ranked
<1>11. ASSUME NEW g \in DOMAIN m2, NEW k \in DOMAIN m2, g < k, g = 1 \/ Rising,
              NEW i \in DOMAIN m2[g], NEW j \in DOMAIN m2[k],
              NEW a \in s2[m2[k][j]], NEW b \in s2[m2[g][i]]
       PROVE  a.id < b.id
  <2>0. g \in Nat /\ k \in Nat /\ l \in Nat
    BY <1>4, <1>6
  <2>1. \/ \E p : From(manifest, sst, k, p, a)
        \/ k = l + 1 /\ \E p : From(manifest, sst, l, p, a) /\ p <= n
    BY <1>1
  <2>2. \/ \E p : From(manifest, sst, g, p, b) /\ (g = l => p > n)
        \/ g = l + 1 /\ \E p : From(manifest, sst, l, p, b) /\ p <= n
    BY <1>1
  <2>3. ASSUME NEW x, NEW y, NEW p, NEW r, x \in Nat, y \in Nat, x < y, x = 1 \/ Rising,
               From(manifest, sst, y, p, a), From(manifest, sst, x, r, b)
        PROVE  a.id < b.id
    <3>1. Older(sst[manifest[y][p]], sst[manifest[x][r]])
      BY <1>2, <2>3 DEF Aged, From
    <3> QED
      BY <2>3, <3>1 DEF Older, From
  <2>4. CASE \E p : From(manifest, sst, k, p, a)
    <3>1. CASE \E p : From(manifest, sst, g, p, b)
      BY <1>11, <2>0, <2>3, <2>4, <3>1
    <3>2. CASE g = l + 1 /\ \E p : From(manifest, sst, l, p, b)
      <4>1. Rising /\ l < k
        BY <1>4, <1>11, <2>0, <3>2
      <4> QED
        BY <2>0, <2>3, <2>4, <3>2, <4>1
    <3> QED
      BY <2>2, <3>1, <3>2
  <2>5. CASE k = l + 1 /\ \E p : From(manifest, sst, l, p, a) /\ p <= n
    <3>1. PICK p : From(manifest, sst, l, p, a) /\ p <= n
      BY <2>5
    <3>2. g < l \/ g = l
      BY <1>11, <2>0, <2>5
    <3>3. PICK r : From(manifest, sst, g, r, b) /\ (g = l => r > n)
      BY <2>0, <2>2, <3>2
    <3>4. CASE g < l
      BY <1>11, <2>0, <2>3, <3>1, <3>3, <3>4
    <3>5. CASE g = l
      <4>1. p \in DOMAIN manifest[l] /\ r \in DOMAIN manifest[l] /\ p < r
        <5>1. p \in DOMAIN manifest[l] /\ r \in DOMAIN manifest[l]
          BY <3>1, <3>3, <3>5 DEF From
        <5>2. PICK c \in Nat : DOMAIN manifest[l] = 1..c
          BY SettledFiles
        <5> QED
          BY <3>1, <3>3, <3>5, <5>1, <5>2
      <4>2. a \in sst[manifest[l][p]] /\ b \in sst[manifest[l][r]]
        BY <3>1, <3>3, <3>5 DEF From
      <4>3. CASE l = 1
        <5>1. Older(sst[manifest[l][p]], sst[manifest[l][r]])
          BY <1>2, <4>1, <4>3 DEF Ranked
        <5> QED
          BY <4>2, <5>1 DEF Older
      <4>4. CASE l # 1
        <5>1. Under(sst[manifest[l][p]], sst[manifest[l][r]])
          BY <1>2, <4>1, <4>4 DEF Ranked
        <5>2. Less(a, b) /\ a \in Held /\ b \in Held
          BY <1>7, <4>1, <4>2, <5>1 DEF Under
        <5>3. Rising
          BY <1>11, <3>5, <4>4
        <5> QED
          BY <5>2, <5>3, ByAge DEF Settled
      <4> QED
        BY <4>3, <4>4
    <3> QED
      BY <3>2, <3>4, <3>5
  <2> QED
    BY <2>1, <2>4, <2>5
<1>12. Aged(m2, s2)
  BY <1>11 DEF Aged, Older
<1>13. ASSUME NEW A, Recent(manifest, sst, A),
              NEW k \in DOMAIN m2, NEW i \in DOMAIN m2[k], NEW e \in s2[m2[k][i]], NEW a \in A
       PROVE  e.id < a.id
  <2>1. PICK g, p : From(manifest, sst, g, p, e)
    BY <1>1
  <2>2. Older(sst[manifest[g][p]], A)
    BY <1>13, <2>1 DEF Recent, From
  <2> QED
    BY <2>1, <2>2 DEF Older, From
<1> QED
  BY <1>8, <1>10, <1>12, <1>13 DEF Layered, Recent, Older

-----------------------------------------------------------------------------
(* The steps when keys arrive in order.                                    *)

(* New files do not change what old ones hold.                             *)
SameFiles(m, s, s2) == \A k \in DOMAIN m : \A i \in DOMAIN m[k] : s2[m[k][i]] = s[m[k][i]]

(* Layers and ages of the listed files stay as they are.                   *)
LEMMA FilesStay ==
    ASSUME NEW N, NEW m \in Seq(Seq(1..N)), NEW s, NEW s2, \A f \in 1..N : s2[f] = s[f]
    PROVE  /\ SameFiles(m, s, s2)
           /\ Layered(m, s) => Layered(m, s2)
           /\ \A A : Recent(m, s, A) => Recent(m, s2, A)
<1>1. ASSUME NEW k \in DOMAIN m, NEW i \in DOMAIN m[k]
      PROVE  s2[m[k][i]] = s[m[k][i]]
  <2>1. PICK a \in Seq(1..N) : a = m[k]
    BY LenProperties
  <2>2. i \in 1..Len(a)
    BY <2>1, LenProperties
  <2>3. PICK f \in 1..N : f = a[i]
    BY <2>2, ElementOfSeq
  <2>4. s2[f] = s[f]
    OBVIOUS
  <2> QED
    BY <2>1, <2>3, <2>4, Zenon
<1>2. Layered(m, s) => Layered(m, s2)
  <2>1. Filled(m, s) => Filled(m, s2)
    BY <1>1 DEF Filled
  <2>2. Ranked(m, s) => Ranked(m, s2)
    BY <1>1 DEF Ranked
  <2>3. Aged(m, s) => Aged(m, s2)
    BY <1>1 DEF Aged
  <2> QED
    BY <2>1, <2>2, <2>3 DEF Layered
<1>3. \A A : Recent(m, s, A) => Recent(m, s2, A)
  BY <1>1 DEF Recent
<1> QED
  BY <1>1, <1>2, <1>3 DEF SameFiles

(* The entries of a manifest are those of the files it lists.              *)
LEMMA EntriesListed ==
    ASSUME NEW m
    PROVE  \A e : e \in EntriesIn(m) <=> \E k, i : From(m, sst, k, i, e)
<1>1. \A f : f \in FilesOf(m) <=> \E k \in DOMAIN m : \E i \in DOMAIN m[k] : f = m[k][i]
  BY DEF FilesOf
<1>2. \A e : e \in EntriesIn(m) <=> \E f \in FilesOf(m) : e \in sst[f]
  BY DEF EntriesIn
<1>3. \A e : e \in EntriesIn(m) => \E k, i : From(m, sst, k, i, e)
  BY <1>1, <1>2 DEF From
<1>4. \A e, k, i : From(m, sst, k, i, e) => e \in EntriesIn(m)
  BY <1>1, <1>2 DEF From
<1> QED
  BY <1>3, <1>4

(* The same in the next state.                                             *)
LEMMA EntriesListedNext ==
    ASSUME NEW m, m = manifest'
    PROVE  /\ \A e : e \in EntriesIn(manifest)' <=> \E k, i : From(m, sst', k, i, e)
           /\ \A v : v = version' =>
                \A e : e \in EntriesIn(version)' <=> \E k, i : From(v, sst', k, i, e)
<1>1. ASSUME NEW v, NEW E, E = UNION {sst'[f] : f \in FilesOf(v)}
      PROVE  \A e : e \in E <=> \E k, i : From(v, sst', k, i, e)
  <2>1. \A f : f \in FilesOf(v) <=> \E k \in DOMAIN v : \E i \in DOMAIN v[k] : f = v[k][i]
    BY DEF FilesOf
  <2>2. \A e : e \in E <=> \E f \in FilesOf(v) : e \in sst'[f]
    BY <1>1
  <2>3. \A e : e \in E => \E k, i : From(v, sst', k, i, e)
    BY <2>1, <2>2 DEF From
  <2>4. \A e, k, i : From(v, sst', k, i, e) => e \in E
    BY <2>1, <2>2 DEF From
  <2> QED
    BY <2>3, <2>4
<1>2. EntriesIn(manifest)' = UNION {sst'[f] : f \in FilesOf(m)}
  BY DEF EntriesIn, FilesOf
<1>3. \A v : v = version' => EntriesIn(version)' = UNION {sst'[f] : f \in FilesOf(v)}
  BY DEF EntriesIn, FilesOf
<1> QED
  BY <1>1, <1>2, <1>3

(* Both forms of CompactSST.                                               *)
LEMMA CompactOrdered ==
    ASSUME LSMInv, Counted, Ordered, Rising \/ Falling,
           bg \in {"first", "level"}, bg' = "level",
           lvl \in DOMAIN manifest, NEW n \in 1..Len(manifest[lvl]), CompactSST(lvl, 1..n),
           lvl # 1 => /\ lvl \in DOMAIN LevelLimit
                      /\ Len(manifest[lvl]) >= LevelLimit[lvl]
                      /\ n = Len(manifest[lvl]) - LevelLimit[lvl] + 1,
           UNCHANGED <<mem_table_, latest, immutable, version, lvl>>
    PROVE  Ordered'
<1>1. Settled /\ Parts
  BY DEF Settled, LSMInv, Ordered
<1>2. PICK m2, s2 : m2 = manifest' /\ s2 = sst'
  OBVIOUS
<1>3. PICK z \in Nat : DOMAIN manifest = 1..z
  <2>1. manifest \in Seq(Seq(1..Len(sst)))
    BY <1>1, SettledFiles
  <2> QED
    BY <2>1, LevelLengths
<1>4. lvl \in Nat \ {0} /\ n \in Nat
  <2>1. Len(manifest[lvl]) \in Nat
    BY <1>1, SettledFiles
  <2> QED
    BY <1>3, <2>1
<1>5. Falling /\ lvl # 1 => ~ Below(manifest, lvl) /\ Fronted(manifest, sst, lvl)
  <2> SUFFICES ASSUME Falling, lvl # 1
               PROVE  ~ Below(manifest, lvl) /\ Fronted(manifest, sst, lvl)
    OBVIOUS
  <2>1. lvl > 1 /\ lvl >= lvl
    BY <1>4
  <2>2. ~ Below(manifest, lvl)
    <3>1. Len(manifest[lvl]) \in Nat /\ LevelLimit[lvl] \in Nat
      BY <1>1, SettledFiles, Limits
    <3> QED
      BY <3>1 DEF Below
  <2> QED
    BY <2>1, <2>2 DEF Ordered, Fronts
<1>6. /\ Moved(manifest, sst, m2, s2, lvl, n)
      /\ \A f \in 1..Len(sst) : s2[f] = sst[f]
      /\ \A f \in DOMAIN s2 : s2[f] \subseteq Held
      /\ Falling =>
            /\ m2[lvl + 1] # <<>>
            /\ \E e \in s2[m2[lvl + 1][1]] :
                  \A k \in DOMAIN manifest : k > lvl =>
                     \A j \in DOMAIN manifest[k] : Under({e}, sst[manifest[k][j]])
  BY <1>1, <1>2, <1>5, CompactInOrder
<1>7. /\ Layered(m2, s2) /\ \A A : Recent(manifest, sst, A) => Recent(m2, s2, A)
  BY <1>1, <1>4, <1>6, LayeredMoved
<1>8. version \in Seq(Seq(1..Len(sst))) /\ manifest \in Seq(Seq(1..Len(sst)))
  BY <1>1 DEF Parts, Typed
<1>9. /\ \A k \in DOMAIN version : \A i \in DOMAIN version[k] : s2[version[k][i]] = sst[version[k][i]]
      /\ \A k \in DOMAIN manifest : \A i \in DOMAIN manifest[k] :
            s2[manifest[k][i]] = sst[manifest[k][i]]
      /\ Layered(version, s2)
      /\ \A A : Recent(version, sst, A) => Recent(version, s2, A)
  <2>1. PICK N : N = Len(sst)
    OBVIOUS
  <2>2. /\ version \in Seq(Seq(1..N)) /\ manifest \in Seq(Seq(1..N))
        /\ \A f \in 1..N : s2[f] = sst[f]
    BY <1>6, <1>8, <2>1
  <2>3. SameFiles(version, sst, s2)
    BY <2>2, FilesStay
  <2>4. SameFiles(manifest, sst, s2)
    BY <2>2, FilesStay
  <2>5. Layered(version, s2)
    BY <2>2, FilesStay DEF Ordered
  <2>6. \A A : Recent(version, sst, A) => Recent(version, s2, A)
    BY <2>2, FilesStay
  <2> QED
    BY <2>3, <2>4, <2>5, <2>6 DEF SameFiles
<1>10. (Rising' <=> Rising) /\ (Falling' <=> Falling) /\ Written' = Written
  BY DEF Rising, Falling, Written
<1>11. Layered(manifest, sst)' /\ Layered(version, sst)'
  BY <1>2, <1>7, <1>9, <1>10 DEF Layered, Filled, Ranked, Aged
<1>12. Recent(manifest, sst, immutable \union mem_table_)'
       /\ Recent(version, sst, immutable \union mem_table_)'
  <2>1. PICK A : A = immutable \union mem_table_
    OBVIOUS
  <2>2. Recent(m2, s2, A) /\ Recent(version, s2, A)
    BY <1>7, <1>9, <2>1 DEF Ordered
  <2> QED
    BY <1>2, <2>1, <2>2
<1>13. Known'
  <2>1. Held' \subseteq Held
    BY <1>2, <1>6 DEF Held
  <2> QED
    BY <2>1 DEF Ordered, Known
<1>14. Older(immutable, mem_table_)' /\ (bg = "idle" => immutable = {})'
       /\ (bg \notin {"idle", "failed"} => immutable # {})'
  BY DEF Ordered, Older
<1>15. ASSUME Falling, NEW g \in DOMAIN m2, g > 1, g >= lvl
       PROVE  Below(m2, g) \/ Fronted(m2, s2, g)
  <2>1. /\ DOMAIN m2 = DOMAIN manifest \union {lvl + 1}
        /\ Len(m2[lvl]) = Len(manifest[lvl]) - n
        /\ \A k \in DOMAIN m2 : k \notin {lvl, lvl + 1} => k \in DOMAIN manifest /\ m2[k] = manifest[k]
    BY <1>6 DEF Moved
  <2>2. \A k \in DOMAIN m2 : k \in Nat
    BY <1>3, <1>4, <2>1
  <2>3. CASE g = lvl
    <3>1. lvl # 1 /\ lvl \in DOMAIN LevelLimit /\ n = Len(manifest[lvl]) - LevelLimit[lvl] + 1
      BY <1>4, <1>15, <2>3
    <3>2. Len(manifest[lvl]) \in Nat /\ LevelLimit[lvl] \in Nat
      BY <1>1, <3>1, SettledFiles, Limits
    <3>3. Len(m2[lvl]) < LevelLimit[lvl]
      BY <2>1, <3>1, <3>2
    <3> QED
      BY <2>3, <3>1, <3>3 DEF Below
  <2>4. CASE g = lvl + 1
    <3>1. PICK e \in s2[m2[lvl + 1][1]] :
             \A k \in DOMAIN manifest : k > lvl =>
                \A j \in DOMAIN manifest[k] : Under({e}, sst[manifest[k][j]])
      BY <1>6, <1>15
    <3>2. ASSUME NEW k \in DOMAIN m2, k > g, NEW j \in DOMAIN m2[k]
          PROVE  Under({e}, s2[m2[k][j]])
      <4>1. k \notin {lvl, lvl + 1} /\ k > lvl
        BY <1>4, <2>2, <2>4, <3>2
      <4>2. k \in DOMAIN manifest /\ m2[k] = manifest[k]
        BY <2>1, <4>1
      <4>3. j \in DOMAIN manifest[k]
        BY <4>2
      <4>4. s2[m2[k][j]] = sst[manifest[k][j]]
        BY <1>9, <4>2, <4>3
      <4>5. Under({e}, sst[manifest[k][j]])
        BY <3>1, <4>1, <4>2, <4>3
      <4> QED
        BY <4>4, <4>5
    <3> QED
      BY <1>6, <1>15, <2>4, <3>2 DEF Fronted
  <2>5. CASE g \notin {lvl, lvl + 1}
    <3>1. g \in DOMAIN manifest /\ m2[g] = manifest[g]
      BY <2>1, <2>5
    <3>2. CASE Below(manifest, g)
      BY <3>1, <3>2 DEF Below
    <3>3. CASE Fronted(manifest, sst, g)
      <4>1. PICK e \in sst[manifest[g][1]] : \A k \in DOMAIN manifest : k > g =>
                \A j \in DOMAIN manifest[k] : Under({e}, sst[manifest[k][j]])
        BY <3>3 DEF Fronted
      <4>2. manifest[g] # <<>> /\ 1 \in DOMAIN manifest[g]
        <5>1. manifest[g] # <<>>
          BY <3>3 DEF Fronted
        <5>2. manifest[g] \in Seq(1..Len(sst))
          BY <1>8, <3>1, LenProperties
        <5>3. Len(manifest[g]) \in Nat \ {0} /\ DOMAIN manifest[g] = 1..Len(manifest[g])
          BY <5>1, <5>2, EmptySeq, LenProperties
        <5> QED
          BY <5>1, <5>3
      <4>3. e \in s2[m2[g][1]]
        BY <1>9, <3>1, <4>1, <4>2
      <4>4. ASSUME NEW k \in DOMAIN m2, k > g, NEW j \in DOMAIN m2[k]
            PROVE  Under({e}, s2[m2[k][j]])
        <5>1. k \notin {lvl, lvl + 1}
          BY <1>4, <1>15, <2>2, <2>5, <4>4
        <5>2. k \in DOMAIN manifest /\ m2[k] = manifest[k]
          BY <2>1, <5>1
        <5>3. j \in DOMAIN manifest[k]
          BY <5>2
        <5>4. s2[m2[k][j]] = sst[manifest[k][j]]
          BY <1>9, <5>2, <5>3
        <5>5. Under({e}, sst[manifest[k][j]])
          BY <4>1, <4>4, <5>2, <5>3
        <5> QED
          BY <5>4, <5>5
      <4> QED
        BY <3>1, <4>2, <4>3, <4>4 DEF Fronted
    <3>4. Below(manifest, g) \/ Fronted(manifest, sst, g)
      BY <1>15, <3>1 DEF Ordered, Fronts
    <3> QED
      BY <3>2, <3>3, <3>4
  <2> QED
    BY <2>3, <2>4, <2>5
<1>16. Fronts'
  <2>1. Falling' => \A g \in DOMAIN m2 : g > 1 /\ g >= lvl => Below(m2, g) \/ Fronted(m2, s2, g)
    BY <1>10, <1>15
  <2> QED
    BY <1>2, <2>1 DEF Fronts, Below, Fronted, Under
<1>17. Complete'
  <2>1. \A e : e \in EntriesIn(version)' <=> e \in EntriesIn(version)
    <3>1. PICK v : v = version
      OBVIOUS
    <3>2. \A e : e \in EntriesIn(version)' <=> \E k, i : From(v, s2, k, i, e)
      BY <1>2, <3>1, EntriesListedNext
    <3>3. \A e : e \in EntriesIn(version) <=> \E k, i : From(v, sst, k, i, e)
      BY <3>1, EntriesListed
    <3>4. \A k, i, e : From(v, s2, k, i, e) <=> From(v, sst, k, i, e)
      BY <1>9, <3>1 DEF From
    <3> QED
      BY <3>2, <3>3, <3>4
  <2>2. \A e : e \in EntriesIn(manifest) => e \in EntriesIn(manifest)'
    <3>1. \A e : e \in EntriesIn(manifest)' <=> \E k, i : From(m2, s2, k, i, e)
      BY <1>2, EntriesListedNext
    <3>2. \A e : e \in EntriesIn(manifest) <=> \E k, i : From(manifest, sst, k, i, e)
      BY EntriesListed
    <3>3. \A k, p, e : From(manifest, sst, k, p, e) => \E g, i : From(m2, s2, g, i, e)
      BY <1>6 DEF Moved, From
    <3> QED
      BY <3>1, <3>2, <3>3
  <2>3. EntriesIn(version) \subseteq EntriesIn(manifest)
    BY DEF Ordered, Complete
  <2>4. \A k \in Written : latest[k] \in mem_table_ \union immutable \union EntriesIn(version)
    BY DEF Ordered, Complete
  <2> QED
    BY <1>10, <2>1, <2>2, <2>3, <2>4 DEF Complete
<1> QED
  BY <1>11, <1>12, <1>13, <1>14, <1>16, <1>17 DEF Ordered

(* What a client writes in order: a key that was not written before.       *)
LEMMA PutCounted ==
    ASSUME LSMInv, Counted, NEW k \in Keys, NEW op \in Op, NEW table, Put(k, op, table),
           NEW e, e = [key |-> k, id |-> entry_id_, op |-> op]
    PROVE  /\ Counted'
           /\ e \in Entry /\ e # NoEntry /\ latest'[k] = e
           /\ mem_table_' = table \union {e} /\ entry_id_' = entry_id_ + 1
           /\ \A j \in Keys : j # k => latest'[j] = latest[j]
           /\ Written' = Written \union {k}
           /\ InOrder' => /\ InOrder /\ k \notin Written
                          /\ Rising' => Rising
                          /\ Falling' => Falling
<1>1. /\ entry_id_' = entry_id_ + 1 /\ latest' = [latest EXCEPT ![k] = e]
      /\ mem_table_' = table \union {e}
  BY DEF Put
<1>2. entry_id_ \in Nat
  BY DEF LSMInv, Parts, Typed
<1>3. e \in Entry /\ e.key = k /\ e.op \in Op
  BY <1>2 DEF Entry
<1>4. e # NoEntry
  <2>1. NoEntry.key = -1
    BY DEF NoEntry
  <2>2. e.key \in Nat
    BY <1>3, LSMAssumption
  <2> QED
    BY <2>1, <2>2
<1>5. /\ latest \in [Keys -> Entry \union {NoEntry}]
      /\ \A j \in Written : latest[j].key = j
      /\ IsFiniteSet(Written) /\ Cardinality(Written) <= entry_id_
  BY DEF Counted
<1>6. /\ latest' \in [Keys -> Entry \union {NoEntry}]
      /\ latest'[k] = e /\ \A j \in Keys : j # k => latest'[j] = latest[j]
  BY <1>1, <1>3, <1>5
<1>7. Written' = Written \union {k}
  <2>1. \A j : j \in Written' <=> j \in Keys /\ latest'[j] # NoEntry
    BY DEF Written
  <2>2. \A j : j \in Written <=> j \in Keys /\ latest[j] # NoEntry
    BY DEF Written
  <2>3. \A j : j \in Written' <=> j \in Written \union {k}
    BY <2>1, <2>2, <1>4, <1>6
  <2> QED
    BY <2>3
<1>8. /\ IsFiniteSet(Written') /\ Cardinality(Written) \in Nat
      /\ Cardinality(Written') = IF k \in Written THEN Cardinality(Written)
                                 ELSE Cardinality(Written) + 1
  <2>1. PICK W : W = Written
    OBVIOUS
  <2>2. IsFiniteSet(W) /\ Cardinality(W) \in Nat
    BY <1>5, <2>1, FS_CardinalityType
  <2>3. /\ IsFiniteSet(W \union {k})
        /\ Cardinality(W \union {k}) = IF k \in W THEN Cardinality(W) ELSE Cardinality(W) + 1
    BY <2>2, FS_AddElement
  <2> QED
    BY <1>7, <2>1, <2>2, <2>3
<1>9. Counted'
  <2>1. \A j \in Written' : latest'[j].key = j
    <3> SUFFICES ASSUME NEW j \in Written' PROVE latest'[j].key = j
      OBVIOUS
    <3>1. j = k \/ (j # k /\ j \in Written /\ j \in Keys)
      BY <1>7 DEF Written
    <3> QED
      BY <3>1, <1>3, <1>5, <1>6
  <2>2. Cardinality(Written') <= entry_id_'
    BY <1>1, <1>2, <1>5, <1>8
  <2> QED
    BY <1>6, <1>8, <2>1, <2>2 DEF Counted
<1>10. ASSUME InOrder'
       PROVE  InOrder /\ k \notin Written /\ (Rising' => Rising) /\ (Falling' => Falling)
  <2>1. entry_id_' = Cardinality(Written') /\ (Rising' \/ Falling')
    BY <1>10 DEF InOrder, Written, Rising, Falling
  <2>2. k \notin Written /\ entry_id_ = Cardinality(Written)
    <3>1. PICK c \in Nat : c = Cardinality(Written)
      BY <1>8
    <3>1a. PICK d : d = Cardinality(Written')
      OBVIOUS
    <3>2. c <= entry_id_ /\ d = entry_id_ + 1
      BY <3>1, <3>1a, <2>1, <1>1, <1>5
    <3>3. (k \in Written => d = c) /\ (k \notin Written => d = c + 1)
      BY <3>1, <3>1a, <1>8
    <3> QED
      BY <3>1, <3>2, <3>3, <1>2
  <2>3. \A j \in Written : j \in Written' /\ latest'[j] = latest[j]
    BY <2>2, <1>6, <1>7 DEF Written
  <2>4. Rising' => Rising
    BY <2>3 DEF Rising
  <2>5. Falling' => Falling
    BY <2>3 DEF Falling
  <2>6. InOrder
    BY <2>1, <2>2, <2>4, <2>5 DEF InOrder, Written, Rising, Falling
  <2> QED
    BY <2>2, <2>4, <2>5, <2>6
<1> QED
  BY <1>1, <1>3, <1>4, <1>6, <1>7, <1>9, <1>10

(* Insert, with or without a flush, and Delete.                            *)
LEMMA ClientOrdered ==
    ASSUME LSMInv, OrderInv, NEW k \in Keys, NEW op \in Op, NEW table, Put(k, op, table),
           \/ /\ table = mem_table_
              /\ UNCHANGED <<immutable, bg>>
           \/ /\ table = {} /\ immutable' = mem_table_ /\ mem_table_ # {}
              /\ bg = "idle" /\ bg' = "start",
           UNCHANGED <<sst, version, manifest, lvl>>
    PROVE  OrderInv'
<1>1. PICK e : e = [key |-> k, id |-> entry_id_, op |-> op]
  OBVIOUS
<1>2. /\ Counted'
      /\ e \in Entry /\ e # NoEntry /\ latest'[k] = e
      /\ mem_table_' = table \union {e} /\ entry_id_' = entry_id_ + 1
      /\ \A j \in Keys : j # k => latest'[j] = latest[j]
      /\ Written' = Written \union {k}
      /\ InOrder' => /\ InOrder /\ k \notin Written
                     /\ Rising' => Rising
                     /\ Falling' => Falling
  BY <1>1, PutCounted DEF OrderInv
<1> SUFFICES ASSUME InOrder' PROVE Ordered'
  BY <1>2 DEF OrderInv
<1>3. Ordered /\ Parts /\ Counted /\ k \notin Written
  BY <1>2 DEF OrderInv, LSMInv
<1>4. (Rising' => Rising) /\ (Falling' => Falling)
  BY <1>2
<1>5. entry_id_ \in Nat /\ \A d \in Held : d \in Entry /\ d.id < entry_id_
  BY <1>3 DEF Parts, Fresh, Typed
<1>6. e.id = entry_id_ /\ e.key = k
  BY <1>1
<1>7. \A d \in Held : d.key \in Written /\ d.key \in Keys
  BY <1>3, <1>5, ByAge DEF Ordered, Entry
<1>8. Held' \subseteq Held \union {e}
  BY <1>2 DEF Held
<1>9. Known'
  <2> SUFFICES ASSUME NEW d \in Held' PROVE latest'[d.key] = d
    BY DEF Known
  <2>1. CASE d = e
    BY <2>1, <1>2, <1>6
  <2>2. CASE d \in Held
    <3>1. d.key # k /\ d.key \in Keys
      BY <2>2, <1>3, <1>7
    <3>2. latest[d.key] = d
      BY <2>2, <1>3 DEF Ordered, Known
    <3> QED
      BY <3>1, <3>2, <1>2
  <2> QED
    BY <1>8, <2>1, <2>2
<1>10. Layered(manifest, sst)' /\ Layered(version, sst)'
  BY <1>3, <1>4 DEF Ordered, Layered, Filled, Ranked, Aged
<1>11. ASSUME NEW m, m = manifest \/ m = version
       PROVE  Recent(m, sst, immutable' \union mem_table_')
  <2> SUFFICES ASSUME NEW l \in DOMAIN m, NEW i \in DOMAIN m[l], NEW a \in sst[m[l][i]],
                      NEW b \in immutable' \union mem_table_'
               PROVE  a.id < b.id
    BY DEF Recent, Older
  <2>1. Recent(m, sst, immutable \union mem_table_)
    BY <1>3, <1>11 DEF Ordered
  <2>2. b \in immutable \union mem_table_ \/ b = e
    BY <1>2
  <2>3. a \in Held
    <3>1. m \in Seq(Seq(1..Len(sst))) /\ sst \in Seq(SUBSET Entry)
      BY <1>3, <1>11 DEF Parts, Typed
    <3>2. PICK q \in Seq(1..Len(sst)) : q = m[l]
      BY <3>1, LenProperties
    <3>3. m[l][i] \in 1..Len(sst)
      BY <3>2, LenProperties, ElementOfSeq
    <3>4. m[l][i] \in DOMAIN sst
      BY <3>1, <3>3, LenProperties
    <3> QED
      BY <3>4 DEF Held
  <2>4. CASE b = e
    BY <2>3, <2>4, <1>5, <1>6
  <2>5. CASE b \in immutable \union mem_table_
    BY <2>1, <2>5 DEF Recent, Older
  <2> QED
    BY <2>2, <2>4, <2>5
<1>12. Recent(manifest, sst, immutable \union mem_table_)'
       /\ Recent(version, sst, immutable \union mem_table_)'
  BY <1>11 DEF Recent
<1>13. Older(immutable, mem_table_)'
  <2> SUFFICES ASSUME NEW a \in immutable', NEW b \in mem_table_' PROVE a.id < b.id
    BY DEF Older
  <2>1. a \in Held
    BY DEF Held
  <2>2. CASE b = e
    BY <2>1, <2>2, <1>5, <1>6
  <2>3. CASE b # e
    <3>1. b \in table /\ table = mem_table_ /\ immutable' = immutable
      BY <2>3, <1>2
    <3> QED
      BY <3>1, <1>3 DEF Ordered, Older
  <2> QED
    BY <2>2, <2>3
<1>14. (bg = "idle" => immutable = {})' /\ (bg \notin {"idle", "failed"} => immutable # {})'
  BY <1>3 DEF Ordered
<1>15. Fronts'
  <2>1. bg' \in {"first", "level"} => bg' = bg
    OBVIOUS
  <2>2. Fronts
    BY <1>3 DEF Ordered
  <2>3. ASSUME Falling', bg' \in {"first", "level"}, NEW l \in DOMAIN manifest, l > 1, l >= lvl
        PROVE  Below(manifest, l) \/ Fronted(manifest, sst, l)
    BY <1>4, <2>1, <2>2, <2>3 DEF Fronts
  <2> QED
    BY <2>3 DEF Fronts, Below, Fronted, Under
<1>16. EntriesIn(version)' = EntriesIn(version) /\ EntriesIn(manifest)' = EntriesIn(manifest)
  BY DEF EntriesIn, FilesOf
<1>17. Complete'
  <2>1. ASSUME bg' # "failed", NEW j \in Written'
        PROVE  latest'[j] \in mem_table_' \union immutable' \union EntriesIn(version)
    <3>1. CASE j = k
      BY <3>1, <1>2
    <3>2. CASE j # k
      <4>1. j \in Written /\ latest'[j] = latest[j]
        BY <3>2, <1>2 DEF Written
      <4>2. latest[j] \in mem_table_ \union immutable \union EntriesIn(version)
        BY <2>1, <4>1, <1>3 DEF Ordered, Complete
      <4>3. mem_table_ \union immutable \subseteq mem_table_' \union immutable'
        BY <1>2, <1>3 DEF Ordered
      <4> QED
        BY <4>1, <4>2, <4>3
    <3> QED
      BY <3>1, <3>2
  <2>2. bg' \in {"first", "level", "write"} => EntriesIn(version) \subseteq EntriesIn(manifest)
    BY <1>3 DEF Ordered, Complete
  <2> QED
    BY <1>16, <2>1, <2>2 DEF Complete
<1> QED
  BY <1>9, <1>10, <1>12, <1>13, <1>14, <1>15, <1>17 DEF Ordered

(* The background task writes no key.                                      *)
LEMMA SameKeys ==
    ASSUME UNCHANGED <<latest, entry_id_>>
    PROVE  /\ Counted => Counted'
           /\ InOrder' => InOrder
           /\ InOrder => Rising \/ Falling
           /\ (Rising' <=> Rising) /\ (Falling' <=> Falling) /\ Written' = Written
<1>1. Written' = Written
  BY DEF Written
<1>2. (Rising' <=> Rising) /\ (Falling' <=> Falling)
  BY <1>1 DEF Rising, Falling
<1>3. Counted => Counted'
  BY <1>1 DEF Counted
<1>4. InOrder' => InOrder
  BY DEF InOrder
<1>5. InOrder => Rising \/ Falling
  BY DEF InOrder, Written, Rising, Falling
<1> QED
  BY <1>1, <1>2, <1>3, <1>4, <1>5

(* MVCCWriteLevel0 starts from the latest version.                         *)
LEMMA FlushBeginOrdered == ASSUME LSMInv, OrderInv, FlushBegin PROVE OrderInv'
<1>1. /\ bg = "start" /\ manifest' = version /\ lvl' = 1
      /\ UNCHANGED <<mem_table_, entry_id_, latest, immutable, sst, version>>
      /\ bg' = IF version # <<>> /\ Len(version[1]) >= LevelLimit[1]
               THEN "first" ELSE "write"
  BY DEF FlushBegin, clientvars
<1>2. /\ Counted' /\ (InOrder' => InOrder)
      /\ (Rising' <=> Rising) /\ (Falling' <=> Falling) /\ Written' = Written
  BY <1>1, SameKeys DEF OrderInv
<1> SUFFICES ASSUME InOrder' PROVE Ordered'
  BY <1>2 DEF OrderInv
<1>3. Ordered /\ Parts /\ Bounded
  BY <1>2 DEF OrderInv, LSMInv
<1>4. Known'
  BY <1>1, <1>3 DEF Ordered, Known, Held
<1>5. Layered(manifest, sst)' /\ Layered(version, sst)'
  BY <1>1, <1>2, <1>3 DEF Ordered, Layered, Filled, Ranked, Aged
<1>6. Recent(manifest, sst, immutable \union mem_table_)'
      /\ Recent(version, sst, immutable \union mem_table_)'
  BY <1>1, <1>3 DEF Ordered, Recent
<1>7. Older(immutable, mem_table_)' /\ (bg = "idle" => immutable = {})'
      /\ (bg \notin {"idle", "failed"} => immutable # {})'
  BY <1>1, <1>3 DEF Ordered, Older
<1>8. \A l \in DOMAIN version : l > 1 => Below(version, l)
  <2> SUFFICES ASSUME NEW l \in DOMAIN version, l > 1 PROVE Below(version, l)
    OBVIOUS
  <2>1. version \in Seq(Seq(1..Len(sst)))
    BY <1>3 DEF Parts, Typed
  <2>2. l # 1 /\ Len(version[l]) \in Nat
    BY <2>1, LevelLengths
  <2>3. l \in DOMAIN LevelLimit /\ Len(version[l]) < LevelLimit[l] + (IF l = 1 THEN 1 ELSE 0)
    BY <1>3 DEF Bounded
  <2>4. LevelLimit[l] \in Nat
    BY <2>3, Limits
  <2> QED
    BY <2>2, <2>3, <2>4 DEF Below
<1>9. Fronts'
  BY <1>1, <1>8 DEF Fronts, Below
<1>10. Complete'
  <2>1. EntriesIn(version)' = EntriesIn(version) /\ EntriesIn(manifest)' = EntriesIn(version)
    BY <1>1 DEF EntriesIn, FilesOf
  <2> QED
    BY <1>1, <1>2, <1>3, <2>1 DEF Ordered, Complete
<1> QED
  BY <1>4, <1>5, <1>6, <1>7, <1>9, <1>10 DEF Ordered

(* The oldest file of level 0 goes down.                                   *)
LEMMA CompactFirstOrdered == ASSUME LSMInv, OrderInv, CompactFirst PROVE OrderInv'
<1>1. /\ bg = "first" /\ bg' = "level" /\ CompactSST(1, {1})
      /\ UNCHANGED <<mem_table_, entry_id_, latest, immutable, version, lvl>>
  BY DEF CompactFirst, clientvars
<1>2. Counted' /\ (InOrder' => InOrder) /\ (InOrder => Rising \/ Falling) /\ Counted
  BY <1>1, SameKeys DEF OrderInv
<1> SUFFICES ASSUME InOrder' PROVE Ordered'
  BY <1>2 DEF OrderInv
<1>3. Ordered /\ (Rising \/ Falling)
  BY <1>2 DEF OrderInv
<1>4. lvl = 1 /\ manifest # <<>> /\ Len(manifest[1]) >= LevelLimit[1]
  BY <1>1 DEF LSMInv, Bounded
<1>5. 1 \in DOMAIN manifest /\ Len(manifest[1]) \in Nat
  BY <1>4, LevelLengths DEF LSMInv, Parts, Typed
<1>6. 1 \in 1..Len(manifest[lvl]) /\ 1..1 = {1}
  BY <1>4, <1>5, Limits
<1>7. CompactSST(lvl, 1..1)
  BY <1>1, <1>4, <1>6
<1> QED
  BY <1>1, <1>2, <1>3, <1>4, <1>5, <1>6, <1>7, CompactOrdered

(* As many files of a level as are too many go down.                       *)
LEMMA CompactLevelOrdered == ASSUME LSMInv, OrderInv, CompactLevel PROVE OrderInv'
<1>1. /\ bg = "level" /\ bg' = "level" /\ HasLimit /\ TooMany /\ CompactSST(lvl, Exceed)
      /\ UNCHANGED <<mem_table_, entry_id_, latest, immutable, version, lvl>>
  BY DEF CompactLevel, clientvars
<1>2. Counted' /\ (InOrder' => InOrder) /\ (InOrder => Rising \/ Falling) /\ Counted
  BY <1>1, SameKeys DEF OrderInv
<1> SUFFICES ASSUME InOrder' PROVE Ordered'
  BY <1>2 DEF OrderInv
<1>3. Ordered /\ (Rising \/ Falling)
  BY <1>2 DEF OrderInv
<1>4. lvl \in DOMAIN manifest /\ Len(manifest[lvl]) \in Nat
  <2>1. manifest \in Seq(Seq(1..Len(sst))) /\ lvl \in 1..Len(manifest)
    BY <1>1 DEF LSMInv, Parts, Typed, Bounded
  <2> QED
    BY <2>1, LevelLengths
<1>5. lvl \in DOMAIN LevelLimit /\ LevelLimit[lvl] \in Nat \ {0}
  BY <1>1, Limits DEF HasLimit
<1>6. PICK n : n = Len(manifest[lvl]) - LevelLimit[lvl] + 1
  OBVIOUS
<1>7. n \in 1..Len(manifest[lvl]) /\ Len(manifest[lvl]) >= LevelLimit[lvl]
  <2>1. Len(manifest[lvl]) >= LevelLimit[lvl]
    BY <1>1 DEF TooMany
  <2> QED
    BY <2>1, <1>4, <1>5, <1>6
<1>8. CompactSST(lvl, 1..n)
  BY <1>1, <1>6 DEF Exceed
<1> QED
  BY <1>1, <1>2, <1>3, <1>4, <1>5, <1>6, <1>7, <1>8, CompactOrdered

(* The loop goes on to the next level.                                     *)
LEMMA NextLevelOrdered == ASSUME LSMInv, OrderInv, NextLevel PROVE OrderInv'
<1>1. /\ bg = "level"
      /\ lvl' = (IF lvl < Len(manifest) THEN lvl + 1 ELSE lvl)
      /\ bg' = (IF lvl < Len(manifest) THEN "level" ELSE "write")
      /\ UNCHANGED <<mem_table_, entry_id_, latest, immutable, sst, version, manifest>>
  BY DEF NextLevel, clientvars
<1>2. /\ Counted' /\ (InOrder' => InOrder)
      /\ (Rising' <=> Rising) /\ (Falling' <=> Falling) /\ Written' = Written
  BY <1>1, SameKeys DEF OrderInv
<1> SUFFICES ASSUME InOrder' PROVE Ordered'
  BY <1>2 DEF OrderInv
<1>3. Ordered
  BY <1>2 DEF OrderInv
<1>4. Known' /\ Older(immutable, mem_table_)'
  BY <1>1, <1>3 DEF Ordered, Known, Held, Older
<1>5. Layered(manifest, sst)' /\ Layered(version, sst)'
  BY <1>1, <1>2, <1>3 DEF Ordered, Layered, Filled, Ranked, Aged
<1>6. Recent(manifest, sst, immutable \union mem_table_)'
      /\ Recent(version, sst, immutable \union mem_table_)'
  BY <1>1, <1>3 DEF Ordered, Recent
<1>7. (bg = "idle" => immutable = {})' /\ (bg \notin {"idle", "failed"} => immutable # {})'
  BY <1>1, <1>3 DEF Ordered
<1>8. Fronts'
  <2>1. lvl \in Nat /\ \A l \in DOMAIN manifest : l \in Nat
    <3>1. manifest \in Seq(Seq(1..Len(sst))) /\ lvl \in 1..Len(manifest)
      BY <1>1 DEF LSMInv, Parts, Typed, Bounded
    <3> QED
      BY <3>1, LevelLengths
  <2>2. \A l \in DOMAIN manifest : l >= lvl' => l >= lvl
    BY <1>1, <2>1
  <2>3. Falling => \A l \in DOMAIN manifest : l > 1 /\ l >= lvl' =>
           Below(manifest, l) \/ Fronted(manifest, sst, l)
    BY <1>1, <1>3, <2>2 DEF Ordered, Fronts
  <2> QED
    BY <1>1, <1>2, <2>3 DEF Fronts, Below, Fronted, Under
<1>9. Complete'
  <2>1. EntriesIn(version)' = EntriesIn(version) /\ EntriesIn(manifest)' = EntriesIn(manifest)
    BY <1>1 DEF EntriesIn, FilesOf
  <2> QED
    BY <1>1, <1>2, <1>3, <2>1 DEF Ordered, Complete
<1> QED
  BY <1>4, <1>5, <1>6, <1>7, <1>8, <1>9 DEF Ordered

(* A failed read or write only ends the task.                              *)
LEMMA FailsOrdered ==
    ASSUME LSMInv, OrderInv, CompactFails \/ WriteLevel0Fails PROVE OrderInv'
<1>1. /\ bg' = "failed"
      /\ version' = version \/ version' = manifest
      /\ immutable' = immutable \/ immutable' = {}
      /\ UNCHANGED <<mem_table_, entry_id_, latest, sst, manifest>>
  BY DEF CompactFails, WriteLevel0Fails, clientvars
<1>2. /\ Counted' /\ (InOrder' => InOrder)
      /\ (Rising' <=> Rising) /\ (Falling' <=> Falling)
  BY <1>1, SameKeys DEF OrderInv
<1> SUFFICES ASSUME InOrder' PROVE Ordered'
  BY <1>2 DEF OrderInv
<1>3. Ordered
  BY <1>2 DEF OrderInv
<1>4. Known' /\ Older(immutable, mem_table_)'
  BY <1>1, <1>3 DEF Ordered, Known, Held, Older
<1>5. Layered(manifest, sst)' /\ Layered(version, sst)'
  BY <1>1, <1>2, <1>3 DEF Ordered, Layered, Filled, Ranked, Aged
<1>6. Recent(manifest, sst, immutable \union mem_table_)'
      /\ Recent(version, sst, immutable \union mem_table_)'
  BY <1>1, <1>3 DEF Ordered, Recent, Older
<1>7. (bg = "idle" => immutable = {})' /\ (bg \notin {"idle", "failed"} => immutable # {})'
  BY <1>1
<1>8. Fronts' /\ Complete'
  BY <1>1 DEF Fronts, Complete
<1> QED
  BY <1>4, <1>5, <1>6, <1>7, <1>8 DEF Ordered

(* Level0Push keeps what is listed, and lists the new file.                *)
PushKept(m, m2, f) ==
    /\ 1 \in DOMAIN m2 /\ Len(m2[1]) \in Nat \ {0} /\ DOMAIN m2[1] = 1..Len(m2[1])
    /\ m2[1][Len(m2[1])] = f
    /\ \A k \in DOMAIN m : k \in DOMAIN m2 /\ \A i \in DOMAIN m[k] :
          i \in DOMAIN m2[k] /\ m2[k][i] = m[k][i]

(* Level0Push keeps the files that were listed.                            *)
LEMMA PushKeeps ==
    ASSUME NEW N \in Nat, manifest \in Seq(Seq(1..N)), NEW f \in Nat,
           NEW m2, m2 = Level0Push(f)
    PROVE  PushKept(manifest, m2, f)
<1>1. CASE manifest = <<>>
  <2>1. m2 = <<<<f>>>>
    BY <1>1 DEF Level0Push
  <2>2. PICK x : x = <<f>>
    OBVIOUS
  <2>3. Len(x) = 1 /\ DOMAIN x = 1..1 /\ x[1] = f
    BY <2>2
  <2>4. DOMAIN m2 = {1} /\ m2[1] = x
    BY <2>1, <2>2
  <2>5. DOMAIN manifest = {}
    BY <1>1
  <2> QED
    BY <2>3, <2>4, <2>5 DEF PushKept
<1>2. CASE manifest # <<>>
  <2>1. m2 = [manifest EXCEPT ![1] = Append(@, f)]
    BY <1>2 DEF Level0Push
  <2>2. 1 \in DOMAIN manifest
    BY <1>2, LevelLengths
  <2>3. PICK a \in Seq(Nat) : a = manifest[1]
    <3>1. manifest[1] \in Seq(1..N)
      BY <2>2, LenProperties
    <3>2. 1..N \subseteq Nat
      OBVIOUS
    <3>3. manifest[1] \in Seq(Nat)
      BY <3>1, <3>2, SeqMonotonic
    <3> QED
      BY <3>3
  <2>4. PICK n \in Nat : n = Len(a) /\ DOMAIN a = 1..n
    BY <2>3, LenProperties
  <2>5. PICK b : b = Append(a, f)
    OBVIOUS
  <2>6. /\ Len(b) = n + 1 /\ DOMAIN b = 1..(n + 1)
        /\ b[n + 1] = f /\ \A i \in 1..n : b[i] = a[i]
    BY <2>4, <2>5, AppendProperties, LenProperties
  <2>7. /\ DOMAIN m2 = DOMAIN manifest /\ m2[1] = b
        /\ \A k \in DOMAIN manifest : k # 1 => m2[k] = manifest[k]
    BY <2>1, <2>2, <2>3, <2>5
  <2>8. ASSUME NEW k \in DOMAIN manifest, NEW i \in DOMAIN manifest[k]
        PROVE  i \in DOMAIN m2[k] /\ m2[k][i] = manifest[k][i]
    <3>1. CASE k # 1
      BY <3>1, <2>7
    <3>2. CASE k = 1
      <4>1. i \in 1..n /\ i \in 1..(n + 1)
        BY <3>2, <2>3, <2>4
      <4> QED
        BY <3>2, <4>1, <2>3, <2>6, <2>7
    <3> QED
      BY <3>1, <3>2
  <2>9. /\ 1 \in DOMAIN m2 /\ Len(m2[1]) \in Nat \ {0} /\ DOMAIN m2[1] = 1..Len(m2[1])
        /\ m2[1][Len(m2[1])] = f
    BY <2>2, <2>4, <2>6, <2>7
  <2> QED
    BY <2>7, <2>8, <2>9 DEF PushKept
<1> QED
  BY <1>1, <1>2

(* The new file of level 0 is younger than all others.                     *)
LEMMA WriteLevel0Ordered == ASSUME LSMInv, OrderInv, WriteLevel0 PROVE OrderInv'
<1>1. /\ bg = "write" /\ bg' = "idle" /\ immutable' = {}
      /\ sst' = Append(sst, immutable)
      /\ manifest' = Level0Push(Len(sst) + 1) /\ version' = manifest'
      /\ UNCHANGED <<mem_table_, entry_id_, latest>>
  BY DEF WriteLevel0, clientvars
<1>2. /\ Counted' /\ (InOrder' => InOrder)
      /\ (Rising' <=> Rising) /\ (Falling' <=> Falling) /\ Written' = Written
  BY <1>1, SameKeys DEF OrderInv
<1> SUFFICES ASSUME InOrder' PROVE Ordered'
  BY <1>2 DEF OrderInv
<1>3. Ordered /\ Parts
  BY <1>2 DEF OrderInv, LSMInv
<1>4. PICK N \in Nat : N = Len(sst) /\ DOMAIN sst = 1..N
  BY <1>3, LenProperties DEF Parts, Typed
<1>5. /\ sst \in Seq(SUBSET Entry) /\ manifest \in Seq(Seq(1..N)) /\ immutable \in SUBSET Entry
  BY <1>3, <1>4 DEF Parts, Typed, Fresh, Held
<1>5a. PICK m2, s2 : m2 = manifest' /\ s2 = sst'
  OBVIOUS
<1>6. PICK f \in Nat : f = N + 1 /\ m2 = manifest' /\ s2 = sst'
  BY <1>4, <1>5a
<1>7. /\ DOMAIN s2 = 1..(N + 1) /\ s2[f] = immutable /\ \A g \in 1..N : s2[g] = sst[g]
  BY <1>1, <1>4, <1>5, <1>6, AppendProperties, LenProperties
<1>8. m2 = Level0Push(f)
  BY <1>1, <1>4, <1>6
<1>9. Pushed(manifest, m2, f) /\ PushKept(manifest, m2, f)
  BY <1>5, <1>6, <1>8, PushProperties, PushKeeps
<1>10. SameFiles(manifest, sst, s2)
  BY <1>5, <1>7, FilesStay
<1>11. ASSUME NEW k \in DOMAIN m2, NEW i \in DOMAIN m2[k]
       PROVE  \/ /\ k \in DOMAIN manifest /\ i \in DOMAIN manifest[k]
                 /\ s2[m2[k][i]] = sst[manifest[k][i]]
              \/ k = 1 /\ i = Len(m2[1]) /\ s2[m2[k][i]] = immutable
  <2>1. \/ k \in DOMAIN manifest /\ i \in DOMAIN manifest[k] /\ m2[k][i] = manifest[k][i]
        \/ k = 1 /\ i = Len(m2[1]) /\ m2[k][i] = f
    BY <1>9 DEF Pushed
  <2> QED
    BY <2>1, <1>7, <1>10 DEF SameFiles
<1>12. /\ Filled(manifest, sst) /\ Ranked(manifest, sst) /\ Aged(manifest, sst)
       /\ Recent(manifest, sst, immutable \union mem_table_)
       /\ Older(immutable, mem_table_) /\ immutable # {}
  BY <1>1, <1>3 DEF Ordered, Layered
<1>13. Filled(m2, s2)
  BY <1>11, <1>12 DEF Filled
<1>14. PICK q \in Nat \ {0} : q = Len(m2[1]) /\ DOMAIN m2[1] = 1..q
  BY <1>9 DEF PushKept
<1>15. Ranked(m2, s2)
  <2> SUFFICES ASSUME NEW k \in DOMAIN m2, NEW i \in DOMAIN m2[k], NEW j \in DOMAIN m2[k], i < j
               PROVE  IF k = 1 THEN Older(s2[m2[k][i]], s2[m2[k][j]])
                      ELSE Under(s2[m2[k][i]], s2[m2[k][j]])
    BY DEF Ranked
  <2>1. CASE /\ k \in DOMAIN manifest /\ i \in DOMAIN manifest[k] /\ j \in DOMAIN manifest[k]
             /\ s2[m2[k][i]] = sst[manifest[k][i]] /\ s2[m2[k][j]] = sst[manifest[k][j]]
    BY <2>1, <1>12 DEF Ranked
  <2>2. CASE /\ k \in DOMAIN manifest /\ i \in DOMAIN manifest[k]
             /\ s2[m2[k][i]] = sst[manifest[k][i]] /\ k = 1 /\ s2[m2[k][j]] = immutable
    <3>1. Older(sst[manifest[k][i]], immutable)
      BY <2>2, <1>12 DEF Recent, Older
    <3> QED
      BY <2>2, <3>1
  <2>3. CASE k = 1 /\ i = Len(m2[1])
    <3>1. j \in 1..q /\ i = q
      BY <2>3, <1>14
    <3> QED
      BY <3>1
  <2> QED
    BY <1>11, <2>1, <2>2, <2>3
<1>16. Aged(m2, s2)
  <2> SUFFICES ASSUME NEW g \in DOMAIN m2, NEW k \in DOMAIN m2, g < k, g = 1 \/ Rising,
                      NEW i \in DOMAIN m2[g], NEW j \in DOMAIN m2[k]
               PROVE  Older(s2[m2[k][j]], s2[m2[g][i]])
    BY DEF Aged
  <2>0. k # 1 /\ k \in DOMAIN manifest
    <3>1. PICK z \in Nat : DOMAIN m2 = 1..z
      <4>1. m2 \in Seq(Seq(1..(N + 1)))
        BY <1>5, <1>6, <1>8, PushProperties
      <4> QED
        BY <4>1, LevelLengths
    <3>2. k # 1
      BY <3>1
    <3> QED
      BY <3>2, <1>9 DEF Pushed
  <2>1. j \in DOMAIN manifest[k] /\ s2[m2[k][j]] = sst[manifest[k][j]]
    BY <2>0, <1>11
  <2>2. CASE /\ g \in DOMAIN manifest /\ i \in DOMAIN manifest[g]
             /\ s2[m2[g][i]] = sst[manifest[g][i]]
    BY <2>0, <2>1, <2>2, <1>12 DEF Aged
  <2>3. CASE s2[m2[g][i]] = immutable
    <3>1. Older(sst[manifest[k][j]], immutable)
      BY <2>0, <2>1, <1>12 DEF Recent, Older
    <3> QED
      BY <2>1, <2>3, <3>1
  <2> QED
    BY <1>11, <2>2, <2>3
<1>17. Recent(m2, s2, mem_table_)
  <2> SUFFICES ASSUME NEW k \in DOMAIN m2, NEW i \in DOMAIN m2[k]
               PROVE  Older(s2[m2[k][i]], mem_table_)
    BY DEF Recent
  <2>1. CASE /\ k \in DOMAIN manifest /\ i \in DOMAIN manifest[k]
             /\ s2[m2[k][i]] = sst[manifest[k][i]]
    <3>1. Older(sst[manifest[k][i]], mem_table_)
      BY <2>1, <1>12 DEF Recent, Older
    <3> QED
      BY <2>1, <3>1
  <2>2. CASE s2[m2[k][i]] = immutable
    BY <2>2, <1>12
  <2> QED
    BY <1>11, <2>1, <2>2
<1>18. Layered(manifest, sst)' /\ Layered(version, sst)'
  <2>1. Filled(manifest', sst')
    BY <1>6, <1>13
  <2>2. Ranked(manifest', sst')
    BY <1>6, <1>15
  <2>3. Aged(manifest, sst)'
    BY <1>2, <1>6, <1>16 DEF Aged
  <2>4. Layered(manifest, sst)'
    BY <2>1, <2>2, <2>3 DEF Layered, Filled, Ranked
  <2>5. version' = manifest'
    BY <1>1
  <2> QED
    BY <2>4, <2>5 DEF Layered, Filled, Ranked, Aged
<1>19. Recent(manifest, sst, immutable \union mem_table_)'
       /\ Recent(version, sst, immutable \union mem_table_)'
  <2>1. immutable' \union mem_table_' = mem_table_
    BY <1>1
  <2> QED
    BY <2>1, <1>1, <1>6, <1>17
<1>20. Known'
  <2>1. \A g \in DOMAIN s2 : s2[g] = immutable \/ (g \in DOMAIN sst /\ s2[g] = sst[g])
    <3> SUFFICES ASSUME NEW g \in DOMAIN s2
                 PROVE  s2[g] = immutable \/ (g \in DOMAIN sst /\ s2[g] = sst[g])
      OBVIOUS
    <3>1. g \in 1..N \/ g = f
      BY <1>6, <1>7
    <3> QED
      BY <3>1, <1>4, <1>7
  <2>2. Held' \subseteq Held
    BY <2>1, <1>1, <1>6 DEF Held
  <2> QED
    BY <2>2, <1>1, <1>3 DEF Ordered, Known
<1>21. Older(immutable, mem_table_)' /\ (bg = "idle" => immutable = {})'
       /\ (bg \notin {"idle", "failed"} => immutable # {})'
  BY <1>1 DEF Older
<1>22. Fronts'
  BY <1>1 DEF Fronts
<1>23. Complete'
  <2>1. \A e : e \in EntriesIn(version)' <=> \E k, i : From(m2, s2, k, i, e)
    BY <1>1, <1>6, EntriesListedNext
  <2>2. \A k, i, e : From(manifest, sst, k, i, e) => From(m2, s2, k, i, e)
    BY <1>9, <1>10 DEF From, PushKept, SameFiles
  <2>3. \A e : e \in EntriesIn(version) => e \in EntriesIn(version)'
    <3>1. EntriesIn(version) \subseteq EntriesIn(manifest)
      BY <1>1, <1>3 DEF Ordered, Complete
    <3>2. \A e : e \in EntriesIn(manifest) <=> \E k, i : From(manifest, sst, k, i, e)
      BY EntriesListed
    <3> QED
      BY <2>1, <2>2, <3>1, <3>2
  <2>4. \A e : e \in immutable => e \in EntriesIn(version)'
    <3>1. \A e : e \in immutable => From(m2, s2, 1, Len(m2[1]), e)
      BY <1>7, <1>9 DEF From, PushKept
    <3> QED
      BY <2>1, <3>1
  <2>5. \A k \in Written : latest[k] \in mem_table_ \union immutable \union EntriesIn(version)
    BY <1>1, <1>3 DEF Ordered, Complete
  <2>6. \A k \in Written : latest[k] \in mem_table_ \union EntriesIn(version)'
    BY <2>3, <2>4, <2>5
  <2> QED
    BY <1>1, <1>2, <2>6 DEF Complete
<1> QED
  BY <1>18, <1>19, <1>20, <1>21, <1>22, <1>23 DEF Ordered

-----------------------------------------------------------------------------
(* Every step keeps the invariant.                                         *)
LEMMA OrderedStep == LSMInv /\ OrderInv /\ [Next]_vars => OrderInv'
<1> SUFFICES ASSUME LSMInv, OrderInv, [Next]_vars PROVE OrderInv'
  OBVIOUS
<1>0. "kInsert" \in Op /\ "kDelete" \in Op
  BY DEF Op
<1>1. CASE \E k \in Keys : Insert(k) \/ InsertAndFlush(k) \/ Delete(k)
  <2>1. PICK k \in Keys : Insert(k) \/ InsertAndFlush(k) \/ Delete(k)
    BY <1>1
  <2>2. CASE Insert(k)
    BY <1>0, <2>2, ClientOrdered DEF Insert
  <2>3. CASE InsertAndFlush(k)
    <3>1. mem_table_ # {}
      <4>1. Cardinality(mem_table_) >= TableLimit /\ TableLimit \in Nat \ {0}
        BY <2>3, LSMAssumption DEF InsertAndFlush, Full
      <4>2. mem_table_ = {} => Cardinality(mem_table_) = 0
        BY FS_EmptySet
      <4> QED
        BY <4>1, <4>2
    <3> QED
      BY <1>0, <2>3, <3>1, ClientOrdered DEF InsertAndFlush
  <2>4. CASE Delete(k)
    BY <1>0, <2>4, ClientOrdered DEF Delete
  <2> QED
    BY <2>1, <2>2, <2>3, <2>4
<1>2. CASE FlushBegin
  BY <1>2, FlushBeginOrdered
<1>3. CASE CompactFirst
  BY <1>3, CompactFirstOrdered
<1>4. CASE CompactLevel
  BY <1>4, CompactLevelOrdered
<1>5. CASE NextLevel
  BY <1>5, NextLevelOrdered
<1>6. CASE WriteLevel0
  BY <1>6, WriteLevel0Ordered
<1>7. CASE CompactFails \/ WriteLevel0Fails
  BY <1>7, FailsOrdered
<1>8. CASE UNCHANGED vars
  <2>1. UNCHANGED <<mem_table_, immutable, entry_id_, sst, version, manifest, bg, lvl, latest>>
    BY <1>8 DEF vars
  <2>2. /\ Counted' /\ (InOrder' => InOrder)
        /\ (Rising' <=> Rising) /\ (Falling' <=> Falling) /\ Written' = Written
    BY <2>1, SameKeys DEF OrderInv
  <2> SUFFICES ASSUME Ordered PROVE Ordered'
    BY <2>2 DEF OrderInv
  <2>3. Known' /\ Older(immutable, mem_table_)'
    BY <2>1 DEF Ordered, Known, Held, Older
  <2>4. Layered(manifest, sst)' /\ Layered(version, sst)'
    BY <2>1, <2>2 DEF Ordered, Layered, Filled, Ranked, Aged
  <2>5. Recent(manifest, sst, immutable \union mem_table_)'
        /\ Recent(version, sst, immutable \union mem_table_)'
    BY <2>1 DEF Ordered, Recent
  <2>6. (bg = "idle" => immutable = {})' /\ (bg \notin {"idle", "failed"} => immutable # {})'
    BY <2>1 DEF Ordered
  <2>7. Fronts'
    BY <2>1, <2>2 DEF Ordered, Fronts, Below, Fronted, Under
  <2>8. Complete'
    <3>1. EntriesIn(version)' = EntriesIn(version) /\ EntriesIn(manifest)' = EntriesIn(manifest)
      BY <2>1 DEF EntriesIn, FilesOf
    <3> QED
      BY <2>1, <2>2, <3>1 DEF Ordered, Complete
  <2> QED
    BY <2>3, <2>4, <2>5, <2>6, <2>7, <2>8 DEF Ordered
<1> QED
  BY <1>1, <1>2, <1>3, <1>4, <1>5, <1>6, <1>7, <1>8 DEF Next

(* The empty store is in order.                                            *)
LEMMA OrderedInit == Init => OrderInv
<1> SUFFICES ASSUME Init PROVE OrderInv
  OBVIOUS
<1>1. Written = {}
  BY DEF Init, Written
<1>2. Counted
  BY <1>1, FS_EmptySet DEF Init, Counted
<1>3. Held = {} /\ EntriesIn(version) = {}
  BY DEF Init, Held, EntriesIn, FilesOf
<1>4. Known
  BY <1>3 DEF Known
<1>5. Layered(manifest, sst) /\ Layered(version, sst)
  BY DEF Init, Layered, Filled, Ranked, Aged
<1>6. /\ Recent(manifest, sst, immutable \union mem_table_)
      /\ Recent(version, sst, immutable \union mem_table_)
      /\ Older(immutable, mem_table_) /\ Fronts
  BY DEF Init, Recent, Older, Fronts
<1>7. Complete
  BY <1>1 DEF Init, Complete
<1> QED
  BY <1>2, <1>4, <1>5, <1>6, <1>7 DEF Init, OrderInv, Ordered

-----------------------------------------------------------------------------
(* Whatever BackgroundCompact and MVCCWriteLevel0 do, the store is ordered *)
(* by age and by key as long as its keys arrive in order.                  *)
THEOREM OrderInvariance == Spec => []OrderInv
<1>1. LSMInv /\ OrderInv /\ [Next]_vars => OrderInv'
  BY OrderedStep
<1> QED
  BY <1>1, OrderedInit, Invariance, PTL DEF Spec

(* A version whose files are in order.                                     *)
Steady == /\ Parts /\ Counted /\ Known /\ (Rising \/ Falling)
          /\ Filled(version, sst) /\ Ranked(version, sst)

(* While keys arrive in order the latest version is steady.                *)
LEMMA InOrderSteady ==
    ASSUME LSMInv, OrderInv, InOrder
    PROVE  Ordered /\ Steady
<1>1. Ordered /\ Counted /\ Parts
  BY DEF OrderInv, LSMInv
<1>2. Rising \/ Falling
  BY DEF InOrder, Rising, Falling, Written
<1> QED
  BY <1>1, <1>2 DEF Steady, Ordered, Layered

(* Its files hold entries with different ids.                              *)
LEMMA SteadyFiles ==
    ASSUME Steady, NEW l \in DOMAIN version
    PROVE  /\ l \in Nat /\ DOMAIN version[l] \in SUBSET Nat
           /\ \A i \in DOMAIN version[l] :
                 sst[version[l][i]] \subseteq Held /\ Proper(sst[version[l][i]])
<1>1. version \in Seq(Seq(1..Len(sst)))
  BY DEF Steady, Parts, Typed
<1>2. DOMAIN version \subseteq Nat
  <2>1. PICK z \in Nat : DOMAIN version = 1..z
    BY <1>1, LevelLengths
  <2> QED
    BY <2>1
<1>3. DOMAIN version[l] \in SUBSET Nat
  <2>1. PICK z \in Nat : DOMAIN version[l] = 1..z
    BY <1>1, LevelLengths
  <2> QED
    BY <2>1
<1>4. \A i \in DOMAIN version[l] :
         sst[version[l][i]] \subseteq Held /\ Proper(sst[version[l][i]])
  BY <1>1, HeldFiles DEF Steady
<1> QED
  BY <1>2, <1>3, <1>4

(* db.cc: all SST files above level 0 are ordered.  If keys arrive in      *)
(* order, ascending or descending, CompactSST keeps the files of each      *)
(* level apart and in the order of their keys, whichever files the limits  *)
(* make it take and wherever it inserts the new ones.                      *)
THEOREM LevelsStayOrdered == Spec => []OrderedIfInOrder
<1>1. LSMInv /\ OrderInv => OrderedIfInOrder
  <2> SUFFICES ASSUME LSMInv, OrderInv, InOrder, NEW l \in DOMAIN version, l > 1,
                      NEW i \in DOMAIN version[l], NEW j \in DOMAIN version[l], i < j
               PROVE  Less(Largest(sst[version[l][i]]), Smallest(sst[version[l][j]]))
    BY DEF OrderedIfInOrder, LevelsOrdered
  <2>1. Steady
    BY InOrderSteady
  <2>2. l # 1
    BY <2>1, SteadyFiles
  <2>3. Under(sst[version[l][i]], sst[version[l][j]])
    BY <2>1, <2>2 DEF Steady, Ranked
  <2>4. Proper(sst[version[l][i]]) /\ Proper(sst[version[l][j]])
    BY <2>1, SteadyFiles
  <2>5. /\ Largest(sst[version[l][i]]) \in sst[version[l][i]]
        /\ Smallest(sst[version[l][j]]) \in sst[version[l][j]]
    BY <2>4, ProperEnds
  <2> QED
    BY <2>3, <2>5 DEF Under
<1> QED
  BY <1>1, Invariance, OrderInvariance, PTL

-----------------------------------------------------------------------------
(* Get.  Whatever is held for a key is the last entry written for it.      *)
LEMMA OnlyLatest ==
    ASSUME Steady, NEW S, S \subseteq Held, NEW k, OfKey(S, k) # {}
    PROVE  /\ Smallest(OfKey(S, k)) = latest[k] /\ Largest(OfKey(S, k)) = latest[k]
           /\ latest[k] \in S /\ latest[k] \in Held /\ latest[k] \in Entry
           /\ latest[k].key = k /\ latest[k] # NoEntry
<1>1. /\ Held \subseteq Entry /\ \A e \in Held : e.key \in Written
      /\ \A e \in Held : latest[e.key] = e
  BY ByAge DEF Steady, Known
<1>2. PICK e \in S : e.key = k
  BY DEF OfKey
<1>3. e = latest[k] /\ e \in Held /\ e \in Entry /\ e # NoEntry
  BY <1>1, <1>2 DEF Written
<1>4. OfKey(S, k) = {e}
  BY <1>1, <1>2, <1>3 DEF OfKey
<1>5. ~ Less(e, e)
  BY <1>3, LessOrder
<1>6. Smallest({e}) = e /\ Largest({e}) = e
  BY <1>5 DEF Smallest, Largest
<1> QED
  BY <1>2, <1>3, <1>4, <1>6

(* A file gives the last entry of a key, or none.                          *)
LEMMA FileAnswers ==
    ASSUME Steady, NEW k, NEW l \in DOMAIN version, NEW i \in DOMAIN version[l],
           NEW f, f = version[l][i]
    PROVE  /\ GetFromSST(f, k) \in {NoEntry, latest[k]}
           /\ GetFromSST(f, k) # NoEntry => latest[k] \in sst[f]
           /\ latest[k] \in sst[f] /\ latest[k].key = k =>
                 GetFromSST(f, k) = latest[k] /\ latest[k] # NoEntry
<1>1. sst[f] \subseteq Held
  BY SteadyFiles
<1>2. OfKey(sst[f], k) # {} => /\ Smallest(OfKey(sst[f], k)) = latest[k]
                               /\ latest[k] \in sst[f] /\ latest[k] # NoEntry
  BY <1>1, OnlyLatest
<1>3. latest[k] \in sst[f] /\ latest[k].key = k => OfKey(sst[f], k) # {}
  BY DEF OfKey
<1> QED
  BY <1>2, <1>3 DEF GetFromSST

(* The first file of a deeper level whose range has the key is the one     *)
(* that has it.                                                            *)
LEMMA LevelAnswers ==
    ASSUME Steady, NEW k \in Keys, NEW l \in DOMAIN version
    PROVE  /\ SearchLevel(version, l, k) \in {NoEntry, latest[k]}
           /\ SearchLevel(version, l, k) # NoEntry => latest[k] \in EntriesIn(version)
           /\ \A i : From(version, sst, l, i, latest[k]) /\ latest[k].key = k =>
                 SearchLevel(version, l, k) = latest[k]
<1>0. k \in Nat
  BY LSMAssumption
<1>1. PICK hits : hits = IF l = 1
                THEN {i \in DOMAIN version[l] : GetFromSST(version[l][i], k) # NoEntry}
                ELSE {i \in DOMAIN version[l] : InRange(version[l][i], k)}
  OBVIOUS
<1>2. SearchLevel(version, l, k) =
         IF hits = {} THEN NoEntry ELSE GetFromSST(version[l][Min(hits)], k)
  BY <1>1 DEF SearchLevel
<1>3. hits \in SUBSET Nat /\ hits \subseteq DOMAIN version[l]
  BY <1>1, SteadyFiles
<1>4. hits # {} => Min(hits) \in hits /\ \A y \in hits : Min(hits) <= y
  BY <1>3, MinProperties
<1>5. \A i \in DOMAIN version[l] : GetFromSST(version[l][i], k) \in {NoEntry, latest[k]}
  BY FileAnswers
<1>6. /\ SearchLevel(version, l, k) \in {NoEntry, latest[k]}
      /\ SearchLevel(version, l, k) # NoEntry => latest[k] \in EntriesIn(version)
  <2> SUFFICES ASSUME SearchLevel(version, l, k) # NoEntry
               PROVE  /\ SearchLevel(version, l, k) = latest[k]
                      /\ latest[k] \in EntriesIn(version)
    OBVIOUS
  <2>1. PICK i \in DOMAIN version[l] : i = Min(hits)
    BY <1>2, <1>3, <1>4
  <2>2. SearchLevel(version, l, k) = GetFromSST(version[l][i], k)
    BY <1>2, <2>1
  <2>3. SearchLevel(version, l, k) = latest[k] /\ latest[k] \in sst[version[l][i]]
    BY <2>2, FileAnswers
  <2>4. From(version, sst, l, i, latest[k])
    BY <2>3 DEF From
  <2> QED
    BY <2>3, <2>4, EntriesListed
<1>7. ASSUME NEW i, From(version, sst, l, i, latest[k]), latest[k].key = k
      PROVE  SearchLevel(version, l, k) = latest[k]
  <2>1. i \in DOMAIN version[l] /\ latest[k] \in sst[version[l][i]]
    BY <1>7 DEF From
  <2>2. GetFromSST(version[l][i], k) = latest[k] /\ latest[k] # NoEntry
    BY <1>7, <2>1, FileAnswers
  <2>3. CASE l = 1
    <3>1. i \in hits
      BY <1>1, <2>1, <2>2, <2>3
    <3>2. Min(hits) \in hits
      BY <1>4, <3>1
    <3>3. GetFromSST(version[l][Min(hits)], k) # NoEntry
      BY <1>1, <2>3, <3>2
    <3> QED
      BY <1>2, <1>3, <1>5, <3>1, <3>2, <3>3
  <2>4. CASE l # 1
    <3>1. PICK S : S = sst[version[l][i]]
      OBVIOUS
    <3>2. S \subseteq Held /\ Proper(S) /\ latest[k] \in S
      BY <2>1, <3>1, SteadyFiles
    <3>3. PICK lo, hi : lo = Smallest(S) /\ hi = Largest(S)
      OBVIOUS
    <3>4. /\ lo \in Entry /\ hi \in Entry /\ latest[k] \in Entry
          /\ latest[k] = lo \/ Less(lo, latest[k])
          /\ latest[k] = hi \/ Less(latest[k], hi)
      BY <3>2, <3>3, ProperEnds DEF Proper
    <3>5. lo.key <= k /\ k <= hi.key
      BY <1>0, <1>7, <3>4, LessOrder DEF Less
    <3>6. i \in hits
      BY <1>1, <2>1, <2>4, <3>1, <3>3, <3>5 DEF InRange
    <3>7. PICK j \in Nat : j = Min(hits) /\ j \in hits /\ j <= i
      BY <1>3, <1>4, <3>6
    <3>8. ~ (j < i)
      <4> SUFFICES ASSUME j < i PROVE FALSE
        OBVIOUS
      <4>1. j \in DOMAIN version[l] /\ InRange(version[l][j], k)
        BY <1>1, <2>4, <3>7
      <4>2. PICK T, top : T = sst[version[l][j]] /\ top = Largest(T)
        OBVIOUS
      <4>3. T \subseteq Held /\ Proper(T)
        BY <4>1, <4>2, SteadyFiles
      <4>4. top \in T /\ top \in Entry
        BY <4>2, <4>3, ProperEnds
      <4>5. Under(T, S)
        BY <2>1, <2>4, <3>1, <4>1, <4>2 DEF Steady, Ranked
      <4>6. Less(top, latest[k])
        BY <3>2, <4>4, <4>5 DEF Under
      <4>7. k <= top.key
        BY <4>1, <4>2 DEF InRange
      <4>8. top.key = k
        BY <1>0, <1>7, <4>4, <4>6, <4>7, LessOrder DEF Less
      <4>9. top = latest[k]
        BY <4>3, <4>4, <4>8 DEF Steady, Known
      <4> QED
        BY <3>4, <4>6, <4>9, LessOrder
    <3>9. j = i
      <4>1. i \in Nat
        BY <1>3, <3>6
      <4> QED
        BY <3>7, <3>8, <4>1
    <3> QED
      BY <1>2, <2>2, <3>6, <3>7, <3>9
  <2> QED
    BY <2>3, <2>4
<1> QED
  BY <1>6, <1>7

(* A table answers with the last entry of the key if it has it and it is   *)
(* an insertion.                                                           *)
LEMMA TableAnswers ==
    ASSUME Steady, NEW T, T \subseteq Held, NEW k
    PROVE  TableGet(T, k) =
               IF latest[k] \in T /\ latest[k].key = k /\ latest[k].op = "kInsert"
               THEN latest[k] ELSE NoEntry
<1>1. OfKey(T, k) # {} => /\ Largest(OfKey(T, k)) = latest[k]
                          /\ latest[k] \in T /\ latest[k].key = k
  BY OnlyLatest
<1>2. latest[k] \in T /\ latest[k].key = k => OfKey(T, k) # {}
  BY DEF OfKey
<1> QED
  BY <1>1, <1>2 DEF TableGet, EntryValue

(* The first level in which something is found has the last entry.         *)
LEMMA FoundAnswers ==
    ASSUME Steady, NEW k \in Keys
    PROVE  /\ Found(k) # NoEntry => /\ Found(k) = latest[k]
                                    /\ latest[k] \in EntriesIn(version)
           /\ latest[k].key = k /\ latest[k] \in EntriesIn(version) =>
                 Found(k) = latest[k] /\ latest[k] # NoEntry
<1>1. PICK hits : hits = {l \in DOMAIN version : SearchLevel(version, l, k) # NoEntry}
  OBVIOUS
<1>2. Found(k) = IF hits = {} THEN NoEntry ELSE SearchLevel(version, Min(hits), k)
  BY <1>1 DEF Found
<1>3. hits \in SUBSET Nat /\ \A l \in hits : l \in DOMAIN version
  BY <1>1, SteadyFiles
<1>4. hits # {} => Min(hits) \in hits
  BY <1>3, MinProperties
<1>5. \A l \in hits : /\ SearchLevel(version, l, k) = latest[k]
                      /\ latest[k] \in EntriesIn(version) /\ latest[k] # NoEntry
  BY <1>1, <1>3, LevelAnswers
<1>6. ASSUME latest[k].key = k, latest[k] \in EntriesIn(version)
      PROVE  hits # {}
  <2>1. PICK l, i : From(version, sst, l, i, latest[k])
    BY <1>6, EntriesListed
  <2>2. l \in DOMAIN version
    BY <2>1 DEF From
  <2>3. SearchLevel(version, l, k) = latest[k]
    BY <1>6, <2>1, <2>2, LevelAnswers
  <2>4. latest[k] # NoEntry
    BY <1>6, <2>1, <2>2, FileAnswers DEF From
  <2> QED
    BY <1>1, <2>2, <2>3, <2>4
<1> QED
  BY <1>2, <1>4, <1>5, <1>6

(* An insertion is found wherever it is.                                   *)
LEMMA InsertionsFound ==
    ASSUME Steady, NEW k \in Keys, latest[k].op = "kInsert", latest[k].key = k,
           latest[k] \in mem_table_ \union immutable \union EntriesIn(version)
    PROVE  Stored(k) = latest[k]
<1>1. /\ TableGet(mem_table_, k) = IF latest[k] \in mem_table_ THEN latest[k] ELSE NoEntry
      /\ TableGet(immutable, k) = IF latest[k] \in immutable THEN latest[k] ELSE NoEntry
  BY TableAnswers DEF Held
<1>2. latest[k] # NoEntry
  BY DEF NoEntry
<1>3. latest[k] \in EntriesIn(version) => EntryValue(Found(k)) = latest[k] /\ Found(k) # NoEntry
  BY FoundAnswers DEF EntryValue
<1> QED
  BY <1>1, <1>2, <1>3 DEF Stored, Get

(* Nothing is found for any other key, unless its deletion is in a file.   *)
LEMMA DeletionsNotFound ==
    ASSUME Steady, NEW k \in Keys, latest[k].op # "kInsert", ~ FlushedDeletion(k)
    PROVE  Stored(k) = NoEntry
<1>1. TableGet(mem_table_, k) = NoEntry /\ TableGet(immutable, k) = NoEntry
  BY TableAnswers DEF Held
<1>2. Found(k) = NoEntry
  <2> SUFFICES ASSUME Found(k) # NoEntry PROVE FALSE
    OBVIOUS
  <2>1. latest[k] # NoEntry /\ latest[k] \in EntriesIn(version)
    BY FoundAnswers
  <2>2. latest[k] \in Entry
    BY <2>1 DEF Steady, Counted
  <2>3. latest[k].op = "kDelete"
    BY <2>2 DEF Entry, Op
  <2> QED
    BY <2>1, <2>3 DEF FlushedDeletion
<1> QED
  BY <1>1, <1>2 DEF Stored, Get

(* If keys arrive in order the store is a map of them, until a flush       *)
(* fails: no swap of tables, flush, compaction or new version loses,       *)
(* changes or hides what was inserted, and nothing is found for a key that *)
(* was not written or whose deletion is still in memory.  Between flushes  *)
(* that is what Get, SearchLevel, GetFromSST and EntryValue return.  Keys  *)
(* whose deletion has reached a file are left out: EntryValue is asked     *)
(* for a value that the entry does not have.                               *)
THEOREM StoreIsAMap == Spec => []StoredIfInOrder
<1>1. LSMInv /\ OrderInv => StoredIfInOrder
  <2> SUFFICES ASSUME LSMInv, OrderInv, InOrder, bg # "failed",
                      NEW k \in Keys, ~ FlushedDeletion(k)
               PROVE  /\ Stored(k) = Answer(k)
                      /\ bg = "idle" => Get(k) = Answer(k)
    BY DEF StoredIfInOrder
  <2>1. Ordered /\ Steady
    BY InOrderSteady
  <2>2. ASSUME latest[k].op = "kInsert"
        PROVE  /\ latest[k].key = k
               /\ latest[k] \in mem_table_ \union immutable \union EntriesIn(version)
    <3>1. k \in Written
      BY <2>2 DEF Written, NoEntry
    <3> QED
      BY <2>1, <3>1 DEF Steady, Counted, Ordered, Complete
  <2>3. Stored(k) = Answer(k)
    BY <2>1, <2>2, InsertionsFound, DeletionsNotFound DEF Answer
  <2>4. ASSUME bg = "idle"
        PROVE  Stored(k) = Get(k)
    <3>1. immutable = {}
      BY <2>1, <2>4 DEF Ordered
    <3>2. TableGet(immutable, k) = NoEntry
      BY <3>1 DEF TableGet, OfKey
    <3> QED
      BY <3>2 DEF Stored
  <2> QED
    BY <2>3, <2>4
<1> QED
  BY <1>1, Invariance, OrderInvariance, PTL
=============================================================================
