--------------------------- MODULE LRUCacheProofs ---------------------------
(***************************************************************************)
(* Proofs about the query cache, for any keys, values, sizes and capacity  *)
(* and any number of calls, as long as no caller overwrites a key that     *)
(* index_ points at (the reuse configuration shows what happens if one     *)
(* does).                                                                  *)
(***************************************************************************)
EXTENDS LRUCache, FiniteSetTheorems, TLAPS

-----------------------------------------------------------------------------
(* Sequences: an element is taken out, put in front or moved there, and    *)
(* how often the elements of a set occur.                                  *)
T == INSTANCE SequenceTheorems

(* The number of positions of s with an element of X.                      *)
Occurrences(s, X) == Cardinality({j \in DOMAIN s : s[j] \in X})

(* What is left of a sequence when one element is taken out.               *)
LEMMA RemoveAtProperties ==
    ASSUME NEW S, NEW s \in Seq(S), NEW p \in 1..Len(s)
    PROVE  /\ RemoveAt(s, p) \in Seq(S)
           /\ Len(RemoveAt(s, p)) = Len(s) - 1
           /\ \A i \in 1..(Len(s) - 1) :
                 RemoveAt(s, p)[i] = IF i < p THEN s[i] ELSE s[i + 1]
<1> DEFINE a == SubSeq(s, 1, p - 1)
           b == SubSeq(s, p + 1, Len(s))
<1>0. PICK n \in Nat : n = Len(s)
  BY T!LenProperties
<1>p. p \in 1..n /\ \A i \in 1..n : s[i] \in S
  BY <1>0, T!ElementOfSeq
<1>1. a \in Seq(S) /\ Len(a) = p - 1 /\ \A i \in 1..(p - 1) : a[i] = s[i]
  <2>1. \A i \in 1..(p - 1) : s[i] \in S
    BY <1>p
  <2> QED
    BY <1>p, <2>1, T!SubSeqProperties
<1>2. b \in Seq(S) /\ Len(b) = n - p /\ \A i \in 1..(n - p) : b[i] = s[p + i]
  <2>1. \A i \in (p + 1)..n : s[i] \in S
    BY <1>p
  <2> QED
    BY <1>0, <1>p, <2>1, T!SubSeqProperties
<1>3. /\ a \o b \in Seq(S) /\ Len(a \o b) = Len(a) + Len(b)
      /\ \A i \in 1..(Len(a) + Len(b)) :
            (a \o b)[i] = IF i <= Len(a) THEN a[i] ELSE b[i - Len(a)]
  BY <1>1, <1>2, T!ConcatProperties
<1>6. RemoveAt(s, p) = a \o b
  BY DEF RemoveAt
<1> HIDE DEF a, b
<1>4. \A i \in 1..(n - 1) : (a \o b)[i] = IF i < p THEN s[i] ELSE s[i + 1]
  <2> SUFFICES ASSUME NEW i \in 1..(n - 1)
               PROVE  (a \o b)[i] = IF i < p THEN s[i] ELSE s[i + 1]
    OBVIOUS
  <2>1. (a \o b)[i] = IF i <= Len(a) THEN a[i] ELSE b[i - Len(a)]
    BY <1>1, <1>2, <1>3, <1>p
  <2>2. CASE i < p
    BY <2>1, <2>2, <1>1, <1>p
  <2>3. CASE ~ (i < p)
    <3>1. i - (p - 1) \in 1..(n - p) /\ p + (i - (p - 1)) = i + 1
      BY <2>3, <1>p
    <3> QED
      BY <2>1, <2>3, <3>1, <1>1, <1>2, <1>p
  <2> QED
    BY <2>2, <2>3
<1>5. Len(a \o b) = n - 1
  BY <1>1, <1>2, <1>3, <1>p
<1> QED
  BY <1>0, <1>3, <1>4, <1>5, <1>6

(* The elements of a sequence that gets a new first one move up.           *)
LEMMA PrependProperties ==
    ASSUME NEW S, NEW s \in Seq(S), NEW e \in S
    PROVE  /\ <<e>> \o s \in Seq(S)
           /\ Len(<<e>> \o s) = Len(s) + 1
           /\ (<<e>> \o s)[1] = e
           /\ \A i \in 1..Len(s) : (<<e>> \o s)[i + 1] = s[i]
<1>1. <<e>> \in Seq(S) /\ Len(<<e>>) = 1 /\ <<e>>[1] = e
  OBVIOUS
<1>2. Len(s) \in Nat
  BY T!LenProperties
<1>3. /\ <<e>> \o s \in Seq(S) /\ Len(<<e>> \o s) = 1 + Len(s)
      /\ \A i \in 1..(1 + Len(s)) :
            (<<e>> \o s)[i] = IF i <= 1 THEN <<e>>[i] ELSE s[i - 1]
  BY <1>1, T!ConcatProperties
<1>4. \A i \in 1..Len(s) : (<<e>> \o s)[i + 1] = s[i]
  <2> SUFFICES ASSUME NEW i \in 1..Len(s)
               PROVE  (<<e>> \o s)[i + 1] = s[i]
    OBVIOUS
  <2>1. i + 1 \in 1..(1 + Len(s)) /\ ~ (i + 1 <= 1) /\ (i + 1) - 1 = i
    BY <1>2
  <2> QED
    BY <1>3, <2>1
<1> QED
  BY <1>1, <1>2, <1>3, <1>4

(* An element is moved to the front, and changed on the way.               *)
ToFront(s, p, e) == <<e>> \o RemoveAt(s, p)

Shifted(t, s, p, e) ==
    /\ Len(t) = Len(s)
    /\ t[1] = e
    /\ \A i \in 2..p : t[i] = s[i - 1]
    /\ \A i \in (p + 1)..Len(s) : t[i] = s[i]

(* An element that is moved to the front.                                  *)
LEMMA ToFrontProperties ==
    ASSUME NEW S, NEW s \in Seq(S), NEW p \in 1..Len(s), NEW e \in S
    PROVE  /\ ToFront(s, p, e) \in Seq(S)
           /\ Shifted(ToFront(s, p, e), s, p, e)
<1>0. PICK n \in Nat : n = Len(s)
  BY T!LenProperties
<1> DEFINE r == RemoveAt(s, p)
<1>1. /\ r \in Seq(S) /\ Len(r) = n - 1
      /\ \A i \in 1..(n - 1) : r[i] = IF i < p THEN s[i] ELSE s[i + 1]
  BY <1>0, RemoveAtProperties
<1> HIDE DEF r
<1>2. /\ <<e>> \o r \in Seq(S) /\ Len(<<e>> \o r) = (n - 1) + 1
      /\ (<<e>> \o r)[1] = e
      /\ \A i \in 1..(n - 1) : (<<e>> \o r)[i + 1] = r[i]
  BY <1>1, PrependProperties
<1>3. ASSUME NEW i \in 2..p
      PROVE  (<<e>> \o r)[i] = s[i - 1]
  <2>1. i - 1 \in 1..(n - 1) /\ (i - 1) + 1 = i /\ i - 1 < p
    BY <1>0
  <2> QED
    BY <1>1, <1>2, <2>1
<1>5. ASSUME NEW i \in (p + 1)..n
      PROVE  (<<e>> \o r)[i] = s[i]
  <2>1. i - 1 \in 1..(n - 1) /\ (i - 1) + 1 = i /\ ~ (i - 1 < p)
    BY <1>0
  <2> QED
    BY <1>1, <1>2, <2>1
<1>4. (n - 1) + 1 = n
  OBVIOUS
<1> QED
  BY <1>0, <1>2, <1>3, <1>4, <1>5 DEF r, ToFront, Shifted

(* What is put in front can be taken out again.                            *)
LEMMA PrependRemoved ==
    ASSUME NEW S, NEW s \in Seq(S), NEW e \in S
    PROVE  RemoveAt(<<e>> \o s, 1) = s
<1>0. PICK n \in Nat : n = Len(s)
  BY T!LenProperties
<1> DEFINE t == <<e>> \o s
<1>1. /\ t \in Seq(S) /\ Len(t) = n + 1
      /\ \A i \in 1..n : t[i + 1] = s[i]
  BY <1>0, PrependProperties
<1> HIDE DEF t
<1>5. 1 \in 1..(n + 1) /\ (n + 1) - 1 = n
  OBVIOUS
<1>2. 1 \in 1..Len(t) /\ Len(t) - 1 = n
  BY <1>1, <1>5
<1>3. /\ RemoveAt(t, 1) \in Seq(S) /\ Len(RemoveAt(t, 1)) = n
      /\ \A i \in 1..n : RemoveAt(t, 1)[i] = IF i < 1 THEN t[i] ELSE t[i + 1]
  BY <1>1, <1>2, RemoveAtProperties
<1>4. \A i \in 1..n : RemoveAt(t, 1)[i] = s[i]
  BY <1>1, <1>3
<1> QED
  BY <1>0, <1>3, <1>4, T!SeqEqual DEF t

(* What does not come first is another element of the old sequence.        *)
LEMMA ShiftedElements ==
    ASSUME NEW S, NEW s \in Seq(S), NEW p \in 1..Len(s), NEW t, NEW e, Shifted(t, s, p, e)
    PROVE  \A i \in 2..Len(s) : \E m \in 1..Len(s) : m # p /\ t[i] = s[m]
<1>0. PICK n \in Nat : n = Len(s)
  BY T!LenProperties
<1> SUFFICES ASSUME NEW i \in 2..n
             PROVE  \E m \in 1..n : m # p /\ t[i] = s[m]
  BY <1>0
<1>1. CASE i <= p
  <2>1. i \in 2..p /\ i - 1 \in 1..n /\ i - 1 # p
    BY <1>0, <1>1
  <2>2. t[i] = s[i - 1]
    BY <2>1 DEF Shifted
  <2> QED
    BY <2>1, <2>2
<1>2. CASE ~ (i <= p)
  <2>1. i \in (p + 1)..n /\ i \in 1..n /\ i # p
    BY <1>0, <1>2
  <2>2. t[i] = s[i]
    BY <1>0, <2>1 DEF Shifted
  <2> QED
    BY <2>1, <2>2
<1> QED
  BY <1>1, <1>2

(* When the sequence keeps its length, the last element makes room.        *)
LEMMA FrontPrepended ==
    ASSUME NEW S, NEW s \in Seq(S), s # <<>>, NEW e \in S
    PROVE  /\ Len(s) \in 1..Len(s)
           /\ Front(<<e>> \o s) = ToFront(s, Len(s), e)
<1>0. PICK n \in Nat : n = Len(s)
  BY T!LenProperties
<1>1. n \in 1..n
  BY <1>0, T!EmptySeq
<1> DEFINE t == <<e>> \o s
           u == ToFront(s, n, e)
<1>2. /\ t \in Seq(S) /\ Len(t) = n + 1 /\ t[1] = e
      /\ \A i \in 1..n : t[i + 1] = s[i]
  BY <1>0, PrependProperties
<1>3. /\ u \in Seq(S) /\ Len(u) = n /\ u[1] = e
      /\ \A i \in 2..n : u[i] = s[i - 1]
  <2>1. u \in Seq(S) /\ Shifted(u, s, n, e)
    BY <1>0, <1>1, ToFrontProperties
  <2> QED
    BY <1>0, <2>1 DEF Shifted
<1> HIDE DEF t, u
<1>4. /\ Front(t) \in Seq(S) /\ Len(Front(t)) = n
      /\ \A i \in 1..n : Front(t)[i] = t[i]
  <2>1. (n + 1) - 1 = n /\ \A i \in 1..n : i \in 1..(n + 1)
    OBVIOUS
  <2>2. \A i \in 1..n : t[i] \in S
    BY <1>2, <2>1, T!ElementOfSeq
  <2>3. Front(t) = SubSeq(t, 1, n)
    BY <1>2, <2>1 DEF Front
  <2>4. /\ SubSeq(t, 1, n) \in Seq(S)
        /\ Len(SubSeq(t, 1, n)) = n
        /\ \A i \in 1..n : SubSeq(t, 1, n)[i] = t[i]
    BY <1>1, <2>2, T!SubSeqProperties
  <2> QED
    BY <2>3, <2>4
<1>5. ASSUME NEW i \in 1..n
      PROVE  Front(t)[i] = u[i]
  <2>1. CASE i = 1
    BY <1>2, <1>3, <1>4, <2>1
  <2>2. CASE i # 1
    <3>1. i - 1 \in 1..n /\ (i - 1) + 1 = i /\ i \in 2..n
      BY <2>2
    <3> QED
      BY <1>2, <1>3, <1>4, <2>2, <3>1
  <2> QED
    BY <2>1, <2>2
<1>6. Front(t) = u
  BY <1>3, <1>4, <1>5, T!SeqEqual
<1> QED
  BY <1>0, <1>1, <1>6 DEF t, u

(* An element that is taken out is counted no more.                        *)
LEMMA OccurrencesRemoved ==
    ASSUME NEW S, NEW s \in Seq(S), NEW p \in 1..Len(s), NEW X
    PROVE  /\ Occurrences(s, X) \in Nat
           /\ Occurrences(RemoveAt(s, p), X)
                 = Occurrences(s, X) - (IF s[p] \in X THEN 1 ELSE 0)
<1>0. PICK n \in Nat : n = Len(s)
  BY T!LenProperties
<1> DEFINE r == RemoveAt(s, p)
           A == {j \in 1..n : s[j] \in X}
           B == {j \in 1..(n - 1) : r[j] \in X}
           f == [j \in B |-> IF j < p THEN j ELSE j + 1]
<1>1. /\ r \in Seq(S) /\ Len(r) = n - 1
      /\ \A i \in 1..(n - 1) : r[i] = IF i < p THEN s[i] ELSE s[i + 1]
  BY <1>0, RemoveAtProperties
<1>2. DOMAIN s = 1..n /\ DOMAIN r = 1..(n - 1)
  BY <1>0, <1>1, T!LenProperties
<1>3. p \in 1..n
  BY <1>0
<1> HIDE DEF r
<1>4. IsFiniteSet(A) /\ IsFiniteSet(B) /\ IsFiniteSet(A \ {p})
  <2>1. IsFiniteSet(1..n) /\ IsFiniteSet(1..(n - 1))
    BY FS_Interval
  <2>2. A \in SUBSET (1..n) /\ B \in SUBSET (1..(n - 1))
    OBVIOUS
  <2> HIDE DEF A, B
  <2>3. IsFiniteSet(A) /\ IsFiniteSet(B)
    BY <2>1, <2>2, FS_Subset
  <2> QED
    BY <2>3, FS_RemoveElement
<1>5. f \in Bijection(B, A \ {p})
  <2>1. f \in [B -> A \ {p}]
    BY <1>1, <1>3
  <2>2. \A a, b \in B : f[a] = f[b] => a = b
    BY <1>3
  <2>3. ASSUME NEW c \in A \ {p}
        PROVE  \E b \in B : f[b] = c
    <3>1. CASE c < p
      <4>1. c \in B /\ f[c] = c
        BY <1>1, <1>3, <3>1
      <4> QED
        BY <4>1
    <3>2. CASE ~ (c < p)
      <4>1. c - 1 \in 1..(n - 1) /\ ~ (c - 1 < p) /\ (c - 1) + 1 = c
        BY <1>3, <3>2
      <4>2. c - 1 \in B /\ f[c - 1] = c
        BY <1>1, <4>1
      <4> QED
        BY <4>2
    <3> QED
      BY <3>1, <3>2
  <2> QED
    <3> HIDE DEF A, B, f
    <3> QED
      BY <2>1, <2>2, <2>3 DEF Bijection, Injection, IsInjective, Surjection
<1>6. Cardinality(A \ {p}) = Cardinality(B)
  <2>1. ExistsBijection(B, A \ {p})
    BY <1>5 DEF ExistsBijection
  <2> QED
    BY <1>4, <2>1, FS_Bijection
<1>7. Cardinality(A \ {p}) = IF p \in A THEN Cardinality(A) - 1 ELSE Cardinality(A)
  BY <1>4, FS_RemoveElement
<1>8. Cardinality(A) \in Nat /\ (p \in A <=> s[p] \in X)
  BY <1>3, <1>4, FS_CardinalityType
<1>9. Occurrences(s, X) = Cardinality(A) /\ Occurrences(r, X) = Cardinality(B)
  BY <1>2 DEF Occurrences
<1> HIDE DEF A, B
<1> QED
  BY <1>6, <1>7, <1>8, <1>9 DEF r

(* An element that is put in front is counted.                             *)
LEMMA OccurrencesPrepended ==
    ASSUME NEW S, NEW s \in Seq(S), NEW e \in S, NEW X
    PROVE  /\ Occurrences(s, X) \in Nat
           /\ Occurrences(<<e>> \o s, X)
                 = Occurrences(s, X) + (IF e \in X THEN 1 ELSE 0)
<1> DEFINE t == <<e>> \o s
<1>0. PICK n \in Nat : n = Len(s)
  BY T!LenProperties
<1>1. t \in Seq(S) /\ Len(t) = n + 1 /\ t[1] = e
  BY <1>0, PrependProperties
<1>2. RemoveAt(t, 1) = s
  BY PrependRemoved
<1> HIDE DEF t
<1>3. 1 \in 1..Len(t)
  BY <1>1
<1>4. /\ Occurrences(t, X) \in Nat
      /\ Occurrences(s, X) = Occurrences(t, X) - (IF e \in X THEN 1 ELSE 0)
  BY <1>1, <1>2, <1>3, OccurrencesRemoved
<1>5. DOMAIN s = 1..n
  BY <1>0, T!LenProperties
<1>6. Occurrences(s, X) \in Nat
  <2>1. IsFiniteSet(1..n) /\ {j \in 1..n : s[j] \in X} \in SUBSET (1..n)
    BY FS_Interval
  <2>2. IsFiniteSet({j \in 1..n : s[j] \in X})
    BY <2>1, FS_Subset
  <2> QED
    BY <1>5, <2>2, FS_CardinalityType DEF Occurrences
<1> QED
  BY <1>4, <1>6 DEF t

-----------------------------------------------------------------------------
(* The inductive invariant.                                                *)

Stored == {Tombstone} \cup {Value(v) : v \in Values}

Records == [node : Nat, key : Keys, val : Stored,
            kblk : Nat, vblk : Nat, kat : Nat, vat : Nat]

Elements == [at : Buffers, code : Keys, node : Nat]

Pools == [ref : Seq(Int) \ {<<>>}, at : Nat, remaining : Int]

Typed ==
    /\ caller \in [Buffers -> Keys]
    /\ data_ \in Seq(Records)
    /\ index_ \in SUBSET Elements /\ IsFiniteSet(index_)
    /\ size_ = Len(data_)
    /\ pool \in Pools
    /\ puts \in Nat
    /\ recent \in Seq(Keys)
    /\ last \in [Keys -> Stored \cup {None}]

Once(r) == \A p, q \in 1..Len(r) : r[p] = r[q] => p = q

(* recent has every key once, and data_ starts like it: all of it, or as   *)
(* much as fits.                                                           *)
Order ==
    /\ Once(recent)
    /\ Len(data_) <= Len(recent) /\ Len(data_) <= Capacity
    /\ Len(data_) = Len(recent) \/ Len(data_) = Capacity
    /\ \A j \in 1..Len(data_) : data_[j].key = recent[j]

(* No two records share a node, and a new one gets another.                *)
Nodes ==
    /\ \A i, j \in 1..Len(data_) : data_[i].node = data_[j].node => i = j
    /\ \A j \in 1..Len(data_) : data_[j].node < puts

(* index_ has one element for every record, under its key, and the buffer  *)
(* it points at still holds that key.                                      *)
Indexed ==
    /\ \A i \in index_ : caller[i.at] = i.code
    /\ \A i \in index_ : \E j \in 1..Len(data_) :
          data_[j].node = i.node /\ data_[j].key = i.code
    /\ \A j \in 1..Len(data_) : \E i \in index_ : i.node = data_[j].node
    /\ \A i, k \in index_ : i.node = k.node => i = k
    /\ Cardinality(index_) = Len(data_)

(* Every record has what was put last for its key.                         *)
Latest == \A j \in 1..Len(data_) : data_[j].val = last[data_[j].key]

(* The count of every block is the number of keys and values in it, and    *)
(* all of them are in blocks that there are.                               *)
RefOf(p, id) == IF id \in 1..Len(p.ref) THEN p.ref[id] ELSE 0

KeysIn(id) == {d \in Records : d.kblk = id}
ValuesIn(id) == {d \in Records : d.vblk = id}

Counted ==
    /\ \A id \in Nat :
          RefOf(pool, id) = Occurrences(data_, KeysIn(id)) + Occurrences(data_, ValuesIn(id))
    /\ \A j \in 1..Len(data_) :
          data_[j].kblk \in 1..Len(pool.ref) /\ data_[j].vblk \in 1..Len(pool.ref)

CacheInv ==
    Typed /\ Order /\ Nodes /\ Indexed /\ Latest /\ HitIsLatest /\ Counted

-----------------------------------------------------------------------------
(* What a new use of key k does to the sequence of all keys: k comes first *)
(* and the others keep their order.                                        *)
Used(s, r, k) ==
    \E p \in 1..(Len(r) + 1) :
        /\ p <= Len(r) => r[p] = k /\ Len(s) = Len(r)
        /\ p > Len(r) => Len(s) = Len(r) + 1 /\ \A q \in 1..Len(r) : r[q] # k
        /\ \A i \in 1..Len(s) :
              s[i] = IF i = 1 THEN k ELSE IF i <= p THEN r[i - 1] ELSE r[i]

(* Taking a key out of a sequence that has it once, or not at all.         *)
LEMMA RemoveFirstOnce ==
    ASSUME NEW r \in Seq(Keys), NEW k \in Keys, Once(r)
    PROVE  /\ \A p \in 1..Len(r) : r[p] = k => RemoveFirst(r, k) = RemoveAt(r, p)
           /\ (\A p \in 1..Len(r) : r[p] # k) => RemoveFirst(r, k) = r
<1>1. ASSUME NEW p \in 1..Len(r), r[p] = k
      PROVE  RemoveFirst(r, k) = RemoveAt(r, p)
  <2>1. {i \in 1..Len(r) : r[i] = k} = {p}
    BY <1>1 DEF Once
  <2>2. Min({p}) = p
    <3>1. p \in Int
      BY T!LenProperties
    <3> QED
      BY <3>1 DEF Min
  <2> QED
    BY <1>1, <2>1, <2>2 DEF RemoveFirst, SelectInSeq
<1>2. (\A p \in 1..Len(r) : r[p] # k) => RemoveFirst(r, k) = r
  BY DEF RemoveFirst
<1> QED
  BY <1>1, <1>2

(* A key that is used moves to the front of the order of use.              *)
LEMMA UsedProperties ==
    ASSUME NEW r \in Seq(Keys), NEW k \in Keys, NEW s, Once(r),
           s = <<k>> \o RemoveFirst(r, k)
    PROVE  s \in Seq(Keys) /\ Once(s) /\ Used(s, r, k)
<1>0. PICK n \in Nat : n = Len(r)
  BY T!LenProperties
<1>1. PICK p \in 1..(n + 1) : \/ p <= n /\ r[p] = k
                              \/ p = n + 1 /\ \A q \in 1..n : r[q] # k
  <2>1. CASE \E q \in 1..n : r[q] = k
    BY <2>1
  <2>2. CASE ~ \E q \in 1..n : r[q] = k
    <3>1. n + 1 \in 1..(n + 1)
      OBVIOUS
    <3> QED
      BY <2>2, <3>1
  <2> QED
    BY <2>1, <2>2
<1>2. /\ s \in Seq(Keys)
      /\ Len(s) = IF p <= n THEN n ELSE n + 1
      /\ \A i \in 1..Len(s) :
            s[i] = IF i = 1 THEN k ELSE IF i <= p THEN r[i - 1] ELSE r[i]
  <2>1. CASE p <= n /\ r[p] = k
    <3>1. p \in 1..Len(r)
      BY <1>0, <2>1
    <3>2. s = ToFront(r, p, k)
      BY <2>1, <3>1, RemoveFirstOnce DEF ToFront
    <3>4. s \in Seq(Keys) /\ Shifted(s, r, p, k)
      <4>1. ToFront(r, p, k) \in Seq(Keys) /\ Shifted(ToFront(r, p, k), r, p, k)
        BY <3>1, ToFrontProperties
      <4> QED
        BY <3>2, <4>1
    <3>3. /\ s \in Seq(Keys) /\ Len(s) = Len(r) /\ s[1] = k
          /\ \A i \in 2..p : s[i] = r[i - 1]
          /\ \A i \in (p + 1)..Len(r) : s[i] = r[i]
      BY <3>4 DEF Shifted
    <3>5. ASSUME NEW i \in 1..n
          PROVE  s[i] = IF i = 1 THEN k ELSE IF i <= p THEN r[i - 1] ELSE r[i]
      <4>1. i = 1 \/ i \in 2..p \/ i \in (p + 1)..n
        OBVIOUS
      <4> QED
        BY <1>0, <3>3, <4>1
    <3> QED
      BY <1>0, <2>1, <3>3, <3>5
  <2>2. CASE p = n + 1 /\ \A q \in 1..n : r[q] # k
    <3>1. s = <<k>> \o r
      BY <1>0, <2>2, RemoveFirstOnce
    <3>4. /\ s \in Seq(Keys) /\ Len(s) = Len(r) + 1 /\ s[1] = k
          /\ \A i \in 1..Len(r) : s[i + 1] = r[i]
      <4> DEFINE t == <<k>> \o r
      <4>1. /\ t \in Seq(Keys) /\ Len(t) = Len(r) + 1 /\ t[1] = k
            /\ \A i \in 1..Len(r) : t[i + 1] = r[i]
        BY PrependProperties
      <4> QED
        BY <3>1, <4>1
    <3>2. /\ s \in Seq(Keys) /\ Len(s) = n + 1 /\ s[1] = k
          /\ \A i \in 1..n : s[i + 1] = r[i]
      BY <1>0, <3>4
    <3>3. ASSUME NEW i \in 1..(n + 1)
          PROVE  s[i] = IF i = 1 THEN k ELSE IF i <= p THEN r[i - 1] ELSE r[i]
      <4>1. CASE i = 1
        BY <3>2, <4>1
      <4>2. CASE i # 1
        <5>1. i - 1 \in 1..n /\ (i - 1) + 1 = i /\ i <= p
          BY <2>2, <4>2
        <5> QED
          BY <3>2, <4>2, <5>1
      <4> QED
        BY <4>1, <4>2
    <3> QED
      BY <2>2, <3>2, <3>3
  <2> QED
    BY <1>1, <2>1, <2>2
<1>3. ASSUME NEW i \in 1..Len(s), NEW j \in 1..Len(s), s[i] = s[j]
      PROVE  i = j
  <2>1. ASSUME NEW a \in 1..Len(s), a # 1
        PROVE  \E q \in 1..n : q # p /\ s[a] = r[q] /\ q = IF a <= p THEN a - 1 ELSE a
    <3>1. CASE a <= p
      <4>1. a - 1 \in 1..n /\ a - 1 # p
        BY <1>1, <1>2, <2>1, <3>1
      <4> QED
        BY <1>2, <2>1, <3>1, <4>1
    <3>2. CASE ~ (a <= p)
      BY <1>1, <1>2, <2>1, <3>2
    <3> QED
      BY <3>1, <3>2
  <2>2. ASSUME NEW a \in 1..Len(s), a # 1
        PROVE  s[a] # k
    <3>1. PICK q \in 1..n : q # p /\ s[a] = r[q]
      BY <2>1, <2>2
    <3> QED
      BY <1>0, <1>1, <3>1 DEF Once
  <2>3. 1 \in 1..Len(s) /\ s[1] = k
    BY <1>1, <1>2
  <2>4. CASE i = 1 \/ j = 1
    BY <1>3, <2>2, <2>3, <2>4
  <2>5. CASE i # 1 /\ j # 1
    <3>1. PICK q \in 1..n : s[i] = r[q] /\ q # p /\ q = IF i <= p THEN i - 1 ELSE i
      BY <2>1, <2>5
    <3>2. PICK m \in 1..n : s[j] = r[m] /\ m # p /\ m = IF j <= p THEN j - 1 ELSE j
      BY <2>1, <2>5
    <3>3. q = m
      BY <1>0, <1>3, <3>1, <3>2 DEF Once
    <3>4. Len(s) \in Nat
      BY <1>2
    <3> QED
      BY <1>1, <3>1, <3>2, <3>3, <3>4
  <2> QED
    BY <2>4, <2>5
<1> QED
  <2>1. p <= n => r[p] = k /\ Len(s) = n
    BY <1>1, <1>2
  <2>2. p > n => Len(s) = n + 1 /\ \A q \in 1..n : r[q] # k
    BY <1>1, <1>2
  <2> QED
    BY <1>0, <1>2, <1>3, <2>1, <2>2 DEF Once, Used

(* AllocateFullBlock adds a block with one reference to it.                *)
LEMMA FullBlock ==
    ASSUME NEW p \in Pools
    PROVE  /\ AllocateFullBlock(p) \in Pools
           /\ Len(AllocateFullBlock(p).ref) = Len(p.ref) + 1
           /\ AllocateFullBlock(p).ref[Len(p.ref) + 1] = 1
           /\ \A i \in 1..Len(p.ref) : AllocateFullBlock(p).ref[i] = p.ref[i]
<1>1. p.ref \in Seq(Int) /\ p.at \in Nat /\ p.remaining \in Int
  BY DEF Pools
<1>2. PICK r : r = Append(p.ref, 1)
  OBVIOUS
<1>3. /\ r \in Seq(Int) \ {<<>>} /\ Len(r) = Len(p.ref) + 1 /\ r[Len(p.ref) + 1] = 1
      /\ \A i \in 1..Len(p.ref) : r[i] = p.ref[i]
  BY <1>1, <1>2, T!AppendProperties
<1>4. AllocateFullBlock(p) = [p EXCEPT !.ref = r]
  BY <1>2 DEF AllocateFullBlock
<1>5. [p EXCEPT !.ref = r] \in Pools /\ [p EXCEPT !.ref = r].ref = r
  BY <1>3 DEF Pools
<1> QED
  BY <1>3, <1>4, <1>5

(* Whatever Allocate takes the space from, the block it names has one more *)
(* reference and every other block as many as before.                      *)
LEMMA AllocateCounts ==
    ASSUME NEW p \in Pools, NEW size \in Nat, NEW a, a = AllocateWithId(p, size)
    PROVE  /\ a.pool \in Pools /\ a.at \in Nat
           /\ a.id \in Nat /\ a.id \in 1..Len(a.pool.ref)
           /\ Len(p.ref) \in Nat /\ Len(a.pool.ref) \in Nat /\ Len(p.ref) <= Len(a.pool.ref)
           /\ \A id \in Nat :
                 RefOf(a.pool, id) = RefOf(p, id) + (IF id = a.id THEN 1 ELSE 0)
<1> DEFINE n == Len(p.ref)
           q == Allocate(p, size)
<1>0. /\ p.ref \in Seq(Int) /\ p.ref # <<>> /\ p.at \in Nat /\ p.remaining \in Int
      /\ kDefaultBlockSize \in Nat
  BY LRUCacheAssumption DEF Pools
<1>1. n \in Nat /\ n >= 1 /\ n \in 1..n /\ n + 1 \in Nat /\ (n + 1) - 1 = n
  BY <1>0, T!EmptySeq, T!LenProperties
<1>2. a.pool = q.pool /\ a.at = q.at /\ a.id = Len(q.pool.ref)
  BY DEF AllocateWithId
<1> SUFFICES /\ q.pool \in Pools /\ q.at \in Nat
             /\ Len(q.pool.ref) \in {n, n + 1}
             /\ \A id \in Nat : RefOf(q.pool, id)
                    = RefOf(p, id) + (IF id = Len(q.pool.ref) THEN 1 ELSE 0)
  <2> HIDE DEF q, n
  <2> SUFFICES /\ Len(q.pool.ref) \in Nat /\ Len(q.pool.ref) \in 1..Len(q.pool.ref)
               /\ n <= Len(q.pool.ref)
    BY <1>1, <1>2 DEF n
  <2> QED
    BY <1>1
<1>3. ASSUME NEW r \in Seq(Int), Len(r) = n + 1, r[n + 1] = 1,
             \A i \in 1..n : r[i] = p.ref[i],
             q.pool \in Pools, q.pool.ref = r
      PROVE  /\ Len(q.pool.ref) \in {n, n + 1}
             /\ \A id \in Nat : RefOf(q.pool, id)
                    = RefOf(p, id) + (IF id = Len(q.pool.ref) THEN 1 ELSE 0)
  <2> HIDE DEF q
  <2> SUFFICES ASSUME NEW id \in Nat
               PROVE  RefOf(q.pool, id) = RefOf(p, id) + (IF id = n + 1 THEN 1 ELSE 0)
    BY <1>3
  <2>1. \A i \in 1..n : p.ref[i] \in Int
    BY <1>0, T!ElementOfSeq
  <2>2. CASE id = n + 1
    <3>1. ~ (id \in 1..n) /\ id \in 1..(n + 1)
      BY <1>1, <2>2
    <3>2. RefOf(q.pool, id) = 1 /\ RefOf(p, id) = 0
      BY <1>3, <2>2, <3>1 DEF RefOf
    <3> QED
      BY <2>2, <3>2
  <2>3. CASE id # n + 1
    <3>1. id \in 1..n <=> id \in 1..(n + 1)
      BY <1>1, <2>3
    <3>2. RefOf(q.pool, id) = RefOf(p, id) /\ RefOf(p, id) \in Int
      BY <1>3, <2>1, <3>1 DEF RefOf
    <3> QED
      BY <2>3, <3>2
  <2> QED
    BY <2>2, <2>3
<1>4. CASE size > kMaxSectorSize
  <2>1. q = [pool |-> AllocateFullBlock(p), at |-> n + 1]
    BY <1>4 DEF Allocate
  <2>2. q.pool = AllocateFullBlock(p) /\ q.at = n + 1
    BY <2>1
  <2> HIDE DEF q
  <2>3. PICK f : f = AllocateFullBlock(p)
    OBVIOUS
  <2>4. /\ f \in Pools /\ Len(f.ref) = n + 1 /\ f.ref[n + 1] = 1
        /\ \A i \in 1..n : f.ref[i] = p.ref[i]
    BY <2>3, FullBlock
  <2>5. f.ref \in Seq(Int)
    BY <2>4 DEF Pools
  <2> QED
    BY <1>1, <1>3, <2>2, <2>3, <2>4, <2>5
<1>5. CASE ~ (size > kMaxSectorSize) /\ size > p.remaining
  <2>3. PICK f : f = AllocateFullBlock(p)
    OBVIOUS
  <2>1. q = [pool |-> [f EXCEPT !.at = n + 1, !.remaining = kDefaultBlockSize - size],
             at |-> n + 1]
    BY <1>5, <2>3 DEF Allocate
  <2>4. /\ f \in Pools /\ Len(f.ref) = n + 1 /\ f.ref[n + 1] = 1
        /\ \A i \in 1..n : f.ref[i] = p.ref[i]
    BY <2>3, FullBlock
  <2>5. f.ref \in Seq(Int)
    BY <2>4 DEF Pools
  <2>6. PICK rem \in Int : rem = kDefaultBlockSize - size
    BY <1>0
  <2>7. q.pool = [f EXCEPT !.at = n + 1, !.remaining = rem] /\ q.at = n + 1
    BY <2>1, <2>6
  <2> HIDE DEF q
  <2>8. q.pool \in Pools /\ q.pool.ref = f.ref
    BY <1>1, <2>4, <2>7 DEF Pools
  <2> QED
    BY <1>1, <1>3, <2>4, <2>5, <2>7, <2>8
<1>6. CASE ~ (size > kMaxSectorSize) /\ ~ (size > p.remaining)
  <2>1. PICK c \in Int : c = p.ref[n] + 1
    BY <1>0, <1>1, T!ElementOfSeq
  <2>2. PICK r : r = [p.ref EXCEPT ![n] = c]
    OBVIOUS
  <2>3. r \in Seq(Int) /\ Len(r) = n /\ \A i \in 1..n : r[i] = IF i = n THEN c ELSE p.ref[i]
    BY <1>0, <1>1, <2>1, <2>2, T!ExceptSeq
  <2>4. r # <<>>
    BY <1>1, <2>3
  <2>5. PICK rem \in Int : rem = p.remaining - size
    BY <1>0
  <2>6. q = [pool |-> [p EXCEPT !.ref = r, !.remaining = rem], at |-> p.at]
    BY <1>1, <1>6, <2>1, <2>2, <2>5 DEF Allocate, Pools
  <2>7. q.pool = [p EXCEPT !.ref = r, !.remaining = rem] /\ q.at = p.at
    BY <2>6
  <2> HIDE DEF q
  <2>8. q.pool \in Pools /\ q.pool.ref = r
    BY <2>3, <2>4, <2>7 DEF Pools
  <2>9. ASSUME NEW id \in Nat
        PROVE  RefOf(q.pool, id) = RefOf(p, id) + (IF id = n THEN 1 ELSE 0)
    <3>1. \A i \in 1..n : p.ref[i] \in Int
      BY <1>0, T!ElementOfSeq
    <3>2. CASE id = n
      BY <1>1, <2>1, <2>3, <2>8, <3>2 DEF RefOf
    <3>3. CASE id # n
      <4>1. RefOf(q.pool, id) = RefOf(p, id) /\ RefOf(p, id) \in Int
        BY <2>3, <2>8, <3>1, <3>3 DEF RefOf
      <4> QED
        BY <3>3, <4>1
    <3> QED
      BY <3>2, <3>3
  <2> QED
    BY <1>0, <2>3, <2>7, <2>8, <2>9
<1> QED
  BY <1>4, <1>5, <1>6

(* Unref takes one reference from the block.                               *)
LEMMA UnrefCounts ==
    ASSUME NEW p \in Pools, NEW b \in 1..Len(p.ref), NEW q, q = Unref(p, b)
    PROVE  /\ q \in Pools
           /\ Len(q.ref) = Len(p.ref)
           /\ \A id \in Nat : RefOf(q, id) = RefOf(p, id) - (IF id = b THEN 1 ELSE 0)
<1>1. p.ref \in Seq(Int) /\ p.ref # <<>>
  BY DEF Pools
<1>2. DOMAIN p.ref = 1..Len(p.ref)
  BY <1>1, T!LenProperties
<1>3. PICK c \in Int : c = p.ref[b] - 1
  BY <1>1, T!ElementOfSeq
<1>4. PICK r : r = [p.ref EXCEPT ![b] = c]
  OBVIOUS
<1>5. /\ r \in Seq(Int) /\ Len(r) = Len(p.ref)
      /\ \A i \in 1..Len(p.ref) : r[i] = IF i = b THEN c ELSE p.ref[i]
  BY <1>1, <1>3, <1>4, T!ExceptSeq
<1>6. r # <<>>
  BY <1>1, <1>5, T!EmptySeq
<1>7. q = [p EXCEPT !.ref = r]
  BY <1>2, <1>3, <1>4 DEF Unref, Pools
<1>8. q \in Pools /\ q.ref = r
  BY <1>5, <1>6, <1>7 DEF Pools
<1>9. ASSUME NEW id \in Nat
      PROVE  RefOf(q, id) = RefOf(p, id) - (IF id = b THEN 1 ELSE 0)
  <2>1. \A i \in 1..Len(p.ref) : p.ref[i] \in Int
    BY <1>1, T!ElementOfSeq
  <2>2. CASE id = b
    BY <1>3, <1>5, <1>8, <2>2 DEF RefOf
  <2>3. CASE id # b
    <3>1. RefOf(q, id) = RefOf(p, id) /\ RefOf(p, id) \in Int
      BY <1>5, <1>8, <2>1, <2>3 DEF RefOf
    <3> QED
      BY <2>3, <3>1
  <2> QED
    BY <2>2, <2>3
<1> QED
  BY <1>5, <1>8, <1>9

(* How often the elements of a set occur when a record is moved.           *)
LEMMA OccurrencesMoved ==
    ASSUME NEW s \in Seq(Records), NEW p \in 1..Len(s), NEW d \in Records, NEW X
    PROVE  /\ Occurrences(s, X) \in Nat
           /\ Occurrences(ToFront(s, p, d), X)
                 = (Occurrences(s, X) - (IF s[p] \in X THEN 1 ELSE 0))
                       + (IF d \in X THEN 1 ELSE 0)
<1>1. PICK r : r = RemoveAt(s, p)
  OBVIOUS
<1>2. r \in Seq(Records)
  BY <1>1, RemoveAtProperties
<1>3. /\ Occurrences(s, X) \in Nat
      /\ Occurrences(r, X) = Occurrences(s, X) - (IF s[p] \in X THEN 1 ELSE 0)
  BY <1>1, OccurrencesRemoved
<1>4. Occurrences(<<d>> \o r, X) = Occurrences(r, X) + (IF d \in X THEN 1 ELSE 0)
  BY <1>2, OccurrencesPrepended
<1> QED
  BY <1>1, <1>3, <1>4 DEF ToFront

-----------------------------------------------------------------------------
(* What is found under a key leads to the record of that key.              *)
LEMMA Found ==
    ASSUME CacheInv, NEW b \in Buffers, NEW i \in Find(caller[b])
    PROVE  /\ i \in index_
           /\ Position(i.node) \in 1..Len(data_)
           /\ data_[Position(i.node)].node = i.node
           /\ data_[Position(i.node)].key = caller[b]
<1>1. i \in index_ /\ i.code = caller[b]
  BY DEF Find
<1>2. DOMAIN data_ = 1..Len(data_)
  BY T!LenProperties DEF CacheInv, Typed
<1>3. PICK j \in 1..Len(data_) : data_[j].node = i.node /\ data_[j].key = i.code
  BY <1>1 DEF CacheInv, Indexed
<1>4. Position(i.node) \in DOMAIN data_ /\ data_[Position(i.node)].node = i.node
  BY <1>2, <1>3 DEF Position
<1>5. Position(i.node) = j
  BY <1>2, <1>3, <1>4 DEF CacheInv, Nodes
<1> QED
  BY <1>1, <1>3, <1>5

(* A key that is not found is the key of no record.                        *)
LEMMA Missed ==
    ASSUME CacheInv, NEW k, Find(k) = {}
    PROVE  \A j \in 1..Len(data_) : data_[j].key # k
<1> SUFFICES ASSUME NEW j \in 1..Len(data_), data_[j].key = k
             PROVE  FALSE
  OBVIOUS
<1>1. PICK i \in index_ : i.node = data_[j].node
  BY DEF CacheInv, Indexed
<1>2. PICK m \in 1..Len(data_) : data_[m].node = i.node /\ data_[m].key = i.code
  BY <1>1 DEF CacheInv, Indexed
<1>3. m = j
  BY <1>1, <1>2 DEF CacheInv, Nodes
<1>4. i.code = k /\ caller[i.at] = k
  BY <1>2, <1>3 DEF CacheInv, Indexed
<1> QED
  BY <1>4 DEF Find, SeqEqual

(* The use of a key in any step.                                           *)
LEMMA RecentUsed ==
    ASSUME CacheInv, NEW b \in Buffers,
           recent' = <<caller[b]>> \o RemoveFirst(recent, caller[b])
    PROVE  recent' \in Seq(Keys) /\ Once(recent)' /\ Used(recent', recent, caller[b])
<1>1. PICK t : t = recent'
  OBVIOUS
<1>2. /\ caller[b] \in Keys /\ recent \in Seq(Keys) /\ Once(recent)
      /\ t = <<caller[b]>> \o RemoveFirst(recent, caller[b])
  BY <1>1 DEF CacheInv, Typed, Order
<1>3. t \in Seq(Keys) /\ Once(t) /\ Used(t, recent, caller[b])
  BY <1>2, UsedProperties, ZenonT(30)
<1> QED
  BY <1>1, <1>3 DEF Once

(* A record is moved to the front, with other data but the same key, when  *)
(* that key is used.                                                       *)
LEMMA MovedInv ==
    ASSUME CacheInv, NEW b \in Buffers, NEW j \in 1..Len(data_), NEW d \in Records,
           data_[j].key = caller[b], d.key = caller[b], d.node = data_[j].node,
           data_' = ToFront(data_, j, d),
           recent' = <<caller[b]>> \o RemoveFirst(recent, caller[b]),
           UNCHANGED <<caller, index_, size_>>,
           puts' \in Nat, puts' >= puts
    PROVE  /\ data_' \in Seq(Records) /\ Shifted(data_', data_, j, d)
           /\ recent' \in Seq(Keys)
           /\ size_' = Len(data_')
           /\ Order' /\ Nodes' /\ Indexed'
<1>0. PICK n \in Nat : n = Len(data_)
  BY T!LenProperties DEF CacheInv, Typed
<1>1. PICK s : s = data_'
  OBVIOUS
<1>2. s \in Seq(Records) /\ Shifted(s, data_, j, d)
  BY <1>1, ToFrontProperties DEF CacheInv, Typed
<1>3. /\ Len(s) = n /\ s[1] = d
      /\ \A i \in 2..j : s[i] = data_[i - 1]
      /\ \A i \in (j + 1)..n : s[i] = data_[i]
  BY <1>0, <1>2 DEF Shifted
<1>4. j \in 1..n
  BY <1>0
<1> DEFINE f(i) == IF i = 1 THEN j ELSE IF i <= j THEN i - 1 ELSE i
<1>5. ASSUME NEW i \in 1..n
      PROVE  /\ f(i) \in 1..n
             /\ s[i].node = data_[f(i)].node /\ s[i].key = data_[f(i)].key
  <2>1. CASE i = 1
    BY <1>3, <1>4, <2>1
  <2>2. CASE i # 1 /\ i <= j
    <3>1. i \in 2..j /\ i - 1 \in 1..n
      BY <1>4, <2>2
    <3> QED
      BY <1>3, <2>2, <3>1
  <2>3. CASE i # 1 /\ ~ (i <= j)
    <3>1. i \in (j + 1)..n
      BY <1>4, <2>3
    <3> QED
      BY <1>3, <2>3, <3>1
  <2> QED
    BY <2>1, <2>2, <2>3
<1>6. ASSUME NEW i \in 1..n, NEW m \in 1..n, f(i) = f(m)
      PROVE  i = m
  BY <1>4, <1>6
<1>7. ASSUME NEW m \in 1..n
      PROVE  \E i \in 1..n : f(i) = m
  <2>1. CASE m = j
    <3>1. 1 \in 1..n /\ f(1) = m
      BY <1>4, <2>1
    <3> QED
      BY <3>1
  <2>2. CASE m < j
    <3>1. m + 1 \in 1..n /\ f(m + 1) = m
      BY <1>4, <2>2
    <3> QED
      BY <3>1
  <2>3. CASE m > j
    <3>1. f(m) = m
      BY <1>4, <2>3
    <3> QED
      BY <3>1
  <2> QED
    BY <1>4, <2>1, <2>2, <2>3
<1> HIDE DEF f
<1>8. recent' \in Seq(Keys) /\ Order'
  <2>1. PICK t : t = recent'
    OBVIOUS
  <2>2. caller[b] \in Keys /\ recent \in Seq(Keys)
    BY DEF CacheInv, Typed
  <2>3. t \in Seq(Keys) /\ Once(t) /\ Used(t, recent, caller[b])
    BY <2>1, RecentUsed, ZenonT(30) DEF Once
  <2>4. PICK l \in Nat : l = Len(recent)
    BY <2>2, T!LenProperties
  <2>5. /\ n <= l /\ n <= Capacity /\ (n = l \/ n = Capacity)
        /\ \A i \in 1..n : data_[i].key = recent[i]
    BY <1>0, <2>4 DEF CacheInv, Order
  <2>6. j \in 1..l /\ recent[j] = caller[b]
    BY <1>4, <2>5
  <2>7. /\ Len(t) = l
        /\ \A i \in 1..l : t[i] = IF i = 1 THEN caller[b]
                                  ELSE IF i <= j THEN recent[i - 1] ELSE recent[i]
    <3>1. PICK p \in 1..(l + 1) :
              /\ p <= l => recent[p] = caller[b] /\ Len(t) = l
              /\ p > l => \A q \in 1..l : recent[q] # caller[b]
              /\ \A i \in 1..Len(t) :
                    t[i] = IF i = 1 THEN caller[b]
                           ELSE IF i <= p THEN recent[i - 1] ELSE recent[i]
      BY <2>3, <2>4 DEF Used
    <3>2. p \in 1..l
      BY <2>6, <3>1
    <3>3. p = j
      BY <2>4, <2>6, <3>1, <3>2 DEF CacheInv, Order, Once
    <3> QED
      BY <3>1, <3>2, <3>3, SMTT(30)
  <2>8. ASSUME NEW i \in 1..n
        PROVE  s[i].key = t[i]
    <3>0. i \in 1..l
      BY <2>5
    <3>1. CASE i = 1
      BY <1>3, <2>7, <3>0, <3>1
    <3>2. CASE i # 1 /\ i <= j
      <4>1. i \in 2..j /\ i - 1 \in 1..n
        BY <1>4, <3>2
      <4> QED
        BY <1>3, <2>5, <2>7, <3>0, <3>2, <4>1
    <3>3. CASE i # 1 /\ ~ (i <= j)
      <4>1. i \in (j + 1)..n
        BY <1>4, <3>3
      <4> QED
        BY <1>3, <2>5, <2>7, <3>0, <3>3, <4>1
    <3> QED
      BY <3>1, <3>2, <3>3
  <2> QED
    BY <1>1, <1>3, <2>1, <2>3, <2>5, <2>7, <2>8 DEF Order
<1>9. Nodes'
  <2>1. \A i, m \in 1..n : s[i].node = s[m].node => i = m
    <3> SUFFICES ASSUME NEW i \in 1..n, NEW m \in 1..n, s[i].node = s[m].node
                 PROVE  i = m
      OBVIOUS
    <3>1. f(i) \in 1..n /\ f(m) \in 1..n /\ data_[f(i)].node = data_[f(m)].node
      BY <1>5
    <3>2. f(i) = f(m)
      BY <1>0, <3>1 DEF CacheInv, Nodes
    <3> QED
      BY <1>6, <3>2
  <2>2. ASSUME NEW i \in 1..n
        PROVE  s[i].node < puts'
    <3>1. f(i) \in 1..n /\ s[i].node = data_[f(i)].node
      BY <1>5
    <3>2. data_[f(i)].node < puts /\ puts \in Nat
      BY <1>0, <3>1 DEF CacheInv, Nodes, Typed
    <3>3. data_[f(i)] \in Records
      BY <1>0, <3>1, T!ElementOfSeq DEF CacheInv, Typed
    <3>4. data_[f(i)].node \in Nat
      BY <3>3 DEF Records
    <3> QED
      BY <3>1, <3>2, <3>4
  <2> QED
    BY <1>1, <1>3, <2>1, <2>2 DEF Nodes
<1>10. Indexed'
  <2>1. \A i \in index_ : \E m \in 1..n : data_[m].node = i.node /\ data_[m].key = i.code
    BY <1>0 DEF CacheInv, Indexed
  <2>2. \A i \in index_ : \E m \in 1..n : s[m].node = i.node /\ s[m].key = i.code
    <3> TAKE i \in index_
    <3>1. PICK m \in 1..n : data_[m].node = i.node /\ data_[m].key = i.code
      BY <2>1
    <3>2. PICK x \in 1..n : f(x) = m
      BY <1>7
    <3> QED
      BY <1>5, <3>1, <3>2
  <2>3. \A m \in 1..n : \E i \in index_ : i.node = s[m].node
    <3> TAKE m \in 1..n
    <3>1. f(m) \in 1..n /\ s[m].node = data_[f(m)].node
      BY <1>5
    <3>2. \E i \in index_ : i.node = data_[f(m)].node
      BY <1>0, <3>1 DEF CacheInv, Indexed
    <3> QED
      BY <3>1, <3>2
  <2>4. Cardinality(index_) = n
    BY <1>0 DEF CacheInv, Indexed
  <2> QED
    BY <1>1, <1>3, <2>2, <2>3, <2>4, ZenonT(30) DEF CacheInv, Indexed
<1> QED
  BY <1>0, <1>1, <1>2, <1>3, <1>8, <1>9, <1>10 DEF CacheInv, Typed

(* A key without a record gets one, and there is room for it.  The key may *)
(* not have been used before: whatever was used is still there.            *)
LEMMA PushedRoomInv ==
    ASSUME CacheInv, NEW b \in Buffers, Find(caller[b]) = {}, NEW d \in Records,
           d.key = caller[b], d.node = puts,
           Len(data_) < Capacity,
           data_' = <<d>> \o data_,
           index_' = index_ \cup {[at |-> b, code |-> caller[b], node |-> puts]},
           size_' = size_ + 1,
           recent' = <<caller[b]>> \o RemoveFirst(recent, caller[b]),
           UNCHANGED caller,
           puts' = puts + 1
    PROVE  /\ data_' \in Seq(Records) /\ Len(data_') = Len(data_) + 1
           /\ data_'[1] = d /\ \A i \in 1..Len(data_) : data_'[i + 1] = data_[i]
           /\ recent' \in Seq(Keys)
           /\ index_' \in SUBSET Elements /\ IsFiniteSet(index_')
           /\ size_' = Len(data_')
           /\ Order' /\ Nodes' /\ Indexed'
<1>0. PICK n \in Nat : n = Len(data_)
  BY T!LenProperties DEF CacheInv, Typed
<1>1. PICK s : s = data_'
  OBVIOUS
<1>t. data_ \in Seq(Records) /\ puts \in Nat /\ caller[b] \in Keys /\ recent \in Seq(Keys)
  BY DEF CacheInv, Typed
<1>2. s \in Seq(Records) /\ Len(s) = n + 1 /\ s[1] = d /\ \A i \in 1..n : s[i + 1] = data_[i]
  <2>1. PICK t : t = <<d>> \o data_
    OBVIOUS
  <2>2. /\ t \in Seq(Records) /\ Len(t) = Len(data_) + 1 /\ t[1] = d
        /\ \A i \in 1..Len(data_) : t[i + 1] = data_[i]
    BY <1>t, <2>1, PrependProperties
  <2> QED
    BY <1>0, <1>1, <2>1, <2>2
<1>3. ASSUME NEW i \in 1..(n + 1)
      PROVE  \/ i = 1 /\ s[i] = d
             \/ i # 1 /\ i - 1 \in 1..n /\ s[i] = data_[i - 1]
  <2>1. CASE i = 1
    BY <1>2, <2>1
  <2>2. CASE i # 1
    <3>1. i - 1 \in 1..n /\ (i - 1) + 1 = i
      BY <2>2
    <3> QED
      BY <1>2, <2>2, <3>1
  <2> QED
    BY <2>1, <2>2
<1>4. \A i \in 1..n : data_[i].key # caller[b]
  BY <1>0, Missed
<1>5. \A i \in 1..n : data_[i].node \in Nat /\ data_[i].node < puts
  <2> TAKE i \in 1..n
  <2>1. data_[i] \in Records
    BY <1>0, <1>t, T!ElementOfSeq
  <2> QED
    BY <1>0, <2>1 DEF Records, CacheInv, Nodes
<1>6. recent' \in Seq(Keys) /\ Order'
  <2>1. PICK t : t = recent'
    OBVIOUS
  <2>3. t \in Seq(Keys) /\ Once(t) /\ Used(t, recent, caller[b])
    BY <2>1, RecentUsed, ZenonT(30) DEF Once
  <2>5. /\ n = Len(recent) /\ Capacity \in Nat
        /\ \A i \in 1..n : data_[i].key = recent[i]
    BY <1>0, LRUCacheAssumption DEF CacheInv, Order
  <2>6. PICK p \in 1..(n + 1) :
            /\ p <= n => recent[p] = caller[b] /\ Len(t) = n
            /\ p > n => Len(t) = n + 1
            /\ \A i \in 1..Len(t) :
                  t[i] = IF i = 1 THEN caller[b]
                         ELSE IF i <= p THEN recent[i - 1] ELSE recent[i]
    BY <2>3, <2>5 DEF Used
  <2>7. p = n + 1
    <3>1. CASE p <= n
      <4>1. p \in 1..n
        BY <3>1
      <4> QED
        BY <1>4, <2>5, <2>6, <3>1, <4>1
    <3>2. CASE ~ (p <= n)
      BY <3>2
    <3> QED
      BY <3>1, <3>2
  <2>8. Len(t) = n + 1
    BY <2>6, <2>7
  <2>9. ASSUME NEW i \in 1..(n + 1)
        PROVE  s[i].key = t[i]
    <3>1. i <= p /\ i \in 1..Len(t)
      BY <2>7, <2>8
    <3>2. t[i] = IF i = 1 THEN caller[b] ELSE recent[i - 1]
      BY <2>6, <3>1
    <3>3. CASE i = 1
      BY <1>3, <3>2, <3>3
    <3>4. CASE i # 1
      <4>1. i - 1 \in 1..n /\ s[i] = data_[i - 1]
        BY <1>3, <3>4
      <4> QED
        BY <2>5, <3>2, <3>4, <4>1
    <3> QED
      BY <3>3, <3>4
  <2>10. n + 1 <= Capacity
    BY <1>0, <2>5
  <2> QED
    BY <1>1, <1>2, <2>1, <2>3, <2>8, <2>9, <2>10 DEF Order
<1>7. Nodes'
  <2>1. ASSUME NEW i \in 1..(n + 1), NEW m \in 1..(n + 1), s[i].node = s[m].node
        PROVE  i = m
    <3>1. CASE i = 1 /\ m = 1
      BY <3>1
    <3>2. CASE i # 1 /\ m # 1
      <4>1. i - 1 \in 1..n /\ m - 1 \in 1..n /\ data_[i - 1].node = data_[m - 1].node
        BY <1>3, <2>1, <3>2
      <4>2. i - 1 = m - 1
        BY <1>0, <4>1 DEF CacheInv, Nodes
      <4> QED
        BY <4>2
    <3>3. CASE i = 1 /\ m # 1
      <4>1. m - 1 \in 1..n /\ data_[m - 1].node = puts
        BY <1>3, <2>1, <3>3
      <4> QED
        BY <1>5, <1>t, <4>1
    <3>4. CASE i # 1 /\ m = 1
      <4>1. i - 1 \in 1..n /\ data_[i - 1].node = puts
        BY <1>3, <2>1, <3>4
      <4> QED
        BY <1>5, <1>t, <4>1
    <3> QED
      BY <3>1, <3>2, <3>3, <3>4
  <2>2. ASSUME NEW i \in 1..(n + 1)
        PROVE  s[i].node < puts + 1
    <3>1. CASE i = 1
      BY <1>3, <1>t, <3>1
    <3>2. CASE i # 1
      <4>1. PICK m \in 1..n : s[i] = data_[m]
        BY <1>3, <3>2
      <4> QED
        BY <1>5, <1>t, <4>1
    <3> QED
      BY <3>1, <3>2
  <2> QED
    BY <1>1, <1>2, <2>1, <2>2 DEF Nodes
<1> DEFINE e == [at |-> b, code |-> caller[b], node |-> puts]
<1>8. /\ e \in Elements /\ e.at = b /\ e.code = caller[b] /\ e.node = puts
      /\ e \notin index_ /\ index_' = index_ \cup {e}
  <2>1. e \in Elements /\ e.at = b /\ e.code = caller[b] /\ e.node = puts
    BY <1>t DEF Elements
  <2>2. ASSUME e \in index_
        PROVE  FALSE
    <3>1. PICK m \in 1..n : data_[m].node = e.node
      BY <1>0, <2>2 DEF CacheInv, Indexed
    <3> QED
      BY <1>5, <1>t, <2>1, <3>1
  <2> QED
    BY <2>1, <2>2
<1> HIDE DEF e
<1>9. index_' \in SUBSET Elements /\ IsFiniteSet(index_') /\ Cardinality(index_') = n + 1
  <2>1. index_ \in SUBSET Elements /\ IsFiniteSet(index_) /\ Cardinality(index_) = n
    BY <1>0 DEF CacheInv, Typed, Indexed
  <2>2. /\ IsFiniteSet(index_ \cup {e})
        /\ Cardinality(index_ \cup {e}) = Cardinality(index_) + 1
    BY <1>8, <2>1, FS_AddElement
  <2> QED
    BY <1>8, <2>1, <2>2
<1>10. Indexed'
  <2>1. \A i \in index_ : i.node # puts
    <3> TAKE i \in index_
    <3>1. PICK m \in 1..n : data_[m].node = i.node
      BY <1>0 DEF CacheInv, Indexed
    <3> QED
      BY <1>5, <1>t, <3>1, SMTT(30)
  <2>2. \A i \in index_' : caller[i.at] = i.code
    BY <1>8 DEF CacheInv, Indexed
  <2>3. ASSUME NEW i \in index_'
        PROVE  \E m \in 1..(n + 1) : s[m].node = i.node /\ s[m].key = i.code
    <3>1. CASE i = e
      <4>1. 1 \in 1..(n + 1)
        OBVIOUS
      <4> QED
        BY <1>2, <1>8, <3>1, <4>1
    <3>2. CASE i \in index_
      <4>1. PICK m \in 1..n : data_[m].node = i.node /\ data_[m].key = i.code
        BY <1>0, <3>2 DEF CacheInv, Indexed
      <4>2. m + 1 \in 1..(n + 1)
        OBVIOUS
      <4> QED
        BY <1>2, <4>1, <4>2
    <3> QED
      BY <1>8, <3>1, <3>2
  <2>4. ASSUME NEW m \in 1..(n + 1)
        PROVE  \E i \in index_' : i.node = s[m].node
    <3>1. CASE m = 1
      BY <1>2, <1>8, <3>1
    <3>2. CASE m # 1
      <4>1. m - 1 \in 1..n /\ s[m] = data_[m - 1]
        BY <1>3, <3>2
      <4>2. PICK i \in index_ : i.node = data_[m - 1].node
        BY <1>0, <4>1 DEF CacheInv, Indexed
      <4> QED
        BY <1>8, <4>1, <4>2
    <3> QED
      BY <3>1, <3>2
  <2>5. \A i, k \in index_' : i.node = k.node => i = k
    BY <1>8, <2>1 DEF CacheInv, Indexed
  <2>6. /\ \A i \in index_' : caller'[i.at] = i.code
        /\ Len(data_') = n + 1 /\ Cardinality(index_') = Len(data_')
    BY <1>1, <1>2, <1>9, <2>2
  <2>7. \A i \in index_' : \E m \in 1..Len(data_') :
            data_'[m].node = i.node /\ data_'[m].key = i.code
    BY <1>1, <2>3, <2>6
  <2>8. \A m \in 1..Len(data_') : \E i \in index_' : i.node = data_'[m].node
    BY <1>1, <2>4, <2>6
  <2> QED
    BY <2>5, <2>6, <2>7, <2>8 DEF Indexed
<1>11. size_' = n + 1
  BY <1>0 DEF CacheInv, Typed
<1> QED
  BY <1>0, <1>1, <1>2, <1>6, <1>7, <1>9, <1>10, <1>11

(* A key without a record gets one, and the record of the key that was     *)
(* used longest ago is evicted, with its element of index_: the only one   *)
(* that is found under its key.                                            *)
LEMMA PushedFullInv ==
    ASSUME CacheInv, NEW b \in Buffers, Find(caller[b]) = {}, NEW d \in Records,
           d.key = caller[b], d.node = puts,
           Len(data_) = Capacity,
           data_' = ToFront(data_, Len(data_), d),
           index_' \in Erase(index_ \cup {[at |-> b, code |-> caller[b], node |-> puts]},
                             data_[Len(data_)].key),
           size_' = size_,
           recent' = <<caller[b]>> \o RemoveFirst(recent, caller[b]),
           UNCHANGED caller,
           puts' = puts + 1
    PROVE  /\ data_' \in Seq(Records) /\ Shifted(data_', data_, Len(data_), d)
           /\ recent' \in Seq(Keys)
           /\ index_' \in SUBSET Elements /\ IsFiniteSet(index_')
           /\ size_' = Len(data_')
           /\ Order' /\ Nodes' /\ Indexed'
<1>0. PICK n \in Nat : n = Len(data_)
  BY T!LenProperties DEF CacheInv, Typed
<1>n. n \in 1..n /\ n = Capacity
  BY <1>0, LRUCacheAssumption
<1>1. PICK s : s = data_'
  OBVIOUS
<1>t. data_ \in Seq(Records) /\ puts \in Nat /\ caller[b] \in Keys /\ recent \in Seq(Keys)
  BY DEF CacheInv, Typed
<1>2. /\ s \in Seq(Records) /\ Shifted(s, data_, n, d)
      /\ Len(s) = n /\ s[1] = d /\ \A i \in 2..n : s[i] = data_[i - 1]
  <2>1. PICK t : t = ToFront(data_, n, d)
    OBVIOUS
  <2>2. t \in Seq(Records) /\ Shifted(t, data_, n, d)
    BY <1>0, <1>n, <1>t, <2>1, ToFrontProperties
  <2>3. s = t
    BY <1>0, <1>1, <2>1
  <2>4. Len(s) = n /\ s[1] = d /\ \A i \in 2..n : s[i] = data_[i - 1]
    BY <1>0, <2>2, <2>3 DEF Shifted
  <2> QED
    BY <2>2, <2>3, <2>4
<1>3. ASSUME NEW i \in 1..n
      PROVE  \/ i = 1 /\ s[i] = d
             \/ i # 1 /\ i - 1 \in 1..n /\ i - 1 # n /\ s[i] = data_[i - 1]
  <2>1. CASE i = 1
    BY <1>2, <2>1
  <2>2. CASE i # 1
    <3>1. i - 1 \in 1..n /\ i - 1 # n /\ i \in 2..n
      BY <2>2
    <3> QED
      BY <1>2, <2>2, <3>1
  <2> QED
    BY <2>1, <2>2
<1>4. \A i \in 1..n : data_[i].key # caller[b]
  BY <1>0, Missed
<1>5. \A i \in 1..n : data_[i].node \in Nat /\ data_[i].node < puts
  <2> TAKE i \in 1..n
  <2>1. data_[i] \in Records
    BY <1>0, <1>t, T!ElementOfSeq
  <2> QED
    BY <1>0, <2>1 DEF Records, CacheInv, Nodes
<1>o. PICK l \in Nat : /\ l = Len(recent) /\ n <= l
                       /\ \A i \in 1..n : i \in 1..l /\ data_[i].key = recent[i]
  <2>1. PICK l \in Nat : l = Len(recent)
    BY <1>t, T!LenProperties
  <2>2. n <= l /\ \A i \in 1..n : data_[i].key = recent[i]
    BY <1>0, <2>1 DEF CacheInv, Order
  <2>3. \A i \in 1..n : i \in 1..l
    BY <2>2
  <2> QED
    BY <2>1, <2>2, <2>3
<1>6. recent' \in Seq(Keys) /\ Order'
  <2>1. PICK t : t = recent'
    OBVIOUS
  <2>3. t \in Seq(Keys) /\ Once(t) /\ Used(t, recent, caller[b])
    BY <2>1, RecentUsed DEF Once
  <2>6. PICK p \in 1..(l + 1) :
            /\ p <= l => recent[p] = caller[b] /\ Len(t) = l
            /\ p > l => Len(t) = l + 1
            /\ \A i \in 1..Len(t) :
                  t[i] = IF i = 1 THEN caller[b]
                         ELSE IF i <= p THEN recent[i - 1] ELSE recent[i]
    BY <1>o, <2>3 DEF Used
  <2>7. p > n
    <3>1. CASE p <= n
      <4>1. p \in 1..n /\ p <= l
        BY <1>o, <3>1
      <4> QED
        BY <1>4, <1>o, <2>6, <4>1
    <3> QED
      BY <3>1
  <2>8. Len(t) \in Nat /\ n <= Len(t)
    BY <1>o, <2>6
  <2>9. ASSUME NEW i \in 1..n
        PROVE  s[i].key = t[i]
    <3>1. i <= p /\ i \in 1..Len(t)
      BY <2>7, <2>8
    <3>2. t[i] = IF i = 1 THEN caller[b] ELSE recent[i - 1]
      BY <2>6, <3>1
    <3>3. CASE i = 1
      BY <1>3, <3>2, <3>3
    <3>4. CASE i # 1
      <4>1. i - 1 \in 1..n /\ s[i] = data_[i - 1]
        BY <1>3, <3>4
      <4> QED
        BY <1>o, <3>2, <3>4, <4>1
    <3> QED
      BY <3>3, <3>4
  <2> QED
    BY <1>1, <1>2, <1>n, <2>1, <2>3, <2>8, <2>9 DEF Order
<1>7. Nodes'
  <2>1. ASSUME NEW i \in 1..n, NEW m \in 1..n, s[i].node = s[m].node
        PROVE  i = m
    <3>1. CASE i = 1 /\ m = 1
      BY <3>1
    <3>2. CASE i # 1 /\ m # 1
      <4>1. i - 1 \in 1..n /\ m - 1 \in 1..n /\ data_[i - 1].node = data_[m - 1].node
        BY <1>3, <2>1, <3>2
      <4>2. i - 1 = m - 1
        BY <1>0, <4>1 DEF CacheInv, Nodes
      <4> QED
        BY <4>2
    <3>3. CASE i = 1 /\ m # 1
      <4>1. m - 1 \in 1..n /\ data_[m - 1].node = puts
        BY <1>3, <2>1, <3>3
      <4> QED
        BY <1>5, <1>t, <4>1
    <3>4. CASE i # 1 /\ m = 1
      <4>1. i - 1 \in 1..n /\ data_[i - 1].node = puts
        BY <1>3, <2>1, <3>4
      <4> QED
        BY <1>5, <1>t, <4>1
    <3> QED
      BY <3>1, <3>2, <3>3, <3>4
  <2>2. ASSUME NEW i \in 1..n
        PROVE  s[i].node < puts + 1
    <3>1. CASE i = 1
      BY <1>3, <1>t, <3>1
    <3>2. CASE i # 1
      <4>1. PICK m \in 1..n : s[i] = data_[m]
        BY <1>3, <3>2
      <4> QED
        BY <1>5, <1>t, <4>1
    <3> QED
      BY <3>1, <3>2
  <2> QED
    BY <1>1, <1>2, <2>1, <2>2 DEF Nodes
<1> DEFINE e == [at |-> b, code |-> caller[b], node |-> puts]
<1>8. /\ e \in Elements /\ e.at = b /\ e.code = caller[b] /\ e.node = puts
      /\ e \notin index_ /\ index_' \in Erase(index_ \cup {e}, data_[n].key)
  <2>1. e \in Elements /\ e.at = b /\ e.code = caller[b] /\ e.node = puts
    BY <1>t DEF Elements
  <2>2. ASSUME e \in index_
        PROVE  FALSE
    <3>1. PICK m \in 1..n : data_[m].node = e.node
      BY <1>0, <2>2 DEF CacheInv, Indexed
    <3> QED
      BY <1>5, <1>t, <2>1, <3>1
  <2> QED
    BY <1>0, <2>1, <2>2
<1> HIDE DEF e
<1>9. PICK g \in index_ : g.node = data_[n].node
  BY <1>0, <1>n DEF CacheInv, Indexed
<1>10. index_' = (index_ \cup {e}) \ {g}
  <2>1. ASSUME NEW i \in index_
        PROVE  i.code = data_[n].key <=> i = g
    <3>1. PICK m \in 1..n : data_[m].node = i.node /\ data_[m].key = i.code
      BY <1>0 DEF CacheInv, Indexed
    <3>2. ASSUME i.code = data_[n].key
          PROVE  i = g
      <4>1. recent[m] = recent[n] /\ m \in 1..l /\ n \in 1..l
        BY <1>n, <1>o, <3>1, <3>2
      <4>2. m = n
        BY <1>o, <4>1 DEF CacheInv, Order, Once
      <4> QED
        BY <1>9, <3>1, <4>2 DEF CacheInv, Indexed
    <3>3. ASSUME i = g
          PROVE  i.code = data_[n].key
      <4>1. m = n
        BY <1>0, <1>9, <1>n, <3>1, <3>3 DEF CacheInv, Nodes
      <4> QED
        BY <3>1, <4>1
    <3> QED
      BY <3>2, <3>3
  <2>2. {i \in index_ \cup {e} : i.code = data_[n].key
                                 /\ SeqEqual(caller[i.at], data_[n].key)} = {g}
    <3>1. e.code # data_[n].key
      BY <1>4, <1>8, <1>n
    <3>2. \A i \in index_ : caller[i.at] = i.code
      BY DEF CacheInv, Indexed
    <3> QED
      BY <1>9, <2>1, <3>1, <3>2 DEF SeqEqual
  <2> QED
    BY <1>8, <2>2 DEF Erase
<1>11. g # e /\ index_' = (index_ \ {g}) \cup {e}
  BY <1>8, <1>9, <1>10
<1>12. index_' \in SUBSET Elements /\ IsFiniteSet(index_') /\ Cardinality(index_') = n
  <2>1. index_ \in SUBSET Elements /\ IsFiniteSet(index_) /\ Cardinality(index_) = n
    BY <1>0 DEF CacheInv, Typed, Indexed
  <2>2. IsFiniteSet(index_ \ {g}) /\ Cardinality(index_ \ {g}) = n - 1
    BY <1>9, <2>1, FS_RemoveElement
  <2>3. e \notin index_ \ {g}
    BY <1>8
  <2>4. /\ IsFiniteSet((index_ \ {g}) \cup {e})
        /\ Cardinality((index_ \ {g}) \cup {e}) = (n - 1) + 1
    BY <2>2, <2>3, FS_AddElement
  <2>5. (n - 1) + 1 = n
    OBVIOUS
  <2> QED
    BY <1>8, <1>11, <2>1, <2>4, <2>5
<1>13. Indexed'
  <2>1. \A i \in index_ : i.node # puts
    <3> TAKE i \in index_
    <3>1. PICK m \in 1..n : data_[m].node = i.node
      BY <1>0 DEF CacheInv, Indexed
    <3> QED
      BY <1>5, <1>t, <3>1
  <2>2. \A i \in index_' : caller'[i.at] = i.code
    BY <1>8, <1>11 DEF CacheInv, Indexed
  <2>3. ASSUME NEW i \in index_'
        PROVE  \E m \in 1..n : s[m].node = i.node /\ s[m].key = i.code
    <3>1. CASE i = e
      <4>1. 1 \in 1..n
        BY <1>n
      <4> QED
        BY <1>2, <1>8, <3>1, <4>1
    <3>2. CASE i \in index_ \ {g}
      <4>1. PICK m \in 1..n : data_[m].node = i.node /\ data_[m].key = i.code
        BY <1>0, <3>2 DEF CacheInv, Indexed
      <4>2. m # n
        BY <1>9, <3>2, <4>1 DEF CacheInv, Indexed
      <4>3. m + 1 \in 2..n /\ m + 1 \in 1..n /\ (m + 1) - 1 = m
        BY <4>2
      <4>4. s[m + 1] = data_[m]
        BY <1>2, <4>3
      <4> QED
        BY <4>1, <4>3, <4>4
    <3> QED
      BY <1>11, <3>1, <3>2
  <2>4. ASSUME NEW m \in 1..n
        PROVE  \E i \in index_' : i.node = s[m].node
    <3>1. CASE m = 1
      BY <1>2, <1>8, <1>11, <3>1
    <3>2. CASE m # 1
      <4>1. m - 1 \in 1..n /\ m - 1 # n /\ s[m] = data_[m - 1]
        BY <1>3, <3>2
      <4>2. PICK i \in index_ : i.node = data_[m - 1].node
        BY <1>0, <4>1 DEF CacheInv, Indexed
      <4>3. i # g
        <5>1. CASE i = g
          <6>1. data_[m - 1].node = data_[n].node
            BY <1>9, <4>2, <5>1
          <6>2. m - 1 = n
            BY <1>0, <1>n, <4>1, <6>1 DEF CacheInv, Nodes
          <6> QED
            BY <4>1, <6>2
        <5> QED
          BY <5>1
      <4> QED
        BY <1>11, <4>1, <4>2, <4>3
    <3> QED
      BY <3>1, <3>2
  <2>5. \A i, k \in index_' : i.node = k.node => i = k
    BY <1>8, <1>11, <2>1 DEF CacheInv, Indexed
  <2>6. Len(data_') = n /\ Cardinality(index_') = Len(data_')
    BY <1>1, <1>2, <1>12
  <2>7. \A i \in index_' : \E m \in 1..Len(data_') :
            data_'[m].node = i.node /\ data_'[m].key = i.code
    BY <1>1, <2>3, <2>6
  <2>8. \A m \in 1..Len(data_') : \E i \in index_' : i.node = data_'[m].node
    BY <1>1, <2>4, <2>6
  <2> QED
    BY <2>2, <2>5, <2>6, <2>7, <2>8 DEF Indexed
<1>14. size_' = n
  BY <1>0 DEF CacheInv, Typed
<1> QED
  BY <1>0, <1>1, <1>2, <1>6, <1>7, <1>12, <1>13, <1>14

-----------------------------------------------------------------------------
(* Sizes are natural numbers.                                              *)
LEMMA SizeType ==
    ASSUME NEW val \in Stored
    PROVE  ValueSize(val) \in Nat
BY LRUCacheAssumption DEF Stored

(* Every key has one record at most.                                       *)
LEMMA KeysDistinct ==
    ASSUME CacheInv
    PROVE  \A i, m \in 1..Len(data_) : data_[i].key = data_[m].key => i = m
<1>1. Len(data_) \in Nat /\ Len(recent) \in Nat
  BY T!LenProperties DEF CacheInv, Typed
<1> SUFFICES ASSUME NEW i \in 1..Len(data_), NEW m \in 1..Len(data_),
                    data_[i].key = data_[m].key
             PROVE  i = m
  OBVIOUS
<1>2. recent[i] = recent[m] /\ Len(data_) <= Len(recent)
  BY DEF CacheInv, Order
<1>3. i \in 1..Len(recent) /\ m \in 1..Len(recent)
  BY <1>1, <1>2
<1> QED
  BY <1>2, <1>3 DEF CacheInv, Order, Once

(* The record of the key that is put gets the value, and no other record   *)
(* has that key.                                                           *)
LEMMA LatestMoved ==
    ASSUME CacheInv, NEW k \in Keys, NEW val, NEW j \in 1..Len(data_), NEW d \in Records,
           d.key = k, d.val = val,
           \A m \in 1..Len(data_) : data_[m].key = k => m = j,
           Shifted(data_', data_, j, d),
           last' = [last EXCEPT ![k] = val]
    PROVE  Latest'
<1>1. PICK s : s = data_'
  OBVIOUS
<1>2. PICK n \in Nat : n = Len(data_)
  BY T!LenProperties DEF CacheInv, Typed
<1>3. Len(s) = n /\ s[1] = d
  BY <1>1, <1>2 DEF Shifted
<1>4. \A i \in 2..n : \E m \in 1..n : m # j /\ s[i] = data_[m]
  BY <1>1, <1>2, ShiftedElements DEF CacheInv, Typed
<1>5. ASSUME NEW i \in 1..n
      PROVE  s[i].val = last'[s[i].key]
  <2>0. last \in [Keys -> Stored \cup {None}]
    BY DEF CacheInv, Typed
  <2>1. CASE i = 1
    BY <1>3, <2>0, <2>1
  <2>2. CASE i # 1
    <3>1. i \in 2..n
      BY <2>2
    <3>2. PICK m \in 1..n : m # j /\ s[i] = data_[m]
      BY <1>4, <3>1
    <3>3. data_[m].val = last[data_[m].key] /\ data_[m].key # k
      BY <1>2, <3>2 DEF CacheInv, Latest
    <3>4. data_[m] \in Records
      BY <1>2, T!ElementOfSeq DEF CacheInv, Typed
    <3>5. data_[m].key \in Keys
      BY <3>4 DEF Records
    <3> QED
      BY <2>0, <3>2, <3>3, <3>5
  <2> QED
    BY <2>1, <2>2
<1> QED
  BY <1>1, <1>3, <1>5 DEF Latest

(* Behind the record that was moved to the front are the other records.    *)
LEMMA ElementsMoved ==
    ASSUME data_ \in Seq(Records), NEW j \in 1..Len(data_), NEW d,
           Shifted(data_', data_, j, d)
    PROVE  \A x \in 2..Len(data_) : \E y \in 1..Len(data_) : y # j /\ data_'[x] = data_[y]
<1>1. PICK S, s, t : S = Records /\ s = data_ /\ t = data_'
  OBVIOUS
<1>2. s \in Seq(S) /\ j \in 1..Len(s) /\ Shifted(t, s, j, d)
  BY <1>1
<1>3. \A x \in 2..Len(s) : \E y \in 1..Len(s) : y # j /\ t[x] = s[y]
  BY <1>2, ShiftedElements
<1> QED
  BY <1>1, <1>3

(* LRUCache::Insert of a key that has a record.                            *)
LEMMA UpdateInv ==
    ASSUME CacheInv, NEW b \in Buffers, NEW i \in Find(caller[b]), NEW val \in Stored,
           Update(i, val),
           puts' = puts + 1,
           recent' = <<caller[b]>> \o RemoveFirst(recent, caller[b]),
           last' = [last EXCEPT ![caller[b]] = val],
           ret' = None, UNCHANGED caller
    PROVE  CacheInv'
<1>1. PICK j \in 1..Len(data_) : /\ j = Position(i.node)
                                 /\ data_[j].node = i.node /\ data_[j].key = caller[b]
  BY Found
<1>2. PICK v : v = AllocateWithId(pool, ValueSize(val))
  OBVIOUS
<1>t. /\ data_ \in Seq(Records) /\ puts \in Nat /\ caller[b] \in Keys /\ recent \in Seq(Keys)
      /\ pool \in Pools /\ last \in [Keys -> Stored \cup {None}]
  BY DEF CacheInv, Typed
<1>3. /\ v.pool \in Pools /\ v.at \in Nat /\ v.id \in Nat /\ v.id \in 1..Len(v.pool.ref)
      /\ Len(pool.ref) \in Nat /\ Len(v.pool.ref) \in Nat /\ Len(pool.ref) <= Len(v.pool.ref)
      /\ \A id \in Nat :
            RefOf(v.pool, id) = RefOf(pool, id) + (IF id = v.id THEN 1 ELSE 0)
  <2>1. pool \in Pools /\ ValueSize(val) \in Nat
    BY <1>t, SizeType
  <2> QED
    BY <1>2, <2>1, AllocateCounts
<1>4. PICK o \in Records : o = data_[j]
  BY <1>t, T!ElementOfSeq
<1>5. PICK vid \in Nat, vat \in Nat : vid = v.id /\ vat = v.at
  BY <1>3
<1>6. PICK d : d = [o EXCEPT !.val = val, !.vblk = vid, !.vat = vat]
  OBVIOUS
<1>7. /\ d \in Records /\ d.key = o.key /\ d.node = o.node /\ d.val = val
      /\ d.kblk = o.kblk /\ d.vblk = vid
  BY <1>5, <1>6 DEF Records
<1>8. data_' = ToFront(data_, j, d) /\ pool' = Unref(v.pool, o.vblk) /\ UNCHANGED <<index_, size_>>
  BY <1>1, <1>2, <1>4, <1>5, <1>6 DEF Update, MoveFront, ToFront
<1>9. /\ data_' \in Seq(Records) /\ Shifted(data_', data_, j, d)
      /\ recent' \in Seq(Keys) /\ size_' = Len(data_')
      /\ Order' /\ Nodes' /\ Indexed'
  <2>1. puts' \in Nat /\ puts' >= puts
    BY <1>t
  <2>2. d.key = caller[b] /\ d.node = data_[j].node
    BY <1>1, <1>4, <1>7
  <2> QED
    BY <1>1, <1>7, <1>8, <2>1, <2>2, MovedInv
<1>10. o.vblk \in 1..Len(pool.ref) /\ o.kblk \in 1..Len(pool.ref) /\ o.vblk \in Nat
  BY <1>4 DEF CacheInv, Counted, Records
<1>11. /\ pool' \in Pools /\ Len(pool'.ref) = Len(v.pool.ref)
       /\ \A id \in Nat :
             RefOf(pool', id) = RefOf(v.pool, id) - (IF id = o.vblk THEN 1 ELSE 0)
  <2>1. o.vblk \in 1..Len(v.pool.ref)
    BY <1>3, <1>10
  <2>2. PICK q : q = pool'
    OBVIOUS
  <2>3. /\ q \in Pools /\ Len(q.ref) = Len(v.pool.ref)
        /\ \A id \in Nat :
              RefOf(q, id) = RefOf(v.pool, id) - (IF id = o.vblk THEN 1 ELSE 0)
    BY <1>3, <1>8, <2>1, <2>2, UnrefCounts
  <2> QED
    BY <2>2, <2>3 DEF RefOf
<1>12. Typed'
  BY <1>8, <1>9, <1>11, <1>t DEF CacheInv, Typed
<1>16. v.id \in 1..Len(pool'.ref) /\ \A x \in 1..Len(pool.ref) : x \in 1..Len(pool'.ref)
  <2>1. PICK x \in Nat, y \in Nat : x = Len(pool.ref) /\ y = Len(v.pool.ref) /\ x <= y
    BY <1>3
  <2>2. \A z \in 1..x : z \in 1..y
    BY <2>1
  <2> QED
    BY <1>3, <1>11, <2>1, <2>2
<1>13. Latest'
  <2>1. \A m \in 1..Len(data_) : data_[m].key = caller[b] => m = j
    BY <1>1, KeysDistinct
  <2>2. d.key = caller[b]
    BY <1>1, <1>4, <1>7
  <2> QED
    BY <1>7, <1>9, <1>t, <2>1, <2>2, LatestMoved
<1>14. HitIsLatest'
  BY DEF HitIsLatest
<1>15. Counted'
  <2>1. ASSUME NEW id \in Nat
        PROVE  RefOf(pool', id) = Occurrences(data_', KeysIn(id)) + Occurrences(data_', ValuesIn(id))
    <3>1. /\ Occurrences(data_, KeysIn(id)) \in Nat
          /\ Occurrences(data_', KeysIn(id))
               = (Occurrences(data_, KeysIn(id)) - (IF data_[j] \in KeysIn(id) THEN 1 ELSE 0))
                     + (IF d \in KeysIn(id) THEN 1 ELSE 0)
      BY <1>7, <1>8, <1>t, OccurrencesMoved
    <3>2. /\ Occurrences(data_, ValuesIn(id)) \in Nat
          /\ Occurrences(data_', ValuesIn(id))
               = (Occurrences(data_, ValuesIn(id)) - (IF data_[j] \in ValuesIn(id) THEN 1 ELSE 0))
                     + (IF d \in ValuesIn(id) THEN 1 ELSE 0)
      BY <1>7, <1>8, <1>t, OccurrencesMoved
    <3>3. /\ data_[j] \in KeysIn(id) <=> d \in KeysIn(id)
          /\ data_[j] \in ValuesIn(id) <=> id = o.vblk
          /\ d \in ValuesIn(id) <=> id = v.id
      BY <1>4, <1>5, <1>7 DEF KeysIn, ValuesIn
    <3>4. RefOf(pool, id) = Occurrences(data_, KeysIn(id)) + Occurrences(data_, ValuesIn(id))
      BY DEF CacheInv, Counted
    <3>5. RefOf(pool', id) = (RefOf(pool, id) + (IF id = v.id THEN 1 ELSE 0))
                                 - (IF id = o.vblk THEN 1 ELSE 0)
      BY <1>3, <1>11
    <3> QED
      BY <3>1, <3>2, <3>3, <3>4, <3>5, SMTT(30)
  <2>2. ASSUME NEW m \in 1..Len(data_')
        PROVE  data_'[m].kblk \in 1..Len(pool'.ref) /\ data_'[m].vblk \in 1..Len(pool'.ref)
    <3>0. Len(data_') = Len(data_) /\ Len(data_) \in Nat /\ data_'[1] = d
      BY <1>9, <1>t, T!LenProperties DEF Shifted
    <3>1. CASE m = 1
      <4>1. d.kblk \in 1..Len(pool'.ref) /\ d.vblk \in 1..Len(pool'.ref)
        BY <1>5, <1>7, <1>10, <1>16
      <4> QED
        BY <3>0, <3>1, <4>1
    <3>2. CASE m # 1
      <4>1. m \in 2..Len(data_)
        BY <3>0, <3>2
      <4>2. \A x \in 2..Len(data_) : \E y \in 1..Len(data_) : y # j /\ data_'[x] = data_[y]
        BY <1>9, <1>t, ElementsMoved
      <4>3. PICK y \in 1..Len(data_) : data_'[m] = data_[y]
        BY <4>1, <4>2
      <4>4. data_[y].kblk \in 1..Len(pool.ref) /\ data_[y].vblk \in 1..Len(pool.ref)
        BY DEF CacheInv, Counted
      <4>5. data_[y].kblk \in 1..Len(pool'.ref) /\ data_[y].vblk \in 1..Len(pool'.ref)
        BY <1>16, <4>4
      <4> QED
        BY <4>3, <4>5
    <3> QED
      BY <3>1, <3>2
  <2> QED
    BY <2>1, <2>2 DEF Counted
<1> QED
  BY <1>9, <1>12, <1>13, <1>14, <1>15 DEF CacheInv

(* LRUCache::Get of a key that has a record: nothing changes but the order *)
(* of the records, and the answer is what was put last.                    *)
LEMMA GetInv ==
    ASSUME CacheInv, NEW b \in Buffers, Get(b)
    PROVE  CacheInv'
<1>0. PICK i \in Find(caller[b]) :
          /\ data_' = MoveFront(Position(i.node), data_[Position(i.node)])
          /\ ret' = Answer(caller[b], data_[Position(i.node)].val)
  BY DEF Get
<1>1. PICK j \in 1..Len(data_) : j = Position(i.node) /\ data_[j].key = caller[b]
  BY Found
<1>t. /\ data_ \in Seq(Records) /\ puts \in Nat /\ caller[b] \in Keys
      /\ last \in [Keys -> Stored \cup {None}]
  BY DEF CacheInv, Typed
<1>2. PICK d \in Records : d = data_[j]
  BY <1>t, T!ElementOfSeq
<1>3. data_' = ToFront(data_, j, d) /\ ret' = Answer(caller[b], d.val)
  BY <1>0, <1>1, <1>2 DEF MoveFront, ToFront
<1>4. /\ UNCHANGED <<caller, index_, size_>> /\ pool' = pool /\ puts' = puts /\ last' = last
      /\ recent' = <<caller[b]>> \o RemoveFirst(recent, caller[b])
  BY DEF Get
<1>5. /\ data_' \in Seq(Records) /\ Shifted(data_', data_, j, d)
      /\ recent' \in Seq(Keys) /\ size_' = Len(data_')
      /\ Order' /\ Nodes' /\ Indexed'
  <2>1. puts' \in Nat /\ puts' >= puts
    BY <1>4, <1>t
  <2>2. d.key = caller[b] /\ d.node = data_[j].node
    BY <1>1, <1>2
  <2> QED
    BY <1>1, <1>3, <1>4, <2>1, <2>2, MovedInv
<1>6. Typed'
  BY <1>4, <1>5 DEF CacheInv, Typed
<1>7. \A m \in 1..Len(data_') : \E y \in 1..Len(data_) : data_'[m] = data_[y]
  <2>0. Len(data_') = Len(data_) /\ Len(data_) \in Nat /\ data_'[1] = d
    BY <1>5, <1>t, T!LenProperties DEF Shifted
  <2> TAKE m \in 1..Len(data_')
  <2>1. CASE m = 1
    BY <1>2, <2>0, <2>1
  <2>2. CASE m # 1
    <3>1. m \in 2..Len(data_)
      BY <2>0, <2>2
    <3>2. \A x \in 2..Len(data_) : \E y \in 1..Len(data_) : y # j /\ data_'[x] = data_[y]
      BY <1>5, <1>t, ElementsMoved
    <3> QED
      BY <3>1, <3>2
  <2> QED
    BY <2>1, <2>2
<1>8. Latest'
  BY <1>4, <1>7 DEF CacheInv, Latest
<1>9. HitIsLatest'
  <2>1. d.val \in Stored /\ d.val = last[caller[b]]
    BY <1>1, <1>2 DEF Records, CacheInv, Latest
  <2>2. CASE d.val = Tombstone
    <3>1. d.val.op = kDelete
      BY <2>2 DEF Tombstone
    <3>2. ret' = None
      BY <1>3, <3>1 DEF Answer, kInsert, kDelete
    <3> QED
      BY <3>2 DEF HitIsLatest
  <2>3. CASE d.val # Tombstone
    <3>1. PICK v \in Values : d.val = Value(v)
      BY <2>1, <2>3 DEF Stored
    <3>2. d.val.op = kInsert /\ d.val.value = v
      BY <3>1 DEF Value
    <3>3. ret' = [op |-> kInsert, key |-> caller[b], value |-> v]
      BY <1>3, <3>2 DEF Answer
    <3>4. ret'.key = caller[b] /\ ret'.value = v
      BY <3>3
    <3> QED
      BY <1>4, <2>1, <3>1, <3>4 DEF HitIsLatest
  <2> QED
    BY <2>2, <2>3
<1>10. Counted'
  <2>1. ASSUME NEW id \in Nat, NEW X
        PROVE  Occurrences(data_', X) = Occurrences(data_, X)
    <3>1. /\ Occurrences(data_, X) \in Nat
          /\ Occurrences(data_', X)
                = (Occurrences(data_, X) - (IF data_[j] \in X THEN 1 ELSE 0))
                      + (IF d \in X THEN 1 ELSE 0)
      BY <1>3, <1>t, OccurrencesMoved
    <3> QED
      BY <1>2, <3>1
  <2>2. \A id \in Nat : RefOf(pool', id)
            = Occurrences(data_', KeysIn(id)) + Occurrences(data_', ValuesIn(id))
    BY <1>4, <2>1 DEF CacheInv, Counted
  <2>3. \A m \in 1..Len(data_') :
            data_'[m].kblk \in 1..Len(pool'.ref) /\ data_'[m].vblk \in 1..Len(pool'.ref)
    BY <1>4, <1>7 DEF CacheInv, Counted
  <2> QED
    BY <2>2, <2>3 DEF Counted
<1> QED
  BY <1>5, <1>6, <1>8, <1>9, <1>10 DEF CacheInv

(* LRUCache::Insert of a key that has no record.                           *)
LEMMA PushFrontInv ==
    ASSUME CacheInv, NEW b \in Buffers, Find(caller[b]) = {}, NEW val \in Stored,
           PushFront(b, val),
           puts' = puts + 1,
           recent' = <<caller[b]>> \o RemoveFirst(recent, caller[b]),
           last' = [last EXCEPT ![caller[b]] = val],
           ret' = None, UNCHANGED caller
    PROVE  CacheInv'
<1>t. /\ data_ \in Seq(Records) /\ puts \in Nat /\ caller[b] \in Keys /\ recent \in Seq(Keys)
      /\ pool \in Pools /\ last \in [Keys -> Stored \cup {None}]
  BY DEF CacheInv, Typed
<1>1. PICK a : a = AllocateWithId(pool, KeySize(caller[b]))
  OBVIOUS
<1>2. /\ a.pool \in Pools /\ a.at \in Nat /\ a.id \in Nat /\ a.id \in 1..Len(a.pool.ref)
      /\ Len(pool.ref) \in Nat /\ Len(a.pool.ref) \in Nat /\ Len(pool.ref) <= Len(a.pool.ref)
      /\ \A id \in Nat :
            RefOf(a.pool, id) = RefOf(pool, id) + (IF id = a.id THEN 1 ELSE 0)
  <2>1. pool \in Pools /\ KeySize(caller[b]) \in Nat
    BY <1>t, LRUCacheAssumption
  <2> QED
    BY <1>1, <2>1, AllocateCounts
<1>3. PICK v : v = AllocateWithId(a.pool, ValueSize(val))
  OBVIOUS
<1>4. /\ v.pool \in Pools /\ v.at \in Nat /\ v.id \in Nat /\ v.id \in 1..Len(v.pool.ref)
      /\ Len(v.pool.ref) \in Nat /\ Len(a.pool.ref) <= Len(v.pool.ref)
      /\ \A id \in Nat :
            RefOf(v.pool, id) = RefOf(a.pool, id) + (IF id = v.id THEN 1 ELSE 0)
  <2>1. a.pool \in Pools /\ ValueSize(val) \in Nat
    BY <1>2, SizeType
  <2> QED
    BY <1>3, <2>1, AllocateCounts
<1>5. PICK d : d = [node |-> puts, key |-> caller[b], val |-> val, kblk |-> a.id,
                    vblk |-> v.id, kat |-> a.at, vat |-> v.at]
  OBVIOUS
<1>6. /\ d \in Records /\ d.key = caller[b] /\ d.node = puts /\ d.val = val
      /\ d.kblk = a.id /\ d.vblk = v.id
  BY <1>2, <1>4, <1>5, <1>t DEF Records
<1>7. PICK n \in Nat : n = Len(data_)
  BY <1>t, T!LenProperties
<1>8. PICK list : list = <<d>> \o data_
  OBVIOUS
<1>9. Len(list) = n + 1 /\ \A i \in 1..n : list[i + 1] = data_[i]
  <2>1. Len(list) = Len(data_) + 1 /\ \A i \in 1..Len(data_) : list[i + 1] = data_[i]
    BY <1>6, <1>8, <1>t, PrependProperties
  <2> QED
    BY <1>7, <2>1
<1>10. IF Len(list) <= Capacity
       THEN /\ data_' = list
            /\ index_' = index_ \cup {[at |-> b, code |-> caller[b], node |-> puts]}
            /\ pool' = v.pool /\ size_' = size_ + 1
       ELSE /\ data_' = Front(list)
            /\ index_' \in Erase(index_ \cup {[at |-> b, code |-> caller[b], node |-> puts]},
                                 list[Len(list)].key)
            /\ pool' = Unref(Unref(v.pool, list[Len(list)].kblk), list[Len(list)].vblk)
            /\ size_' = size_
  BY <1>1, <1>3, <1>5, <1>8 DEF PushFront
<1>11. HitIsLatest'
  BY DEF HitIsLatest
<1>12. \A id \in Nat : RefOf(v.pool, id)
           = (RefOf(pool, id) + (IF id = a.id THEN 1 ELSE 0)) + (IF id = v.id THEN 1 ELSE 0)
  BY <1>2, <1>4
<1>13. \A id \in Nat :
           /\ RefOf(pool, id)
                 = Occurrences(data_, KeysIn(id)) + Occurrences(data_, ValuesIn(id))
           /\ d \in KeysIn(id) <=> id = a.id
           /\ d \in ValuesIn(id) <=> id = v.id
  BY <1>6 DEF CacheInv, Counted, KeysIn, ValuesIn
<1>14. a.id \in 1..Len(v.pool.ref) /\ \A x \in 1..Len(pool.ref) : x \in 1..Len(v.pool.ref)
  <2>1. PICK x \in Nat, y \in Nat, z \in Nat :
            x = Len(pool.ref) /\ y = Len(a.pool.ref) /\ z = Len(v.pool.ref) /\ x <= y /\ y <= z
    BY <1>2, <1>4
  <2>2. /\ \A w \in 1..x : w \in 1..z
        /\ \A w \in 1..y : w \in 1..z
    <3>1. x <= z
      BY <2>1
    <3> QED
      BY <2>1, <3>1
  <2> QED
    BY <1>2, <2>1, <2>2
<1>15. CASE Len(list) <= Capacity
  <2>0. /\ Len(data_) < Capacity /\ data_' = <<d>> \o data_
        /\ index_' = index_ \cup {[at |-> b, code |-> caller[b], node |-> puts]}
        /\ pool' = v.pool /\ size_' = size_ + 1
    <3>1. n < Capacity
      BY <1>9, <1>15, LRUCacheAssumption
    <3> QED
      BY <1>7, <1>8, <1>10, <1>15, <3>1
  <2>1. /\ data_' \in Seq(Records) /\ Len(data_') = Len(data_) + 1
        /\ data_'[1] = d /\ \A i \in 1..Len(data_) : data_'[i + 1] = data_[i]
        /\ recent' \in Seq(Keys)
        /\ index_' \in SUBSET Elements /\ IsFiniteSet(index_')
        /\ size_' = Len(data_')
        /\ Order' /\ Nodes' /\ Indexed'
    BY <1>6, <2>0, PushedRoomInv
  <2>2. Typed'
    BY <1>4, <1>t, <2>0, <2>1 DEF CacheInv, Typed
  <2>3. ASSUME NEW m \in 1..Len(data_')
        PROVE  \/ data_'[m] = d
               \/ \E y \in 1..Len(data_) : data_'[m] = data_[y]
    <3>1. CASE m = 1
      BY <2>1, <3>1
    <3>2. CASE m # 1
      <4>1. m - 1 \in 1..n /\ (m - 1) + 1 = m
        BY <1>7, <2>1, <3>2
      <4> QED
        BY <1>7, <2>1, <4>1
    <3> QED
      BY <3>1, <3>2
  <2>4. Latest'
    <3>1. \A y \in 1..Len(data_) : data_[y].key # caller[b]
      BY Missed
    <3>2. \A y \in 1..Len(data_) : data_[y] \in Records
      BY <1>t, T!ElementOfSeq
    <3>3. ASSUME NEW y \in 1..Len(data_)
          PROVE  data_[y].val = last'[data_[y].key]
      <4>1. data_[y].key \in Keys /\ data_[y].key # caller[b]
        BY <3>1, <3>2 DEF Records
      <4>2. data_[y].val = last[data_[y].key]
        BY DEF CacheInv, Latest
      <4> QED
        BY <1>t, <4>1, <4>2
    <3>4. d.val = last'[d.key]
      BY <1>6, <1>t
    <3> QED
      BY <2>3, <3>3, <3>4 DEF Latest
  <2>5. Counted'
    <3>1. ASSUME NEW id \in Nat
          PROVE  RefOf(pool', id)
                   = Occurrences(data_', KeysIn(id)) + Occurrences(data_', ValuesIn(id))
      <4>1. /\ Occurrences(data_, KeysIn(id)) \in Nat
            /\ Occurrences(data_', KeysIn(id))
                  = Occurrences(data_, KeysIn(id)) + (IF d \in KeysIn(id) THEN 1 ELSE 0)
        BY <1>6, <1>t, <2>0, OccurrencesPrepended
      <4>2. /\ Occurrences(data_, ValuesIn(id)) \in Nat
            /\ Occurrences(data_', ValuesIn(id))
                  = Occurrences(data_, ValuesIn(id)) + (IF d \in ValuesIn(id) THEN 1 ELSE 0)
        BY <1>6, <1>t, <2>0, OccurrencesPrepended
      <4>3. RefOf(pool', id) = (RefOf(pool, id) + (IF id = a.id THEN 1 ELSE 0))
                                   + (IF id = v.id THEN 1 ELSE 0)
        BY <1>12, <2>0
      <4> QED
        BY <1>13, <4>1, <4>2, <4>3
    <3>2. ASSUME NEW m \in 1..Len(data_')
          PROVE  data_'[m].kblk \in 1..Len(pool'.ref) /\ data_'[m].vblk \in 1..Len(pool'.ref)
      BY <1>4, <1>6, <1>14, <2>0, <2>3 DEF CacheInv, Counted
    <3> QED
      BY <3>1, <3>2 DEF Counted
  <2> QED
    BY <1>11, <2>1, <2>2, <2>4, <2>5 DEF CacheInv
<1>16. CASE ~ (Len(list) <= Capacity)
  <2>0. Len(data_) = Capacity /\ n = Capacity /\ n \in 1..n /\ data_ # <<>>
    <3>1. n <= Capacity /\ Capacity \in Nat \ {0}
      BY <1>7, LRUCacheAssumption DEF CacheInv, Order
    <3>2. n = Capacity
      BY <1>9, <1>16, <3>1
    <3>3. n \in 1..n
      BY <3>1, <3>2
    <3>4. Len(data_) # 0
      BY <1>7, <3>3
    <3> QED
      BY <1>7, <3>2, <3>3, <3>4, T!EmptySeq
  <2>1. PICK o \in Records : o = data_[n] /\ o = list[Len(list)]
    <3>1. data_[n] \in Records
      BY <1>7, <1>t, <2>0, T!ElementOfSeq
    <3> QED
      BY <1>9, <2>0, <3>1
  <2>2. /\ data_' = ToFront(data_, n, d)
        /\ index_' \in Erase(index_ \cup {[at |-> b, code |-> caller[b], node |-> puts]}, o.key)
        /\ pool' = Unref(Unref(v.pool, o.kblk), o.vblk) /\ size_' = size_
    <3>1. Front(<<d>> \o data_) = ToFront(data_, Len(data_), d)
      BY <1>6, <1>t, <2>0, FrontPrepended
    <3> QED
      BY <1>7, <1>8, <1>10, <1>16, <2>1, <3>1
  <2>3. /\ data_' \in Seq(Records) /\ Shifted(data_', data_, Len(data_), d)
        /\ recent' \in Seq(Keys)
        /\ index_' \in SUBSET Elements /\ IsFiniteSet(index_')
        /\ size_' = Len(data_')
        /\ Order' /\ Nodes' /\ Indexed'
    BY <1>6, <1>7, <2>0, <2>1, <2>2, PushedFullInv
  <2>4. o.kblk \in 1..Len(pool.ref) /\ o.vblk \in 1..Len(pool.ref)
    BY <1>7, <2>0, <2>1 DEF CacheInv, Counted
  <2>5. /\ pool' \in Pools /\ Len(pool'.ref) = Len(v.pool.ref)
        /\ \A id \in Nat :
              RefOf(pool', id) = (RefOf(v.pool, id) - (IF id = o.kblk THEN 1 ELSE 0))
                                     - (IF id = o.vblk THEN 1 ELSE 0)
    <3>1. PICK q : q = Unref(v.pool, o.kblk)
      OBVIOUS
    <3>2. /\ q \in Pools /\ Len(q.ref) = Len(v.pool.ref)
          /\ \A id \in Nat : RefOf(q, id) = RefOf(v.pool, id) - (IF id = o.kblk THEN 1 ELSE 0)
      BY <1>4, <1>14, <2>4, <3>1, UnrefCounts
    <3>3. PICK r : r = Unref(q, o.vblk)
      OBVIOUS
    <3>4. o.vblk \in 1..Len(q.ref)
      BY <1>14, <2>4, <3>2
    <3>5. /\ r \in Pools /\ Len(r.ref) = Len(q.ref)
          /\ \A id \in Nat : RefOf(r, id) = RefOf(q, id) - (IF id = o.vblk THEN 1 ELSE 0)
      BY <3>2, <3>3, <3>4, UnrefCounts
    <3>6. pool' = r
      BY <2>2, <3>1, <3>3
    <3> QED
      BY <3>2, <3>5, <3>6
  <2>6. Typed'
    BY <1>t, <2>3, <2>5 DEF CacheInv, Typed
  <2>7. Latest'
    <3>1. \A m \in 1..Len(data_) : data_[m].key = caller[b] => m = Len(data_)
      BY Missed
    <3>2. Len(data_) \in 1..Len(data_)
      BY <1>7, <2>0
    <3> QED
      BY <1>6, <1>t, <2>3, <3>1, <3>2, LatestMoved
  <2>8. Counted'
    <3>1. ASSUME NEW id \in Nat
          PROVE  RefOf(pool', id)
                   = Occurrences(data_', KeysIn(id)) + Occurrences(data_', ValuesIn(id))
      <4>0. n \in 1..Len(data_)
        BY <1>7, <2>0
      <4>1. /\ Occurrences(data_, KeysIn(id)) \in Nat
            /\ Occurrences(data_', KeysIn(id))
                  = (Occurrences(data_, KeysIn(id)) - (IF data_[n] \in KeysIn(id) THEN 1 ELSE 0))
                        + (IF d \in KeysIn(id) THEN 1 ELSE 0)
        BY <1>6, <1>t, <2>2, <4>0, OccurrencesMoved
      <4>2. /\ Occurrences(data_, ValuesIn(id)) \in Nat
            /\ Occurrences(data_', ValuesIn(id))
                  = (Occurrences(data_, ValuesIn(id)) - (IF data_[n] \in ValuesIn(id) THEN 1 ELSE 0))
                        + (IF d \in ValuesIn(id) THEN 1 ELSE 0)
        BY <1>6, <1>t, <2>2, <4>0, OccurrencesMoved
      <4>3. /\ data_[n] \in KeysIn(id) <=> id = o.kblk
            /\ data_[n] \in ValuesIn(id) <=> id = o.vblk
        BY <2>1 DEF KeysIn, ValuesIn
      <4>4. RefOf(pool', id) = (((RefOf(pool, id) + (IF id = a.id THEN 1 ELSE 0))
                                   + (IF id = v.id THEN 1 ELSE 0))
                                   - (IF id = o.kblk THEN 1 ELSE 0))
                                   - (IF id = o.vblk THEN 1 ELSE 0)
        BY <1>12, <2>5
      <4> QED
        BY <1>13, <4>1, <4>2, <4>3, <4>4, SMTT(30)
    <3>2. ASSUME NEW m \in 1..Len(data_')
          PROVE  data_'[m].kblk \in 1..Len(pool'.ref) /\ data_'[m].vblk \in 1..Len(pool'.ref)
      <4>0. Len(data_') = n /\ data_'[1] = d
        BY <1>7, <2>3 DEF Shifted
      <4>1. CASE m = 1
        BY <1>4, <1>6, <1>14, <2>5, <4>0, <4>1
      <4>2. CASE m # 1
        <5>1. m \in 2..Len(data_) /\ n \in 1..Len(data_) /\ Shifted(data_', data_, n, d)
          BY <1>7, <2>0, <2>3, <4>0, <4>2
        <5>2. \A x \in 2..Len(data_) : \E y \in 1..Len(data_) :
                  y # n /\ data_'[x] = data_[y]
          BY <1>t, <5>1, ShiftedElements, SMTT(30)
        <5>3. PICK y \in 1..Len(data_) : data_'[m] = data_[y]
          BY <5>1, <5>2
        <5> QED
          BY <1>14, <2>5, <5>3 DEF CacheInv, Counted
      <4> QED
        BY <4>1, <4>2
    <3> QED
      BY <3>1, <3>2 DEF Counted
  <2> QED
    BY <1>11, <2>3, <2>6, <2>7, <2>8 DEF CacheInv
<1> QED
  BY <1>15, <1>16

-----------------------------------------------------------------------------
(* The empty cache.                                                        *)
LEMMA InitInv ==
    ASSUME Init
    PROVE  CacheInv
<1>1. Typed
  <2>1. IsFiniteSet(index_)
    BY FS_EmptySet DEF Init
  <2>2. pool \in Pools
    BY LRUCacheAssumption DEF Init, Pools
  <2> QED
    BY <2>1, <2>2 DEF Init, Typed
<1>2. Order /\ Nodes /\ Latest
  BY LRUCacheAssumption DEF Init, Order, Once, Nodes, Latest
<1>3. Indexed
  BY FS_EmptySet DEF Init, Indexed
<1>4. HitIsLatest
  BY DEF Init, HitIsLatest
<1>5. Counted
  <2>1. \A X : Occurrences(data_, X) = 0
    BY FS_EmptySet DEF Init, Occurrences
  <2>2. pool.ref = <<0>>
    BY DEF Init
  <2>3. \A id \in Nat : RefOf(pool, id) = 0
    BY <2>2 DEF RefOf
  <2> QED
    BY <2>1, <2>3 DEF Init, Counted
<1> QED
  BY <1>1, <1>2, <1>3, <1>4, <1>5 DEF CacheInv

(* TCCache::Insert and Delete, with a new key, a known one and a full      *)
(* cache.                                                                  *)
LEMMA InsertOrUpdateInv ==
    ASSUME CacheInv, NEW b \in Buffers, NEW val \in Stored, InsertOrUpdate(b, val)
    PROVE  CacheInv'
<1>1. /\ puts' = puts + 1
      /\ recent' = <<caller[b]>> \o RemoveFirst(recent, caller[b])
      /\ last' = [last EXCEPT ![caller[b]] = val]
      /\ ret' = None /\ UNCHANGED caller
  BY DEF InsertOrUpdate
<1>2. CASE Find(caller[b]) = {}
  BY <1>1, <1>2, PushFrontInv DEF InsertOrUpdate
<1>3. CASE Find(caller[b]) # {}
  <2>1. PICK i \in Find(caller[b]) : Update(i, val)
    BY <1>3 DEF InsertOrUpdate
  <2> QED
    BY <1>1, <2>1, UpdateInv
<1> QED
  BY <1>2, <1>3

(* Another key in a buffer that no element of index_ points at.            *)
LEMMA ReuseBufferInv ==
    ASSUME CacheInv, ~ MayReuse, NEW b \in Buffers, ReuseBuffer(b)
    PROVE  CacheInv'
<1>1. PICK k \in Keys : caller' = [caller EXCEPT ![b] = k]
  BY DEF ReuseBuffer
<1>2. \A i \in index_ : i.at # b
  BY DEF ReuseBuffer
<1>3. UNCHANGED <<data_, index_, size_, pool, ret, puts, recent, last>>
  BY DEF ReuseBuffer
<1>4. Typed'
  BY <1>1, <1>3 DEF CacheInv, Typed
<1>5. Indexed'
  <2>1. \A i \in index_ : i.at \in Buffers /\ caller'[i.at] = caller[i.at]
    BY <1>1, <1>2 DEF CacheInv, Typed, Elements
  <2> QED
    BY <1>3, <2>1 DEF CacheInv, Indexed
<1>6. (Order /\ Nodes /\ Latest /\ HitIsLatest /\ Counted)'
  BY <1>3 DEF CacheInv, Order, Nodes, Latest, HitIsLatest, Counted
<1> QED
  BY <1>4, <1>5, <1>6 DEF CacheInv

(* Every step keeps the invariant.                                         *)
LEMMA NextInv ==
    ASSUME CacheInv, ~ MayReuse, [Next]_vars
    PROVE  CacheInv'
<1>1. ASSUME NEW b \in Buffers, Insert(b)
      PROVE  CacheInv'
  <2>1. PICK v \in Values : InsertOrUpdate(b, Value(v))
    BY <1>1 DEF Insert
  <2>2. Value(v) \in Stored
    BY DEF Stored
  <2> QED
    BY <2>1, <2>2, InsertOrUpdateInv
<1>2. ASSUME NEW b \in Buffers, Delete(b)
      PROVE  CacheInv'
  <2>1. Tombstone \in Stored
    BY DEF Stored
  <2> QED
    BY <1>2, <2>1, InsertOrUpdateInv DEF Delete
<1>3. ASSUME NEW b \in Buffers, GetMiss(b)
      PROVE  CacheInv'
  BY <1>3 DEF GetMiss, CacheInv, Typed, Order, Nodes, Indexed, Latest, HitIsLatest, Counted
<1>4. CASE UNCHANGED vars
  BY <1>4 DEF vars, CacheInv, Typed, Order, Nodes, Indexed, Latest, HitIsLatest, Counted
<1> QED
  BY <1>1, <1>2, <1>3, <1>4, GetInv, ReuseBufferInv DEF Next

(* The inductive invariant of the query cache.                             *)
THEOREM Invariance ==
    ASSUME ~ MayReuse
    PROVE  Spec => []CacheInv
BY InitInv, NextInv, PTL DEF Spec

-----------------------------------------------------------------------------
(* The records of the list are those of the Capacity keys that were used   *)
(* last, the latest first: PushFront never evicts another one, and neither *)
(* Insert nor Get forgets to move a record.                                *)
THEOREM EvictsLeastRecent ==
    ASSUME ~ MayReuse
    PROVE  Spec => []LeastRecentEvicted
<1>1. ASSUME CacheInv
      PROVE  LeastRecentEvicted
  <2> DEFINE c == IF Len(recent) < Capacity THEN Len(recent) ELSE Capacity
             s == [j \in DOMAIN data_ |-> data_[j].key]
  <2>0. /\ data_ \in Seq(Records) /\ recent \in Seq(Keys) /\ Capacity \in Nat
        /\ Len(recent) \in Nat /\ Len(data_) \in Nat /\ DOMAIN data_ = 1..Len(data_)
    BY <1>1, LRUCacheAssumption, T!LenProperties DEF CacheInv, Typed
  <2>1. c = Len(data_) /\ Len(data_) <= Len(recent)
    BY <1>1, <2>0 DEF CacheInv, Order
  <2>2. \A j \in 1..Len(data_) : j \in 1..Len(recent) /\ data_[j].key = recent[j]
    <3>1. PICK x \in Nat, y \in Nat : x = Len(data_) /\ y = Len(recent) /\ x <= y
      BY <2>0, <2>1
    <3>2. \A j \in 1..x : j \in 1..y
      BY <3>1
    <3> QED
      BY <1>1, <3>1, <3>2 DEF CacheInv, Order
  <2>3. \A j \in 1..Len(data_) : recent[j] \in Keys
    BY <2>0, <2>2, T!ElementOfSeq
  <2>4. PICK n \in Nat : n = Len(data_)
    BY <2>0
  <2>5. /\ SubSeq(recent, 1, n) \in Seq(Keys)
        /\ Len(SubSeq(recent, 1, n)) = n
        /\ \A j \in 1..n : SubSeq(recent, 1, n)[j] = recent[j]
    <3>1. /\ SubSeq(recent, 1, n) \in Seq(Keys)
          /\ Len(SubSeq(recent, 1, n)) = IF 1 <= n THEN (n - 1) + 1 ELSE 0
          /\ \A j \in 1..((n - 1) + 1) : SubSeq(recent, 1, n)[j] = recent[(1 + j) - 1]
      BY <2>3, <2>4, T!SubSeqProperties
    <3>2. (n - 1) + 1 = n /\ \A j \in 1..n : (1 + j) - 1 = j
      OBVIOUS
    <3> QED
      BY <3>1, <3>2
  <2>6. s \in Seq(Keys) /\ Len(s) = n /\ \A j \in 1..n : s[j] = recent[j]
    <3>1. s = [j \in 1..n |-> recent[j]]
      BY <2>0, <2>2, <2>4
    <3>2. s \in [1..n -> Keys]
      BY <2>3, <2>4, <3>1
    <3> QED
      BY <2>4, <3>1, <3>2
  <2>7. s = SubSeq(recent, 1, n)
    BY <2>5, <2>6, T!SeqEqual
  <2> QED
    BY <2>1, <2>4, <2>7 DEF LeastRecentEvicted
<1> QED
  BY <1>1, Invariance, PTL

(* index_, data_ and size_ always describe the same records.               *)
THEOREM IndexAndListAgree ==
    ASSUME ~ MayReuse
    PROVE  Spec => []IndexMatchesList
<1>1. ASSUME CacheInv
      PROVE  IndexMatchesList
  <2>1. size_ = Len(data_) /\ Cardinality(index_) = Len(data_) /\ DOMAIN data_ = 1..Len(data_)
    BY <1>1, T!LenProperties DEF CacheInv, Typed, Indexed
  <2>2. ASSUME NEW j \in 1..Len(data_)
        PROVE  \E i \in Find(data_[j].key) : i.node = data_[j].node
    <3>1. PICK i \in index_ : i.node = data_[j].node
      BY <1>1 DEF CacheInv, Indexed
    <3>2. PICK m \in 1..Len(data_) : data_[m].node = i.node /\ data_[m].key = i.code
      BY <1>1, <3>1 DEF CacheInv, Indexed
    <3>3. m = j
      BY <1>1, <3>1, <3>2 DEF CacheInv, Nodes
    <3>4. i.code = data_[j].key /\ caller[i.at] = data_[j].key
      BY <1>1, <3>2, <3>3 DEF CacheInv, Indexed
    <3> QED
      BY <3>1, <3>4 DEF Find, SeqEqual
  <2> QED
    BY <2>1, <2>2 DEF IndexMatchesList
<1> QED
  BY <1>1, Invariance, PTL

(* A hit of Get is the value that was put last.                            *)
THEOREM HitsAreLatest ==
    ASSUME ~ MayReuse
    PROVE  Spec => []HitIsLatest
<1>1. CacheInv => HitIsLatest
  BY DEF CacheInv
<1> QED
  BY <1>1, Invariance, PTL

(* No block of cache_pool_ is freed early or kept for ever: its count is   *)
(* the number of keys and values that were given its id.                   *)
THEOREM RefsAreExact ==
    ASSUME ~ MayReuse
    PROVE  Spec => []RefsExact
<1>1. ASSUME CacheInv
      PROVE  RefsExact
  <2>0. /\ data_ \in Seq(Records) /\ DOMAIN data_ = 1..Len(data_)
        /\ DOMAIN pool.ref = 1..Len(pool.ref) /\ Len(pool.ref) \in Nat
    <3>1. data_ \in Seq(Records) /\ pool.ref \in Seq(Int)
      BY <1>1 DEF CacheInv, Typed, Pools
    <3> QED
      BY <3>1, T!LenProperties
  <2>1. ASSUME NEW id \in DOMAIN pool.ref
        PROVE  pool.ref[id] = Cardinality({j \in DOMAIN data_ : data_[j].kblk = id})
                                + Cardinality({j \in DOMAIN data_ : data_[j].vblk = id})
    <3>1. id \in Nat /\ RefOf(pool, id) = pool.ref[id]
      BY <2>0 DEF RefOf
    <3>2. \A j \in DOMAIN data_ : data_[j] \in Records
      BY <2>0, T!ElementOfSeq
    <3>3. /\ {j \in DOMAIN data_ : data_[j] \in KeysIn(id)}
               = {j \in DOMAIN data_ : data_[j].kblk = id}
          /\ {j \in DOMAIN data_ : data_[j] \in ValuesIn(id)}
               = {j \in DOMAIN data_ : data_[j].vblk = id}
      BY <3>2 DEF KeysIn, ValuesIn
    <3>4. RefOf(pool, id) = Occurrences(data_, KeysIn(id)) + Occurrences(data_, ValuesIn(id))
      BY <1>1, <3>1 DEF CacheInv, Counted
    <3> QED
      BY <3>1, <3>3, <3>4 DEF Occurrences
  <2> QED
    BY <2>1 DEF RefsExact
<1> QED
  BY <1>1, Invariance, PTL
=============================================================================
