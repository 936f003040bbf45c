--------------------------- MODULE RecoveryProofs ---------------------------
(***************************************************************************)
(* Proofs about the list of versions and the files behind it, under        *)
(* everything that Recovery lets an instance do: for any readers, any      *)
(* number of calls, flushes, failures and crashes, any limits of the       *)
(* levels and any size of the buffer.                                      *)
(*                                                                         *)
(* Versions: IteratorsValid and VersionsKept are not inductive: that       *)
(* UnrefVersion evicts no version somebody is looking at depends on how    *)
(* many references the version has.  It is enough to count two of them     *)
(* apart, the one of the flush task and the one of any single Get: Gets    *)
(* never give theirs back, so one of them stands for all.                  *)
(*                                                                         *)
(* Text: Decode reads every manifest back from what Encode writes, and     *)
(* makes some manifest of whatever a crash leaves of it.  Encode flattens  *)
(* and Split counts separators; both are described by the places where     *)
(* the pieces of a text begin, of which there is only one choice.          *)
(*                                                                         *)
(* Manifests and files: what the task has in memory and what there still   *)
(* is to write make up what it wants to write (ManifestInv), and what was  *)
(* flushed is in the files the manifest on disk lists and in those that    *)
(* its successor will list (SurviveInv).                                   *)
(***************************************************************************)
EXTENDS Recovery, SequenceTheorems, FiniteSetTheorems, WellFoundedInduction, TLAPS

-----------------------------------------------------------------------------
(* Sequences that lose an element, or get a new first one.                 *)

(* What is left of a sequence when one element is taken out.               *)
LEMMA RemoveAtProperties ==
    ASSUME NEW S, NEW s \in Seq(S), NEW p \in 1..Len(s)
    PROVE  /\ RemoveAt(s, p) \in Seq(S)
           /\ Len(RemoveAt(s, p)) = Len(s) - 1
           /\ \A i \in 1..(Len(s) - 1) :
                 RemoveAt(s, p)[i] = IF i < p THEN s[i] ELSE s[i + 1]
<1> DEFINE a == SubSeq(s, 1, p - 1)
           b == SubSeq(s, p + 1, Len(s))
<1>0. PICK n \in Nat : n = Len(s)
  BY LenProperties
<1>p. p \in 1..n /\ \A i \in 1..n : s[i] \in S
  BY <1>0, ElementOfSeq
<1>1. a \in Seq(S) /\ Len(a) = p - 1 /\ \A i \in 1..(p - 1) : a[i] = s[i]
  <2>1. \A i \in 1..(p - 1) : s[i] \in S
    BY <1>p
  <2> QED
    BY <1>p, <2>1, SubSeqProperties
<1>2. b \in Seq(S) /\ Len(b) = n - p /\ \A i \in 1..(n - p) : b[i] = s[p + i]
  <2>1. \A i \in (p + 1)..n : s[i] \in S
    BY <1>p
  <2> QED
    BY <1>0, <1>p, <2>1, SubSeqProperties
<1>3. /\ a \o b \in Seq(S) /\ Len(a \o b) = Len(a) + Len(b)
      /\ \A i \in 1..(Len(a) + Len(b)) :
            (a \o b)[i] = IF i <= Len(a) THEN a[i] ELSE b[i - Len(a)]
  BY <1>1, <1>2, ConcatProperties
<1>6. RemoveAt(s, p) = a \o b
  BY DEF RemoveAt
<1> HIDE DEF a, b
<1>4. \A i \in 1..(n - 1) : (a \o b)[i] = IF i < p THEN s[i] ELSE s[i + 1]
  <2> SUFFICES ASSUME NEW i \in 1..(n - 1)
               PROVE  (a \o b)[i] = IF i < p THEN s[i] ELSE s[i + 1]
    OBVIOUS
  <2>1. (a \o b)[i] = IF i <= Len(a) THEN a[i] ELSE b[i - Len(a)]
    BY <1>1, <1>2, <1>3, <1>p
  <2>2. CASE i < p
    BY <2>1, <2>2, <1>1, <1>p
  <2>3. CASE ~ (i < p)
    <3>1. i - (p - 1) \in 1..(n - p) /\ p + (i - (p - 1)) = i + 1
      BY <2>3, <1>p
    <3> QED
      BY <2>1, <2>3, <3>1, <1>1, <1>2, <1>p
  <2> QED
    BY <2>2, <2>3
<1>5. Len(a \o b) = n - 1
  BY <1>1, <1>2, <1>3, <1>p
<1> QED
  BY <1>0, <1>3, <1>4, <1>5, <1>6

(* The elements of a sequence that gets a new first one move up.           *)
LEMMA PrependProperties ==
    ASSUME NEW S, NEW s \in Seq(S), NEW e \in S
    PROVE  /\ <<e>> \o s \in Seq(S)
           /\ Len(<<e>> \o s) = Len(s) + 1
           /\ (<<e>> \o s)[1] = e
           /\ \A i \in 1..Len(s) : (<<e>> \o s)[i + 1] = s[i]
<1>1. <<e>> \in Seq(S) /\ Len(<<e>>) = 1 /\ <<e>>[1] = e
  OBVIOUS
<1>2. Len(s) \in Nat
  BY LenProperties
<1>3. /\ <<e>> \o s \in Seq(S) /\ Len(<<e>> \o s) = 1 + Len(s)
      /\ \A i \in 1..(1 + Len(s)) :
            (<<e>> \o s)[i] = IF i <= 1 THEN <<e>>[i] ELSE s[i - 1]
  BY <1>1, ConcatProperties
<1>4. \A i \in 1..Len(s) : (<<e>> \o s)[i + 1] = s[i]
  <2> SUFFICES ASSUME NEW i \in 1..Len(s)
               PROVE  (<<e>> \o s)[i + 1] = s[i]
    OBVIOUS
  <2>1. i + 1 \in 1..(1 + Len(s)) /\ ~ (i + 1 <= 1) /\ (i + 1) - 1 = i
    BY <1>2
  <2> QED
    BY <1>3, <2>1
<1> QED
  BY <1>1, <1>2, <1>3, <1>4

-----------------------------------------------------------------------------
(* The list of versions.                                                   *)

Versions(S) == [manifest : S, ref : Nat]

(* Manifests are whatever Decode returns and compactions make of it.       *)
Typed ==
    /\ \E S : version_list_ \in Seq(Versions(S)) /\ it \in [Users -> S]
    /\ pc \in [Users -> {"off", "idle", "copy", "work", "unref", "failed"}]

(* All threads are there or none is; a Get only ever copies a manifest.    *)
Together ==
    /\ \A u \in Readers : pc[u] \in {"off", "idle", "copy"}
    /\ \A u \in Users : pc[u] = "off" <=> pc[Flusher] = "off"

(* version_map_ has every manifest once.                                   *)
Distinct ==
    \A i, j \in DOMAIN version_list_ :
        version_list_[i].manifest = version_list_[j].manifest => i = j

(* The flush task works on the latest version until it has appended its    *)
(* own, and gives back one that is not the latest any more.                *)
FlusherPart ==
    /\ pc[Flusher] \in {"copy", "work"} => it[Flusher] = newest
    /\ pc[Flusher] = "unref" => it[Flusher] # newest

(* Whoever is using a version has a reference to it of its own, besides    *)
(* the one of the flush task.                                              *)
Referenced ==
    \A u \in Users : InUse(u) =>
        \E i \in DOMAIN version_list_ :
            /\ version_list_[i].manifest = it[u]
            /\ version_list_[i].ref >= 1
            /\ u # Flusher /\ InUse(Flusher) /\ it[Flusher] = it[u]
                  => version_list_[i].ref >= 2

VersionInv ==
    Typed /\ Together /\ Distinct /\ FlusherPart /\ Referenced
          /\ LatestStays /\ OldEvicted

-----------------------------------------------------------------------------
(* What the iterators and the latest version are depends on the list, the  *)
(* iterators and the program counters alone.                               *)
LEMMA SameInv ==
    ASSUME VersionInv, UNCHANGED versionvars
    PROVE  VersionInv'
BY DEF versionvars, VersionInv, Typed, Together, Distinct, FlusherPart, Referenced,
       LatestStays, OldEvicted, InUse, Up

(* Only the program counter of a thread that keeps or lets go of its       *)
(* version moves.                                                          *)
LEMMA MoveInv ==
    ASSUME VersionInv, NEW u \in Users, NEW l,
           pc' = [pc EXCEPT ![u] = l],
           UNCHANGED <<version_list_, it, newest>>,
           \/ u \in Readers /\ pc[u] = "copy" /\ l = "idle"
           \/ u = Flusher /\ pc[u] = "copy" /\ l = "work"
           \/ u = Flusher /\ pc[u] = "work" /\ l = "failed"
    PROVE  VersionInv'
<1> USE VersionCtrlAssumption DEF VersionInv, Users
<1>1. Typed'
  BY DEF Typed
<1>2. Together' /\ FlusherPart' /\ Distinct'
  BY DEF Typed, Together, FlusherPart, Distinct
<1>3. Referenced'
  BY DEF Typed, Referenced, InUse
<1>4. LatestStays' /\ OldEvicted'
  BY DEF Typed, LatestStays, OldEvicted, Up
<1> QED
  BY <1>1, <1>2, <1>3, <1>4

-----------------------------------------------------------------------------
(* LatestVersion adds one reference to the last element.                   *)
LEMMA LatestVersionEffect ==
    ASSUME VersionInv, Up, NEW u \in Users, LatestVersion(u)
    PROVE  \E n \in Nat \ {0} :
             /\ DOMAIN version_list_ = 1..n /\ DOMAIN version_list_' = 1..n
             /\ Len(version_list_) = n /\ Len(version_list_') = n
             /\ version_list_[n].manifest = newest
             /\ \A i \in 1..n : version_list_[i].ref \in Nat
             /\ \A i \in 1..n :
                   /\ version_list_'[i].manifest = version_list_[i].manifest
                   /\ version_list_'[i].ref =
                         IF i = n THEN version_list_[i].ref + 1 ELSE version_list_[i].ref
             /\ it' = [it EXCEPT ![u] = newest]
             /\ \E S : version_list_' \in Seq(Versions(S)) /\ it' \in [Users -> S]
<1>1. PICK S : version_list_ \in Seq(Versions(S)) /\ it \in [Users -> S]
  BY DEF VersionInv, Typed
<1>2. PICK n \in Nat : n = Len(version_list_)
  BY <1>1, LenProperties
<1>3. n \in Nat \ {0} /\ version_list_[n].manifest = newest
  <2>1. version_list_ # <<>>
    BY DEF VersionInv, LatestStays
  <2>2. n # 0
    BY <1>1, <1>2, <2>1, EmptySeq
  <2> QED
    BY <1>2, <2>2 DEF VersionInv, LatestStays
<1>4. DOMAIN version_list_ = 1..n /\ \A i \in 1..n : version_list_[i] \in Versions(S)
  BY <1>1, <1>2, LenProperties, ElementOfSeq
<1> DEFINE e == [version_list_[n] EXCEPT !.ref = @ + 1]
<1>5. n \in 1..n /\ e \in Versions(S)
  BY <1>3, <1>4 DEF Versions
<1>6. version_list_' = [version_list_ EXCEPT ![n] = e]
  BY <1>2 DEF LatestVersion
<1>7. /\ version_list_' \in Seq(Versions(S)) /\ Len(version_list_') = n
      /\ \A i \in 1..n : version_list_'[i] = IF i = n THEN e ELSE version_list_[i]
  BY <1>1, <1>2, <1>5, <1>6, ExceptSeq
<1>8. DOMAIN version_list_' = 1..n
  BY <1>7, LenProperties
<1>9. it' = [it EXCEPT ![u] = newest] /\ newest \in S
  BY <1>2, <1>3, <1>4, <1>5 DEF LatestVersion, Versions
<1>10. it' \in [Users -> S]
  BY <1>1, <1>9
<1>11. \A i \in 1..n :
          /\ version_list_[i].ref \in Nat
          /\ version_list_'[i].manifest = version_list_[i].manifest
          /\ version_list_'[i].ref =
                IF i = n THEN version_list_[i].ref + 1 ELSE version_list_[i].ref
  BY <1>4, <1>7 DEF Versions
<1> QED
  BY <1>2, <1>3, <1>4, <1>7, <1>8, <1>9, <1>10, <1>11

(* A thread that was idle gets the latest version.                         *)
LEMMA LatestInv ==
    ASSUME VersionInv, NEW u \in Users, pc[u] = "idle", LatestVersion(u),
           pc' = [pc EXCEPT ![u] = "copy"], UNCHANGED newest
    PROVE  VersionInv'
<1> USE VersionCtrlAssumption
<1>t. /\ Typed /\ Together /\ Distinct /\ FlusherPart /\ Referenced
      /\ LatestStays /\ OldEvicted
  BY DEF VersionInv
<1>0. Up /\ Flusher \in Users /\ pc[Flusher] # "off"
  BY <1>t DEF Up, Together, Users
<1>1. PICK n \in Nat \ {0} :
         /\ DOMAIN version_list_ = 1..n /\ DOMAIN version_list_' = 1..n
         /\ Len(version_list_) = n /\ Len(version_list_') = n
         /\ version_list_[n].manifest = newest
         /\ \A i \in 1..n : version_list_[i].ref \in Nat
         /\ \A i \in 1..n :
               /\ version_list_'[i].manifest = version_list_[i].manifest
               /\ version_list_'[i].ref =
                     IF i = n THEN version_list_[i].ref + 1 ELSE version_list_[i].ref
         /\ it' = [it EXCEPT ![u] = newest]
         /\ \E S : version_list_' \in Seq(Versions(S)) /\ it' \in [Users -> S]
  BY <1>0, LatestVersionEffect
<1>2. \A v \in Users : /\ pc'[v] = IF v = u THEN "copy" ELSE pc[v]
                       /\ it'[v] = IF v = u THEN newest ELSE it[v]
  BY <1>1, <1>t DEF Typed
<1>3. Typed'
  BY <1>1, <1>t DEF Typed
<1>4. Together' /\ FlusherPart'
  BY <1>0, <1>2, <1>t DEF Together, FlusherPart, Users
<1>5. Distinct'
  BY <1>1, <1>t DEF Distinct
<1>6. Referenced'
  <2> SUFFICES ASSUME NEW v \in Users, InUse(v)'
               PROVE  \E i \in 1..n :
                        /\ version_list_'[i].manifest = it'[v]
                        /\ version_list_'[i].ref >= 1
                        /\ v # Flusher /\ InUse(Flusher)' /\ it'[Flusher] = it'[v]
                              => version_list_'[i].ref >= 2
    BY <1>1 DEF Referenced
  <2>1. CASE v = u
    <3>1. n \in 1..n /\ version_list_'[n].manifest = it'[v]
      BY <2>1, <1>1, <1>2
    <3>2. version_list_'[n].ref >= 1
      BY <3>1, <1>1
    <3>3. ASSUME v # Flusher, InUse(Flusher)', it'[Flusher] = it'[v]
          PROVE  version_list_'[n].ref >= 2
      <4>1. InUse(Flusher) /\ it[Flusher] = newest
        BY <2>1, <3>3, <1>0, <1>2 DEF InUse
      <4>2. PICK i \in 1..n : version_list_[i].manifest = newest /\ version_list_[i].ref >= 1
        BY <4>1, <1>0, <1>1, <1>t DEF Referenced
      <4>3. i = n
        BY <4>2, <3>1, <1>1, <1>t, ZenonT(30) DEF Distinct
      <4> QED
        BY <4>2, <4>3, <1>1
    <3> QED
      BY <3>1, <3>2, <3>3
  <2>2. CASE v # u
    <3>1. InUse(v) /\ it'[v] = it[v]
      BY <2>2, <1>2 DEF InUse
    <3>2. PICK i \in 1..n :
             /\ version_list_[i].manifest = it[v]
             /\ version_list_[i].ref >= 1
             /\ v # Flusher /\ InUse(Flusher) /\ it[Flusher] = it[v]
                   => version_list_[i].ref >= 2
      BY <3>1, <1>1, <1>t DEF Referenced
    <3>3. version_list_'[i].manifest = it'[v] /\ version_list_'[i].ref >= 1
      BY <3>1, <3>2, <1>1
    <3>4. ASSUME v # Flusher, InUse(Flusher)', it'[Flusher] = it'[v]
          PROVE  version_list_'[i].ref >= 2
      <4>1. CASE u = Flusher
        <5>1. version_list_[i].manifest = newest
          BY <4>1, <3>1, <3>2, <3>4, <1>2
        <5>2. i = n
          BY <5>1, <1>1, <1>t DEF Distinct
        <5> QED
          BY <5>2, <3>2, <1>1
      <4>2. CASE u # Flusher
        <5>1. InUse(Flusher) /\ it[Flusher] = it[v]
          BY <4>2, <3>1, <3>4, <1>0, <1>2 DEF InUse
        <5> QED
          BY <5>1, <3>2, <3>4, <1>1
      <4> QED
        BY <4>1, <4>2
    <3> QED
      BY <3>3, <3>4
  <2> QED
    BY <2>1, <2>2
<1>7. LatestStays'
  <2>1. version_list_'[n].manifest = newest /\ Len(version_list_') = n
    BY <1>1
  <2>2. version_list_' # <<>>
    BY <1>1
  <2> QED
    BY <2>1, <2>2 DEF LatestStays
<1>8. OldEvicted'
  BY <1>1, <1>t DEF OldEvicted
<1> QED
  BY <1>3, <1>4, <1>5, <1>6, <1>7, <1>8 DEF VersionInv

-----------------------------------------------------------------------------
(* The constructor and the end of the process leave one version or none.   *)
LEMMA OpenInv ==
    ASSUME NEW m, Typed, Open(m)
    PROVE  VersionInv'
<1>1. PICK S : it \in [Users -> S]
  BY DEF Typed
<1> DEFINE W == S \union {m}
           v == [manifest |-> m, ref |-> 1]
<1>2. v \in Versions(W) /\ it' \in [Users -> W]
  BY <1>1 DEF Versions, Open
<1>3. /\ version_list_' = <<v>> /\ <<v>> \in Seq(Versions(W))
      /\ Len(<<v>>) = 1 /\ <<v>>[1] = v /\ DOMAIN <<v>> = 1..1
  BY <1>2 DEF Open
<1>4. Typed'
  BY <1>2, <1>3 DEF Typed, Open
<1>5. Together' /\ FlusherPart' /\ Referenced'
  BY DEF Open, Together, FlusherPart, Referenced, InUse, Users
<1>6. Distinct' /\ OldEvicted'
  BY <1>3 DEF Distinct, OldEvicted
<1>7. LatestStays'
  BY <1>3 DEF LatestStays, Open
<1> QED
  BY <1>4, <1>5, <1>6, <1>7 DEF VersionInv

(* A process that has stopped has no versions.                             *)
LEMMA CloseInv == Close => VersionInv'
<1> SUFFICES ASSUME Close PROVE VersionInv'
  OBVIOUS
<1>1. Typed'
  <2>1. version_list_' \in Seq(Versions({<<>>})) /\ it' \in [Users -> {<<>>}]
    BY DEF Close
  <2> QED
    BY <2>1 DEF Typed, Close
<1>2. Together' /\ FlusherPart' /\ Referenced' /\ LatestStays'
  BY DEF Close, Together, FlusherPart, Referenced, LatestStays, InUse, Up, Users
<1>3. Distinct' /\ OldEvicted'
  <2>1. DOMAIN version_list_' = {}
    BY DEF Close
  <2> QED
    BY <2>1 DEF Distinct, OldEvicted
<1> QED
  BY <1>1, <1>2, <1>3 DEF VersionInv

-----------------------------------------------------------------------------
(* FlushAppend: the manifest becomes the latest version, or was there.     *)
LEMMA AppendInv ==
    ASSUME VersionInv, NEW m, FlushAppend(m)
    PROVE  VersionInv'
<1> USE VersionCtrlAssumption
<1>t. /\ Typed /\ Together /\ Distinct /\ FlusherPart /\ Referenced
      /\ LatestStays /\ OldEvicted
  BY DEF VersionInv
<1>0. /\ Up /\ Flusher \in Users /\ pc[Flusher] = "work" /\ InUse(Flusher)
      /\ it[Flusher] = newest /\ UNCHANGED it
  BY <1>t DEF Up, Users, FlushAppend, InUse, FlusherPart
<1>1. PICK S : version_list_ \in Seq(Versions(S)) /\ it \in [Users -> S]
  BY <1>t DEF Typed
<1>2. PICK n \in Nat : n = Len(version_list_)
  BY <1>1, LenProperties
<1>3. DOMAIN version_list_ = 1..n /\ \A i \in 1..n : version_list_[i] \in Versions(S)
  BY <1>1, <1>2, LenProperties, ElementOfSeq
<1>4. n \in 1..n /\ version_list_[n].manifest = newest
  <2>1. n # 0
    BY <1>0, <1>1, <1>2, <1>t, EmptySeq DEF LatestStays
  <2> QED
    BY <2>1, <1>0, <1>2, <1>t DEF LatestStays
<1>5. \A i \in 1..n : version_list_[i].ref \in Nat
  BY <1>3 DEF Versions
<1>6. CASE ExistVersion(m)
  <2> DEFINE q == Place(m)
             e == [version_list_[q] EXCEPT !.ref = @ + 1]
  <2>1. q \in 1..n /\ version_list_[q].manifest = m
    BY <1>6, <1>3 DEF ExistVersion, Place
  <2>2. version_list_' = [version_list_ EXCEPT ![q] = e] /\ newest' = newest
    BY <1>6 DEF FlushAppend, AppendVersion
  <2>p. pc' = [pc EXCEPT ![Flusher] = "failed"]
    BY <1>6 DEF FlushAppend
  <2> HIDE DEF q
  <2>3. e \in Versions(S)
    BY <2>1, <1>3 DEF Versions
  <2>4. /\ version_list_' \in Seq(Versions(S)) /\ Len(version_list_') = n
        /\ \A i \in 1..n : version_list_'[i] = IF i = q THEN e ELSE version_list_[i]
    BY <1>1, <1>2, <2>1, <2>2, <2>3, ExceptSeq
  <2>5. DOMAIN version_list_' = 1..n
    BY <2>4, LenProperties
  <2>6. \A i \in 1..n :
           /\ version_list_'[i].manifest = version_list_[i].manifest
           /\ version_list_'[i].ref >= version_list_[i].ref
    BY <2>1, <2>4, <1>3, <1>5 DEF Versions
  <2>7. \A u \in Users : pc'[u] = IF u = Flusher THEN "failed" ELSE pc[u]
    BY <2>p, <1>t DEF Typed
  <2>8. Typed'
    <3>1. pc' \in [Users -> {"off", "idle", "copy", "work", "unref", "failed"}]
      BY <2>p, <1>t DEF Typed
    <3>2. version_list_' \in Seq(Versions(S)) /\ it' \in [Users -> S]
      BY <2>4, <1>0, <1>1
    <3> QED
      BY <3>1, <3>2 DEF Typed
  <2>9. Together' /\ FlusherPart'
    BY <2>7, <1>0, <1>t DEF Together, FlusherPart, Users
  <2>10. Distinct'
    BY <2>5, <2>6, <1>3, <1>t DEF Distinct
  <2>11. Referenced'
    <3> SUFFICES ASSUME NEW u \in Users, InUse(u)'
                 PROVE  \E i \in 1..n : /\ version_list_'[i].manifest = it[u]
                                        /\ version_list_'[i].ref >= 1
      BY <2>5, <2>7, <1>0 DEF Referenced, InUse
    <3>1. InUse(u)
      BY <2>7 DEF InUse
    <3>2. PICK i \in 1..n : version_list_[i].manifest = it[u] /\ version_list_[i].ref >= 1
      BY <3>1, <1>3, <1>t DEF Referenced
    <3>3. version_list_'[i].ref \in Nat
      BY <2>3, <2>4, <1>3 DEF Versions
    <3> QED
      BY <3>2, <3>3, <2>6, <1>5
  <2>12. LatestStays'
    <3>1. version_list_'[n].manifest = newest' /\ Len(version_list_') = n /\ n # 0
      BY <2>2, <2>4, <2>6, <1>4
    <3>2. version_list_' # <<>>
      BY <3>1
    <3> QED
      BY <3>1, <3>2 DEF LatestStays
  <2>13. OldEvicted'
    <3>1. \A i \in 1..n : version_list_'[i].ref \in Nat
      BY <2>3, <2>4, <1>3 DEF Versions
    <3>2. \A i \in 1..n : i < n => version_list_[i].ref > 0
      BY <1>2, <1>3, <1>t DEF OldEvicted
    <3> QED
      BY <3>1, <3>2, <2>4, <2>5, <2>6, <1>5 DEF OldEvicted
  <2> QED
    BY <2>8, <2>9, <2>10, <2>11, <2>12, <2>13 DEF VersionInv
<1>7. CASE ~ ExistVersion(m)
  <2> DEFINE W == S \union {m}
             e == [manifest |-> m, ref |-> 0]
  <2>1. version_list_' = Append(version_list_, e) /\ newest' = m
    BY <1>7 DEF FlushAppend, AppendVersion
  <2>p. pc' = [pc EXCEPT ![Flusher] = "unref"]
    BY <1>7 DEF FlushAppend
  <2>2. version_list_ \in Seq(Versions(W)) /\ e \in Versions(W) /\ it' \in [Users -> W]
    <3>1. Versions(S) \subseteq Versions(W)
      BY DEF Versions
    <3>2. e \in Versions(W) /\ it' \in [Users -> W]
      BY <1>0, <1>1 DEF Versions
    <3> QED
      BY <3>1, <3>2, <1>1, SeqMonotonic
  <2>3. /\ version_list_' \in Seq(Versions(W)) /\ Len(version_list_') = n + 1
        /\ \A i \in 1..n : version_list_'[i] = version_list_[i]
        /\ version_list_'[n + 1] = e
    <3> HIDE DEF e, W
    <3> QED
      BY <1>2, <2>1, <2>2, AppendProperties
  <2>4. DOMAIN version_list_' = 1..(n + 1)
    BY <2>3, LenProperties
  <2>5. \A i \in 1..(n + 1) : i \in 1..n \/ i = n + 1
    BY <1>2
  <2>6. 1..n \subseteq 1..(n + 1) /\ n + 1 \in 1..(n + 1) /\ n + 1 \notin 1..n
    BY <1>2
  <2>7. \A u \in Users : pc'[u] = IF u = Flusher THEN "unref" ELSE pc[u]
    BY <2>p, <1>t DEF Typed
  <2>8. \A i \in 1..n : version_list_[i].manifest # m
    BY <1>7, <1>3 DEF ExistVersion
  <2>9. Typed'
    <3>1. pc' \in [Users -> {"off", "idle", "copy", "work", "unref", "failed"}]
      BY <2>p, <1>t DEF Typed
    <3> QED
      BY <3>1, <2>2, <2>3 DEF Typed
  <2>10. Together' /\ FlusherPart'
    <3>1. newest # m
      BY <2>8, <1>4
    <3> QED
      BY <3>1, <2>1, <2>7, <1>0, <1>t DEF Together, FlusherPart, Users
  <2>11. Distinct'
    <3>1. \A i, j \in 1..(n + 1) :
             version_list_'[i].manifest = version_list_'[j].manifest => i = j
      BY <2>3, <2>5, <2>8, <1>3, <1>t DEF Distinct
    <3> QED
      BY <3>1, <2>4 DEF Distinct
  <2>12. Referenced'
    <3> SUFFICES ASSUME NEW u \in Users, InUse(u)'
                 PROVE  \E i \in 1..(n + 1) :
                          /\ version_list_'[i].manifest = it[u]
                          /\ version_list_'[i].ref >= 1
                          /\ u # Flusher /\ InUse(Flusher)' /\ it[Flusher] = it[u]
                                => version_list_'[i].ref >= 2
      BY <2>4, <1>0 DEF Referenced
    <3>1. InUse(u)
      BY <2>7, <1>0 DEF InUse
    <3>2. PICK i \in 1..n :
             /\ version_list_[i].manifest = it[u]
             /\ version_list_[i].ref >= 1
             /\ u # Flusher /\ InUse(Flusher) /\ it[Flusher] = it[u]
                   => version_list_[i].ref >= 2
      BY <3>1, <1>3, <1>t DEF Referenced
    <3>3. i \in 1..(n + 1) /\ version_list_'[i] = version_list_[i]
      BY <3>2, <2>3, <2>6
    <3> QED
      BY <3>2, <3>3, <1>0
  <2>13. LatestStays'
    <3>1. version_list_' # <<>>
      BY <2>3, <1>2
    <3> QED
      BY <3>1, <2>1, <2>3 DEF LatestStays
  <2>14. OldEvicted'
    <3>1. PICK i \in 1..n : version_list_[i].manifest = newest /\ version_list_[i].ref >= 1
      BY <1>0, <1>3, <1>t DEF Referenced
    <3>2. i = n
      BY <3>1, <1>3, <1>4, <1>t DEF Distinct
    <3>3. \A k \in 1..n : version_list_[k].ref > 0
      <4> SUFFICES ASSUME NEW k \in 1..n PROVE version_list_[k].ref > 0
        OBVIOUS
      <4>1. CASE k = n
        BY <4>1, <3>1, <3>2, <1>5
      <4>2. CASE k < n
        BY <4>2, <1>2, <1>3, <1>t DEF OldEvicted
      <4> QED
        BY <4>1, <4>2, <1>2
    <3>4. \A k \in 1..(n + 1) : k < n + 1 => version_list_'[k].ref > 0
      BY <3>3, <2>3, <2>5, <1>2
    <3> QED
      BY <3>4, <2>3, <2>4 DEF OldEvicted
  <2> QED
    BY <2>9, <2>10, <2>11, <2>12, <2>13, <2>14 DEF VersionInv
<1> QED
  BY <1>6, <1>7

-----------------------------------------------------------------------------
(* FlushUnref: the version the task started from loses a reference, or     *)
(* leaves the list when that was the last one.                             *)
LEMMA UnrefInv ==
    ASSUME VersionInv, NEW ok, FlushUnref(ok)
    PROVE  VersionInv'
<1> USE VersionCtrlAssumption
<1>t. /\ Typed /\ Together /\ Distinct /\ FlusherPart /\ Referenced
      /\ LatestStays /\ OldEvicted
  BY DEF VersionInv
<1>0. /\ Up /\ Flusher \in Users /\ InUse(Flusher)
      /\ it[Flusher] # newest /\ UNCHANGED <<it, newest>>
  BY <1>t DEF Up, Users, FlushUnref, InUse, FlusherPart
<1>1. PICK S : version_list_ \in Seq(Versions(S)) /\ it \in [Users -> S]
  BY <1>t DEF Typed
<1>2. PICK n \in Nat : n = Len(version_list_)
  BY <1>1, LenProperties
<1>3. DOMAIN version_list_ = 1..n /\ \A i \in 1..n : version_list_[i] \in Versions(S)
  BY <1>1, <1>2, LenProperties, ElementOfSeq
<1>4. n \in 1..n /\ version_list_[n].manifest = newest
  <2>1. n # 0
    BY <1>0, <1>1, <1>2, <1>t, EmptySeq DEF LatestStays
  <2> QED
    BY <2>1, <1>0, <1>2, <1>t DEF LatestStays
<1>5. \A i \in 1..n : version_list_[i].ref \in Nat
  BY <1>3 DEF Versions
<1> DEFINE p == Place(it[Flusher])
<1>6. p \in 1..n /\ version_list_[p].manifest = it[Flusher]
  <2>1. \E i \in DOMAIN version_list_ : version_list_[i].manifest = it[Flusher]
    BY <1>0, <1>t DEF Referenced
  <2> QED
    BY <2>1, <1>3 DEF Place
<1>7. version_list_' = IF version_list_[p].ref > 1
                       THEN [version_list_ EXCEPT ![p].ref = @ - 1]
                       ELSE RemoveAt(version_list_, p)
  BY DEF FlushUnref, UnrefVersion
<1> HIDE DEF p
<1>8. p # n /\ p < n
  BY <1>0, <1>4, <1>6
<1>9. \A u \in Users : pc'[u] = IF u = Flusher THEN (IF ok THEN "idle" ELSE "failed")
                                              ELSE pc[u]
  BY <1>t DEF FlushUnref, Typed
<1>10. pc' \in [Users -> {"off", "idle", "copy", "work", "unref", "failed"}]
  BY <1>t DEF FlushUnref, Typed
<1>11. Together' /\ FlusherPart'
  BY <1>9, <1>0, <1>t DEF Together, FlusherPart, Users, InUse
<1>12. \A u \in Users : InUse(u)' =>
          /\ u # Flusher /\ InUse(u)
          /\ \E i \in 1..n :
                /\ version_list_[i].manifest = it[u]
                /\ version_list_[i].ref >= 1
                /\ i = p => version_list_[i].ref >= 2
  <2> SUFFICES ASSUME NEW u \in Users, InUse(u)'
               PROVE  /\ u # Flusher /\ InUse(u)
                      /\ \E i \in 1..n :
                            /\ version_list_[i].manifest = it[u]
                            /\ version_list_[i].ref >= 1
                            /\ i = p => version_list_[i].ref >= 2
    OBVIOUS
  <2>1. u # Flusher /\ InUse(u)
    BY <1>9 DEF InUse
  <2> QED
    BY <2>1, <1>0, <1>3, <1>6, <1>t DEF Referenced
<1>13. ~ InUse(Flusher)'
  BY <1>0, <1>12
<1>14. CASE version_list_[p].ref > 1
  <2> DEFINE e == [version_list_[p] EXCEPT !.ref = @ - 1]
  <2>1. version_list_' = [version_list_ EXCEPT ![p] = e]
    BY <1>7, <1>14
  <2>2. e \in Versions(S)
    BY <1>3, <1>5, <1>6, <1>14 DEF Versions
  <2>3. /\ version_list_' \in Seq(Versions(S)) /\ Len(version_list_') = n
        /\ \A i \in 1..n : version_list_'[i] = IF i = p THEN e ELSE version_list_[i]
    BY <1>1, <1>2, <1>6, <2>1, <2>2, ExceptSeq
  <2>4. DOMAIN version_list_' = 1..n
    BY <2>3, LenProperties
  <2>5. \A i \in 1..n :
           /\ version_list_'[i].manifest = version_list_[i].manifest
           /\ version_list_'[i].ref =
                 IF i = p THEN version_list_[i].ref - 1 ELSE version_list_[i].ref
    BY <2>3, <1>3, ZenonT(30) DEF Versions
  <2>6. Typed'
    BY <2>3, <1>0, <1>1, <1>10 DEF Typed
  <2>7. Distinct'
    BY <2>4, <2>5, <1>3, <1>t DEF Distinct
  <2>8. Referenced'
    <3> SUFFICES ASSUME NEW u \in Users, InUse(u)'
                 PROVE  \E i \in 1..n : /\ version_list_'[i].manifest = it[u]
                                        /\ version_list_'[i].ref >= 1
      BY <2>4, <1>0, <1>13 DEF Referenced
    <3>1. PICK i \in 1..n : /\ version_list_[i].manifest = it[u]
                            /\ version_list_[i].ref >= 1
                            /\ i = p => version_list_[i].ref >= 2
      BY <1>12
    <3> QED
      BY <3>1, <2>5, <1>5
  <2>9. LatestStays'
    <3>1. version_list_'[n].manifest = newest' /\ Len(version_list_') = n /\ n # 0
      BY <2>3, <2>5, <1>0, <1>4
    <3>2. version_list_' # <<>>
      BY <3>1
    <3> QED
      BY <3>1, <3>2 DEF LatestStays
  <2>10. OldEvicted'
    <3>1. \A i \in 1..n : i < n => version_list_[i].ref > 0
      BY <1>2, <1>3, <1>t DEF OldEvicted
    <3> QED
      BY <3>1, <2>3, <2>4, <2>5, <1>5, <1>14 DEF OldEvicted
  <2> QED
    BY <2>6, <2>7, <2>8, <2>9, <2>10, <1>11 DEF VersionInv
<1>15. CASE ~ (version_list_[p].ref > 1)
  <2>0. version_list_[p].ref <= 1
    BY <1>15, <1>5, <1>6
  <2>1. /\ version_list_' \in Seq(Versions(S))
        /\ Len(version_list_') = n - 1
        /\ \A i \in 1..(n - 1) :
              version_list_'[i] = IF i < p THEN version_list_[i] ELSE version_list_[i + 1]
    BY <1>1, <1>2, <1>6, <1>7, <1>15, RemoveAtProperties
  <2>2. PICK k \in Nat \ {0} : k = n - 1 /\ n = k + 1
    BY <1>6, <1>8
  <2>3. DOMAIN version_list_' = 1..k
    BY <2>1, <2>2, LenProperties
  <2> DEFINE old(i) == IF i < p THEN i ELSE i + 1
  <2>4. \A i \in 1..k : old(i) \in 1..n /\ version_list_'[i] = version_list_[old(i)]
    BY <2>1, <2>2, <1>6
  <2>5. \A i, j \in 1..k : old(i) = old(j) => i = j
    BY <2>2, <1>6
  <2>6. \A i \in 1..n : i # p => \E j \in 1..k : old(j) = i
    <3> SUFFICES ASSUME NEW i \in 1..n, i # p
                 PROVE  \E j \in 1..k : old(j) = i
      OBVIOUS
    <3>1. CASE i < p
      BY <3>1, <2>2, <1>6, <1>8
    <3>2. CASE i > p
      <4>1. i - 1 \in 1..k /\ old(i - 1) = i
        BY <3>2, <2>2, <1>6
      <4> QED
        BY <4>1
    <3> QED
      BY <3>1, <3>2, <1>6
  <2>7. old(k) = n /\ k \in 1..k /\ \A i \in 1..k : i < k => old(i) < n
    BY <2>2, <1>6, <1>8
  <2> HIDE DEF old
  <2>8. Typed'
    BY <2>1, <1>0, <1>1, <1>10 DEF Typed
  <2>9. Distinct'
    BY <2>3, <2>4, <2>5, <1>3, <1>t DEF Distinct
  <2>10. Referenced'
    <3> SUFFICES ASSUME NEW u \in Users, InUse(u)'
                 PROVE  \E i \in 1..k : /\ version_list_'[i].manifest = it[u]
                                        /\ version_list_'[i].ref >= 1
      BY <2>3, <1>0, <1>13 DEF Referenced
    <3>1. PICK i \in 1..n : /\ version_list_[i].manifest = it[u]
                            /\ version_list_[i].ref >= 1
                            /\ i = p => version_list_[i].ref >= 2
      BY <1>12
    <3>2. i # p
      BY <3>1, <2>0, <1>5, <1>6
    <3> QED
      BY <3>1, <3>2, <2>4, <2>6
  <2>11. LatestStays'
    <3>1. version_list_'[k].manifest = newest' /\ Len(version_list_') = k
      BY <2>1, <2>2, <2>4, <2>7, <1>0, <1>4
    <3>2. version_list_' # <<>>
      BY <3>1
    <3> QED
      BY <3>1, <3>2 DEF LatestStays
  <2>12. OldEvicted'
    <3>1. \A i \in 1..n : i < n => version_list_[i].ref > 0
      BY <1>2, <1>3, <1>t DEF OldEvicted
    <3>2. \A i \in 1..k : i < k => version_list_'[i].ref > 0
      BY <3>1, <2>4, <2>7
    <3>3. Len(version_list_') = k
      BY <2>1, <2>2
    <3> QED
      BY <3>2, <3>3, <2>3 DEF OldEvicted
  <2> QED
    BY <2>8, <2>9, <2>10, <2>11, <2>12, <1>11 DEF VersionInv
<1> QED
  BY <1>14, <1>15

-----------------------------------------------------------------------------
(* Nothing runs at first.                                                  *)
LEMMA InitInv == Init => VersionInv
<1> SUFFICES ASSUME Init PROVE VersionInv
  OBVIOUS
<1>1. Typed
  <2>1. version_list_ \in Seq(Versions({<<>>})) /\ it \in [Users -> {<<>>}]
    BY DEF Init, Down
  <2> QED
    BY <2>1 DEF Typed, Init, Down
<1>2. Together /\ FlusherPart /\ Referenced /\ LatestStays
  BY DEF Init, Down, Together, FlusherPart, Referenced, LatestStays, InUse, Up, Users
<1>3. Distinct /\ OldEvicted
  <2>1. DOMAIN version_list_ = {}
    BY DEF Init, Down
  <2> QED
    BY <2>1 DEF Distinct, OldEvicted
<1> QED
  BY <1>1, <1>2, <1>3 DEF VersionInv

(* What the steps of Recovery do to the list of versions.                  *)
LEMMA NextInv == VersionInv /\ [Next]_vars => VersionInv'
<1> SUFFICES ASSUME VersionInv, [Next]_vars PROVE VersionInv'
  OBVIOUS
<1>0. Flusher \in Users /\ Readers \subseteq Users
  BY DEF Users
<1>1. CASE UNCHANGED versionvars
  BY <1>1, SameInv
<1>2. CASE ReadManifest
  <2>1. CASE UNCHANGED versionvars
    BY <2>1, SameInv
  <2>2. CASE Open(Decode(MANIFEST))
    BY <2>2, OpenInv DEF VersionInv
  <2> QED
    BY <1>2, <2>1, <2>2 DEF ReadManifest
<1>3. CASE Crash
  BY <1>3, CloseInv DEF Crash
<1>4. ASSUME NEW u \in Readers, Get(u) PROVE VersionInv'
  <2>1. CASE GetLatest(u)
    BY <2>1, <1>0, LatestInv DEF GetLatest
  <2>2. CASE GetCopy(u)
    BY <2>2, <1>0, MoveInv DEF GetCopy
  <2> QED
    BY <1>4, <2>1, <2>2 DEF Get
<1>5. CASE BeginFlush
  BY <1>5, <1>0, LatestInv DEF BeginFlush, FlushLatest
<1>6. CASE CopyManifest
  BY <1>6, <1>0, MoveInv DEF CopyManifest, FlushCopy
<1>7. CASE WriteFails
  <2>1. CASE UNCHANGED versionvars
    BY <2>1, SameInv
  <2>2. CASE CompactFails
    BY <2>2, <1>0, MoveInv DEF CompactFails
  <2> QED
    BY <1>7, <2>1, <2>2 DEF WriteFails
<1>8. CASE AppendFlush
  BY <1>8, AppendInv DEF AppendFlush
<1>9. CASE EndFlush
  BY <1>9, UnrefInv DEF EndFlush
<1>10. CASE BuildMetadataFile \/ BuildMetadataWrite \/ Compact \/ WriteLevel0File
            \/ WriteBlock \/ OpenManifest \/ AppendManifest
  BY <1>1, <1>10 DEF BuildMetadataFile, BuildMetadataWrite, Compact, WriteLevel0File,
                     WriteBlock, OpenManifest, AppendManifest
<1>11. CASE UNCHANGED vars
  BY <1>1, <1>11 DEF vars
<1> QED
  BY <1>2, <1>3, <1>4, <1>5, <1>6, <1>7, <1>8, <1>9, <1>10, <1>11 DEF Next

(* The references of the list are as many as its users need, whatever      *)
(* files, failures and restarts surround it.                               *)
THEOREM Invariance == Spec => []VersionInv
<1>1. Init => VersionInv
  BY InitInv
<1>2. VersionInv /\ [Next]_vars => VersionInv'
  BY NextInv
<1> QED
  BY <1>1, <1>2, PTL DEF Spec

(* No iterator that LatestVersion returned outlives its version: a Get     *)
(* that copies its manifest without the mutex finds it, however many       *)
(* flushes have appended and evicted versions in between.                  *)
THEOREM IteratorsStayValid == Spec => []IteratorsValid
<1>1. VersionInv => IteratorsValid
  BY DEF VersionInv, Referenced, IteratorsValid, ExistVersion
<1> QED
  BY <1>1, Invariance, PTL

(* AppendVersion and UnrefVersion keep the latest version, which may have  *)
(* no reference at all, and of the older ones exactly those that are       *)
(* referred to.                                                            *)
THEOREM LatestIsKept == Spec => []VersionsKept
<1>1. VersionInv => VersionsKept
  BY DEF VersionInv, VersionsKept
<1> QED
  BY <1>1, Invariance, PTL

-----------------------------------------------------------------------------
(* Numbers: every set of them has a smallest element, and a largest one if *)
(* it is bounded.                                                          *)
LEMMA SmallestNat ==
    ASSUME NEW A \in SUBSET Nat, A # {}
    PROVE  \E x \in A : \A y \in A : x <= y
<1>0. \E R : IsWellFoundedOn(R, Nat) /\ \A x, y \in Nat : <<x, y>> \in R <=> x < y
  <2>1. IsWellFoundedOn(OpToRel(<, Nat), Nat)
    BY NatLessThanWellFounded
  <2>2. \A x, y \in Nat : <<x, y>> \in OpToRel(<, Nat) <=> x < y
    BY DEF OpToRel
  <2> QED
    BY <2>1, <2>2
<1>1. PICK R : IsWellFoundedOn(R, Nat) /\ \A x, y \in Nat : <<x, y>> \in R <=> x < y
  BY <1>0
<1>2. IsWellFoundedOn(R, Nat) /\ A \subseteq Nat
  BY <1>1
<1>3. \E x \in A : \A y \in A : ~ (<<y, x>> \in R)
  BY <1>2, WFMin, Zenon
<1>4. PICK x \in A : \A y \in A : ~ (<<y, x>> \in R)
  BY <1>3
<1>5. \A y \in A : ~ (y < x)
  <2> TAKE y \in A
  <2>1. y \in Nat /\ x \in Nat
    OBVIOUS
  <2>2. ~ (<<y, x>> \in R)
    BY <1>4
  <2> QED
    BY <1>1, <2>1, <2>2, Zenon
<1>6. \A y \in A : x <= y
  BY <1>5
<1> QED
  BY <1>6

(* The smallest element of a set of numbers.                               *)

(* Sets of positions are finite.                                           *)
LEMMA FiniteRange ==
    ASSUME NEW m \in Nat, NEW K, K \subseteq 1..m
    PROVE  IsFiniteSet(K) /\ Cardinality(K) \in Nat
<1>1. IsFiniteSet(1..m)
  BY FS_Interval
<1>2. IsFiniteSet(K)
  BY <1>1, FS_Subset
<1> QED
  BY <1>2, FS_CardinalityType

(* Counting upwards, each number up to the size of a set is reached at an  *)
(* element of it.                                                          *)
LEMMA NthExists ==
    ASSUME NEW m \in Nat, NEW K \in SUBSET (1..m), NEW n \in 1..Cardinality(K)
    PROVE  \E i \in K : Cardinality({j \in K : j <= i}) = n
<1> DEFINE Upto(i) == {j \in K : j <= i}
           A == {i \in 0..m : Cardinality(Upto(i)) >= n}
<1>0. K \subseteq 1..m
  OBVIOUS
<1>1. IsFiniteSet(K) /\ Cardinality(K) \in Nat
  BY FiniteRange, <1>0
<1>2. ASSUME NEW i
      PROVE  IsFiniteSet(Upto(i)) /\ Cardinality(Upto(i)) \in Nat
  BY <1>1, FS_Subset, FS_CardinalityType
<1> HIDE DEF Upto, A
<1>3. A \in SUBSET Nat /\ A # {}
  <2>1. \A j \in K : j <= m
    BY <1>0
  <2>2. Upto(m) = K
    BY <2>1 DEF Upto
  <2>3. Cardinality(Upto(m)) >= n
    BY <1>1, <2>2
  <2>4. m \in A
    BY <2>3 DEF A
  <2>5. A \subseteq Nat
    BY DEF A
  <2> QED
    BY <2>4, <2>5
<1>a. \A i \in 0..m : i \in A <=> Cardinality(Upto(i)) >= n
  BY DEF A
<1>b. A \subseteq 0..m
  BY DEF A
<1>4. PICK x \in A : \A y \in A : x <= y
  BY <1>3, SmallestNat
<1>5. x # 0
  <2>1. \A j \in K : ~ (j <= 0)
    BY <1>0
  <2>2. Upto(0) = {}
    BY <2>1 DEF Upto
  <2>3. ~ (Cardinality(Upto(0)) >= n)
    BY <2>2, <1>1, FS_EmptySet
  <2> QED
    BY <2>3, <1>4, <1>a
<1>6. x \in 0..m /\ x - 1 \in 0..m /\ x - 1 \notin A
  BY <1>4, <1>5, <1>b
<1>7. Cardinality(Upto(x - 1)) < n
  <2>1. PICK d \in Nat : d = Cardinality(Upto(x - 1))
    BY <1>2
  <2>2. ~ (d >= n)
    BY <2>1, <1>6, <1>a
  <2> QED
    BY <2>1, <2>2, <1>1
<1>8. Upto(x) = IF x \in K THEN Upto(x - 1) \union {x} ELSE Upto(x - 1)
  <2>1. \A j \in K : j <= x <=> j <= x - 1 \/ j = x
    BY <1>0, <1>6
  <2> QED
    BY <2>1 DEF Upto
<1>c. Cardinality(Upto(x)) >= n
  BY <1>4, <1>6, <1>a
<1>9. x \in K
  <2>1. PICK d \in Nat : d = Cardinality(Upto(x - 1))
    BY <1>2
  <2>2. x \notin K => d >= n /\ d < n
    BY <2>1, <1>7, <1>8, <1>c
  <2> QED
    BY <2>2, <1>1
<1>10. Cardinality(Upto(x)) = n
  <2>1. x \notin Upto(x - 1)
    BY <1>6, <1>4 DEF Upto
  <2>2. Cardinality(Upto(x)) = Cardinality(Upto(x - 1)) + 1
    BY <1>2, <1>8, <1>9, <2>1, FS_AddElement
  <2> QED
    BY <2>2, <1>2, <1>7, <1>c, <1>1
<1> QED
  BY <1>9, <1>10 DEF Upto

(* InOrder lists the positions, each once, upwards.                        *)
LEMMA InOrderProperties ==
    ASSUME NEW m \in Nat, NEW P \in SUBSET (1..m)
    PROVE  \E c \in Nat :
             /\ InOrder(P) \in [1..c -> P]
             /\ \A a, b \in 1..c : a < b => InOrder(P)[a] < InOrder(P)[b]
             /\ \A i \in P : \E a \in 1..c : InOrder(P)[a] = i
<1> DEFINE c == Cardinality(P)
           Upto(i) == {j \in P : j <= i}
           Nth(n) == CHOOSE i \in P : Cardinality(Upto(i)) = n
           o == InOrder(P)
<1>0. P \subseteq 1..m
  OBVIOUS
<1>1. IsFiniteSet(P) /\ c \in Nat
  BY FiniteRange, <1>0
<1>2. ASSUME NEW i
      PROVE  IsFiniteSet(Upto(i)) /\ Cardinality(Upto(i)) \in Nat /\ Cardinality(Upto(i)) <= c
  BY <1>1, FS_Subset, FS_CardinalityType
<1>3. ASSUME NEW n \in 1..c
      PROVE  Nth(n) \in P /\ Cardinality(Upto(Nth(n))) = n
  <2>1. \E i \in P : Cardinality(Upto(i)) = n
    BY NthExists
  <2> QED
    BY <2>1
<1>4. o = [n \in 1..c |-> Nth(n)]
  BY DEF InOrder
<1> HIDE DEF Nth, c, o
<1>5. /\ o \in [1..c -> P]
      /\ \A n \in 1..c : o[n] \in 1..m /\ Cardinality(Upto(o[n])) = n
  BY <1>0, <1>3, <1>4
<1>6. ASSUME NEW i \in P, NEW k \in P, i < k
      PROVE  Cardinality(Upto(i)) < Cardinality(Upto(k))
  <2>1. Upto(i) \in SUBSET Upto(k)
    <3>1. \A j \in P : j <= i => j <= k
      BY <1>6, <1>0
    <3> QED
      BY <3>1
  <2>2. k \in Upto(k) /\ k \notin Upto(i)
    BY <1>6, <1>0
  <2>3. /\ Cardinality(Upto(i)) <= Cardinality(Upto(k))
        /\ Cardinality(Upto(i)) # Cardinality(Upto(k))
    <3> HIDE DEF Upto
    <3> QED
      BY <2>1, <2>2, <1>2, FS_Subset
  <2>4. Cardinality(Upto(i)) \in Nat /\ Cardinality(Upto(k)) \in Nat
    BY <1>2
  <2> QED
    BY <2>3, <2>4
<1>7. ASSUME NEW a \in 1..c, NEW b \in 1..c, a < b
      PROVE  o[a] < o[b]
  <2> SUFFICES ASSUME ~ (o[a] < o[b]) PROVE FALSE
    OBVIOUS
  <2>1. o[a] \in P /\ o[b] \in P /\ o[a] \in 1..m /\ o[b] \in 1..m
    BY <1>5
  <2>2. o[b] = o[a] \/ o[b] < o[a]
    BY <2>1
  <2>3. Cardinality(Upto(o[a])) = a /\ Cardinality(Upto(o[b])) = b
    BY <1>5
  <2>4. b = a \/ b < a
    BY <2>1, <2>2, <2>3, <1>6
  <2> QED
    BY <2>4, <1>7, <1>1
<1>8. ASSUME NEW i \in P
      PROVE  \E a \in 1..c : o[a] = i
  <2> DEFINE a == Cardinality(Upto(i))
  <2>1. a \in 1..c
    <3>1. i \in Upto(i)
      BY <1>0
    <3>2. a # 0
      <4> HIDE DEF Upto
      <4> QED
        BY <3>1, <1>2, FS_EmptySet
    <3>3. a \in Nat /\ a <= c
      BY <1>2
    <3> HIDE DEF a
    <3> QED
      BY <3>2, <3>3, <1>1
  <2>2. o[a] \in P /\ Cardinality(Upto(o[a])) = a
    BY <2>1, <1>5
  <2>3. ~ (o[a] < i) /\ ~ (i < o[a])
    <3>1. a \in Nat /\ ~ (a < a)
      BY <1>2
    <3>2. Cardinality(Upto(i)) = a
      OBVIOUS
    <3> HIDE DEF a, Upto
    <3> QED
      BY <2>2, <3>1, <3>2, <1>6
  <2>4. o[a] = i
    <3> HIDE DEF a
    <3>1. o[a] \in 1..m /\ i \in 1..m
      BY <2>2, <1>0
    <3> QED
      BY <3>1, <2>3
  <2> QED
    BY <2>1, <2>4
<1> QED
  BY <1>1, <1>5, <1>7, <1>8 DEF o

(* Two lists of the same numbers upwards: the first is a beginning of the  *)
(* second.                                                                 *)
LEMMA SameStart ==
    ASSUME NEW n \in Nat, NEW k \in Nat,
           NEW f \in [1..n -> Nat], NEW g \in [1..k -> Nat],
           \A a, b \in 1..n : a < b => f[a] < f[b],
           \A a, b \in 1..k : a < b => g[a] < g[b],
           \A a \in 1..n : \E b \in 1..k : f[a] = g[b],
           \A b \in 1..k : \E a \in 1..n : f[a] = g[b]
    PROVE  n <= k /\ \A a \in 1..n : f[a] = g[a]
<1> DEFINE A == {i \in 1..n : ~ (i <= k /\ f[i] = g[i])}
<1>0. A \in SUBSET Nat /\ \A i \in 1..n : i \in A <=> ~ (i <= k /\ f[i] = g[i])
  <2>1. \A i \in 1..n : i \in A <=> ~ (i <= k /\ f[i] = g[i])
    BY Zenon
  <2>2. A \subseteq 1..n
    BY Zenon
  <2> QED
    BY <2>1, <2>2
<1>s. A \subseteq 1..n
  OBVIOUS
<1> HIDE DEF A
<1>1. ASSUME A # {} PROVE FALSE
  <2>1. PICK x \in A : \A y \in A : x <= y
    BY <1>0, <1>1, SmallestNat
  <2>3. x \in 1..n
    BY <1>s
  <2>2. \A j \in 1..n : j < x => j <= k /\ f[j] = g[j]
    <3>1. \A y \in A : x <= y
      BY <2>1, Zenon
    <3>2. \A j \in 1..n : j < x => ~ (x <= j)
      BY <2>3
    <3>3. \A j \in 1..n : j < x => j \notin A
      BY <3>1, <3>2, Zenon
    <3> QED
      BY <1>0, <3>3, Zenon
  <2>4. PICK j \in 1..k : f[x] = g[j]
    BY <2>3
  <2>5. ~ (j < x)
    <3> SUFFICES ASSUME j < x PROVE FALSE
      OBVIOUS
    <3>1. j \in 1..n /\ f[j] = g[j]
      BY <2>2, <2>3
    <3>2. f[j] < f[x]
      BY <3>1, <2>3
    <3>3. f[x] \in Nat
      BY <2>3
    <3> QED
      BY <3>1, <3>2, <3>3, <2>4
  <2>6. x <= k /\ f[x] # g[x] /\ x \in 1..k
    BY <2>5, <2>3, <1>0
  <2>7. x < j
    BY <2>4, <2>5, <2>6
  <2>8. g[x] < f[x]
    BY <2>4, <2>6, <2>7
  <2>9. PICK h \in 1..n : f[h] = g[x]
    BY <2>6
  <2>10. ~ (h < x)
    <3> SUFFICES ASSUME h < x PROVE FALSE
      OBVIOUS
    <3>1. h \in 1..k /\ f[h] = g[h]
      BY <2>2, <2>6
    <3>2. g[h] < g[x]
      BY <3>1, <2>6
    <3>3. g[x] \in Nat /\ ~ (g[x] < g[x])
      BY <2>6
    <3>4. g[h] = g[x]
      BY <3>1, <2>9
    <3> QED
      BY <3>2, <3>3, <3>4
  <2>11. x < h
    BY <2>6, <2>9, <2>10
  <2>12. f[x] < f[h]
    BY <2>3, <2>11
  <2>13. f[x] \in Nat /\ g[x] \in Nat
    BY <2>3, <2>6
  <2>14. f[x] < g[x]
    BY <2>9, <2>12
  <2> QED
    BY <2>8, <2>13, <2>14
<1>2. \A i \in 1..n : i <= k /\ f[i] = g[i]
  BY <1>0, <1>1
<1>3. n <= k
  <2>1. n = 0 \/ n \in 1..n
    OBVIOUS
  <2> QED
    BY <2>1, <1>2
<1> QED
  BY <1>2, <1>3

-----------------------------------------------------------------------------
(* Where a text is cut: before its beginning, at every separator and       *)
(* behind its end.                                                         *)
Cuts(s, separator, n, c) ==
    /\ n \in Nat
    /\ c \in [0..(n + 1) -> Nat]
    /\ c[0] = 0 /\ c[n + 1] = Len(s) + 1
    /\ \A a, b \in 0..(n + 1) : a < b => c[a] < c[b]
    /\ \A k \in 1..n : c[k] \in 1..Len(s) /\ s[c[k]] = separator
    /\ \A i \in 1..Len(s) : s[i] = separator => \E k \in 1..n : c[k] = i

(* The pieces between the cuts, without an empty one at the end.           *)
Pieces(s, n, c) ==
    [k \in 1..(IF c[n] = Len(s) THEN n ELSE n + 1) |-> SubSeq(s, c[k - 1] + 1, c[k] - 1)]

(* Split cuts at the separators and drops an empty piece at the end.       *)
LEMMA SplitCuts ==
    ASSUME NEW S, NEW s \in Seq(S), NEW separator
    PROVE  \E n, c : Cuts(s, separator, n, c) /\ Split(s, separator) = Pieces(s, n, c)
<1> DEFINE P == {i \in DOMAIN s : s[i] = separator}
           ends == InOrder(P)
           cuts == <<0>> \o ends \o <<Len(s) + 1>>
           piece(k) == SubSeq(s, cuts[k] + 1, cuts[k + 1] - 1)
           last == Len(cuts) - 1
<1>0. PICK m \in Nat : m = Len(s) /\ DOMAIN s = 1..m
  BY LenProperties
<1>1. P \in SUBSET (1..m) /\ P \subseteq 1..m /\ \A i \in 1..m : i \in P <=> s[i] = separator
  BY <1>0
<1>2. PICK n \in Nat :
        /\ ends \in [1..n -> P]
        /\ \A a, b \in 1..n : a < b => ends[a] < ends[b]
        /\ \A i \in P : \E a \in 1..n : ends[a] = i
  <2> HIDE DEF P
  <2> QED
    BY <1>1, InOrderProperties
<1>3. Split(s, separator) = [k \in 1..(IF piece(last) = <<>> THEN last - 1 ELSE last) |-> piece(k)]
  BY DEF Split
<1> HIDE DEF ends, P
<1>4. /\ ends \in Seq(Nat) /\ Len(ends) = n
      /\ \A a \in 1..n : ends[a] \in P /\ ends[a] \in 1..m /\ ends[a] \in Nat
  <2>1. \A a \in 1..n : ends[a] \in P /\ ends[a] \in 1..m /\ ends[a] \in Nat
    <3> TAKE a \in 1..n
    <3>1. ends[a] \in P
      BY <1>2
    <3>2. ends[a] \in 1..m
      BY <3>1, <1>1
    <3> QED
      BY <3>1, <3>2
  <2>2. ends \in [1..n -> Nat]
    BY <1>2, <2>1
  <2> QED
    BY <2>1, <2>2
<1>5. /\ cuts \in Seq(Nat) /\ Len(cuts) = n + 2
      /\ cuts[1] = 0 /\ cuts[n + 2] = m + 1
      /\ \A a \in 1..n : cuts[a + 1] = ends[a]
  <2>1. <<0>> \in Seq(Nat) /\ Len(<<0>>) = 1 /\ <<0>>[1] = 0
    OBVIOUS
  <2>2. /\ <<0>> \o ends \in Seq(Nat) /\ Len(<<0>> \o ends) = n + 1
        /\ (<<0>> \o ends)[1] = 0
        /\ \A a \in 1..n : (<<0>> \o ends)[a + 1] = ends[a]
    BY <1>4, PrependProperties
  <2> DEFINE q == <<0>> \o ends
  <2>3. m + 1 \in Nat /\ cuts = Append(q, m + 1)
    BY <1>0, <2>2, AppendIsConcat
  <2> HIDE DEF q, cuts
  <2>4. q \in Seq(Nat) /\ Len(q) = n + 1 /\ q[1] = 0 /\ \A a \in 1..n : q[a + 1] = ends[a]
    BY <2>2 DEF q
  <2>5. /\ cuts \in Seq(Nat) /\ Len(cuts) = (n + 1) + 1
        /\ \A a \in 1..(n + 1) : cuts[a] = q[a]
        /\ cuts[(n + 1) + 1] = m + 1
    BY <2>3, <2>4, AppendProperties
  <2>6. 1 \in 1..(n + 1) /\ \A a \in 1..n : a + 1 \in 1..(n + 1)
    OBVIOUS
  <2>7. (n + 1) + 1 = n + 2
    OBVIOUS
  <2> QED
    BY <2>4, <2>5, <2>6, <2>7
<1> HIDE DEF cuts
<1> DEFINE c == [k \in 0..(n + 1) |-> cuts[k + 1]]
<1>6. /\ \A k \in 0..(n + 1) : c[k] = cuts[k + 1]
      /\ c[0] = 0 /\ c[n + 1] = m + 1
      /\ \A k \in 1..n : c[k] = ends[k] /\ c[k] \in 1..m
  <2>1. \A k \in 0..(n + 1) : c[k] = cuts[k + 1]
    OBVIOUS
  <2>2. 0 \in 0..(n + 1) /\ n + 1 \in 0..(n + 1) /\ 0 + 1 = 1 /\ (n + 1) + 1 = n + 2
    OBVIOUS
  <2>3. c[0] = 0 /\ c[n + 1] = m + 1
    BY <2>1, <2>2, <1>5
  <2>4. \A k \in 1..n : c[k] = ends[k] /\ c[k] \in 1..m
    <3> TAKE k \in 1..n
    <3>1. k \in 0..(n + 1)
      OBVIOUS
    <3>2. c[k] = ends[k]
      BY <3>1, <2>1, <1>5
    <3> QED
      BY <3>2, <1>4
  <2> QED
    BY <2>1, <2>3, <2>4
<1>7. c \in [0..(n + 1) -> Nat]
  <2>1. \A k \in 0..(n + 1) : k = 0 \/ k = n + 1 \/ k \in 1..n
    OBVIOUS
  <2>2. \A k \in 0..(n + 1) : c[k] \in Nat
    <3> HIDE DEF c
    <3>1. 0 \in Nat /\ m + 1 \in Nat /\ \A x \in 1..m : x \in Nat
      OBVIOUS
    <3>2. c[0] \in Nat /\ c[n + 1] \in Nat /\ \A k \in 1..n : c[k] \in Nat
      BY <3>1, <1>6
    <3> QED
      BY <2>1, <3>2
  <2> QED
    BY <2>2
<1> HIDE DEF c
<1>8. \A a, b \in 0..(n + 1) : a < b => c[a] < c[b]
  <2> SUFFICES ASSUME NEW a \in 0..(n + 1), NEW b \in 0..(n + 1), a < b
               PROVE  c[a] < c[b]
    OBVIOUS
  <2>1. CASE a = 0
    <3>1. b \in 1..n \/ b = n + 1
      BY <2>1
    <3> QED
      BY <3>1, <2>1, <1>6
  <2>2. CASE a # 0 /\ b = n + 1
    <3>1. a \in 1..n
      BY <2>2
    <3> QED
      BY <3>1, <2>2, <1>6
  <2>3. CASE a # 0 /\ b # n + 1
    <3>1. a \in 1..n /\ b \in 1..n
      BY <2>3
    <3> QED
      BY <3>1, <1>6, <1>2
  <2> QED
    BY <2>1, <2>2, <2>3
<1>9. Cuts(s, separator, n, c)
  <2>1. \A k \in 1..n : c[k] \in 1..Len(s) /\ s[c[k]] = separator
    BY <1>0, <1>1, <1>4, <1>6
  <2>2. \A i \in 1..Len(s) : s[i] = separator => \E k \in 1..n : c[k] = i
    BY <1>0, <1>1, <1>2, <1>6
  <2> QED
    BY <2>1, <2>2, <1>0, <1>6, <1>7, <1>8 DEF Cuts
<1>10. last = n + 1 /\ \A k \in 1..(n + 1) : piece(k) = SubSeq(s, c[k - 1] + 1, c[k] - 1)
  <2>1. \A k \in 1..(n + 1) : k - 1 \in 0..(n + 1) /\ k \in 0..(n + 1) /\ (k - 1) + 1 = k
    OBVIOUS
  <2>2. \A k \in 1..(n + 1) : c[k - 1] = cuts[k] /\ c[k] = cuts[k + 1]
    BY <2>1, <1>6
  <2>3. last = n + 1
    BY <1>5
  <2>4. \A k \in 1..(n + 1) : piece(k) = SubSeq(s, c[k - 1] + 1, c[k] - 1)
    BY <2>2
  <2> QED
    BY <2>3, <2>4
<1> HIDE DEF piece, last
<1>11. piece(last) = <<>> <=> c[n] = Len(s)
  <2>1. n + 1 \in 1..(n + 1) /\ (n + 1) - 1 = n
    OBVIOUS
  <2>2. piece(last) = SubSeq(s, c[n] + 1, m)
    BY <2>1, <1>6, <1>10, <1>0
  <2>3. c[n] \in 0..m
    BY <1>6
  <2>4. c[n] = m => SubSeq(s, c[n] + 1, m) = <<>>
    BY <2>3, SubSeqEmpty
  <2>5. \A i \in (c[n] + 1)..m : s[i] \in S
    BY <2>3, <1>0, ElementOfSeq
  <2>6. Len(SubSeq(s, c[n] + 1, m)) = IF c[n] + 1 <= m THEN m - (c[n] + 1) + 1 ELSE 0
    BY <2>3, <2>5, SubSeqProperties
  <2>7. c[n] # m => Len(SubSeq(s, c[n] + 1, m)) # 0
    BY <2>3, <2>6
  <2>8. Len(<<>>) = 0
    OBVIOUS
  <2> QED
    BY <2>2, <2>4, <2>7, <2>8, <1>0
<1>12. Split(s, separator) = Pieces(s, n, c)
  <2>1. CASE c[n] = Len(s)
    <3>1. Split(s, separator) = [k \in 1..n |-> piece(k)]
      BY <2>1, <1>3, <1>10, <1>11
    <3>2. Pieces(s, n, c) = [k \in 1..n |-> SubSeq(s, c[k - 1] + 1, c[k] - 1)]
      BY <2>1 DEF Pieces
    <3>3. \A k \in 1..n : piece(k) = SubSeq(s, c[k - 1] + 1, c[k] - 1)
      BY <1>10
    <3> QED
      BY <3>1, <3>2, <3>3
  <2>2. CASE c[n] # Len(s)
    <3>1. Split(s, separator) = [k \in 1..(n + 1) |-> piece(k)]
      BY <2>2, <1>3, <1>10, <1>11
    <3>2. Pieces(s, n, c) = [k \in 1..(n + 1) |-> SubSeq(s, c[k - 1] + 1, c[k] - 1)]
      BY <2>2 DEF Pieces
    <3> QED
      BY <3>1, <3>2, <1>10
  <2> QED
    BY <2>1, <2>2
<1> QED
  BY <1>9, <1>12

(* There is one way to cut a text.                                         *)
LEMMA CutsUnique ==
    ASSUME NEW s, NEW separator, NEW n, NEW c, NEW k, NEW d,
           Cuts(s, separator, n, c), Cuts(s, separator, k, d)
    PROVE  n = k /\ c = d
<1> DEFINE f == [i \in 1..n |-> c[i]]
           g == [i \in 1..k |-> d[i]]
<1>1. n \in Nat /\ k \in Nat /\ c \in [0..(n + 1) -> Nat] /\ d \in [0..(k + 1) -> Nat]
  BY DEF Cuts
<1>2. /\ \A i \in 1..n : i \in 0..(n + 1)
      /\ \A i \in 1..k : i \in 0..(k + 1)
  BY <1>1
<1>3. /\ f \in [1..n -> Nat] /\ g \in [1..k -> Nat]
      /\ \A i \in 1..n : f[i] = c[i]
      /\ \A i \in 1..k : g[i] = d[i]
  BY <1>1, <1>2
<1> HIDE DEF f, g
<1>4. /\ \A a, b \in 1..n : a < b => f[a] < f[b]
      /\ \A a, b \in 1..k : a < b => g[a] < g[b]
  BY <1>2, <1>3 DEF Cuts
<1>5. /\ \A a \in 1..n : \E b \in 1..k : f[a] = g[b]
      /\ \A b \in 1..k : \E a \in 1..n : f[a] = g[b]
  <2>1. \A a \in 1..n : \E b \in 1..k : c[a] = d[b]
    BY DEF Cuts
  <2>2. \A b \in 1..k : \E a \in 1..n : c[a] = d[b]
    BY DEF Cuts
  <2>3. \A a \in 1..n : \E b \in 1..k : f[a] = g[b]
    <3> TAKE a \in 1..n
    <3>1. PICK b \in 1..k : c[a] = d[b]
      BY <2>1
    <3>2. f[a] = g[b]
      BY <3>1, <1>3
    <3> QED
      BY <3>2
  <2>4. \A b \in 1..k : \E a \in 1..n : f[a] = g[b]
    <3> TAKE b \in 1..k
    <3>1. PICK a \in 1..n : c[a] = d[b]
      BY <2>2
    <3>2. f[a] = g[b]
      BY <3>1, <1>3
    <3> QED
      BY <3>2
  <2> QED
    BY <2>3, <2>4
<1>6. n <= k /\ \A a \in 1..n : f[a] = g[a]
  BY <1>1, <1>3, <1>4, <1>5, SameStart
<1>7. k <= n
  <2>1. /\ \A a \in 1..k : \E b \in 1..n : g[a] = f[b]
        /\ \A b \in 1..n : \E a \in 1..k : g[a] = f[b]
    BY <1>5
  <2> QED
    BY <1>1, <1>3, <1>4, <2>1, SameStart
<1>8. n = k
  BY <1>1, <1>6, <1>7
<1>9. \A i \in 0..(n + 1) : c[i] = d[i]
  <2>1. c[0] = d[0] /\ c[n + 1] = d[n + 1]
    BY <1>8 DEF Cuts
  <2>2. \A i \in 0..(n + 1) : i = 0 \/ i = n + 1 \/ i \in 1..n
    BY <1>1
  <2>3. \A i \in 1..n : c[i] = d[i]
    BY <1>3, <1>6, <1>8
  <2> QED
    BY <2>1, <2>2, <2>3
<1> QED
  BY <1>1, <1>8, <1>9

(* So Split is known from any cuts one can name.                           *)
LEMMA SplitIs ==
    ASSUME NEW S, NEW s \in Seq(S), NEW separator, NEW n, NEW c,
           Cuts(s, separator, n, c)
    PROVE  Split(s, separator) = Pieces(s, n, c)
<1>1. PICK k, d : Cuts(s, separator, k, d) /\ Split(s, separator) = Pieces(s, k, d)
  BY SplitCuts
<1> QED
  BY <1>1, CutsUnique

-----------------------------------------------------------------------------
(* FlattenSeq is defined by recursion: there is such a function.           *)
LEMMA FlattenExists ==
    ASSUME NEW n \in Nat, NEW q
    PROVE  \E f : f = [i \in 1..n |-> IF i = 1 THEN q[i] ELSE f[i - 1] \o q[i]]
<1> DEFINE G(k, f) == f = [i \in 1..k |-> IF i = 1 THEN q[i] ELSE f[i - 1] \o q[i]]
           A == {k \in Nat : ~ (\E f : G(k, f))}
<1>1. ASSUME A # {} PROVE FALSE
  <2>1. A \in SUBSET Nat /\ A # {} /\ \A k \in Nat : k \in A <=> ~ (\E f : G(k, f))
    BY <1>1
  <2> HIDE DEF A
  <2>2. PICK x \in A : \A y \in A : x <= y
    BY <2>1, SmallestNat
  <2>3. x \in Nat /\ ~ (\E f : G(x, f))
    BY <2>1
  <2>4. x # 0
    <3>1. 1..0 = {}
      OBVIOUS
    <3>2. G(0, [i \in 1..0 |-> 0])
      BY <3>1
    <3> QED
      BY <2>3, <3>2
  <2>5. x - 1 \in Nat /\ x - 1 \notin A
    BY <2>2, <2>3, <2>4
  <2>6. PICK f : G(x - 1, f)
    BY <2>1, <2>5
  <2> DEFINE g == [i \in 1..x |-> IF i = x THEN (IF x = 1 THEN q[1] ELSE f[x - 1] \o q[x])
                                           ELSE f[i]]
             h == [i \in 1..x |-> IF i = 1 THEN q[i] ELSE g[i - 1] \o q[i]]
  <2>7. \A i \in 1..x : g[i] = h[i]
    <3> TAKE i \in 1..x
    <3>1. CASE i = x
      <4>1. x # 1 => x - 1 \in 1..x /\ x - 1 # x
        BY <2>3, <2>4
      <4> QED
        BY <3>1, <4>1
    <3>2. CASE i # x
      <4>1. i \in 1..(x - 1)
        BY <3>2, <2>3
      <4>2. f[i] = IF i = 1 THEN q[i] ELSE f[i - 1] \o q[i]
        BY <4>1, <2>6
      <4>3. i # 1 => i - 1 \in 1..x /\ i - 1 # x
        BY <4>1, <2>3
      <4> QED
        BY <3>2, <4>2, <4>3
    <3> QED
      BY <3>1, <3>2
  <2>8. G(x, g)
    <3>1. g = h
      BY <2>7
    <3> QED
      BY <3>1
  <2> QED
    BY <2>3, <2>8
<1> QED
  BY <1>1

(* s is the concatenation of the sequences of q, the k-th of which ends at *)
(* c[k].                                                                   *)
Flat(S, q, c, s) ==
    /\ s \in Seq(S)
    /\ Len(q) \in Nat /\ \A k \in 1..Len(q) : Len(q[k]) \in Nat
    /\ c \in [0..Len(q) -> Nat] /\ c[0] = 0 /\ Len(s) = c[Len(q)]
    /\ \A k \in 1..Len(q) : c[k] = c[k - 1] + Len(q[k])
    /\ \A k \in 1..Len(q) : \A i \in 1..Len(q[k]) : s[c[k - 1] + i] = q[k][i]

(* FlattenSeq concatenates.                                                *)
LEMMA FlattenIsFlat ==
    ASSUME NEW S, NEW q \in Seq(Seq(S))
    PROVE  \E c : Flat(S, q, c, FlattenSeq(q))
<1>0. PICK n \in Nat : n = Len(q) /\ DOMAIN q = 1..n
  BY LenProperties
<1>q. \A k \in 1..n : q[k] \in Seq(S) /\ Len(q[k]) \in Nat
  BY <1>0, ElementOfSeq, LenProperties
<1>1. CASE n = 0
  <2>1. q = <<>> /\ FlattenSeq(q) = <<>>
    BY <1>0, <1>1, EmptySeq DEF FlattenSeq
  <2> DEFINE c == [k \in 0..0 |-> 0]
  <2>2. c \in [0..0 -> Nat] /\ c[0] = 0
    OBVIOUS
  <2>3. <<>> \in Seq(S) /\ Len(<<>>) = 0
    OBVIOUS
  <2>4. 1..0 = {}
    OBVIOUS
  <2> HIDE DEF c
  <2>5. Flat(S, <<>>, c, <<>>)
    BY <2>2, <2>3, <2>4 DEF Flat
  <2> QED
    BY <2>1, <2>5
<1>2. CASE n # 0
  <2> DEFINE G(f) == f = [i \in 1..n |-> IF i = 1 THEN q[i] ELSE f[i - 1] \o q[i]]
             f == CHOOSE f : G(f)
  <2>1. \E g : G(g)
    BY FlattenExists
  <2>2. G(f)
    BY <2>1
  <2>3. FlattenSeq(q) = f[n]
    BY <1>0, <1>2 DEF FlattenSeq
  <2> HIDE DEF f
  <2>4. /\ f[1] = q[1]
        /\ \A k \in 2..n : f[k] = f[k - 1] \o q[k]
    <3>1. \A k \in 1..n : f[k] = IF k = 1 THEN q[k] ELSE f[k - 1] \o q[k]
      BY <2>2
    <3>2. 1 \in 1..n /\ \A k \in 2..n : k \in 1..n /\ k # 1
      BY <1>2
    <3> QED
      BY <3>1, <3>2
  <2> HIDE DEF G
  <2> DEFINE c == [k \in 0..n |-> IF k = 0 THEN 0 ELSE Len(f[k])]
             P(k) == /\ f[k] \in Seq(S)
                     /\ c[k - 1] \in Nat /\ c[k] = c[k - 1] + Len(q[k])
                     /\ \A j \in 1..k : \A i \in 1..Len(q[j]) :
                           /\ c[j - 1] + i \in 1..Len(f[k])
                           /\ f[k][c[j - 1] + i] = q[j][i]
             A == {k \in 1..n : ~ P(k)}
  <2>5. c[0] = 0 /\ \A k \in 1..n : c[k] = Len(f[k])
    <3>1. 0 \in 0..n /\ \A k \in 1..n : k \in 0..n /\ k # 0
      BY <1>0
    <3> QED
      BY <3>1
  <2>6. DOMAIN c = 0..n /\ c = [k \in 0..n |-> c[k]]
    OBVIOUS
  <2> HIDE DEF c
  <2>7. P(1)
    <3>1. f[1] \in Seq(S) /\ 1 \in 1..n /\ 1 - 1 = 0
      BY <2>4, <1>q, <1>2
    <3>2. c[0] = 0 /\ c[1] = Len(q[1]) /\ Len(q[1]) \in Nat
      BY <3>1, <2>4, <2>5, <1>q
    <3>3. \A j \in 1..1 : j = 1
      OBVIOUS
    <3>4. \A i \in 1..Len(q[1]) : c[0] + i = i
      BY <3>2
    <3>5. \A i \in 1..Len(q[1]) : c[0] + i \in 1..Len(f[1]) /\ f[1][c[0] + i] = q[1][i]
      BY <3>2, <3>4, <2>4
    <3>6. c[1] = c[0] + Len(q[1])
      BY <3>2
    <3> QED
      BY <3>1, <3>2, <3>3, <3>5, <3>6
  <2> HIDE DEF P
  <2>8. ASSUME NEW k \in 2..n, P(k - 1)
        PROVE  P(k)
    <3>0. k \in 1..n /\ k - 1 \in 1..n /\ (k - 1) - 1 \in 0..n
      OBVIOUS
    <3>a. PICK u, v, w : u = f[k - 1] /\ v = q[k] /\ w = f[k]
      OBVIOUS
    <3>1. w = u \o v /\ u \in Seq(S) /\ v \in Seq(S)
      BY <3>a, <2>4, <2>8, <3>0, <1>q DEF P
    <3>b. PICK g \in Nat, h \in Nat : g = Len(u) /\ h = Len(v)
      BY <3>1, LenProperties
    <3>2. /\ w \in Seq(S) /\ Len(w) = g + h
          /\ \A i \in 1..(g + h) : w[i] = IF i <= g THEN u[i] ELSE v[i - g]
      BY <3>1, <3>b, ConcatProperties
    <3>3. c[k - 1] = g /\ c[k] = g + h /\ Len(q[k]) = h
      BY <3>0, <3>a, <3>b, <3>2, <2>5
    <3>4. \A j \in 1..k : \A i \in 1..Len(q[j]) :
             c[j - 1] + i \in 1..Len(w) /\ w[c[j - 1] + i] = q[j][i]
      <4> TAKE j \in 1..k
      <4> TAKE i \in 1..Len(q[j])
      <4>1. CASE j = k
        <5>1. i \in 1..h
          BY <4>1, <3>3
        <5>2. g + i \in 1..(g + h) /\ ~ (g + i <= g) /\ (g + i) - g = i
          BY <5>1
        <5>3. w[g + i] = v[i]
          BY <5>2, <3>2
        <5> QED
          BY <4>1, <5>2, <5>3, <3>2, <3>3, <3>a
      <4>2. CASE j # k
        <5>1. j \in 1..(k - 1)
          BY <4>2, <3>0
        <5>2. c[j - 1] + i \in 1..g /\ u[c[j - 1] + i] = q[j][i]
          BY <5>1, <2>8, <3>a, <3>b DEF P
        <5>3. PICK p \in 1..g : p = c[j - 1] + i
          BY <5>2
        <5>4. p \in 1..(g + h) /\ p <= g
          OBVIOUS
        <5>5. w[p] = u[p]
          BY <5>4, <3>2
        <5> QED
          BY <5>2, <5>3, <5>4, <5>5, <3>2
      <4> QED
        BY <4>1, <4>2
    <3> QED
      BY <3>2, <3>3, <3>4, <3>a DEF P
  <2>9. ASSUME A # {} PROVE FALSE
    <3>s. A \subseteq 1..n /\ \A k \in 1..n : k \in A <=> ~ P(k)
      BY Zenon
    <3> HIDE DEF A
    <3>1. A \in SUBSET Nat /\ A \subseteq 1..n /\ \A k \in 1..n : k \in A <=> ~ P(k)
      BY <3>s
    <3>2. PICK x \in A : \A y \in A : x <= y
      BY <2>9, <3>1, SmallestNat
    <3>3. x \in 1..n /\ ~ P(x)
      BY <3>1
    <3>4. x # 1
      BY <3>3, <2>7
    <3>5. x \in 2..n /\ x - 1 \in 1..n /\ ~ (x <= x - 1)
      BY <3>3, <3>4
    <3>6. P(x - 1)
      BY <3>1, <3>2, <3>5
    <3> QED
      BY <2>8, <3>3, <3>5, <3>6
  <2>10. \A k \in 1..n : P(k)
    BY <2>9, Zenon
  <2>a. n \in 1..n
    BY <1>2
  <2>11. n \in 1..n /\ P(n)
    BY <2>a, <2>10, Zenon
  <2> HIDE DEF A
  <2>12. c \in [0..n -> Nat]
    <3>1. \A k \in 1..n : f[k] \in Seq(S)
      BY <2>10 DEF P
    <3>2. \A k \in 1..n : c[k] \in Nat
      BY <3>1, <2>5, LenProperties
    <3>3. \A k \in 0..n : k = 0 \/ k \in 1..n
      OBVIOUS
    <3>4. \A k \in 0..n : c[k] \in Nat
      BY <3>2, <3>3, <2>5
    <3> QED
      BY <3>4, <2>6
  <2>13. \A k \in 1..n : c[k] = c[k - 1] + Len(q[k])
    BY <2>10 DEF P
  <2>14. Flat(S, q, c, f[n])
    <3>1. f[n] \in Seq(S) /\ c[n] = Len(f[n])
      BY <2>5, <2>11 DEF P
    <3>2. \A k \in 1..n : \A i \in 1..Len(q[k]) : f[n][c[k - 1] + i] = q[k][i]
      BY <2>11 DEF P
    <3> QED
      BY <3>1, <3>2, <2>5, <2>12, <2>13, <1>0, <1>q DEF Flat
  <2> QED
    BY <2>3, <2>14
<1> QED
  BY <1>1, <1>2

(* What goes up at every step goes up.                                     *)
LEMMA StepsUp ==
    ASSUME NEW n \in Nat, NEW c \in [0..n -> Nat],
           \A k \in 1..n : c[k - 1] < c[k]
    PROVE  \A a, b \in 0..n : a < b => c[a] < c[b]
<1> SUFFICES ASSUME NEW a \in 0..n PROVE \A b \in 0..n : a < b => c[a] < c[b]
  OBVIOUS
<1> DEFINE A == {b \in 0..n : ~ (a < b => c[a] < c[b])}
<1>1. ASSUME A # {} PROVE FALSE
  <2>1. A \subseteq 0..n /\ \A b \in 0..n : b \in A <=> ~ (a < b => c[a] < c[b])
    BY Zenon
  <2> HIDE DEF A
  <2>2. A \in SUBSET Nat
    BY <2>1
  <2>3. PICK x \in A : \A y \in A : x <= y
    BY <1>1, <2>2, SmallestNat
  <2>4. x \in 0..n /\ ~ (a < x => c[a] < c[x])
    BY <2>1, Zenon
  <2>5. a < x
    BY <2>4, Zenon
  <2>6. x - 1 \in 0..n /\ x \in 1..n /\ ~ (x <= x - 1)
    BY <2>4, <2>5
  <2>7. x - 1 \notin A
    BY <2>3, <2>6
  <2>8. a < x - 1 => c[a] < c[x - 1]
    BY <2>1, <2>6, <2>7, Zenon
  <2>9. a = x - 1 \/ a < x - 1
    BY <2>4, <2>5
  <2>10. c[x - 1] < c[x] /\ c[x - 1] \in Nat /\ c[x] \in Nat /\ c[a] \in Nat
    BY <2>4, <2>6
  <2>11. c[a] < c[x]
    <3>1. CASE a = x - 1
      BY <3>1, <2>10
    <3>2. CASE a < x - 1
      <4>1. c[a] < c[x - 1]
        BY <3>2, <2>8
      <4> QED
        BY <4>1, <2>10
    <3> QED
      BY <3>1, <3>2, <2>9
  <2> QED
    BY <2>4, <2>11
<1> QED
  BY <1>1

(* Every position of a concatenation is in one of its parts.               *)
LEMMA FlatPlace ==
    ASSUME NEW S, NEW q, NEW c, NEW s, Flat(S, q, c, s)
    PROVE  \A p \in 1..Len(s) :
             \E k \in 1..Len(q) : \E i \in 1..Len(q[k]) : p = c[k - 1] + i
<1> TAKE p \in 1..Len(s)
<1>0. PICK n \in Nat : n = Len(q)
  BY DEF Flat
<1> DEFINE A == {k \in 0..n : p <= c[k]}
<1>1. A \in SUBSET Nat /\ A \subseteq 0..n /\ \A k \in 0..n : k \in A <=> p <= c[k]
  BY <1>0
<1>2. n \in A
  BY <1>0 DEF Flat
<1> HIDE DEF A
<1>3. PICK x \in A : \A y \in A : x <= y
  BY <1>1, <1>2, SmallestNat
<1>4. x \in 0..n /\ p <= c[x]
  BY <1>1
<1>5. p \in Nat /\ p > 0 /\ c \in [0..n -> Nat] /\ c[0] = 0
  BY <1>0 DEF Flat
<1>6. x # 0
  BY <1>4, <1>5
<1>7. x \in 1..n /\ x - 1 \in 0..n /\ ~ (x <= x - 1)
  BY <1>4, <1>6
<1>8. x - 1 \notin A
  BY <1>3, <1>7
<1>9. ~ (p <= c[x - 1])
  BY <1>1, <1>7, <1>8
<1>10. c[x] = c[x - 1] + Len(q[x]) /\ Len(q[x]) \in Nat /\ c[x - 1] \in Nat
  <2>2. Len(q[x]) \in Nat
    BY <1>0, <1>7 DEF Flat
  <2> QED
    BY <2>2, <1>0, <1>5, <1>7 DEF Flat
<1>11. p - c[x - 1] \in 1..Len(q[x]) /\ p = c[x - 1] + (p - c[x - 1])
  BY <1>4, <1>5, <1>9, <1>10
<1> QED
  BY <1>0, <1>7, <1>11

-----------------------------------------------------------------------------
(* A name of a file is any text without separators; a manifest lists names *)
(* level by level.                                                         *)
Chars == Int \ {NL, SEMICOLON}
Names == Seq(Chars) \ {<<>>}
Manifests == Seq(Seq(Names))

(* The line of a level: no NL but the last character, every semicolon      *)
(* behind a name.                                                          *)
IsLine(e) ==
    /\ e \in Seq(Int)
    /\ Len(e) \in Nat \ {0}
    /\ e[Len(e)] = NL
    /\ \A i \in 1..(Len(e) - 1) : e[i] # NL
    /\ \A i \in 1..Len(e) : e[i] = SEMICOLON => i > 1 /\ e[i - 1] \in Chars

(* The characters of a name.                                               *)
LEMMA NameProperties ==
    ASSUME NEW s \in Names
    PROVE  s \in Seq(Int) /\ Len(s) \in Nat \ {0} /\ \A i \in 1..Len(s) : s[i] \in Chars
<1>1. s \in Seq(Chars) /\ s # <<>> /\ Chars \subseteq Int
  BY DEF Names, Chars
<1>2. s \in Seq(Int)
  BY <1>1, SeqMonotonic
<1>3. Len(s) \in Nat \ {0}
  BY <1>1, EmptySeq
<1>4. \A i \in 1..Len(s) : s[i] \in Chars
  BY <1>1, ElementOfSeq
<1> QED
  BY <1>2, <1>3, <1>4

(* A name with a semicolon behind it.                                      *)
LEMMA EndedProperties ==
    ASSUME NEW s \in Names
    PROVE  /\ s \o <<SEMICOLON>> \in Seq(Int)
           /\ Len(s \o <<SEMICOLON>>) = Len(s) + 1
           /\ \A i \in 1..Len(s) : (s \o <<SEMICOLON>>)[i] = s[i]
           /\ (s \o <<SEMICOLON>>)[Len(s) + 1] = SEMICOLON
<1>1. s \in Seq(Int) /\ SEMICOLON \in Int
  BY NameProperties DEF SEMICOLON
<1> HIDE DEF SEMICOLON
<1>2. s \o <<SEMICOLON>> = Append(s, SEMICOLON)
  BY <1>1, AppendIsConcat
<1> QED
  BY <1>1, <1>2, AppendProperties

(* EncodeLevel writes such a line, and Split finds the names in it again.  *)
LEMMA LevelText ==
    ASSUME NEW level \in Seq(Names)
    PROVE  /\ IsLine(EncodeLevel(level))
           /\ Split(SubSeq(EncodeLevel(level), 1, Len(EncodeLevel(level)) - 1), SEMICOLON) = level
<1>0. PICK n \in Nat : n = Len(level) /\ DOMAIN level = 1..n
  BY LenProperties
<1>n. \A k \in 1..n : level[k] \in Names
  BY <1>0, ElementOfSeq
<1> DEFINE q == [k \in DOMAIN level |-> level[k] \o <<SEMICOLON>>]
           line == FlattenSeq(q)
           e == EncodeLevel(level)
<1>1. e = IF line = <<>> THEN <<NL>> ELSE [line EXCEPT ![Len(line)] = NL]
  BY DEF EncodeLevel
<1>2. q \in Seq(Seq(Int)) /\ Len(q) = n
  <2>1. \A k \in 1..n : level[k] \o <<SEMICOLON>> \in Seq(Int)
    BY <1>n, EndedProperties
  <2>2. q = [k \in 1..n |-> level[k] \o <<SEMICOLON>>]
    BY <1>0
  <2>3. q \in [1..n -> Seq(Int)]
    BY <2>1, <2>2
  <2> HIDE DEF q
  <2> QED
    BY <2>3
<1>3. \A k \in 1..n : /\ Len(level[k]) \in Nat \ {0} /\ Len(q[k]) = Len(level[k]) + 1
                      /\ \A i \in 1..Len(level[k]) : q[k][i] = level[k][i] /\ level[k][i] \in Chars
                      /\ q[k][Len(level[k]) + 1] = SEMICOLON
  <2> TAKE k \in 1..n
  <2>1. level[k] \in Names /\ q[k] = level[k] \o <<SEMICOLON>>
    BY <1>0, <1>n
  <2> HIDE DEF q
  <2> QED
    BY <2>1, NameProperties, EndedProperties
<1> HIDE DEF q, e
<1>4. PICK c : Flat(Int, q, c, line)
  BY <1>2, FlattenIsFlat
<1> HIDE DEF line
<1>p. \A p \in 1..Len(line) :
          \E k \in 1..Len(q) : \E i \in 1..Len(q[k]) : p = c[k - 1] + i
  BY <1>4, FlatPlace
<1>c. /\ line \in Seq(Int) /\ c \in [0..n -> Nat] /\ c[0] = 0 /\ Len(line) = c[n]
      /\ \A k \in 1..n : c[k] = c[k - 1] + Len(q[k])
      /\ \A k \in 1..n : \A i \in 1..Len(q[k]) : line[c[k - 1] + i] = q[k][i]
  BY <1>2, <1>4 DEF Flat
<1>5. CASE n = 0
  <2>1. line = <<>> /\ level = <<>>
    <3>1. Len(line) = 0 /\ Len(level) = 0
      BY <1>5, <1>c, <1>0
    <3> QED
      BY <3>1, <1>c, EmptySeq
  <2>2. e = <<NL>> /\ Len(e) = 1 /\ e[1] = NL /\ e \in Seq(Int)
    BY <2>1, <1>1 DEF NL
  <2>3. IsLine(e)
    BY <2>2 DEF IsLine, NL, SEMICOLON
  <2>4. SubSeq(e, 1, Len(e) - 1) = <<>>
    BY <2>2, SubSeqEmpty
  <2> DEFINE d == [k \in 0..1 |-> k]
  <2>5. Cuts(<<>>, SEMICOLON, 0, d) /\ d[0] = 0
    <3>1. d \in [0..1 -> Nat] /\ d[0] = 0 /\ d[1] = 1 /\ \A a, b \in 0..1 : a < b => d[a] < d[b]
      OBVIOUS
    <3>2. Len(<<>>) = 0 /\ 1..0 = {} /\ 0 + 1 = 1
      OBVIOUS
    <3> HIDE DEF d
    <3> QED
      BY <3>1, <3>2 DEF Cuts
  <2> HIDE DEF d
  <2>6. Split(<<>>, SEMICOLON) = Pieces(<<>>, 0, d)
    <3>1. <<>> \in Seq(Int)
      OBVIOUS
    <3> QED
      BY <3>1, <2>5, SplitIs
  <2>7. Pieces(<<>>, 0, d) = <<>>
    <3>1. Len(<<>>) = 0 /\ 1..0 = {}
      OBVIOUS
    <3>2. Pieces(<<>>, 0, d) = [k \in 1..0 |-> SubSeq(<<>>, d[k - 1] + 1, d[k] - 1)]
      BY <2>5, <3>1 DEF Pieces
    <3> QED
      BY <3>1, <3>2
  <2> QED
    BY <2>1, <2>3, <2>4, <2>6, <2>7 DEF e
<1>6. CASE n # 0
  <2>n. n \in 1..n /\ n - 1 \in Nat /\ (n - 1) + 1 = n
    BY <1>6
  <2>1. ASSUME NEW k \in 1..n
        PROVE  \E x, y \in Nat, w \in Nat \ {0} :
                  /\ x = c[k - 1] /\ y = c[k] /\ w = Len(level[k])
                  /\ y = x + (w + 1) /\ Len(q[k]) = w + 1
    <3>1. k - 1 \in 0..n /\ k \in 0..n
      OBVIOUS
    <3>2. PICK x \in Nat, y \in Nat : x = c[k - 1] /\ y = c[k]
      BY <3>1, <1>c
    <3>3. PICK w \in Nat \ {0} : w = Len(level[k]) /\ Len(q[k]) = w + 1
      BY <1>3
    <3> QED
      BY <3>2, <3>3, <1>c
  <2>u. \A k \in 1..n : c[k - 1] < c[k]
    <3> TAKE k \in 1..n
    <3>1. PICK x \in Nat, y \in Nat, w \in Nat \ {0} :
             x = c[k - 1] /\ y = c[k] /\ y = x + (w + 1)
      BY <2>1
    <3>2. x < y
      BY <3>1
    <3> QED
      BY <3>1, <3>2
  <2>2. \A a, b \in 0..n : a < b => c[a] < c[b]
    BY <2>u, <1>c, StepsUp
  <2>3. /\ \A k \in 1..n : \A i \in 1..Len(level[k]) :
              line[c[k - 1] + i] = level[k][i] /\ line[c[k - 1] + i] \in Chars
        /\ \A k \in 1..n : line[c[k]] = SEMICOLON
    <3>1. \A k \in 1..n : \A i \in 1..Len(level[k]) : i \in 1..Len(q[k])
      BY <1>3
    <3>3. \A k \in 1..n : \A i \in 1..Len(level[k]) :
              line[c[k - 1] + i] = level[k][i] /\ line[c[k - 1] + i] \in Chars
      <4> TAKE k \in 1..n
      <4> TAKE i \in 1..Len(level[k])
      <4>1. line[c[k - 1] + i] = q[k][i]
        BY <3>1, <1>c
      <4>2. q[k][i] = level[k][i] /\ level[k][i] \in Chars
        BY <1>3
      <4> QED
        BY <4>1, <4>2
    <3>4. \A k \in 1..n : line[c[k]] = SEMICOLON
      <4> TAKE k \in 1..n
      <4>1. PICK x \in Nat, y \in Nat, w \in Nat \ {0} :
               /\ x = c[k - 1] /\ y = c[k] /\ w = Len(level[k])
               /\ y = x + (w + 1) /\ Len(q[k]) = w + 1
        BY <2>1
      <4>2. w + 1 \in 1..Len(q[k])
        BY <4>1
      <4>3. line[c[k - 1] + (w + 1)] = q[k][w + 1]
        BY <4>2, <1>c
      <4>4. q[k][w + 1] = SEMICOLON
        BY <4>1, <1>3
      <4> QED
        BY <4>1, <4>3, <4>4
    <3> QED
      BY <3>3, <3>4
  <2>4. PICK z \in Nat \ {0} : z = c[n] /\ z = Len(line)
    <3>1. 0 \in 0..n /\ n \in 0..n /\ 0 < n
      BY <1>6
    <3>2. c[0] < c[n] /\ c[n] \in Nat
      BY <3>1, <2>2, <1>c
    <3> QED
      BY <3>2, <1>c
  <2>5. \A p \in 1..z : \/ \E k \in 1..n : p = c[k]
                        \/ \E k \in 1..n : \E i \in 1..Len(level[k]) : p = c[k - 1] + i
    <3> TAKE p \in 1..z
    <3>1. p \in 1..Len(line)
      BY <2>4
    <3>2. \E k \in 1..Len(q) : \E i \in 1..Len(q[k]) : p = c[k - 1] + i
      BY <3>1, <1>p
    <3>3. PICK k \in 1..n : \E i \in 1..Len(q[k]) : p = c[k - 1] + i
      BY <3>2, <1>2
    <3>4. PICK i \in 1..Len(q[k]) : p = c[k - 1] + i
      BY <3>3
    <3>5. PICK x \in Nat, y \in Nat, w \in Nat \ {0} :
             /\ x = c[k - 1] /\ y = c[k] /\ w = Len(level[k])
             /\ y = x + (w + 1) /\ Len(q[k]) = w + 1
      BY <2>1
    <3>6. CASE i = w + 1
      BY <3>4, <3>5, <3>6
    <3>7. CASE i # w + 1
      <4>1. i \in 1..w
        BY <3>5, <3>7
      <4> QED
        BY <4>1, <3>4, <3>5
    <3> QED
      BY <3>6, <3>7
  <2>6. SEMICOLON \notin Chars /\ NL \notin Chars /\ SEMICOLON # NL /\ NL \in Int
    BY DEF Chars, SEMICOLON, NL
  <2>7. \A p \in 1..z : /\ line[p] # NL
                        /\ line[p] = SEMICOLON => \E k \in 1..n : p = c[k]
    BY <2>3, <2>5, <2>6
  <2>8. /\ e \in Seq(Int) /\ Len(e) = z /\ e[z] = NL
        /\ \A i \in 1..(z - 1) : e[i] = line[i]
    <3>1. line # <<>>
      BY <2>4
    <3>2. e = [line EXCEPT ![z] = NL]
      BY <3>1, <2>4, <1>1
    <3>3. z \in 1..Len(line) /\ z \in 1..z
      BY <2>4
    <3>4. /\ e \in Seq(Int) /\ Len(e) = z
          /\ \A i \in 1..z : e[i] = IF i = z THEN NL ELSE line[i]
      <4>1. line \in Seq(Int) /\ NL \in Int /\ z \in 1..Len(line)
        BY <3>3, <2>6, <1>c
      <4> HIDE DEF NL
      <4>2. /\ [line EXCEPT ![z] = NL] \in Seq(Int)
            /\ Len([line EXCEPT ![z] = NL]) = Len(line)
            /\ \A i \in 1..Len(line) :
                  [line EXCEPT ![z] = NL][i] = IF i = z THEN NL ELSE line[i]
        BY <4>1, ExceptSeq
      <4> QED
        BY <3>2, <4>2, <2>4
    <3>5. \A i \in 1..(z - 1) : i \in 1..z /\ i # z
      OBVIOUS
    <3> QED
      BY <3>3, <3>4, <3>5
  <2>9. ASSUME NEW k \in 1..n
        PROVE  c[k] > 1 /\ c[k] - 1 \in 1..z /\ line[c[k] - 1] \in Chars
               /\ (k # n => c[k] \in 1..(z - 1))
    <3>0. PICK x \in Nat, y \in Nat, w \in Nat \ {0} :
             /\ x = c[k - 1] /\ y = c[k] /\ w = Len(level[k])
             /\ y = x + (w + 1) /\ Len(q[k]) = w + 1
      BY <2>1
    <3>a. y = x + (w + 1)
      BY <3>0, Zenon
    <3>1. w \in 1..w /\ y - 1 = x + w /\ y > 1
      BY <3>a
    <3>2. line[y - 1] \in Chars
      BY <3>0, <3>1, <2>3
    <3>4. k # n => y < z
      <4>1. k \in 0..n /\ n \in 0..n /\ (k # n => k < n)
        OBVIOUS
      <4> QED
        BY <4>1, <3>0, <2>2, <2>4
    <3>5. y <= z
      <4>1. CASE k = n
        <5>1. y = z
          BY <4>1, <3>0, <2>4
        <5> QED
          BY <5>1
      <4>2. CASE k # n
        BY <4>2, <3>4
      <4> QED
        BY <4>1, <4>2
    <3>6. y > 1 /\ y - 1 \in 1..z /\ (k # n => y \in 1..(z - 1))
      BY <3>1, <3>4, <3>5
    <3> QED
      BY <3>0, <3>2, <3>6
  <2>10. IsLine(e)
    <3>1. \A i \in 1..(z - 1) : i \in 1..z /\ e[i] # NL
      BY <2>7, <2>8
    <3>2. ASSUME NEW i \in 1..z, e[i] = SEMICOLON
          PROVE  i > 1 /\ e[i - 1] \in Chars
      <4>1. i # z /\ i \in 1..(z - 1)
        BY <3>2, <2>6, <2>8
      <4>2. PICK k \in 1..n : i = c[k]
        BY <3>2, <4>1, <2>7, <2>8
      <4>3. i - 1 \in 1..(z - 1) /\ i > 1
        BY <4>1, <4>2, <2>9
      <4> QED
        BY <4>2, <4>3, <2>8, <2>9
    <3> QED
      BY <3>1, <3>2, <2>8 DEF IsLine
  <2> DEFINE body == SubSeq(e, 1, z - 1)
  <2>11. body \in Seq(Int) /\ Len(body) = z - 1 /\ \A i \in 1..(z - 1) : body[i] = line[i]
    <3>1. \A i \in 1..(z - 1) : e[i] \in Int
      BY <2>8, ElementOfSeq
    <3>2. /\ body \in Seq(Int)
          /\ Len(body) = IF 1 <= z - 1 THEN (z - 1) - 1 + 1 ELSE 0
          /\ \A i \in 1..((z - 1) - 1 + 1) : body[i] = e[1 + i - 1]
      BY <3>1, SubSeqProperties
    <3>3. (z - 1) - 1 + 1 = z - 1 /\ \A i \in 1..(z - 1) : 1 + i - 1 = i
      OBVIOUS
    <3>4. Len(body) = z - 1
      BY <3>2, <3>3
    <3> HIDE DEF body
    <3> QED
      BY <3>2, <3>3, <3>4, <2>8
  <2> HIDE DEF body
  <2>12. Cuts(body, SEMICOLON, n - 1, c)
    <3>1. \A k \in 1..(n - 1) : c[k] \in 1..(z - 1) /\ body[c[k]] = SEMICOLON
      <4> TAKE k \in 1..(n - 1)
      <4>1. k \in 1..n /\ k # n
        OBVIOUS
      <4>2. c[k] \in 1..(z - 1)
        BY <4>1, <2>9
      <4> QED
        BY <4>1, <4>2, <2>3, <2>11
    <3>2. ASSUME NEW i \in 1..(z - 1), body[i] = SEMICOLON
          PROVE  \E k \in 1..(n - 1) : c[k] = i
      <4>1. i \in 1..z /\ line[i] = SEMICOLON /\ i # z
        BY <3>2, <2>11
      <4>2. PICK k \in 1..n : i = c[k]
        BY <4>1, <2>7
      <4>3. k # n
        BY <4>1, <4>2, <2>4
      <4>4. k \in 1..(n - 1)
        BY <4>3
      <4> QED
        BY <4>2, <4>4
    <3>3. c[(n - 1) + 1] = Len(body) + 1 /\ 0..((n - 1) + 1) = 0..n
      <4>1. (z - 1) + 1 = z
        OBVIOUS
      <4> QED
        BY <4>1, <2>4, <2>11, <2>n
    <3>4. Len(body) = z - 1
      BY <2>11
    <3>5. n - 1 \in Nat /\ c \in [0..((n - 1) + 1) -> Nat] /\ c[0] = 0
          /\ \A i, j \in 0..((n - 1) + 1) : i < j => c[i] < c[j]
      <4>1. 0..((n - 1) + 1) = 0..n
        BY <3>3
      <4> QED
        BY <4>1, <2>2, <2>n, <1>c, Zenon
    <3>6. \A k \in 1..(n - 1) : c[k] \in 1..Len(body) /\ body[c[k]] = SEMICOLON
      BY <3>1, <3>4
    <3>7. \A i \in 1..Len(body) : body[i] = SEMICOLON => \E k \in 1..(n - 1) : c[k] = i
      BY <3>2, <3>4
    <3> QED
      BY <3>3, <3>5, <3>6, <3>7, Zenon DEF Cuts
  <2>13. Split(body, SEMICOLON) = [k \in 1..n |-> SubSeq(body, c[k - 1] + 1, c[k] - 1)]
    <3>0. PICK x \in Nat, y \in Nat, w \in Nat \ {0} :
             x = c[n - 1] /\ y = c[n] /\ y = x + (w + 1)
      BY <2>1, <2>n
    <3>1. c[n - 1] # z - 1
      BY <3>0, <2>4
    <3>2. Pieces(body, n - 1, c) = [k \in 1..n |-> SubSeq(body, c[k - 1] + 1, c[k] - 1)]
      <4>1. ~ (c[n - 1] = Len(body)) /\ (n - 1) + 1 = n
        BY <3>1, <2>11, <2>n
      <4> QED
        BY <4>1, Zenon DEF Pieces
    <3> QED
      BY <3>2, <2>11, <2>12, SplitIs
  <2>14. \A k \in 1..n : SubSeq(body, c[k - 1] + 1, c[k] - 1) = level[k]
    <3> TAKE k \in 1..n
    <3> DEFINE t == SubSeq(body, c[k - 1] + 1, c[k] - 1)
    <3>0. PICK x \in Nat, y \in Nat, w \in Nat \ {0} :
             /\ x = c[k - 1] /\ y = c[k] /\ w = Len(level[k])
             /\ y = x + (w + 1) /\ Len(q[k]) = w + 1
      BY <2>1
    <3>a. y = x + (w + 1)
      BY <3>0, Zenon
    <3>1. /\ y - 1 \in Int /\ x + 1 \in Int
          /\ (y - 1) - (x + 1) + 1 = w /\ x + 1 <= y - 1
      BY <3>a
    <3>2. y - 1 <= z - 1
      <4>1. y - 1 \in 1..z
        BY <3>0, <2>9
      <4>2. k = n => y = z
        BY <3>0, <2>4
      <4>3. k # n => y \in 1..(z - 1)
        BY <3>0, <2>9
      <4> QED
        BY <4>1, <4>2, <4>3
    <3>3. \A i \in (x + 1)..(y - 1) : body[i] \in Int
      <4>1. \A i \in (x + 1)..(y - 1) : i \in 1..(z - 1)
        BY <3>2
      <4> QED
        BY <4>1, <2>11, ElementOfSeq
    <3>t. t = SubSeq(body, x + 1, y - 1)
      BY <3>0
    <3> HIDE DEF t
    <3>4. t \in Seq(Int) /\ Len(t) = w /\ \A i \in 1..w : t[i] = body[(x + 1) + i - 1]
      <4>1. /\ t \in Seq(Int)
            /\ Len(t) = IF x + 1 <= y - 1 THEN (y - 1) - (x + 1) + 1 ELSE 0
            /\ \A i \in 1..((y - 1) - (x + 1) + 1) : t[i] = body[(x + 1) + i - 1]
        BY <3>t, <3>1, <3>3, SubSeqProperties
      <4> QED
        BY <4>1, <3>1
    <3>5. \A i \in 1..w : t[i] = level[k][i]
      <4> TAKE i \in 1..w
      <4>1. (x + 1) + i - 1 = x + i /\ x + i \in 1..(z - 1)
        BY <3>a, <3>2
      <4>2. line[x + i] = level[k][i]
        BY <3>0, <2>3
      <4> QED
        BY <4>1, <4>2, <3>4, <2>11
    <3>6. level[k] \in Seq(Int)
      BY <1>n, NameProperties
    <3>7. t = level[k]
      BY <3>0, <3>4, <3>5, <3>6, SeqEqual
    <3> QED
      BY <3>7 DEF t
  <2>15. Split(body, SEMICOLON) = level
    <3>1. level = [k \in 1..n |-> level[k]]
      BY <1>0
    <3> QED
      BY <3>1, <2>13, <2>14
  <2> QED
    BY <2>8, <2>10, <2>15 DEF body, e
<1> QED
  BY <1>5, <1>6

-----------------------------------------------------------------------------
(* Two texts that agree over a stretch have the same piece there.          *)
LEMMA SameStretch ==
    ASSUME NEW s \in Seq(Int), NEW t \in Seq(Int), NEW x \in Nat, NEW w \in Nat,
           w <= Len(t), x + w <= Len(s),
           \A i \in 1..w : s[x + i] = t[i]
    PROVE  SubSeq(s, x + 1, x + w) = SubSeq(t, 1, w)
<1>0. PICK ls \in Nat, lt \in Nat : ls = Len(s) /\ lt = Len(t)
  BY LenProperties
<1>1. PICK m \in Int, n \in Int : m = x + 1 /\ n = x + w
  OBVIOUS
<1> DEFINE a == SubSeq(s, m, n)
           b == SubSeq(t, 1, w)
<1>2. /\ \A i \in m..n : s[i] \in Int
      /\ \A i \in 1..w : t[i] \in Int
      /\ 1 \in Int /\ w \in Int
  <2>1. /\ \A i \in m..n : i \in 1..ls
        /\ \A i \in 1..w : i \in 1..lt
    BY <1>0, <1>1
  <2> QED
    BY <2>1, <1>0, ElementOfSeq
<1>3. /\ a \in Seq(Int)
      /\ Len(a) = IF m <= n THEN n - m + 1 ELSE 0
      /\ \A i \in 1..(n - m + 1) : a[i] = s[m + i - 1]
  <2>1. a \in Seq(Int)
    BY <1>2, SubSeqProperties
  <2>2. Len(a) = IF m <= n THEN n - m + 1 ELSE 0
    BY <1>2, SubSeqProperties
  <2>3. \A i \in 1..(n - m + 1) : a[i] = s[m + i - 1]
    BY <1>2, SubSeqProperties
  <2> QED
    BY <2>1, <2>2, <2>3
<1>4. /\ b \in Seq(Int)
      /\ Len(b) = IF 1 <= w THEN w - 1 + 1 ELSE 0
      /\ \A i \in 1..(w - 1 + 1) : b[i] = t[1 + i - 1]
  <2>1. b \in Seq(Int)
    BY <1>2, SubSeqProperties
  <2>2. Len(b) = IF 1 <= w THEN w - 1 + 1 ELSE 0
    BY <1>2, SubSeqProperties
  <2>3. \A i \in 1..(w - 1 + 1) : b[i] = t[1 + i - 1]
    BY <1>2, SubSeqProperties
  <2> QED
    BY <2>1, <2>2, <2>3
<1> HIDE DEF a, b
<1>5. Len(a) = w /\ Len(b) = w
  BY <1>1, <1>3, <1>4
<1>6. \A i \in 1..w : a[i] = b[i]
  <2> TAKE i \in 1..w
  <2>1. /\ m + i - 1 = x + i /\ 1 + i - 1 = i
        /\ i \in 1..(n - m + 1) /\ i \in 1..(w - 1 + 1)
    BY <1>1
  <2>2. a[i] = s[x + i] /\ b[i] = t[i]
    BY <2>1, <1>3, <1>4
  <2> QED
    BY <2>2
<1>7. a = b
  BY <1>3, <1>4, <1>5, <1>6, SeqEqual
<1> QED
  BY <1>1, <1>7 DEF a, b

(* Between two cuts there is no separator.                                 *)
LEMMA BetweenCuts ==
    ASSUME NEW s, NEW separator, NEW n, NEW c, Len(s) \in Nat, Cuts(s, separator, n, c),
           NEW k \in 1..(n + 1)
    PROVE  /\ n \in Nat /\ c[k - 1] \in Nat /\ c[k] \in Nat /\ c[k - 1] < c[k]
           /\ c[k] <= Len(s) + 1
           /\ \A i \in Nat : c[k - 1] < i /\ i < c[k] => i \in 1..Len(s) /\ s[i] # separator
<1>1. /\ n \in Nat /\ c \in [0..(n + 1) -> Nat] /\ c[n + 1] = Len(s) + 1
      /\ \A a, b \in 0..(n + 1) : a < b => c[a] < c[b]
      /\ \A i \in 1..Len(s) : s[i] = separator => \E j \in 1..n : c[j] = i
  BY DEF Cuts
<1>2. k - 1 \in 0..(n + 1) /\ k \in 0..(n + 1) /\ k - 1 < k /\ n + 1 \in 0..(n + 1)
      /\ (k = n + 1 \/ k < n + 1)
  BY <1>1
<1>3. PICK x \in Nat, y \in Nat : x = c[k - 1] /\ y = c[k]
  BY <1>1, <1>2
<1>4. x < y
  BY <1>1, <1>2, <1>3
<1>5. y <= Len(s) + 1
  <2>1. k = n + 1 => y = Len(s) + 1
    BY <1>1, <1>3
  <2>2. k < n + 1 => y < Len(s) + 1
    BY <1>1, <1>2, <1>3
  <2> QED
    BY <2>1, <2>2, <1>2
<1>6. ASSUME NEW i \in Nat, x < i, i < y
      PROVE  i \in 1..Len(s) /\ s[i] # separator
  <2>1. i \in 1..Len(s)
    BY <1>5, <1>6
  <2>2. ASSUME s[i] = separator PROVE FALSE
    <3>1. PICK j \in 1..n : c[j] = i
      BY <2>1, <2>2, <1>1
    <3>2. j \in 0..(n + 1) /\ (j < k - 1 \/ j = k - 1 \/ j = k \/ k < j)
      BY <1>1, <1>2
    <3>3. j < k - 1 => i < x
      BY <3>1, <3>2, <1>1, <1>2, <1>3
    <3>4. k < j => y < i
      BY <3>1, <3>2, <1>1, <1>2, <1>3
    <3>5. j = k - 1 => i = x
      BY <3>1, <1>3
    <3>6. j = k => i = y
      BY <3>1, <1>3
    <3> QED
      BY <3>2, <3>3, <3>4, <3>5, <3>6, <1>6
  <2> QED
    BY <2>1, <2>2
<1> QED
  BY <1>1, <1>3, <1>4, <1>5, <1>6

(* Text in which every semicolon follows a name: what MANIFEST is, whole   *)
(* or not, and what a line of it is.                                       *)
Tidy(s) ==
    /\ s \in Seq(Int)
    /\ s = <<>> \/ s[1] = PATH
    /\ \A i \in 1..Len(s) : s[i] = SEMICOLON => i > 1 /\ s[i - 1] \in Chars

(* A line of it, without its NL.                                           *)
TidyLine(t) ==
    /\ t \in Seq(Int)
    /\ \A i \in 1..Len(t) : t[i] # NL
    /\ \A i \in 1..Len(t) : t[i] = SEMICOLON => i > 1 /\ t[i - 1] \in Chars

(* The names of such a line are names.                                     *)
LEMMA SplitNames ==
    ASSUME NEW t, TidyLine(t)
    PROVE  Split(t, SEMICOLON) \in Seq(Names)
<1>0. t \in Seq(Int) /\ SEMICOLON \notin Chars
  BY DEF TidyLine, Chars
<1>1. PICK m \in Nat : m = Len(t)
  BY <1>0, LenProperties
<1>2. PICK n, c : Cuts(t, SEMICOLON, n, c) /\ Split(t, SEMICOLON) = Pieces(t, n, c)
  BY <1>0, SplitCuts
<1>3. n \in Nat /\ c[0] = 0 /\ c[n + 1] = m + 1
      /\ \A k \in 1..n : c[k] \in 1..m /\ t[c[k]] = SEMICOLON
  BY <1>1, <1>2 DEF Cuts
<1> DEFINE w == IF c[n] = Len(t) THEN n ELSE n + 1
           piece(k) == SubSeq(t, c[k - 1] + 1, c[k] - 1)
<1>4. w \in Nat /\ \A k \in 1..w : k \in 1..(n + 1) /\ (k = n + 1 => c[n] # m)
  BY <1>1, <1>3
<1>5. Split(t, SEMICOLON) = [k \in 1..w |-> piece(k)]
  BY <1>2 DEF Pieces
<1>6. ASSUME NEW k \in 1..w
      PROVE  piece(k) \in Names
  <2>1. k \in 1..(n + 1) /\ (k = n + 1 => c[n] # m)
    BY <1>4
  <2>2. /\ c[k - 1] \in Nat /\ c[k] \in Nat /\ c[k - 1] < c[k] /\ c[k] <= m + 1
        /\ \A i \in Nat : c[k - 1] < i /\ i < c[k] => i \in 1..m /\ t[i] # SEMICOLON
    BY <2>1, <1>1, <1>2, BetweenCuts
  <2>3. PICK x \in Nat, y \in Nat : x = c[k - 1] /\ y = c[k]
    BY <2>2
  <2>4. x < y /\ y <= m + 1 /\ \A i \in Nat : x < i /\ i < y => i \in 1..m /\ t[i] # SEMICOLON
    BY <2>2, <2>3
  <2>5. x # y - 1
    <3>1. CASE k = n + 1
      <4>1. y = m + 1 /\ x # m
        BY <3>1, <2>1, <2>3, <1>3
      <4> QED
        BY <4>1
    <3>2. CASE k # n + 1
      <4>1. k \in 1..n
        BY <3>2, <2>1, <1>3
      <4>2. y \in 1..m /\ t[y] = SEMICOLON
        BY <4>1, <2>3, <1>3
      <4>3. y > 1 /\ t[y - 1] \in Chars
        BY <4>2, <1>1 DEF TidyLine
      <4>4. x = 0 \/ t[x] = SEMICOLON
        <5>1. k = 1 => x = 0
          BY <2>3, <1>3
        <5>2. k # 1 => k - 1 \in 1..n
          BY <4>1, <1>3
        <5> QED
          BY <5>1, <5>2, <2>3, <1>3
      <4> QED
        BY <4>2, <4>3, <4>4, <1>0
    <3> QED
      BY <3>1, <3>2
  <2>6. x + 1 <= y - 1 /\ x + 1 \in Int /\ y - 1 \in Int
    BY <2>4, <2>5
  <2>7. \A i \in (x + 1)..(y - 1) : t[i] \in Chars
    <3> TAKE i \in (x + 1)..(y - 1)
    <3>1. i \in Nat /\ x < i /\ i < y
      OBVIOUS
    <3>2. i \in 1..m /\ t[i] # SEMICOLON
      BY <3>1, <2>4
    <3>3. t[i] \in Int
      BY <3>2, <1>0, <1>1, ElementOfSeq
    <3>4. t[i] # NL
      BY <3>2, <1>1 DEF TidyLine
    <3> QED
      BY <3>2, <3>3, <3>4 DEF Chars
  <2> DEFINE u == SubSeq(t, x + 1, y - 1)
  <2>8. u \in Seq(Chars) /\ Len(u) = IF x + 1 <= y - 1 THEN (y - 1) - (x + 1) + 1 ELSE 0
    BY <2>6, <2>7, SubSeqProperties
  <2>9. u = piece(k)
    BY <2>3
  <2> HIDE DEF u, piece
  <2>10. Len(u) # 0
    BY <2>6, <2>8
  <2>11. Len(<<>>) = 0
    OBVIOUS
  <2>12. u # <<>>
    BY <2>10, <2>11
  <2> QED
    BY <2>8, <2>9, <2>12 DEF Names
<1> HIDE DEF w, piece
<1>7. [k \in 1..w |-> piece(k)] \in [1..w -> Names]
  BY <1>6
<1> QED
  BY <1>4, <1>5, <1>7

(* Whatever is left of MANIFEST, Decode makes a manifest of it.            *)
LEMMA DecodeType ==
    ASSUME NEW s, Tidy(s)
    PROVE  Decode(s) \in Manifests
<1>0. s \in Seq(Int) /\ NL \notin Chars
  BY DEF Tidy, Chars
<1>1. PICK m \in Nat : m = Len(s)
  BY <1>0, LenProperties
<1>2. PICK n, c : Cuts(s, NL, n, c) /\ Split(s, NL) = Pieces(s, n, c)
  BY <1>0, SplitCuts
<1>3. n \in Nat /\ c[0] = 0 /\ \A k \in 1..n : s[c[k]] = NL
  BY <1>2 DEF Cuts
<1> DEFINE w == IF c[n] = Len(s) THEN n ELSE n + 1
           piece(k) == SubSeq(s, c[k - 1] + 1, c[k] - 1)
<1>4. w \in Nat /\ \A k \in 1..w : k \in 1..(n + 1)
  BY <1>3
<1>5. Lines(s) = [k \in 1..w |-> piece(k)]
  BY <1>2 DEF Pieces, Lines
<1>6. ASSUME NEW k \in 1..w
      PROVE  TidyLine(piece(k))
  <2>1. k \in 1..(n + 1)
    BY <1>4
  <2>2. /\ c[k - 1] \in Nat /\ c[k] \in Nat /\ c[k - 1] < c[k] /\ c[k] <= m + 1
        /\ \A i \in Nat : c[k - 1] < i /\ i < c[k] => i \in 1..m /\ s[i] # NL
    BY <2>1, <1>1, <1>2, BetweenCuts
  <2>3. PICK x \in Nat, y \in Nat : x = c[k - 1] /\ y = c[k]
    BY <2>2
  <2>4. x < y /\ y <= m + 1 /\ \A i \in Nat : x < i /\ i < y => i \in 1..m /\ s[i] # NL
    BY <2>2, <2>3
  <2>5. x = 0 \/ s[x] = NL
    <3>1. k = 1 => x = 0
      BY <2>3, <1>3
    <3>2. k # 1 => k - 1 \in 1..n
      BY <2>1, <1>3
    <3> QED
      BY <3>1, <3>2, <2>3, <1>3
  <2>6. \A i \in (x + 1)..(y - 1) : i \in 1..m /\ s[i] \in Int
    <3> TAKE i \in (x + 1)..(y - 1)
    <3>1. i \in Nat /\ x < i /\ i < y
      OBVIOUS
    <3>2. i \in 1..m
      BY <3>1, <2>4
    <3> QED
      BY <3>2, <1>0, <1>1, ElementOfSeq
  <2> DEFINE u == SubSeq(s, x + 1, y - 1)
  <2>7. PICK z \in Nat : z = y - 1 - x
    BY <2>4
  <2>8. u \in Seq(Int) /\ Len(u) = z /\ \A i \in 1..z : u[i] = s[x + i] /\ x + i \in 1..m
    <3>1. /\ u \in Seq(Int)
          /\ Len(u) = IF x + 1 <= y - 1 THEN (y - 1) - (x + 1) + 1 ELSE 0
          /\ \A i \in 1..((y - 1) - (x + 1) + 1) : u[i] = s[(x + 1) + i - 1]
      <4>1. x + 1 \in Int /\ y - 1 \in Int /\ \A i \in (x + 1)..(y - 1) : s[i] \in Int
        BY <2>6
      <4> QED
        BY <4>1, SubSeqProperties
    <3> HIDE DEF u
    <3>2. (y - 1) - (x + 1) + 1 = z
      BY <2>7
    <3>3. Len(u) = z
      <4>1. ~ (x + 1 <= y - 1) => z = 0
        BY <2>7
      <4> QED
        BY <3>1, <3>2, <4>1
    <3>4. \A i \in 1..z : (x + 1) + i - 1 = x + i /\ x + i \in 1..m
      BY <2>4, <2>7
    <3>5. \A i \in 1..z : u[i] = s[(x + 1) + i - 1]
      BY <3>1, <3>2
    <3> QED
      BY <3>1, <3>3, <3>4, <3>5
  <2> HIDE DEF u
  <2>9. \A i \in 1..z : u[i] # NL
    <3> TAKE i \in 1..z
    <3>1. x + i \in Nat /\ x < x + i /\ x + i < y
      BY <2>7
    <3> QED
      BY <3>1, <2>4, <2>8
  <2>10. ASSUME NEW i \in 1..z, u[i] = SEMICOLON
         PROVE  i > 1 /\ u[i - 1] \in Chars
    <3>1. x + i \in 1..m /\ s[x + i] = SEMICOLON
      BY <2>8, <2>10
    <3>2. x + i > 1 /\ s[x + i - 1] \in Chars
      BY <3>1, <1>1 DEF Tidy
    <3>3. i # 1
      <4> SUFFICES ASSUME i = 1 PROVE FALSE
        OBVIOUS
      <4>1. x + i - 1 = x
        OBVIOUS
      <4>2. s[x] \in Chars /\ x # 0
        BY <3>2, <4>1
      <4> QED
        BY <4>2, <2>5, <1>0
    <3>4. i > 1 /\ i - 1 \in 1..z /\ x + (i - 1) = x + i - 1
      BY <3>3
    <3> QED
      BY <3>2, <3>4, <2>8
  <2>11. TidyLine(u)
    BY <2>8, <2>9, <2>10 DEF TidyLine
  <2>12. u = piece(k)
    BY <2>3 DEF u
  <2> QED
    BY <2>11, <2>12
<1> HIDE DEF w, piece
<1>7. Len(Lines(s)) = w /\ \A k \in 1..w : TidyLine(Lines(s)[k])
  BY <1>4, <1>5, <1>6
<1>8. \A l \in 1..(w - 2) : Split(Lines(s)[l + 2], SEMICOLON) \in Seq(Names)
  <2> TAKE l \in 1..(w - 2)
  <2>1. l + 2 \in 1..w
    BY <1>4
  <2> QED
    BY <2>1, <1>7, SplitNames
<1>9. Decode(s) = [l \in 1..(w - 2) |-> Split(Lines(s)[l + 2], SEMICOLON)]
  BY <1>7 DEF Decode
<1>10. Decode(s) \in [1..(w - 2) -> Seq(Names)]
  BY <1>8, <1>9
<1>11. CASE w >= 2
  <2>1. w - 2 \in Nat
    BY <1>4, <1>11
  <2> QED
    BY <2>1, <1>10 DEF Manifests
<1>12. CASE ~ (w >= 2)
  <2>1. 1..(w - 2) = {}
    BY <1>4, <1>12
  <2>2. Decode(s) = <<>>
    BY <2>1, <1>9
  <2> QED
    BY <2>2 DEF Manifests
<1> QED
  BY <1>11, <1>12

-----------------------------------------------------------------------------
(* The lines before the first level.                                       *)
Header == <<PATH, NL, LOG, NL>>

(* Encode writes tidy text, and Decode reads the manifest back from it.    *)
THEOREM ManifestReadsBack ==
    ASSUME NEW m \in Manifests
    PROVE  Tidy(Encode(m)) /\ Encode(m) # <<>> /\ Decode(Encode(m)) = m
<1>0. PICK n \in Nat : n = Len(m) /\ DOMAIN m = 1..n
  BY LenProperties DEF Manifests
<1>m. \A l \in 1..n : m[l] \in Seq(Names)
  BY <1>0, ElementOfSeq DEF Manifests
<1> DEFINE q == [l \in DOMAIN m |-> EncodeLevel(m[l])]
           text == FlattenSeq(q)
           s == Encode(m)
<1>1. s = Header \o text
  BY DEF Encode, Header
<1>2. \A l \in 1..n : /\ q[l] = EncodeLevel(m[l])
                      /\ IsLine(q[l])
                      /\ Split(SubSeq(q[l], 1, Len(q[l]) - 1), SEMICOLON) = m[l]
  BY <1>0, <1>m, LevelText
<1>3. q \in Seq(Seq(Int)) /\ Len(q) = n
  <2>1. \A l \in 1..n : q[l] \in Seq(Int)
    BY <1>2 DEF IsLine
  <2>2. q = [l \in 1..n |-> q[l]]
    BY <1>0
  <2> HIDE DEF q
  <2>3. q \in [1..n -> Seq(Int)]
    BY <2>1, <2>2
  <2> QED
    BY <2>3
<1> HIDE DEF q, s
<1>4. PICK c : Flat(Int, q, c, text)
  BY <1>3, FlattenIsFlat
<1> HIDE DEF text
<1>c. /\ text \in Seq(Int) /\ c \in [0..n -> Nat] /\ c[0] = 0 /\ Len(text) = c[n]
      /\ \A k \in 1..n : c[k] = c[k - 1] + Len(q[k])
      /\ \A k \in 1..n : \A i \in 1..Len(q[k]) : text[c[k - 1] + i] = q[k][i]
  BY <1>3, <1>4 DEF Flat
<1>p. \A p \in 1..Len(text) :
          \E k \in 1..n : \E i \in 1..Len(q[k]) : p = c[k - 1] + i
  <2>1. \A p \in 1..Len(text) :
           \E k \in 1..Len(q) : \E i \in 1..Len(q[k]) : p = c[k - 1] + i
    BY <1>4, FlatPlace
  <2> QED
    BY <2>1, <1>3
<1>g. ASSUME NEW k \in 1..n
      PROVE  \E x, y \in Nat, w \in Nat \ {0} :
                x = c[k - 1] /\ y = c[k] /\ w = Len(q[k]) /\ y = x + w
  <2>1. k - 1 \in 0..n /\ k \in 0..n
    OBVIOUS
  <2>2. PICK x \in Nat, y \in Nat : x = c[k - 1] /\ y = c[k]
    BY <2>1, <1>c
  <2>3. PICK w \in Nat \ {0} : w = Len(q[k])
    BY <1>2 DEF IsLine
  <2>4. c[k] = c[k - 1] + Len(q[k])
    BY <1>c
  <2>5. y = x + w
    BY <2>2, <2>3, <2>4
  <2> QED
    BY <2>2, <2>3, <2>5
<1>z. PICK z \in Nat : z = c[n] /\ z = Len(text)
  <2>1. n \in 0..n
    OBVIOUS
  <2> QED
    BY <2>1, <1>c
<1>h. /\ Header \in Seq(Int) /\ Len(Header) = 4
      /\ Header[1] = PATH /\ Header[2] = NL /\ Header[3] = LOG /\ Header[4] = NL
  BY DEF Header, PATH, NL, LOG
<1>5. /\ s \in Seq(Int) /\ Len(s) = 4 + z
      /\ s[1] = PATH /\ s[2] = NL /\ s[3] = LOG /\ s[4] = NL
      /\ \A i \in 1..z : s[4 + i] = text[i]
  <2>1. /\ s \in Seq(Int) /\ Len(s) = 4 + z
        /\ \A i \in 1..(4 + z) : s[i] = IF i <= 4 THEN Header[i] ELSE text[i - 4]
    <3>1. PICK h \in Seq(Int) : h = Header
      BY <1>h
    <3>2. /\ h \o text \in Seq(Int) /\ Len(h \o text) = Len(h) + Len(text)
          /\ \A i \in 1..(Len(h) + Len(text)) :
                (h \o text)[i] = IF i <= Len(h) THEN h[i] ELSE text[i - Len(h)]
      <4>1. PICK u \in Seq(Int) : u = text
        BY <1>c
      <4>2. /\ h \o u \in Seq(Int) /\ Len(h \o u) = Len(h) + Len(u)
            /\ \A i \in 1..(Len(h) + Len(u)) :
                  (h \o u)[i] = IF i <= Len(h) THEN h[i] ELSE u[i - Len(h)]
        BY ConcatProperties
      <4> QED
        BY <4>1, <4>2
    <3>3. Len(h) = 4 /\ Len(text) = z /\ s = h \o text
      BY <3>1, <1>1, <1>h, <1>z
    <3> QED
      BY <3>1, <3>2, <3>3
  <2>2. /\ 1 \in 1..(4 + z) /\ 2 \in 1..(4 + z) /\ 3 \in 1..(4 + z) /\ 4 \in 1..(4 + z)
        /\ \A i \in 1..z : 4 + i \in 1..(4 + z) /\ ~ (4 + i <= 4) /\ (4 + i) - 4 = i
    OBVIOUS
  <2>3. s[1] = Header[1] /\ s[2] = Header[2] /\ s[3] = Header[3] /\ s[4] = Header[4]
    BY <2>1, <2>2
  <2>4. \A i \in 1..z : s[4 + i] = text[i]
    BY <2>1, <2>2
  <2> QED
    BY <2>1, <2>3, <2>4, <1>h
<1>d. PATH # NL /\ LOG # NL /\ PATH # SEMICOLON /\ LOG # SEMICOLON /\ NL # SEMICOLON
  BY DEF PATH, NL, LOG, SEMICOLON
<1>6. \A i \in 1..(4 + z) : i = 1 \/ i = 2 \/ i = 3 \/ i = 4 \/ \E j \in 1..z : i = 4 + j
  <2> TAKE i \in 1..(4 + z)
  <2>1. CASE i <= 4
    BY <2>1
  <2>2. CASE ~ (i <= 4)
    <3>1. i - 4 \in 1..z /\ i = 4 + (i - 4)
      BY <2>2
    <3> QED
      BY <3>1
  <2> QED
    BY <2>1, <2>2
<1>7. \A k \in 1..n : text[c[k]] = NL /\ c[k] \in 1..z
  <2> TAKE k \in 1..n
  <2>1. PICK x \in Nat, y \in Nat, w \in Nat \ {0} :
           x = c[k - 1] /\ y = c[k] /\ w = Len(q[k]) /\ y = x + w
    BY <1>g
  <2>2. q[k][w] = NL /\ w \in 1..Len(q[k])
    BY <2>1, <1>2 DEF IsLine
  <2>3. text[c[k - 1] + w] = NL
    BY <2>2, <1>c
  <2>4. c[k] = c[k - 1] + w
    BY <2>1
  <2>5. c[k] <= z
    <3>1. \A a \in 1..n : c[a - 1] < c[a]
      <4> TAKE a \in 1..n
      <4>1. PICK x1 \in Nat, y1 \in Nat, w1 \in Nat \ {0} :
               x1 = c[a - 1] /\ y1 = c[a] /\ w1 = Len(q[a]) /\ y1 = x1 + w1
        BY <1>g
      <4>2. x1 < y1
        BY <4>1
      <4> QED
        BY <4>1, <4>2
    <3>2. \A a, b \in 0..n : a < b => c[a] < c[b]
      BY <3>1, <1>c, StepsUp
    <3>3. k \in 0..n /\ n \in 0..n /\ (k = n \/ k < n)
      OBVIOUS
    <3>4. k < n => c[k] < z
      BY <3>2, <3>3, <1>z
    <3>5. k = n => c[k] = z
      BY <1>z
    <3>6. c[k] \in Nat
      BY <3>3, <1>c
    <3> QED
      BY <3>3, <3>4, <3>5, <3>6
  <2>6. y # 0 /\ y \in Nat
    BY <2>1
  <2> QED
    BY <2>1, <2>3, <2>4, <2>5, <2>6
<1>8. Tidy(s)
  <2>1. ASSUME NEW i \in 1..(4 + z), s[i] = SEMICOLON
        PROVE  i > 1 /\ s[i - 1] \in Chars
    <3>1. PICK j \in 1..z : i = 4 + j
      BY <2>1, <1>5, <1>6, <1>d
    <3>2. text[j] = SEMICOLON
      BY <3>1, <2>1, <1>5
    <3>3. PICK k \in 1..n : \E a \in 1..Len(q[k]) : j = c[k - 1] + a
      BY <1>p, <1>z
    <3>4. PICK a \in 1..Len(q[k]) : j = c[k - 1] + a
      BY <3>3
    <3>5. q[k][a] = SEMICOLON
      BY <3>2, <3>4, <1>c
    <3>6. a > 1 /\ q[k][a - 1] \in Chars /\ Len(q[k]) \in Nat
      BY <3>5, <1>2 DEF IsLine
    <3>7. a - 1 \in 1..Len(q[k])
      BY <3>6
    <3>8. text[c[k - 1] + (a - 1)] \in Chars
      BY <3>6, <3>7, <1>c
    <3>9. PICK x \in Nat : x = c[k - 1]
      BY <1>g
    <3>a. j = x + a
      BY <3>4, <3>9
    <3>b. a \in Nat /\ a > 1
      BY <3>6
    <3>10. x + (a - 1) \in 1..z /\ i - 1 = 4 + (x + (a - 1)) /\ i > 1
      BY <3>a, <3>b, <3>1
    <3>11. s[4 + (x + (a - 1))] = text[x + (a - 1)]
      BY <3>10, <1>5
    <3> QED
      BY <3>8, <3>9, <3>10, <3>11
  <2> QED
    BY <2>1, <1>5 DEF Tidy
<1> DEFINE d == [k \in 0..(n + 3) |->
                    IF k = 0 THEN 0 ELSE IF k = 1 THEN 2
                    ELSE IF k = n + 3 THEN 5 + z ELSE 4 + c[k - 2]]
<1>9. /\ d[0] = 0 /\ d[1] = 2 /\ d[2] = 4 /\ d[n + 3] = 5 + z /\ d[n + 2] = 4 + z
      /\ \A l \in 1..n : d[l + 2] = 4 + c[l] /\ d[l + 1] = 4 + c[l - 1]
  <2>1. \A k \in 2..(n + 2) : d[k] = 4 + c[k - 2]
    OBVIOUS
  <2>2. d[0] = 0 /\ d[1] = 2 /\ d[n + 3] = 5 + z
    <3>1. 0 \in 0..(n + 3) /\ 1 \in 0..(n + 3) /\ n + 3 \in 0..(n + 3) /\ n + 3 # 0 /\ n + 3 # 1
      OBVIOUS
    <3> QED
      BY <3>1
  <2> HIDE DEF d
  <2>3. 2 \in 2..(n + 2) /\ n + 2 \in 2..(n + 2) /\ 2 - 2 = 0 /\ (n + 2) - 2 = n
    OBVIOUS
  <2>4. d[2] = 4 /\ d[n + 2] = 4 + z
    BY <2>1, <2>3, <1>c, <1>z
  <2>5. \A l \in 1..n : /\ l + 2 \in 2..(n + 2) /\ (l + 2) - 2 = l
                        /\ l + 1 \in 2..(n + 2) /\ (l + 1) - 2 = l - 1
    OBVIOUS
  <2>6. \A l \in 1..n : d[l + 2] = 4 + c[l] /\ d[l + 1] = 4 + c[l - 1]
    BY <2>1, <2>5
  <2> QED
    BY <2>2, <2>4, <2>6
<1>10. DOMAIN d = 0..(n + 3) /\ d = [k \in 0..(n + 3) |-> d[k]]
  OBVIOUS
<1> HIDE DEF d
<1>11. \A k \in 0..(n + 3) : k = 0 \/ k = 1 \/ k = 2 \/ k = n + 3 \/ \E l \in 1..n : k = l + 2
  <2> TAKE k \in 0..(n + 3)
  <2>1. CASE k <= 2
    BY <2>1
  <2>2. CASE ~ (k <= 2) /\ k # n + 3
    <3>1. k - 2 \in 1..n /\ k = (k - 2) + 2
      BY <2>2
    <3> QED
      BY <3>1
  <2> QED
    BY <2>1, <2>2
<1>12. d \in [0..(n + 3) -> Nat]
  <2>1. \A k \in 0..(n + 3) : d[k] \in Nat
    <3> TAKE k \in 0..(n + 3)
    <3>1. \A l \in 1..n : d[l + 2] \in Nat
      <4> TAKE l \in 1..n
      <4>1. d[l + 2] = 4 + c[l]
        BY <1>9
      <4>2. c[l] \in Nat
        BY <1>c
      <4> QED
        BY <4>1, <4>2
    <3>2. d[0] \in Nat /\ d[1] \in Nat /\ d[2] \in Nat /\ d[n + 3] \in Nat
      BY <1>9
    <3> QED
      BY <3>1, <3>2, <1>11
  <2> QED
    BY <2>1, <1>10
<1>13. \A k \in 1..(n + 3) : d[k - 1] < d[k]
  <2> TAKE k \in 1..(n + 3)
  <2>0. k \in 0..(n + 3) /\ k # 0
    OBVIOUS
  <2>1. CASE k = 1
    BY <2>1, <1>9
  <2>2. CASE k = 2
    BY <2>2, <1>9
  <2>3. CASE k = n + 3
    <3>1. k - 1 = n + 2
      BY <2>3
    <3> QED
      BY <2>3, <3>1, <1>9
  <2>4. ASSUME NEW l \in 1..n, k = l + 2 PROVE d[k - 1] < d[k]
    <3>1. k - 1 = l + 1
      BY <2>4
    <3>2. PICK x \in Nat, y \in Nat, w \in Nat \ {0} :
             x = c[l - 1] /\ y = c[l] /\ w = Len(q[l]) /\ y = x + w
      BY <1>g
    <3>3. 4 + x < 4 + y
      BY <3>2
    <3> QED
      BY <2>4, <3>1, <3>2, <3>3, <1>9
  <2> QED
    BY <2>0, <2>1, <2>2, <2>3, <2>4, <1>11
<1>14. \A a, b \in 0..(n + 3) : a < b => d[a] < d[b]
  <2>1. n + 3 \in Nat
    OBVIOUS
  <2> QED
    BY <2>1, <1>12, <1>13, StepsUp
<1>15. Cuts(s, NL, n + 2, d)
  <2>1. \A k \in 1..(n + 2) : d[k] \in 1..Len(s) /\ s[d[k]] = NL
    <3> TAKE k \in 1..(n + 2)
    <3>0. k \in 0..(n + 3) /\ k # 0 /\ k # n + 3
      OBVIOUS
    <3>1. CASE k = 1 \/ k = 2
      BY <3>1, <1>5, <1>9
    <3>2. ASSUME NEW l \in 1..n, k = l + 2 PROVE d[k] \in 1..Len(s) /\ s[d[k]] = NL
      <4>1. PICK y \in 1..z : y = c[l] /\ text[y] = NL
        BY <1>7
      <4>2. d[k] = 4 + y /\ 4 + y \in 1..(4 + z)
        BY <3>2, <4>1, <1>9
      <4> QED
        BY <4>1, <4>2, <1>5
    <3> QED
      BY <3>0, <3>1, <3>2, <1>11
  <2>2. \A i \in 1..Len(s) : s[i] = NL => \E k \in 1..(n + 2) : d[k] = i
    <3> SUFFICES ASSUME NEW i \in 1..(4 + z), s[i] = NL
                 PROVE  \E k \in 1..(n + 2) : d[k] = i
      BY <1>5
    <3>1. CASE i = 2 \/ i = 4
      <4>1. 1 \in 1..(n + 2) /\ 2 \in 1..(n + 2)
        OBVIOUS
      <4> QED
        BY <3>1, <4>1, <1>9
    <3>2. ASSUME NEW j \in 1..z, i = 4 + j PROVE \E k \in 1..(n + 2) : d[k] = i
      <4>1. text[j] = NL
        BY <3>2, <1>5
      <4>2. PICK k \in 1..n : \E a \in 1..Len(q[k]) : j = c[k - 1] + a
        BY <1>p, <1>z
      <4>3. PICK a \in 1..Len(q[k]) : j = c[k - 1] + a
        BY <4>2
      <4>4. q[k][a] = NL
        BY <4>1, <4>3, <1>c
      <4>5. a = Len(q[k])
        <5>1. Len(q[k]) \in Nat /\ \A b \in 1..(Len(q[k]) - 1) : q[k][b] # NL
          BY <1>2 DEF IsLine
        <5>2. a # Len(q[k]) => a \in 1..(Len(q[k]) - 1)
          BY <5>1
        <5> QED
          BY <4>4, <5>1, <5>2
      <4>6. j = c[k]
        BY <4>3, <4>5, <1>c
      <4>7. d[k + 2] = i /\ k + 2 \in 1..(n + 2)
        BY <3>2, <4>6, <1>9
      <4> QED
        BY <4>7
    <3> QED
      BY <3>1, <3>2, <1>5, <1>6, <1>d
  <2>3. (n + 2) + 1 = n + 3 /\ Len(s) + 1 = 5 + z /\ n + 2 \in Nat
    BY <1>5
  <2> QED
    BY <2>1, <2>2, <2>3, <1>9, <1>12, <1>14 DEF Cuts
<1>16. Lines(s) = [k \in 1..(n + 2) |-> SubSeq(s, d[k - 1] + 1, d[k] - 1)]
  <2>1. Split(s, NL) = Pieces(s, n + 2, d)
    BY <1>5, <1>15, SplitIs
  <2>2. d[n + 2] = Len(s)
    BY <1>5, <1>9
  <2> QED
    BY <2>1, <2>2 DEF Pieces, Lines
<1>17. Len(Lines(s)) = n + 2
  <2>1. n + 2 \in Nat
    OBVIOUS
  <2> QED
    BY <2>1, <1>16
<1>18. \A l \in 1..n : Split(Lines(s)[l + 2], SEMICOLON) = m[l]
  <2> TAKE l \in 1..n
  <2>1. l + 2 \in 1..(n + 2) /\ (l + 2) - 1 = l + 1
    OBVIOUS
  <2>2. Lines(s)[l + 2] = SubSeq(s, d[l + 1] + 1, d[l + 2] - 1)
    BY <2>1, <1>16
  <2>3. PICK x \in Nat, y \in Nat, w \in Nat \ {0} :
           x = c[l - 1] /\ y = c[l] /\ w = Len(q[l]) /\ y = x + w
    BY <1>g
  <2>4. y = x + w /\ y \in 1..z
    BY <2>3, <1>7
  <2>5. d[l + 1] = 4 + x /\ d[l + 2] = 4 + y
    BY <2>3, <1>9
  <2>6. 4 + x + (w - 1) = (4 + y) - 1 /\ 4 + x \in Nat /\ w - 1 \in Nat
    BY <2>4
  <2>7. Lines(s)[l + 2] = SubSeq(s, (4 + x) + 1, (4 + x) + (w - 1))
    BY <2>2, <2>5, <2>6
  <2>8. q[l] \in Seq(Int)
    BY <1>2 DEF IsLine
  <2>9. \A i \in 1..(w - 1) : s[(4 + x) + i] = q[l][i]
    <3> TAKE i \in 1..(w - 1)
    <3>1. i \in 1..w /\ (4 + x) + i = 4 + (x + i) /\ x + i \in 1..z
      BY <2>4
    <3>2. text[x + i] = q[l][i]
      BY <3>1, <2>3, <1>c
    <3> QED
      BY <3>1, <3>2, <1>5
  <2>10. w - 1 <= Len(q[l]) /\ (4 + x) + (w - 1) <= Len(s)
    <3>1. Len(q[l]) = w /\ Len(s) = 4 + z
      BY <2>3, <1>5
    <3> QED
      BY <3>1, <2>4
  <2>11. Lines(s)[l + 2] = SubSeq(q[l], 1, w - 1)
    <3>1. PICK x0 \in Nat, w0 \in Nat : x0 = 4 + x /\ w0 = w - 1
      BY <2>6
    <3>2. /\ w0 <= Len(q[l]) /\ x0 + w0 <= Len(s)
          /\ \A i \in 1..w0 : s[x0 + i] = q[l][i]
      BY <3>1, <2>9, <2>10
    <3>3. SubSeq(s, x0 + 1, x0 + w0) = SubSeq(q[l], 1, w0)
      BY <3>2, <2>8, <1>5, SameStretch
    <3> QED
      BY <3>1, <3>3, <2>7
  <2> QED
    BY <2>11, <2>3, <1>2
<1>19. Decode(s) = m
  <2>1. Decode(s) = [l \in 1..n |-> Split(Lines(s)[l + 2], SEMICOLON)]
    BY <1>17 DEF Decode
  <2>2. m = [l \in 1..n |-> m[l]]
    BY <1>0, LenProperties DEF Manifests
  <2> QED
    BY <2>1, <2>2, <1>18
<1>20. s # <<>>
  <2>1. Len(<<>>) = 0
    OBVIOUS
  <2> QED
    BY <2>1, <1>5
<1> QED
  BY <1>8, <1>19, <1>20 DEF s

(* The two lines BuildMetadataFile writes, and an empty file, list nothing.*)
LEMMA DecodeNew ==
    /\ Tidy(<<>>) /\ Decode(<<>>) = <<>>
    /\ Tidy(<<PATH, NL, LOG>>) /\ Decode(<<PATH, NL, LOG>>) = <<>>
<1>1. Tidy(<<>>)
  BY DEF Tidy
<1>2. Tidy(<<PATH, NL, LOG>>)
  <2>1. <<PATH, NL, LOG>> \in Seq(Int) /\ Len(<<PATH, NL, LOG>>) = 3
    BY DEF PATH, NL, LOG
  <2>2. \A i \in 1..3 : <<PATH, NL, LOG>>[i] # SEMICOLON
    BY DEF PATH, NL, LOG, SEMICOLON
  <2>3. <<PATH, NL, LOG>>[1] = PATH
    OBVIOUS
  <2> QED
    BY <2>1, <2>2, <2>3 DEF Tidy
<1>3. Decode(<<>>) = <<>>
  <2> DEFINE d == [k \in 0..1 |-> k]
  <2>1. d \in [0..1 -> Nat] /\ d[0] = 0 /\ d[1] = 1 /\ \A a, b \in 0..1 : a < b => d[a] < d[b]
    OBVIOUS
  <2>2. Len(<<>>) = 0 /\ 1..0 = {} /\ 0 + 1 = 1 /\ <<>> \in Seq(Int)
    OBVIOUS
  <2> HIDE DEF d
  <2>3. Cuts(<<>>, NL, 0, d)
    BY <2>1, <2>2 DEF Cuts
  <2>4. Split(<<>>, NL) = Pieces(<<>>, 0, d)
    BY <2>2, <2>3, SplitIs
  <2>5. Pieces(<<>>, 0, d) = [k \in 1..0 |-> SubSeq(<<>>, d[k - 1] + 1, d[k] - 1)]
    BY <2>1, <2>2 DEF Pieces
  <2>6. Lines(<<>>) = <<>>
    BY <2>2, <2>4, <2>5 DEF Lines
  <2>7. 1..(0 - 2) = {}
    OBVIOUS
  <2> QED
    BY <2>2, <2>6, <2>7 DEF Decode
<1>4. Decode(<<PATH, NL, LOG>>) = <<>>
  <2> DEFINE s == <<PATH, NL, LOG>>
             d == [k \in 0..2 |-> 2 * k]
  <2>1. /\ d \in [0..2 -> Nat] /\ d[0] = 0 /\ d[1] = 2 /\ d[2] = 4
        /\ \A a, b \in 0..2 : a < b => d[a] < d[b]
    OBVIOUS
  <2>2. /\ s \in Seq(Int) /\ Len(s) = 3 /\ s[2] = NL /\ s[1] # NL /\ s[3] # NL
    BY DEF PATH, NL, LOG
  <2> HIDE DEF d, s
  <2>3. Cuts(s, NL, 1, d)
    <3>1. \A k \in 1..1 : d[k] \in 1..3 /\ s[d[k]] = NL
      BY <2>1, <2>2
    <3>2. \A i \in 1..3 : s[i] = NL => \E k \in 1..1 : d[k] = i
      BY <2>1, <2>2
    <3>3. 1 + 1 = 2 /\ 3 + 1 = 4
      OBVIOUS
    <3> QED
      BY <3>1, <3>2, <3>3, <2>1, <2>2 DEF Cuts
  <2>4. Split(s, NL) = Pieces(s, 1, d)
    BY <2>2, <2>3, SplitIs
  <2>5. d[1] # Len(s) /\ 1 + 1 = 2
    BY <2>1, <2>2
  <2>6. Lines(s) = [k \in 1..2 |-> SubSeq(s, d[k - 1] + 1, d[k] - 1)]
    BY <2>4, <2>5 DEF Lines, Pieces
  <2>7. Len(Lines(s)) = 2 /\ 1..(2 - 2) = {}
    BY <2>6
  <2>8. Decode(s) = <<>>
    BY <2>7 DEF Decode
  <2> QED
    BY <2>8 DEF s
<1> QED
  BY <1>1, <1>2, <1>3, <1>4

(* Tidy text stays tidy when it is cut short or continued.                 *)
LEMMA TidyPrefix ==
    ASSUME NEW a \in Seq(Int), NEW b \in Seq(Int), Tidy(a \o b)
    PROVE  Tidy(a)
<1>0. PICK m \in Nat, k \in Nat : m = Len(a) /\ k = Len(b)
  BY LenProperties
<1>1. Len(a \o b) = m + k /\ \A i \in 1..(m + k) : (a \o b)[i] = IF i <= m THEN a[i] ELSE b[i - m]
  BY <1>0, ConcatProperties
<1>2. \A i \in 1..m : i \in 1..(m + k) /\ (a \o b)[i] = a[i]
  BY <1>1
<1>3. ASSUME NEW i \in 1..m, a[i] = SEMICOLON PROVE i > 1 /\ a[i - 1] \in Chars
  <2>1. i > 1 /\ (a \o b)[i - 1] \in Chars
    BY <1>1, <1>2, <1>3 DEF Tidy
  <2>2. i - 1 \in 1..m
    BY <2>1
  <2> QED
    BY <2>1, <2>2, <1>2
<1>4. a = <<>> \/ a[1] = PATH
  <2>1. CASE m = 0
    BY <2>1, <1>0, EmptySeq
  <2>2. CASE m # 0
    <3>1. 1 \in 1..m /\ m + k # 0
      BY <2>2
    <3>2. a \o b # <<>>
      <4>1. Len(<<>>) = 0
        OBVIOUS
      <4> QED
        BY <3>1, <4>1, <1>1
    <3> QED
      BY <3>1, <3>2, <1>2 DEF Tidy
  <2> QED
    BY <2>1, <2>2
<1> QED
  BY <1>0, <1>3, <1>4 DEF Tidy

(* A manifest may follow another one that was not truncated.               *)
LEMMA TidyConcat ==
    ASSUME NEW a, NEW b, Tidy(a), Tidy(b)
    PROVE  Tidy(a \o b)
<1>s. a \in Seq(Int) /\ b \in Seq(Int)
  BY DEF Tidy
<1>0. PICK m \in Nat, k \in Nat : m = Len(a) /\ k = Len(b)
  BY <1>s, LenProperties
<1>1. /\ a \o b \in Seq(Int) /\ Len(a \o b) = m + k
      /\ \A i \in 1..(m + k) : (a \o b)[i] = IF i <= m THEN a[i] ELSE b[i - m]
  BY <1>0, <1>s, ConcatProperties
<1>2. ASSUME NEW i \in 1..(m + k), (a \o b)[i] = SEMICOLON
      PROVE  i > 1 /\ (a \o b)[i - 1] \in Chars
  <2>1. CASE i <= m
    <3>1. i \in 1..m /\ a[i] = SEMICOLON
      BY <2>1, <1>1, <1>2
    <3>2. i > 1 /\ a[i - 1] \in Chars
      BY <3>1, <1>0 DEF Tidy
    <3>3. i - 1 \in 1..(m + k) /\ i - 1 <= m
      BY <3>1, <3>2
    <3> QED
      BY <3>2, <3>3, <1>1
  <2>2. CASE ~ (i <= m)
    <3>1. i - m \in 1..k
      BY <2>2
    <3>2. b[i - m] = SEMICOLON
      BY <2>2, <1>1, <1>2
    <3>3. i - m > 1 /\ b[(i - m) - 1] \in Chars
      BY <3>1, <3>2, <1>0 DEF Tidy
    <3>4. i > 1 /\ i - 1 \in 1..(m + k) /\ ~ (i - 1 <= m) /\ (i - 1) - m = (i - m) - 1
      BY <3>1, <3>3
    <3>5. (a \o b)[i - 1] = b[(i - 1) - m]
      BY <3>4, <1>1
    <3> QED
      BY <3>3, <3>4, <3>5
  <2> QED
    BY <2>1, <2>2
<1>3. a \o b = <<>> \/ (a \o b)[1] = PATH
  <2>1. CASE m = 0
    <3>1. a = <<>>
      BY <2>1, <1>0, <1>s, EmptySeq
    <3>2. a \o b = b
      BY <3>1, <1>s, ConcatEmptySeq
    <3> QED
      BY <3>2 DEF Tidy
  <2>2. CASE m # 0
    <3>1. 1 \in 1..(m + k) /\ 1 <= m /\ a # <<>>
      BY <2>2, <1>0
    <3> QED
      BY <3>1, <1>1 DEF Tidy
  <2> QED
    BY <2>1, <2>2
<1> QED
  BY <1>1, <1>2, <1>3 DEF Tidy

-----------------------------------------------------------------------------
(* The number of a file makes a name.                                      *)
LEMMA NameType ==
    ASSUME NEW n \in Nat
    PROVE  Name(n) \in Names
<1>1. 0 \in Chars /\ n \in Chars
  BY DEF Chars, NL, SEMICOLON
<1>2. <<0, n>> \in Seq(Chars) /\ <<0, n>> # <<>>
  BY <1>1
<1> QED
  BY <1>2 DEF Name, Names

(* What the levels of a manifest are.                                      *)
LEMMA LevelsType ==
    ASSUME NEW m \in Manifests
    PROVE  /\ Len(m) \in Nat /\ DOMAIN m = 1..Len(m) /\ m \in [1..Len(m) -> Seq(Names)]
           /\ \A l \in 1..Len(m) : /\ m[l] \in Seq(Names) /\ Len(m[l]) \in Nat
                                   /\ DOMAIN m[l] = 1..Len(m[l])
                                   /\ \A i \in 1..Len(m[l]) : m[l][i] \in Names
<1>1. Len(m) \in Nat /\ DOMAIN m = 1..Len(m) /\ m \in [1..Len(m) -> Seq(Names)]
  BY LenProperties DEF Manifests
<1>2. ASSUME NEW l \in 1..Len(m)
      PROVE  /\ m[l] \in Seq(Names) /\ Len(m[l]) \in Nat /\ DOMAIN m[l] = 1..Len(m[l])
             /\ \A i \in 1..Len(m[l]) : m[l][i] \in Names
  <2>1. m[l] \in Seq(Names)
    BY <1>1
  <2> QED
    BY <2>1, LenProperties, ElementOfSeq
<1> QED
  BY <1>1, <1>2

(* The files of a manifest, by their places.                               *)
LEMMA FilesOfPlaces ==
    ASSUME NEW m \in Manifests, NEW f
    PROVE  f \in FilesOf(m) <=> \E l \in 1..Len(m) : \E i \in 1..Len(m[l]) : f = m[l][i]
<1>1. f \in FilesOf(m) <=> \E l \in DOMAIN m : f \in Range(m[l])
  BY Zenon DEF FilesOf
<1>2. \A l \in 1..Len(m) : f \in Range(m[l]) <=> \E i \in 1..Len(m[l]) : f = m[l][i]
  BY LevelsType, Zenon DEF Range
<1> QED
  BY <1>1, <1>2, LevelsType, Zenon

-----------------------------------------------------------------------------
(* A level 0 file is added to level 0, which may not have been there.      *)
LEMMA PushProperties ==
    ASSUME manifest \in Manifests, NEW f \in Names
    PROVE  /\ Level0Push(f) \in Manifests
           /\ FilesOf(Level0Push(f)) = FilesOf(manifest) \union {f}
<1> DEFINE p == Level0Push(f)
<1>1. CASE manifest = <<>>
  <2>1. p = <<<<f>>>>
    BY <1>1 DEF Level0Push
  <2>2. /\ <<f>> \in Seq(Names) /\ Len(<<f>>) = 1 /\ <<f>>[1] = f
        /\ \A q \in Seq(Names) : <<q>> \in Manifests /\ Len(<<q>>) = 1 /\ <<q>>[1] = q
    BY DEF Manifests
  <2>3. p \in Manifests /\ Len(p) = 1 /\ Len(p[1]) = 1 /\ p[1][1] = f
    BY <2>1, <2>2
  <2> HIDE DEF p
  <2>4. \A g : g \in FilesOf(p) <=> g = f
    BY <2>3, FilesOfPlaces
  <2>5. FilesOf(manifest) = {}
    BY <1>1 DEF FilesOf
  <2>6. FilesOf(p) = FilesOf(manifest) \union {f}
    BY <2>4, <2>5
  <2> QED
    BY <2>3, <2>6 DEF p
<1>2. CASE manifest # <<>>
  <2>1. PICK n \in Nat \ {0} : n = Len(manifest)
    BY <1>2, LenProperties, EmptySeq DEF Manifests
  <2>2. 1 \in 1..n /\ manifest[1] \in Seq(Names)
    BY <2>1, LevelsType
  <2> DEFINE q == Append(manifest[1], f)
  <2>3. PICK k \in Nat : k = Len(manifest[1])
    BY <2>2, LenProperties
  <2>4. /\ q \in Seq(Names) /\ Len(q) = k + 1
        /\ \A i \in 1..k : q[i] = manifest[1][i]
        /\ q[k + 1] = f
    BY <2>2, <2>3, AppendProperties
  <2>5. p = [manifest EXCEPT ![1] = q]
    BY <1>2 DEF Level0Push
  <2> HIDE DEF q, p
  <2>6. /\ p \in Manifests /\ Len(p) = n
        /\ \A l \in 1..n : p[l] = IF l = 1 THEN q ELSE manifest[l]
    BY <2>1, <2>2, <2>4, <2>5, ExceptSeq DEF Manifests
  <2>7. \A g : g \in FilesOf(p) <=> g \in FilesOf(manifest) \/ g = f
    <3> SUFFICES ASSUME NEW g
                 PROVE  g \in FilesOf(p) <=> g \in FilesOf(manifest) \/ g = f
      OBVIOUS
    <3>1. /\ g \in FilesOf(p) <=> \E l \in 1..n : \E i \in 1..Len(p[l]) : g = p[l][i]
          /\ g \in FilesOf(manifest) <=>
                \E l \in 1..n : \E i \in 1..Len(manifest[l]) : g = manifest[l][i]
      BY <2>1, <2>6, FilesOfPlaces
    <3>2. ASSUME NEW l \in 1..n, NEW i \in 1..Len(p[l]), g = p[l][i]
          PROVE  g \in FilesOf(manifest) \/ g = f
      <4>1. CASE l = 1
        <5>1. i \in 1..(k + 1) /\ g = q[i]
          BY <4>1, <3>2, <2>4, <2>6
        <5>2. i = k + 1 \/ i \in 1..k
          BY <5>1
        <5> QED
          BY <5>1, <5>2, <3>1, <2>2, <2>3, <2>4
      <4>2. CASE l # 1
        BY <4>2, <3>1, <3>2, <2>6
      <4> QED
        BY <4>1, <4>2
    <3>3. ASSUME NEW l \in 1..n, NEW i \in 1..Len(manifest[l]), g = manifest[l][i]
          PROVE  g \in FilesOf(p)
      <4>1. CASE l = 1
        <5>1. i \in 1..k /\ i \in 1..Len(p[1]) /\ g = p[1][i]
          BY <4>1, <3>3, <2>2, <2>3, <2>4, <2>6
        <5> QED
          BY <5>1, <3>1, <2>2
      <4>2. CASE l # 1
        BY <4>2, <3>1, <3>3, <2>6
      <4> QED
        BY <4>1, <4>2
    <3>4. f \in FilesOf(p)
      <4>1. k + 1 \in 1..Len(p[1]) /\ f = p[1][k + 1]
        BY <2>2, <2>4, <2>6
      <4> QED
        BY <4>1, <2>2, <2>6, FilesOfPlaces
    <3> QED
      BY <3>1, <3>2, <3>3, <3>4
  <2>8. FilesOf(p) = FilesOf(manifest) \union {f}
    BY <2>7
  <2> QED
    BY <2>6, <2>8 DEF p
<1> QED
  BY <1>1, <1>2

-----------------------------------------------------------------------------
(* The next level of a manifest, which may not be there yet.               *)
LEMMA LevelType ==
    ASSUME manifest \in Manifests, NEW l \in Nat \ {0}
    PROVE  /\ Level(l) \in Seq(Names) /\ Len(Level(l)) \in Nat
           /\ l \in 1..Len(manifest) => Level(l) = manifest[l]
<1>1. Level(l) \in Seq(Names) /\ (l \in 1..Len(manifest) => Level(l) = manifest[l])
  <2>1. CASE l <= Len(manifest)
    BY <2>1, LevelsType DEF Level
  <2>2. CASE ~ (l <= Len(manifest))
    BY <2>2, LevelsType, EmptySeq DEF Level
  <2> QED
    BY <2>1, <2>2
<1> QED
  BY <1>1, LenProperties

(* Between the first files of a level and the last ones comes the new one. *)
Replaced(q, first, last, f) ==
    SubSeq(q, 1, first) \o <<f>> \o SubSeq(q, last + 1, Len(q))

(* The files whose place it takes.                                         *)
Merged(q, first, last) == Range(SubSeq(q, first + 1, last))

(* All other files of the level stay in it.                                *)
LEMMA ReplacedProperties ==
    ASSUME NEW q \in Seq(Names), NEW first \in 0..Len(q), NEW last \in first..Len(q),
           NEW f \in Names, NEW r, r = Replaced(q, first, last, f)
    PROVE  /\ r \in Seq(Names)
           /\ f \in Range(r)
           /\ Range(r) \subseteq Range(q) \union {f}
           /\ Range(q) \subseteq Range(r) \union Merged(q, first, last)
<1> DEFINE a == SubSeq(q, 1, first)
           b == SubSeq(q, first + 1, last)
           d == SubSeq(q, last + 1, Len(q))
<1>1. PICK n \in Nat : n = Len(q)
  BY LenProperties
<1>2. \A i \in 1..n : q[i] \in Names
  BY <1>1, ElementOfSeq
<1>3. /\ first \in 0..n /\ last \in first..n /\ first \in Int /\ last \in Int /\ last <= n
  BY <1>1
<1>4. a \in Seq(Names) /\ b \in Seq(Names) /\ d \in Seq(Names)
  <2>1. /\ \A i \in 1..first : q[i] \in Names
        /\ \A i \in (first + 1)..last : q[i] \in Names
        /\ \A i \in (last + 1)..n : q[i] \in Names
    BY <1>2, <1>3
  <2> QED
    BY <2>1, <1>1, <1>3, SubSeqProperties
<1>5. a \o b = SubSeq(q, 1, last)
  <2>1. /\ 1 \in 1..(Len(q) + 1) /\ first \in (1 - 1)..Len(q) /\ last \in first..Len(q)
    BY <1>1, <1>3
  <2> QED
    BY <2>1, ConcatAdjacentSubSeq
<1>6. (a \o b) \o d = q
  <2>1. /\ 1 \in 1..(Len(q) + 1) /\ last \in (1 - 1)..Len(q) /\ Len(q) \in last..Len(q)
    BY <1>1, <1>3
  <2>2. SubSeq(q, 1, last) \o d = SubSeq(q, 1, Len(q))
    BY <2>1, ConcatAdjacentSubSeq
  <2>3. SubSeq(q, 1, Len(q)) = q
    BY SubSeqFull
  <2> QED
    BY <2>2, <2>3, <1>5
<1>7. /\ a \o b \in Seq(Names)
      /\ Range(q) = (Range(a) \union Range(b)) \union Range(d)
  <2> HIDE DEF a, b, d
  <2>1. a \o b \in Seq(Names)
    BY <1>4, ConcatProperties
  <2>2. Range(a \o b) = Range(a) \union Range(b)
    BY <1>4, RangeConcatenation
  <2>3. Range((a \o b) \o d) = Range(a \o b) \union Range(d)
    <3> DEFINE e == a \o b
    <3>1. e \in Seq(Names)
      BY <2>1
    <3> HIDE DEF e
    <3>2. Range(e \o d) = Range(e) \union Range(d)
      BY <3>1, <1>4, RangeConcatenation
    <3> QED
      BY <3>2 DEF e
  <2> QED
    BY <2>1, <2>2, <2>3, <1>6
<1>8. r = (a \o <<f>>) \o d
  BY DEF Replaced
<1> HIDE DEF a, b, d
<1>9. <<f>> \in Seq(Names) /\ Range(<<f>>) = {f}
  <2>1. <<f>> \in Seq(Names) /\ DOMAIN <<f>> = 1..1 /\ <<f>>[1] = f
    OBVIOUS
  <2> QED
    BY <2>1 DEF Range
<1>10. r \in Seq(Names) /\ Range(r) = (Range(a) \union {f}) \union Range(d)
  <2> DEFINE x == <<f>>
             e == a \o x
  <2>0. x \in Seq(Names) /\ Range(x) = {f}
    BY <1>9
  <2> HIDE DEF x
  <2>1. e \in Seq(Names) /\ Range(e) = Range(a) \union {f}
    <3>1. e \in Seq(Names)
      BY <1>4, <2>0, ConcatProperties
    <3>2. Range(e) = Range(a) \union Range(x)
      BY <1>4, <2>0, RangeConcatenation
    <3> QED
      BY <3>1, <3>2, <2>0
  <2>5. r = e \o d
    BY <1>8 DEF x
  <2> HIDE DEF e
  <2>3. r \in Seq(Names)
    BY <2>1, <2>5, <1>4, ConcatProperties
  <2>4. Range(e \o d) = Range(e) \union Range(d)
    BY <2>1, <1>4, RangeConcatenation
  <2> QED
    BY <2>1, <2>3, <2>4, <2>5
<1> QED
  BY <1>7, <1>10 DEF b, Merged

(* UpdateManifest loses no file but the ones that were merged.             *)
LEMMA UpdateProperties ==
    ASSUME manifest \in Manifests, NEW l \in 1..Len(manifest), NEW out,
           NEW first \in 0..Len(Level(l + 1)), NEW last \in first..Len(Level(l + 1)),
           NEW f \in Names, NEW u, u = UpdateManifest(l, out, first, last, f)
    PROVE  /\ u \in Manifests
           /\ f \in FilesOf(u)
           /\ \A g \in FilesOf(u) : g = f \/ g \in FilesOf(manifest)
           /\ \A g \in FilesOf(manifest) :
                 \/ g \in FilesOf(u)
                 \/ g \in {manifest[l][k] : k \in out}
                 \/ g \in Range(SubSeq(Level(l + 1), first + 1, last))
<1> DEFINE next == Level(l + 1)
           leave == {manifest[l][k] : k \in out}
           K == {k \in DOMAIN manifest[l] : manifest[l][k] \notin leave}
           stay == InOrder(K)
           rest == [i \in DOMAIN stay |-> manifest[l][stay[i]]]
           r == Replaced(next, first, last, f)
           merged == Merged(next, first, last)
<1>1. PICK n \in Nat : n = Len(manifest)
  BY LevelsType
<1>2. /\ l \in 1..n /\ l \in Nat \ {0} /\ l + 1 \in Nat \ {0}
      /\ \A i \in 1..n : manifest[i] \in Seq(Names)
  BY <1>1, LevelsType
<1>3. next \in Seq(Names) /\ (l + 1 \in 1..n => next = manifest[l + 1])
  BY <1>1, <1>2, LevelType
<1>4. PICK top \in Nat : top = (IF l = n THEN l + 1 ELSE n) /\ l + 1 \in 1..top /\ n <= top
  BY <1>2
<1>5. u = [i \in 1..top |-> IF i = l THEN rest ELSE IF i = l + 1 THEN r ELSE manifest[i]]
  BY <1>1, <1>4 DEF UpdateManifest, Replaced
<1>6. /\ r \in Seq(Names)
      /\ \E i \in 1..Len(r) : r[i] = f
      /\ \A i \in 1..Len(r) : r[i] = f \/ \E j \in 1..Len(next) : r[i] = next[j]
      /\ \A j \in 1..Len(next) : (\E i \in 1..Len(r) : r[i] = next[j]) \/ next[j] \in merged
  <2>1. first \in 0..Len(next) /\ last \in first..Len(next)
    OBVIOUS
  <2> HIDE DEF next
  <2>2. next \in Seq(Names) /\ f \in Names
    BY <1>3
  <2>3. /\ r \in Seq(Names) /\ f \in Range(r)
        /\ Range(r) \subseteq Range(next) \union {f}
        /\ Range(next) \subseteq Range(r) \union merged
    BY <2>1, <2>2, ReplacedProperties
  <2> HIDE DEF r, merged
  <2>4. /\ \A g : g \in Range(r) <=> \E i \in 1..Len(r) : g = r[i]
        /\ \A g : g \in Range(next) <=> \E i \in 1..Len(next) : g = next[i]
    BY <2>2, <2>3, RangeEquality
  <2> QED
    BY <2>3, <2>4
<1>7. PICK h \in Nat : h = Len(manifest[l]) /\ DOMAIN manifest[l] = 1..h
                       /\ \A i \in 1..h : manifest[l][i] \in Names
  BY <1>1, <1>2, LevelsType
<1>8. K \in SUBSET (1..h)
  BY <1>7
<1>9. PICK c \in Nat :
         /\ stay \in [1..c -> K]
         /\ \A i \in K : \E a \in 1..c : stay[a] = i
  <2> HIDE DEF K
  <2> QED
    BY <1>7, <1>8, InOrderProperties
<1>10. \A i \in 1..h : manifest[l][i] \in leave \/ i \in K
  BY <1>7
<1> HIDE DEF K, leave, r, next, merged
<1>11. /\ rest \in Seq(Names) /\ Len(rest) = c
       /\ \A a \in 1..c : stay[a] \in 1..h /\ rest[a] = manifest[l][stay[a]]
  <2>1. DOMAIN stay = 1..c /\ \A a \in 1..c : stay[a] \in 1..h
    BY <1>8, <1>9
  <2>2. rest \in [1..c -> Names] /\ \A a \in 1..c : rest[a] = manifest[l][stay[a]]
    BY <2>1, <1>7
  <2> HIDE DEF rest
  <2>3. rest \in Seq(Names) /\ Len(rest) = c
    BY <2>2
  <2> QED
    BY <2>1, <2>2, <2>3
<1> HIDE DEF rest, stay
<1>12. /\ u \in Manifests /\ Len(u) = top
       /\ u[l] = rest /\ u[l + 1] = r
       /\ \A i \in 1..top : i # l /\ i # l + 1 => u[i] = manifest[i]
  <2>1. \A i \in 1..top : i # l /\ i # l + 1 => i \in 1..n
    BY <1>2, <1>4
  <2>2. \A i \in 1..top : (IF i = l THEN rest ELSE IF i = l + 1 THEN r ELSE manifest[i])
                             \in Seq(Names)
    BY <2>1, <1>2, <1>6, <1>11
  <2>3. u \in [1..top -> Seq(Names)]
    BY <2>2, <1>5
  <2>4. u \in Seq(Seq(Names)) /\ Len(u) = top
    BY <2>3
  <2>5. l \in 1..top /\ l # l + 1 /\ l + 1 \in 1..top
    BY <1>2, <1>4
  <2> QED
    BY <2>4, <2>5, <1>5 DEF Manifests
<1>13. l \in 1..top /\ l + 1 \in 1..top /\ \A i \in 1..n : i \in 1..top
  BY <1>2, <1>4
<1>14. f \in FilesOf(u)
  BY <1>6, <1>12, <1>13, FilesOfPlaces
<1>15. ASSUME NEW g \in FilesOf(u)
       PROVE  g = f \/ g \in FilesOf(manifest)
  <2>0. PICK i \in 1..top : \E j \in 1..Len(u[i]) : g = u[i][j]
    BY <1>12, FilesOfPlaces
  <2>1. PICK j \in 1..Len(u[i]) : g = u[i][j]
    BY <2>0
  <2>2. CASE i = l
    <3>1. j \in 1..c /\ g = rest[j]
      BY <2>1, <2>2, <1>11, <1>12
    <3>2. stay[j] \in 1..Len(manifest[l]) /\ g = manifest[l][stay[j]]
      BY <3>1, <1>7, <1>11
    <3> QED
      BY <3>2, <1>1, <1>2, FilesOfPlaces
  <2>3. CASE i = l + 1
    <3>1. j \in 1..Len(r) /\ g = r[j]
      BY <2>1, <2>3, <1>12
    <3>2. CASE \E k \in 1..Len(next) : g = next[k]
      <4>1. PICK k \in 1..Len(next) : g = next[k]
        BY <3>2
      <4>2. l + 1 \in 1..n
        <5>1. CASE l + 1 \in 1..n
          BY <5>1
        <5>2. CASE ~ (l + 1 \in 1..n)
          <6>1. ~ (l + 1 <= n)
            BY <5>2, <1>2
          <6>2. Level(l + 1) = <<>>
            BY <6>1, <1>1 DEF Level
          <6>3. Len(next) = 0
            BY <6>2 DEF next
          <6> QED
            BY <6>3
        <5> QED
          BY <5>1, <5>2
      <4>3. k \in 1..Len(manifest[l + 1]) /\ g = manifest[l + 1][k]
        BY <4>1, <4>2, <1>3
      <4> QED
        BY <4>2, <4>3, <1>1, FilesOfPlaces
    <3> QED
      BY <3>1, <3>2, <1>6
  <2>4. CASE i # l /\ i # l + 1
    <3>1. i \in 1..n /\ u[i] = manifest[i]
      BY <2>4, <1>2, <1>4, <1>12
    <3> QED
      BY <3>1, <2>1, <1>1, FilesOfPlaces
  <2> QED
    BY <2>2, <2>3, <2>4
<1>16. ASSUME NEW g \in FilesOf(manifest)
       PROVE  g \in FilesOf(u) \/ g \in leave \/ g \in merged
  <2>0. PICK i \in 1..n : \E j \in 1..Len(manifest[i]) : g = manifest[i][j]
    BY <1>1, FilesOfPlaces
  <2>1. PICK j \in 1..Len(manifest[i]) : g = manifest[i][j]
    BY <2>0
  <2>2. CASE i = l
    <3>1. j \in 1..h
      BY <2>1, <2>2, <1>7
    <3>2. CASE j \in K
      <4>1. PICK a \in 1..c : stay[a] = j
        BY <3>2, <1>9
      <4>2. a \in 1..Len(u[l]) /\ g = u[l][a]
        BY <4>1, <2>1, <2>2, <1>11, <1>12
      <4> QED
        BY <4>2, <1>12, <1>13, FilesOfPlaces
    <3> QED
      BY <3>1, <3>2, <2>1, <2>2, <1>10
  <2>3. CASE i = l + 1
    <3>1. j \in 1..Len(next) /\ g = next[j]
      BY <2>1, <2>3, <1>3
    <3>2. CASE \E k \in 1..Len(r) : r[k] = next[j]
      <4>1. PICK k \in 1..Len(u[l + 1]) : g = u[l + 1][k]
        BY <3>1, <3>2, <1>12
      <4> QED
        BY <4>1, <1>12, <1>13, FilesOfPlaces
    <3> QED
      BY <3>1, <3>2, <1>6
  <2>4. CASE i # l /\ i # l + 1
    <3>1. i \in 1..top /\ u[i] = manifest[i]
      BY <2>4, <1>12, <1>13
    <3> QED
      BY <3>1, <2>1, <1>12, FilesOfPlaces
  <2> QED
    BY <2>2, <2>3, <2>4
<1> QED
  BY <1>12, <1>14, <1>15, <1>16 DEF leave, merged, next, Merged

(* BackgroundCompact starts from a level that is there.                    *)
LEMMA CompactFromLevel ==
    ASSUME manifest \in Manifests, Compacting
    PROVE  CompactFrom \in 1..Len(manifest)
<1>1. DOMAIN manifest = 1..Len(manifest) /\ Len(manifest) \in Nat
  BY LevelsType
<1>2. CASE job.phase = "first"
  BY <1>1, <1>2 DEF Compacting, CompactFrom, TooMany
<1>3. CASE job.phase # "first"
  <2> DEFINE A == {l \in DOMAIN manifest : TooMany(l)}
  <2>1. A \in SUBSET Nat /\ A # {}
    BY <1>1, <1>3 DEF Compacting
  <2>2. PICK l \in A : \A k \in A : l <= k
    BY <2>1, SmallestNat
  <2>3. l \in DOMAIN manifest /\ TooMany(l) /\ \A k \in 1..(l - 1) : ~ TooMany(k)
    BY <2>2, <1>1
  <2>4. CompactFrom \in DOMAIN manifest
    BY <2>3, <1>3, Zenon DEF CompactFrom
  <2> QED
    BY <2>4, <1>1
<1> QED
  BY <1>2, <1>3

-----------------------------------------------------------------------------
(* The flush task has begun a file.                                        *)
Writing == job.phase \in {"sst", "open", "append"}

(* A constructor finds what an earlier instance left, whole.               *)
StageInv ==
    /\ stage \in {"off", "build", "boot"} =>
          ~ torn /\ job.phase = "none" /\ pc[Flusher] = "off"
    /\ stage # "off" => MANIFEST # Absent
    /\ stage = "build" => listed = <<>>
    /\ MANIFEST = Absent => listed = <<>>

(* MANIFEST is tidy even when it is torn: what Decode makes of it is a     *)
(* manifest, and it is the last one written as a whole unless it is torn.  *)
TextInv ==
    /\ MANIFEST = Absent \/ Tidy(MANIFEST)
    /\ ~ torn /\ MANIFEST # Absent => Decode(MANIFEST) = listed
    /\ listed \in Manifests
    /\ file_id_ \in Nat

JobFields == {"phase", "compact", "name", "data", "next", "todo", "whole", "ok"}

(* How far the task is: what it has in memory and what there still is to   *)
(* write make up what it wants to write.                                   *)
JobInv ==
    /\ DOMAIN job = JobFields
    /\ job.phase \in {"none", "first", "loop", "sst", "open", "append", "version"}
    /\ job.phase # "none" <=> pc[Flusher] = "work"
    /\ pc[Flusher] \in {"idle", "copy"} => newest = listed
    /\ job.phase # "none" => manifest \in Manifests
    /\ job.phase \in {"first", "loop"} => manifest = listed
    /\ Writing => /\ job.next \in Manifests /\ job.compact \in BOOLEAN
                  /\ manifest = IF job.compact \/ job.phase = "sst" THEN listed ELSE job.next
    /\ job.phase \in {"sst", "open"} => ~ job.whole
    /\ job.phase = "open" => job.todo = Encode(job.next)
    /\ job.phase = "append" => /\ job.todo \in Seq(Int) /\ Tidy(MANIFEST \o job.todo)
                               /\ job.whole => MANIFEST \o job.todo = Encode(job.next)
    /\ job.phase = "version" /\ job.ok => manifest = listed
    /\ pc[Flusher] = "unref" /\ job.ok => newest = listed

ManifestInv == StageInv /\ TextInv /\ JobInv

-----------------------------------------------------------------------------
(* No text of a manifest looks like no file.                               *)
LEMMA TidyPresent ==
    ASSUME NEW s, Tidy(s)
    PROVE  s # Absent
<1>1. Absent # <<>> /\ Absent[1] # PATH
  BY DEF Absent, PATH
<1> QED
  BY <1>1 DEF Tidy

(* Nothing is being written.                                               *)
LEMMA NoJobFields ==
    /\ DOMAIN NoJob = JobFields
    /\ NoJob.phase = "none" /\ NoJob.ok = TRUE /\ NoJob.compact = FALSE /\ NoJob.whole = FALSE
BY DEF NoJob, JobFields

(* The task alone moves its program counter.                               *)
LEMMA FlusherMoves ==
    ASSUME VersionInv, NEW u \in Users, NEW l, pc' = [pc EXCEPT ![u] = l]
    PROVE  pc'[Flusher] = IF u = Flusher THEN l ELSE pc[Flusher]
BY DEF VersionInv, Typed, Users

-----------------------------------------------------------------------------
(* Nothing has been written.                                               *)
LEMMA ManifestInit == Init => ManifestInv
<1> SUFFICES ASSUME Init PROVE ManifestInv
  OBVIOUS
<1>1. pc[Flusher] = "off"
  BY DEF Init, Down, Users
<1>2. <<>> \in Manifests
  BY DEF Manifests
<1>3. DOMAIN job = JobFields /\ job.phase = "none"
  BY NoJobFields DEF Init
<1> QED
  BY <1>1, <1>2, <1>3 DEF Init, ManifestInv, StageInv, TextInv, JobInv, Writing

(* The constructors.                                                       *)
LEMMA ManifestBuild ==
    ASSUME ManifestInv, BuildMetadataFile \/ BuildMetadataWrite
    PROVE  ManifestInv'
<1>0. StageInv /\ TextInv /\ JobInv
  BY DEF ManifestInv
<1>1. /\ UNCHANGED <<pc, newest, file_id_, manifest, job, listed, torn>>
      /\ stage \in {"off", "build"} /\ stage' \in {"build", "boot"}
  BY DEF BuildMetadataFile, BuildMetadataWrite, versionvars, historyvars
<1>2. ~ torn /\ job.phase = "none" /\ pc[Flusher] = "off"
  BY <1>0, <1>1 DEF StageInv
<1>3. JobInv'
  BY <1>0, <1>1, <1>2 DEF JobInv, Writing
<1>4. \/ MANIFEST' = <<>> /\ listed = <<>> /\ stage' = "build"
      \/ MANIFEST' = <<PATH, NL, LOG>> /\ listed = <<>> /\ stage' = "boot"
      \/ MANIFEST' = MANIFEST /\ MANIFEST # Absent /\ stage' = "boot"
  BY <1>0 DEF BuildMetadataFile, BuildMetadataWrite, StageInv
<1>5. Tidy(MANIFEST') /\ Decode(MANIFEST') = listed
  BY <1>0, <1>2, <1>4, DecodeNew DEF TextInv
<1>6. TextInv'
  BY <1>0, <1>1, <1>5 DEF TextInv
<1>7. StageInv'
  BY <1>1, <1>2, <1>4, <1>5, TidyPresent DEF StageInv
<1> QED
  BY <1>3, <1>6, <1>7 DEF ManifestInv

(* The new instance gets the manifest that was written last.               *)
LEMMA ManifestRead ==
    ASSUME ManifestInv, ReadManifest
    PROVE  ManifestInv'
<1>0. StageInv /\ TextInv /\ JobInv
  BY DEF ManifestInv
<1>1. /\ UNCHANGED <<MANIFEST, file_id_, manifest, job, listed, torn>>
      /\ stage = "boot" /\ stage' \in {"up", "undefined"}
  BY DEF ReadManifest, diskvars, historyvars
<1>2. ~ torn /\ job.phase = "none" /\ pc[Flusher] = "off" /\ MANIFEST # Absent
  BY <1>0, <1>1 DEF StageInv
<1>3. Decode(MANIFEST) = listed
  BY <1>0, <1>2 DEF TextInv
<1>4. \/ pc'[Flusher] = "off"
      \/ pc'[Flusher] = "idle" /\ newest' = listed
  BY <1>2, <1>3 DEF ReadManifest, Open, versionvars, Users
<1> QED
  BY <1>0, <1>1, <1>2, <1>4 DEF ManifestInv, StageInv, TextInv, JobInv, Writing

(* The instance stops.                                                     *)
LEMMA ManifestCrash ==
    ASSUME ManifestInv, Crash
    PROVE  ManifestInv'
<1>0. StageInv /\ TextInv /\ JobInv
  BY DEF ManifestInv
<1>1. /\ MANIFEST' = MANIFEST /\ stage' = "off" /\ job' = NoJob /\ ~ torn'
      /\ file_id_' \in Nat /\ pc'[Flusher] = "off"
      /\ listed' = IF torn THEN Decode(MANIFEST) ELSE listed
  BY DEF Crash, diskvars, Close, Users
<1>2. MANIFEST # Absent /\ Tidy(MANIFEST)
  BY <1>0 DEF Crash, StageInv, TextInv
<1>3. listed' = Decode(MANIFEST) /\ listed' \in Manifests
  BY <1>0, <1>1, <1>2, DecodeType DEF TextInv
<1> QED
  BY <1>1, <1>2, <1>3, NoJobFields DEF ManifestInv, StageInv, TextInv, JobInv, Writing

-----------------------------------------------------------------------------
(* Gets, and the task that takes a copy of the latest manifest.            *)
LEMMA ManifestCopy ==
    ASSUME VersionInv, ManifestInv,
           (\E u \in Readers : Get(u)) \/ BeginFlush \/ CopyManifest
    PROVE  ManifestInv'
<1>0. StageInv /\ TextInv /\ JobInv
  BY DEF ManifestInv
<1>1. stage = "up" /\ UNCHANGED <<MANIFEST, stage, file_id_, listed, torn, newest>>
  BY DEF Get, BeginFlush, CopyManifest, GetLatest, GetCopy, FlushLatest, FlushCopy,
         diskvars, historyvars
<1>2. StageInv' /\ TextInv'
  BY <1>0, <1>1 DEF StageInv, TextInv
<1>3. CASE \E u \in Readers : Get(u)
  <2>1. PICK u \in Readers : Get(u)
    BY <1>3
  <2>2. u \in Users /\ u # Flusher
    BY VersionCtrlAssumption DEF Users
  <2>3. pc'[Flusher] = pc[Flusher]
    BY <2>1, <2>2, FlusherMoves DEF Get, GetLatest, GetCopy
  <2>4. UNCHANGED <<manifest, job>>
    BY <2>1 DEF Get
  <2> QED
    BY <1>0, <1>1, <1>2, <2>3, <2>4 DEF ManifestInv, JobInv, Writing
<1>4. CASE BeginFlush
  <2>1. pc[Flusher] = "idle" /\ pc'[Flusher] = "copy" /\ UNCHANGED <<manifest, job>>
    BY <1>4, FlusherMoves DEF BeginFlush, FlushLatest, Users
  <2> QED
    BY <1>0, <1>1, <1>2, <2>1 DEF ManifestInv, JobInv, Writing
<1>5. CASE CopyManifest
  <2>1. pc[Flusher] = "copy" /\ pc'[Flusher] = "work" /\ manifest' = it[Flusher]
    BY <1>5, FlusherMoves DEF CopyManifest, FlushCopy, Users
  <2>2. it[Flusher] = newest
    BY <2>1 DEF VersionInv, FlusherPart
  <2>3. manifest' = listed /\ listed \in Manifests
    BY <2>1, <2>2, <1>0 DEF JobInv, TextInv
  <2>4. DOMAIN job' = JobFields /\ job'.phase = "first"
    BY <1>5, NoJobFields DEF CopyManifest, NoJob, JobFields
  <2> QED
    BY <1>1, <1>2, <2>1, <2>3, <2>4 DEF ManifestInv, JobInv, Writing
<1> QED
  BY <1>3, <1>4, <1>5

-----------------------------------------------------------------------------
(* What a new file does, as far as the manifest is concerned.              *)
LEMMA NewFileFields ==
    ASSUME NEW compact, NEW data, NEW next, NewFile(compact, data, next)
    PROVE  /\ DOMAIN job' = JobFields
           /\ job'.phase = "sst" /\ job'.compact = compact /\ job'.name = Name(file_id_)
           /\ job'.data = data /\ job'.next = next /\ job'.whole = FALSE
           /\ job'.todo = [b \in DOMAIN Blocks |-> [block |-> Blocks[b], data |-> data]]
           /\ file_id_' = file_id_ + 1
BY DEF NewFile, JobFields

(* A compaction makes a manifest with its new file in it, and merges       *)
(* whatever file is not in that manifest any more.                         *)
LEMMA CompactMakes ==
    ASSUME manifest \in Manifests, file_id_ \in Nat, Compact
    PROVE  \/ stage' = "undefined" /\ UNCHANGED <<files, file_id_, job, lost>>
           \/ \E next \in Manifests : \E in :
                 /\ UNCHANGED stage
                 /\ Name(file_id_) \in FilesOf(next)
                 /\ \A g \in FilesOf(next) : g = Name(file_id_) \/ g \in FilesOf(manifest)
                 /\ \A g \in FilesOf(manifest) : g \in FilesOf(next) \/ g \in in
                 /\ \A f \in in : Intact(f)
                 /\ NewFile(TRUE, UNION {DataOf(f) : f \in in}, next)
<1> DEFINE l == CompactFrom
<1>1. l \in 1..Len(manifest) /\ l + 1 \in Nat \ {0} /\ Len(manifest) \in Nat
  BY CompactFromLevel, LevelsType DEF Compact
<1>2. PICK n \in Nat : n = Len(Level(l + 1))
  BY <1>1, LevelType
<1>3. \E out : \E first \in 0..n, last \in 0..n :
         /\ first < last \/ (first = last /\ first \in {0, n})
         /\ CompactSST(l, out, first, last)
  BY <1>2, Zenon DEF Compact
<1>4. PICK out : \E first \in 0..n, last \in 0..n :
         /\ first < last \/ (first = last /\ first \in {0, n})
         /\ CompactSST(l, out, first, last)
  BY <1>3, Zenon
<1>4a. PICK first \in 0..n, last \in 0..n :
         /\ first < last \/ (first = last /\ first \in {0, n})
         /\ CompactSST(l, out, first, last)
  BY <1>4, Zenon
<1>5. first \in 0..Len(Level(l + 1)) /\ last \in first..Len(Level(l + 1))
  BY <1>2, <1>4a
<1> DEFINE in == {manifest[l][k] : k \in out}
                    \union Range(SubSeq(Level(l + 1), first + 1, last))
           next == UpdateManifest(l, out, first, last, Name(file_id_))
<1>6. \/ stage' = "undefined" /\ UNCHANGED <<files, file_id_, job, lost>>
      \/ /\ \A f \in in : Intact(f)
         /\ NewFile(TRUE, UNION {DataOf(f) : f \in in}, next) /\ UNCHANGED stage
  <2> HIDE DEF l, next
  <2>1. CASE \A f \in in : Intact(f)
    BY <1>4a, <2>1, Zenon DEF CompactSST, next
  <2>2. CASE ~ (\A f \in in : Intact(f))
    BY <1>4a, <2>2, Zenon DEF CompactSST
  <2> QED
    BY <2>1, <2>2
<1>7. Name(file_id_) \in Names
  BY NameType
<1> HIDE DEF l
<1>8. /\ next \in Manifests
      /\ Name(file_id_) \in FilesOf(next)
      /\ \A g \in FilesOf(next) : g = Name(file_id_) \/ g \in FilesOf(manifest)
  BY <1>1, <1>5, <1>7, UpdateProperties
<1>9. \A g \in FilesOf(manifest) : g \in FilesOf(next) \/ g \in in
  <2>1. \A g \in FilesOf(manifest) :
           \/ g \in FilesOf(next)
           \/ g \in {manifest[l][k] : k \in out}
           \/ g \in Range(SubSeq(Level(l + 1), first + 1, last))
    BY <1>1, <1>5, <1>7, UpdateProperties
  <2> QED
    BY <2>1, Zenon
<1> HIDE DEF in, next
<1> QED
  BY <1>6, <1>8, <1>9

-----------------------------------------------------------------------------
(* A new file, of a compaction or of level 0.                              *)
LEMMA ManifestNewFile ==
    ASSUME ManifestInv, Compact \/ WriteLevel0File
    PROVE  ManifestInv'
<1>0. StageInv /\ TextInv /\ JobInv
  BY DEF ManifestInv
<1>1. /\ stage = "up" /\ job.phase \in {"first", "loop"}
      /\ UNCHANGED <<MANIFEST, manifest, listed, torn, pc, newest>>
  BY DEF Compact, WriteLevel0File, Compacting, versionvars
<1>2. /\ manifest \in Manifests /\ manifest = listed /\ file_id_ \in Nat
      /\ pc[Flusher] = "work" /\ MANIFEST # Absent
  BY <1>0, <1>1 DEF JobInv, TextInv, StageInv
<1>3. \/ stage' = "undefined" /\ UNCHANGED <<file_id_, job>>
      \/ \E compact \in BOOLEAN : \E data, next :
            NewFile(compact, data, next) /\ next \in Manifests /\ stage' = "up"
  <2>0. Name(file_id_) \in Names
    BY <1>2, NameType
  <2>1. CASE WriteLevel0File
    <3>1. NewFile(FALSE, {flushes}, Level0Push(Name(file_id_))) /\ stage' = "up"
      BY <2>1, <1>1 DEF WriteLevel0File
    <3>2. Level0Push(Name(file_id_)) \in Manifests
      BY <2>0, <1>2, PushProperties
    <3> QED
      BY <3>1, <3>2, Zenon
  <2>2. CASE Compact
    <3>1. CASE stage' = "undefined" /\ UNCHANGED <<file_id_, job>>
      BY <3>1
    <3>2. ASSUME NEW next \in Manifests, NEW data, UNCHANGED stage, NewFile(TRUE, data, next)
          PROVE  \E compact \in BOOLEAN : \E d, m :
                    NewFile(compact, d, m) /\ m \in Manifests /\ stage' = "up"
      BY <3>2, <1>1
    <3>3. \/ stage' = "undefined" /\ UNCHANGED <<file_id_, job>>
          \/ \E next \in Manifests : \E data : UNCHANGED stage /\ NewFile(TRUE, data, next)
      BY <2>2, <1>2, CompactMakes
    <3> QED
      BY <3>1, <3>2, <3>3
  <2> QED
    BY <2>1, <2>2
<1>4. CASE stage' = "undefined" /\ UNCHANGED <<file_id_, job>>
  BY <1>0, <1>1, <1>2, <1>4 DEF ManifestInv, StageInv, TextInv, JobInv, Writing
<1>5. ASSUME NEW compact \in BOOLEAN, NEW data, NEW next,
             NewFile(compact, data, next), next \in Manifests, stage' = "up"
      PROVE  ManifestInv'
  <2>1. /\ DOMAIN job' = JobFields /\ job'.phase = "sst" /\ job'.compact = compact
        /\ job'.next = next /\ job'.whole = FALSE /\ file_id_' = file_id_ + 1
    BY <1>5, NewFileFields
  <2>2. file_id_' \in Nat
    BY <2>1, <1>2
  <2> QED
    BY <2>1, <2>2, <1>0, <1>1, <1>2, <1>5 DEF ManifestInv, StageInv, TextInv, JobInv, Writing
<1> QED
  BY <1>3, <1>4, <1>5

(* A block of the file; behind the last one MANIFEST is to be written.     *)
LEMMA ManifestBlock ==
    ASSUME ManifestInv, WriteBlock
    PROVE  ManifestInv'
<1>0. StageInv /\ TextInv /\ JobInv
  BY DEF ManifestInv
<1>1. /\ stage = "up" /\ job.phase = "sst"
      /\ UNCHANGED <<MANIFEST, stage, file_id_, listed, torn, pc, newest>>
  BY DEF WriteBlock, versionvars, historyvars
<1>2. StageInv' /\ TextInv'
  BY <1>0, <1>1 DEF StageInv, TextInv
<1>3. /\ DOMAIN job = JobFields /\ pc[Flusher] = "work" /\ ~ job.whole
      /\ job.next \in Manifests /\ job.compact \in BOOLEAN
      /\ manifest \in Manifests /\ manifest = listed
  BY <1>0, <1>1 DEF JobInv, Writing
<1>4. \/ job' = [job EXCEPT !.todo = Tail(@)] /\ manifest' = manifest
      \/ /\ job' = [job EXCEPT !.phase = "open", !.todo = Encode(job.next)]
         /\ manifest' = IF job.compact THEN manifest ELSE job.next
  BY DEF WriteBlock
<1>5. /\ DOMAIN job' = JobFields
      /\ job'.next = job.next /\ job'.compact = job.compact /\ ~ job'.whole
      /\ \/ job'.phase = "sst" /\ manifest' = manifest
         \/ /\ job'.phase = "open" /\ job'.todo = Encode(job.next)
            /\ manifest' = IF job.compact THEN manifest ELSE job.next
  BY <1>1, <1>3, <1>4 DEF JobFields
<1> QED
  BY <1>0, <1>1, <1>2, <1>3, <1>5 DEF ManifestInv, JobInv, Writing

(* WriteManifest truncates MANIFEST, or cannot open it.                    *)
LEMMA ManifestOpen ==
    ASSUME ManifestInv, OpenManifest
    PROVE  ManifestInv'
<1>0. StageInv /\ TextInv /\ JobInv
  BY DEF ManifestInv
<1>1. /\ stage = "up" /\ job.phase = "open"
      /\ UNCHANGED <<stage, file_id_, manifest, listed, pc, newest>>
  BY DEF OpenManifest, versionvars
<1>2. /\ DOMAIN job = JobFields /\ pc[Flusher] = "work" /\ ~ job.whole
      /\ job.next \in Manifests /\ job.compact \in BOOLEAN
      /\ manifest \in Manifests /\ job.todo = Encode(job.next)
      /\ manifest = IF job.compact THEN listed ELSE job.next
  BY <1>0, <1>1 DEF JobInv, Writing
<1>3. Tidy(job.todo) /\ job.todo \in Seq(Int)
  BY <1>2, ManifestReadsBack DEF Tidy
<1>4. MANIFEST # Absent /\ Tidy(MANIFEST)
  BY <1>0, <1>1 DEF StageInv, TextInv
<1>5. CASE /\ MANIFEST' = <<>> /\ torn' = TRUE
           /\ job' = [job EXCEPT !.phase = "append", !.whole = TRUE]
  <2>1. /\ DOMAIN job' = JobFields /\ job'.phase = "append" /\ job'.whole = TRUE
        /\ job'.next = job.next /\ job'.compact = job.compact /\ job'.todo = job.todo
    BY <1>2, <1>5 DEF JobFields
  <2>2. Tidy(MANIFEST') /\ MANIFEST' # Absent /\ MANIFEST' \o job.todo = job.todo
    BY <1>3, <1>5, DecodeNew, TidyPresent, ConcatEmptySeq
  <2> QED
    BY <1>0, <1>1, <1>2, <1>3, <1>5, <2>1, <2>2
       DEF ManifestInv, StageInv, TextInv, JobInv, Writing
<1>6. CASE UNCHANGED <<MANIFEST, torn>> /\ job' = [job EXCEPT !.phase = "append"]
  <2>1. /\ DOMAIN job' = JobFields /\ job'.phase = "append" /\ ~ job'.whole
        /\ job'.next = job.next /\ job'.compact = job.compact /\ job'.todo = job.todo
    BY <1>2, <1>6 DEF JobFields
  <2>2. Tidy(MANIFEST' \o job.todo)
    BY <1>3, <1>4, <1>6, TidyConcat
  <2> QED
    BY <1>0, <1>1, <1>2, <1>3, <1>4, <1>6, <2>1, <2>2
       DEF ManifestInv, StageInv, TextInv, JobInv, Writing
<1> QED
  BY <1>5, <1>6 DEF OpenManifest

(* The next buffer of text goes from what there is to write to the file.   *)
LEMMA BufferMoves ==
    ASSUME NEW a \in Seq(Int), NEW t \in Seq(Int)
    PROVE  LET d == SubSeq(t, 1, Min({Buffer, Len(t)}))
               r == SubSeq(t, Buffer + 1, Len(t))
           IN  /\ d \in Seq(Int)
               /\ Len(t) > Buffer => r \in Seq(Int) /\ (a \o d) \o r = a \o t
               /\ ~ (Len(t) > Buffer) => a \o d = a \o t
<1> DEFINE d == SubSeq(t, 1, Min({Buffer, Len(t)}))
           r == SubSeq(t, Buffer + 1, Len(t))
<1>1. PICK n \in Nat : n = Len(t) /\ \A i \in 1..n : t[i] \in Int
  BY LenProperties, ElementOfSeq
<1>2. Buffer \in Nat \ {0}
  BY RecoveryAssumption
<1>3a. Min({Buffer, Len(t)}) = IF n > Buffer THEN Buffer ELSE n
  BY <1>1, <1>2 DEF Min
<1>3. PICK w \in Nat : w = Min({Buffer, Len(t)}) /\ w = IF n > Buffer THEN Buffer ELSE n
  BY <1>2, <1>3a
<1>3b. w \in 0..n
  BY <1>2, <1>3
<1> HIDE DEF d, r
<1>7. d = SubSeq(t, 1, w) /\ r = SubSeq(t, Buffer + 1, n)
  BY <1>1, <1>3 DEF d, r
<1>4. d \in Seq(Int)
  <2>1. 1 \in Int /\ w \in Int /\ \A i \in 1..w : t[i] \in Int
    BY <1>1, <1>3b
  <2>2. SubSeq(t, 1, w) \in Seq(Int)
    BY <2>1, SubSeqProperties
  <2> QED
    BY <2>2, <1>7
<1>5. ASSUME Len(t) > Buffer
      PROVE  r \in Seq(Int) /\ (a \o d) \o r = a \o t
  <2>1. /\ 1 \in 1..(n + 1) /\ w \in (1 - 1)..n /\ n \in w..n
        /\ w = Buffer
    BY <1>1, <1>2, <1>3, <1>5
  <2>2. r \in Seq(Int)
    <3>1. w + 1 \in Int /\ n \in Int /\ \A i \in (w + 1)..n : t[i] \in Int
      BY <1>1
    <3>2. SubSeq(t, w + 1, n) \in Seq(Int)
      BY <3>1, SubSeqProperties
    <3> QED
      BY <3>2, <2>1, <1>7
  <2>3. SubSeq(t, 1, w) \o SubSeq(t, w + 1, n) = SubSeq(t, 1, n)
    BY <2>1, <1>1, ConcatAdjacentSubSeq
  <2>6. SubSeq(t, 1, n) = t
    BY <1>1, SubSeqFull
  <2>4. d \o r = t
    BY <2>1, <2>3, <2>6, <1>7
  <2>5. (a \o d) \o r = a \o (d \o r)
    BY <2>2, <1>4
  <2> QED
    BY <2>2, <2>4, <2>5
<1>6. ASSUME ~ (Len(t) > Buffer)
      PROVE  a \o d = a \o t
  <2>1. w = Len(t)
    BY <1>1, <1>2, <1>3, <1>6
  <2>2. d = t
    BY <2>1, <1>7, SubSeqFull
  <2> QED
    BY <2>2
<1> QED
  BY <1>4, <1>5, <1>6 DEF d, r

(* The text of MANIFEST, buffer by buffer.                                 *)
LEMMA ManifestAppend ==
    ASSUME ManifestInv, AppendManifest
    PROVE  ManifestInv'
<1>0. StageInv /\ TextInv /\ JobInv
  BY DEF ManifestInv
<1>1. /\ stage = "up" /\ job.phase = "append"
      /\ UNCHANGED <<stage, file_id_, pc, newest>>
  BY DEF AppendManifest, versionvars
<1>2. /\ DOMAIN job = JobFields /\ pc[Flusher] = "work"
      /\ job.next \in Manifests /\ job.compact \in BOOLEAN
      /\ manifest \in Manifests
      /\ manifest = IF job.compact THEN listed ELSE job.next
      /\ job.todo \in Seq(Int) /\ Tidy(MANIFEST \o job.todo)
      /\ job.whole => MANIFEST \o job.todo = Encode(job.next)
  BY <1>0, <1>1 DEF JobInv, Writing
<1>3. MANIFEST \in Seq(Int)
  BY <1>0, <1>1 DEF StageInv, TextInv, Tidy
<1> DEFINE d == SubSeq(job.todo, 1, Min({Buffer, Len(job.todo)}))
           r == SubSeq(job.todo, Buffer + 1, Len(job.todo))
<1>4. MANIFEST' = MANIFEST \o d
  BY DEF AppendManifest
<1>5. CASE Len(job.todo) > Buffer
  <2>1. /\ job' = [job EXCEPT !.todo = r] /\ torn' = TRUE
        /\ UNCHANGED <<manifest, listed>>
    BY <1>5 DEF AppendManifest
  <2>2. d \in Seq(Int) /\ r \in Seq(Int) /\ (MANIFEST \o d) \o r = MANIFEST \o job.todo
    BY <1>2, <1>3, <1>5, BufferMoves
  <2> HIDE DEF d, r
  <2>3. MANIFEST' \in Seq(Int) /\ MANIFEST' \o r = MANIFEST \o job.todo
    BY <2>2, <1>3, <1>4, ConcatProperties
  <2>4. Tidy(MANIFEST') /\ MANIFEST' # Absent
    BY <2>2, <2>3, <1>2, TidyPrefix, TidyPresent
  <2>5. /\ DOMAIN job' = JobFields /\ job'.phase = "append" /\ job'.whole = job.whole
        /\ job'.next = job.next /\ job'.compact = job.compact /\ job'.todo = r
    BY <2>1, <1>1, <1>2 DEF JobFields
  <2> QED
    BY <1>0, <1>1, <1>2, <2>1, <2>2, <2>3, <2>4, <2>5
       DEF ManifestInv, StageInv, TextInv, JobInv, Writing
<1>6. CASE ~ (Len(job.todo) > Buffer)
  <2>1. /\ job' = IF job.compact THEN [NoJob EXCEPT !.phase = "loop"]
                  ELSE [NoJob EXCEPT !.phase = "version"]
        /\ torn' = ~ job.whole /\ manifest' = job.next /\ listed' = job.next
    BY <1>6 DEF AppendManifest
  <2>2. MANIFEST' = MANIFEST \o job.todo
    BY <1>2, <1>3, <1>4, <1>6, BufferMoves
  <2>3. Tidy(MANIFEST') /\ MANIFEST' # Absent
    BY <2>2, <1>2, TidyPresent
  <2>4. ~ torn' => Decode(MANIFEST') = listed'
    BY <2>1, <2>2, <1>2, ManifestReadsBack
  <2>5. DOMAIN job' = JobFields /\ job'.phase \in {"loop", "version"}
    BY <2>1, <1>2, NoJobFields DEF NoJob, JobFields
  <2> QED
    BY <1>0, <1>1, <1>2, <2>1, <2>3, <2>4, <2>5
       DEF ManifestInv, StageInv, TextInv, JobInv, Writing
<1> QED
  BY <1>5, <1>6

-----------------------------------------------------------------------------
(* A call fails.                                                           *)
LEMMA ManifestFails ==
    ASSUME VersionInv, ManifestInv, WriteFails
    PROVE  ManifestInv'
<1>0. StageInv /\ TextInv /\ JobInv
  BY DEF ManifestInv
<1>1. /\ stage = "up" /\ job.phase \in {"sst", "append"}
      /\ UNCHANGED <<MANIFEST, stage, file_id_, manifest, listed, torn, newest>>
  BY DEF WriteFails, CompactFails, versionvars, diskvars
<1>2. StageInv' /\ TextInv'
  BY <1>0, <1>1 DEF StageInv, TextInv
<1>3. pc[Flusher] = "work" /\ manifest \in Manifests
  BY <1>0, <1>1 DEF JobInv
<1>4. CASE job' = NoJob /\ CompactFails
  <2>1. pc'[Flusher] = "failed"
    BY <1>4, FlusherMoves DEF CompactFails, Users
  <2> QED
    BY <1>0, <1>1, <1>2, <1>4, <2>1, NoJobFields DEF ManifestInv, JobInv, Writing
<1>5. CASE /\ job' = [NoJob EXCEPT !.phase = "version", !.ok = FALSE]
           /\ UNCHANGED versionvars
  <2>1. DOMAIN job' = JobFields /\ job'.phase = "version" /\ ~ job'.ok
    BY <1>5 DEF NoJob, JobFields
  <2> QED
    BY <1>0, <1>1, <1>2, <1>3, <1>5, <2>1 DEF ManifestInv, JobInv, Writing, versionvars
<1> QED
  BY <1>4, <1>5 DEF WriteFails

(* The new manifest becomes a version, and the old one is given back.      *)
LEMMA ManifestVersion ==
    ASSUME VersionInv, ManifestInv, AppendFlush \/ EndFlush
    PROVE  ManifestInv'
<1>0. StageInv /\ TextInv /\ JobInv
  BY DEF ManifestInv
<1>1. stage = "up" /\ UNCHANGED <<MANIFEST, stage, file_id_, manifest, listed, torn>>
  BY DEF AppendFlush, EndFlush, diskvars, historyvars
<1>2. StageInv' /\ TextInv'
  BY <1>0, <1>1 DEF StageInv, TextInv
<1>3. CASE AppendFlush
  <2>1. job.phase = "version" /\ DOMAIN job = JobFields /\ (job.ok => manifest = listed)
    BY <1>0, <1>3 DEF AppendFlush, JobInv
  <2>2. job' = [job EXCEPT !.phase = "none"] /\ FlushAppend(manifest)
    BY <1>3 DEF AppendFlush
  <2>3. DOMAIN job' = JobFields /\ job'.phase = "none" /\ job'.ok = job.ok
    BY <2>1, <2>2 DEF JobFields
  <2>4. \/ pc'[Flusher] = "failed"
        \/ pc'[Flusher] = "unref" /\ newest' = manifest
    BY <2>2, FlusherMoves DEF FlushAppend, Users
  <2> QED
    BY <1>1, <1>2, <2>1, <2>3, <2>4 DEF ManifestInv, JobInv, Writing
<1>4. CASE EndFlush
  <2>1. /\ pc[Flusher] = "unref" /\ newest' = newest /\ job' = NoJob
        /\ pc'[Flusher] = IF job.ok THEN "idle" ELSE "failed"
    BY <1>4, FlusherMoves DEF EndFlush, FlushUnref, Users
  <2>2. job.ok => newest = listed
    BY <2>1, <1>0 DEF JobInv
  <2> QED
    BY <1>1, <1>2, <2>1, <2>2, NoJobFields DEF ManifestInv, JobInv, Writing
<1> QED
  BY <1>3, <1>4

(* Every step.                                                             *)
LEMMA ManifestNext == VersionInv /\ ManifestInv /\ [Next]_vars => ManifestInv'
<1> SUFFICES ASSUME VersionInv, ManifestInv, [Next]_vars PROVE ManifestInv'
  OBVIOUS
<1>1. CASE UNCHANGED vars
  BY <1>1 DEF vars, versionvars, diskvars, historyvars, ManifestInv, StageInv, TextInv,
              JobInv, Writing
<1> QED
  BY <1>1, ManifestBuild, ManifestRead, ManifestCrash, ManifestCopy, ManifestNewFile,
     ManifestBlock, ManifestOpen, ManifestAppend, ManifestFails, ManifestVersion DEF Next

(* What the task has in memory, what MANIFEST says and what the versions   *)
(* are agree at every step of a flush, whatever fails or stops.            *)
THEOREM ManifestInvariance == Spec => []ManifestInv
<1>1. Init => ManifestInv
  BY ManifestInit
<1>2. VersionInv /\ ManifestInv /\ [Next]_vars => ManifestInv'
  BY ManifestNext
<1> QED
  BY <1>1, <1>2, Invariance, PTL DEF Spec

(* While no flush is under way and none has failed, the latest version is  *)
(* the manifest that was written last, and Decode finds it in MANIFEST.    *)
THEOREM LatestIsWritten == Spec => []ManifestIsLatest
<1>1. ManifestInv => ManifestIsLatest
  BY DEF ManifestInv, StageInv, TextInv, JobInv, ManifestIsLatest
<1> QED
  BY <1>1, ManifestInvariance, PTL

-----------------------------------------------------------------------------
(* Intact and DataOf, of the files of one state.                           *)
Complete(fs, f) ==
    /\ f \in DOMAIN fs
    /\ Len(fs[f]) = Len(Blocks)
    /\ \A b \in DOMAIN Blocks : fs[f][b] = [block |-> Blocks[b], data |-> fs[f][1].data]

Stored(fs, F) == UNION {fs[f][1].data : f \in F}

(* The files of manifest m are complete, and every flush in d is in them.  *)
Holds(fs, m, d) ==
    /\ \A f \in FilesOf(m) : Complete(fs, f)
    /\ d \subseteq Stored(fs, FilesOf(m))

(* A file with all its blocks.                                             *)
Whole(d) == [b \in DOMAIN Blocks |-> [block |-> Blocks[b], data |-> d]]

(* The file that is being written is no file of the manifest on disk; what *)
(* has been flushed is in it when it is complete, or in the files that     *)
(* will be listed besides it.                                              *)
NextPart ==
    /\ job.name \in FilesOf(job.next) /\ job.name \notin FilesOf(listed)
    /\ FilesOf(job.next) \subseteq FilesOf(listed) \union {job.name}
    /\ flushed \subseteq job.data \union Stored(files, FilesOf(job.next) \ {job.name})
    /\ ~ job.compact => flushes \in job.data

(* What has been written of the file and what is left make up all of it.   *)
FilePart ==
    /\ job.name \in DOMAIN files
    /\ \E k \in 0..3 : /\ files[job.name] = SubSeq(Whole(job.data), 1, k)
                       /\ job.todo = SubSeq(Whole(job.data), k + 1, 4)

(* The manifest on disk and the one that will replace it both have         *)
(* everything that was flushed, unless something was lost.                 *)
SurviveInv ==
    ~ lost =>
        /\ Holds(files, listed, flushed)
        /\ job.phase = "sst" => NextPart /\ FilePart
        /\ job.phase \in {"open", "append"} =>
              /\ Holds(files, job.next, flushed)
              /\ ~ job.compact => flushes \in Stored(files, FilesOf(job.next))
        /\ (job.phase = "version" \/ pc[Flusher] = "unref") /\ job.ok =>
              flushes \in Stored(files, FilesOf(listed))

-----------------------------------------------------------------------------
(* Files that stay as they are hold what they held.                        *)
LEMMA SameStored ==
    ASSUME NEW fs, NEW gs, NEW F, \A f \in F : gs[f] = fs[f]
    PROVE  Stored(gs, F) = Stored(fs, F)
BY Zenon DEF Stored

(* And so does what is said of a manifest.                                 *)
LEMMA SameHolds ==
    ASSUME NEW fs, NEW gs, NEW m, NEW d, Holds(fs, m, d),
           \A f \in FilesOf(m) : f \in DOMAIN gs /\ gs[f] = fs[f]
    PROVE  Holds(gs, m, d)
<1>1. Stored(gs, FilesOf(m)) = Stored(fs, FilesOf(m))
  BY SameStored
<1>2. \A f \in FilesOf(m) : Complete(gs, f)
  BY DEF Holds, Complete
<1> QED
  BY <1>1, <1>2 DEF Holds

(* A part of the whole file, and the next block of it.                     *)
LEMMA BlockStep ==
    ASSUME NEW d, NEW k \in 0..3
    PROVE  /\ Append(SubSeq(Whole(d), 1, k), Head(SubSeq(Whole(d), k + 1, 4)))
                 = SubSeq(Whole(d), 1, k + 1)
           /\ Tail(SubSeq(Whole(d), k + 1, 4)) = SubSeq(Whole(d), (k + 1) + 1, 4)
           /\ Len(SubSeq(Whole(d), k + 1, 4)) = 4 - k
           /\ SubSeq(Whole(d), 1, 4) = Whole(d)
           /\ SubSeq(Whole(d), 1, 0) = <<>>
<1> DEFINE w == Whole(d)
           S == {w[b] : b \in 1..4}
<1>1. DOMAIN Blocks = 1..4
  BY DEF Blocks
<1>2. w \in Seq(S) /\ Len(w) = 4
  <2>1. w \in [1..4 -> S]
    BY <1>1 DEF Whole
  <2> HIDE DEF w, S
  <2>2. 4 \in Nat /\ DOMAIN w = 1..4 /\ w \in Seq(S)
    BY <2>1, SeqDef
  <2>3. Len(w) \in Nat /\ DOMAIN w = 1..Len(w)
    BY <2>2, LenProperties
  <2> QED
    BY <2>2, <2>3
<1> HIDE DEF w, S
<1>3. /\ k + 1 \in 1..4 /\ 4 \in (k + 1)..4 /\ 1 \in 1..4 /\ k + 1 \in 1..4
      /\ (k + 1) - 1 = k /\ k + 1 \in Int /\ 4 \in Int /\ k + 1 <= 4
      /\ 4 - (k + 1) + 1 = 4 - k
  OBVIOUS
<1>4. Head(SubSeq(w, k + 1, 4)) = w[k + 1] /\ Tail(SubSeq(w, k + 1, 4)) = SubSeq(w, (k + 1) + 1, 4)
  <2>1. k + 1 \in 1..Len(w) /\ 4 \in (k + 1)..Len(w)
    BY <1>2
  <2> QED
    BY <2>1, <1>2, HeadTailOfSubSeq
<1>5. SubSeq(w, 1, k + 1) = SubSeq(w, 1, k) \o <<w[k + 1]>>
  <2>1. k + 1 \in 1..Len(w) /\ 1 \in 1..Len(w) /\ k + 1 \in 1..Len(w)
    BY <1>2
  <2>2. SubSeq(w, 1, k + 1) = SubSeq(w, 1, (k + 1) - 1) \o <<w[k + 1]>>
    BY <2>1, <1>2, SubSeqRecursiveSecond
  <2> QED
    BY <2>2, <1>3
<1>6. \A i \in 1..4 : w[i] \in S
  BY <1>2, ElementOfSeq
<1>7. SubSeq(w, 1, k) \in Seq(S) /\ w[k + 1] \in S
  <2>1. 1 \in Int /\ k \in Int /\ \A i \in 1..k : w[i] \in S
    BY <1>6
  <2> QED
    BY <2>1, <1>3, <1>6, SubSeqProperties
<1>8. Append(SubSeq(w, 1, k), w[k + 1]) = SubSeq(w, 1, k + 1)
  BY <1>5, <1>7, AppendIsConcat
<1>9. Len(SubSeq(w, k + 1, 4)) = 4 - k
  <2>1. \A i \in (k + 1)..4 : w[i] \in S
    BY <1>6
  <2> QED
    BY <2>1, <1>3, SubSeqProperties
<1>10. SubSeq(w, 1, 4) = w
  BY <1>2, SubSeqFull
<1>11. SubSeq(w, 1, 0) = <<>>
  BY SubSeqEmpty
<1> QED
  BY <1>4, <1>8, <1>9, <1>10, <1>11 DEF w

(* A file with all its blocks is complete.                                 *)
LEMMA WholeComplete ==
    ASSUME NEW fs, NEW f, NEW d, f \in DOMAIN fs, fs[f] = Whole(d)
    PROVE  Complete(fs, f) /\ fs[f][1].data = d
<1>1. DOMAIN Blocks = 1..4 /\ Len(Blocks) = 4
  BY DEF Blocks
<1>2. Whole(d)[1].data = d
  BY <1>1 DEF Whole
<1>3. Len(Whole(d)) = 4
  <2>1. Whole(d) = [b \in 1..4 |-> [block |-> Blocks[b], data |-> d]]
    BY <1>1 DEF Whole
  <2> QED
    BY <2>1
<1> QED
  BY <1>1, <1>2, <1>3 DEF Complete, Whole

-----------------------------------------------------------------------------
(* Nothing has been flushed.                                               *)
LEMMA SurviveInit == Init => SurviveInv
<1> SUFFICES ASSUME Init PROVE SurviveInv
  OBVIOUS
<1>1. FilesOf(listed) = {} /\ flushed = {}
  BY DEF Init, FilesOf
<1>2. job.phase = "none" /\ pc[Flusher] = "off"
  BY NoJobFields DEF Init, Down, Users
<1> QED
  BY <1>1, <1>2 DEF SurviveInv, Holds

(* Steps that write nothing and end no flush.                              *)
LEMMA SurviveQuiet ==
    ASSUME VersionInv, ManifestInv, SurviveInv,
           \/ BuildMetadataFile \/ BuildMetadataWrite \/ ReadManifest \/ Crash
           \/ \E u \in Readers : Get(u)
           \/ BeginFlush \/ CopyManifest
    PROVE  SurviveInv'
<1>1. files' = files /\ flushed' = flushed
  BY DEF BuildMetadataFile, BuildMetadataWrite, ReadManifest, Crash, Get, BeginFlush,
         CopyManifest, diskvars, historyvars
<1>2. ~ lost' => ~ lost /\ listed' = listed
  BY DEF BuildMetadataFile, BuildMetadataWrite, ReadManifest, Crash, Get, BeginFlush,
         CopyManifest, diskvars, historyvars
<1>3. CASE \E u \in Readers : Get(u)
  <2>1. PICK u \in Readers : Get(u)
    BY <1>3
  <2>2. u \in Users /\ u # Flusher
    BY VersionCtrlAssumption DEF Users
  <2>3. pc'[Flusher] = pc[Flusher] /\ UNCHANGED <<job, flushes>>
    BY <2>1, <2>2, FlusherMoves DEF Get, GetLatest, GetCopy, historyvars
  <2> QED
    BY <2>3, <1>1, <1>2 DEF SurviveInv, NextPart, FilePart
<1>4. CASE ~ (\E u \in Readers : Get(u))
  <2>1. job'.phase \in {"none", "first"} /\ pc'[Flusher] # "unref"
    <3>1. CASE BuildMetadataFile \/ BuildMetadataWrite \/ ReadManifest
      <4>1. job.phase = "none" /\ pc[Flusher] = "off" /\ job' = job
        BY <3>1 DEF ManifestInv, StageInv, BuildMetadataFile, BuildMetadataWrite, ReadManifest
      <4>2. pc'[Flusher] \in {"off", "idle"}
        BY <3>1, <4>1 DEF BuildMetadataFile, BuildMetadataWrite, ReadManifest, versionvars,
                          Open, Users
      <4> QED
        BY <4>1, <4>2
    <3>2. CASE Crash
      BY <3>2, NoJobFields DEF Crash, Close, Users
    <3>3. CASE BeginFlush
      <4>1. pc[Flusher] = "idle" /\ pc'[Flusher] = "copy" /\ job' = job
        BY <3>3, FlusherMoves DEF BeginFlush, FlushLatest, Users
      <4> QED
        BY <4>1 DEF ManifestInv, JobInv
    <3>4. CASE CopyManifest
      <4>1. pc'[Flusher] = "work"
        BY <3>4, FlusherMoves DEF CopyManifest, FlushCopy, Users
      <4>2. job'.phase = "first"
        BY <3>4 DEF CopyManifest, NoJob
      <4> QED
        BY <4>1, <4>2
    <3> QED
      BY <1>4, <3>1, <3>2, <3>3, <3>4
  <2> QED
    BY <2>1, <1>1, <1>2 DEF SurviveInv
<1> QED
  BY <1>3, <1>4

-----------------------------------------------------------------------------
(* Opening a file empties no other one.                                    *)
LEMMA CreatedProperties ==
    ASSUME NEW f, ~ Reused(f)
    PROVE  /\ f \in DOMAIN Created(f) /\ Created(f)[f] = <<>>
           /\ \A g \in DOMAIN files : g # f =>
                 g \in DOMAIN Created(f) /\ Created(f)[g] = files[g]
BY DEF Created, Reused

(* A file that is not one of the listed ones is begun: what is not in the  *)
(* files that stay in the manifest goes into it.                           *)
LEMMA SurviveBegin ==
    ASSUME ManifestInv, SurviveInv, ~ lost', manifest = listed,
           NEW compact, NEW data, NEW next, NewFile(compact, data, next),
           Name(file_id_) \in FilesOf(next),
           \A g \in FilesOf(next) : g = Name(file_id_) \/ g \in FilesOf(manifest),
           \A g \in FilesOf(manifest) : g \in FilesOf(next) \/ files[g][1].data \subseteq data,
           ~ compact => flushes \in data,
           UNCHANGED <<listed, flushed, flushes, pc>>,
           pc[Flusher] = "work"
    PROVE  SurviveInv'
<1> DEFINE f == Name(file_id_)
<1>1. /\ ~ lost /\ ~ Reused(f) /\ files' = Created(f)
      /\ Holds(files, listed, flushed)
  BY DEF NewFile, SurviveInv
<1>2. /\ job'.phase = "sst" /\ job'.compact = compact /\ job'.name = f
      /\ job'.data = data /\ job'.next = next
      /\ job'.todo = [b \in DOMAIN Blocks |-> [block |-> Blocks[b], data |-> data]]
  BY NewFileFields
<1> HIDE DEF f
<1>3. /\ f \in DOMAIN files' /\ files'[f] = <<>>
      /\ \A g \in DOMAIN files : g # f => g \in DOMAIN files' /\ files'[g] = files[g]
  BY <1>1, CreatedProperties
<1>4. f \notin FilesOf(listed)
  <2> SUFFICES ASSUME f \in FilesOf(listed) PROVE FALSE
    OBVIOUS
  <2>1. f \in DOMAIN files /\ Len(files[f]) = 4
    BY <1>1 DEF Holds, Complete, Blocks
  <2>2. files[f] = <<>>
    BY <2>1, <1>1 DEF Reused
  <2> QED
    BY <2>1, <2>2
<1>5. \A g \in FilesOf(listed) : g # f /\ g \in DOMAIN files' /\ files'[g] = files[g]
  BY <1>1, <1>3, <1>4 DEF Holds, Complete
<1>6. Holds(files', listed', flushed')
  BY <1>1, <1>5, SameHolds
<1>7. flushed \subseteq data \union Stored(files', FilesOf(next) \ {f})
  <2> SUFFICES ASSUME NEW x \in flushed, x \notin data
               PROVE  x \in Stored(files', FilesOf(next) \ {f})
    OBVIOUS
  <2>1. PICK g \in FilesOf(listed) : x \in files[g][1].data
    BY <1>1, Zenon DEF Holds, Stored
  <2>2. g \in FilesOf(next) \ {f} /\ files'[g] = files[g]
    BY <2>1, <1>5
  <2> QED
    BY <2>1, <2>2, Zenon DEF Stored
<1>8. NextPart'
  <2>1. FilesOf(next) \subseteq FilesOf(listed) \union {f}
    BY DEF f
  <2>2. f \in FilesOf(next)
    BY DEF f
  <2> QED
    BY <2>1, <2>2, <1>2, <1>4, <1>7 DEF NextPart
<1>9. FilePart'
  <2>1. job'.todo = Whole(data)
    BY <1>2 DEF Whole
  <2>2. SubSeq(Whole(data), 1, 0) = <<>> /\ SubSeq(Whole(data), 1, 4) = Whole(data)
    BY BlockStep, 0 \in 0..3
  <2>3. 0 \in 0..3 /\ 0 + 1 = 1
    OBVIOUS
  <2>4. \E k \in 0..3 : /\ files'[f] = SubSeq(Whole(data), 1, k)
                        /\ job'.todo = SubSeq(Whole(data), k + 1, 4)
    BY <2>1, <2>2, <2>3, <1>3
  <2> QED
    BY <2>4, <1>2, <1>3 DEF FilePart
<1> QED
  BY <1>2, <1>6, <1>8, <1>9 DEF SurviveInv

(* A compaction, or a level 0 file.                                        *)
LEMMA SurviveNewFile ==
    ASSUME ManifestInv, SurviveInv, Compact \/ WriteLevel0File
    PROVE  SurviveInv'
<1>1. /\ job.phase \in {"first", "loop"}
      /\ UNCHANGED <<listed, flushed, flushes, pc>>
  BY DEF Compact, WriteLevel0File, Compacting, versionvars
<1>2. /\ manifest \in Manifests /\ manifest = listed /\ file_id_ \in Nat
      /\ pc[Flusher] = "work"
  BY <1>1 DEF ManifestInv, JobInv, TextInv
<1> SUFFICES ASSUME ~ lost' PROVE SurviveInv'
  BY DEF SurviveInv
<1>3. CASE WriteLevel0File
  <2>1. Name(file_id_) \in Names
    BY <1>2, NameType
  <2>2. FilesOf(Level0Push(Name(file_id_))) = FilesOf(manifest) \union {Name(file_id_)}
    BY <2>1, <1>2, PushProperties
  <2>3. NewFile(FALSE, {flushes}, Level0Push(Name(file_id_)))
    BY <1>3 DEF WriteLevel0File
  <2> DEFINE next == Level0Push(Name(file_id_))
             data == {flushes}
  <2>4. flushes \in data
    OBVIOUS
  <2> HIDE DEF next, data
  <2> QED
    BY <2>2, <2>3, <2>4, <1>1, <1>2, SurviveBegin DEF next, data
<1>4. CASE Compact
  <2>1. CASE UNCHANGED <<files, job, lost>>
    BY <2>1, <1>1 DEF SurviveInv, NextPart, FilePart
  <2>2. CASE ~ UNCHANGED <<files, job, lost>>
    <3>0. PICK next \in Manifests : \E in :
             /\ Name(file_id_) \in FilesOf(next)
             /\ \A g \in FilesOf(next) : g = Name(file_id_) \/ g \in FilesOf(manifest)
             /\ \A g \in FilesOf(manifest) : g \in FilesOf(next) \/ g \in in
             /\ NewFile(TRUE, UNION {DataOf(f) : f \in in}, next)
      BY <1>2, <1>4, <2>2, CompactMakes
    <3>1. PICK in :
             /\ Name(file_id_) \in FilesOf(next)
             /\ \A g \in FilesOf(next) : g = Name(file_id_) \/ g \in FilesOf(manifest)
             /\ \A g \in FilesOf(manifest) : g \in FilesOf(next) \/ g \in in
             /\ NewFile(TRUE, UNION {DataOf(f) : f \in in}, next)
      BY <3>0
    <3> DEFINE data == UNION {DataOf(f) : f \in in}
    <3>2. \A g \in in : files[g][1].data \subseteq data
      BY Zenon DEF DataOf
    <3>3. NewFile(TRUE, data, next)
      BY <3>1
    <3> HIDE DEF data
    <3> QED
      BY <3>1, <3>2, <3>3, <1>1, <1>2, SurviveBegin
  <2> QED
    BY <2>1, <2>2
<1> QED
  BY <1>3, <1>4

-----------------------------------------------------------------------------
(* A block is appended to the one file no manifest on disk lists.          *)
LEMMA SurviveBlock ==
    ASSUME ManifestInv, SurviveInv, WriteBlock
    PROVE  SurviveInv'
<1> SUFFICES ASSUME ~ lost' PROVE SurviveInv'
  BY DEF SurviveInv
<1>1. /\ ~ lost /\ job.phase = "sst" /\ pc[Flusher] = "work"
      /\ UNCHANGED <<listed, flushed, flushes, lost, pc>>
  BY DEF WriteBlock, versionvars, historyvars, ManifestInv, JobInv
<1>2. Holds(files, listed, flushed) /\ NextPart /\ FilePart
  BY <1>1 DEF SurviveInv
<1> DEFINE f == job.name
           w == Whole(job.data)
<1>3. files' = [files EXCEPT ![f] = Append(@, Head(job.todo))]
  BY DEF WriteBlock
<1>4. PICK k \in 0..3 : files[f] = SubSeq(w, 1, k) /\ job.todo = SubSeq(w, k + 1, 4)
  BY <1>2, Zenon DEF FilePart
<1>5. f \in DOMAIN files /\ DOMAIN job = JobFields
  BY <1>2 DEF FilePart, ManifestInv, JobInv
<1>6. /\ f \in DOMAIN files' /\ files'[f] = SubSeq(w, 1, k + 1)
      /\ \A g \in DOMAIN files : g # f => g \in DOMAIN files' /\ files'[g] = files[g]
  <2> HIDE DEF f, w
  <2>1. Append(SubSeq(w, 1, k), Head(SubSeq(w, k + 1, 4))) = SubSeq(w, 1, k + 1)
    BY BlockStep DEF w
  <2> QED
    BY <2>1, <1>3, <1>4, <1>5
<1>7. /\ Len(job.todo) = 4 - k /\ Tail(job.todo) = SubSeq(w, (k + 1) + 1, 4)
      /\ SubSeq(w, 1, 4) = w
  BY <1>4, BlockStep
<1>8. \A g \in FilesOf(listed) : g # f /\ g \in DOMAIN files' /\ files'[g] = files[g]
  BY <1>2, <1>6 DEF Holds, Complete, NextPart
<1>9. Holds(files', listed', flushed')
  BY <1>1, <1>2, <1>8, SameHolds
<1>10. \A g \in FilesOf(job.next) \ {f} : g \in FilesOf(listed)
  BY <1>2 DEF NextPart
<1>11. /\ Stored(files', FilesOf(job.next) \ {f}) = Stored(files, FilesOf(job.next) \ {f})
       /\ flushed \subseteq job.data \union Stored(files', FilesOf(job.next) \ {f})
  <2>1. Stored(files', FilesOf(job.next) \ {f}) = Stored(files, FilesOf(job.next) \ {f})
    BY <1>8, <1>10, SameStored
  <2> QED
    BY <2>1, <1>2 DEF NextPart
<1>12. CASE Len(job.todo) > 1
  <2>1. job' = [job EXCEPT !.todo = Tail(@)]
    BY <1>12 DEF WriteBlock
  <2>2. /\ job'.phase = "sst" /\ job'.compact = job.compact /\ job'.name = f
        /\ job'.data = job.data /\ job'.next = job.next /\ job'.todo = Tail(job.todo)
    BY <2>1, <1>1, <1>5 DEF JobFields
  <2>3. k + 1 \in 0..3
    BY <1>7, <1>12
  <2>4. FilePart'
    <3> HIDE DEF w, f
    <3>1. \E n \in 0..3 : files'[f] = SubSeq(w, 1, n) /\ job'.todo = SubSeq(w, n + 1, 4)
      BY <1>6, <1>7, <2>2, <2>3
    <3>2. job'.name = f /\ Whole(job'.data) = w
      BY <2>2 DEF w
    <3> QED
      BY <3>1, <3>2, <1>6 DEF FilePart
  <2>5. NextPart'
    BY <2>2, <1>1, <1>2, <1>11 DEF NextPart
  <2> QED
    BY <2>2, <2>4, <2>5, <1>1, <1>9 DEF SurviveInv
<1>13. CASE ~ (Len(job.todo) > 1)
  <2>1. job' = [job EXCEPT !.phase = "open", !.todo = Encode(job.next)]
    BY <1>13 DEF WriteBlock
  <2>2. job'.phase = "open" /\ job'.compact = job.compact /\ job'.next = job.next
    BY <2>1, <1>5 DEF JobFields
  <2>3. k + 1 = 4
    BY <1>7, <1>13
  <2>4. f \in DOMAIN files' /\ files'[f] = w
    BY <2>3, <1>6, <1>7
  <2>5. Complete(files', f) /\ files'[f][1].data = job.data
    BY <2>4, WholeComplete
  <2>6. \A g \in FilesOf(job.next) : Complete(files', g)
    <3> SUFFICES ASSUME NEW g \in FilesOf(job.next), g # f
                 PROVE  Complete(files', g)
      BY <2>5
    <3>1. g \in FilesOf(listed)
      BY <1>10
    <3> QED
      BY <3>1, <1>1, <1>9 DEF Holds
  <2>7. \A x : x \in job.data \union Stored(files', FilesOf(job.next) \ {f})
                  => x \in Stored(files', FilesOf(job.next))
    <3>1. f \in FilesOf(job.next)
      BY <1>2 DEF NextPart
    <3> QED
      BY <3>1, <2>5, Zenon DEF Stored
  <2>8. Holds(files', job.next, flushed)
    BY <2>6, <2>7, <1>11 DEF Holds
  <2>9. ~ job.compact => flushes \in Stored(files', FilesOf(job.next))
    BY <2>7, <1>2 DEF NextPart
  <2> QED
    BY <2>2, <2>8, <2>9, <1>1, <1>9 DEF SurviveInv
<1> QED
  BY <1>12, <1>13

(* MANIFEST is written, and then the new manifest is the one on disk.      *)
LEMMA SurviveManifest ==
    ASSUME ManifestInv, SurviveInv, OpenManifest \/ AppendManifest
    PROVE  SurviveInv'
<1> SUFFICES ASSUME ~ lost' PROVE SurviveInv'
  BY DEF SurviveInv
<1>1. /\ ~ lost /\ job.phase \in {"open", "append"} /\ pc[Flusher] = "work"
      /\ UNCHANGED <<files, flushed, flushes, lost, pc>>
  BY DEF OpenManifest, AppendManifest, versionvars, ManifestInv, JobInv
<1>2. /\ Holds(files, listed, flushed) /\ Holds(files, job.next, flushed)
      /\ ~ job.compact => flushes \in Stored(files, FilesOf(job.next))
  BY <1>1 DEF SurviveInv
<1>3. DOMAIN job = JobFields
  BY DEF ManifestInv, JobInv
<1>4. CASE OpenManifest
  <2>1. /\ job'.phase = "append" /\ job'.compact = job.compact /\ job'.next = job.next
        /\ listed' = listed
    BY <1>3, <1>4 DEF OpenManifest, JobFields
  <2> QED
    BY <2>1, <1>1, <1>2 DEF SurviveInv
<1>5. CASE AppendManifest
  <2>1. CASE Len(job.todo) > Buffer
    <3>1. /\ job'.phase = "append" /\ job'.compact = job.compact /\ job'.next = job.next
          /\ listed' = listed
      <4>1. job' = [job EXCEPT !.todo = SubSeq(@, Buffer + 1, Len(@))] /\ listed' = listed
        BY <1>5, <2>1 DEF AppendManifest
      <4> QED
        BY <4>1, <1>3, <1>5 DEF AppendManifest, JobFields
    <3> QED
      BY <3>1, <1>1, <1>2 DEF SurviveInv
  <2>2. CASE ~ (Len(job.todo) > Buffer)
    <3>1. /\ job' = IF job.compact THEN [NoJob EXCEPT !.phase = "loop"]
                    ELSE [NoJob EXCEPT !.phase = "version"]
          /\ listed' = job.next
      BY <1>5, <2>2 DEF AppendManifest
    <3>2. \/ job.compact /\ job'.phase = "loop"
          \/ ~ job.compact /\ job'.phase = "version"
      BY <3>1 DEF NoJob
    <3> QED
      BY <3>1, <3>2, <1>1, <1>2 DEF SurviveInv
  <2> QED
    BY <2>1, <2>2
<1> QED
  BY <1>4, <1>5

(* The flush fails, or ends: what it flushed is in the manifest on disk.   *)
LEMMA SurviveEnd ==
    ASSUME VersionInv, ManifestInv, SurviveInv, WriteFails \/ AppendFlush \/ EndFlush
    PROVE  SurviveInv'
<1> SUFFICES ASSUME ~ lost' PROVE SurviveInv'
  BY DEF SurviveInv
<1>1. ~ lost /\ UNCHANGED <<files, listed, flushes, lost>>
  BY DEF WriteFails, AppendFlush, EndFlush, diskvars, historyvars
<1>2. Holds(files, listed, flushed)
  BY <1>1 DEF SurviveInv
<1>3. DOMAIN job = JobFields /\ (job.phase # "none" <=> pc[Flusher] = "work")
  BY DEF ManifestInv, JobInv
<1>4. CASE WriteFails
  <2>1. flushed' = flushed
    BY <1>4 DEF WriteFails
  <2>2. CASE job' = NoJob /\ CompactFails
    <3>1. pc'[Flusher] = "failed"
      BY <2>2, FlusherMoves DEF CompactFails, Users
    <3> QED
      BY <2>1, <2>2, <3>1, <1>1, <1>2, NoJobFields DEF SurviveInv
  <2>3. CASE job' = [NoJob EXCEPT !.phase = "version", !.ok = FALSE]
    <3>1. job'.phase = "version" /\ ~ job'.ok
      BY <2>3 DEF NoJob
    <3> QED
      BY <2>1, <3>1, <1>1, <1>2 DEF SurviveInv
  <2> QED
    BY <1>4, <2>2, <2>3 DEF WriteFails
<1>5. CASE AppendFlush
  <2>1. job.phase = "version" /\ job' = [job EXCEPT !.phase = "none"] /\ flushed' = flushed
    BY <1>5 DEF AppendFlush, historyvars
  <2>2. job'.phase = "none" /\ job'.ok = job.ok
    BY <2>1, <1>3 DEF JobFields
  <2>3. job.ok => flushes \in Stored(files, FilesOf(listed))
    BY <2>1, <1>1 DEF SurviveInv
  <2> QED
    BY <2>1, <2>2, <2>3, <1>1, <1>2 DEF SurviveInv
<1>6. CASE EndFlush
  <2>1. /\ pc[Flusher] = "unref" /\ pc'[Flusher] # "unref" /\ job' = NoJob
        /\ flushed' = IF job.ok THEN flushed \union {flushes} ELSE flushed
    <3>1. /\ pc[Flusher] = "unref" /\ job' = NoJob
          /\ flushed' = IF job.ok THEN flushed \union {flushes} ELSE flushed
      BY <1>6 DEF EndFlush, FlushUnref
    <3>2. pc' = [pc EXCEPT ![Flusher] = IF job.ok THEN "idle" ELSE "failed"]
      BY <1>6 DEF EndFlush, FlushUnref
    <3>3. Flusher \in Users
      BY DEF Users
    <3>4. pc'[Flusher] = IF job.ok THEN "idle" ELSE "failed"
      BY <3>2, <3>3, FlusherMoves
    <3> QED
      BY <3>1, <3>4
  <2>2. job.ok => flushes \in Stored(files, FilesOf(listed))
    BY <2>1, <1>1 DEF SurviveInv
  <2>3. Holds(files, listed, flushed')
    BY <2>1, <2>2, <1>2 DEF Holds
  <2> QED
    BY <2>1, <2>3, <1>1, NoJobFields DEF SurviveInv
<1> QED
  BY <1>4, <1>5, <1>6

(* Every step.                                                             *)
LEMMA SurviveNext ==
    VersionInv /\ ManifestInv /\ SurviveInv /\ [Next]_vars => SurviveInv'
<1> SUFFICES ASSUME VersionInv, ManifestInv, SurviveInv, [Next]_vars PROVE SurviveInv'
  OBVIOUS
<1>1. CASE UNCHANGED vars
  BY <1>1 DEF vars, versionvars, diskvars, historyvars, SurviveInv, NextPart, FilePart
<1> QED
  BY <1>1, SurviveQuiet, SurviveNewFile, SurviveBlock, SurviveManifest, SurviveEnd DEF Next

(* What is flushed is on disk, in the files that are listed there and in   *)
(* those that will be listed next.                                         *)
THEOREM SurviveInvariance == Spec => []SurviveInv
<1>1. Init => SurviveInv
  BY SurviveInit
<1>2. VersionInv /\ ManifestInv /\ SurviveInv /\ [Next]_vars => SurviveInv'
  BY SurviveNext
<1> QED
  BY <1>1, <1>2, Invariance, ManifestInvariance, PTL DEF Spec

(* Whenever the process stops, MANIFEST lists complete files only, and     *)
(* these hold every flush that returned without an error, unless MANIFEST  *)
(* was being rewritten or a file was written twice.                        *)
THEOREM FlushesSurvive == Spec => []FlushedSurvive
<1>1. ManifestInv /\ SurviveInv => FlushedSurvive
  <2> SUFFICES ASSUME ManifestInv, SurviveInv, ~ torn, ~ lost, MANIFEST # Absent
               PROVE  /\ \A f \in FilesOf(Decode(MANIFEST)) : Intact(f)
                      /\ flushed \subseteq UNION {DataOf(f) : f \in FilesOf(Decode(MANIFEST))}
    BY DEF FlushedSurvive
  <2>1. Decode(MANIFEST) = listed /\ Holds(files, listed, flushed)
    BY DEF ManifestInv, TextInv, SurviveInv
  <2>2. \A f \in FilesOf(listed) : Intact(f)
    BY <2>1 DEF Holds, Complete, Intact
  <2>3. flushed \subseteq UNION {DataOf(f) : f \in FilesOf(listed)}
    BY <2>1 DEF Holds, Stored, DataOf
  <2> QED
    BY <2>1, <2>2, <2>3
<1> QED
  BY <1>1, ManifestInvariance, SurviveInvariance, PTL
=============================================================================
