-------------------------- MODULE ReaderPoolProofs --------------------------
(***************************************************************************)
(* Proofs about the readers of TCIO, for any number of readers, threads    *)
(* and parts, and for as many reads as there may be.                       *)
(*                                                                         *)
(* That a thread reads its own part rests on its having the buffer for     *)
(* itself from filling it to copying it out, and that on no reader being   *)
(* with two threads, or with a thread and in the vector.  PoolInv says so  *)
(* reader by reader; ReadersKept only counts.                              *)
(***************************************************************************)
EXTENDS ReaderPool, FiniteSetTheorems, SequenceTheorems, TLAPS

Rs == 1..kDefaultReaderNum

Busy == {"read", "copy", "got", "give"}

TypeOK ==
    /\ readers_ \in Seq(Rs)
    /\ reader \in [Threads -> Rs \union {0}]
    /\ buffer \in [Rs -> Parts \union {NoPart}]
    /\ want \in [Threads -> Seq(Parts)]
    /\ ret \in [Threads -> Parts \union {NoPart}]
    /\ pc \in [Threads -> Busy \union {"idle", "undefined"}]

(* A reader is in one place of the vector or with one thread, ...          *)
Apart ==
    /\ \A i, j \in DOMAIN readers_ : readers_[i] = readers_[j] => i = j
    /\ \A t, u \in Threads : reader[t] = reader[u] /\ reader[t] # 0 => t = u
    /\ \A t \in Threads, i \in DOMAIN readers_ : reader[t] # readers_[i]

(* ... and in no case nowhere.                                             *)
Kept ==
    \A r \in Rs : \/ \E i \in DOMAIN readers_ : readers_[i] = r
                  \/ \E t \in Threads : reader[t] = r

(* A call has a reader as long as it runs, and something left to read      *)
(* until it has read it all.                                               *)
Calls ==
    \A t \in Threads : /\ pc[t] \in Busy <=> reader[t] # 0
                       /\ pc[t] \in {"read", "copy", "got"} => want[t] # <<>>

(* What was read into the buffer is still there when it is copied out.     *)
Buffered == \A t \in Threads : pc[t] = "copy" => buffer[reader[t]] = Head(want[t])

PoolInv == TypeOK /\ Apart /\ Kept /\ Calls /\ Buffered /\ OwnPart

-----------------------------------------------------------------------------
(* TCIO starts with all its readers in the vector.                         *)
LEMMA InitInv == Init => PoolInv
<1> SUFFICES ASSUME Init PROVE PoolInv
  OBVIOUS
<1> USE ReaderPoolAssumption DEF Init, Rs, Busy
<1>1. TypeOK
  <2>1. readers_ \in Seq(Rs)
    OBVIOUS
  <2> QED
    BY <2>1 DEF TypeOK
<1>2. Apart /\ Kept
  <2>1. DOMAIN readers_ = Rs /\ \A i \in Rs : readers_[i] = i
    OBVIOUS
  <2> QED
    BY <2>1 DEF Apart, Kept
<1>3. Calls /\ Buffered /\ OwnPart
  BY DEF Calls, Buffered, OwnPart
<1> QED
  BY <1>1, <1>2, <1>3 DEF PoolInv

(* The places of a sequence that loses or gets its last element.           *)
LEMMA Places ==
    ASSUME NEW n \in Nat
    PROVE  /\ \A i \in 1..(n - 1) : i \in 1..n /\ i # n
           /\ \A i \in 1..(n + 1) : i \in 1..n \/ i = n + 1
           /\ 1..n \subseteq 1..(n + 1) /\ n + 1 \in 1..(n + 1)
OBVIOUS

(* What is left of a sequence of two or more is not empty.                 *)
LEMMA TailLeft ==
    ASSUME NEW S, NEW s \in Seq(S), s # <<>>
    PROVE  Tail(s) \in Seq(S) /\ (Len(s) > 1 => Tail(s) # <<>>)
<1>1. Tail(s) \in Seq(S) /\ Len(Tail(s)) = Len(s) - 1 /\ Len(s) \in Nat
  BY HeadTailProperties, LenProperties
<1>2. Tail(s) = <<>> => Len(Tail(s)) = 0
  <2>1. Len(<<>>) = 0
    BY EmptySeq, Zenon
  <2> QED
    BY <2>1, Zenon
<1> QED
  BY <1>1, <1>2

(* Taking the reader at the back of the vector.                            *)
LEMMA TakeInv ==
    ASSUME PoolInv, NEW t \in Threads, NEW parts \in Seq(Parts), parts # <<>>,
           readers_ # <<>>, pc[t] = "idle", Take(t, parts),
           UNCHANGED <<buffer, ret>>
    PROVE  PoolInv'
<1> USE DEF Busy
<1>z. 0 \notin Rs
  BY DEF Rs
<1>t. TypeOK /\ Apart /\ Kept /\ Calls /\ Buffered /\ OwnPart
  BY DEF PoolInv
<1>1. Len(readers_) \in Nat \ {0} /\ DOMAIN readers_ = 1..Len(readers_)
  BY <1>t DEF TypeOK
<1>2. /\ readers_' \in Seq(Rs) /\ DOMAIN readers_' = 1..(Len(readers_) - 1)
      /\ \A i \in 1..(Len(readers_) - 1) : readers_'[i] = readers_[i]
  <2>1. readers_' = SubSeq(readers_, 1, Len(readers_) - 1)
    BY DEF Take, PopBack, Front
  <2>2. \A i \in 1..(Len(readers_) - 1) : readers_[i] \in Rs
    BY <1>1, <1>t, ElementOfSeq DEF TypeOK
  <2> QED
    BY <1>1, <2>1, <2>2, SubSeqProperties
<1>3. /\ reader' = [reader EXCEPT ![t] = readers_[Len(readers_)]]
      /\ readers_[Len(readers_)] \in Rs
  BY <1>1, <1>t, ElementOfSeq DEF Take, Last, TypeOK
<1>4. /\ pc' = [pc EXCEPT ![t] = "read"] /\ want' = [want EXCEPT ![t] = parts]
      /\ buffer' = buffer /\ ret' = ret
  BY DEF Take, Goto
<1>5. TypeOK'
  BY <1>2, <1>3, <1>4, <1>t DEF TypeOK
<1>6. Apart'
  <2> DEFINE n == Len(readers_)
  <2>1. \A i \in 1..(n - 1) : i \in 1..n /\ i # n
    BY <1>1, Places
  <2>2. \A i, j \in 1..(n - 1) : readers_'[i] = readers_'[j] => i = j
    BY <2>1, <1>1, <1>2, <1>t DEF Apart
  <2>3. \A u \in Threads : reader'[u] = IF u = t THEN readers_[n] ELSE reader[u]
    BY <1>3, <1>t DEF TypeOK
  <2>4. \A u, v \in Threads : reader'[u] = reader'[v] /\ reader'[u] # 0 => u = v
    BY <2>3, <1>1, <1>t DEF Apart
  <2>5. ASSUME NEW u \in Threads, NEW i \in 1..(n - 1)
        PROVE  reader'[u] # readers_'[i]
    <3>1. i \in DOMAIN readers_ /\ n \in DOMAIN readers_ /\ i # n
      <4>1. i \in 1..n /\ i # n
        BY <2>1, <2>5
      <4>2. n \in 1..n
        BY <1>1
      <4> QED
        BY <4>1, <4>2, <1>1
    <3>2. readers_[i] # readers_[n] /\ readers_[i] # reader[u]
      BY <3>1, <1>t DEF Apart
    <3> QED
      BY <3>2, <2>3, <1>2
  <2> QED
    BY <2>2, <2>4, <2>5, <1>2 DEF Apart
<1>7. Kept'
  <2> SUFFICES ASSUME NEW r \in Rs
               PROVE  \/ \E i \in DOMAIN readers_' : readers_'[i] = r
                      \/ \E u \in Threads : reader'[u] = r
    BY DEF Kept
  <2>1. CASE r = readers_[Len(readers_)]
    BY <2>1, <1>3, <1>t DEF TypeOK
  <2>2. ASSUME NEW i \in DOMAIN readers_, readers_[i] = r, i # Len(readers_)
        PROVE  \E k \in DOMAIN readers_' : readers_'[k] = r
    <3>1. i \in 1..(Len(readers_) - 1)
      BY <1>1, <2>2
    <3> QED
      BY <3>1, <1>2, <2>2
  <2>3. ASSUME NEW u \in Threads, reader[u] = r
        PROVE  \E v \in Threads : reader'[v] = r
    <3>1. u # t
      BY <2>3, <1>t, <1>z DEF Calls
    <3> QED
      BY <3>1, <2>3, <1>3, <1>t DEF TypeOK
  <2> QED
    BY <2>1, <2>2, <2>3, <1>t DEF Kept
<1>8. Calls' /\ Buffered' /\ OwnPart'
  <2>1. readers_[Len(readers_)] # 0
    BY <1>3, <1>z
  <2> QED
    BY <2>1, <1>3, <1>4, <1>t DEF Calls, Buffered, OwnPart, TypeOK
<1> QED
  BY <1>5, <1>6, <1>7, <1>8 DEF PoolInv

(* Every step of every thread keeps the invariant.                         *)
LEMMA NextInv ==
    ASSUME PoolInv, [Next]_vars
    PROVE  PoolInv'
<1> USE DEF Busy
<1>z. 0 \notin Rs
  BY DEF Rs
<1>t. TypeOK /\ Apart /\ Kept /\ Calls /\ Buffered /\ OwnPart
  BY DEF PoolInv
<1>1. ASSUME NEW t \in Threads, ReadManifest(t)
      PROVE  PoolInv'
  <2>1. CASE readers_ = <<>>
    <3>1. UNCHANGED <<readers_, reader, buffer, want, ret, pc>>
      BY <2>1, <1>1 DEF ReadManifest
    <3> QED
      BY <3>1, <1>t DEF PoolInv, TypeOK, Apart, Kept, Calls, Buffered, OwnPart
  <2>2. CASE readers_ # <<>>
    <3>1. PICK p \in Parts : Take(t, <<p>>)
      BY <2>2, <1>1 DEF ReadManifest
    <3>2. <<p>> \in Seq(Parts) /\ <<p>> # <<>>
      OBVIOUS
    <3>3. pc[t] = "idle" /\ UNCHANGED <<buffer, ret>>
      BY <1>1 DEF ReadManifest
    <3> QED
      BY <2>2, <3>1, <3>2, <3>3, TakeInv
  <2> QED
    BY <2>1, <2>2
<1>2. ASSUME NEW t \in Threads, ReadSST(t)
      PROVE  PoolInv'
  <2>0. pc[t] = "idle" /\ UNCHANGED <<buffer, ret>>
    BY <1>2 DEF ReadSST
  <2>1. CASE readers_ = <<>>
    <3>1. /\ UNCHANGED <<readers_, reader, buffer, want, ret>>
          /\ pc' = [pc EXCEPT ![t] = "undefined"]
      BY <2>1, <1>2 DEF ReadSST, Undefined, Goto
    <3>2. TypeOK' /\ Apart' /\ Kept'
      BY <3>1, <1>t DEF TypeOK, Apart, Kept
    <3>3. Calls' /\ Buffered' /\ OwnPart'
      BY <2>0, <3>1, <1>t DEF TypeOK, Calls, Buffered, OwnPart
    <3> QED
      BY <3>2, <3>3 DEF PoolInv
  <2>2. CASE readers_ # <<>>
    <3>1. PICK p \in Parts, q \in Parts : \E parts \in {<<p>>, <<p, q, q>>} : Take(t, parts)
      BY <2>2, <1>2 DEF ReadSST
    <3>2. PICK parts \in {<<p>>, <<p, q, q>>} : Take(t, parts)
      BY <3>1
    <3>3. parts \in Seq(Parts) /\ parts # <<>>
      <4>1. <<p>> \in Seq(Parts) /\ <<p>> # <<>>
        OBVIOUS
      <4>2. <<p, q, q>> \in Seq(Parts) /\ <<p, q, q>> # <<>>
        OBVIOUS
      <4> QED
        BY <4>1, <4>2, <3>2
    <3> QED
      BY <2>0, <2>2, <3>2, <3>3, TakeInv
  <2> QED
    BY <2>1, <2>2
<1>3. ASSUME NEW t \in Threads, ReadBytes(t)
      PROVE  PoolInv'
  <2>0. /\ pc[t] = "read" /\ reader[t] \in Rs /\ want[t] # <<>>
        /\ UNCHANGED <<readers_, reader, want>>
    BY <1>3, <1>t DEF ReadBytes, Calls, TypeOK
  <2>1. Head(want[t]) \in Parts
    BY <2>0, <1>t DEF TypeOK
  <2>2. \/ /\ ret' = [ret EXCEPT ![t] = Head(want[t])] /\ buffer' = buffer
           /\ pc' = [pc EXCEPT ![t] = "got"]
        \/ /\ buffer' = [buffer EXCEPT ![reader[t]] = Head(want[t])] /\ ret' = ret
           /\ pc' = [pc EXCEPT ![t] = "copy"]
    BY <1>3 DEF ReadBytes, Goto
  <2>3. TypeOK'
    BY <2>0, <2>1, <2>2, <1>t DEF TypeOK
  <2>4. Apart' /\ Kept'
    BY <2>0, <1>t DEF Apart, Kept
  <2>5. Calls'
    BY <2>0, <2>2, <1>t DEF Calls, TypeOK
  <2>6. Buffered'
    <3> SUFFICES ASSUME NEW u \in Threads, pc'[u] = "copy"
                 PROVE  buffer'[reader[u]] = Head(want[u])
      BY <2>0 DEF Buffered
    <3>1. CASE u = t
      <4>1. buffer' = [buffer EXCEPT ![reader[t]] = Head(want[t])]
        BY <3>1, <2>2, <1>t DEF TypeOK
      <4> QED
        BY <4>1, <3>1, <2>0, <1>t DEF TypeOK
    <3>2. CASE u # t
      <4>1. pc[u] = "copy"
        BY <3>2, <2>2, <1>t DEF TypeOK
      <4>2. reader[u] \in Rs /\ reader[u] # 0
        BY <4>1, <1>t DEF Calls, Busy, TypeOK
      <4>3. reader[u] # reader[t]
        BY <4>2, <3>2, <1>t DEF Apart
      <4>4. buffer'[reader[u]] = buffer[reader[u]]
        BY <4>2, <4>3, <2>2, <1>t DEF TypeOK
      <4> QED
        BY <4>1, <4>4, <1>t DEF Buffered
    <3> QED
      BY <3>1, <3>2
  <2>7. OwnPart'
    BY <2>0, <2>2, <1>t DEF OwnPart, TypeOK
  <2> QED
    BY <2>3, <2>4, <2>5, <2>6, <2>7 DEF PoolInv
<1>4. ASSUME NEW t \in Threads, CopyOut(t)
      PROVE  PoolInv'
  <2>0. reader[t] \in Rs /\ pc[t] = "copy"
    BY <1>4, <1>t DEF CopyOut, Calls, TypeOK
  <2>1. TypeOK' /\ Apart' /\ Kept'
    BY <1>4, <2>0, <1>t DEF CopyOut, Goto, TypeOK, Apart, Kept
  <2>2. Calls' /\ Buffered' /\ OwnPart'
    BY <1>4, <2>0, <1>t DEF CopyOut, Goto, TypeOK, Calls, Buffered, OwnPart
  <2> QED
    BY <2>1, <2>2 DEF PoolInv
<1>5. ASSUME NEW t \in Threads, Advance(t)
      PROVE  PoolInv'
  <2>0. /\ pc[t] = "got" /\ want[t] \in Seq(Parts) /\ want[t] # <<>>
        /\ UNCHANGED <<readers_, reader, buffer, ret>>
    BY <1>5, <1>t DEF Advance, Calls, TypeOK
  <2>1. /\ Tail(want[t]) \in Seq(Parts)
        /\ Len(want[t]) > 1 => Tail(want[t]) # <<>>
    BY <2>0, TailLeft
  <2>2. TypeOK' /\ Apart' /\ Kept'
    BY <1>5, <2>0, <2>1, <1>t DEF Advance, Goto, TypeOK, Apart, Kept
  <2>3. Calls' /\ Buffered' /\ OwnPart'
    BY <1>5, <2>0, <2>1, <1>t DEF Advance, Goto, TypeOK, Calls, Buffered, OwnPart
  <2> QED
    BY <2>2, <2>3 DEF PoolInv
<1>6. ASSUME NEW t \in Threads, ReadFails(t)
      PROVE  PoolInv'
  <2>1. TypeOK' /\ Apart' /\ Kept'
    BY <1>6, <1>t DEF ReadFails, Goto, TypeOK, Apart, Kept
  <2>2. Calls' /\ Buffered' /\ OwnPart'
    BY <1>6, <1>t DEF ReadFails, Goto, TypeOK, Calls, Buffered, OwnPart
  <2> QED
    BY <2>1, <2>2 DEF PoolInv
<1>7. ASSUME NEW t \in Threads, GiveBack(t)
      PROVE  PoolInv'
  <2>0. reader[t] \in Rs /\ pc[t] = "give"
    BY <1>7, <1>t DEF GiveBack, Calls, TypeOK
  <2>1. /\ Len(readers_) \in Nat /\ DOMAIN readers_ = 1..Len(readers_)
        /\ readers_' \in Seq(Rs) /\ DOMAIN readers_' = 1..(Len(readers_) + 1)
        /\ \A i \in 1..Len(readers_) : readers_'[i] = readers_[i]
        /\ readers_'[Len(readers_) + 1] = reader[t]
    BY <1>7, <2>0, <1>t DEF GiveBack, TypeOK
  <2>2. /\ reader' = [reader EXCEPT ![t] = 0]
        /\ pc' = [pc EXCEPT ![t] = "idle"]
        /\ UNCHANGED <<buffer, want, ret>>
    BY <1>7 DEF GiveBack, Goto
  <2>3. TypeOK'
    BY <2>0, <2>1, <2>2, <1>t DEF TypeOK
  <2> DEFINE n == Len(readers_)
  <2>7. \A i \in 1..(n + 1) : i \in 1..n \/ i = n + 1
    BY <2>1, Places
  <2>8. \A u \in Threads : reader'[u] = IF u = t THEN 0 ELSE reader[u]
    BY <2>2, <1>t DEF TypeOK
  <2>4. Apart'
    <3>1. \A i, j \in 1..(n + 1) : readers_'[i] = readers_'[j] => i = j
      BY <2>1, <2>7, <1>t DEF Apart
    <3>2. \A u, v \in Threads : reader'[u] = reader'[v] /\ reader'[u] # 0 => u = v
      BY <2>8, <1>t DEF Apart
    <3>3. \A i \in 1..(n + 1) : readers_'[i] # 0
      BY <2>0, <2>1, <2>7, <1>z, <1>t, ElementOfSeq DEF TypeOK
    <3>4. \A u \in Threads, i \in 1..(n + 1) : reader'[u] # readers_'[i]
      BY <2>0, <2>1, <2>7, <2>8, <3>3, <1>z, <1>t DEF Apart
    <3> QED
      BY <3>1, <3>2, <3>4, <2>1 DEF Apart
  <2>5. Kept'
    <3>1. 1..n \subseteq 1..(n + 1) /\ n + 1 \in 1..(n + 1)
      BY <2>1, Places
    <3> QED
      BY <3>1, <2>0, <2>1, <2>8, <1>t DEF Kept
  <2>6. Calls' /\ Buffered' /\ OwnPart'
    BY <2>0, <2>2, <1>t DEF TypeOK, Calls, Buffered, OwnPart
  <2> QED
    BY <2>3, <2>4, <2>5, <2>6 DEF PoolInv
<1>8. CASE UNCHANGED vars
  BY <1>8, <1>t DEF vars, PoolInv, TypeOK, Apart, Kept, Calls, Buffered, OwnPart
<1> QED
  BY <1>1, <1>2, <1>3, <1>4, <1>5, <1>6, <1>7, <1>8 DEF Next

(* PoolInv holds throughout, whatever the threads read.                    *)
THEOREM Invariance == Spec => []PoolInv
BY InitInv, NextInv, PTL DEF Spec

(* Short reads go through the buffer of a reader, without io_lock_; for    *)
(* any number of threads and readers each read returns its own part.       *)
THEOREM ReadsOwnPart == Spec => []OwnPart
BY Invariance, PTL DEF PoolInv

(* No reader of TCIO is lost and none is handed out twice, for any number  *)
(* of threads and readers and after any reads that failed.                 *)
THEOREM NoReaderLost == Spec => []ReadersKept
<1>1. PoolInv => ReadersKept
  <2> SUFFICES ASSUME PoolInv, NEW r \in Rs
               PROVE  Cardinality({i \in DOMAIN readers_ : readers_[i] = r})
                        + Cardinality({t \in Threads : reader[t] = r}) = 1
    BY DEF ReadersKept, Rs
  <2> DEFINE I == {i \in DOMAIN readers_ : readers_[i] = r}
             T == {t \in Threads : reader[t] = r}
  <2>0. r # 0 /\ Apart /\ Kept
    BY ReaderPoolAssumption DEF Rs, PoolInv
  <2>1. CASE \E i \in DOMAIN readers_ : readers_[i] = r
    <3>1. PICK i \in DOMAIN readers_ : readers_[i] = r
      BY <2>1
    <3>2. I = {i} /\ T = {}
      BY <3>1, <2>0 DEF Apart
    <3>3. Cardinality(I) = 1 /\ Cardinality(T) = 0
      BY <3>2, FS_Singleton, FS_EmptySet
    <3> QED
      BY <3>3
  <2>2. CASE ~ \E i \in DOMAIN readers_ : readers_[i] = r
    <3>1. PICK t \in Threads : reader[t] = r
      BY <2>2, <2>0 DEF Kept
    <3>2. I = {} /\ T = {t}
      BY <2>2, <3>1, <2>0 DEF Apart
    <3>3. Cardinality(I) = 0 /\ Cardinality(T) = 1
      BY <3>2, FS_Singleton, FS_EmptySet
    <3> QED
      BY <3>3
  <2> QED
    BY <2>1, <2>2
<1> QED
  BY <1>1, Invariance, PTL
=============================================================================
