------------------------ MODULE ReadWriteLockProofs ------------------------
(***************************************************************************)
(* Proofs about the read-write lock for every finite set of threads.       *)
(*                                                                         *)
(* MutualExclusion is not inductive: that a writer coming back from w_cv   *)
(* may enter unchecked depends on whoever notified it having left the lock *)
(* free, and that depends on what the counters count.  Inv adds both.      *)
(***************************************************************************)
EXTENDS ReadWriteLock, FiniteSetTheorems, TLAPS

W == {"w_wait", "w_woken", "writing"}
R == {"reading"}

Count(f, S) == Cardinality({t \in Threads : f[t] \in S})

(* The option that re-evaluates its predicate, or a platform that does not *)
(* wake a writer without a notification.                                   *)
WakeUpsAreSafe == Option = "Disallow" \/ MaxSpurious = 0

(* The threads the lock has been given to: with AllowSpuriousWakeUp a      *)
(* notified writer already counts, nothing will stop it any more.          *)
Granted == IF Option = "Allow" THEN {"w_woken", "writing"} ELSE {"writing"}

OneGranted ==
    /\ \A t, u \in Threads :
          phase[t] \in Granted /\ phase[u] \in Granted => t = u
    /\ \A t \in Threads : phase[t] \in Granted => read_count_ = 0

Inv == TypeOK /\ CountersExact /\ OneGranted

-----------------------------------------------------------------------------
(* How the number of threads in a set of phases follows one thread's move. *)
LEMMA CountStep ==
    ASSUME NEW f \in [Threads -> Phases], NEW g \in [Threads -> Phases],
           NEW S, NEW t \in Threads,
           \A u \in Threads \ {t} : g[u] \in S <=> f[u] \in S
    PROVE  /\ (f[t] \in S <=> g[t] \in S) => Count(g, S) = Count(f, S)
           /\ f[t] \notin S /\ g[t] \in S => Count(g, S) = Count(f, S) + 1
           /\ f[t] \in S /\ g[t] \notin S => Count(g, S) = Count(f, S) - 1
<1> DEFINE F == {u \in Threads : f[u] \in S}
           G == {u \in Threads : g[u] \in S}
<1>1. IsFiniteSet(F) /\ IsFiniteSet(G)
  BY ThreadsAssumption, FS_Subset
<1>2. Cardinality(F) \in Nat /\ Cardinality(G) \in Nat
  BY <1>1, FS_CardinalityType
<1>3. CASE f[t] \in S <=> g[t] \in S
  <2>1. F = G
    BY <1>3
  <2> QED
    BY <2>1, <1>3 DEF Count
<1>4. CASE f[t] \notin S /\ g[t] \in S
  <2>1. G = F \union {t} /\ t \notin F
    BY <1>4
  <2>2. Cardinality(G) = Cardinality(F) + 1
    BY <2>1, <1>1, FS_AddElement
  <2> QED
    BY <2>2, <1>4 DEF Count
<1>5. CASE f[t] \in S /\ g[t] \notin S
  <2>1. G = F \ {t} /\ t \in F
    BY <1>5
  <2>2. Cardinality(G) = Cardinality(F) - 1
    BY <2>1, <1>1, FS_RemoveElement
  <2> QED
    BY <2>2, <1>5 DEF Count
<1> QED
  BY <1>3, <1>4, <1>5

(* A count of zero means nobody, a count of at most one nobody else.       *)
LEMMA CountSmall ==
    ASSUME NEW f \in [Threads -> Phases], NEW S
    PROVE  /\ Count(f, S) \in Nat
           /\ Count(f, S) = 0 <=> \A t \in Threads : f[t] \notin S
           /\ Count(f, S) <= 1 =>
                 \A t, u \in Threads : f[t] \in S /\ f[u] \in S => t = u
<1> DEFINE F == {u \in Threads : f[u] \in S}
<1>1. IsFiniteSet(F)
  BY ThreadsAssumption, FS_Subset
<1>2. Cardinality(F) \in Nat
  BY <1>1, FS_CardinalityType
<1>3. Cardinality(F) = 0 <=> F = {}
  BY <1>1, FS_EmptySet
<1>4. ASSUME Cardinality(F) <= 1, NEW t \in F, NEW u \in F
      PROVE  t = u
  <2>1. Cardinality(F) = 1
    BY <1>2, <1>3, <1>4
  <2>2. \E x : F = {x}
    BY <2>1, <1>1, FS_Singleton
  <2> QED
    BY <2>2
<1> QED
  BY <1>2, <1>3, <1>4 DEF Count

-----------------------------------------------------------------------------
(* The counters, in the form the counting lemmas speak of.                 *)
LEMMA Counters ==
    /\ CountersExact <=> /\ write_count_ = Count(phase, W)
                         /\ read_count_ = Count(phase, R)
    /\ CountersExact' <=> /\ write_count_' = Count(phase', W)
                          /\ read_count_' = Count(phase', R)
BY DEF CountersExact, Count, In, W, R

(* A step in which only thread t enters or leaves the counted phases, and  *)
(* the counters move along with it, keeps them exact.                      *)
Member(p, S) == IF p \in S THEN 1 ELSE 0

CountersFollow(t) ==
    /\ \A u \in Threads \ {t} :
          /\ phase'[u] \in W <=> phase[u] \in W
          /\ phase'[u] \in R <=> phase[u] \in R
    /\ write_count_' = write_count_ + Member(phase'[t], W) - Member(phase[t], W)
    /\ read_count_' = read_count_ + Member(phase'[t], R) - Member(phase[t], R)

(* Counters that follow the change of one thread's phase stay exact.       *)
LEMMA CountersStep ==
    ASSUME NEW t \in Threads, TypeOK, TypeOK', CountersExact, CountersFollow(t)
    PROVE  CountersExact'
<1>1. phase \in [Threads -> Phases] /\ phase' \in [Threads -> Phases]
  BY DEF TypeOK
<1>2. write_count_ = Count(phase, W) /\ read_count_ = Count(phase, R)
  BY Counters
<1>3. Count(phase, W) \in Nat /\ Count(phase, R) \in Nat
  BY <1>1, CountSmall
<1>4. \A u \in Threads \ {t} : phase'[u] \in W <=> phase[u] \in W
  BY DEF CountersFollow
<1>5. \A u \in Threads \ {t} : phase'[u] \in R <=> phase[u] \in R
  BY DEF CountersFollow
<1>6. write_count_' = Count(phase', W)
  <2>1. /\ (phase[t] \in W <=> phase'[t] \in W) => Count(phase', W) = Count(phase, W)
        /\ phase[t] \notin W /\ phase'[t] \in W => Count(phase', W) = Count(phase, W) + 1
        /\ phase[t] \in W /\ phase'[t] \notin W => Count(phase', W) = Count(phase, W) - 1
    BY <1>1, <1>4, CountStep
  <2> QED
    BY <2>1, <1>2, <1>3 DEF CountersFollow, Member
<1>7. read_count_' = Count(phase', R)
  <2>1. /\ (phase[t] \in R <=> phase'[t] \in R) => Count(phase', R) = Count(phase, R)
        /\ phase[t] \notin R /\ phase'[t] \in R => Count(phase', R) = Count(phase, R) + 1
        /\ phase[t] \in R /\ phase'[t] \notin R => Count(phase', R) = Count(phase, R) - 1
    BY <1>1, <1>5, CountStep
  <2> QED
    BY <2>1, <1>2, <1>3 DEF CountersFollow, Member
<1> QED
  BY <1>6, <1>7, Counters

(* The lock starts free.                                                   *)
LEMMA InitInv == Init => Inv
<1> SUFFICES ASSUME Init PROVE Inv
  OBVIOUS
<1>1. TypeOK
  BY SpuriousAssumption DEF Init, TypeOK, Phases
<1>2. Count(phase, W) = 0 /\ Count(phase, R) = 0
  BY <1>1, CountSmall DEF Init, TypeOK, W, R
<1>3. CountersExact
  BY <1>2, Counters DEF Init
<1>4. OneGranted
  BY DEF Init, OneGranted, Granted
<1> QED
  BY <1>1, <1>3, <1>4 DEF Inv

(* Every step of every thread keeps the invariant.                         *)
LEMMA NextInv ==
    ASSUME WakeUpsAreSafe, Inv, [Next]_vars
    PROVE  Inv'
<1> USE OptionAssumption, SpuriousAssumption
<1>t. TypeOK /\ phase \in [Threads -> Phases] /\ write_count_ \in Nat
      /\ read_count_ \in Nat /\ OneGranted
  BY DEF Inv, TypeOK
<1>c. write_count_ = Count(phase, W) /\ read_count_ = Count(phase, R)
  BY Counters DEF Inv
<1>r. read_count_ = 0 <=> \A t \in Threads : phase[t] \notin R
  BY <1>t, <1>c, CountSmall
<1>w. write_count_ = 0 <=> \A t \in Threads : phase[t] \notin W
  BY <1>t, <1>c, CountSmall
<1>1. ASSUME NEW t \in Threads, phase[t] \in {"idle", "r_woken"},
             ReadEnterOrWait(t)
      PROVE  Inv'
  <2>1. TypeOK'
    BY <1>1, <1>t DEF ReadEnterOrWait, Goto, TypeOK, Phases
  <2>2. CountersExact'
    <3>1. CountersFollow(t)
      BY <1>1, <1>t
         DEF ReadEnterOrWait, Goto, TypeOK,
             CountersFollow, Member, W, R
    <3> QED
      BY <3>1, <1>t, <2>1, CountersStep DEF Inv
  <2>3. OneGranted'
    BY <1>1, <1>t, <1>w DEF ReadEnterOrWait, Goto, OneGranted, Granted, W
  <2> QED
    BY <2>1, <2>2, <2>3 DEF Inv
<1>2. ASSUME NEW t \in Threads, ReadUnlock(t)
      PROVE  Inv'
  <2>0. read_count_ \in Nat \ {0}
    BY <1>2, <1>t, <1>r DEF ReadUnlock, R
  <2>1. TypeOK'
    BY <1>2, <1>t, <2>0
       DEF ReadUnlock, ReadUnlockBody, NotifyOneWriter, In, Goto, TypeOK, Phases
  <2>2. CountersExact'
    <3>1. CountersFollow(t)
      BY <1>2, <1>t
         DEF ReadUnlock, ReadUnlockBody, NotifyOneWriter, In, Goto, TypeOK,
             CountersFollow, Member, W, R
    <3> QED
      BY <3>1, <1>t, <2>1, CountersStep DEF Inv
  <2>3. OneGranted'
    BY <1>2, <1>t, <2>0
       DEF ReadUnlock, ReadUnlockBody, NotifyOneWriter, In, Goto, OneGranted,
           Granted, TypeOK
  <2> QED
    BY <2>1, <2>2, <2>3 DEF Inv
<1>3. ASSUME NEW t \in Threads, WriteLock(t)
      PROVE  Inv'
  <2>1. TypeOK'
    BY <1>3, <1>t DEF WriteLock, Goto, TypeOK, Phases
  <2>2. CountersExact'
    <3>1. CountersFollow(t)
      BY <1>3, <1>t
         DEF WriteLock, Goto, TypeOK,
             CountersFollow, Member, W, R
    <3> QED
      BY <3>1, <1>t, <2>1, CountersStep DEF Inv
  <2>3. OneGranted'
    BY <1>3, <1>t, <1>w
       DEF WriteLock, MustWait, Goto, OneGranted, Granted, TypeOK, W
  <2> QED
    BY <2>1, <2>2, <2>3 DEF Inv
<1>4. ASSUME NEW t \in Threads, WriteLockResume(t)
      PROVE  Inv'
  <2>1. TypeOK'
    BY <1>4, <1>t DEF WriteLockResume, Goto, TypeOK, Phases
  <2>2. CountersExact'
    <3>1. CountersFollow(t)
      BY <1>4, <1>t
         DEF WriteLockResume, Goto, TypeOK,
             CountersFollow, Member, W, R
    <3> QED
      BY <3>1, <1>t, <2>1, CountersStep DEF Inv
  <2>3. OneGranted'
    <3>1. CASE Option = "Allow"
      BY <3>1, <1>4, <1>t DEF WriteLockResume, Goto, OneGranted, Granted
    <3>2. CASE Option = "Disallow" /\ MustWait(write_count_)
      BY <3>2, <1>4, <1>t DEF WriteLockResume, Goto, OneGranted, Granted
    <3>3. CASE Option = "Disallow" /\ ~ MustWait(write_count_)
      <4>1. write_count_ <= 1 /\ read_count_ = 0
        BY <3>3, <1>t DEF MustWait
      <4>2. \A u, v \in Threads : phase[u] \in W /\ phase[v] \in W => u = v
        BY <4>1, <1>t, <1>c, CountSmall
      <4> QED
        BY <3>3, <4>1, <4>2, <1>4, <1>t
           DEF WriteLockResume, Goto, OneGranted, Granted, W
    <3> QED
      BY <3>1, <3>2, <3>3
  <2> QED
    BY <2>1, <2>2, <2>3 DEF Inv
<1>5. ASSUME NEW t \in Threads, WriteUnlock(t)
      PROVE  Inv'
  <2>0. write_count_ \in Nat \ {0}
    BY <1>5, <1>t, <1>w DEF WriteUnlock, W
  <2>1. TypeOK'
    BY <1>5, <1>t, <2>0
       DEF WriteUnlock, NotifyAllReaders, NotifyOneWriter, In, Goto, TypeOK,
           Phases
  <2>2. CountersExact'
    <3>1. CountersFollow(t)
      BY <1>5, <1>t
         DEF WriteUnlock, NotifyAllReaders, NotifyOneWriter, In, Goto, TypeOK,
             CountersFollow, Member, W, R
    <3> QED
      BY <3>1, <1>t, <2>1, CountersStep DEF Inv
  <2>3. OneGranted'
    BY <1>5, <1>t
       DEF WriteUnlock, NotifyAllReaders, NotifyOneWriter, In, Goto,
           OneGranted, Granted, TypeOK
  <2> QED
    BY <2>1, <2>2, <2>3 DEF Inv
<1>6. ASSUME NEW t \in Threads, SpuriousWakeUp(t)
      PROVE  Inv'
  <2>0. Option = "Disallow" \/ phase[t] = "r_wait"
    BY <1>6, <1>t DEF SpuriousWakeUp, WakeUpsAreSafe, TypeOK
  <2>1. TypeOK'
    BY <1>6, <1>t DEF SpuriousWakeUp, Goto, TypeOK, Phases
  <2>2. CountersExact'
    <3>1. CountersFollow(t)
      BY <1>6, <1>t
         DEF SpuriousWakeUp, Goto, TypeOK,
             CountersFollow, Member, W, R
    <3> QED
      BY <3>1, <1>t, <2>1, CountersStep DEF Inv
  <2>3. OneGranted'
    BY <2>0, <1>6, <1>t DEF SpuriousWakeUp, Goto, OneGranted, Granted
  <2> QED
    BY <2>1, <2>2, <2>3 DEF Inv
<1>7. CASE UNCHANGED vars
  <2>1. TypeOK' /\ OneGranted'
    BY <1>7, <1>t DEF vars, TypeOK, OneGranted
  <2>2. CountersExact'
    BY <1>7, <1>c, Counters DEF vars
  <2> QED
    BY <2>1, <2>2 DEF Inv
<1> QED
  BY <1>1, <1>2, <1>3, <1>4, <1>5, <1>6, <1>7
     DEF Next, ReadLock, ReadLockResume
-----------------------------------------------------------------------------
(* Inv holds throughout, whatever the threads do.                          *)
THEOREM Invariance == ASSUME WakeUpsAreSafe PROVE Spec => []Inv
<1>1. Init => Inv
  BY InitInv
<1>2. Inv /\ [Next]_vars => Inv'
  BY NextInv
<1> QED
  BY <1>1, <1>2, PTL DEF Spec

(* The counters of the lock stay non-negative, and every thread is in one  *)
(* of the phases of ReadLock and WriteLock.                                *)
THEOREM TypeCorrect == ASSUME WakeUpsAreSafe PROVE Spec => []TypeOK
BY Invariance, PTL DEF Inv

(* A thread that the lock was given to leaves no reader and no other       *)
(* writer in it.                                                           *)
LEMMA InvExcludes == ASSUME Inv PROVE MutualExclusion
<1> SUFFICES ASSUME NEW t \in Threads, NEW u \in Threads,
                    phase[t] = "writing", u # t
             PROVE  phase[u] \notin {"reading", "writing"}
  BY DEF MutualExclusion
<1>1. phase[u] # "writing"
  BY DEF Inv, OneGranted, Granted
<1>2. read_count_ = 0 /\ read_count_ = Count(phase, R)
  BY Counters DEF Inv, OneGranted, Granted
<1>3. phase[u] \notin R
  BY <1>2, CountSmall DEF Inv, TypeOK
<1> QED
  BY <1>1, <1>3 DEF R

(* A thread past WriteLock excludes every other thread from the lock, for  *)
(* any number of threads: with DisallowSpuriousWakeUp always, with the     *)
(* default option as long as wait() returns only when notified.            *)
THEOREM Exclusion == ASSUME WakeUpsAreSafe PROVE Spec => []MutualExclusion
<1>1. Inv => MutualExclusion
  BY InvExcludes
<1> QED
  BY <1>1, Invariance, PTL

-----------------------------------------------------------------------------
(* Which threads a counter other than zero stands for, before and after.   *)
LEMMA CountersWitness ==
    ASSUME Inv
    PROVE  /\ write_count_ # 0 <=> \E t \in Threads : phase[t] \in W
           /\ read_count_ # 0 <=> \E t \in Threads : phase[t] \in R
BY Counters, CountSmall DEF Inv, TypeOK

(* Whoever goes to sleep leaves somebody who will wake him, and whoever    *)
(* leaves wakes the next.                                                  *)
LEMMA StrandedStep ==
    ASSUME Option = "Allow", MaxSpurious = 0, Inv, Inv', [Next]_vars,
           NoStrandedWriter, NoStrandedReader
    PROVE  NoStrandedWriter' /\ NoStrandedReader'
<1>t. TypeOK /\ TypeOK'
  BY DEF Inv
<1>a. /\ write_count_ # 0 <=> \E t \in Threads : phase[t] \in W
      /\ read_count_ # 0 <=> \E t \in Threads : phase[t] \in R
  BY CountersWitness
<1>b. /\ write_count_' # 0 <=> \E t \in Threads : phase'[t] \in W
      /\ read_count_' # 0 <=> \E t \in Threads : phase'[t] \in R
  <2>1. /\ write_count_' = Count(phase', W) /\ read_count_' = Count(phase', R)
        /\ phase' \in [Threads -> Phases]
    BY Counters DEF Inv, TypeOK
  <2> QED
    BY <2>1, CountSmall
<1>1. ASSUME NEW t \in Threads, phase[t] \in {"idle", "r_woken"},
             ReadEnterOrWait(t)
      PROVE  NoStrandedWriter' /\ NoStrandedReader'
  BY <1>1, <1>t, <1>a
     DEF ReadEnterOrWait, Goto, NoStrandedWriter, NoStrandedReader, In, TypeOK,
         W
<1>2. ASSUME NEW t \in Threads, ReadUnlock(t)
      PROVE  NoStrandedWriter' /\ NoStrandedReader'
  <2>1. NoStrandedReader'
    BY <1>2, <1>t
       DEF ReadUnlock, ReadUnlockBody, NotifyOneWriter, Goto, In, TypeOK,
           NoStrandedReader
  <2> SUFFICES NoStrandedWriter'
    BY <2>1
  <2>2. CASE read_count_' # 0
    BY <2>2, <1>b DEF NoStrandedWriter, In, R
  <2>3. CASE read_count_' = 0 /\ ~(write_count_ > 0)
    BY <2>3, <1>2, <1>t, <1>b
       DEF ReadUnlock, ReadUnlockBody, NoStrandedWriter, In, TypeOK, W
  <2>4. CASE read_count_' = 0 /\ write_count_ > 0
    <3>1. NotifyOneWriter(t) /\ phase[t] = "reading"
      BY <2>4, <1>2 DEF ReadUnlock, ReadUnlockBody
    <3> QED
      BY <3>1, <1>t DEF NotifyOneWriter, Goto, NoStrandedWriter, In, TypeOK
  <2> QED
    BY <2>2, <2>3, <2>4, <1>t DEF TypeOK
<1>3. ASSUME NEW t \in Threads, WriteLock(t)
      PROVE  NoStrandedWriter' /\ NoStrandedReader'
  <2>1. NoStrandedReader'
    BY <1>3, <1>t DEF WriteLock, Goto, In, TypeOK, NoStrandedReader
  <2>2. NoStrandedWriter'
    <3>1. CASE ~ MustWait(write_count_')
      BY <3>1, <1>3, <1>t DEF WriteLock, Goto, NoStrandedWriter, In, TypeOK
    <3>2. CASE MustWait(write_count_')
      <4>1. \E u \in Threads : phase[u] \in {"reading", "writing", "w_woken"}
        <5>1. read_count_ # 0 \/ write_count_ # 0
          BY <3>2, <1>3, <1>t DEF WriteLock, MustWait, TypeOK
        <5> QED
          BY <5>1, <1>a DEF NoStrandedWriter, In, W, R
      <4> QED
        BY <4>1, <1>3, <1>t DEF WriteLock, Goto, NoStrandedWriter, In, TypeOK
    <3> QED
      BY <3>1, <3>2
  <2> QED
    BY <2>1, <2>2
<1>4. ASSUME NEW t \in Threads, WriteLockResume(t)
      PROVE  NoStrandedWriter' /\ NoStrandedReader'
  BY <1>4, <1>t
     DEF WriteLockResume, Goto, NoStrandedWriter, NoStrandedReader, In, TypeOK
<1>5. ASSUME NEW t \in Threads, WriteUnlock(t)
      PROVE  NoStrandedWriter' /\ NoStrandedReader'
  <2>1. CASE write_count_' = 0
    <3>1. NoStrandedWriter'
      BY <2>1, <1>b DEF NoStrandedWriter, In, W
    <3>2. NoStrandedReader'
      BY <2>1, <1>5 DEF WriteUnlock, NotifyAllReaders, NoStrandedReader, In
    <3> QED
      BY <3>1, <3>2
  <2>2. CASE write_count_' # 0
    <3>1. NotifyOneWriter(t) /\ phase[t] = "writing"
      BY <2>2, <1>5 DEF WriteUnlock
    <3>2. NoStrandedReader'
      BY <2>2, <1>b DEF NoStrandedReader, In, W
    <3>3. NoStrandedWriter'
      BY <3>1, <1>t DEF NotifyOneWriter, Goto, NoStrandedWriter, In, TypeOK
    <3> QED
      BY <3>2, <3>3
  <2> QED
    BY <2>1, <2>2
<1>6. ASSUME NEW t \in Threads, SpuriousWakeUp(t)
      PROVE  NoStrandedWriter' /\ NoStrandedReader'
  <2>1. phase[t] = "r_wait"
    BY <1>6, <1>t DEF SpuriousWakeUp, TypeOK
  <2> QED
    BY <2>1, <1>6, <1>t
       DEF SpuriousWakeUp, Goto, NoStrandedWriter, NoStrandedReader, In, TypeOK
<1>7. CASE UNCHANGED vars
  BY <1>7 DEF vars, NoStrandedWriter, NoStrandedReader, In
<1> QED
  BY <1>1, <1>2, <1>3, <1>4, <1>5, <1>6, <1>7
     DEF Next, ReadLock, ReadLockResume

(* With the default option, and writers woken only when notified, no       *)
(* notification is lost: a queued writer always has somebody ahead of it   *)
(* who will notify it, and a waiting reader always has a writer ahead.     *)
THEOREM NobodyStranded ==
    ASSUME Option = "Allow", MaxSpurious = 0
    PROVE  Spec => []NoStranded
<1>1. Init => NoStrandedWriter /\ NoStrandedReader
  BY DEF Init, NoStrandedWriter, NoStrandedReader, In
<1>2. /\ Inv /\ Inv' /\ [Next]_vars
      /\ NoStrandedWriter /\ NoStrandedReader
      => NoStrandedWriter' /\ NoStrandedReader'
  BY StrandedStep
<1>3. Spec => []Inv
  BY Invariance DEF WakeUpsAreSafe
<1> QED
  BY <1>1, <1>2, <1>3, PTL DEF Spec, NoStranded
-----------------------------------------------------------------------------
(* A step of the lock is a step of the abstract lock, or does not show.    *)
LEMMA StepRefines ==
    ASSUME WakeUpsAreSafe, Inv, Inv', [Next]_vars
    PROVE  [Abstract!Next]_(Abstract!avars)
<1> USE OptionAssumption DEF In
<1>t. phase \in [Threads -> Phases]
  BY DEF Inv, TypeOK
<1>a. /\ write_count_ # 0 <=> \E t \in Threads : phase[t] \in W
      /\ read_count_ # 0 <=> \E t \in Threads : phase[t] \in R
  BY CountersWitness
<1>b. MutualExclusion'
  <2>1. OneGranted' /\ read_count_' = Count(phase', R) /\ TypeOK'
    BY Counters DEF Inv
  <2>2. read_count_' = 0 => \A u \in Threads : phase'[u] \notin R
    BY <2>1, CountSmall DEF TypeOK
  <2> QED
    BY <2>1, <2>2 DEF OneGranted, Granted, MutualExclusion, R
<1>1. ASSUME NEW t \in Threads, phase[t] \in {"idle", "r_woken"},
             ReadEnterOrWait(t)
      PROVE  [Abstract!Next]_(Abstract!avars)
  <2>1. CASE write_count_ # 0
    <3>1. In({"reading"})' = In({"reading"}) /\ In({"writing"})' = In({"writing"})
      BY <2>1, <1>1, <1>t DEF ReadEnterOrWait, Goto
    <3> QED
      BY <3>1 DEF Abstract!avars
  <2>2. CASE write_count_ = 0
    <3>1. /\ In({"reading"})' = In({"reading"}) \union {t}
          /\ In({"writing"})' = In({"writing"})
      BY <2>2, <1>1, <1>t DEF ReadEnterOrWait, Goto
    <3>2. t \notin In({"reading"}) /\ In({"writing"}) = {}
      BY <2>2, <1>1, <1>a DEF W
    <3>3. Abstract!AcquireShared(t)
      BY <3>1, <3>2 DEF Abstract!AcquireShared
    <3> QED
      BY <3>3 DEF Abstract!Next
  <2> QED
    BY <2>1, <2>2
<1>2. ASSUME NEW t \in Threads, ReadUnlock(t)
      PROVE  [Abstract!Next]_(Abstract!avars)
  <2>1. /\ In({"reading"})' = In({"reading"}) \ {t}
        /\ In({"writing"})' = In({"writing"})
        /\ t \in In({"reading"})
    BY <1>2, <1>t DEF ReadUnlock, ReadUnlockBody, NotifyOneWriter, Goto
  <2>2. Abstract!ReleaseShared(t)
    BY <2>1 DEF Abstract!ReleaseShared
  <2> QED
    BY <2>2 DEF Abstract!Next
<1>3. ASSUME NEW t \in Threads, WriteLock(t) \/ WriteLockResume(t),
             phase'[t] # "writing"
      PROVE  [Abstract!Next]_(Abstract!avars)
  <2>1. In({"reading"})' = In({"reading"}) /\ In({"writing"})' = In({"writing"})
    BY <1>3, <1>t DEF WriteLock, WriteLockResume, Goto
  <2> QED
    BY <2>1 DEF Abstract!avars
<1>4. ASSUME NEW t \in Threads, WriteLock(t) \/ WriteLockResume(t),
             phase'[t] = "writing"
      PROVE  [Abstract!Next]_(Abstract!avars)
  <2>1. phase' = [phase EXCEPT ![t] = "writing"]
        /\ phase[t] \in {"idle", "w_woken"}
    BY <1>4, <1>t DEF WriteLock, WriteLockResume, Goto
  <2>2. \A u \in Threads \ {t} : phase'[u] \notin {"reading", "writing"}
    BY <1>b, <1>4 DEF MutualExclusion
  <2>3. \A u \in Threads : phase[u] \notin {"reading", "writing"}
    BY <2>1, <2>2, <1>t
  <2>4. /\ In({"reading"}) = {} /\ In({"reading"})' = {}
        /\ In({"writing"}) = {} /\ In({"writing"})' = {t}
    BY <2>1, <2>3, <1>t
  <2>5. Abstract!AcquireExclusive(t)
    BY <2>4 DEF Abstract!AcquireExclusive
  <2> QED
    BY <2>5 DEF Abstract!Next
<1>5. ASSUME NEW t \in Threads, WriteUnlock(t)
      PROVE  [Abstract!Next]_(Abstract!avars)
  <2>1. /\ In({"writing"})' = In({"writing"}) \ {t}
        /\ In({"reading"})' = In({"reading"})
        /\ t \in In({"writing"})
    BY <1>5, <1>t DEF WriteUnlock, NotifyOneWriter, NotifyAllReaders, Goto
  <2>2. Abstract!ReleaseExclusive(t)
    BY <2>1 DEF Abstract!ReleaseExclusive
  <2> QED
    BY <2>2 DEF Abstract!Next
<1>6. ASSUME NEW t \in Threads, SpuriousWakeUp(t)
      PROVE  [Abstract!Next]_(Abstract!avars)
  <2>1. In({"reading"})' = In({"reading"}) /\ In({"writing"})' = In({"writing"})
    BY <1>6, <1>t DEF SpuriousWakeUp, Goto
  <2> QED
    BY <2>1 DEF Abstract!avars
<1>7. CASE UNCHANGED vars
  BY <1>7 DEF vars, Abstract!avars
<1> QED
  BY <1>1, <1>2, <1>3, <1>4, <1>5, <1>6, <1>7
     DEF Next, ReadLock, ReadLockResume

(* The lock implements the abstract read-write lock: whatever the threads  *)
(* call, those past ReadLock and WriteLock change as SharedLock says.      *)
THEOREM Refinement == ASSUME WakeUpsAreSafe PROVE Spec => ImplementsSharedLock
<1>1. Init => Abstract!Init
  BY DEF Init, Abstract!Init, In
<1>2. Inv /\ Inv' /\ [Next]_vars => [Abstract!Next]_(Abstract!avars)
  BY StepRefines
<1>3. Spec => []Inv
  BY Invariance
<1> QED
  BY <1>1, <1>2, <1>3, PTL DEF Spec, ImplementsSharedLock, Abstract!Spec
=============================================================================
