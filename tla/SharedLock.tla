----------------------------- MODULE SharedLock -----------------------------
(***************************************************************************)
(* What a read-write lock promises: any number of readers or one writer.   *)
(* This is the abstract specification that ReadWriteLock implements.       *)
(***************************************************************************)
EXTENDS FiniteSets

CONSTANT Threads            \* the threads that use the lock

VARIABLES readers,          \* the threads that hold the lock shared
          writers           \* the threads that hold it exclusively

avars == <<readers, writers>>

Init == readers = {} /\ writers = {}

AcquireShared(t) ==
    /\ t \notin readers
    /\ writers = {}
    /\ readers' = readers \union {t}
    /\ UNCHANGED writers

ReleaseShared(t) ==
    /\ t \in readers
    /\ readers' = readers \ {t}
    /\ UNCHANGED writers

AcquireExclusive(t) ==
    /\ readers = {}
    /\ writers = {}
    /\ writers' = {t}
    /\ UNCHANGED readers

ReleaseExclusive(t) ==
    /\ t \in writers
    /\ writers' = writers \ {t}
    /\ UNCHANGED readers

Next ==
    \E t \in Threads :
        \/ AcquireShared(t)
        \/ ReleaseShared(t)
        \/ AcquireExclusive(t)
        \/ ReleaseExclusive(t)

Spec == Init /\ [][Next]_avars
=============================================================================
