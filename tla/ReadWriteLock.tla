--------------------------- MODULE ReadWriteLock ---------------------------
(***************************************************************************)
(* The writer-prior read-write lock of include/util/lock_util.h and        *)
(* src/util/lock_util.cc.                                                  *)
(*                                                                         *)
(* Every method runs under rw_count_mtx_ and gives it up only inside       *)
(* condition_variable::wait, so a method is one step up to the wait and    *)
(* one step from the wake-up on.  The phase of a thread says where it is:  *)
(*                                                                         *)
(*    idle              holds nothing and waits for nothing                *)
(*    r_wait, w_wait    blocked on r_cv, on w_cv                           *)
(*    r_woken, w_woken  notified, has not got rw_count_mtx_ back yet       *)
(*    reading, writing  ReadLock, WriteLock has returned                   *)
(***************************************************************************)
EXTENDS Integers, FiniteSets

CONSTANTS Threads,      \* the threads that use the lock
          Option,       \* the WakeUpOption passed to WriteLock
          MaxSpurious   \* bound on a writer's wake-ups without a notify

ASSUME ThreadsAssumption == IsFiniteSet(Threads)
ASSUME OptionAssumption == Option \in {"Allow", "Disallow"}
ASSUME SpuriousAssumption == MaxSpurious \in Nat

VARIABLES write_count_, \* writers holding the lock or waiting for it
          read_count_,  \* readers holding the lock
          phase,        \* where each thread is
          spurious      \* wake-ups of writers that no notify caused

vars == <<write_count_, read_count_, phase, spurious>>

Phases == {"idle", "r_wait", "r_woken", "reading",
           "w_wait", "w_woken", "writing"}

In(S) == {t \in Threads : phase[t] \in S}

Init ==
    /\ write_count_ = 0
    /\ read_count_ = 0
    /\ phase = [t \in Threads |-> "idle"]
    /\ spurious = 0

Goto(t, p) == phase' = [phase EXCEPT ![t] = p]

(***************************************************************************)
(* notify_one on w_cv: one of the threads blocked there becomes runnable;  *)
(* a notification nobody waits for is lost.  The caller t moves to idle.   *)
(***************************************************************************)
NotifyOneWriter(t) ==
    \/ /\ In({"w_wait"}) = {}
       /\ Goto(t, "idle")
    \/ \E w \in In({"w_wait"}) :
          phase' = [phase EXCEPT ![t] = "idle", ![w] = "w_woken"]

\* Mutant: notify_one where the code says notify_all.
NotifyOneReader(t) ==
    \/ /\ In({"r_wait"}) = {}
       /\ Goto(t, "idle")
    \/ \E r \in In({"r_wait"}) :
          phase' = [phase EXCEPT ![t] = "idle", ![r] = "r_woken"]

\* notify_all on r_cv.
NotifyAllReaders(t) ==
    phase' = [u \in Threads |->
                 IF u = t THEN "idle"
                 ELSE IF phase[u] = "r_wait" THEN "r_woken"
                 ELSE phase[u]]

-----------------------------------------------------------------------------
(* ReadLock: the while loop, entered first or after a wake-up.             *)
ReadEnterOrWait(t) ==
    /\ \/ /\ write_count_ # 0
          /\ Goto(t, "r_wait")
          /\ UNCHANGED read_count_
       \/ /\ write_count_ = 0
          /\ Goto(t, "reading")
          /\ read_count_' = read_count_ + 1
    /\ UNCHANGED <<write_count_, spurious>>

ReadLock(t) == phase[t] = "idle" /\ ReadEnterOrWait(t)

ReadLockResume(t) == phase[t] = "r_woken" /\ ReadEnterOrWait(t)

\* Mutant: the last reader does not notify.
ReadUnlockSilent(t) ==
    /\ read_count_' = read_count_ - 1
    /\ Goto(t, "idle")
    /\ UNCHANGED <<write_count_, spurious>>

ReadUnlockBody(t) ==
    /\ read_count_' = read_count_ - 1
    /\ IF read_count_' = 0 /\ write_count_ > 0
       THEN NotifyOneWriter(t)
       ELSE Goto(t, "idle")
    /\ UNCHANGED <<write_count_, spurious>>

ReadUnlock(t) == phase[t] = "reading" /\ ReadUnlockBody(t)

\* Mutant: a writer looks only at the other writers.
MustWaitForWriters(count) == count > 1

(* WriteLock: the counter is raised before the test, so a writer that      *)
(* waits keeps new readers out.                                            *)
MustWait(count) == count > 1 \/ read_count_ # 0

WriteLock(t) ==
    /\ phase[t] = "idle"
    /\ write_count_' = write_count_ + 1
    /\ Goto(t, IF MustWait(write_count_') THEN "w_wait" ELSE "writing")
    /\ UNCHANGED <<read_count_, spurious>>

\* The wait of AllowSpuriousWakeUp stands under an `if': once awake, the
\* writer goes on.  DisallowSpuriousWakeUp evaluates its predicate again.
WriteLockResume(t) ==
    /\ phase[t] = "w_woken"
    /\ Goto(t, IF Option = "Disallow" /\ MustWait(write_count_)
               THEN "w_wait" ELSE "writing")
    /\ UNCHANGED <<write_count_, read_count_, spurious>>

WriteUnlock(t) ==
    /\ phase[t] = "writing"
    /\ write_count_' = write_count_ - 1
    /\ IF write_count_' = 0 THEN NotifyAllReaders(t) ELSE NotifyOneWriter(t)
    /\ UNCHANGED <<read_count_, spurious>>

(* The C++ standard lets wait() return without a notification.  A reader   *)
(* looks again and waits on, so it may be woken any number of times; the   *)
(* wake-ups of writers are counted.                                        *)
SpuriousWakeUp(t) ==
    /\ phase[t] = "r_wait" \/ (phase[t] = "w_wait" /\ spurious < MaxSpurious)
    /\ Goto(t, IF phase[t] = "r_wait" THEN "r_woken" ELSE "w_woken")
    /\ spurious' = IF phase[t] = "r_wait" THEN spurious ELSE spurious + 1
    /\ UNCHANGED <<write_count_, read_count_>>

-----------------------------------------------------------------------------
Resume(t) == ReadLockResume(t) \/ WriteLockResume(t)

Unlock(t) == ReadUnlock(t) \/ WriteUnlock(t)

Next ==
    \E t \in Threads :
        \/ ReadLock(t)
        \/ ReadLockResume(t)
        \/ ReadUnlock(t)
        \/ WriteLock(t)
        \/ WriteLockResume(t)
        \/ WriteUnlock(t)
        \/ SpuriousWakeUp(t)

Spec == Init /\ [][Next]_vars

(***************************************************************************)
(* A runnable thread gets the mutex in the end, and a critical section     *)
(* ends.  Nobody has to ask for the lock, and no thread is owed a place in *)
(* front of another: notify_one picks freely.                              *)
(***************************************************************************)
Fairness == \A t \in Threads : WF_vars(Resume(t)) /\ WF_vars(Unlock(t))

FairSpec == Spec /\ Fairness

-----------------------------------------------------------------------------
(* The counters are numbers, every thread is in one of the phases, and the *)
(* writers' wake-ups without a notify stay within their bound.             *)
TypeOK ==
    /\ write_count_ \in Nat
    /\ read_count_ \in Nat
    /\ phase \in [Threads -> Phases]
    /\ spurious \in 0..MaxSpurious

(* The counters of lock_util.h count what they stand for: read_count_ the  *)
(* threads between ReadLock and ReadUnlock, write_count_ the threads that  *)
(* hold the lock exclusively or are queued for it.                         *)
CountersExact ==
    /\ write_count_ = Cardinality(In({"w_wait", "w_woken", "writing"}))
    /\ read_count_ = Cardinality(In({"reading"}))

(* ReadLock and WriteLock exclude each other: a thread past WriteLock is   *)
(* the only one past either.  db.cc relies on it for the table swap.       *)
MutualExclusion ==
    \A t, u \in Threads :
        phase[t] = "writing" /\ u # t => phase[u] \notin {"reading", "writing"}

(* A queued writer is never stranded: while one waits on w_cv, somebody    *)
(* holds the lock or has been notified, and will pass it on.  This is what *)
(* the single notify_one of ReadUnlock and of WriteUnlock has to ensure.   *)
NoStrandedWriter ==
    In({"w_wait"}) # {} => In({"reading", "writing", "w_woken"}) # {}

(* The same for the readers: while one waits on r_cv there is a writer     *)
(* holding or queued, whose WriteUnlock calls notify_all.                  *)
NoStrandedReader ==
    In({"r_wait"}) # {} => In({"w_wait", "w_woken", "writing"}) # {}

(* Nobody is left asleep by a notification that was lost or not sent.      *)
NoStranded == NoStrandedWriter /\ NoStrandedReader

(* A WriteLock call that waits is answered: some writer gets the lock.     *)
WriterGetsIn == In({"w_wait"}) # {} ~> In({"writing"}) # {}

(* If from some time on no writer holds or wants the lock, every thread    *)
(* that waits in ReadLock gets it (writers may starve readers before).     *)
ReadersGetIn ==
    \A t \in Threads :
        \/ []<>(write_count_ # 0)
        \/ phase[t] = "r_wait" ~> phase[t] = "reading"

(* The lock implements the abstract read-write lock.                       *)
Abstract == INSTANCE SharedLock WITH readers <- In({"reading"}),
                                     writers <- In({"writing"})

ImplementsSharedLock == Abstract!Spec
=============================================================================
