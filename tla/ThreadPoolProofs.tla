-------------------------- MODULE ThreadPoolProofs --------------------------
(***************************************************************************)
(* Proofs about the thread pool, for any core threads, callers and tasks.  *)
(***************************************************************************)
EXTENDS ThreadPool, TLAPS

(* mtx_ is a mutex over the stretch of the loop body that holds it, and    *)
(* while the pool runs every core thread is in the loop.                   *)
OneHolder ==
    \A v, w \in Workers : HoldsMutex(v) /\ HoldsMutex(w) => v = w

AllInLoop == Running => \A w \in Workers : wpc[w] \notin {"none", "exit"}

PoolInv == TypeOKPool /\ OneHolder /\ AllInLoop

(* Two core threads at least; config.h asks for four.                      *)
TwoWorkers == \E v, w \in Workers : v # w

(* The new pool: no thread, no task.                                       *)
LEMMA PoolInit == InitPool => PoolInv
BY DEF InitPool, PoolInv, TypeOKPool, OneHolder, AllInLoop, HoldsMutex,
       Running, WorkerStates

(* Every step of a caller or of a core thread keeps the invariant.         *)
LEMMA PoolStep ==
    ASSUME PoolInv, [PoolNext]_pvars
    PROVE  PoolInv'
<1>t. TypeOKPool /\ OneHolder /\ AllInLoop
  BY DEF PoolInv
<1> USE DEF TypeOKPool, OneHolder, AllInLoop, HoldsMutex, Running, WorkerStates
<1>1. CASE Start
  BY <1>1, <1>t DEF Start, PoolInv
<1>2. CASE ShutdownFlag
  BY <1>2, <1>t DEF ShutdownFlag, PoolInv
<1>3. CASE ShutdownNotify
  BY <1>3, <1>t DEF ShutdownNotify, WakeAll, PoolInv
<1>4. ASSUME NEW s \in Submitters, NEW t \in Tasks, Enqueue(s, t)
      PROVE  PoolInv'
  BY <1>4, <1>t DEF Enqueue, PoolInv
<1>5. ASSUME NEW s \in Submitters, NotifyOne(s)
      PROVE  PoolInv'
  BY <1>5, <1>t DEF NotifyOne, WorkerGoto, PoolInv
<1>6. ASSUME NEW w \in Workers, LoopTest(w)
      PROVE  PoolInv'
  BY <1>6, <1>t DEF LoopTest, WorkerGoto, PoolInv
<1>7. ASSUME NEW w \in Workers, Lock(w)
      PROVE  PoolInv'
  BY <1>7, <1>t DEF Lock, MutexFree, WorkerGoto, PoolInv
<1>8. ASSUME NEW w \in Workers, WaitTest(w)
      PROVE  PoolInv'
  BY <1>8, <1>t DEF WaitTest, WorkerGoto, PoolInv
<1>9. ASSUME NEW w \in Workers, Wait(w) \/ SpuriousWake(w)
      PROVE  PoolInv'
  BY <1>9, <1>t DEF Wait, SpuriousWake, WorkerGoto, PoolInv
<1>10. ASSUME NEW w \in Workers, Dequeue(w)
       PROVE  PoolInv'
  <2>1. CASE task_queue_ # <<>>
    <3>1. Head(task_queue_) \in Tasks /\ Tail(task_queue_) \in Seq(Tasks)
      BY <2>1, <1>t
    <3>2. wpc' \in [Workers -> WorkerStates] /\ OneHolder' /\ AllInLoop'
      BY <2>1, <1>10, <1>t DEF Dequeue, WorkerGoto
    <3>3. TypeOKPool'
      BY <3>1, <3>2, <2>1, <1>10, <1>t, ZenonT(30) DEF Dequeue
    <3> QED
      BY <3>2, <3>3 DEF PoolInv
  <2>2. CASE task_queue_ = <<>>
    BY <2>2, <1>10, <1>t DEF Dequeue, WorkerGoto, PoolInv
  <2> QED
    BY <2>1, <2>2
<1>11. ASSUME NEW w \in Workers, Finish(w)
       PROVE  PoolInv'
  BY <1>11, <1>t DEF Finish, WorkerGoto, PoolInv
<1>12. CASE UNCHANGED pvars
  BY <1>12, <1>t DEF pvars, PoolInv
<1> QED
  BY <1>1, <1>2, <1>3, <1>4, <1>5, <1>6, <1>7, <1>8, <1>9, <1>10, <1>11, <1>12
     DEF PoolNext, WorkerStep

(* PoolInv holds throughout.                                               *)
THEOREM PoolInvariance == PoolSpec => []PoolInv
BY PoolInit, PoolStep, PTL DEF PoolSpec

(* The queue holds tasks and nothing else, and each core thread is at a    *)
(* line of BackgroundThreadTask with a task or none in hand.               *)
THEOREM PoolTypeCorrect == PoolSpec => []TypeOKPool
BY PoolInvariance, PTL DEF PoolInv

(* However many core threads the configuration asks for, BackgroundThread- *)
(* Task runs one task at a time, because mtx_ is held across task().       *)
THEOREM Serialized == PoolSpec => []OneTaskAtATime
<1>1. PoolInv => OneTaskAtATime
  BY DEF PoolInv, OneHolder, HoldsMutex, OneTaskAtATime
<1> QED
  BY <1>1, PoolInvariance, PTL

(* A step loses no task: the only thread that may miss a notification is   *)
(* the one between its test and its wait, and there is one such at most.   *)
LEMMA LostStep ==
    ASSUME TwoWorkers, PoolInv, PoolInv', NoLostTask, [PoolNext]_pvars
    PROVE  NoLostTask'
<1>t. TypeOKPool /\ OneHolder /\ AllInLoop /\ AllInLoop'
  BY DEF PoolInv
<1> USE DEF TypeOKPool, NoLostTask, Running, WorkerStates
<1>1. CASE Start
  BY <1>1, <1>t DEF Start, TwoWorkers
<1>2. CASE ShutdownFlag \/ ShutdownNotify
  BY <1>2, <1>t DEF ShutdownFlag, ShutdownNotify
<1>3. ASSUME NEW s \in Submitters, NEW t \in Tasks, Enqueue(s, t)
      PROVE  NoLostTask'
  BY <1>3, <1>t DEF Enqueue
<1>4. ASSUME NEW s \in Submitters, NotifyOne(s)
      PROVE  NoLostTask'
  <2>1. CASE \E w \in Workers : wpc[w] = "wait" /\ WorkerGoto(w, "woken")
    BY <2>1, <1>t DEF WorkerGoto
  <2>2. CASE (\A w \in Workers : wpc[w] # "wait") /\ UNCHANGED wpc
    <3>1. \E w \in Workers : wpc[w] # "sleep"
      BY <1>t DEF TwoWorkers, OneHolder, HoldsMutex
    <3> QED
      BY <3>1, <2>2, <1>4, <1>t DEF NotifyOne, AllInLoop
  <2> QED
    BY <2>1, <2>2, <1>4 DEF NotifyOne
<1>5. ASSUME NEW w \in Workers, LoopTest(w)
      PROVE  NoLostTask'
  BY <1>5, <1>t DEF LoopTest, WorkerGoto
<1>6. ASSUME NEW w \in Workers, Lock(w) \/ Wait(w) \/ SpuriousWake(w)
      PROVE  NoLostTask'
  BY <1>6, <1>t DEF Lock, Wait, SpuriousWake, WorkerGoto
<1>7. ASSUME NEW w \in Workers, WaitTest(w)
      PROVE  NoLostTask'
  BY <1>7, <1>t DEF WaitTest, WorkerGoto
<1>8. ASSUME NEW w \in Workers, Dequeue(w)
      PROVE  NoLostTask'
  BY <1>8, <1>t DEF Dequeue, WorkerGoto
<1>9. ASSUME NEW w \in Workers, Finish(w)
      PROVE  NoLostTask'
  BY <1>9, <1>t DEF Finish, WorkerGoto
<1>10. CASE UNCHANGED pvars
  BY <1>10 DEF pvars
<1> QED
  BY <1>1, <1>2, <1>3, <1>4, <1>5, <1>6, <1>7, <1>8, <1>9, <1>10
     DEF PoolNext, WorkerStep

(* SubmitTask notifies without holding mtx_; with two or more core threads *)
(* no task is left in the queue with every core thread asleep.             *)
THEOREM NoTaskLost == ASSUME TwoWorkers PROVE PoolSpec => []NoLostTask
<1>1. InitPool => NoLostTask
  BY DEF InitPool, NoLostTask, Running
<1>2. PoolInv /\ PoolInv' /\ NoLostTask /\ [PoolNext]_pvars => NoLostTask'
  BY LostStep
<1> QED
  BY <1>1, <1>2, PoolInvariance, PTL DEF PoolSpec

(* Once Shutdown has returned nobody goes to sleep any more, and of those  *)
(* that were about to there was one at most, the holder of mtx_.           *)
LEMMA MissStep ==
    ASSUME PoolInv, AtMostOneMissesShutdown, [PoolNext]_pvars
    PROVE  AtMostOneMissesShutdown'
<1>t. TypeOKPool /\ OneHolder
  BY DEF PoolInv
<1> USE DEF TypeOKPool, AtMostOneMissesShutdown, Running, WorkerStates
<1>1. CASE Start \/ ShutdownFlag
  BY <1>1, <1>t DEF Start, ShutdownFlag
<1>2. CASE ShutdownNotify
  BY <1>2, <1>t DEF ShutdownNotify, WakeAll, OneHolder, HoldsMutex
<1>3. ASSUME NEW s \in Submitters, NotifyOne(s)
      PROVE  AtMostOneMissesShutdown'
  BY <1>3, <1>t DEF NotifyOne, WorkerGoto
<1>4. ASSUME NEW s \in Submitters, NEW t \in Tasks, Enqueue(s, t)
      PROVE  AtMostOneMissesShutdown'
  BY <1>4, <1>t DEF Enqueue
<1>5. ASSUME NEW w \in Workers, LoopTest(w) \/ WaitTest(w)
      PROVE  AtMostOneMissesShutdown'
  BY <1>5, <1>t DEF LoopTest, WaitTest, WorkerGoto
<1>6. ASSUME NEW w \in Workers, Lock(w) \/ Wait(w) \/ SpuriousWake(w)
      PROVE  AtMostOneMissesShutdown'
  BY <1>6, <1>t DEF Lock, Wait, SpuriousWake, WorkerGoto
<1>7. ASSUME NEW w \in Workers, Dequeue(w) \/ Finish(w)
      PROVE  AtMostOneMissesShutdown'
  BY <1>7, <1>t DEF Dequeue, Finish, WorkerGoto
<1>8. CASE UNCHANGED pvars
  BY <1>8 DEF pvars
<1> QED
  BY <1>1, <1>2, <1>3, <1>4, <1>5, <1>6, <1>7, <1>8 DEF PoolNext, WorkerStep

(* Shutdown notifies without mtx_; however many core threads there are, no *)
(* more than one of them misses it.                                        *)
THEOREM OneMissesShutdown == PoolSpec => []AtMostOneMissesShutdown
<1>1. InitPool => AtMostOneMissesShutdown
  BY DEF InitPool, AtMostOneMissesShutdown
<1>2. PoolInv /\ AtMostOneMissesShutdown /\ [PoolNext]_pvars
         => AtMostOneMissesShutdown'
  BY MissStep
<1> QED
  BY <1>1, <1>2, PoolInvariance, PTL DEF PoolSpec
=============================================================================
