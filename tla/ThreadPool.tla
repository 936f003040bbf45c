----------------------------- MODULE ThreadPool -----------------------------
(***************************************************************************)
(* TCThreadPool and its ConcurrentQueue (include/util/thread_pool.h,       *)
(* src/util/thread_pool.cc): core threads created by Start, tasks handed   *)
(* over by SubmitTask, Shutdown.                                           *)
(*                                                                         *)
(* A core thread runs BackgroundThreadTask:                                *)
(*                                                                         *)
(*    none, loop       not created; before the outer while test            *)
(*    lock             wants mtx_                                          *)
(*    check            has mtx_, before the inner while test               *)
(*    sleep            has mtx_, the test was true, before cv_.wait        *)
(*    wait, woken      blocked on cv_; notified, wants mtx_ back           *)
(*    dequeue, run     has mtx_, before Dequeue; inside task()             *)
(*    exit             has left the outer loop                             *)
(*                                                                         *)
(* The lock object lives to the end of the loop body, so a thread keeps    *)
(* mtx_ while it runs its task.  SubmitTask takes only the queue's own     *)
(* mutex, never mtx_, and notifies after the queue has changed.            *)
(***************************************************************************)
EXTENDS Sequences

CONSTANTS Workers,      \* the core threads (kDefaultCoreThreadNum of them)
          Submitters,   \* the threads that call SubmitTask
          Tasks,        \* what they may submit, each once
          NoTask        \* the empty std::function of an idle core thread

ASSUME PoolAssumption == NoTask \notin Tasks

VARIABLES task_queue_,  \* the queue of tasks
          wpc,          \* where each core thread is
          task,         \* the task each core thread runs
          notifying,    \* submitters between Enqueue and notify_one
          stage         \* new, running (after Start), stopping, down

pvars == <<task_queue_, wpc, task, notifying, stage>>

WorkerStates == {"none", "loop", "lock", "check", "sleep", "wait", "woken",
                 "dequeue", "run", "exit"}

InitPool ==
    /\ task_queue_ = <<>>
    /\ wpc = [w \in Workers |-> "none"]
    /\ task = [w \in Workers |-> NoTask]
    /\ notifying = {}
    /\ stage = "new"

\* is_thread_pool_running_
Running == stage = "running"

\* Mutant: mtx_ is released before task() is called.
HoldsMutexToDequeue(w) == wpc[w] \in {"check", "sleep", "dequeue"}

HoldsMutex(w) == wpc[w] \in {"check", "sleep", "dequeue", "run"}

MutexFree == \A w \in Workers : ~ HoldsMutex(w)

WorkerGoto(w, l) == wpc' = [wpc EXCEPT ![w] = l]

WakeAll == [w \in Workers |-> IF wpc[w] = "wait" THEN "woken" ELSE wpc[w]]

-----------------------------------------------------------------------------
(* Start runs under mtx_; the threads it creates wait for it to finish.    *)
Start ==
    /\ stage = "new"
    /\ stage' = "running"
    /\ wpc' = [w \in Workers |-> "loop"]
    /\ UNCHANGED <<task_queue_, task, notifying>>

(* Shutdown: the flag, then notify_all.  It waits for nobody.              *)
ShutdownFlag ==
    /\ stage = "running"
    /\ stage' = "stopping"
    /\ UNCHANGED <<task_queue_, wpc, task, notifying>>

ShutdownNotify ==
    /\ stage = "stopping"
    /\ stage' = "down"
    /\ wpc' = WakeAll
    /\ UNCHANGED <<task_queue_, task, notifying>>

(* SubmitTask, first half: Enqueue.                                        *)
Enqueue(s, t) ==
    /\ s \notin notifying
    /\ task_queue_' = Append(task_queue_, t)
    /\ notifying' = notifying \union {s}
    /\ UNCHANGED <<wpc, task, stage>>

\* Mutant: SubmitTask returns without notify_one.
NotifyNobody(s) ==
    /\ s \in notifying
    /\ notifying' = notifying \ {s}
    /\ UNCHANGED <<task_queue_, wpc, task, stage>>

(* SubmitTask, second half: cv_.notify_one and the return.                 *)
NotifyOne(s) ==
    /\ s \in notifying
    /\ notifying' = notifying \ {s}
    /\ \/ /\ \A w \in Workers : wpc[w] # "wait"
          /\ UNCHANGED wpc
       \/ \E w \in Workers : wpc[w] = "wait" /\ WorkerGoto(w, "woken")
    /\ UNCHANGED <<task_queue_, task, stage>>

-----------------------------------------------------------------------------
(* BackgroundThreadTask.                                                   *)
LoopTest(w) ==
    /\ wpc[w] = "loop"
    /\ WorkerGoto(w, IF Running THEN "lock" ELSE "exit")
    /\ UNCHANGED <<task_queue_, task, notifying, stage>>

Lock(w) ==
    /\ wpc[w] \in {"lock", "woken"}
    /\ MutexFree
    /\ WorkerGoto(w, "check")
    /\ UNCHANGED <<task_queue_, task, notifying, stage>>

\* Mutant: the inner loop tests only the queue.
WaitTestQueueOnly(w) ==
    /\ wpc[w] = "check"
    /\ WorkerGoto(w, IF task_queue_ = <<>> THEN "sleep" ELSE "dequeue")
    /\ UNCHANGED <<task_queue_, task, notifying, stage>>

WaitTest(w) ==
    /\ wpc[w] = "check"
    /\ WorkerGoto(w, IF Running /\ task_queue_ = <<>> THEN "sleep"
                                                      ELSE "dequeue")
    /\ UNCHANGED <<task_queue_, task, notifying, stage>>

\* cv_.wait registers the thread and gives up mtx_ in one step.
Wait(w) ==
    /\ wpc[w] = "sleep"
    /\ WorkerGoto(w, "wait")
    /\ UNCHANGED <<task_queue_, task, notifying, stage>>

SpuriousWake(w) ==
    /\ wpc[w] = "wait"
    /\ WorkerGoto(w, "woken")
    /\ UNCHANGED <<task_queue_, task, notifying, stage>>

Dequeue(w) ==
    /\ wpc[w] = "dequeue"
    /\ \/ /\ task_queue_ # <<>>
          /\ task' = [task EXCEPT ![w] = Head(task_queue_)]
          /\ task_queue_' = Tail(task_queue_)
          /\ WorkerGoto(w, "run")
       \/ /\ task_queue_ = <<>>
          /\ WorkerGoto(w, "loop")
          /\ UNCHANGED <<task_queue_, task>>
    /\ UNCHANGED <<notifying, stage>>

\* task() returns; the lock object is destroyed and mtx_ released.
Finish(w) ==
    /\ wpc[w] = "run"
    /\ task' = [task EXCEPT ![w] = NoTask]
    /\ WorkerGoto(w, "loop")
    /\ UNCHANGED <<task_queue_, notifying, stage>>

\* What a core thread does apart from running its task.
WorkerStep(w) ==
    LoopTest(w) \/ Lock(w) \/ WaitTest(w) \/ Wait(w) \/ Dequeue(w)

PoolNext ==
    \/ Start
    \/ ShutdownFlag
    \/ ShutdownNotify
    \/ \E s \in Submitters, t \in Tasks : Enqueue(s, t)
    \/ \E s \in Submitters : NotifyOne(s)
    \/ \E w \in Workers : WorkerStep(w) \/ SpuriousWake(w) \/ Finish(w)

PoolSpec == InitPool /\ [][PoolNext]_pvars

-----------------------------------------------------------------------------
(* The queue holds tasks, each core thread is at a line of its loop and    *)
(* runs a task or none.                                                    *)
TypeOKPool ==
    /\ task_queue_ \in Seq(Tasks)
    /\ wpc \in [Workers -> WorkerStates]
    /\ task \in [Workers -> Tasks \union {NoTask}]
    /\ notifying \subseteq Submitters
    /\ stage \in {"new", "running", "stopping", "down"}

(* While the pool runs, a task that sits in the queue with its notify_one  *)
(* done has a core thread that will look at the queue again.  SubmitTask   *)
(* notifies without mtx_, so the notification may fall between a thread's  *)
(* test of the queue and its wait; with two or more core threads another   *)
(* one is then awake or is the one that was notified.                      *)
NoLostTask ==
    Running /\ task_queue_ # <<>> /\ notifying = {} =>
        \E w \in Workers :
            wpc[w] \in {"loop", "lock", "woken", "check", "dequeue", "run"}

(* At most one task runs at a time, whatever the number of core threads.   *)
OneTaskAtATime ==
    \A v, w \in Workers : wpc[v] = "run" /\ wpc[w] = "run" => v = w

(* Shutdown changes the flag and notifies without mtx_, so a core thread   *)
(* that has tested the flag and is about to wait misses both.  The one     *)
(* that does so has mtx_, and whoever gets mtx_ afterwards sees the flag:  *)
(* once Shutdown has returned no more than one core thread sleeps on.      *)
AtMostOneMissesShutdown ==
    stage = "down" =>
        \A v, w \in Workers :
            wpc[v] \in {"sleep", "wait"} /\ wpc[w] \in {"sleep", "wait"} => v = w
=============================================================================
