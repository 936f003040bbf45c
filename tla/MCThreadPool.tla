---------------------------- MODULE MCThreadPool ----------------------------
(***************************************************************************)
(* The pool alone, used by threads that submit tasks that just return.     *)
(* The two histories record what was submitted and what has been run.      *)
(***************************************************************************)
EXTENDS ThreadPool, TLC

VARIABLES submitted,    \* the tasks Enqueue has taken
          finished      \* the tasks whose task() has returned

vars == <<pvars, submitted, finished>>

Init == InitPool /\ submitted = {} /\ finished = {}

Submit(s, t) ==
    /\ stage # "down"
    /\ t \notin submitted
    /\ Enqueue(s, t)
    /\ submitted' = submitted \union {t}
    /\ UNCHANGED finished

Complete(w) ==
    /\ Finish(w)
    /\ finished' = finished \union {task[w]}
    /\ UNCHANGED submitted

Keep == UNCHANGED <<submitted, finished>>

Next ==
    \/ Start /\ Keep
    \/ ShutdownFlag /\ Keep
    \/ ShutdownNotify /\ Keep
    \/ \E s \in Submitters, t \in Tasks : Submit(s, t)
    \/ \E s \in Submitters : NotifyOne(s) /\ Keep
    \/ \E w \in Workers : LoopTest(w) /\ Keep
    \/ \E w \in Workers : Lock(w) /\ Keep
    \/ \E w \in Workers : WaitTest(w) /\ Keep
    \/ \E w \in Workers : Wait(w) /\ Keep
    \/ \E w \in Workers : SpuriousWake(w) /\ Keep
    \/ \E w \in Workers : Dequeue(w) /\ Keep
    \/ \E w \in Workers : Complete(w)

Spec == Init /\ [][Next]_vars

(***************************************************************************)
(* A caller inside SubmitTask or Shutdown gets on, a core thread that can  *)
(* take a step takes it, tasks return.  mtx_ is not fair: a thread that    *)
(* waits for it is only sure of a turn because the others run out of work. *)
(* Nothing makes anybody call Start, SubmitTask or Shutdown.               *)
(***************************************************************************)
FairSpec ==
    /\ Spec
    /\ \A s \in Submitters : WF_vars(NotifyOne(s) /\ Keep)
    /\ \A w \in Workers : WF_vars(WorkerStep(w) /\ Keep)
    /\ \A w \in Workers : WF_vars(Complete(w))
    /\ WF_vars(ShutdownNotify /\ Keep)

(* Until Shutdown is called every submitted task is run in the end, with   *)
(* two or more core threads.                                               *)
EveryTaskRuns ==
    \A t \in Tasks :
        Running /\ t \in submitted ~> t \in finished \/ ~ Running

(* thread_pool.h on Shutdown: resources are reclaimed after all tasks are  *)
(* done.  ~TCThreadPool reclaims them as soon as Shutdown has returned.    *)
DoneBeforeReclaim ==
    stage = "down" =>
        task_queue_ = <<>> /\ \A w \in Workers : wpc[w] # "run"

(* thread_pool.cc on the notify_all of Shutdown: it wakes up all threads,  *)
(* so that they leave BackgroundThreadTask.                                *)
ShutdownWakesAll == stage = "down" ~> \A w \in Workers : wpc[w] = "exit"

Symmetry == Permutations(Workers) \union Permutations(Submitters)
=============================================================================
