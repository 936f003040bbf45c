-------------------------- MODULE WritePathProofs --------------------------
(***************************************************************************)
(* Proofs about the write path, for any number of clients, core threads,   *)
(* calls and tables.                                                       *)
(*                                                                         *)
(* None of the invariants of WritePath is inductive.  That a swap finds no *)
(* Insert inside the table rests on the lock, whose invariant is taken     *)
(* over from ReadWriteLockProofs; that a flush task is the only one, and   *)
(* the one compact_future_ stands for, on the pool, ThreadPoolProofs; and  *)
(* an Insert that failed with the write lock held stops every later swap.  *)
(* Inv says which thread may be where with which lock, table, call and     *)
(* task, how the ids of the tables follow each other, what the future      *)
(* stands for, and what the files hold.                                    *)
(***************************************************************************)
EXTENDS WritePath, FiniteSetTheorems, SequenceTheorems, TLAPS

RWP == INSTANCE ReadWriteLockProofs WITH Threads <- Actors, Option <- "Allow",
                                         MaxSpurious <- 0
PP == INSTANCE ThreadPoolProofs WITH Submitters <- Actors, Tasks <- TaskSet

Kinds == {"insert", "concurrent", "delete", "get"}
Entry == [id : Nat, op : Nat]
LocalType == [tbl : Nat, id : Nat, op : Nat,
              ret : {"ok", "file_error", "manifest_error"}, file : SUBSET Entry]
TableType == [usage : Nat, next_id : Nat, entries : SUBSET Entry,
              alive : BOOLEAN, flush : {"none", "ok", "error"}]

(* The types, and what the proofs of the lock and of the pool say.         *)
Typed ==
    /\ RWP!Inv /\ PP!PoolInv
    /\ pc \in [Actors -> Locations]
    /\ local \in [Actors -> LocalType]
    /\ tables \in Seq(TableType) /\ tables # <<>>
    /\ compact_future_ \in Nat
    /\ level0 \in Seq(SUBSET Entry)
    /\ calls \in Seq(Kinds) /\ Len(calls) <= Len(Ops)
    /\ \A n \in DOMAIN calls : calls[n] \in Ops[n]
    /\ acked \subseteq DOMAIN calls
    /\ failures \in 0..MaxFailures

-----------------------------------------------------------------------------
(* The locations of a call.                                                *)
WriteSection == {"ins_get", "ins_swap", "ins_notify", "ins_wunlock"}
InTable == {"tab_alloc", "tab_id", "tab_put", "tab_done"}
Inserting == {"ins_load", "ins_check", "ins_wlock", "ins_recheck", "ins_rlock",
              "ins_table"} \union WriteSection
Flushing == {"fl_write", "fl_free", "fl_version"}
Getting == {"get_load", "get_table", "get_files"}

(* What a thread holds of mmt_trans_lock_.  Outside of the stretches that  *)
(* Insert protects it holds nothing, or the write lock for good.           *)
LockAt(a) ==
    CASE pc[a] = "ins_recheck"   -> phase[a] \in {"w_wait", "w_woken", "writing"}
      [] pc[a] \in WriteSection  -> phase[a] = "writing"
      [] pc[a] = "ins_table"     -> phase[a] \in {"r_wait", "r_woken", "reading"}
      [] pc[a] \in InTable /\ Locked(local[a].op) -> phase[a] = "reading"
      [] OTHER                   -> phase[a] \in {"idle", "writing"}

(* Which call a thread is working for.                                     *)
CallAt(a) ==
    /\ pc[a] \in Inserting => local[a].op \in DOMAIN calls /\ Locked(local[a].op)
    /\ pc[a] = "del_load" => local[a].op \in DOMAIN calls /\ ~ Locked(local[a].op)
    /\ pc[a] \in InTable => local[a].op \in DOMAIN calls
    /\ pc[a] \in Getting => local[a].op \in acked

(* Which table it is looking at.                                           *)
TableAt(a) ==
    /\ pc[a] \in {"ins_check", "get_table"} \union InTable \union Flushing =>
          local[a].tbl \in DOMAIN tables
    /\ pc[a] \in {"tab_alloc", "tab_id", "tab_put"} /\ Locked(local[a].op) =>
          local[a].tbl = mem_table_
    /\ pc[a] = "tab_done" => Holds(Table(a).entries, local[a].op)

(* Which task a core thread is running.                                    *)
TaskAt(a) ==
    /\ pc[a] \in Flushing \union {"task_done"} => a \in Workers
    /\ a \in Workers /\ pc[a] # "idle" => wpc[a] = "run"
    /\ pc[a] \in Flushing => task[a] = [kind |-> "flush", arg |-> local[a].tbl]

IsInsert(n) == n \in DOMAIN calls /\ Locked(n)

TasksKnown ==
    /\ \A i \in DOMAIN task_queue_ :
          task_queue_[i].kind = "insert" => IsInsert(task_queue_[i].arg)
    /\ \A w \in Workers : task[w].kind = "insert" => IsInsert(task[w].arg)

Programs ==
    /\ \A a \in Actors : LockAt(a) /\ CallAt(a) /\ TableAt(a) /\ TaskAt(a)
    /\ TasksKnown

-----------------------------------------------------------------------------
(* The ids of what was inserted grow with the tables and are drawn once,   *)
(* those an Insert has drawn and not linked yet included.                  *)
Inserted(t) == {e \in tables[t].entries : Locked(e.op)}

Pending(a) == pc[a] = "tab_put" /\ Locked(local[a].op)

IdsGrow ==
    /\ \A t, u \in DOMAIN tables :
          t <= u => \A d \in Inserted(t) : d.id < tables[u].next_id
    /\ \A t, u \in DOMAIN tables :
          t < u => \A d \in Inserted(t), e \in Inserted(u) : d.id < e.id
    /\ \A t \in DOMAIN tables : \A d, e \in Inserted(t) : d.id = e.id => d = e

PendingIds ==
    /\ \A a \in Actors : Pending(a) =>
          /\ local[a].id < tables[mem_table_].next_id
          /\ \A t \in DOMAIN tables : \A d \in Inserted(t) :
                IF t < mem_table_ THEN d.id < local[a].id ELSE d.id # local[a].id
    /\ \A a, b \in Actors : Pending(a) /\ Pending(b) /\ a # b =>
          local[a].id # local[b].id

EntriesKnown ==
    \A t \in DOMAIN tables : \A e \in tables[t].entries : e.op \in DOMAIN calls

Ids == EntriesKnown /\ IdsGrow /\ PendingIds

-----------------------------------------------------------------------------
(* A thread that returned an error from Insert with the write lock held.   *)
Leaked ==
    \E a \in Actors : /\ phase[a] = "writing"
                      /\ pc[a] \notin WriteSection \union {"ins_recheck"}

(* The future stands for the table swapped out last.  All the others were  *)
(* flushed, or the last one was not and there will be no swap any more.    *)
Future ==
    /\ compact_future_ \in {0, mem_table_ - 1}
    /\ tables[mem_table_].flush = "none" /\ tables[mem_table_].alive
    /\ \A a \in Actors : /\ pc[a] = "ins_swap" => compact_future_ = 0
                         /\ pc[a] = "ins_get" => compact_future_ # 0
    /\ \A t \in DOMAIN tables :
          \/ t = mem_table_
          \/ t = compact_future_
          \/ tables[t].flush = "ok"
          \/ t = mem_table_ - 1 /\ tables[t].flush = "error" /\ Leaked

(* A flush task that waits in the queue, or whose result is not set.       *)
Waiting(i) == task_queue_[i].kind = "flush"

AtWork(w) == /\ wpc[w] = "run" /\ task[w].kind = "flush"
             /\ pc[w] \in Flushing \union {"idle"}

OfFuture(t) == t = compact_future_ /\ t \in DOMAIN tables /\ tables[t].flush = "none"

(* There is one flush task at most, and its result is what the future is   *)
(* waiting for.                                                            *)
OneFlush ==
    /\ \A i \in DOMAIN task_queue_ : Waiting(i) => OfFuture(task_queue_[i].arg)
    /\ \A w \in Workers : AtWork(w) => OfFuture(task[w].arg)
    /\ \A i, j \in DOMAIN task_queue_ : Waiting(i) /\ Waiting(j) => i = j
    /\ \A i \in DOMAIN task_queue_, w \in Workers : ~ (Waiting(i) /\ AtWork(w))

-----------------------------------------------------------------------------
(* A table is freed when its file has been written and before the version  *)
(* lists it.                                                               *)
Freed ==
    /\ \A t \in DOMAIN tables :
          /\ tables[t].flush = "ok" => ~ tables[t].alive
          /\ ~ tables[t].alive /\ tables[t].flush = "none" =>
                \E w \in Workers : pc[w] = "fl_version" /\ local[w].tbl = t
    /\ \A w \in Workers : pc[w] = "fl_version" => ~ Table(w).alive

(* What a file has: at least what was inserted into its table, and nothing *)
(* of another one.                                                         *)
Files ==
    /\ \A w \in Workers : pc[w] \in {"fl_free", "fl_version"} =>
          /\ local[w].file \subseteq Table(w).entries
          /\ Inserted(local[w].tbl) \subseteq local[w].file
    /\ \A i \in DOMAIN level0 : \E t \in DOMAIN tables :
          tables[t].flush # "none" /\ level0[i] \subseteq tables[t].entries
    /\ \A t \in DOMAIN tables : tables[t].flush = "ok" =>
          \E i \in DOMAIN level0 : Inserted(t) \subseteq level0[i]
    /\ Level0Ordered

(* Where the entry of an acknowledged call is, for a Get that is looking   *)
(* for it in the tables in front of the one it has looked at.              *)
Reads ==
    /\ \A n \in acked : \E t \in DOMAIN tables : Holds(tables[t].entries, n)
    /\ \A a \in Actors :
          /\ pc[a] = "get_table" =>
                \E t \in 1..local[a].tbl : Holds(tables[t].entries, local[a].op)
          /\ pc[a] = "get_files" =>
                \E t \in 1..(mem_table_ - 1) : Holds(tables[t].entries, local[a].op)

Inv == Typed /\ Programs /\ Ids /\ Future /\ OneFlush /\ Freed /\ Files /\ Reads

-----------------------------------------------------------------------------
(* The constants, as the proofs of the lock and of the pool need them.     *)
LEMMA LockAssumptions == RWP!IsFiniteSet(Actors)
<1>1. IsFiniteSet(Actors)
  BY WritePathAssumption, FS_Union DEF Actors
<1> QED
  BY <1>1 DEF IsFiniteSet, RWP!IsFiniteSet

LockCall(a) ==
    \/ RW!WriteLock(a) \/ RW!WriteUnlock(a) \/ RW!ReadLock(a) \/ RW!ReadUnlock(a)
    \/ RW!Resume(a)

(* The database uses the lock as its own module says.                      *)
LEMMA LockUse ==
    ASSUME NEW a \in Actors, LockCall(a) \/ UNCHANGED lockvars
    PROVE  [RWP!Next]_(RWP!vars)
<1>1. CASE UNCHANGED lockvars
  BY <1>1 DEF lockvars, RWP!vars
<1>2. CASE RW!WriteLock(a)
  BY <1>2 DEF RW!WriteLock, RW!MustWait, RW!Goto,
              RWP!Next, RWP!WriteLock, RWP!MustWait, RWP!Goto
<1>3. CASE RW!WriteUnlock(a)
  BY <1>3 DEF RW!WriteUnlock, RW!NotifyAllReaders, RW!NotifyOneWriter, RW!Goto, RW!In,
              RWP!Next, RWP!WriteUnlock, RWP!NotifyAllReaders, RWP!NotifyOneWriter,
              RWP!Goto, RWP!In
<1>4. CASE RW!ReadLock(a)
  BY <1>4 DEF RW!ReadLock, RW!ReadEnterOrWait, RW!Goto,
              RWP!Next, RWP!ReadLock, RWP!ReadEnterOrWait, RWP!Goto
<1>5. CASE RW!ReadUnlock(a)
  BY <1>5 DEF RW!ReadUnlock, RW!ReadUnlockBody, RW!NotifyOneWriter, RW!Goto, RW!In,
              RWP!Next, RWP!ReadUnlock, RWP!ReadUnlockBody, RWP!NotifyOneWriter,
              RWP!Goto, RWP!In
<1>6. CASE RW!Resume(a)
  BY <1>6 DEF RW!Resume, RW!ReadLockResume, RW!WriteLockResume, RW!ReadEnterOrWait,
              RW!MustWait, RW!Goto, RWP!Next, RWP!ReadLockResume, RWP!WriteLockResume,
              RWP!ReadEnterOrWait, RWP!MustWait, RWP!Goto
<1> QED
  BY <1>1, <1>2, <1>3, <1>4, <1>5, <1>6 DEF LockCall

(* So the lock's own proof covers it.                                      *)
LEMMA LockStep ==
    ASSUME RWP!Inv, NEW a \in Actors, LockCall(a) \/ UNCHANGED lockvars
    PROVE  RWP!Inv'
BY LockUse, LockAssumptions, RWP!NextInv
   DEF RWP!WakeUpsAreSafe, RWP!ThreadsAssumption, RWP!OptionAssumption,
       RWP!SpuriousAssumption

PoolCall(a) ==
    \/ \E t \in TaskSet : Pool!Enqueue(a, t)
    \/ Pool!NotifyOne(a)
    \/ a \in Workers /\ (Pool!WorkerStep(a) \/ Pool!Finish(a))

(* And the pool's.                                                         *)
LEMMA PoolStepInv ==
    ASSUME PP!PoolInv, NEW a \in Actors, PoolCall(a) \/ UNCHANGED poolvars
    PROVE  PP!PoolInv'
<1>1. [PP!PoolNext]_(PP!pvars)
  <2>1. CASE UNCHANGED poolvars
    BY <2>1 DEF poolvars, PP!pvars
  <2>2. CASE \E t \in TaskSet : Pool!Enqueue(a, t)
    BY <2>2 DEF Pool!Enqueue, PP!Enqueue, PP!PoolNext
  <2>3. CASE Pool!NotifyOne(a)
    BY <2>3 DEF Pool!NotifyOne, Pool!WorkerGoto, PP!NotifyOne, PP!WorkerGoto, PP!PoolNext
  <2>4. CASE a \in Workers /\ Pool!WorkerStep(a)
    <3>1. PP!WorkerStep(a)
      BY <2>4 DEF Pool!WorkerStep, Pool!LoopTest, Pool!Lock, Pool!WaitTest, Pool!Wait,
                  Pool!Dequeue, Pool!WorkerGoto, Pool!MutexFree, Pool!HoldsMutex, Pool!Running,
                  PP!WorkerStep, PP!LoopTest, PP!Lock, PP!WaitTest, PP!Wait,
                  PP!Dequeue, PP!WorkerGoto, PP!MutexFree, PP!HoldsMutex, PP!Running
    <3> QED
      BY <3>1, <2>4 DEF PP!PoolNext
  <2>5. CASE a \in Workers /\ Pool!Finish(a)
    BY <2>5 DEF Pool!Finish, Pool!WorkerGoto, PP!Finish, PP!WorkerGoto, PP!PoolNext
  <2> QED
    BY <2>1, <2>2, <2>3, <2>4, <2>5 DEF PoolCall
<1> QED
  BY <1>1, PP!PoolStep DEF PP!PoolAssumption, NoTask, TaskSet

-----------------------------------------------------------------------------
(* What a call of the lock does to the phases: the caller's own moves, and *)
(* others are notified at most.                                            *)
PhaseKept(b) ==
    \/ phase'[b] = phase[b]
    \/ phase[b] = "w_wait" /\ phase'[b] = "w_woken"
    \/ phase[b] = "r_wait" /\ phase'[b] = "r_woken"

(* What the methods of the read-write lock do to the phases of the caller  *)
(* and of the others.                                                      *)
LEMMA LockEffect ==
    ASSUME Typed, NEW a \in Actors
    PROVE  /\ LockCall(a) => \A b \in Actors \ {a} : PhaseKept(b)
           /\ RW!WriteLock(a) => phase[a] = "idle" /\ phase'[a] \in {"w_wait", "writing"}
           /\ RW!WriteUnlock(a) => phase[a] = "writing" /\ phase'[a] = "idle"
           /\ RW!ReadLock(a) => phase[a] = "idle" /\ phase'[a] \in {"r_wait", "reading"}
           /\ RW!ReadUnlock(a) => phase[a] = "reading" /\ phase'[a] = "idle"
           /\ RW!Resume(a) =>
                 \/ phase[a] = "r_woken" /\ phase'[a] \in {"r_wait", "reading"}
                 \/ phase[a] = "w_woken" /\ phase'[a] = "writing"
<1>t. phase \in [Actors -> RWP!Phases]
  BY DEF Typed, RWP!Inv, RWP!TypeOK
<1> USE DEF RW!Goto, PhaseKept
<1>1. RW!WriteLock(a) => /\ phase[a] = "idle" /\ phase'[a] \in {"w_wait", "writing"}
                         /\ \A b \in Actors \ {a} : PhaseKept(b)
  BY <1>t DEF RW!WriteLock
<1>2. RW!WriteUnlock(a) => /\ phase[a] = "writing" /\ phase'[a] = "idle"
                           /\ \A b \in Actors \ {a} : PhaseKept(b)
  BY <1>t DEF RW!WriteUnlock, RW!NotifyAllReaders, RW!NotifyOneWriter, RW!In
<1>3. RW!ReadLock(a) => /\ phase[a] = "idle" /\ phase'[a] \in {"r_wait", "reading"}
                        /\ \A b \in Actors \ {a} : PhaseKept(b)
  BY <1>t DEF RW!ReadLock, RW!ReadEnterOrWait
<1>4. RW!ReadUnlock(a) => /\ phase[a] = "reading" /\ phase'[a] = "idle"
                          /\ \A b \in Actors \ {a} : PhaseKept(b)
  BY <1>t DEF RW!ReadUnlock, RW!ReadUnlockBody, RW!NotifyOneWriter, RW!In
<1>5. RW!Resume(a) => /\ \/ phase[a] = "r_woken" /\ phase'[a] \in {"r_wait", "reading"}
                         \/ phase[a] = "w_woken" /\ phase'[a] = "writing"
                      /\ \A b \in Actors \ {a} : PhaseKept(b)
  BY <1>t DEF RW!Resume, RW!ReadLockResume, RW!WriteLockResume, RW!ReadEnterOrWait
<1> QED
  BY <1>1, <1>2, <1>3, <1>4, <1>5 DEF LockCall

(* The same for the pool: a notification wakes a sleeper, and only a core  *)
(* thread itself takes a task or drops it.                                 *)
RunKept(w) == task'[w] = task[w] /\ (wpc'[w] = "run" <=> wpc[w] = "run")

(* What the steps of the pool do to the task that a core thread has in     *)
(* hand and to the queue.                                                  *)
LEMMA PoolEffect ==
    ASSUME Typed, NEW a \in Actors
    PROVE  /\ PoolCall(a) => \A w \in Workers \ {a} : RunKept(w)
           /\ \A t \in TaskSet : Pool!Enqueue(a, t) => \A w \in Workers : RunKept(w)
           /\ Pool!NotifyOne(a) => \A w \in Workers : RunKept(w)
           /\ a \in Workers /\ Pool!WorkerStep(a) =>
                 /\ wpc[a] # "run"
                 /\ \/ UNCHANGED task_queue_ /\ RunKept(a)
                    \/ /\ task_queue_ # <<>> /\ task_queue_' = Tail(task_queue_)
                       /\ task'[a] = Head(task_queue_) /\ wpc'[a] = "run"
           /\ a \in Workers /\ Pool!Finish(a) =>
                 /\ UNCHANGED task_queue_
                 /\ task'[a] = NoTask /\ wpc'[a] # "run"
<1>t. /\ wpc \in [Workers -> PP!WorkerStates]
      /\ task \in [Workers -> TaskSet \union {NoTask}]
  BY DEF Typed, PP!PoolInv, PP!TypeOKPool
<1> USE DEF Pool!WorkerGoto, RunKept
<1>1. \A t \in TaskSet : Pool!Enqueue(a, t) => \A w \in Workers : RunKept(w)
  BY <1>t DEF Pool!Enqueue
<1>2. Pool!NotifyOne(a) => \A w \in Workers : RunKept(w)
  BY <1>t DEF Pool!NotifyOne
<1>3. ASSUME a \in Workers, Pool!WorkerStep(a)
      PROVE  /\ \A w \in Workers \ {a} : RunKept(w)
             /\ wpc[a] # "run"
             /\ \/ UNCHANGED task_queue_ /\ RunKept(a)
                \/ /\ task_queue_ # <<>> /\ task_queue_' = Tail(task_queue_)
                   /\ task'[a] = Head(task_queue_) /\ wpc'[a] = "run"
  <2>1. CASE Pool!LoopTest(a) \/ Pool!Lock(a) \/ Pool!WaitTest(a) \/ Pool!Wait(a)
    BY <2>1, <1>3, <1>t DEF Pool!LoopTest, Pool!Lock, Pool!WaitTest, Pool!Wait
  <2>2. CASE Pool!Dequeue(a)
    BY <2>2, <1>3, <1>t DEF Pool!Dequeue
  <2> QED
    BY <2>1, <2>2, <1>3 DEF Pool!WorkerStep
<1>4. ASSUME a \in Workers, Pool!Finish(a)
      PROVE  /\ \A w \in Workers \ {a} : RunKept(w)
             /\ UNCHANGED task_queue_
             /\ task'[a] = NoTask /\ wpc'[a] # "run"
  BY <1>4, <1>t DEF Pool!Finish
<1> QED
  BY <1>1, <1>2, <1>3, <1>4 DEF PoolCall

-----------------------------------------------------------------------------
(* Lengths and domains.                                                    *)
LEMMA TypeFacts ==
    ASSUME Typed
    PROVE  /\ mem_table_ \in Nat \ {0} /\ DOMAIN tables = 1..mem_table_
           /\ \A t \in DOMAIN tables : tables[t] \in TableType
           /\ mem_table_ \in DOMAIN tables
           /\ Len(calls) \in Nat /\ DOMAIN calls = 1..Len(calls)
           /\ Len(level0) \in Nat /\ DOMAIN level0 = 1..Len(level0)
           /\ Len(task_queue_) \in Nat /\ DOMAIN task_queue_ = 1..Len(task_queue_)
           /\ \A i \in DOMAIN task_queue_ : task_queue_[i] \in TaskSet
<1>1. tables \in Seq(TableType) /\ tables # <<>> /\ calls \in Seq(Kinds)
      /\ level0 \in Seq(SUBSET Entry) /\ task_queue_ \in Seq(TaskSet)
  BY DEF Typed, PP!PoolInv, PP!TypeOKPool
<1>2. /\ mem_table_ \in Nat /\ DOMAIN tables = 1..mem_table_
      /\ Len(calls) \in Nat /\ DOMAIN calls = 1..Len(calls)
      /\ Len(level0) \in Nat /\ DOMAIN level0 = 1..Len(level0)
      /\ Len(task_queue_) \in Nat /\ DOMAIN task_queue_ = 1..Len(task_queue_)
  BY <1>1, LenProperties DEF mem_table_
<1>3. mem_table_ # 0
  BY <1>1, EmptySeq DEF mem_table_
<1>4. \A t \in DOMAIN tables : tables[t] \in TableType
  BY <1>1, ElementOfSeq, LenProperties
<1>5. \A i \in DOMAIN task_queue_ : task_queue_[i] \in TaskSet
  BY <1>1, ElementOfSeq, LenProperties
<1>6. mem_table_ \in 1..mem_table_
  BY <1>2, <1>3
<1> QED
  BY <1>2, <1>3, <1>4, <1>5, <1>6

(* One table changes.                                                      *)
LEMMA TableUpdate ==
    ASSUME Typed, NEW t \in DOMAIN tables, NEW r \in TableType,
           tables' = [tables EXCEPT ![t] = r]
    PROVE  /\ tables' \in Seq(TableType) /\ tables' # <<>>
           /\ mem_table_' = mem_table_ /\ DOMAIN tables' = DOMAIN tables
           /\ \A u \in DOMAIN tables : tables'[u] = IF u = t THEN r ELSE tables[u]
<1>1. PICK m \in Nat \ {0} : m = Len(tables) /\ DOMAIN tables = 1..m
  BY TypeFacts DEF mem_table_
<1>2. /\ tables' \in Seq(TableType) /\ Len(tables') = m
      /\ \A u \in 1..m : tables'[u] = IF u = t THEN r ELSE tables[u]
  BY <1>1, ExceptSeq DEF Typed
<1>3. DOMAIN tables' = 1..m
  BY <1>2, LenProperties
<1>4. tables' # <<>>
  BY <1>2, <1>1
<1> QED
  BY <1>1, <1>2, <1>3, <1>4 DEF mem_table_

(* What one step leaves alone: the other threads, and all that was called, *)
(* acknowledged and written.                                               *)
Others(a) ==
    /\ \A b \in Actors \ {a} : pc'[b] = pc[b] /\ local'[b] = local[b] /\ PhaseKept(b)
    /\ \A w \in Workers \ {a} : RunKept(w)

CallsGrow ==
    /\ DOMAIN calls \subseteq DOMAIN calls'
    /\ \A n \in DOMAIN calls : calls'[n] = calls[n]
    /\ acked \subseteq acked'

TablesGrow ==
    /\ DOMAIN tables \subseteq DOMAIN tables'
    /\ \A t \in DOMAIN tables : tables[t].entries \subseteq tables'[t].entries

Frame(a) == Others(a) /\ CallsGrow /\ TablesGrow

(* The types of what the lock and the pool leave to the database.          *)
TypedProgram ==
    /\ pc \in [Actors -> Locations]
    /\ local \in [Actors -> LocalType]

TypedStore ==
    /\ tables \in Seq(TableType) /\ tables # <<>>
    /\ compact_future_ \in Nat
    /\ level0 \in Seq(SUBSET Entry)
    /\ failures \in 0..MaxFailures

TypedCalls ==
    /\ calls \in Seq(Kinds) /\ Len(calls) <= Len(Ops)
    /\ \A n \in DOMAIN calls : calls[n] \in Ops[n]
    /\ acked \subseteq DOMAIN calls

(* The types in parts, in this state and in the next, for steps that       *)
(* change one of them.                                                     *)
LEMMA TypedParts ==
    /\ Typed <=> RWP!Inv /\ PP!PoolInv /\ TypedProgram /\ TypedStore /\ TypedCalls
    /\ Typed' <=> RWP!Inv' /\ PP!PoolInv' /\ TypedProgram' /\ TypedStore' /\ TypedCalls'
BY DEF Typed, TypedProgram, TypedStore, TypedCalls

(* A step that leaves the tables alone keeps their types.                  *)
LEMMA SameStore == ASSUME Typed, UNCHANGED storevars PROVE TypedStore' /\ TablesGrow
BY DEF Typed, storevars, TypedStore, TablesGrow

(* A step that adds no call keeps the types of the calls.                  *)
LEMMA SameCalls ==
    ASSUME Typed, UNCHANGED calls, acked' \subseteq DOMAIN calls, acked \subseteq acked'
    PROVE  TypedCalls' /\ CallsGrow
BY DEF Typed, TypedCalls, CallsGrow

(* A step that does not use the lock keeps the lock's invariant and every  *)
(* phase.                                                                  *)
LEMMA SameLock ==
    ASSUME Typed, NEW a \in Actors, UNCHANGED lockvars
    PROVE  RWP!Inv' /\ \A b \in Actors : phase'[b] = phase[b] /\ PhaseKept(b)
<1>1. RWP!Inv'
  BY LockStep DEF Typed
<1> QED
  BY <1>1 DEF lockvars, PhaseKept

(* A step that does not use the pool keeps the pool's invariant and every  *)
(* task in hand.                                                           *)
LEMMA SamePool ==
    ASSUME Typed, NEW a \in Actors, UNCHANGED poolvars
    PROVE  PP!PoolInv' /\ \A w \in Workers : RunKept(w)
<1>1. PP!PoolInv'
  BY PoolStepInv DEF Typed
<1> QED
  BY <1>1 DEF poolvars, RunKept

(* Steps of one thread alone, that write at most its own variables.        *)
OwnStep(a) ==
    \/ LoadTable(a) \/ CheckUsage(a) \/ Recheck(a) \/ EnterTable(a) \/ DeleteLoad(a)
    \/ GetLoad(a) \/ GetFromTable(a) \/ GetFromFiles(a)
    \/ a \in Workers /\ (StartInsertTask(a) \/ StartFlushTask(a))

(* Steps that touch nothing but the thread's own program.                  *)
LEMMA OwnTyped ==
    ASSUME Typed, NEW a \in Actors, OwnStep(a)
    PROVE  Typed' /\ Frame(a)
<1> USE DEF OwnStep, LoadTable, CheckUsage, Recheck, EnterTable, DeleteLoad, GetLoad,
            GetFromTable, GetFromFiles, StartInsertTask, StartFlushTask
<1>0. UNCHANGED <<lockvars, poolvars, storevars, calls, acked>>
  BY DEF callvars
<1>1. /\ pc \in [Actors -> Locations] /\ local \in [Actors -> LocalType]
      /\ mem_table_ \in Nat /\ NoLocals \in LocalType
  BY TypeFacts DEF Typed, NoLocals, LocalType
<1>2. a \in Workers => task[a] \in TaskSet \union {NoTask}
  BY DEF Typed, PP!PoolInv, PP!TypeOKPool
<1>3. TypedProgram'
  <2>1. pc' \in [Actors -> Locations]
    BY <1>1 DEF Goto, Return, Locations
  <2>2. local' \in [Actors -> LocalType]
    BY <1>1, <1>2 DEF SetTable, Return, LocalType, TaskSet, NoTask
  <2> QED
    BY <2>1, <2>2 DEF TypedProgram
<1>4. \A b \in Actors \ {a} : pc'[b] = pc[b] /\ local'[b] = local[b]
  BY <1>1 DEF SetTable, Return, Goto
<1>5. TypedCalls' /\ CallsGrow
  BY <1>0, SameCalls DEF Typed
<1>6. Frame(a)
  BY <1>0, <1>4, <1>5, SameLock, SamePool, SameStore DEF Frame, Others
<1> QED
  BY <1>0, <1>3, <1>5, <1>6, SameLock, SamePool, SameStore, TypedParts

(* Steps that call the lock.                                               *)
LockUser(a) ==
    \/ AskWriteLock(a) \/ ReleaseWriteLock(a) \/ AskReadLock(a) \/ ResumeLock(a)
    \/ WriteReturn(a)

(* Steps that call the lock.                                               *)
LEMMA LockTyped ==
    ASSUME Typed, Programs, NEW a \in Actors, LockUser(a)
    PROVE  Typed' /\ Frame(a)
<1> USE DEF LockUser, AskWriteLock, ReleaseWriteLock, AskReadLock, ResumeLock, WriteReturn
<1>0. UNCHANGED <<poolvars, storevars, calls>> /\ (LockCall(a) \/ UNCHANGED lockvars)
  BY DEF callvars, LockCall
<1>1. /\ pc \in [Actors -> Locations] /\ local \in [Actors -> LocalType]
      /\ NoLocals \in LocalType
  BY DEF Typed, NoLocals, LocalType
<1>2. TypedProgram'
  <2>1. pc' \in [Actors -> Locations]
    BY <1>1 DEF Goto, Return, Locations
  <2>2. local' \in [Actors -> LocalType]
    BY <1>1 DEF Return
  <2> QED
    BY <2>1, <2>2 DEF TypedProgram
<1>3. \A b \in Actors \ {a} : pc'[b] = pc[b] /\ local'[b] = local[b]
  BY <1>1 DEF Return, Goto
<1>4. \A b \in Actors \ {a} : PhaseKept(b)
  BY <1>0, LockEffect, SameLock
<1>5. acked \subseteq acked' /\ acked' \subseteq DOMAIN calls
  BY DEF At, callvars, Typed, Programs, CallAt, InTable
<1>6. TypedCalls' /\ CallsGrow
  BY <1>0, <1>5, SameCalls
<1>7. RWP!Inv'
  BY <1>0, LockStep DEF Typed
<1>8. Frame(a)
  BY <1>0, <1>3, <1>4, <1>6, SamePool, SameStore DEF Frame, Others
<1> QED
  BY <1>0, <1>2, <1>6, <1>7, <1>8, SamePool, SameStore, TypedParts

(* Steps that call the pool, the submission of a flush aside.              *)
PoolUser(a) ==
    \/ ConcurrentInsertNotify(a) \/ SwapNotify(a)
    \/ a \in Workers /\ (PoolStep(a) \/ FinishTask(a))

(* Steps that call the pool.                                               *)
LEMMA PoolTyped ==
    ASSUME Typed, NEW a \in Actors, PoolUser(a)
    PROVE  Typed' /\ Frame(a)
<1> USE DEF PoolUser, ConcurrentInsertNotify, SwapNotify, PoolStep, FinishTask
<1>0. UNCHANGED <<lockvars, storevars, calls, acked>> /\ PoolCall(a)
  BY DEF callvars, PoolCall
<1>1. /\ pc \in [Actors -> Locations] /\ local \in [Actors -> LocalType]
      /\ NoLocals \in LocalType
  BY DEF Typed, NoLocals, LocalType
<1>2. TypedProgram'
  <2>1. pc' \in [Actors -> Locations]
    BY <1>1 DEF Goto, Return, Locations
  <2>2. local' \in [Actors -> LocalType]
    BY <1>1 DEF Return
  <2> QED
    BY <2>1, <2>2 DEF TypedProgram
<1>3. \A b \in Actors \ {a} : pc'[b] = pc[b] /\ local'[b] = local[b]
  BY <1>1 DEF Return, Goto
<1>4. \A w \in Workers \ {a} : RunKept(w)
  BY <1>0, PoolEffect
<1>5. TypedCalls' /\ CallsGrow
  BY <1>0, SameCalls DEF Typed
<1>6. PP!PoolInv'
  BY <1>0, PoolStepInv DEF Typed
<1>7. Frame(a)
  BY <1>0, <1>3, <1>4, <1>5, SameLock, SameStore DEF Frame, Others
<1> QED
  BY <1>0, <1>2, <1>5, <1>6, <1>7, SameLock, SameStore, TypedParts

(* The calls of the clients.                                               *)
LEMMA CallTyped ==
    ASSUME Typed, NEW a \in Actors, CallStep(a)
    PROVE  /\ Typed' /\ Frame(a)
           /\ \E op \in Kinds : /\ Len(calls') = Len(calls) + 1
                                /\ DOMAIN calls' = 1..(Len(calls) + 1)
                                /\ calls'[Len(calls) + 1] = op
                                /\ Begin(a, op)
<1> USE DEF CallStep, CallInsert, CallDelete, CallConcurrentInsert, CallGet, Call
<1>1. PICK op \in Kinds : Begin(a, op)
  BY DEF Kinds
<1>2. PICK n \in Nat : n = Len(calls) /\ DOMAIN calls = 1..n
  BY TypeFacts
<1>3. /\ calls' \in Seq(Kinds) /\ Len(calls') = n + 1
      /\ \A i \in 1..n : calls'[i] = calls[i]
      /\ calls'[n + 1] = op
  BY <1>1, <1>2, AppendProperties DEF Begin, Typed
<1>4. DOMAIN calls' = 1..(n + 1)
  BY <1>3, LenProperties
<1>5. UNCHANGED <<lockvars, storevars, acked>> /\ (PoolCall(a) \/ UNCHANGED poolvars)
  <2>1. [kind |-> "insert", arg |-> Len(calls')] \in TaskSet
    BY <1>2, <1>3 DEF TaskSet
  <2> QED
    BY <2>1 DEF PoolCall
<1>6. TypedCalls' /\ CallsGrow
  <2>1. n < Len(Ops) /\ Len(Ops) \in Nat /\ op \in Ops[n + 1]
    BY <1>1, <1>2, WritePathAssumption, LenProperties DEF Begin
  <2>2. \A i \in 1..(n + 1) : i \in 1..n \/ i = n + 1
    BY <1>2
  <2>3. \A i \in 1..(n + 1) : calls'[i] \in Ops[i]
    BY <2>1, <2>2, <1>2, <1>3 DEF Typed
  <2>4. 1..n \subseteq 1..(n + 1) /\ n + 1 <= Len(Ops)
    BY <2>1, <1>2
  <2> QED
    BY <2>3, <2>4, <1>2, <1>3, <1>4, <1>5 DEF TypedCalls, CallsGrow, Typed
<1>7. /\ pc \in [Actors -> Locations] /\ local \in [Actors -> LocalType]
      /\ acked \subseteq Nat /\ Len(calls') \in Nat
  BY <1>2, <1>3 DEF Typed
<1>8. TypedProgram'
  <2>1. pc' \in [Actors -> Locations]
    BY <1>7 DEF Goto, Locations
  <2>2. local' \in [Actors -> LocalType]
    <3>1. PICK k \in Nat : local' = [local EXCEPT ![a].op = k]
      <4>1. CASE CallGet(a)
        BY <1>7, <4>1
      <4>2. CASE ~ CallGet(a)
        <5>1. local' = [local EXCEPT ![a].op = Len(calls')]
          BY <4>2
        <5> QED
          BY <5>1, <1>7
      <4> QED
        BY <4>1, <4>2
    <3>2. PICK r \in LocalType : r = local[a]
      BY <1>7
    <3>3. PICK q : q = [r EXCEPT !.op = k]
      OBVIOUS
    <3>4. q \in LocalType
      <4> HIDE DEF CallStep, CallInsert, CallDelete, CallConcurrentInsert, CallGet, Call
      <4> QED
        BY <3>3 DEF LocalType
    <3>5. local' = [local EXCEPT ![a] = q]
      <4> HIDE DEF CallStep, CallInsert, CallDelete, CallConcurrentInsert, CallGet, Call
      <4> QED
        BY <3>1, <3>2, <3>3
    <3> HIDE DEF CallStep, CallInsert, CallDelete, CallConcurrentInsert, CallGet, Call
    <3> QED
      BY <1>7, <3>4, <3>5
  <2> QED
    BY <2>1, <2>2 DEF TypedProgram
<1>9. \A b \in Actors \ {a} : pc'[b] = pc[b] /\ local'[b] = local[b]
  BY <1>7 DEF Goto
<1>10. \A w \in Workers \ {a} : RunKept(w)
  BY <1>5, PoolEffect, SamePool
<1>11. PP!PoolInv'
  BY <1>5, PoolStepInv DEF Typed
<1>12. Frame(a)
  BY <1>5, <1>6, <1>9, <1>10, SameLock, SameStore DEF Frame, Others
<1> QED
  BY <1>1, <1>2, <1>3, <1>4, <1>5, <1>6, <1>8, <1>11, <1>12, SameLock, SameStore, TypedParts

-----------------------------------------------------------------------------
(* The steps that change a table, the one that adds a table, and the other *)
(* two that change what all threads share.                                 *)
Changes(t, r) ==
    /\ t \in DOMAIN tables /\ r \in TableType
    /\ DOMAIN tables' = DOMAIN tables /\ mem_table_' = mem_table_
    /\ \A u \in DOMAIN tables : tables'[u] = IF u = t THEN r ELSE tables[u]

TableUser(a) ==
    \/ TableAllocate(a) \/ TableDrawId(a) \/ TablePut(a)
    \/ a \in Workers /\ (CompactFails(a) \/ DeleteImmutable(a) \/ AppendVersion(a))

Result(w) == IF local[w].ret = "ok" THEN "ok" ELSE "error"

Put(a) == [id |-> local[a].id, op |-> local[a].op]

(* What the steps of TCTable and of the flush change in the table they     *)
(* work on.                                                                *)
LEMMA TableChanges ==
    ASSUME Typed, Programs, NEW a \in Actors
    PROVE  /\ TableAllocate(a) =>
                 Changes(local[a].tbl, [Table(a) EXCEPT !.usage = @ + 1])
           /\ TableDrawId(a) =>
                 Changes(local[a].tbl, [Table(a) EXCEPT !.next_id = @ + 1])
           /\ TablePut(a) =>
                 Changes(local[a].tbl, [Table(a) EXCEPT !.entries = @ \union {Put(a)}])
           /\ CompactFails(a) =>
                 Changes(local[a].tbl, [Table(a) EXCEPT !.flush = "error"])
           /\ DeleteImmutable(a) =>
                 Changes(local[a].tbl, [Table(a) EXCEPT !.alive = FALSE])
           /\ AppendVersion(a) =>
                 Changes(local[a].tbl, [Table(a) EXCEPT !.flush = Result(a)])
           /\ TableUser(a) => tables' \in Seq(TableType) /\ tables' # <<>>
<1> DEFINE t == local[a].tbl
<1>1. \A u \in DOMAIN tables : tables[u] \in TableType
  BY TypeFacts
<1>2. local[a] \in LocalType
  BY DEF Typed
<1>3. \A r \in TableType : t \in DOMAIN tables /\ tables' = [tables EXCEPT ![t] = r] =>
         Changes(t, r) /\ tables' \in Seq(TableType) /\ tables' # <<>>
  BY TableUpdate DEF Changes
<1>4. pc[a] \in InTable \union Flushing => t \in DOMAIN tables
  BY DEF Programs, TableAt
<1> HIDE DEF t
<1> USE DEF Table, At, InTable, Flushing
<1>5. ASSUME TableAllocate(a)
      PROVE  /\ Changes(t, [Table(a) EXCEPT !.usage = @ + 1])
             /\ tables' \in Seq(TableType) /\ tables' # <<>>
  <2>1. t \in DOMAIN tables
    BY <1>4, <1>5 DEF TableAllocate
  <2>2. [tables[t] EXCEPT !.usage = @ + 1] \in TableType
    BY <2>1, <1>1 DEF TableType
  <2> QED
    BY <2>1, <2>2, <1>3, <1>5 DEF TableAllocate, t
<1>6. ASSUME TableDrawId(a)
      PROVE  /\ Changes(t, [Table(a) EXCEPT !.next_id = @ + 1])
             /\ tables' \in Seq(TableType) /\ tables' # <<>>
  <2>1. t \in DOMAIN tables
    BY <1>4, <1>6 DEF TableDrawId
  <2>2. [tables[t] EXCEPT !.next_id = @ + 1] \in TableType
    BY <2>1, <1>1 DEF TableType
  <2> QED
    BY <2>1, <2>2, <1>3, <1>6 DEF TableDrawId, t
<1>7. ASSUME TablePut(a)
      PROVE  /\ Changes(t, [Table(a) EXCEPT !.entries = @ \union {Put(a)}])
             /\ tables' \in Seq(TableType) /\ tables' # <<>>
  <2>1. t \in DOMAIN tables
    BY <1>4, <1>7 DEF TablePut
  <2>2. Put(a) \in Entry
    BY <1>2 DEF Put, Entry, LocalType
  <2>3. [tables[t] EXCEPT !.entries = @ \union {Put(a)}] \in TableType
    BY <2>1, <2>2, <1>1 DEF TableType
  <2> QED
    BY <2>1, <2>3, <1>3, <1>7 DEF TablePut, Put, t
<1>8. ASSUME NEW r \in {"ok", "error"}, SetResult(a, r), pc[a] \in Flushing
      PROVE  /\ Changes(t, [Table(a) EXCEPT !.flush = r])
             /\ tables' \in Seq(TableType) /\ tables' # <<>>
  <2>1. t \in DOMAIN tables
    BY <1>4, <1>8
  <2>2. [tables[t] EXCEPT !.flush = r] \in TableType
    BY <2>1, <1>1 DEF TableType
  <2> QED
    BY <2>1, <2>2, <1>3, <1>8 DEF SetResult, t
<1>9. ASSUME DeleteImmutable(a)
      PROVE  /\ Changes(t, [Table(a) EXCEPT !.alive = FALSE])
             /\ tables' \in Seq(TableType) /\ tables' # <<>>
  <2>1. t \in DOMAIN tables
    BY <1>4, <1>9 DEF DeleteImmutable
  <2>2. [tables[t] EXCEPT !.alive = FALSE] \in TableType
    BY <2>1, <1>1 DEF TableType
  <2> QED
    BY <2>1, <2>2, <1>3, <1>9 DEF DeleteImmutable, t
<1>10. CompactFails(a) => SetResult(a, "error") /\ pc[a] \in Flushing
  BY DEF CompactFails
<1>11. AppendVersion(a) => SetResult(a, Result(a)) /\ pc[a] \in Flushing
  BY DEF AppendVersion, Result
<1>12. Result(a) \in {"ok", "error"}
  BY DEF Result
<1> QED
  BY <1>5, <1>6, <1>7, <1>8, <1>9, <1>10, <1>11, <1>12 DEF TableUser, t

(* SwapTable appends a table.                                              *)
LEMMA SwapChanges ==
    ASSUME Typed, NEW a \in Actors, SwapTable(a)
    PROVE  /\ tables' \in Seq(TableType) /\ tables' # <<>>
           /\ mem_table_' = mem_table_ + 1
           /\ DOMAIN tables' = 1..(mem_table_ + 1)
           /\ \A t \in DOMAIN tables : tables'[t] = tables[t]
           /\ tables'[mem_table_ + 1] = NewTable(tables[mem_table_].next_id)
<1>1. PICK m \in Nat \ {0} : m = Len(tables) /\ DOMAIN tables = 1..m /\ m \in 1..m
  BY TypeFacts DEF mem_table_
<1> DEFINE r == NewTable(tables[m].next_id)
<1>2. r \in TableType
  BY <1>1, TypeFacts DEF NewTable, TableType
<1> HIDE DEF r
<1>3. /\ tables' \in Seq(TableType) /\ Len(tables') = m + 1
      /\ \A u \in 1..m : tables'[u] = tables[u]
      /\ tables'[m + 1] = r
  BY <1>1, <1>2, AppendProperties DEF SwapTable, Typed, mem_table_, r
<1>4. DOMAIN tables' = 1..(m + 1)
  BY <1>3, LenProperties
<1>5. tables' # <<>>
  BY <1>3, <1>1
<1> QED
  BY <1>1, <1>3, <1>4, <1>5 DEF mem_table_, r

SharedStep(a) ==
    \/ TableUser(a) \/ SwapTable(a) \/ GetFuture(a)
    \/ a \in Workers /\ WriteFile(a)

(* Steps that change tables, mem_table_ or compact_future_.                *)
LEMMA SharedTyped ==
    ASSUME Typed, Programs, NEW a \in Actors, SharedStep(a)
    PROVE  Typed' /\ Frame(a)
<1>s. SwapTable(a) => TablesGrow /\ tables' \in Seq(TableType) /\ tables' # <<>>
  <2> SUFFICES ASSUME SwapTable(a)
               PROVE  TablesGrow /\ tables' \in Seq(TableType) /\ tables' # <<>>
    OBVIOUS
  <2>1. PICK m \in Nat : /\ DOMAIN tables = 1..m /\ DOMAIN tables' = 1..(m + 1)
                         /\ \A u \in DOMAIN tables : tables'[u] = tables[u]
    BY SwapChanges, TypeFacts
  <2>2. 1..m \subseteq 1..(m + 1)
    BY <2>1
  <2> QED
    BY <2>1, <2>2, SwapChanges DEF TablesGrow
<1>d. pc[a] \in InTable \union Flushing => Table(a) \in TableType
  BY TypeFacts DEF Programs, TableAt, Table
<1>l. /\ pc \in [Actors -> Locations] /\ local \in [Actors -> LocalType]
      /\ NoLocals \in LocalType
  BY DEF Typed, NoLocals, LocalType
<1>w. ASSUME WriteFile(a) PROVE local' \in [Actors -> LocalType]
  <2>1. Table(a).entries \in SUBSET Entry
    BY <1>w, <1>d DEF WriteFile, At, Flushing, TableType
  <2>2. PICK r \in {"ok", "file_error", "manifest_error"} :
           local' = [local EXCEPT ![a].ret = r, ![a].file = Table(a).entries]
    BY <1>w DEF WriteFile
  <2>3. local[a] \in LocalType
    BY <1>l
  <2>4. [local[a] EXCEPT !.ret = r, !.file = Table(a).entries] \in LocalType
    BY <2>1, <2>3 DEF LocalType
  <2>5. local' = [local EXCEPT ![a] = [local[a] EXCEPT !.ret = r, !.file = Table(a).entries]]
    BY <2>2, <1>l
  <2> QED
    BY <2>4, <2>5, <1>l
<1>i. ASSUME TableDrawId(a) PROVE local' \in [Actors -> LocalType]
  <2>1. Table(a).next_id \in Nat
    BY <1>i, <1>d DEF TableDrawId, At, InTable, TableType
  <2>2. local' = [local EXCEPT ![a].id = Table(a).next_id]
    BY <1>i DEF TableDrawId
  <2> QED
    BY <2>1, <2>2, <1>l DEF LocalType
<1>r. UNCHANGED local \/ Return(a) => local' \in [Actors -> LocalType]
  BY <1>l DEF Return
<1> USE DEF SharedStep, TableUser, TableAllocate, TableDrawId, TablePut, CompactFails,
            DeleteImmutable, AppendVersion, SwapTable, GetFuture, WriteFile
<1>0. UNCHANGED <<lockvars, calls, acked>> /\ (PoolCall(a) \/ UNCHANGED poolvars)
  <2>1. [kind |-> "flush", arg |-> mem_table_] \in TaskSet
    BY TypeFacts DEF TaskSet
  <2> QED
    BY <2>1 DEF callvars, PoolCall
<1>3. TypedProgram'
  <2>1. pc' \in [Actors -> Locations]
    BY <1>l DEF Goto, Return, Locations
  <2>2. local' \in [Actors -> LocalType]
    BY <1>w, <1>i, <1>r
  <2> QED
    BY <2>1, <2>2 DEF TypedProgram
<1>4. \A b \in Actors \ {a} : pc'[b] = pc[b] /\ local'[b] = local[b]
  BY <1>l DEF Return, Goto
<1>5. \A w \in Workers \ {a} : RunKept(w)
  BY <1>0, PoolEffect, SamePool
<1>6. PP!PoolInv'
  BY <1>0, PoolStepInv DEF Typed
<1>7. TypedCalls' /\ CallsGrow
  BY <1>0, SameCalls DEF Typed
<1>8. /\ tables' \in Seq(TableType) /\ tables' # <<>>
  <2>1. CASE UNCHANGED tables
    BY <2>1 DEF Typed
  <2>2. CASE SwapTable(a)
    BY <2>2, <1>s
  <2>3. CASE TableUser(a)
    BY <2>3, TableChanges
  <2> QED
    BY <2>1, <2>2, <2>3
<1>9. TablesGrow
  <2>1. CASE UNCHANGED tables
    BY <2>1 DEF TablesGrow
  <2>2. CASE SwapTable(a)
    BY <2>2, <1>s
  <2>3. CASE TableUser(a)
    <3>1. PICK r : Changes(local[a].tbl, r) /\ Table(a).entries \subseteq r.entries
      <4>1. Table(a) \in TableType
        BY <2>3, <1>d DEF At, InTable, Flushing
      <4>2. /\ Table(a).entries \subseteq [Table(a) EXCEPT !.usage = @ + 1].entries
            /\ Table(a).entries \subseteq [Table(a) EXCEPT !.next_id = @ + 1].entries
            /\ Table(a).entries \subseteq [Table(a) EXCEPT !.entries = @ \union {Put(a)}].entries
            /\ Table(a).entries \subseteq [Table(a) EXCEPT !.flush = "error"].entries
            /\ Table(a).entries \subseteq [Table(a) EXCEPT !.flush = Result(a)].entries
            /\ Table(a).entries \subseteq [Table(a) EXCEPT !.alive = FALSE].entries
        BY <4>1 DEF TableType
      <4> QED
        BY <2>3, <4>2, TableChanges
    <3> QED
      BY <3>1 DEF Changes, TablesGrow, Table
  <2> QED
    BY <2>1, <2>2, <2>3
<1>10. TypedStore'
  <2>1. compact_future_' \in Nat
    BY TypeFacts DEF Typed
  <2>2. failures' \in 0..MaxFailures
    BY WritePathAssumption DEF Typed
  <2>3. level0' \in Seq(SUBSET Entry)
    <3>1. local[a].file \in SUBSET Entry
      BY <1>l DEF LocalType
    <3>2. level0 \in Seq(SUBSET Entry) /\ Append(level0, local[a].file) \in Seq(SUBSET Entry)
      BY <3>1, AppendProperties DEF Typed
    <3> QED
      BY <3>2
  <2> QED
    BY <2>1, <2>2, <2>3, <1>8 DEF TypedStore
<1>11. Frame(a)
  BY <1>0, <1>4, <1>5, <1>7, <1>9, SameLock DEF Frame, Others
<1> QED
  BY <1>0, <1>3, <1>6, <1>7, <1>10, <1>11, SameLock, TypedParts

(* Every step is one of these.                                             *)
Step(a) ==
    \/ OwnStep(a) \/ LockUser(a) \/ PoolUser(a) \/ SharedStep(a)
    \/ a \in Clients /\ CallStep(a)

(* Every step is the step of one thread.                                   *)
LEMMA EveryStep == Next => \E a \in Actors : Step(a)
<1> USE DEF Step, OwnStep, LockUser, PoolUser, SharedStep, TableUser
<1>1. ASSUME NEW c \in Clients, CallStep(c) \/ ClientStep(c) PROVE Step(c)
  BY <1>1 DEF ClientStep
<1>2. ASSUME NEW a \in Actors, InsertStep(a) PROVE Step(a)
  BY <1>2 DEF InsertStep
<1>3. ASSUME NEW w \in Workers, PoolStep(w) \/ TaskStep(w) PROVE Step(w)
  BY <1>3 DEF TaskStep, FlushStep
<1> HIDE DEF Step
<1> QED
  BY <1>1, <1>2, <1>3 DEF Next, Actors

(* A step keeps the types and leaves the other threads' programs alone.    *)
LEMMA TypedStep ==
    ASSUME Typed, Programs, NEW a \in Actors, Step(a)
    PROVE  Typed' /\ Frame(a)
BY OwnTyped, LockTyped, PoolTyped, SharedTyped, CallTyped DEF Step

-----------------------------------------------------------------------------
(* Programs.  A thread that does not move stays where it may be.           *)
ProgramOf(a) == LockAt(a) /\ CallAt(a) /\ TableAt(a) /\ TaskAt(a)

(* What a thread may assume about its place in the program survives the    *)
(* steps of others: who reads mem_table_ under the lock keeps it.          *)
LEMMA OthersProgram ==
    ASSUME Typed, Programs, NEW a \in Actors, Frame(a), NEW b \in Actors, b # a,
           mem_table_' = mem_table_ \/ phase[b] # "reading"
    PROVE  ProgramOf(b)'
<1>1. /\ pc'[b] = pc[b] /\ local'[b] = local[b] /\ PhaseKept(b)
      /\ b \in Workers => RunKept(b)
      /\ CallsGrow /\ TablesGrow
  BY DEF Frame, Others
<1>2. LockAt(b) /\ CallAt(b) /\ TableAt(b) /\ TaskAt(b)
  BY DEF Programs
<1>3. local[b].op \in DOMAIN calls => (Locked(local[b].op)' <=> Locked(local[b].op))
  BY <1>1 DEF CallsGrow, Locked
<1>4. LockAt(b)'
  BY <1>1, <1>2, <1>3 DEF LockAt, CallAt, PhaseKept, WriteSection, InTable
<1>5. CallAt(b)'
  BY <1>1, <1>2, <1>3 DEF CallAt, CallsGrow, Typed
<1>6. TableAt(b)'
  <2>1. local[b].tbl \in DOMAIN tables => local[b].tbl \in DOMAIN tables'
    BY <1>1 DEF TablesGrow
  <2>2. ASSUME pc[b] \in {"tab_alloc", "tab_id", "tab_put"}, Locked(local[b].op)
        PROVE  local[b].tbl = mem_table_'
    BY <2>2, <1>2 DEF TableAt, LockAt, InTable, WriteSection
  <2>3. ASSUME pc[b] = "tab_done"
        PROVE  Holds(Table(b).entries, local[b].op)'
    <3>1. local[b].tbl \in DOMAIN tables /\ Holds(tables[local[b].tbl].entries, local[b].op)
      BY <2>3, <1>2 DEF TableAt, Table, InTable
    <3>2. tables[local[b].tbl].entries \subseteq tables'[local[b].tbl].entries
      BY <3>1, <1>1 DEF TablesGrow
    <3> QED
      BY <3>1, <3>2, <1>1 DEF Holds, Table
  <2>4. pc[b] \in InTable => local[b].op \in DOMAIN calls
    BY <1>2 DEF CallAt
  <2> QED
    BY <2>1, <2>2, <2>3, <2>4, <1>1, <1>2, <1>3 DEF TableAt, InTable
<1>7. TaskAt(b)'
  BY <1>1, <1>2 DEF TaskAt, RunKept, Flushing
<1> QED
  BY <1>4, <1>5, <1>6, <1>7 DEF ProgramOf

(* What a thread in the table knows when it is done, and the lock tells    *)
(* the two kinds of writers apart.                                         *)
LEMMA OwnProgram ==
    ASSUME Inv, NEW a \in Actors, OwnStep(a)
    PROVE  ProgramOf(a)'
<1>0. UNCHANGED <<lockvars, poolvars, storevars, calls, acked>>
  BY DEF OwnStep, LoadTable, CheckUsage, Recheck, EnterTable, DeleteLoad, GetLoad,
         GetFromTable, GetFromFiles, StartInsertTask, StartFlushTask, callvars
<1>1. /\ UNCHANGED <<phase, wpc, task, tables, calls, acked>>
  BY <1>0 DEF lockvars, poolvars, storevars
<1>t. /\ pc \in [Actors -> Locations] /\ local \in [Actors -> LocalType]
      /\ mem_table_ \in DOMAIN tables
  BY TypeFacts DEF Inv, Typed
<1>p. LockAt(a) /\ CallAt(a) /\ TableAt(a) /\ TaskAt(a)
  BY DEF Inv, Programs
<1> USE DEF ProgramOf, LockAt, CallAt, TableAt, TaskAt, WriteSection, InTable, Inserting,
            Flushing, Getting, At, Goto, SetTable, Locked, LocalType
<1>2. CASE LoadTable(a)
  BY <1>2, <1>1, <1>t, <1>p DEF LoadTable, mem_table_
<1>3. CASE CheckUsage(a)
  BY <1>3, <1>1, <1>t, <1>p DEF CheckUsage
<1>4. CASE Recheck(a)
  BY <1>4, <1>1, <1>t, <1>p DEF Recheck
<1>5. CASE EnterTable(a)
  BY <1>5, <1>1, <1>t, <1>p DEF EnterTable, mem_table_
<1>6. CASE DeleteLoad(a)
  BY <1>6, <1>1, <1>t, <1>p DEF DeleteLoad, mem_table_
<1>7. CASE GetLoad(a)
  BY <1>7, <1>1, <1>t, <1>p DEF GetLoad, mem_table_
<1>8. CASE GetFromTable(a) \/ GetFromFiles(a)
  BY <1>8, <1>1, <1>t, <1>p DEF GetFromTable, GetFromFiles, Return, Actors
<1>9. CASE a \in Workers /\ StartInsertTask(a)
  BY <1>9, <1>1, <1>t, <1>p DEF StartInsertTask, Inv, Programs, TasksKnown, IsInsert
<1>10. CASE a \in Workers /\ StartFlushTask(a)
  <2>1. task[a] \in TaskSet \union {NoTask} /\ task[a].kind = "flush"
    BY <1>10 DEF StartFlushTask, Inv, Typed, PP!PoolInv, PP!TypeOKPool
  <2>2. task[a] = [kind |-> "flush", arg |-> task[a].arg]
    BY <2>1 DEF TaskSet, NoTask
  <2>3. task[a].arg \in DOMAIN tables
    BY <1>10 DEF StartFlushTask, Inv, OneFlush, AtWork, OfFuture
  <2> QED
    BY <2>2, <2>3, <1>10, <1>1, <1>t, <1>p DEF StartFlushTask
<1> QED
  BY <1>2, <1>3, <1>4, <1>5, <1>6, <1>7, <1>8, <1>9, <1>10 DEF OwnStep

(* The program of a thread that calls the lock.                            *)
LEMMA LockProgram ==
    ASSUME Inv, NEW a \in Actors, LockUser(a)
    PROVE  ProgramOf(a)'
<1>0. UNCHANGED <<poolvars, storevars, calls>> /\ acked \subseteq acked'
  BY DEF LockUser, AskWriteLock, ReleaseWriteLock, AskReadLock, ResumeLock, WriteReturn,
         callvars
<1>1. UNCHANGED <<wpc, task, tables, calls>> /\ acked \subseteq acked'
  BY <1>0 DEF poolvars, storevars
<1>t. pc \in [Actors -> Locations] /\ local \in [Actors -> LocalType]
  BY DEF Inv, Typed
<1>p. LockAt(a) /\ CallAt(a) /\ TableAt(a) /\ TaskAt(a)
  BY DEF Inv, Programs
<1>e. /\ RW!WriteLock(a) => phase[a] = "idle" /\ phase'[a] \in {"w_wait", "writing"}
      /\ RW!WriteUnlock(a) => phase[a] = "writing" /\ phase'[a] = "idle"
      /\ RW!ReadLock(a) => phase[a] = "idle" /\ phase'[a] \in {"r_wait", "reading"}
      /\ RW!ReadUnlock(a) => phase[a] = "reading" /\ phase'[a] = "idle"
      /\ RW!Resume(a) =>
            \/ phase[a] = "r_woken" /\ phase'[a] \in {"r_wait", "reading"}
            \/ phase[a] = "w_woken" /\ phase'[a] = "writing"
  BY LockEffect DEF Inv
<1> USE DEF ProgramOf, LockAt, CallAt, TableAt, TaskAt, WriteSection, InTable, Inserting,
            Flushing, Getting, At, Goto, Locked, LocalType
<1>2. CASE AskWriteLock(a)
  BY <1>2, <1>1, <1>t, <1>p, <1>e DEF AskWriteLock
<1>3. CASE ReleaseWriteLock(a)
  BY <1>3, <1>1, <1>t, <1>p, <1>e DEF ReleaseWriteLock
<1>4. CASE AskReadLock(a)
  BY <1>4, <1>1, <1>t, <1>p, <1>e DEF AskReadLock
<1>5. CASE ResumeLock(a)
  <2>1. UNCHANGED <<pc, local>> /\ RW!Resume(a)
    BY <1>5 DEF ResumeLock
  <2>2. LockAt(a)'
    BY <2>1, <1>1, <1>t, <1>p, <1>e
  <2>3. CallAt(a)' /\ TaskAt(a)'
    BY <2>1, <1>1, <1>t, <1>p
  <2>4. TableAt(a)'
    BY <2>1, <1>1, <1>t, <1>p DEF Table, mem_table_
  <2> QED
    BY <2>2, <2>3, <2>4
<1>6. CASE WriteReturn(a)
  <2>1. phase'[a] \in {"idle", "writing"}
    <3>1. CASE phase[a] = "reading"
      BY <3>1, <1>6, <1>e DEF WriteReturn
    <3>2. CASE phase[a] # "reading"
      BY <3>2, <1>6, <1>p DEF WriteReturn, lockvars
    <3> QED
      BY <3>1, <3>2
  <2> QED
    BY <2>1, <1>6, <1>1, <1>t, <1>p DEF WriteReturn, Return, Actors
<1> QED
  BY <1>2, <1>3, <1>4, <1>5, <1>6 DEF LockUser

(* The program of a thread that calls the pool.                            *)
LEMMA PoolProgram ==
    ASSUME Inv, NEW a \in Actors, PoolUser(a)
    PROVE  ProgramOf(a)'
<1>0. UNCHANGED <<lockvars, storevars, callvars>>
  BY DEF PoolUser, ConcurrentInsertNotify, SwapNotify, PoolStep, FinishTask
<1>1. UNCHANGED <<phase, tables, calls, acked>>
  BY <1>0 DEF lockvars, storevars, callvars
<1>t. pc \in [Actors -> Locations] /\ local \in [Actors -> LocalType]
  BY DEF Inv, Typed
<1>p. LockAt(a) /\ CallAt(a) /\ TableAt(a) /\ TaskAt(a)
  BY DEF Inv, Programs
<1>e. /\ Pool!NotifyOne(a) /\ a \in Workers => RunKept(a)
      /\ a \in Workers /\ Pool!WorkerStep(a) => wpc[a] # "run"
  BY PoolEffect DEF Inv
<1> USE DEF ProgramOf, LockAt, CallAt, TableAt, TaskAt, WriteSection, InTable, Inserting,
            Flushing, Getting, At, Goto, Locked, LocalType
<1>2. CASE ConcurrentInsertNotify(a)
  BY <1>2, <1>1, <1>t, <1>p, <1>e DEF ConcurrentInsertNotify, Return, Actors, RunKept
<1>3. CASE SwapNotify(a)
  BY <1>3, <1>1, <1>t, <1>p, <1>e DEF SwapNotify, RunKept
<1>4. CASE a \in Workers /\ PoolStep(a)
  <2>1. UNCHANGED <<pc, local>> /\ pc[a] = "idle"
    BY <1>4, <1>p, <1>e DEF PoolStep
  <2> QED
    BY <2>1, <1>1, <1>t, <1>p
<1>5. CASE a \in Workers /\ FinishTask(a)
  BY <1>5, <1>1, <1>t, <1>p DEF FinishTask
<1> QED
  BY <1>2, <1>3, <1>4, <1>5 DEF PoolUser

(* The program of a thread that changes tables or futures.                 *)
LEMMA SharedProgram ==
    ASSUME Inv, NEW a \in Actors, SharedStep(a)
    PROVE  ProgramOf(a)'
<1>0. UNCHANGED <<lockvars, callvars>>
  BY DEF SharedStep, TableUser, TableAllocate, TableDrawId, TablePut, CompactFails,
         DeleteImmutable, AppendVersion, SwapTable, GetFuture, WriteFile
<1>1. UNCHANGED <<phase, calls, acked>>
  BY <1>0 DEF lockvars, callvars
<1>t. /\ pc \in [Actors -> Locations] /\ local \in [Actors -> LocalType]
      /\ Typed /\ Programs
  BY DEF Inv, Typed
<1>p. LockAt(a) /\ CallAt(a) /\ TableAt(a) /\ TaskAt(a)
  BY DEF Inv, Programs
<1>c. TableUser(a) => DOMAIN tables' = DOMAIN tables /\ mem_table_' = mem_table_
  BY <1>t, TableChanges DEF TableUser, Changes
<1> USE DEF ProgramOf, LockAt, CallAt, TableAt, TaskAt, WriteSection, InTable, Inserting,
            Flushing, Getting, At, Goto, Locked, LocalType
<1>2. CASE TableAllocate(a)
  <2>1. UNCHANGED <<wpc, task, local>> /\ pc[a] = "tab_alloc" /\ pc'[a] = "tab_id"
    BY <1>2, <1>t DEF TableAllocate, poolvars
  <2> QED
    BY <2>1, <1>2, <1>1, <1>p, <1>c DEF TableUser
<1>3. CASE TableDrawId(a)
  <2>1. UNCHANGED <<wpc, task>> /\ pc[a] = "tab_id" /\ pc'[a] = "tab_put"
    BY <1>3, <1>t DEF TableDrawId, poolvars
  <2>2. local'[a].tbl = local[a].tbl /\ local'[a].op = local[a].op
    BY <1>3, <1>t DEF TableDrawId
  <2> QED
    BY <2>1, <2>2, <1>3, <1>1, <1>p, <1>c DEF TableUser
<1>4. CASE TablePut(a)
  <2>1. UNCHANGED <<wpc, task, local>> /\ pc[a] = "tab_put" /\ pc'[a] = "tab_done"
    BY <1>4, <1>t DEF TablePut, poolvars
  <2>2. Changes(local[a].tbl, [Table(a) EXCEPT !.entries = @ \union {Put(a)}])
    BY <1>4, <1>t, TableChanges
  <2>3. Put(a) \in tables'[local[a].tbl].entries /\ Put(a).op = local[a].op
    <3>1. tables[local[a].tbl] \in TableType
      BY <2>2, <1>t, TypeFacts DEF Changes
    <3> QED
      BY <2>2, <3>1 DEF Changes, Put, Table, TableType
  <2>4. Holds(Table(a).entries, local[a].op)'
    BY <2>1, <2>3 DEF Holds, Table
  <2> QED
    BY <2>1, <2>4, <1>4, <1>1, <1>p, <1>c DEF TableUser
<1>5. CASE a \in Workers /\ (CompactFails(a) \/ AppendVersion(a))
  <2>1. /\ UNCHANGED <<wpc, task, local>> /\ pc'[a] = "task_done"
        /\ pc[a] \in {"fl_write", "fl_version"}
    BY <1>5, <1>t DEF CompactFails, AppendVersion, poolvars
  <2> QED
    BY <2>1, <1>5, <1>1, <1>p
<1>6. CASE a \in Workers /\ DeleteImmutable(a)
  <2>1. UNCHANGED <<wpc, task, local>> /\ pc[a] = "fl_free" /\ pc'[a] = "fl_version"
    BY <1>6, <1>t DEF DeleteImmutable, poolvars
  <2> QED
    BY <2>1, <1>6, <1>1, <1>p, <1>c DEF TableUser
<1>7. CASE SwapTable(a)
  <2>1. UNCHANGED <<wpc, task, local>> /\ pc[a] = "ins_swap" /\ pc'[a] = "ins_notify"
    BY <1>7, <1>t DEF SwapTable, Pool!Enqueue
  <2> QED
    BY <2>1, <1>1, <1>p
<1>8. CASE GetFuture(a)
  <2>1. /\ UNCHANGED <<wpc, task, tables>> /\ pc[a] = "ins_get"
        /\ \/ pc'[a] = "ins_swap" /\ UNCHANGED local
           \/ pc'[a] = "idle" /\ a \in Clients
           \/ pc'[a] = "task_done" /\ a \in Workers
    BY <1>8, <1>t DEF GetFuture, Return, poolvars, Actors
  <2> QED
    BY <2>1, <1>1, <1>p
<1>9. CASE a \in Workers /\ WriteFile(a)
  <2>1. /\ UNCHANGED <<wpc, task, tables>> /\ pc[a] = "fl_write" /\ pc'[a] = "fl_free"
    BY <1>9, <1>t DEF WriteFile, poolvars
  <2>2. local'[a].tbl = local[a].tbl
    BY <1>9, <1>t DEF WriteFile
  <2> QED
    BY <2>1, <2>2, <1>9, <1>1, <1>p
<1> QED
  BY <1>2, <1>3, <1>4, <1>5, <1>6, <1>7, <1>8, <1>9 DEF SharedStep, TableUser

(* The program of a client that begins or ends a call.                     *)
LEMMA CallProgram ==
    ASSUME Inv, NEW a \in Clients, CallStep(a)
    PROVE  ProgramOf(a)'
<1>a. a \in Actors /\ a \notin Workers
  BY WritePathAssumption DEF Actors
<1>0. UNCHANGED <<lockvars, storevars, acked>>
  BY DEF CallStep, CallInsert, CallDelete, CallConcurrentInsert, CallGet, Call
<1>1. UNCHANGED <<phase, tables, acked>>
  BY <1>0 DEF lockvars, storevars
<1>t. pc \in [Actors -> Locations] /\ local \in [Actors -> LocalType]
  BY DEF Inv, Typed
<1>p. LockAt(a) /\ CallAt(a)
  BY <1>a DEF Inv, Programs
<1>2. PICK op \in Kinds, n \in Nat :
         /\ n = Len(calls) /\ Len(calls') = n + 1 /\ DOMAIN calls' = 1..(n + 1)
         /\ calls'[n + 1] = op /\ Begin(a, op)
  BY <1>a, CallTyped, TypeFacts DEF Inv
<1>3. n + 1 \in 1..(n + 1)
  BY <1>2
<1>4. calls' = Append(calls, op)
  BY <1>2 DEF Begin
<1>5. PICK l \in {"ins_load", "del_load", "con_notify", "get_load"} :
         /\ pc[a] = "idle" /\ pc'[a] = l
         /\ IF l = "get_load" THEN local'[a].op \in acked
            ELSE /\ local'[a].op = n + 1
                 /\ l = "ins_load" => calls'[n + 1] # "delete"
                 /\ l = "del_load" => calls'[n + 1] = "delete"
  <2>1. ASSUME NEW k \in Kinds, Begin(a, k) PROVE calls'[n + 1] = k
    <3>1. calls \in Seq(Kinds) /\ calls' = Append(calls, k)
      BY <2>1 DEF Begin, Inv, Typed
    <3> QED
      BY <3>1, <2>1, <1>2, AppendProperties
  <2>2. CASE CallInsert(a)
    <3>1. Call(a, "insert", "ins_load")
      BY <2>2 DEF CallInsert
    <3>2. calls'[n + 1] = "insert"
      BY <3>1, <2>1 DEF Call, Kinds
    <3> QED
      BY <3>1, <3>2, <1>a, <1>t, <1>2 DEF Call, Begin, At, Goto, LocalType
  <2>3. CASE CallDelete(a)
    <3>1. Call(a, "delete", "del_load")
      BY <2>3 DEF CallDelete
    <3>2. calls'[n + 1] = "delete"
      BY <3>1, <2>1 DEF Call, Kinds
    <3> QED
      BY <3>1, <3>2, <1>a, <1>t, <1>2 DEF Call, Begin, At, Goto, LocalType
  <2>4. CASE CallConcurrentInsert(a)
    <3>1. Call(a, "concurrent", "con_notify")
      BY <2>4 DEF CallConcurrentInsert
    <3> QED
      BY <3>1, <1>a, <1>t, <1>2 DEF Call, Begin, At, Goto, LocalType
  <2>5. CASE CallGet(a)
    BY <2>5, <1>a, <1>t DEF CallGet, Begin, At, Goto, LocalType
  <2> QED
    BY <2>2, <2>3, <2>4, <2>5 DEF CallStep
<1>6. LockAt(a)'
  BY <1>1, <1>5, <1>p DEF LockAt, WriteSection, InTable
<1>7. CallAt(a)'
  BY <1>1, <1>2, <1>3, <1>5 DEF CallAt, Locked, Inserting, WriteSection, InTable, Getting
<1>8. TableAt(a)' /\ TaskAt(a)'
  BY <1>a, <1>5 DEF TableAt, TaskAt, InTable, Flushing
<1> QED
  BY <1>6, <1>7, <1>8 DEF ProgramOf

-----------------------------------------------------------------------------
(* The queue of the pool, when a task is put in and when one is taken out. *)
LEMMA QueuePut ==
    ASSUME Typed, NEW t \in TaskSet, task_queue_' = Append(task_queue_, t)
    PROVE  \E n \in Nat : /\ DOMAIN task_queue_ = 1..n /\ DOMAIN task_queue_' = 1..(n + 1)
                          /\ \A i \in 1..n : task_queue_'[i] = task_queue_[i]
                          /\ task_queue_'[n + 1] = t
<1>1. PICK n \in Nat : n = Len(task_queue_) /\ DOMAIN task_queue_ = 1..n
  BY TypeFacts
<1>2. /\ task_queue_' \in Seq(TaskSet) /\ Len(task_queue_') = n + 1
      /\ \A i \in 1..n : task_queue_'[i] = task_queue_[i]
      /\ task_queue_'[n + 1] = t
  BY <1>1, AppendProperties DEF Typed, PP!PoolInv, PP!TypeOKPool
<1>3. DOMAIN task_queue_' = 1..(n + 1)
  BY <1>2, LenProperties
<1> QED
  BY <1>1, <1>2, <1>3

(* The queue when its first task is taken.                                 *)
LEMMA QueueTake ==
    ASSUME Typed, task_queue_ # <<>>, task_queue_' = Tail(task_queue_)
    PROVE  \E n \in Nat \ {0} :
              /\ DOMAIN task_queue_ = 1..n /\ DOMAIN task_queue_' = 1..(n - 1)
              /\ \A i \in 1..(n - 1) : task_queue_'[i] = task_queue_[i + 1]
              /\ Head(task_queue_) = task_queue_[1]
<1>1. PICK n \in Nat : n = Len(task_queue_) /\ DOMAIN task_queue_ = 1..n
  BY TypeFacts
<1>2. task_queue_ \in Seq(TaskSet)
  BY DEF Typed, PP!PoolInv, PP!TypeOKPool
<1>3. n # 0
  BY <1>1, <1>2, EmptySeq
<1>4. /\ task_queue_' \in Seq(TaskSet) /\ Len(task_queue_') = n - 1
      /\ \A i \in 1..(n - 1) : task_queue_'[i] = task_queue_[i + 1]
  BY <1>1, <1>2, HeadTailProperties
<1>5. DOMAIN task_queue_' = 1..(n - 1)
  BY <1>4, LenProperties
<1>6. Head(task_queue_) = task_queue_[1]
  OBVIOUS
<1> QED
  BY <1>1, <1>3, <1>4, <1>5, <1>6

(* Which steps change the queue or a task.                                 *)
LEMMA QueueSteps ==
    ASSUME Inv, NEW a \in Actors, Step(a)
    PROVE  \/ UNCHANGED task_queue_ /\ \A w \in Workers : RunKept(w)
           \/ /\ CallConcurrentInsert(a) /\ \A w \in Workers : RunKept(w)
              /\ [kind |-> "insert", arg |-> Len(calls')] \in TaskSet
              /\ task_queue_' = Append(task_queue_, [kind |-> "insert", arg |-> Len(calls')])
           \/ /\ SwapTable(a) /\ \A w \in Workers : RunKept(w)
              /\ [kind |-> "flush", arg |-> mem_table_] \in TaskSet
              /\ task_queue_' = Append(task_queue_, [kind |-> "flush", arg |-> mem_table_])
           \/ /\ a \in Workers /\ PoolStep(a) /\ \A w \in Workers \ {a} : RunKept(w)
              /\ task_queue_ # <<>> /\ task_queue_' = Tail(task_queue_)
              /\ wpc[a] # "run" /\ task'[a] = Head(task_queue_) /\ wpc'[a] = "run"
           \/ /\ a \in Workers /\ FinishTask(a) /\ UNCHANGED task_queue_
              /\ \A w \in Workers \ {a} : RunKept(w)
              /\ task'[a] = NoTask /\ wpc'[a] # "run"
<1>t. Typed
  BY DEF Inv
<1>1. UNCHANGED poolvars => UNCHANGED task_queue_ /\ \A w \in Workers : RunKept(w)
  BY DEF poolvars, RunKept
<1>2. CASE OwnStep(a)
  BY <1>1, <1>2 DEF OwnStep, LoadTable, CheckUsage, Recheck, EnterTable, DeleteLoad,
        GetLoad, GetFromTable, GetFromFiles, StartInsertTask, StartFlushTask
<1>3. CASE LockUser(a)
  BY <1>1, <1>3 DEF LockUser, AskWriteLock, ReleaseWriteLock, AskReadLock, ResumeLock,
        WriteReturn
<1>4. CASE ConcurrentInsertNotify(a) \/ SwapNotify(a)
  <2>1. Pool!NotifyOne(a)
    BY <1>4 DEF ConcurrentInsertNotify, SwapNotify
  <2> QED
    BY <2>1, <1>t, PoolEffect DEF Pool!NotifyOne
<1>5. CASE a \in Workers /\ PoolStep(a)
  <2>1. Pool!WorkerStep(a) /\ PoolCall(a)
    BY <1>5 DEF PoolStep, PoolCall
  <2>2. \A w \in Workers \ {a} : RunKept(w)
    BY <2>1, <1>t, PoolEffect
  <2>3. /\ wpc[a] # "run"
        /\ \/ UNCHANGED task_queue_ /\ RunKept(a)
           \/ /\ task_queue_ # <<>> /\ task_queue_' = Tail(task_queue_)
              /\ task'[a] = Head(task_queue_) /\ wpc'[a] = "run"
    BY <2>1, <1>5, <1>t, PoolEffect
  <2> QED
    BY <2>2, <2>3, <1>5
<1>6. CASE a \in Workers /\ FinishTask(a)
  <2>1. Pool!Finish(a) /\ PoolCall(a)
    BY <1>6 DEF FinishTask, PoolCall
  <2>2. \A w \in Workers \ {a} : RunKept(w)
    BY <2>1, <1>t, PoolEffect
  <2>3. UNCHANGED task_queue_ /\ task'[a] = NoTask /\ wpc'[a] # "run"
    BY <2>1, <1>6, <1>t, PoolEffect
  <2> QED
    BY <2>2, <2>3, <1>6
<1>7. CASE SwapTable(a)
  <2>1. [kind |-> "flush", arg |-> mem_table_] \in TaskSet
    BY <1>t, TypeFacts DEF TaskSet
  <2>2. Pool!Enqueue(a, [kind |-> "flush", arg |-> mem_table_])
    BY <1>7 DEF SwapTable
  <2> QED
    BY <2>1, <2>2, <1>7, <1>t, PoolEffect DEF Pool!Enqueue
<1>8. CASE TableUser(a) \/ GetFuture(a) \/ WriteFile(a)
  BY <1>1, <1>8 DEF TableUser, TableAllocate, TableDrawId, TablePut, CompactFails,
        DeleteImmutable, AppendVersion, GetFuture, WriteFile
<1>9. CASE CallInsert(a) \/ CallDelete(a) \/ CallGet(a)
  BY <1>1, <1>9 DEF CallInsert, CallDelete, CallGet
<1>10. CASE CallConcurrentInsert(a)
  <2>1. CallStep(a)
    BY <1>10 DEF CallStep
  <2>2. [kind |-> "insert", arg |-> Len(calls')] \in TaskSet
    BY <2>1, <1>t, CallTyped, TypeFacts DEF TaskSet
  <2>3. Pool!Enqueue(a, [kind |-> "insert", arg |-> Len(calls')])
    BY <1>10 DEF CallConcurrentInsert
  <2> QED
    BY <2>2, <2>3, <1>10, <1>t, PoolEffect DEF Pool!Enqueue
<1> QED
  BY <1>2, <1>3, <1>4, <1>5, <1>6, <1>7, <1>8, <1>9, <1>10
     DEF Step, PoolUser, SharedStep, CallStep

(* Only calls of ConcurrentInsert are submitted as inserts.                *)
LEMMA TasksStep ==
    ASSUME Inv, NEW a \in Actors, Step(a)
    PROVE  TasksKnown'
<1>t. Typed /\ TasksKnown /\ Frame(a)
  BY TypedStep DEF Inv, Programs
<1>1. \A n : IsInsert(n) => IsInsert(n)'
  BY <1>t DEF Frame, CallsGrow, IsInsert, Locked
<1> USE DEF TasksKnown, RunKept
<1>2. CASE UNCHANGED task_queue_ /\ \A w \in Workers : RunKept(w)
  BY <1>1, <1>2, <1>t
<1>3. CASE /\ CallConcurrentInsert(a) /\ \A w \in Workers : RunKept(w)
           /\ [kind |-> "insert", arg |-> Len(calls')] \in TaskSet
           /\ task_queue_' = Append(task_queue_, [kind |-> "insert", arg |-> Len(calls')])
  <2>1. PICK k \in Nat : k = Len(calls') /\ IsInsert(k)'
    <3>1. Begin(a, "concurrent") /\ CallStep(a)
      BY <1>3 DEF CallConcurrentInsert, Call, CallStep
    <3>2. PICK n \in Nat : n = Len(calls) /\ Len(calls') = n + 1 /\ DOMAIN calls' = 1..(n + 1)
      BY <3>1, <1>t, CallTyped, TypeFacts
    <3>3. calls'[n + 1] = "concurrent"
      BY <3>1, <3>2, <1>t, AppendProperties DEF Begin, Typed, Kinds
    <3>4. n + 1 \in Nat /\ n + 1 \in 1..(n + 1)
      BY <3>2
    <3> QED
      BY <3>2, <3>3, <3>4 DEF IsInsert, Locked
  <2>2. PICK n \in Nat :
           /\ DOMAIN task_queue_ = 1..n /\ DOMAIN task_queue_' = 1..(n + 1)
           /\ \A i \in 1..n : task_queue_'[i] = task_queue_[i]
           /\ task_queue_'[n + 1] = [kind |-> "insert", arg |-> k]
    BY <2>1, <1>3, <1>t, QueuePut
  <2>3. \A i \in 1..(n + 1) : i \in 1..n \/ i = n + 1
    BY <2>2
  <2> QED
    BY <2>1, <2>2, <2>3, <1>1, <1>3, <1>t
<1>4. CASE /\ SwapTable(a) /\ \A w \in Workers : RunKept(w)
           /\ [kind |-> "flush", arg |-> mem_table_] \in TaskSet
           /\ task_queue_' = Append(task_queue_, [kind |-> "flush", arg |-> mem_table_])
  <2>1. PICK n \in Nat :
           /\ DOMAIN task_queue_ = 1..n /\ DOMAIN task_queue_' = 1..(n + 1)
           /\ \A i \in 1..n : task_queue_'[i] = task_queue_[i]
           /\ task_queue_'[n + 1] = [kind |-> "flush", arg |-> mem_table_]
    BY <1>4, <1>t, QueuePut
  <2>2. \A i \in 1..(n + 1) : i \in 1..n \/ i = n + 1
    BY <2>1
  <2> QED
    BY <2>1, <2>2, <1>1, <1>4, <1>t
<1>5. CASE /\ a \in Workers /\ \A w \in Workers \ {a} : RunKept(w)
           /\ task_queue_ # <<>> /\ task_queue_' = Tail(task_queue_)
           /\ task'[a] = Head(task_queue_)
  <2>1. PICK n \in Nat \ {0} :
           /\ DOMAIN task_queue_ = 1..n /\ DOMAIN task_queue_' = 1..(n - 1)
           /\ \A i \in 1..(n - 1) : task_queue_'[i] = task_queue_[i + 1]
           /\ Head(task_queue_) = task_queue_[1]
    BY <1>5, <1>t, QueueTake
  <2>2. 1 \in 1..n /\ \A i \in 1..(n - 1) : i + 1 \in 1..n
    BY <2>1
  <2> QED
    BY <2>1, <2>2, <1>1, <1>5, <1>t
<1>6. CASE /\ a \in Workers /\ UNCHANGED task_queue_
           /\ \A w \in Workers \ {a} : RunKept(w)
           /\ task'[a] = NoTask
  BY <1>1, <1>6, <1>t DEF NoTask
<1> QED
  BY <1>2, <1>3, <1>4, <1>5, <1>6, QueueSteps

(* Every step keeps what the program counters say of locks and tables.     *)
LEMMA ProgramsStep ==
    ASSUME Inv, NEW a \in Actors, Step(a)
    PROVE  Programs'
<1>1. Typed /\ Programs /\ Frame(a)
  BY TypedStep DEF Inv
<1>2. ProgramOf(a)'
  BY OwnProgram, LockProgram, PoolProgram, SharedProgram, CallProgram DEF Step
<1>3. ASSUME NEW b \in Actors, b # a PROVE ProgramOf(b)'
  <2>1. CASE mem_table_' = mem_table_
    BY <2>1, <1>1, <1>3, OthersProgram
  <2>2. CASE mem_table_' # mem_table_
    <3>1. SwapTable(a)
      <4>1. UNCHANGED tables \/ TableUser(a) \/ SwapTable(a)
        BY DEF Step, OwnStep, LoadTable, CheckUsage, Recheck, EnterTable, DeleteLoad,
               GetLoad, GetFromTable, GetFromFiles, StartInsertTask, StartFlushTask,
               LockUser, AskWriteLock, ReleaseWriteLock, AskReadLock, ResumeLock,
               WriteReturn, PoolUser, ConcurrentInsertNotify, SwapNotify, PoolStep,
               FinishTask, SharedStep, GetFuture, WriteFile, CallStep, CallInsert,
               CallDelete, CallConcurrentInsert, CallGet, Call, storevars
      <4>2. TableUser(a) => mem_table_' = mem_table_
        BY <1>1, TableChanges DEF TableUser, Changes
      <4> QED
        BY <2>2, <4>1, <4>2 DEF mem_table_
    <3>2. phase[a] = "writing"
      BY <3>1, <1>1 DEF SwapTable, At, Programs, LockAt, WriteSection, InTable
    <3>3. phase[b] # "reading"
      <4>1. RWP!MutualExclusion
        BY <1>1, LockAssumptions, RWP!InvExcludes DEF Typed, RWP!ThreadsAssumption,
           RWP!OptionAssumption, RWP!SpuriousAssumption
      <4> QED
        BY <3>2, <4>1, <1>3 DEF RWP!MutualExclusion
    <3> QED
      BY <3>3, <1>1, <1>3, OthersProgram
  <2> QED
    BY <2>1, <2>2
<1> QED
  BY <1>2, <1>3, TasksStep DEF Programs, ProgramOf

-----------------------------------------------------------------------------
(* Which steps change a table, and how a thread gets to the places that    *)
(* the other invariants speak of.                                          *)
LEMMA TableSteps ==
    ASSUME NEW a \in Actors, Step(a)
    PROVE  UNCHANGED tables \/ TableUser(a) \/ SwapTable(a)
BY DEF Step, OwnStep, LoadTable, CheckUsage, Recheck, EnterTable, DeleteLoad,
       GetLoad, GetFromTable, GetFromFiles, StartInsertTask, StartFlushTask,
       LockUser, AskWriteLock, ReleaseWriteLock, AskReadLock, ResumeLock,
       WriteReturn, PoolUser, ConcurrentInsertNotify, SwapNotify, PoolStep,
       FinishTask, SharedStep, GetFuture, WriteFile, CallStep, CallInsert,
       CallDelete, CallConcurrentInsert, CallGet, Call, storevars

Stays(a) == pc'[a] = pc[a] /\ local'[a] = local[a]

(* By which step a thread gets to each of the places that matter.          *)
LEMMA Arrivals ==
    ASSUME Typed, NEW a \in Actors, Step(a)
    PROVE  \/ Stays(a)
           \/ /\ pc'[a] = "tab_put" => TableDrawId(a)
              /\ pc'[a] = "ins_swap" => Recheck(a) \/ GetFuture(a)
              /\ pc'[a] = "ins_get" => Recheck(a)
              /\ pc'[a] = "fl_write" => a \in Workers /\ StartFlushTask(a)
              /\ pc'[a] = "fl_free" => a \in Workers /\ WriteFile(a)
              /\ pc'[a] = "fl_version" => a \in Workers /\ DeleteImmutable(a)
              /\ pc'[a] = "get_table" => GetLoad(a)
              /\ pc'[a] = "get_files" => GetFromTable(a)
              /\ pc'[a] = "idle" => \/ a \in Clients
                                    \/ a \in Workers /\ FinishTask(a)
<1>t. pc \in [Actors -> Locations]
  BY DEF Typed
<1> USE DEF Goto, Return, Actors
<1>1. CASE OwnStep(a)
  BY <1>1, <1>t DEF OwnStep, LoadTable, CheckUsage, Recheck, EnterTable, DeleteLoad,
       GetLoad, GetFromTable, GetFromFiles, StartInsertTask, StartFlushTask
<1>2. CASE LockUser(a)
  BY <1>2, <1>t DEF LockUser, AskWriteLock, ReleaseWriteLock, AskReadLock, ResumeLock,
       WriteReturn, Stays
<1>3. CASE PoolUser(a)
  BY <1>3, <1>t DEF PoolUser, ConcurrentInsertNotify, SwapNotify, PoolStep, FinishTask, Stays
<1>4. CASE TableUser(a)
  BY <1>4, <1>t DEF TableUser, TableAllocate, TableDrawId, TablePut, CompactFails,
       DeleteImmutable, AppendVersion
<1>5. CASE SwapTable(a) \/ GetFuture(a) \/ (a \in Workers /\ WriteFile(a))
  BY <1>5, <1>t DEF SwapTable, GetFuture, WriteFile
<1>6. CASE a \in Clients /\ CallStep(a)
  BY <1>6, <1>t DEF CallStep, CallInsert, CallDelete, CallConcurrentInsert, CallGet, Call
<1> QED
  BY <1>1, <1>2, <1>3, <1>4, <1>5, <1>6 DEF Step, SharedStep

(* What was inserted into a table, before and after.                       *)
LEMMA InsertedGrows ==
    ASSUME EntriesKnown, CallsGrow, NEW t \in DOMAIN tables, NEW E,
           tables'[t].entries = tables[t].entries \union E
    PROVE  Inserted(t)' = Inserted(t) \union {e \in E : Locked(e.op)'}
BY DEF EntriesKnown, CallsGrow, Inserted, Locked

(* A table whose entries stay has the same insertions.                     *)
LEMMA InsertedSame ==
    ASSUME EntriesKnown, CallsGrow, NEW t \in DOMAIN tables,
           tables'[t].entries = tables[t].entries
    PROVE  Inserted(t)' = Inserted(t)
BY DEF EntriesKnown, CallsGrow, Inserted, Locked

(* Nobody draws an id or links an entry.                                   *)
SameIds ==
    /\ DOMAIN tables' = DOMAIN tables /\ mem_table_' = mem_table_
    /\ \A t \in DOMAIN tables : /\ tables'[t].entries = tables[t].entries
                                /\ tables'[t].next_id = tables[t].next_id

(* Steps that neither draw an id nor add an entry.                         *)
LEMMA IdsQuiet ==
    ASSUME Inv, NEW a \in Actors, Step(a), SameIds, ~ TableDrawId(a)
    PROVE  Ids'
<1>1. Frame(a) /\ Typed /\ EntriesKnown /\ IdsGrow /\ PendingIds
  BY TypedStep DEF Inv, Ids
<1>2. CallsGrow /\ \A b \in Actors \ {a} : pc'[b] = pc[b] /\ local'[b] = local[b]
  BY <1>1 DEF Frame, Others
<1>3. \A t \in DOMAIN tables : Inserted(t)' = Inserted(t)
  BY <1>1, <1>2, InsertedSame DEF SameIds
<1>4. \A b \in Actors : Pending(b)' => Pending(b) /\ local'[b] = local[b]
  <2> SUFFICES ASSUME NEW b \in Actors, Pending(b)'
               PROVE  Pending(b) /\ local'[b] = local[b]
    OBVIOUS
  <2>1. Stays(b)
    BY <1>1, <1>2, Arrivals DEF Stays, Pending
  <2>2. pc[b] = "tab_put" /\ local[b].op \in DOMAIN calls
    BY <2>1 DEF Stays, Pending, Inv, Programs, CallAt, InTable
  <2> QED
    BY <2>1, <2>2, <1>2 DEF Stays, Pending, CallsGrow, Locked
<1>5. EntriesKnown'
  BY <1>1, <1>2 DEF SameIds, EntriesKnown, CallsGrow
<1>6. IdsGrow'
  BY <1>1, <1>3 DEF SameIds, IdsGrow
<1>7. PendingIds'
  <2>1. tables'[mem_table_'].next_id = tables[mem_table_].next_id
    BY <1>1, TypeFacts DEF SameIds
  <2> QED
    BY <2>1, <1>1, <1>3, <1>4 DEF SameIds, PendingIds
<1> QED
  BY <1>5, <1>6, <1>7 DEF Ids

(* Somebody draws an id.                                                   *)
LEMMA IdsDraw ==
    ASSUME Inv, NEW a \in Actors, Step(a), TableDrawId(a)
    PROVE  Ids'
<1>1. Frame(a) /\ Typed /\ Programs /\ EntriesKnown /\ IdsGrow /\ PendingIds
  BY TypedStep DEF Inv, Ids
<1>2. CallsGrow /\ \A b \in Actors \ {a} : pc'[b] = pc[b] /\ local'[b] = local[b]
  BY <1>1 DEF Frame, Others
<1> DEFINE x == local[a].tbl
           k == tables[x].next_id
           m == mem_table_
<1>3. Changes(x, [Table(a) EXCEPT !.next_id = @ + 1])
  BY <1>1, TableChanges
<1>4. x \in DOMAIN tables /\ DOMAIN tables' = DOMAIN tables /\ mem_table_' = m
  BY <1>3 DEF Changes
<1>5. /\ \A t \in DOMAIN tables : tables[t] \in TableType
      /\ m \in DOMAIN tables
      /\ DOMAIN tables \subseteq Nat
  BY <1>1, TypeFacts
<1>6. \A t \in DOMAIN tables :
         /\ tables'[t].entries = tables[t].entries
         /\ tables'[t].next_id = IF t = x THEN k + 1 ELSE tables[t].next_id
         /\ tables[t].next_id \in Nat
  BY <1>3, <1>4, <1>5 DEF Changes, TableType, Table
<1>7. \A t \in DOMAIN tables : Inserted(t)' = Inserted(t)
  BY <1>1, <1>2, <1>6, InsertedSame
<1>8. \A t \in DOMAIN tables : \A d \in Inserted(t) : d.id \in Nat
  BY <1>5 DEF TableType, Inserted, Entry
<1>9. \A b \in Actors : local[b].id \in Nat
  BY <1>1 DEF Typed, LocalType
<1>10. /\ pc[a] = "tab_id" /\ pc'[a] = "tab_put" /\ local'[a].id = k
       /\ local'[a].op = local[a].op /\ UNCHANGED calls
  BY <1>1 DEF TableDrawId, At, Goto, Table, callvars, Typed, LocalType
<1>11. \A b \in Actors : Pending(b)' => \/ b = a /\ Locked(local[a].op) /\ x = m
                                        \/ b # a /\ Pending(b) /\ local'[b] = local[b]
  BY <1>1, <1>2, <1>10 DEF Pending, Locked, Programs, TableAt
<1>12. EntriesKnown'
  BY <1>1, <1>2, <1>4, <1>6 DEF EntriesKnown, CallsGrow
<1>13. IdsGrow'
  <2> HIDE DEF x, k, m
  <2>1. ASSUME NEW t \in DOMAIN tables, NEW u \in DOMAIN tables, t <= u, NEW d \in Inserted(t)
        PROVE  d.id < tables'[u].next_id
    <3>1. d.id < tables[u].next_id
      BY <2>1, <1>1 DEF IdsGrow
    <3>2. tables'[u].next_id = tables[u].next_id \/ tables'[u].next_id = tables[u].next_id + 1
      BY <1>6, <2>1 DEF k
    <3> QED
      BY <3>1, <3>2, <1>6, <1>8
  <2> QED
    BY <2>1, <1>1, <1>4, <1>7 DEF IdsGrow
<1>14. PendingIds'
  <2> HIDE DEF x, k, m
  <2>1. \A t \in DOMAIN tables : \A d \in Inserted(t) : t <= x => d.id < k
    BY <1>1, <1>4 DEF IdsGrow, k
  <2>2. \A b \in Actors : Pending(b) => local[b].id < tables[m].next_id
    BY <1>1 DEF PendingIds, m
  <2>3. \A t \in DOMAIN tables : t <= m
    BY <1>1, TypeFacts DEF m
  <2>4. ASSUME NEW b \in Actors, Pending(b)'
        PROVE  /\ local'[b].id < tables'[m].next_id
               /\ \A t \in DOMAIN tables : \A d \in Inserted(t) :
                     IF t < m THEN d.id < local'[b].id ELSE d.id # local'[b].id
    <3>1. CASE b = a /\ x = m
      <4>1. local'[b].id = k /\ k \in Nat /\ tables'[m].next_id = k + 1
        BY <3>1, <1>4, <1>6, <1>10 DEF k
      <4>2. \A t \in DOMAIN tables : \A d \in Inserted(t) : d.id < k
        BY <2>1, <2>3, <3>1
      <4> QED
        BY <4>1, <4>2, <1>8
    <3>2. CASE b # a /\ Pending(b) /\ local'[b] = local[b]
      <4>1. local[b].id < tables'[m].next_id
        BY <2>2, <3>2, <1>5, <1>6, <1>9 DEF k
      <4> QED
        BY <4>1, <3>2, <1>1 DEF PendingIds, m
    <3> QED
      BY <2>4, <3>1, <3>2, <1>11
  <2>5. ASSUME NEW b \in Actors, NEW c \in Actors, Pending(b)', Pending(c)', b # c
        PROVE  local'[b].id # local'[c].id
    <3>1. ASSUME NEW e \in Actors, e # a, Pending(e)', x = m
          PROVE  local'[e].id < k
      BY <3>1, <2>2, <1>11 DEF k
    <3>2. k \in Nat
      BY <1>4, <1>6 DEF k
    <3>3. CASE b = a
      BY <3>1, <3>2, <3>3, <2>5, <1>9, <1>10, <1>11
    <3>4. CASE c = a
      BY <3>1, <3>2, <3>4, <2>5, <1>9, <1>10, <1>11
    <3>5. CASE b # a /\ c # a
      BY <3>5, <2>5, <1>1, <1>11 DEF PendingIds
    <3> QED
      BY <3>3, <3>4, <3>5
  <2> QED
    BY <2>4, <2>5, <1>4, <1>7 DEF PendingIds, m
<1> QED
  BY <1>12, <1>13, <1>14 DEF Ids

(* An entry is linked.                                                     *)
PutEffect(a, p) ==
    /\ p.op = local[a].op /\ p.id = local[a].id
    /\ local[a].tbl \in DOMAIN tables
    /\ DOMAIN tables' = DOMAIN tables /\ mem_table_' = mem_table_
    /\ \A t \in DOMAIN tables :
          /\ tables'[t].next_id = tables[t].next_id
          /\ tables'[t].entries = IF t = local[a].tbl THEN tables[t].entries \union {p}
                                  ELSE tables[t].entries
          /\ Inserted(t)' = IF t = local[a].tbl /\ Locked(local[a].op)
                            THEN Inserted(t) \union {p} ELSE Inserted(t)

(* The entry that TCTable::Insert or Delete adds.                          *)
LEMMA PutChanges ==
    ASSUME Inv, NEW a \in Actors, Step(a), TablePut(a)
    PROVE  \E p : PutEffect(a, p)
<1>1. Frame(a) /\ Typed /\ Programs /\ EntriesKnown /\ CallsGrow
  BY TypedStep DEF Inv, Ids, Frame
<1> DEFINE x == local[a].tbl
<1>2. PICK p : p = Put(a) /\ p.op = local[a].op /\ p.id = local[a].id
  <2>1. Put(a).op = local[a].op /\ Put(a).id = local[a].id
    BY DEF Put
  <2> QED
    BY <2>1
<1>3. Changes(x, [Table(a) EXCEPT !.entries = @ \union {p}])
  BY <1>1, <1>2, TableChanges
<1>4. x \in DOMAIN tables /\ DOMAIN tables' = DOMAIN tables /\ mem_table_' = mem_table_
  BY <1>3 DEF Changes
<1>5. \A t \in DOMAIN tables :
         /\ tables'[t].entries = IF t = x THEN tables[t].entries \union {p}
                                 ELSE tables[t].entries
         /\ tables'[t].next_id = tables[t].next_id
  <2>1. PICK r : /\ Changes(x, r) /\ r.entries = Table(a).entries \union {p}
                 /\ r.next_id = Table(a).next_id
    <3>1. Table(a) \in TableType
      BY <1>1, <1>4, TypeFacts DEF Table
    <3> DEFINE r == [Table(a) EXCEPT !.entries = @ \union {p}]
    <3>2. r.entries = Table(a).entries \union {p} /\ r.next_id = Table(a).next_id
      BY <3>1 DEF TableType
    <3>3. Changes(x, r)
      BY <1>3
    <3> QED
      BY <3>2, <3>3
  <2> QED
    BY <2>1 DEF Changes, Table
<1>6. UNCHANGED calls
  BY DEF TablePut, callvars
<1>7. ASSUME NEW t \in DOMAIN tables
      PROVE  Inserted(t)' = IF t = x /\ Locked(local[a].op) THEN Inserted(t) \union {p}
                            ELSE Inserted(t)
  <2>1. CASE t # x
    BY <2>1, <1>1, <1>5, InsertedSame
  <2>2. CASE t = x
    <3>1. Inserted(t)' = Inserted(t) \union {e \in {p} : Locked(e.op)'}
      BY <2>2, <1>1, <1>5, InsertedGrows
    <3>2. (calls'[p.op] # "delete") <=> Locked(local[a].op)
      BY <1>2, <1>6 DEF Locked
    <3> QED
      BY <2>2, <3>1, <3>2 DEF Locked
  <2> QED
    BY <2>1, <2>2
<1> QED
  BY <1>2, <1>4, <1>5, <1>7, SMTT(30) DEF PutEffect

(* The step that adds an entry under the id drawn before.                  *)
LEMMA IdsPut ==
    ASSUME Inv, NEW a \in Actors, Step(a), TablePut(a)
    PROVE  Ids'
<1>1. Frame(a) /\ Typed /\ Programs /\ EntriesKnown /\ IdsGrow /\ PendingIds
  BY TypedStep DEF Inv, Ids
<1>2. CallsGrow /\ \A b \in Actors \ {a} : pc'[b] = pc[b] /\ local'[b] = local[b]
  BY <1>1 DEF Frame, Others
<1> DEFINE x == local[a].tbl
           m == mem_table_
<1>3. PICK p : PutEffect(a, p)
  BY PutChanges
<1>p. p.op = local[a].op /\ p.id = local[a].id
  BY <1>3 DEF PutEffect
<1>4. x \in DOMAIN tables /\ DOMAIN tables' = DOMAIN tables /\ mem_table_' = m
  BY <1>3 DEF PutEffect
<1>5. /\ m \in DOMAIN tables
      /\ \A t \in DOMAIN tables : t <= m /\ t \in Nat
  BY <1>1, TypeFacts
<1>6. \A t \in DOMAIN tables :
         /\ tables'[t].entries = IF t = x THEN tables[t].entries \union {p}
                                 ELSE tables[t].entries
         /\ tables'[t].next_id = tables[t].next_id
  BY <1>3 DEF PutEffect
<1>7. /\ pc[a] = "tab_put" /\ pc'[a] = "tab_done" /\ local' = local
      /\ UNCHANGED calls /\ local[a].op \in DOMAIN calls
  BY <1>1 DEF TablePut, At, Goto, callvars, Typed, Programs, CallAt, InTable
<1>8. \A t \in DOMAIN tables :
         Inserted(t)' = IF t = x /\ Locked(local[a].op) THEN Inserted(t) \union {p}
                        ELSE Inserted(t)
  BY <1>3 DEF PutEffect
<1>9. \A b \in Actors : Pending(b)' => b # a /\ Pending(b)
  BY <1>2, <1>7 DEF Pending, Locked
<1>10. Locked(local[a].op) => x = m /\ Pending(a)
  BY <1>1, <1>7 DEF Programs, TableAt, Pending
<1>11. EntriesKnown'
  <2>1. ASSUME NEW t \in DOMAIN tables, NEW e \in tables'[t].entries
        PROVE  e.op \in DOMAIN calls
    <3>1. e \in tables[t].entries \/ e = p
      BY <2>1, <1>6
    <3> QED
      BY <3>1, <1>1, <1>7, <1>p DEF EntriesKnown
  <2> QED
    BY <2>1, <1>4, <1>7 DEF EntriesKnown
<1> HIDE DEF x, m
<1>12. CASE ~ Locked(local[a].op)
  <2>1. \A t \in DOMAIN tables : Inserted(t)' = Inserted(t)
    BY <1>8, <1>12
  <2>2. \A t \in DOMAIN tables : tables'[t].next_id = tables[t].next_id
    BY <1>6
  <2>3. IdsGrow'
    BY <2>1, <2>2, <1>1, <1>4 DEF IdsGrow
  <2>4. tables'[mem_table_'].next_id = tables[mem_table_].next_id
    BY <2>2, <1>4, <1>5 DEF m
  <2>5. PendingIds'
    BY <2>1, <2>4, <1>1, <1>4, <1>7, <1>9 DEF PendingIds, m
  <2> QED
    BY <2>3, <2>5, <1>11 DEF Ids
<1>13. CASE Locked(local[a].op)
  <2>0. x = m /\ Pending(a)
    BY <1>10, <1>13
  <2>1. \A t \in DOMAIN tables :
           Inserted(t)' = IF t = m THEN Inserted(t) \union {p} ELSE Inserted(t)
    BY <2>0, <1>8, <1>13
  <2>2. /\ p.id < tables[m].next_id
        /\ \A t \in DOMAIN tables : \A d \in Inserted(t) :
              IF t < m THEN d.id < p.id ELSE d.id # p.id
    BY <2>0, <1>1, <1>p DEF PendingIds, m
  <2>3. ASSUME NEW t \in DOMAIN tables, NEW u \in DOMAIN tables, t <= u, NEW d \in Inserted(t)'
        PROVE  d.id < tables'[u].next_id
    <3>1. CASE d \in Inserted(t)
      BY <3>1, <2>3, <1>1, <1>6 DEF IdsGrow
    <3>2. CASE d = p /\ t = m
      <4>1. u = m
        BY <3>2, <2>3, <1>5
      <4> QED
        BY <4>1, <3>2, <2>2, <2>3, <1>6
    <3> QED
      BY <2>1, <2>3, <3>1, <3>2
  <2>4. ASSUME NEW t \in DOMAIN tables, NEW u \in DOMAIN tables, t < u,
               NEW d \in Inserted(t)', NEW e \in Inserted(u)'
        PROVE  d.id < e.id
    <3>1. t # m /\ d \in Inserted(t)
      BY <2>1, <2>4, <1>5
    <3>2. CASE e \in Inserted(u)
      BY <3>1, <3>2, <2>4, <1>1 DEF IdsGrow
    <3>3. CASE e = p /\ u = m
      BY <3>1, <3>3, <2>2, <2>4
    <3> QED
      BY <2>1, <2>4, <3>2, <3>3
  <2>5. ASSUME NEW t \in DOMAIN tables, NEW d \in Inserted(t)', NEW e \in Inserted(t)',
               d.id = e.id
        PROVE  d = e
    <3>1. CASE t # m
      BY <3>1, <2>1, <2>5, <1>1 DEF IdsGrow
    <3>2. CASE t = m
      <4>1. \A c \in Inserted(m) : c.id # p.id
        BY <2>2, <1>5
      <4>2. \A c, f \in Inserted(m) : c.id = f.id => c = f
        BY <1>1, <1>5 DEF IdsGrow
      <4> QED
        BY <4>1, <4>2, <3>2, <2>1, <2>5
    <3> QED
      BY <3>1, <3>2
  <2>6. IdsGrow'
    BY <2>3, <2>4, <2>5, <1>4 DEF IdsGrow
  <2>7. ASSUME NEW b \in Actors, Pending(b)'
        PROVE  /\ local'[b].id < tables'[m].next_id
               /\ \A t \in DOMAIN tables : \A d \in Inserted(t)' :
                     IF t < m THEN d.id < local'[b].id ELSE d.id # local'[b].id
    <3>1. b # a /\ Pending(b) /\ local' = local
      BY <2>7, <1>7, <1>9
    <3>2. /\ local[b].id < tables[m].next_id
          /\ \A t \in DOMAIN tables : \A d \in Inserted(t) :
                IF t < m THEN d.id < local[b].id ELSE d.id # local[b].id
      BY <3>1, <1>1 DEF PendingIds, m
    <3>3. p.id # local[b].id
      BY <3>1, <2>0, <1>1, <1>p DEF PendingIds
    <3>4. tables'[m].next_id = tables[m].next_id
      BY <1>5, <1>6
    <3>5. ~ (m < m)
      BY <1>5
    <3>6. ASSUME NEW t \in DOMAIN tables, NEW d \in Inserted(t)'
          PROVE  IF t < m THEN d.id < local[b].id ELSE d.id # local[b].id
      <4>1. CASE d \in Inserted(t)
        BY <4>1, <3>2
      <4>2. CASE t = m /\ d = p
        BY <4>2, <3>3, <3>5
      <4> QED
        BY <4>1, <4>2, <3>6, <2>1
    <3> QED
      BY <3>1, <3>2, <3>4, <3>6
  <2>8. PendingIds'
    <3>1. \A b, c \in Actors : Pending(b)' /\ Pending(c)' /\ b # c => local'[b].id # local'[c].id
      BY <1>1, <1>7, <1>9 DEF PendingIds
    <3> QED
      BY <3>1, <2>7, <1>4 DEF PendingIds
  <2> QED
    BY <2>6, <2>8, <1>11 DEF Ids
<1> QED
  BY <1>12, <1>13

(* A table is swapped: nobody has drawn an id and not linked its entry.    *)
LEMMA IdsSwap ==
    ASSUME Inv, NEW a \in Actors, Step(a), SwapTable(a)
    PROVE  Ids'
<1>1. Frame(a) /\ Typed /\ Programs /\ EntriesKnown /\ IdsGrow /\ PendingIds
  BY TypedStep DEF Inv, Ids
<1>2. CallsGrow /\ \A b \in Actors \ {a} : pc'[b] = pc[b] /\ local'[b] = local[b]
  BY <1>1 DEF Frame, Others
<1>3. PICK m \in Nat \ {0} :
         /\ m = mem_table_ /\ mem_table_' = m + 1
         /\ DOMAIN tables = 1..m /\ DOMAIN tables' = 1..(m + 1)
         /\ \A t \in 1..m : tables'[t] = tables[t]
         /\ tables'[m + 1] = NewTable(tables[m].next_id)
  BY <1>1, SwapChanges, TypeFacts
<1>4. \A t \in 1..m : Inserted(t)' = Inserted(t)
  BY <1>1, <1>2, <1>3, InsertedSame
<1>5. /\ Inserted(m + 1)' = {} /\ tables'[m + 1].next_id = tables[m].next_id
      /\ tables'[m + 1].entries = {}
  BY <1>3 DEF Inserted, NewTable
<1>6. \A t \in 1..(m + 1) : t \in 1..m \/ t = m + 1
  BY <1>3
<1>7. \A b \in Actors : ~ Pending(b)'
  <2> SUFFICES ASSUME NEW b \in Actors, Pending(b)' PROVE FALSE
    OBVIOUS
  <2>1. phase[a] = "writing" /\ pc'[a] = "ins_notify"
    BY <1>1 DEF SwapTable, At, Goto, Typed, Programs, LockAt, WriteSection, InTable
  <2>2. b # a /\ Pending(b)
    <3>1. b # a
      BY <2>1 DEF Pending
    <3> QED
      BY <3>1, <1>2 DEF Pending, Locked, SwapTable, callvars
  <2>3. phase[b] = "reading"
    BY <2>2, <1>1 DEF Pending, Programs, LockAt, WriteSection, InTable
  <2>4. RWP!MutualExclusion
    BY <1>1, LockAssumptions, RWP!InvExcludes DEF Typed, RWP!ThreadsAssumption,
       RWP!OptionAssumption, RWP!SpuriousAssumption
  <2> QED
    BY <2>1, <2>2, <2>3, <2>4 DEF RWP!MutualExclusion
<1>8. EntriesKnown'
  BY <1>1, <1>2, <1>3, <1>5, <1>6 DEF EntriesKnown, CallsGrow
<1>9. IdsGrow'
  <2>1. ASSUME NEW t \in 1..(m + 1), NEW u \in 1..(m + 1), t <= u, NEW d \in Inserted(t)'
        PROVE  d.id < tables'[u].next_id
    <3>1. t \in 1..m /\ d \in Inserted(t)
      BY <2>1, <1>4, <1>5, <1>6
    <3>2. t <= m /\ m \in 1..m
      BY <3>1, <1>3
    <3>3. CASE u \in 1..m
      BY <3>1, <3>3, <2>1, <1>1, <1>3 DEF IdsGrow
    <3>4. CASE u = m + 1
      BY <3>1, <3>2, <3>4, <1>1, <1>3, <1>5 DEF IdsGrow
    <3> QED
      BY <3>3, <3>4, <1>6
  <2>2. ASSUME NEW t \in 1..(m + 1), NEW u \in 1..(m + 1), t < u,
               NEW d \in Inserted(t)', NEW e \in Inserted(u)'
        PROVE  d.id < e.id
    <3>1. t \in 1..m /\ u \in 1..m /\ d \in Inserted(t) /\ e \in Inserted(u)
      BY <2>2, <1>4, <1>5, <1>6
    <3> QED
      BY <3>1, <2>2, <1>1, <1>3 DEF IdsGrow
  <2>3. ASSUME NEW t \in 1..(m + 1), NEW d \in Inserted(t)', NEW e \in Inserted(t)',
               d.id = e.id
        PROVE  d = e
    <3>1. t \in 1..m /\ d \in Inserted(t) /\ e \in Inserted(t)
      BY <2>3, <1>4, <1>5, <1>6
    <3> QED
      BY <3>1, <2>3, <1>1, <1>3 DEF IdsGrow
  <2> QED
    BY <2>1, <2>2, <2>3, <1>3 DEF IdsGrow
<1>10. PendingIds'
  BY <1>7 DEF PendingIds
<1> QED
  BY <1>8, <1>9, <1>10 DEF Ids

(* Every step keeps the ids of insertions unique.                          *)
LEMMA IdsStep ==
    ASSUME Inv, NEW a \in Actors, Step(a)
    PROVE  Ids'
<1>t. Typed /\ Programs
  BY DEF Inv
<1>1. CASE SwapTable(a)
  BY <1>1, IdsSwap
<1>2. CASE TableDrawId(a)
  BY <1>2, IdsDraw
<1>3. CASE TablePut(a)
  BY <1>3, IdsPut
<1>4. CASE UNCHANGED tables /\ ~ TableDrawId(a)
  BY <1>4, IdsQuiet DEF SameIds, mem_table_
<1>5. CASE TableUser(a) /\ ~ TableDrawId(a) /\ ~ TablePut(a)
  <2>1. Table(a) \in TableType
    BY <1>5, <1>t, TypeFacts DEF TableUser, TableAllocate, CompactFails, DeleteImmutable,
          AppendVersion, At, Programs, TableAt, Table, InTable, Flushing
  <2>2. PICK r : /\ Changes(local[a].tbl, r)
                 /\ r.entries = Table(a).entries /\ r.next_id = Table(a).next_id
    <3>1. \A r \in {[Table(a) EXCEPT !.usage = @ + 1], [Table(a) EXCEPT !.flush = "error"],
                    [Table(a) EXCEPT !.flush = Result(a)], [Table(a) EXCEPT !.alive = FALSE]} :
             r.entries = Table(a).entries /\ r.next_id = Table(a).next_id
      BY <2>1 DEF TableType
    <3> QED
      BY <3>1, <1>5, <1>t, TableChanges DEF TableUser
  <2>3. SameIds
    BY <2>2 DEF Changes, SameIds, Table
  <2> QED
    BY <2>3, <1>5, IdsQuiet
<1> QED
  BY <1>1, <1>2, <1>3, <1>4, <1>5, TableSteps

-----------------------------------------------------------------------------
(* Who may be in the write section, who runs a task, and which table a     *)
(* flush is at work on.                                                    *)
LEMMA Excludes ==
    ASSUME Typed, NEW a \in Actors, NEW b \in Actors, phase[a] = "writing",
           phase[b] \in {"reading", "writing"}
    PROVE  a = b
<1>1. RWP!MutualExclusion
  BY LockAssumptions, RWP!InvExcludes DEF Typed, RWP!ThreadsAssumption,
     RWP!OptionAssumption, RWP!SpuriousAssumption
<1> QED
  BY <1>1 DEF RWP!MutualExclusion

(* A core thread that runs a task holds mtx_, so it is the only one.       *)
LEMMA OneRuns ==
    ASSUME Typed, NEW v \in Workers, NEW w \in Workers,
           wpc[v] = "run", PP!HoldsMutex(w)
    PROVE  v = w
BY DEF Typed, PP!PoolInv, PP!OneHolder, PP!HoldsMutex

(* While a core thread is in MVCCWriteLevel0 the table it flushes is the   *)
(* one before the active one, and no other flush runs or waits.            *)
LEMMA FlushFacts ==
    ASSUME Inv, NEW w \in Workers, pc[w] \in Flushing
    PROVE  /\ local[w].tbl = compact_future_ /\ local[w].tbl = mem_table_ - 1
           /\ local[w].tbl \in DOMAIN tables /\ local[w].tbl < mem_table_
           /\ Table(w) \in TableType /\ Table(w).flush = "none"
           /\ wpc[w] = "run" /\ AtWork(w)
           /\ \A v \in Workers : v # w => ~ AtWork(v) /\ pc[v] \notin Flushing
           /\ \A i \in DOMAIN task_queue_ : ~ Waiting(i)
<1>0. Typed /\ Programs /\ Future /\ OneFlush /\ w \in Actors /\ pc[w] # "idle"
  BY DEF Inv, Actors, Flushing
<1>1. wpc[w] = "run" /\ task[w] = [kind |-> "flush", arg |-> local[w].tbl]
  BY <1>0 DEF Programs, TaskAt
<1>2. AtWork(w) /\ task[w].arg = local[w].tbl
  BY <1>1 DEF AtWork
<1>3. OfFuture(local[w].tbl) /\ \A i \in DOMAIN task_queue_ : ~ Waiting(i)
  BY <1>0, <1>2 DEF OneFlush
<1>4. ASSUME NEW v \in Workers, v # w PROVE wpc[v] # "run"
  BY <1>0, <1>1, <1>4, OneRuns DEF PP!HoldsMutex
<1>5. ASSUME NEW v \in Workers, v # w PROVE ~ AtWork(v) /\ pc[v] \notin Flushing
  BY <1>0, <1>4, <1>5 DEF AtWork, Programs, TaskAt, Actors, Flushing
<1>6. /\ mem_table_ \in Nat /\ DOMAIN tables = 1..mem_table_
      /\ \A t \in DOMAIN tables : tables[t] \in TableType
  BY <1>0, TypeFacts
<1>7. local[w].tbl # 0
  BY <1>3, <1>6 DEF OfFuture
<1>8. local[w].tbl = mem_table_ - 1 /\ local[w].tbl < mem_table_
  BY <1>0, <1>3, <1>6, <1>7 DEF OfFuture, Future
<1> QED
  BY <1>1, <1>2, <1>3, <1>5, <1>6, <1>8 DEF OfFuture, Table

-----------------------------------------------------------------------------
(* Future.  The write lock that an error left behind stays.                *)
LEMMA LeakedStep ==
    ASSUME Inv, NEW a \in Actors, Step(a), Leaked
    PROVE  Leaked'
<1>0. Typed /\ Frame(a) /\ pc \in [Actors -> Locations]
  BY TypedStep DEF Inv, Typed
<1>1. PICK b \in Actors : /\ phase[b] = "writing"
                          /\ pc[b] \notin WriteSection \union {"ins_recheck"}
  BY DEF Leaked
<1>2. CASE b # a
  <2>1. phase'[b] = phase[b] /\ pc'[b] = pc[b]
    BY <1>0, <1>1, <1>2 DEF Frame, Others, PhaseKept
  <2> QED
    BY <2>1, <1>1 DEF Leaked
<1>3. CASE b = a
  <2> USE DEF Goto, Return, At, WriteSection, Actors
  <2>0. /\ RW!WriteLock(a) => phase[a] = "idle"
        /\ RW!ReadLock(a) => phase[a] = "idle"
        /\ RW!ReadUnlock(a) => phase[a] = "reading"
        /\ RW!Resume(a) => phase[a] \in {"r_woken", "w_woken"}
    BY <1>0, LockEffect
  <2>1. CASE OwnStep(a)
    <3>1. UNCHANGED phase /\ pc'[a] \notin WriteSection \union {"ins_recheck"}
      BY <1>0, <1>1, <1>3, <2>1 DEF OwnStep, LoadTable, CheckUsage, Recheck, EnterTable,
            DeleteLoad, GetLoad, GetFromTable, GetFromFiles, StartInsertTask,
            StartFlushTask, lockvars
    <3> QED
      BY <3>1, <1>1, <1>3 DEF Leaked
  <2>2. CASE LockUser(a)
    <3>1. WriteReturn(a) /\ UNCHANGED lockvars
      BY <1>1, <1>3, <2>0, <2>2 DEF LockUser, AskWriteLock, ReleaseWriteLock,
            AskReadLock, ResumeLock, WriteReturn
    <3>2. UNCHANGED phase /\ pc'[a] \notin WriteSection \union {"ins_recheck"}
      BY <1>0, <3>1 DEF WriteReturn, lockvars
    <3> QED
      BY <3>2, <1>1, <1>3 DEF Leaked
  <2>3. CASE PoolUser(a)
    <3>1. UNCHANGED phase /\ pc'[a] \notin WriteSection \union {"ins_recheck"}
      BY <1>0, <1>1, <1>3, <2>3 DEF PoolUser, ConcurrentInsertNotify, SwapNotify, PoolStep,
            FinishTask, lockvars
    <3> QED
      BY <3>1, <1>1, <1>3 DEF Leaked
  <2>4. CASE SharedStep(a)
    <3>1. UNCHANGED phase /\ pc'[a] \notin WriteSection \union {"ins_recheck"}
      BY <1>0, <1>1, <1>3, <2>4 DEF SharedStep, TableUser, TableAllocate, TableDrawId,
            TablePut, CompactFails, DeleteImmutable, AppendVersion, SwapTable, GetFuture,
            WriteFile, lockvars
    <3> QED
      BY <3>1, <1>1, <1>3 DEF Leaked
  <2>5. CASE CallStep(a)
    <3>1. UNCHANGED phase /\ pc'[a] \notin WriteSection \union {"ins_recheck"}
      BY <1>0, <1>1, <1>3, <2>5 DEF CallStep, CallInsert, CallDelete,
            CallConcurrentInsert, CallGet, Call, lockvars
    <3> QED
      BY <3>1, <1>1, <1>3 DEF Leaked
  <2> QED
    BY <2>1, <2>2, <2>3, <2>4, <2>5 DEF Step
<1> QED
  BY <1>2, <1>3

(* No table is added, freed or flushed.                                    *)
SameFlush ==
    /\ DOMAIN tables' = DOMAIN tables /\ mem_table_' = mem_table_
    /\ \A t \in DOMAIN tables : /\ tables'[t].flush = tables[t].flush
                                /\ tables'[t].alive = tables[t].alive

(* Steps that leave flushes and compact_future_ alone.                     *)
LEMMA FutureQuiet ==
    ASSUME Inv, NEW a \in Actors, Step(a), SameFlush, UNCHANGED compact_future_
    PROVE  Future'
<1>0. Typed /\ Frame(a) /\ Future /\ mem_table_ \in DOMAIN tables
  BY TypedStep, TypeFacts DEF Inv
<1>1. ASSUME NEW b \in Actors
      PROVE  /\ pc'[b] = "ins_swap" => compact_future_' = 0
             /\ pc'[b] = "ins_get" => compact_future_' # 0
  <2>1. CASE Stays(b)
    BY <2>1, <1>0 DEF Stays, Future
  <2>2. CASE ~ Stays(b)
    <3>1. b = a
      BY <2>2, <1>0 DEF Stays, Frame, Others
    <3>2. /\ pc'[a] = "ins_swap" => Recheck(a) \/ GetFuture(a)
          /\ pc'[a] = "ins_get" => Recheck(a)
      BY <2>2, <3>1, <1>0, Arrivals
    <3>3. Recheck(a) => /\ pc'[a] = "ins_swap" => compact_future_ = 0
                        /\ pc'[a] = "ins_get" => compact_future_ # 0
      BY <1>0 DEF Recheck, Goto, Typed
    <3>4. GetFuture(a) => compact_future_' = 0
      BY DEF GetFuture
    <3> QED
      BY <3>1, <3>2, <3>3, <3>4
  <2> QED
    BY <2>1, <2>2
<1>2. Leaked => Leaked'
  BY LeakedStep
<1> QED
  BY <1>0, <1>1, <1>2 DEF Future, SameFlush

(* compact_future_.get() leaves no flush behind.                           *)
LEMMA FutureGet ==
    ASSUME Inv, NEW a \in Actors, Step(a), GetFuture(a)
    PROVE  Future'
<1>0. Typed /\ Programs /\ Frame(a) /\ Future /\ mem_table_ \in DOMAIN tables
  BY TypedStep, TypeFacts DEF Inv
<1>1. /\ compact_future_' = 0 /\ UNCHANGED <<tables, phase>>
      /\ pc[a] = "ins_get" /\ tables[compact_future_].flush \in {"ok", "error"}
      /\ IF tables[compact_future_].flush = "ok" THEN pc'[a] = "ins_swap"
         ELSE pc'[a] \in {"idle", "task_done"}
  BY <1>0 DEF GetFuture, At, Goto, Return, lockvars, Typed
<1>2. phase[a] = "writing"
  BY <1>0, <1>1 DEF Programs, LockAt, WriteSection, InTable
<1>3. ASSUME NEW b \in Actors PROVE pc'[b] # "ins_get"
  <2>1. CASE b = a
    BY <2>1, <1>1
  <2>2. CASE b # a
    <3>1. pc'[b] = pc[b] /\ phase[b] # "writing"
      BY <2>2, <1>0, <1>2, Excludes DEF Frame, Others
    <3> QED
      BY <3>1, <1>0 DEF Programs, LockAt, WriteSection, InTable
  <2> QED
    BY <2>1, <2>2
<1>4. tables[compact_future_].flush = "error" => Leaked'
  BY <1>1, <1>2 DEF Leaked, WriteSection
<1>5. Leaked => Leaked'
  BY LeakedStep
<1>6. mem_table_' = mem_table_
  BY <1>1 DEF mem_table_
<1>7. compact_future_ # 0 /\ compact_future_ = mem_table_ - 1
  BY <1>0, <1>1 DEF Future
<1> QED
  BY <1>0, <1>1, <1>3, <1>4, <1>5, <1>6, <1>7 DEF Future

(* The swap makes the old table the one flush under way.                   *)
LEMMA FutureSwap ==
    ASSUME Inv, NEW a \in Actors, Step(a), SwapTable(a)
    PROVE  Future'
<1>0. Typed /\ Programs /\ Frame(a) /\ Future
  BY TypedStep DEF Inv
<1>1. PICK m \in Nat \ {0} :
         /\ m = mem_table_ /\ mem_table_' = m + 1
         /\ DOMAIN tables = 1..m /\ DOMAIN tables' = 1..(m + 1)
         /\ \A t \in 1..m : tables'[t] = tables[t]
         /\ tables'[m + 1] = NewTable(tables[m].next_id)
  BY <1>0, SwapChanges, TypeFacts
<1>2. /\ pc[a] = "ins_swap" /\ pc'[a] = "ins_notify" /\ compact_future_' = m
      /\ compact_future_ = 0 /\ phase[a] = "writing"
  BY <1>0, <1>1 DEF SwapTable, At, Goto, Typed, Future, Programs, LockAt, WriteSection,
                    InTable
<1>3. ~ Leaked
  BY <1>0, <1>2, Excludes DEF Leaked, WriteSection
<1>4. \A t \in 1..(m + 1) : t \in 1..m \/ t = m + 1
  BY <1>1
<1>5. \A t \in 1..m : t # m => t # 0 /\ tables[t].flush = "ok"
  BY <1>0, <1>1, <1>2, <1>3 DEF Future
<1>6. ASSUME NEW b \in Actors PROVE pc'[b] # "ins_swap"
  <2>1. CASE b = a
    BY <2>1, <1>2
  <2>2. CASE b # a
    <3>1. pc'[b] = pc[b] /\ phase[b] # "writing"
      BY <2>2, <1>0, <1>2, Excludes DEF Frame, Others
    <3> QED
      BY <3>1, <1>0 DEF Programs, LockAt, WriteSection, InTable
  <2> QED
    BY <2>1, <2>2
<1>7. tables'[m + 1].flush = "none" /\ tables'[m + 1].alive
  BY <1>1 DEF NewTable
<1>8. m = (m + 1) - 1 /\ m # 0
  BY <1>1
<1> QED
  BY <1>1, <1>2, <1>4, <1>5, <1>6, <1>7, <1>8 DEF Future

(* The steps of MVCCWriteLevel0 that settle a flush.                       *)
LEMMA FutureFlush ==
    ASSUME Inv, NEW a \in Workers, Step(a),
           CompactFails(a) \/ AppendVersion(a) \/ DeleteImmutable(a)
    PROVE  Future'
<1>0. Typed /\ Programs /\ Future /\ a \in Actors /\ mem_table_ \in DOMAIN tables
  BY TypeFacts DEF Inv, Actors
<1>1. Frame(a)
  BY <1>0, TypedStep
<1>2. pc[a] \in Flushing /\ UNCHANGED compact_future_
      /\ pc'[a] \in {"task_done", "fl_version"}
  BY <1>0 DEF CompactFails, AppendVersion, DeleteImmutable, At, Goto, Flushing, Typed
<1>3. PICK x : x = local[a].tbl /\ x = compact_future_ /\ x # mem_table_ /\ x \in DOMAIN tables
  BY <1>0, <1>2, FlushFacts, TypeFacts
<1>4. PICK r : Changes(x, r)
  BY <1>0, <1>3, TableChanges
<1>5. /\ DOMAIN tables' = DOMAIN tables /\ mem_table_' = mem_table_
      /\ \A t \in DOMAIN tables : t # x => tables'[t] = tables[t]
  BY <1>4 DEF Changes
<1>6. \A b \in Actors : /\ pc'[b] = "ins_swap" => compact_future_' = 0
                        /\ pc'[b] = "ins_get" => compact_future_' # 0
  BY <1>0, <1>1, <1>2 DEF Frame, Others, Future
<1>7. Leaked => Leaked'
  BY <1>0, LeakedStep
<1> QED
  BY <1>0, <1>2, <1>3, <1>5, <1>6, <1>7 DEF Future

(* Which steps change what Future and the invariants after it speak of.    *)
LEMMA FlushSteps ==
    ASSUME Inv, NEW a \in Actors, Step(a)
    PROVE  \/ SwapTable(a)
           \/ GetFuture(a)
           \/ a \in Workers /\ (CompactFails(a) \/ AppendVersion(a) \/ DeleteImmutable(a))
           \/ SameFlush /\ UNCHANGED <<compact_future_, level0>>
<1>t. Typed /\ Programs
  BY DEF Inv
<1>1. CASE UNCHANGED storevars
  BY <1>1 DEF storevars, SameFlush, mem_table_
<1>2. CASE TableAllocate(a) \/ TableDrawId(a) \/ TablePut(a)
  <2>1. Table(a) \in TableType
    BY <1>2, <1>t, TypeFacts DEF TableAllocate, TableDrawId, TablePut, At, Programs,
          TableAt, Table, InTable
  <2>2. PICK r : /\ Changes(local[a].tbl, r)
                 /\ r.flush = Table(a).flush /\ r.alive = Table(a).alive
    <3>1. \A r \in {[Table(a) EXCEPT !.usage = @ + 1], [Table(a) EXCEPT !.next_id = @ + 1],
                    [Table(a) EXCEPT !.entries = @ \union {Put(a)}]} :
             r.flush = Table(a).flush /\ r.alive = Table(a).alive
      BY <2>1 DEF TableType
    <3> QED
      BY <3>1, <1>2, <1>t, TableChanges
  <2>3. SameFlush
    BY <2>2 DEF Changes, SameFlush, Table
  <2> QED
    BY <2>3, <1>2 DEF TableAllocate, TableDrawId, TablePut
<1>3. CASE a \in Workers /\ WriteFile(a)
  BY <1>3 DEF WriteFile, SameFlush, mem_table_
<1>4. CASE OwnStep(a) \/ LockUser(a) \/ PoolUser(a) \/ CallStep(a)
  BY <1>1, <1>4 DEF OwnStep, LoadTable, CheckUsage, Recheck, EnterTable, DeleteLoad,
       GetLoad, GetFromTable, GetFromFiles, StartInsertTask, StartFlushTask,
       LockUser, AskWriteLock, ReleaseWriteLock, AskReadLock, ResumeLock,
       WriteReturn, PoolUser, ConcurrentInsertNotify, SwapNotify, PoolStep,
       FinishTask, CallStep, CallInsert, CallDelete, CallConcurrentInsert, CallGet, Call
<1> QED
  BY <1>2, <1>3, <1>4 DEF Step, SharedStep, TableUser

(* Every step keeps the relation of compact_future_ to the flush under     *)
(* way.                                                                    *)
LEMMA FutureStep ==
    ASSUME Inv, NEW a \in Actors, Step(a)
    PROVE  Future'
BY FlushSteps, FutureQuiet, FutureGet, FutureSwap, FutureFlush

-----------------------------------------------------------------------------
(* OneFlush.  No thread is at work on a flush that was not before.         *)
LEMMA WorkKept ==
    ASSUME Inv, NEW a \in Actors, Step(a), NEW w \in Workers, RunKept(w), AtWork(w)'
    PROVE  AtWork(w) /\ task'[w] = task[w]
<1>0. Typed /\ Frame(a) /\ w \in Actors /\ w \notin Clients
  BY TypedStep, WritePathAssumption DEF Inv, Actors
<1>1. wpc[w] = "run" /\ task[w].kind = "flush" /\ task'[w] = task[w] /\ wpc'[w] = "run"
  BY DEF RunKept, AtWork
<1>2. pc[w] \in Flushing \union {"idle"}
  <2>1. CASE Stays(w)
    BY <2>1 DEF Stays, AtWork
  <2>2. CASE ~ Stays(w)
    <3>1. w = a
      BY <2>2, <1>0 DEF Stays, Frame, Others
    <3>2. pc'[a] \in Flushing \union {"idle"}
      BY <3>1 DEF AtWork
    <3>3. ~ FinishTask(a)
      <4>1. FinishTask(a) => wpc'[a] # "run"
        BY <3>1, <1>0, PoolEffect DEF FinishTask
      <4> QED
        BY <4>1, <3>1, <1>1
    <3>4. \/ StartFlushTask(a) \/ WriteFile(a) \/ DeleteImmutable(a)
      BY <3>1, <3>2, <3>3, <2>2, <1>0, Arrivals DEF Flushing
    <3> QED
      BY <3>1, <3>4 DEF StartFlushTask, WriteFile, DeleteImmutable, At, Flushing
  <2> QED
    BY <2>1, <2>2
<1> QED
  BY <1>1, <1>2 DEF AtWork

(* The future of a flush that goes on stays the same.                      *)
LEMMA OfFutureKept ==
    ASSUME NEW t, OfFuture(t), SameFlush, UNCHANGED compact_future_
    PROVE  /\ t = compact_future_' /\ t \in DOMAIN tables' /\ tables'[t].flush = "none"
BY DEF OfFuture, SameFlush

(* Nothing is submitted or taken.                                          *)
LEMMA OneFlushQuiet ==
    ASSUME Inv, NEW a \in Actors, Step(a), UNCHANGED task_queue_,
           \A w \in Workers : RunKept(w), ~ SwapTable(a)
    PROVE  OneFlush'
<1>0. OneFlush /\ Typed /\ Programs /\ Future
  BY DEF Inv
<1>1. /\ \A w \in Workers : AtWork(w)' => AtWork(w) /\ task'[w] = task[w]
      /\ \A i \in DOMAIN task_queue_ : Waiting(i)' <=> Waiting(i)
  BY WorkKept DEF Waiting
<1>2. ASSUME \A t : OfFuture(t) => /\ t = compact_future_' /\ t \in DOMAIN tables'
                                   /\ tables'[t].flush = "none"
      PROVE  OneFlush'
  BY <1>0, <1>1, <1>2 DEF OneFlush, OfFuture
<1>3. ASSUME \A i \in DOMAIN task_queue_ : ~ Waiting(i), \A w \in Workers : ~ AtWork(w)'
      PROVE  OneFlush'
  BY <1>1, <1>3 DEF OneFlush
<1>4. CASE GetFuture(a)
  <2>1. \A t : ~ OfFuture(t)
    BY <1>4 DEF GetFuture, OfFuture
  <2> QED
    BY <2>1, <1>0, <1>1, <1>3 DEF OneFlush
<1>5. CASE a \in Workers /\ (CompactFails(a) \/ AppendVersion(a))
  <2>1. pc[a] \in Flushing /\ pc'[a] = "task_done"
    BY <1>5, <1>0 DEF CompactFails, AppendVersion, At, Goto, Flushing, Typed
  <2>2. ~ AtWork(a)'
    BY <2>1 DEF AtWork, Flushing
  <2>3. /\ \A v \in Workers : v # a => ~ AtWork(v)
        /\ \A i \in DOMAIN task_queue_ : ~ Waiting(i)
    BY <2>1, <1>5, FlushFacts
  <2> QED
    BY <2>2, <2>3, <1>1, <1>3
<1>6. CASE a \in Workers /\ DeleteImmutable(a)
  <2>1. Changes(local[a].tbl, [Table(a) EXCEPT !.alive = FALSE]) /\ UNCHANGED compact_future_
    BY <1>6, <1>0, TableChanges DEF DeleteImmutable
  <2>2. Table(a) \in TableType
    BY <1>6, FlushFacts DEF DeleteImmutable, At, Flushing
  <2>3. PICK r : Changes(local[a].tbl, r) /\ r.flush = Table(a).flush
    <3>1. [Table(a) EXCEPT !.alive = FALSE].flush = Table(a).flush
      BY <2>2 DEF TableType
    <3> QED
      BY <2>1, <3>1
  <2>4. DOMAIN tables' = DOMAIN tables /\ \A t \in DOMAIN tables : tables'[t].flush = tables[t].flush
    BY <2>3 DEF Changes, Table
  <2> QED
    BY <2>1, <2>4, <1>2 DEF OfFuture
<1>7. CASE SameFlush /\ UNCHANGED compact_future_
  BY <1>2, <1>7, OfFutureKept
<1> QED
  BY <1>4, <1>5, <1>6, <1>7, FlushSteps

(* A step that leaves the store alone leaves the future alone.             *)
LEMMA OneFlushCall ==
    ASSUME Inv, NEW a \in Actors, Step(a), CallConcurrentInsert(a),
           \A w \in Workers : RunKept(w), NEW n \in Nat,
           task_queue_' = Append(task_queue_, [kind |-> "insert", arg |-> n])
    PROVE  OneFlush'
<1>0. OneFlush /\ Typed /\ SameFlush /\ UNCHANGED compact_future_
  BY DEF Inv, CallConcurrentInsert, Call, storevars, SameFlush, mem_table_
<1>1. \A w \in Workers : AtWork(w)' => AtWork(w) /\ task'[w] = task[w]
  BY WorkKept
<1>2. [kind |-> "insert", arg |-> n] \in TaskSet
  BY DEF TaskSet
<1>3. PICK k \in Nat : /\ DOMAIN task_queue_ = 1..k /\ DOMAIN task_queue_' = 1..(k + 1)
                       /\ \A i \in 1..k : task_queue_'[i] = task_queue_[i]
                       /\ task_queue_'[k + 1] = [kind |-> "insert", arg |-> n]
  BY <1>0, <1>2, QueuePut
<1>4. \A i \in 1..(k + 1) : i \in 1..k \/ i = k + 1
  BY <1>3
<1>5. \A i \in 1..(k + 1) : Waiting(i)' =>
         i \in 1..k /\ Waiting(i) /\ task_queue_'[i] = task_queue_[i]
  BY <1>3, <1>4 DEF Waiting
<1>6. \A t : OfFuture(t) => /\ t = compact_future_' /\ t \in DOMAIN tables'
                            /\ tables'[t].flush = "none"
  BY <1>0, OfFutureKept
<1> QED
  BY <1>0, <1>1, <1>3, <1>5, <1>6 DEF OneFlush, OfFuture

(* The swap submits the only flush: the last one has been waited for.      *)
LEMMA OneFlushSwap ==
    ASSUME Inv, NEW a \in Actors, Step(a), SwapTable(a),
           \A w \in Workers : RunKept(w),
           task_queue_' = Append(task_queue_, [kind |-> "flush", arg |-> mem_table_])
    PROVE  OneFlush'
<1>0. OneFlush /\ Typed /\ Future
  BY DEF Inv
<1>1. PICK m \in Nat \ {0} :
         /\ m = mem_table_ /\ DOMAIN tables = 1..m /\ DOMAIN tables' = 1..(m + 1)
         /\ \A t \in 1..m : tables'[t] = tables[t]
  BY <1>0, SwapChanges, TypeFacts
<1>2. m \in 1..m /\ m \in 1..(m + 1) /\ 0 \notin 1..m
  BY <1>1
<1>3. compact_future_ = 0 /\ compact_future_' = m
  BY <1>0, <1>1 DEF SwapTable, At, Future
<1>4. \A t : ~ OfFuture(t)
  BY <1>1, <1>2, <1>3 DEF OfFuture
<1>5. /\ \A i \in DOMAIN task_queue_ : ~ Waiting(i)
      /\ \A w \in Workers : ~ AtWork(w)
  BY <1>0, <1>4 DEF OneFlush
<1>6. \A w \in Workers : ~ AtWork(w)'
  BY <1>5, WorkKept
<1>7. [kind |-> "flush", arg |-> m] \in TaskSet
  BY <1>1 DEF TaskSet
<1>8. PICK k \in Nat : /\ DOMAIN task_queue_ = 1..k /\ DOMAIN task_queue_' = 1..(k + 1)
                       /\ \A i \in 1..k : task_queue_'[i] = task_queue_[i]
                       /\ task_queue_'[k + 1] = [kind |-> "flush", arg |-> m]
  BY <1>0, <1>1, <1>7, QueuePut
<1>9. \A i \in 1..(k + 1) : i \in 1..k \/ i = k + 1
  BY <1>8
<1>10. \A i \in 1..(k + 1) : Waiting(i)' => i = k + 1
  BY <1>5, <1>8, <1>9 DEF Waiting
<1>11. tables'[m].flush = "none"
  BY <1>0, <1>1, <1>2 DEF Future
<1> QED
  BY <1>1, <1>2, <1>3, <1>6, <1>8, <1>10, <1>11 DEF OneFlush, OfFuture

(* A core thread takes a task.                                             *)
LEMMA OneFlushTake ==
    ASSUME Inv, NEW a \in Workers, Step(a), PoolStep(a),
           \A w \in Workers \ {a} : RunKept(w),
           task_queue_ # <<>>, task_queue_' = Tail(task_queue_),
           task'[a] = Head(task_queue_)
    PROVE  OneFlush'
<1>0. OneFlush /\ Typed /\ a \in Actors /\ SameFlush /\ UNCHANGED compact_future_
  BY DEF Inv, PoolStep, storevars, SameFlush, mem_table_, Actors
<1>1. PICK n \in Nat \ {0} :
         /\ DOMAIN task_queue_ = 1..n /\ DOMAIN task_queue_' = 1..(n - 1)
         /\ \A i \in 1..(n - 1) : task_queue_'[i] = task_queue_[i + 1]
         /\ Head(task_queue_) = task_queue_[1]
  BY <1>0, QueueTake
<1>2. 1 \in 1..n /\ \A i \in 1..(n - 1) : i + 1 \in 1..n /\ i + 1 # 1
  BY <1>1
<1>3. \A i, j \in 1..(n - 1) : i + 1 = j + 1 => i = j
  BY <1>1
<1>4. \A w \in Workers : w # a => (AtWork(w)' => AtWork(w) /\ task'[w] = task[w])
  BY <1>0, WorkKept
<1>5. AtWork(a)' => Waiting(1) /\ task'[a] = task_queue_[1]
  BY <1>1 DEF AtWork, Waiting
<1>6. \A i \in 1..(n - 1) : Waiting(i)' => Waiting(i + 1) /\ task_queue_'[i] = task_queue_[i + 1]
  BY <1>1 DEF Waiting
<1>7. \A t : OfFuture(t) => /\ t = compact_future_' /\ t \in DOMAIN tables'
                            /\ tables'[t].flush = "none"
  BY <1>0, OfFutureKept
<1>8. \A i \in DOMAIN task_queue_' : Waiting(i)' => OfFuture(task_queue_[i + 1].arg)
  BY <1>0, <1>1, <1>2, <1>6 DEF OneFlush
<1>9. \A w \in Workers : AtWork(w)' => OfFuture(task'[w].arg)
  BY <1>0, <1>1, <1>2, <1>4, <1>5 DEF OneFlush
<1>10. \A i, j \in DOMAIN task_queue_' : Waiting(i)' /\ Waiting(j)' => i = j
  BY <1>0, <1>1, <1>2, <1>3, <1>6 DEF OneFlush
<1>11. \A i \in DOMAIN task_queue_', w \in Workers : ~ (Waiting(i)' /\ AtWork(w)')
  BY <1>0, <1>1, <1>2, <1>4, <1>5, <1>6 DEF OneFlush
<1> QED
  BY <1>1, <1>6, <1>7, <1>8, <1>9, <1>10, <1>11 DEF OneFlush, OfFuture

(* Every step keeps at most one flush, queued or running.                  *)
LEMMA OneFlushStep ==
    ASSUME Inv, NEW a \in Actors, Step(a)
    PROVE  OneFlush'
<1>1. CASE UNCHANGED task_queue_ /\ \A w \in Workers : RunKept(w)
  <2>1. ~ SwapTable(a)
    <3> SUFFICES ASSUME SwapTable(a) PROVE FALSE
      OBVIOUS
    <3>1. [kind |-> "flush", arg |-> mem_table_] \in TaskSet
      BY TypeFacts DEF TaskSet, Inv
    <3>2. task_queue_' = Append(task_queue_, [kind |-> "flush", arg |-> mem_table_])
      BY DEF SwapTable, Pool!Enqueue
    <3>3. PICK k \in Nat : DOMAIN task_queue_ = 1..k /\ DOMAIN task_queue_' = 1..(k + 1)
      BY <3>1, <3>2, QueuePut DEF Inv
    <3>4. k + 1 \in 1..(k + 1) /\ k + 1 \notin 1..k
      BY <3>3
    <3> QED
      BY <3>3, <3>4, <1>1
  <2> QED
    BY <2>1, <1>1, OneFlushQuiet
<1>2. CASE /\ CallConcurrentInsert(a) /\ \A w \in Workers : RunKept(w)
           /\ [kind |-> "insert", arg |-> Len(calls')] \in TaskSet
           /\ task_queue_' = Append(task_queue_, [kind |-> "insert", arg |-> Len(calls')])
  <2>1. CallStep(a)
    BY <1>2 DEF CallStep
  <2>2. PICK n \in Nat : n = Len(calls')
    BY <2>1, CallTyped, TypeFacts DEF Inv
  <2> QED
    BY <2>2, <1>2, OneFlushCall
<1>3. CASE /\ SwapTable(a) /\ \A w \in Workers : RunKept(w)
           /\ task_queue_' = Append(task_queue_, [kind |-> "flush", arg |-> mem_table_])
  BY <1>3, OneFlushSwap
<1>4. CASE /\ a \in Workers /\ PoolStep(a) /\ \A w \in Workers \ {a} : RunKept(w)
           /\ task_queue_ # <<>> /\ task_queue_' = Tail(task_queue_)
           /\ task'[a] = Head(task_queue_)
  BY <1>4, OneFlushTake
<1>5. CASE /\ a \in Workers /\ FinishTask(a) /\ UNCHANGED task_queue_
           /\ \A w \in Workers \ {a} : RunKept(w)
           /\ wpc'[a] # "run"
  <2>0. OneFlush /\ Typed /\ SameFlush /\ UNCHANGED compact_future_
    BY <1>5 DEF Inv, FinishTask, storevars, SameFlush, mem_table_
  <2>1. \A w \in Workers : AtWork(w)' => AtWork(w) /\ task'[w] = task[w]
    <3>1. ~ AtWork(a)'
      BY <1>5 DEF AtWork
    <3> QED
      BY <3>1, <1>5, WorkKept
  <2>2. \A i \in DOMAIN task_queue_ : Waiting(i)' <=> Waiting(i)
    BY <1>5 DEF Waiting
  <2>3. \A t : OfFuture(t) => /\ t = compact_future_' /\ t \in DOMAIN tables'
                              /\ tables'[t].flush = "none"
    BY <2>0, OfFutureKept
  <2> QED
    BY <2>0, <2>1, <2>2, <2>3, <1>5 DEF OneFlush, OfFuture
<1> QED
  BY <1>1, <1>2, <1>3, <1>4, <1>5, QueueSteps

-----------------------------------------------------------------------------
(* Freed and Files.  What the steps of a flush do to its table.            *)
LEMMA FlushChanges ==
    ASSUME Inv, NEW a \in Workers,
           CompactFails(a) \/ AppendVersion(a) \/ DeleteImmutable(a)
    PROVE  /\ pc[a] \in Flushing /\ UNCHANGED local
           /\ DOMAIN tables' = DOMAIN tables /\ mem_table_' = mem_table_
           /\ \A t \in DOMAIN tables :
                 /\ t # local[a].tbl => tables'[t] = tables[t]
                 /\ tables'[t].entries = tables[t].entries
           /\ CompactFails(a) => tables'[local[a].tbl].flush = "error"
           /\ AppendVersion(a) => /\ tables'[local[a].tbl].flush = Result(a)
                                  /\ tables'[local[a].tbl].alive = Table(a).alive
           /\ DeleteImmutable(a) => /\ tables'[local[a].tbl].flush = Table(a).flush
                                    /\ ~ tables'[local[a].tbl].alive
<1>0. Typed /\ Programs /\ a \in Actors
  BY DEF Inv, Actors
<1>1. pc[a] \in Flushing /\ UNCHANGED local
  BY DEF CompactFails, AppendVersion, DeleteImmutable, At, Flushing
<1>2. PICK x : x = local[a].tbl /\ x \in DOMAIN tables
  BY <1>1, FlushFacts
<1>3. Table(a) \in TableType /\ Table(a) = tables[x]
  BY <1>1, <1>2, FlushFacts DEF Table
<1>4. \E r : /\ Changes(x, r) /\ r.entries = Table(a).entries
             /\ CompactFails(a) => r.flush = "error"
             /\ AppendVersion(a) => r.flush = Result(a) /\ r.alive = Table(a).alive
             /\ DeleteImmutable(a) => r.flush = Table(a).flush /\ ~ r.alive
  <2>1. ~ (CompactFails(a) /\ AppendVersion(a)) /\ ~ (CompactFails(a) /\ DeleteImmutable(a))
        /\ ~ (AppendVersion(a) /\ DeleteImmutable(a))
    BY DEF CompactFails, AppendVersion, DeleteImmutable, At
  <2>2. CASE CompactFails(a)
    <3>1. /\ [Table(a) EXCEPT !.flush = "error"].entries = Table(a).entries
          /\ [Table(a) EXCEPT !.flush = "error"].flush = "error"
      BY <1>3 DEF TableType
    <3> QED
      BY <3>1, <2>1, <2>2, <1>0, <1>2, TableChanges
  <2>3. CASE AppendVersion(a)
    <3>1. /\ [Table(a) EXCEPT !.flush = Result(a)].entries = Table(a).entries
          /\ [Table(a) EXCEPT !.flush = Result(a)].flush = Result(a)
          /\ [Table(a) EXCEPT !.flush = Result(a)].alive = Table(a).alive
      BY <1>3 DEF TableType
    <3> QED
      BY <3>1, <2>1, <2>3, <1>0, <1>2, TableChanges
  <2>4. CASE DeleteImmutable(a)
    <3>1. /\ [Table(a) EXCEPT !.alive = FALSE].entries = Table(a).entries
          /\ [Table(a) EXCEPT !.alive = FALSE].flush = Table(a).flush
          /\ ~ [Table(a) EXCEPT !.alive = FALSE].alive
      BY <1>3 DEF TableType
    <3> QED
      BY <3>1, <2>1, <2>4, <1>0, <1>2, TableChanges
  <2> QED
    BY <2>2, <2>3, <2>4
<1>5. PICK r : /\ Changes(x, r) /\ r.entries = Table(a).entries
               /\ CompactFails(a) => r.flush = "error"
               /\ AppendVersion(a) => r.flush = Result(a) /\ r.alive = Table(a).alive
               /\ DeleteImmutable(a) => r.flush = Table(a).flush /\ ~ r.alive
  BY <1>4
<1>6. /\ DOMAIN tables' = DOMAIN tables /\ mem_table_' = mem_table_
      /\ tables'[x] = r
      /\ \A t \in DOMAIN tables : t # x => tables'[t] = tables[t]
  BY <1>5 DEF Changes
<1> QED
  BY <1>1, <1>2, <1>3, <1>5, <1>6

(* How a flush leaves the places where its file is not listed yet.         *)
LEMMA Departures ==
    ASSUME Typed, NEW a \in Actors, Step(a)
    PROVE  /\ pc[a] = "fl_free" => Stays(a) \/ DeleteImmutable(a)
           /\ pc[a] = "fl_version" => Stays(a) \/ (a \in Workers /\ AppendVersion(a))
<1> USE DEF At, Stays
<1>1. CASE OwnStep(a)
  BY <1>1 DEF OwnStep, LoadTable, CheckUsage, Recheck, EnterTable, DeleteLoad,
       GetLoad, GetFromTable, GetFromFiles, StartInsertTask, StartFlushTask
<1>2. CASE LockUser(a)
  BY <1>2 DEF LockUser, AskWriteLock, ReleaseWriteLock, AskReadLock, ResumeLock,
       WriteReturn
<1>3. CASE PoolUser(a)
  BY <1>3 DEF PoolUser, ConcurrentInsertNotify, SwapNotify, PoolStep, FinishTask
<1>4. CASE SharedStep(a)
  BY <1>4 DEF SharedStep, TableUser, TableAllocate, TableDrawId, TablePut, CompactFails,
       DeleteImmutable, AppendVersion, SwapTable, GetFuture, WriteFile
<1>5. CASE CallStep(a)
  BY <1>5 DEF CallStep, CallInsert, CallDelete, CallConcurrentInsert, CallGet, Call, Begin
<1> QED
  BY <1>1, <1>2, <1>3, <1>4, <1>5 DEF Step

(* Steps that free no table.                                               *)
LEMMA FreedQuiet ==
    ASSUME Inv, NEW a \in Actors, Step(a), SameFlush, ~ DeleteImmutable(a),
           ~ (a \in Workers /\ AppendVersion(a))
    PROVE  Freed'
<1>0. Typed /\ Programs /\ Frame(a) /\ Freed
  BY TypedStep DEF Inv
<1>1. ASSUME NEW w \in Workers, pc[w] = "fl_version" \/ pc'[w] = "fl_version"
      PROVE  Stays(w) /\ local[w].tbl \in DOMAIN tables
  <2>0. w \in Actors
    BY DEF Actors
  <2>1. Stays(w)
    BY <2>0, <1>0, <1>1, Arrivals, Departures DEF Frame, Others, Stays
  <2> QED
    BY <2>0, <2>1, <1>0, <1>1 DEF Stays, Programs, TableAt, Flushing
<1>2. \A w \in Workers : pc'[w] = "fl_version" => ~ tables'[local'[w].tbl].alive
  BY <1>0, <1>1 DEF Stays, Freed, SameFlush, Table
<1>3. \A t \in DOMAIN tables' : ~ tables'[t].alive /\ tables'[t].flush = "none" =>
         \E w \in Workers : pc'[w] = "fl_version" /\ local'[w].tbl = t
  BY <1>0, <1>1 DEF Stays, Freed, SameFlush
<1>4. \A t \in DOMAIN tables' : tables'[t].flush = "ok" => ~ tables'[t].alive
  BY <1>0 DEF Freed, SameFlush
<1> QED
  BY <1>2, <1>3, <1>4 DEF Freed, Table

(* The swap takes a table that nobody has freed.                           *)
LEMMA FreedSwap ==
    ASSUME Inv, NEW a \in Actors, Step(a), SwapTable(a) \/ GetFuture(a)
    PROVE  Freed'
<1>0. Typed /\ Programs /\ Frame(a) /\ Freed
  BY TypedStep DEF Inv
<1>1. pc[a] # "fl_version" /\ pc'[a] # "fl_version"
  BY <1>0 DEF SwapTable, GetFuture, At, Goto, Return, Typed
<1>2. ASSUME NEW w \in Workers, pc[w] = "fl_version" \/ pc'[w] = "fl_version"
      PROVE  Stays(w) /\ local[w].tbl \in DOMAIN tables
  <2>0. w \in Actors
    BY DEF Actors
  <2>1. Stays(w)
    BY <2>0, <1>0, <1>1, <1>2 DEF Frame, Others, Stays
  <2> QED
    BY <2>0, <2>1, <1>0, <1>2 DEF Stays, Programs, TableAt, Flushing
<1>3. /\ \A t \in DOMAIN tables : t \in DOMAIN tables' /\ tables'[t] = tables[t]
      /\ \A t \in DOMAIN tables' \ DOMAIN tables : tables'[t].alive /\ tables'[t].flush = "none"
  <2>1. CASE GetFuture(a)
    BY <2>1 DEF GetFuture
  <2>2. CASE SwapTable(a)
    <3>1. PICK m \in Nat \ {0} :
             /\ DOMAIN tables = 1..m /\ DOMAIN tables' = 1..(m + 1)
             /\ \A t \in 1..m : tables'[t] = tables[t]
             /\ tables'[m + 1] = NewTable(tables[m].next_id)
      BY <2>2, <1>0, SwapChanges, TypeFacts
    <3>2. \A t \in 1..(m + 1) : t \in 1..m \/ t = m + 1
      BY <3>1
    <3>3. 1..m \subseteq 1..(m + 1)
      BY <3>1
    <3>4. tables'[m + 1].alive /\ tables'[m + 1].flush = "none"
      BY <3>1 DEF NewTable
    <3> QED
      BY <3>1, <3>2, <3>3, <3>4
  <2> QED
    BY <2>1, <2>2
<1>4. \A w \in Workers : pc'[w] = "fl_version" => ~ tables'[local'[w].tbl].alive
  BY <1>0, <1>2, <1>3 DEF Stays, Freed, Table
<1>5. \A t \in DOMAIN tables' : ~ tables'[t].alive /\ tables'[t].flush = "none" =>
         \E w \in Workers : pc'[w] = "fl_version" /\ local'[w].tbl = t
  BY <1>0, <1>2, <1>3 DEF Stays, Freed
<1>6. \A t \in DOMAIN tables' : tables'[t].flush = "ok" => ~ tables'[t].alive
  BY <1>0, <1>3 DEF Freed
<1> QED
  BY <1>4, <1>5, <1>6 DEF Freed, Table

(* The steps of MVCCWriteLevel0 free the table they flush and no other.    *)
LEMMA FreedFlush ==
    ASSUME Inv, NEW a \in Workers, Step(a),
           CompactFails(a) \/ AppendVersion(a) \/ DeleteImmutable(a)
    PROVE  Freed'
<1>0. Typed /\ Programs /\ Freed /\ a \in Actors
  BY DEF Inv, Actors
<1>1. Frame(a) /\ pc[a] \in Flushing
  BY <1>0, TypedStep, FlushChanges
<1>2. PICK x \in DOMAIN tables : x = local[a].tbl /\ local'[a].tbl = x
  BY <1>1, FlushFacts, FlushChanges
<1>3. /\ DOMAIN tables' = DOMAIN tables
      /\ \A t \in DOMAIN tables : t # x => tables'[t] = tables[t]
  BY <1>2, FlushChanges
<1>4. \A w \in Workers : w # a => pc[w] # "fl_version" /\ pc'[w] # "fl_version"
  <2>1. \A w \in Workers : w # a => pc[w] \notin Flushing /\ pc'[w] = pc[w]
    BY <1>1, FlushFacts DEF Frame, Others, Actors
  <2> QED
    BY <2>1 DEF Flushing
<1>5. \A t \in DOMAIN tables : t # x /\ tables[t].flush = "none" => tables[t].alive
  BY <1>0, <1>2, <1>4 DEF Freed
<1>6. Table(a).flush = "none" /\ Table(a) = tables[x]
  BY <1>1, <1>2, FlushFacts DEF Table
<1>7. CASE CompactFails(a)
  <2>1. pc'[a] = "task_done" /\ tables'[x].flush = "error"
    BY <1>0, <1>2, <1>7, FlushChanges DEF CompactFails, Goto, Typed
  <2> QED
    BY <2>1, <1>0, <1>3, <1>4, <1>5 DEF Freed
<1>8. CASE AppendVersion(a)
  <2>1. /\ pc[a] = "fl_version" /\ pc'[a] = "task_done"
        /\ tables'[x].flush = Result(a) /\ tables'[x].alive = Table(a).alive
    BY <1>0, <1>2, <1>8, FlushChanges DEF AppendVersion, At, Goto, Typed
  <2>2. ~ Table(a).alive /\ Result(a) # "none"
    BY <2>1, <1>0 DEF Freed, Result
  <2> QED
    BY <2>1, <2>2, <1>0, <1>3, <1>4, <1>5 DEF Freed
<1>9. CASE DeleteImmutable(a)
  <2>1. /\ pc'[a] = "fl_version"
        /\ tables'[x].flush = "none" /\ ~ tables'[x].alive
    BY <1>0, <1>2, <1>6, <1>9, FlushChanges DEF DeleteImmutable, At, Goto, Typed
  <2>2. \A w \in Workers : pc'[w] = "fl_version" => ~ tables'[local'[w].tbl].alive
    BY <2>1, <1>2, <1>4
  <2>3. \A t \in DOMAIN tables' : ~ tables'[t].alive /\ tables'[t].flush = "none" =>
           \E w \in Workers : pc'[w] = "fl_version" /\ local'[w].tbl = t
    BY <2>1, <1>2, <1>3, <1>5
  <2>4. \A t \in DOMAIN tables' : tables'[t].flush = "ok" => ~ tables'[t].alive
    BY <2>1, <1>0, <1>3 DEF Freed
  <2> QED
    BY <2>2, <2>3, <2>4 DEF Freed, Table
<1> QED
  BY <1>7, <1>8, <1>9

(* Every step keeps freed and live tables apart.                           *)
LEMMA FreedStep ==
    ASSUME Inv, NEW a \in Actors, Step(a)
    PROVE  Freed'
<1>1. DeleteImmutable(a) => a \in Workers
  BY DEF DeleteImmutable, At, Inv, Programs, TaskAt, Flushing
<1>2. CASE a \in Workers /\ (CompactFails(a) \/ AppendVersion(a) \/ DeleteImmutable(a))
  BY <1>2, FreedFlush
<1>3. CASE SwapTable(a) \/ GetFuture(a)
  BY <1>3, FreedSwap
<1>4. CASE SameFlush /\ ~ DeleteImmutable(a) /\ ~ (a \in Workers /\ AppendVersion(a))
  BY <1>4, FreedQuiet
<1> QED
  BY <1>1, <1>2, <1>3, <1>4, FlushSteps

(* What was inserted into a table that is not the active one stays.        *)
LEMMA InsertedFixed ==
    ASSUME Inv, NEW a \in Actors, Step(a), NEW t \in DOMAIN tables, t # mem_table_
    PROVE  /\ t \in DOMAIN tables' /\ tables[t].entries \subseteq tables'[t].entries
           /\ Inserted(t)' = Inserted(t)
<1>0. Typed /\ Programs /\ CallsGrow /\ TablesGrow /\ EntriesKnown
  BY TypedStep DEF Inv, Frame, Ids
<1>1. CASE TablePut(a)
  <2>1. PICK p : PutEffect(a, p)
    BY <1>1, PutChanges
  <2>2. Locked(local[a].op) => local[a].tbl = mem_table_
    BY <1>0, <1>1 DEF TablePut, At, Programs, TableAt
  <2> QED
    BY <2>1, <2>2, <1>0 DEF PutEffect, TablesGrow
<1>2. CASE ~ TablePut(a)
  <2>1. tables'[t].entries = tables[t].entries
    <3>1. CASE UNCHANGED tables
      BY <3>1
    <3>2. CASE SwapTable(a)
      BY <3>2, <1>0, SwapChanges
    <3>3. CASE TableAllocate(a) \/ TableDrawId(a)
      <4>1. Table(a) \in TableType
        BY <3>3, <1>0, TypeFacts DEF TableAllocate, TableDrawId, At, Programs, TableAt,
              Table, InTable
      <4>2. PICK r : Changes(local[a].tbl, r) /\ r.entries = Table(a).entries
        <5>1. \A r \in {[Table(a) EXCEPT !.usage = @ + 1], [Table(a) EXCEPT !.next_id = @ + 1]} :
                 r.entries = Table(a).entries
          BY <4>1 DEF TableType
        <5> QED
          BY <5>1, <3>3, <1>0, TableChanges
      <4> QED
        BY <4>2 DEF Changes, Table
    <3>4. CASE a \in Workers /\ (CompactFails(a) \/ AppendVersion(a) \/ DeleteImmutable(a))
      BY <3>4, FlushChanges
    <3> QED
      BY <3>1, <3>2, <3>3, <3>4, <1>2, TableSteps DEF TableUser
  <2> QED
    BY <2>1, <1>0, InsertedSame DEF TablesGrow
<1> QED
  BY <1>1, <1>2

(* The result of a flush is set once, and by its own task.                 *)
LEMMA Results ==
    ASSUME Inv, NEW a \in Actors, Step(a)
    PROVE  /\ \A t \in DOMAIN tables : tables[t].flush # "none" =>
                 /\ t # mem_table_ /\ t \in DOMAIN tables'
                 /\ tables'[t].flush = tables[t].flush
           /\ \A t \in DOMAIN tables' : tables'[t].flush = "ok" =>
                 \/ t \in DOMAIN tables /\ tables[t].flush = "ok"
                 \/ /\ a \in Workers /\ AppendVersion(a)
                    /\ t = local[a].tbl /\ local[a].ret = "ok"
<1>0. Typed /\ Programs /\ TablesGrow /\ tables[mem_table_].flush = "none"
  BY TypedStep DEF Inv, Frame, Future
<1>1. CASE SwapTable(a)
  <2>1. PICK m \in Nat \ {0} :
           /\ DOMAIN tables = 1..m /\ DOMAIN tables' = 1..(m + 1)
           /\ \A t \in 1..m : tables'[t] = tables[t]
           /\ tables'[m + 1] = NewTable(tables[m].next_id)
    BY <1>1, <1>0, SwapChanges, TypeFacts
  <2>2. \A t \in 1..(m + 1) : t \in 1..m \/ t = m + 1
    BY <2>1
  <2>3. tables'[m + 1].flush = "none"
    BY <2>1 DEF NewTable
  <2> QED
    BY <2>1, <2>2, <2>3, <1>0 DEF TablesGrow
<1>2. CASE a \in Workers /\ (CompactFails(a) \/ AppendVersion(a) \/ DeleteImmutable(a))
  <2>1. PICK x \in DOMAIN tables : x = local[a].tbl /\ tables[x].flush = "none"
    BY <1>2, FlushFacts, FlushChanges DEF Table
  <2>2. /\ DOMAIN tables' = DOMAIN tables
        /\ \A t \in DOMAIN tables : t # x => tables'[t] = tables[t]
    BY <2>1, <1>2, FlushChanges
  <2>3. tables'[x].flush = "ok" => AppendVersion(a) /\ local[a].ret = "ok"
    BY <2>1, <1>2, FlushChanges DEF Result, Table
  <2> QED
    BY <2>1, <2>2, <2>3, <1>0, <1>2
<1>3. CASE GetFuture(a)
  BY <1>3, <1>0 DEF GetFuture
<1>4. CASE SameFlush
  BY <1>4, <1>0 DEF SameFlush
<1> QED
  BY <1>1, <1>2, <1>3, <1>4, FlushSteps

(* A file that is being added to the version.                              *)
LEMMA FileDrafts ==
    ASSUME Inv, NEW a \in Actors, Step(a), NEW w \in Workers,
           pc'[w] \in {"fl_free", "fl_version"}
    PROVE  \E x : /\ x = local'[w].tbl
                  /\ local'[w].file \subseteq tables'[x].entries
                  /\ Inserted(x)' \subseteq local'[w].file
<1>0. Typed /\ Frame(a) /\ w \in Actors /\ Files
  BY TypedStep DEF Inv, Actors
<1>1. \/ Stays(w)
      \/ w = a /\ WriteFile(a)
      \/ w = a /\ DeleteImmutable(a)
  BY <1>0, Arrivals DEF Stays, Frame, Others
<1>2. PICK x \in DOMAIN tables : x = local[w].tbl /\ x = local'[w].tbl
                                 /\ x # mem_table_ /\ pc[w] \in Flushing
  <2>1. pc[w] \in Flushing
    BY <1>1 DEF Stays, WriteFile, DeleteImmutable, At, Flushing
  <2>2. local[w].tbl \in DOMAIN tables /\ local[w].tbl # mem_table_
    BY <2>1, FlushFacts, TypeFacts, <1>0
  <2>3. local'[w].tbl = local[w].tbl
    BY <1>0, <1>1 DEF Stays, WriteFile, DeleteImmutable, Typed, LocalType
  <2> QED
    BY <2>1, <2>2, <2>3
<1>3. tables[x].entries \subseteq tables'[x].entries /\ Inserted(x)' = Inserted(x)
  BY <1>2, InsertedFixed
<1>4. local'[w].file \subseteq tables[x].entries /\ Inserted(x) \subseteq local'[w].file
  <2>1. CASE w = a /\ WriteFile(a)
    <3>1. PICK r : local' = [local EXCEPT ![a].ret = r, ![a].file = Table(a).entries]
      BY <2>1 DEF WriteFile
    <3>2. local'[a].file = Table(a).entries
      BY <3>1, <1>0, <2>1 DEF Typed, LocalType
    <3> QED
      BY <3>2, <2>1, <1>2 DEF Table, Inserted
  <2>2. CASE (w = a /\ DeleteImmutable(a)) \/ Stays(w)
    <3>1. local'[w] = local[w] /\ pc[w] \in {"fl_free", "fl_version"}
      BY <2>2, <1>0 DEF Stays, DeleteImmutable, At
    <3> QED
      BY <3>1, <1>0, <1>2 DEF Files, Table
  <2> QED
    BY <2>1, <2>2, <1>1
<1> QED
  BY <1>2, <1>3, <1>4

(* The version changes when a flush appends its file.                      *)
LEMMA Level0Steps ==
    ASSUME Inv, NEW a \in Actors, Step(a)
    PROVE  \/ UNCHANGED level0 /\ ~ (a \in Workers /\ AppendVersion(a) /\ local[a].ret = "ok")
           \/ /\ a \in Workers /\ AppendVersion(a)
              /\ \E n \in Nat : /\ DOMAIN level0 = 1..n /\ DOMAIN level0' = 1..(n + 1)
                                /\ \A i \in 1..n : level0'[i] = level0[i]
                                /\ level0'[n + 1] = local[a].file
<1>0. Typed /\ Programs
  BY DEF Inv
<1>1. CASE SwapTable(a) \/ GetFuture(a)
  BY <1>1 DEF SwapTable, GetFuture, AppendVersion, At
<1>2. CASE a \in Workers /\ (CompactFails(a) \/ DeleteImmutable(a))
  BY <1>2 DEF CompactFails, DeleteImmutable, AppendVersion, At
<1>3. CASE a \in Workers /\ AppendVersion(a)
  <2>1. CASE local[a].ret = "file_error"
    BY <2>1, <1>3 DEF AppendVersion
  <2>2. CASE local[a].ret # "file_error"
    <3>1. level0' = Append(level0, local[a].file)
      BY <2>2, <1>3 DEF AppendVersion
    <3>2. local[a].file \in SUBSET Entry /\ level0 \in Seq(SUBSET Entry)
      BY <1>0 DEF Typed, LocalType
    <3>3. PICK n \in Nat : n = Len(level0) /\ DOMAIN level0 = 1..n
      BY <1>0, TypeFacts
    <3>4. /\ level0' \in Seq(SUBSET Entry) /\ Len(level0') = n + 1
          /\ \A i \in 1..n : level0'[i] = level0[i]
          /\ level0'[n + 1] = local[a].file
      BY <3>1, <3>2, <3>3, AppendProperties
    <3>5. DOMAIN level0' = 1..(n + 1)
      BY <3>4, LenProperties
    <3> QED
      BY <3>3, <3>4, <3>5, <1>3
  <2> QED
    BY <2>1, <2>2
<1>4. CASE ~ (a \in Workers /\ AppendVersion(a)) /\ UNCHANGED level0
  BY <1>4
<1> QED
  BY <1>1, <1>2, <1>3, <1>4, FlushSteps

(* Every file is of one table, and every flushed table has a file.         *)
LEMMA FilesOfTables ==
    ASSUME Inv, NEW a \in Actors, Step(a)
    PROVE  /\ \A i \in DOMAIN level0' : \E t \in DOMAIN tables' :
                 tables'[t].flush # "none" /\ level0'[i] \subseteq tables'[t].entries
           /\ \A t \in DOMAIN tables' : tables'[t].flush = "ok" =>
                 \E i \in DOMAIN level0' : Inserted(t)' \subseteq level0'[i]
<1>0. Typed /\ Files /\ TablesGrow
  BY TypedStep DEF Inv, Frame
<1>1. /\ \A t \in DOMAIN tables : tables[t].flush # "none" =>
            /\ t # mem_table_ /\ t \in DOMAIN tables'
            /\ tables'[t].flush = tables[t].flush
            /\ Inserted(t)' = Inserted(t)
            /\ tables[t].entries \subseteq tables'[t].entries
  BY Results, InsertedFixed
<1>2. \A t \in DOMAIN tables' : tables'[t].flush = "ok" =>
         \/ t \in DOMAIN tables /\ tables[t].flush = "ok"
         \/ /\ a \in Workers /\ AppendVersion(a)
            /\ t = local[a].tbl /\ local[a].ret = "ok"
  BY Results
<1>3. \A i \in DOMAIN level0 : \E t \in DOMAIN tables' :
         tables'[t].flush # "none" /\ level0[i] \subseteq tables'[t].entries
  BY <1>0, <1>1 DEF Files
<1>4. \A t \in DOMAIN tables : tables[t].flush = "ok" =>
         \E i \in DOMAIN level0 : Inserted(t)' \subseteq level0[i]
  BY <1>0, <1>1 DEF Files
<1>5. CASE UNCHANGED level0 /\ ~ (a \in Workers /\ AppendVersion(a) /\ local[a].ret = "ok")
  BY <1>2, <1>3, <1>4, <1>5
<1>6. ASSUME a \in Workers, AppendVersion(a), NEW n \in Nat,
             DOMAIN level0 = 1..n, DOMAIN level0' = 1..(n + 1),
             \A i \in 1..n : level0'[i] = level0[i],
             level0'[n + 1] = local[a].file
      PROVE  /\ \A i \in DOMAIN level0' : \E t \in DOMAIN tables' :
                   tables'[t].flush # "none" /\ level0'[i] \subseteq tables'[t].entries
             /\ \A t \in DOMAIN tables' : tables'[t].flush = "ok" =>
                   \E i \in DOMAIN level0' : Inserted(t)' \subseteq level0'[i]
  <2>1. \A i \in 1..(n + 1) : i \in 1..n \/ i = n + 1
    BY <1>6
  <2>2. n + 1 \in 1..(n + 1) /\ 1..n \subseteq 1..(n + 1)
    BY <1>6
  <2>3. pc[a] = "fl_version" /\ pc[a] \in Flushing
    BY <1>6 DEF AppendVersion, At, Flushing
  <2>4. PICK x \in DOMAIN tables : x = local[a].tbl /\ x # mem_table_
    BY <2>3, <1>0, <1>6, FlushFacts, TypeFacts
  <2>5. /\ local[a].file \subseteq tables[x].entries
        /\ Inserted(x) \subseteq local[a].file
    BY <2>3, <2>4, <1>0, <1>6 DEF Files, Table
  <2>6. /\ x \in DOMAIN tables' /\ tables[x].entries \subseteq tables'[x].entries
        /\ Inserted(x)' = Inserted(x)
    BY <2>4, InsertedFixed
  <2>7. tables'[x].flush # "none"
    BY <2>4, <1>6, FlushChanges DEF Result
  <2>8. \A i \in 1..(n + 1) : \E t \in DOMAIN tables' :
           tables'[t].flush # "none" /\ level0'[i] \subseteq tables'[t].entries
    <3>1. \E t \in DOMAIN tables' :
             tables'[t].flush # "none" /\ level0'[n + 1] \subseteq tables'[t].entries
      BY <2>5, <2>6, <2>7, <1>6
    <3> QED
      BY <3>1, <2>1, <1>3, <1>6
  <2>9. \A t \in DOMAIN tables' : tables'[t].flush = "ok" =>
           \E i \in 1..(n + 1) : Inserted(t)' \subseteq level0'[i]
    <3>1. Inserted(x)' \subseteq level0'[n + 1]
      BY <2>5, <2>6, <1>6
    <3>2. ASSUME NEW t \in DOMAIN tables, tables[t].flush = "ok"
          PROVE  \E i \in 1..(n + 1) : Inserted(t)' \subseteq level0'[i]
      <4>1. PICK i \in 1..n : Inserted(t)' \subseteq level0[i]
        BY <3>2, <1>4, <1>6
      <4> QED
        BY <4>1, <2>2, <1>6
    <3> QED
      BY <3>1, <3>2, <2>2, <2>4, <1>2
  <2> QED
    BY <2>8, <2>9, <1>6
<1> QED
  BY <1>5, <1>6, Level0Steps

(* A file that is appended is of a later table than all others.            *)
LEMMA OrderStep ==
    ASSUME Inv, NEW a \in Actors, Step(a)
    PROVE  Level0Ordered'
<1>0. Typed /\ Files /\ Level0Ordered /\ CallsGrow /\ EntriesKnown /\ IdsGrow /\ Future
  BY TypedStep DEF Inv, Frame, Files, Ids
<1>1. \A i \in DOMAIN level0 : \A d \in level0[i] : Locked(d.op)' <=> Locked(d.op)
  BY <1>0 DEF Files, EntriesKnown, CallsGrow, Locked
<1>2. CASE UNCHANGED level0
  BY <1>0, <1>1, <1>2 DEF Level0Ordered
<1>3. ASSUME a \in Workers, AppendVersion(a), NEW n \in Nat,
             DOMAIN level0 = 1..n, DOMAIN level0' = 1..(n + 1),
             \A i \in 1..n : level0'[i] = level0[i],
             level0'[n + 1] = local[a].file
      PROVE  Level0Ordered'
  <2>1. \A i \in 1..(n + 1) : i \in 1..n \/ i = n + 1
    BY <1>3
  <2>2. pc[a] = "fl_version" /\ pc[a] \in Flushing /\ UNCHANGED calls
    BY <1>3 DEF AppendVersion, At, Flushing, callvars
  <2>3. PICK x \in DOMAIN tables : /\ x = local[a].tbl /\ x = mem_table_ - 1
                                   /\ tables[x].flush = "none"
    BY <2>2, <1>3, FlushFacts DEF Table
  <2>4. local[a].file \subseteq tables[x].entries
    BY <2>2, <2>3, <1>0, <1>3 DEF Files, Table
  <2>5. ASSUME NEW i \in 1..n, NEW d \in level0[i], NEW e \in local[a].file,
               Locked(d.op), Locked(e.op)
        PROVE  d.id < e.id
    <3>1. PICK t \in DOMAIN tables : tables[t].flush # "none" /\ level0[i] \subseteq tables[t].entries
      BY <2>5, <1>0, <1>3 DEF Files
    <3>2. t # mem_table_ /\ t # x
      BY <3>1, <2>3, <1>0 DEF Future
    <3>3. t < x
      <4>1. mem_table_ \in Nat /\ DOMAIN tables = 1..mem_table_
        BY <1>0, TypeFacts
      <4> QED
        BY <4>1, <3>2, <2>3
    <3>4. d \in Inserted(t) /\ e \in Inserted(x)
      BY <2>4, <2>5, <3>1 DEF Inserted
    <3> QED
      BY <3>3, <3>4, <1>0 DEF IdsGrow
  <2>6. ASSUME NEW i \in 1..(n + 1), NEW j \in 1..(n + 1), i < j,
               NEW d \in level0'[i], NEW e \in level0'[j], Locked(d.op)', Locked(e.op)'
        PROVE  d.id < e.id
    <3>1. Locked(d.op) /\ Locked(e.op)
      BY <2>2, <2>6 DEF Locked
    <3>2. CASE j \in 1..n
      <4>1. i \in 1..n
        BY <3>2, <2>6, <1>3
      <4> QED
        BY <4>1, <3>1, <3>2, <2>6, <1>0, <1>3 DEF Level0Ordered
    <3>3. CASE j = n + 1
      <4>1. i \in 1..n
        BY <3>3, <2>6, <1>3
      <4> QED
        BY <4>1, <3>1, <3>3, <2>5, <2>6, <1>3
    <3> QED
      BY <3>2, <3>3, <2>1, <2>6
  <2> QED
    BY <2>6, <1>3 DEF Level0Ordered
<1> QED
  BY <1>2, <1>3, Level0Steps

(* Every step keeps the files of level 0 in the order of their tables.     *)
LEMMA FilesStep ==
    ASSUME Inv, NEW a \in Actors, Step(a)
    PROVE  Files'
<1>1. \A w \in Workers : pc'[w] \in {"fl_free", "fl_version"} =>
         /\ local'[w].file \subseteq tables'[local'[w].tbl].entries
         /\ {e \in tables'[local'[w].tbl].entries : calls'[e.op] # "delete"}
               \subseteq local'[w].file
  BY FileDrafts DEF Inserted, Locked
<1>2. (\A w \in Workers : pc[w] \in {"fl_free", "fl_version"} =>
          /\ local[w].file \subseteq Table(w).entries
          /\ Inserted(local[w].tbl) \subseteq local[w].file)'
  BY <1>1 DEF Inserted, Locked, Table
<1> QED
  BY <1>2, FilesOfTables, OrderStep DEF Files

-----------------------------------------------------------------------------
(* Reads.  A call is acknowledged when its entry is linked, and a Get goes *)
(* on to the files when the entry is not in the table it looked at.        *)
LEMMA AckedStep ==
    ASSUME Inv, NEW a \in Actors, Step(a), NEW n \in acked'
    PROVE  \E t \in DOMAIN tables' : Holds(tables'[t].entries, n)
<1>0. Typed /\ Programs /\ Reads /\ TablesGrow
  BY TypedStep DEF Inv, Frame
<1>1. n \in acked \/ (WriteReturn(a) /\ n = local[a].op)
  BY DEF Step, OwnStep, LoadTable, CheckUsage, Recheck, EnterTable, DeleteLoad,
       GetLoad, GetFromTable, GetFromFiles, StartInsertTask, StartFlushTask,
       LockUser, AskWriteLock, ReleaseWriteLock, AskReadLock, ResumeLock,
       WriteReturn, PoolUser, ConcurrentInsertNotify, SwapNotify, PoolStep,
       FinishTask, SharedStep, TableUser, TableAllocate, TableDrawId, TablePut,
       CompactFails, DeleteImmutable, AppendVersion, SwapTable, GetFuture, WriteFile,
       CallStep, CallInsert, CallDelete, CallConcurrentInsert, CallGet, Call, callvars
<1>2. PICK t \in DOMAIN tables : Holds(tables[t].entries, n)
  <2>1. CASE n \in acked
    BY <2>1, <1>0 DEF Reads
  <2>2. CASE WriteReturn(a) /\ n = local[a].op
    BY <2>2, <1>0 DEF WriteReturn, At, Programs, TableAt, InTable, Table
  <2> QED
    BY <2>1, <2>2, <1>1
<1> QED
  BY <1>0, <1>2 DEF TablesGrow, Holds

(* Every step keeps what a Get under way has seen.                         *)
LEMMA ReadsStep ==
    ASSUME Inv, NEW a \in Actors, Step(a)
    PROVE  Reads'
<1>0. Typed /\ Programs /\ Frame(a) /\ Reads /\ Future /\ TablesGrow /\ Typed'
  BY TypedStep DEF Inv, Frame
<1>1. /\ mem_table_ \in Nat \ {0} /\ DOMAIN tables = 1..mem_table_
      /\ mem_table_' \in Nat \ {0} /\ DOMAIN tables' = 1..mem_table_'
  <2>1. mem_table_ \in Nat \ {0} /\ DOMAIN tables = 1..mem_table_
    BY <1>0, TypeFacts
  <2>2. /\ tables' \in Seq(TableType) /\ tables' # <<>>
    BY <1>0 DEF Typed
  <2>3. mem_table_' \in Nat /\ DOMAIN tables' = 1..mem_table_' /\ mem_table_' # 0
    BY <2>2, LenProperties, EmptySeq DEF mem_table_
  <2> QED
    BY <2>1, <2>3
<1>2. PICK m \in Nat, k \in Nat : m = mem_table_ /\ k = mem_table_' /\ m <= k
  <2>1. mem_table_ \in DOMAIN tables'
    BY <1>0, <1>1 DEF TablesGrow
  <2> QED
    BY <2>1, <1>1
<1>3. \A t \in 1..m : \A n : Holds(tables[t].entries, n) => Holds(tables'[t].entries, n)
  BY <1>0, <1>1, <1>2 DEF TablesGrow, Holds
<1>4. ASSUME NEW b \in Actors, pc'[b] = "get_table"
      PROVE  \E t \in 1..local'[b].tbl : Holds(tables'[t].entries, local'[b].op)
  <2>1. PICK x \in 1..m : /\ x = local'[b].tbl
                          /\ \E t \in 1..x : Holds(tables[t].entries, local'[b].op)
    <3>1. CASE Stays(b)
      BY <3>1, <1>0, <1>1, <1>2, <1>4 DEF Stays, Programs, TableAt, Reads
    <3>2. CASE ~ Stays(b)
      <4>1. b = a /\ GetLoad(a)
        BY <3>2, <1>0, <1>4, Arrivals DEF Frame, Others, Stays
      <4>2. local'[a].tbl = m /\ local'[a].op = local[a].op /\ local[a].op \in acked
        BY <4>1, <1>0, <1>2 DEF GetLoad, SetTable, At, Programs, CallAt, Getting, Typed, LocalType
      <4> QED
        BY <4>1, <4>2, <1>0, <1>1, <1>2 DEF Reads
    <3> QED
      BY <3>1, <3>2
  <2>2. x \in 1..m /\ m \in Nat
    BY <2>1, <1>2
  <2>3. \A t \in 1..x : t \in 1..m
    BY <2>2
  <2> QED
    BY <2>1, <2>3, <1>3
<1>5. ASSUME NEW b \in Actors, pc'[b] = "get_files"
      PROVE  \E t \in 1..(k - 1) : Holds(tables'[t].entries, local'[b].op)
  <2>1. PICK t \in 1..(m - 1) : Holds(tables[t].entries, local'[b].op)
    <3>1. CASE Stays(b)
      BY <3>1, <1>0, <1>2, <1>5 DEF Stays, Reads
    <3>2. CASE ~ Stays(b)
      <4>1. b = a /\ GetFromTable(a)
        BY <3>2, <1>0, <1>5, Arrivals DEF Frame, Others, Stays
      <4>2. /\ pc[a] = "get_table" /\ local' = local
            /\ ~ Table(a).alive \/ ~ Holds(Table(a).entries, local[a].op)
        <5>1. ~ Return(a)
          BY <4>1, <1>0, <1>5 DEF Return, Goto, Typed
        <5> QED
          BY <4>1, <5>1 DEF GetFromTable, At
      <4>3. PICK x \in 1..m : x = local[a].tbl
        BY <4>2, <1>0, <1>1, <1>2 DEF Programs, TableAt
      <4>4. PICK t \in 1..x : Holds(tables[t].entries, local[a].op)
        BY <4>2, <4>3, <1>0 DEF Reads
      <4>5. t # m
        <5>1. x = m => ~ Holds(tables[m].entries, local[a].op)
          BY <4>2, <4>3, <1>0, <1>2 DEF Future, Table
        <5> QED
          BY <5>1, <4>3, <4>4, <1>2
      <4>6. t \in 1..(m - 1)
        BY <4>3, <4>4, <4>5, <1>2
      <4> QED
        BY <4>1, <4>2, <4>4, <4>6
    <3> QED
      BY <3>1, <3>2
  <2>2. m \in Nat /\ k \in Nat /\ m <= k /\ t \in 1..(m - 1)
    BY <2>1, <1>2
  <2>3. t \in 1..m /\ t \in 1..(k - 1)
    BY <2>2
  <2> QED
    BY <2>1, <2>3, <1>3
<1> QED
  BY <1>2, <1>4, <1>5, AckedStep DEF Reads

-----------------------------------------------------------------------------
(* The constructor.                                                        *)
LEMMA InitInv == Init => Inv
<1> SUFFICES ASSUME Init PROVE Inv
  OBVIOUS
<1>1. RWP!Inv
  BY LockAssumptions, RWP!InitInv DEF Init, RW!Init, RWP!Init, RWP!ThreadsAssumption,
     RWP!OptionAssumption, RWP!SpuriousAssumption
<1>2. PP!PoolInv
  BY DEF Init, PP!PoolInv, PP!TypeOKPool, PP!OneHolder, PP!AllInLoop, PP!HoldsMutex,
         PP!Running, PP!WorkerStates
<1>3. /\ tables = <<NewTable(0)>> /\ NewTable(0) \in TableType
      /\ Len(tables) = 1 /\ DOMAIN tables = {1} /\ tables[1] = NewTable(0)
  BY DEF Init, NewTable, TableType
<1>4. /\ NewTable(0).entries = {} /\ NewTable(0).flush = "none" /\ NewTable(0).alive
  BY DEF NewTable
<1>5. /\ pc = [a \in Actors |-> "idle"] /\ local = [a \in Actors |-> NoLocals]
      /\ wpc = [w \in Workers |-> "loop"] /\ task = [w \in Workers |-> NoTask]
      /\ task_queue_ = <<>> /\ phase = [a \in Actors |-> "idle"]
      /\ compact_future_ = 0 /\ level0 = <<>> /\ calls = <<>> /\ acked = {}
  BY DEF Init, RW!Init
<1>6. Typed
  <2>1. NoLocals \in LocalType /\ "idle" \in Locations
    BY DEF NoLocals, LocalType, Locations
  <2>2. pc \in [Actors -> Locations] /\ local \in [Actors -> LocalType]
    BY <2>1, <1>5
  <2>3. Len(Ops) \in Nat /\ MaxFailures \in Nat /\ failures = 0
    BY WritePathAssumption, LenProperties DEF Init
  <2>4. /\ tables \in Seq(TableType) /\ tables # <<>> /\ level0 \in Seq(SUBSET Entry)
        /\ calls \in Seq(Kinds) /\ Len(calls) = 0 /\ DOMAIN calls = {}
    BY <1>3, <1>5
  <2>5. failures \in 0..MaxFailures /\ 0 <= Len(Ops) /\ compact_future_ \in Nat
    BY <2>3, <1>5
  <2> QED
    BY <2>2, <2>4, <2>5, <1>1, <1>2, <1>5 DEF Typed
<1>7. Programs
  <2>1. \A a \in Actors : LockAt(a) /\ CallAt(a) /\ TableAt(a) /\ TaskAt(a)
    BY <1>5 DEF LockAt, CallAt, TableAt, TaskAt, WriteSection, InTable, Inserting,
                Flushing, Getting
  <2>2. TasksKnown
    BY <1>5 DEF TasksKnown, NoTask
  <2> QED
    BY <2>1, <2>2 DEF Programs
<1>8. Ids
  <2>1. \A t \in DOMAIN tables : Inserted(t) = {} /\ tables[t].entries = {}
    BY <1>3, <1>4 DEF Inserted
  <2>2. \A a \in Actors : ~ Pending(a)
    BY <1>5 DEF Pending
  <2> QED
    BY <2>1, <2>2 DEF Ids, EntriesKnown, IdsGrow, PendingIds
<1>9. mem_table_ = 1
  BY <1>3 DEF mem_table_
<1>10. Future
  BY <1>3, <1>4, <1>5, <1>9 DEF Future
<1>11. OneFlush
  BY <1>5 DEF OneFlush, Waiting, AtWork
<1>12. Freed
  BY <1>3, <1>4, <1>5 DEF Freed, Actors
<1>13. Files
  BY <1>3, <1>4, <1>5 DEF Files, Level0Ordered, Actors
<1>14. Reads
  BY <1>5 DEF Reads
<1> QED
  BY <1>6, <1>7, <1>8, <1>10, <1>11, <1>12, <1>13, <1>14 DEF Inv

(* A step of somebody else.                                                *)
LEMMA Stutter == ASSUME Inv, UNCHANGED vars PROVE Inv'
<1>0. UNCHANGED <<lockvars, poolvars, pc, local, storevars, callvars>>
  BY DEF vars
<1>1. /\ UNCHANGED <<write_count_, read_count_, phase, spurious>>
      /\ UNCHANGED <<task_queue_, wpc, task, notifying, stage>>
      /\ UNCHANGED <<pc, local, tables, compact_future_, level0, failures>>
      /\ UNCHANGED <<calls, acked, missed>>
  BY <1>0 DEF lockvars, poolvars, storevars, callvars
<1>2. RWP!Inv'
  <2>1. [RWP!Next]_(RWP!vars) /\ RWP!Inv
    BY <1>1 DEF RWP!vars, Inv, Typed
  <2> QED
    BY <2>1, LockAssumptions, RWP!NextInv DEF RWP!WakeUpsAreSafe, RWP!ThreadsAssumption,
       RWP!OptionAssumption, RWP!SpuriousAssumption
<1>3. PP!PoolInv'
  <2>1. [PP!PoolNext]_(PP!pvars) /\ PP!PoolInv
    BY <1>1 DEF PP!pvars, Inv, Typed
  <2> QED
    BY <2>1, PP!PoolStep DEF PP!PoolAssumption, NoTask, TaskSet
<1>4. Typed'
  BY <1>1, <1>2, <1>3 DEF Inv, Typed
<1>5. Programs'
  BY <1>1 DEF Inv, Programs, LockAt, CallAt, TableAt, TaskAt, TasksKnown, IsInsert,
      Locked, Table, mem_table_
<1>6. Ids'
  BY <1>1 DEF Inv, Ids, EntriesKnown, IdsGrow, PendingIds, Pending, Inserted, Locked,
      mem_table_
<1>7. Future'
  BY <1>1 DEF Inv, Future, Leaked, mem_table_
<1>8. OneFlush'
  BY <1>1 DEF Inv, OneFlush, Waiting, AtWork, OfFuture
<1>9. Freed'
  BY <1>1 DEF Inv, Freed, Table
<1>10. Files'
  BY <1>1 DEF Inv, Files, Level0Ordered, Inserted, Locked, Table
<1>11. Reads'
  BY <1>1 DEF Inv, Reads, mem_table_
<1> QED
  BY <1>4, <1>5, <1>6, <1>7, <1>8, <1>9, <1>10, <1>11 DEF Inv

(* Every step keeps the invariant.                                         *)
LEMMA NextInv == ASSUME Inv, Next PROVE Inv'
<1>1. PICK a \in Actors : Step(a)
  BY EveryStep
<1>2. Typed'
  BY <1>1, TypedStep DEF Inv
<1> QED
  BY <1>1, <1>2, ProgramsStep, IdsStep, FutureStep, OneFlushStep, FreedStep, FilesStep,
     ReadsStep DEF Inv

(* The inductive invariant of the write path: in every reachable state of  *)
(* db.cc's Insert, Delete, Get and MVCCWriteLevel0, the threads, the       *)
(* tables, the flush and the files fit together as Inv says.               *)
THEOREM Invariance == Spec => []Inv
<1>1. Inv /\ [Next]_vars => Inv'
  BY NextInv, Stutter
<1> QED
  BY <1>1, InitInv, PTL DEF Spec

(* Every variable keeps its type, and compact_future_ never stands for the *)
(* table that Insert is writing to.                                        *)
THEOREM TypeCorrect == Spec => []TypeOK
<1>1. Inv => TypeOK
  <2> SUFFICES ASSUME Inv PROVE TypeOK
    OBVIOUS
  <2>0. Typed /\ Future
    BY DEF Inv
  <2>1. RW!TypeOK
    BY <2>0 DEF Typed, RWP!Inv, RWP!TypeOK, RW!TypeOK, RWP!Phases, RW!Phases
  <2>2. Pool!TypeOKPool
    BY <2>0 DEF Typed, PP!PoolInv, PP!TypeOKPool, Pool!TypeOKPool, PP!WorkerStates,
                Pool!WorkerStates
  <2>3. PICK m \in Nat \ {0} : m = Len(tables)
    BY <2>0, TypeFacts DEF mem_table_
  <2>4. compact_future_ \in 0..(m - 1)
    BY <2>0, <2>3 DEF Future, mem_table_
  <2> QED
    BY <2>0, <2>1, <2>2, <2>3, <2>4 DEF TypeOK, Typed
<1> QED
  BY <1>1, Invariance, PTL

(* A thread inside TCTable::Insert writes to the active table: the shared  *)
(* lock of Insert keeps the swap, which holds the lock exclusively, away.  *)
THEOREM ActiveTableWritten == Spec => []WritesHitActiveTable
<1>1. Inv => WritesHitActiveTable
  BY DEF Inv, Programs, TableAt, WritesHitActiveTable, At
<1> QED
  BY <1>1, Invariance, PTL

(* No two Inserts draw the same id, although every TCTable has a counter   *)
(* of its own that starts where the one before stood at the swap.          *)
THEOREM IdsAreUnique == Spec => []InsertIdsUnique
<1>1. Inv => InsertIdsUnique
  <2> SUFFICES ASSUME Inv,
                      NEW t \in DOMAIN tables, NEW u \in DOMAIN tables,
                      NEW d \in tables[t].entries, NEW e \in tables[u].entries,
                      d.id = e.id, Locked(d.op), Locked(e.op)
               PROVE  t = u /\ d = e
    BY DEF InsertIdsUnique
  <2>1. /\ DOMAIN tables \subseteq Nat /\ tables[t] \in TableType
    BY TypeFacts DEF Inv
  <2>2. d.id \in Nat
    BY <2>1 DEF TableType, Entry
  <2>3. d \in Inserted(t) /\ e \in Inserted(u) /\ IdsGrow
    BY DEF Inserted, Inv, Ids
  <2>4. ~ (t < u) /\ ~ (u < t)
    BY <2>2, <2>3 DEF IdsGrow
  <2>5. t = u
    BY <2>1, <2>4
  <2> QED
    BY <2>3, <2>5 DEF IdsGrow
<1> QED
  BY <1>1, Invariance, PTL

(* No step on the way from the memtable to level 0 drops an acknowledged   *)
(* Insert, unless its flush reports an error: MVCCWriteLevel0 frees the    *)
(* table with the file in its hands, and the version lists the file before *)
(* the future is ready.                                                    *)
THEOREM NothingIsLost == Spec => []NothingLost
<1>1. Inv => NothingLost
  <2> SUFFICES ASSUME Inv, NEW n \in acked, Locked(n)
               PROVE  \/ \E t \in DOMAIN tables :
                            /\ Holds(tables[t].entries, n)
                            /\ tables[t].alive \/ tables[t].flush = "error"
                      \/ \E w \in Workers : At(w, "fl_version") /\ Holds(local[w].file, n)
                      \/ \E i \in DOMAIN level0 : Holds(level0[i], n)
    BY DEF NothingLost
  <2>1. PICK t \in DOMAIN tables : \E e \in tables[t].entries : e.op = n
    BY DEF Inv, Reads, Holds
  <2>e. PICK e \in tables[t].entries : e.op = n
    BY <2>1
  <2>2. e \in Inserted(t) /\ Holds(tables[t].entries, n)
    BY <2>e DEF Inserted, Holds
  <2>3. tables[t].flush \in {"none", "ok", "error"}
    BY <2>1, TypeFacts DEF Inv, TableType
  <2>4. CASE tables[t].alive \/ tables[t].flush = "error"
    BY <2>2, <2>4
  <2>5. CASE ~ tables[t].alive /\ tables[t].flush = "none"
    <3>1. PICK w \in Workers : pc[w] = "fl_version" /\ local[w].tbl = t
      BY <2>5 DEF Inv, Freed
    <3>2. e \in local[w].file
      BY <3>1, <2>2 DEF Inv, Files
    <3> QED
      BY <3>1, <3>2, <2>e DEF At, Holds
  <2>6. CASE tables[t].flush = "ok"
    <3>1. PICK i \in DOMAIN level0 : e \in level0[i]
      BY <2>2, <2>6 DEF Inv, Files
    <3> QED
      BY <3>1, <2>e DEF Holds
  <2> QED
    BY <2>3, <2>4, <2>5, <2>6
<1> QED
  BY <1>1, Invariance, PTL

(* The files of level 0 are in the order of the ids of what was inserted,  *)
(* which IterMerge relies on: there is one flush at a time, and the tables *)
(* are flushed in the order in which they were filled.                     *)
THEOREM FilesAreOrdered == Spec => []Level0Ordered
<1>1. Inv => Level0Ordered
  BY DEF Inv, Files
<1> QED
  BY <1>1, Invariance, PTL

(* At most two memtables are in memory: Insert waits for the last flush    *)
(* before it swaps, and one that failed leaves the write lock taken.       *)
THEOREM MemoryBounded == Spec => []OneImmutable
<1>1. Inv => OneImmutable
  <2> SUFFICES ASSUME Inv PROVE OneImmutable
    OBVIOUS
  <2>0. Typed /\ Future /\ Freed
    BY DEF Inv
  <2>1. PICK m \in Nat \ {0} : m = mem_table_ /\ DOMAIN tables = 1..m
    BY <2>0, TypeFacts
  <2> DEFINE A == {t \in DOMAIN tables : tables[t].alive}
             B == {m - 1, m}
  <2>2. A \subseteq B
    BY <2>0, <2>1 DEF Future, Freed
  <2>3. IsFiniteSet(B) /\ Cardinality(B) <= 2
    <3>1. IsFiniteSet({m}) /\ Cardinality({m}) = 1
      BY FS_Singleton
    <3>2. B = {m} \union {m - 1} /\ m - 1 \notin {m}
      BY <2>1
    <3>3. IsFiniteSet({m} \union {m - 1}) /\ Cardinality({m} \union {m - 1}) = 2
      BY <3>1, <3>2, FS_AddElement
    <3> QED
      BY <3>2, <3>3
  <2>4. Cardinality(A) \in Nat /\ Cardinality(B) \in Nat /\ Cardinality(A) <= Cardinality(B)
    BY <2>2, <2>3, FS_Subset, FS_CardinalityType
  <2> QED
    BY <2>3, <2>4 DEF OneImmutable
<1> QED
  BY <1>1, Invariance, PTL

(* A Get, which takes no lock, misses an acknowledged Insert only between  *)
(* the swap of its table and the version that lists its file, or after a   *)
(* flush that reported an error.                                           *)
THEOREM MissesOnlyDuringFlush == Spec => MissOnlyDuringFlush
<1> DEFINE Excused == \A n \in missed' \ missed : Locked(n) =>
                         \E t \in 1..(mem_table_ - 1) : /\ Holds(tables[t].entries, n)
                                                        /\ tables[t].flush # "ok"
<1>1. ASSUME Inv, Next PROVE Excused
  <2>1. PICK a \in Actors : Step(a)
    BY <1>1, EveryStep
  <2> SUFFICES ASSUME NEW n \in missed' \ missed, Locked(n)
               PROVE  \E t \in 1..(mem_table_ - 1) : /\ Holds(tables[t].entries, n)
                                                     /\ tables[t].flush # "ok"
    OBVIOUS
  <2>2. GetFromFiles(a)
    BY <2>1 DEF Step, OwnStep, LoadTable, CheckUsage, Recheck, EnterTable, DeleteLoad,
       GetLoad, GetFromTable, StartInsertTask, StartFlushTask,
       LockUser, AskWriteLock, ReleaseWriteLock, AskReadLock, ResumeLock,
       WriteReturn, PoolUser, ConcurrentInsertNotify, SwapNotify, PoolStep,
       FinishTask, SharedStep, TableUser, TableAllocate, TableDrawId, TablePut,
       CompactFails, DeleteImmutable, AppendVersion, SwapTable, GetFuture, WriteFile,
       CallStep, CallInsert, CallDelete, CallConcurrentInsert, CallGet, Call, callvars
  <2>3. /\ pc[a] = "get_files" /\ n = local[a].op
        /\ \A i \in DOMAIN level0 : ~ Holds(level0[i], n)
    BY <2>2 DEF GetFromFiles, At
  <2>4. PICK t \in 1..(mem_table_ - 1) : Holds(tables[t].entries, n)
    BY <2>3, <1>1 DEF Inv, Reads
  <2>5. t \in DOMAIN tables
    BY <2>4, <1>1, TypeFacts DEF Inv
  <2>6. PICK e \in Inserted(t) : e.op = n
    BY <2>4 DEF Holds, Inserted
  <2>7. tables[t].flush # "ok"
    BY <2>3, <2>5, <2>6, <1>1 DEF Inv, Files, Holds
  <2> QED
    BY <2>4, <2>7
<1>2. Inv /\ [Next]_vars => [Excused]_vars
  BY <1>1
<1> QED
  BY <1>2, Invariance, PTL DEF Spec, MissOnlyDuringFlush

-----------------------------------------------------------------------------
(* The parts as the database uses them: whatever Insert, Delete, Get and   *)
(* the flush do, mmt_trans_lock_ behaves as ReadWriteLock says, so that    *)
(* everything proved about the lock holds of it here.                      *)
THEOREM UsesTheLock == Spec => RWP!Spec
<1>1. Init => RWP!Init
  BY DEF Init, RW!Init, RWP!Init
<1>2. [Next]_vars => [RWP!Next]_(RWP!vars)
  <2>1. ASSUME NEW a \in Actors, Step(a)
        PROVE  LockCall(a) \/ UNCHANGED lockvars
    BY <2>1 DEF Step, OwnStep, LoadTable, CheckUsage, Recheck, EnterTable, DeleteLoad,
       GetLoad, GetFromTable, GetFromFiles, StartInsertTask, StartFlushTask,
       LockUser, AskWriteLock, ReleaseWriteLock, AskReadLock, ResumeLock,
       WriteReturn, PoolUser, ConcurrentInsertNotify, SwapNotify, PoolStep,
       FinishTask, SharedStep, TableUser, TableAllocate, TableDrawId, TablePut,
       CompactFails, DeleteImmutable, AppendVersion, SwapTable, GetFuture, WriteFile,
       CallStep, CallInsert, CallDelete, CallConcurrentInsert, CallGet, Call, LockCall
  <2>2. Next => [RWP!Next]_(RWP!vars)
    BY <2>1, EveryStep, LockUse
  <2>3. UNCHANGED vars => UNCHANGED (RWP!vars)
    BY DEF vars, lockvars, RWP!vars
  <2> QED
    BY <2>2, <2>3
<1> QED
  BY <1>1, <1>2, PTL DEF Spec, RWP!Spec

(* No Insert is forgotten in the queue of the lock: one that waits for the *)
(* write lock, or for the shared lock, always has a thread ahead of it     *)
(* that will notify it.  An Insert that returned an error keeps the write  *)
(* lock, and is then that thread for good.                                 *)
THEOREM NoInsertStranded == Spec => []RWP!NoStranded
<1>1. RWP!Spec => []RWP!NoStranded
  BY LockAssumptions, RWP!NobodyStranded DEF RWP!ThreadsAssumption, RWP!OptionAssumption,
     RWP!SpuriousAssumption
<1> QED
  BY <1>1, UsesTheLock, PTL
=============================================================================
