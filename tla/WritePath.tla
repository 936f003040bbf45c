----------------------------- MODULE WritePath -----------------------------
(***************************************************************************)
(* The write path of TCDB (src/table/db.cc, src/table/db_table.cc): how    *)
(* Insert, ConcurrentInsert, Delete and Get share the memtable with the    *)
(* background flush MVCCWriteLevel0, through the read-write lock           *)
(* mmt_trans_lock_, the thread pool and the future compact_future_.        *)
(*                                                                         *)
(* The lock is ReadWriteLock and the pool ThreadPool, step for step; this  *)
(* module adds the program of every thread, a client or a core thread of   *)
(* the pool running a task.  What BackgroundCompact does to the files is   *)
(* the subject of another module; here it succeeds or fails.  Wake-ups     *)
(* without a notification are left to the modules of the lock, which the   *)
(* default option does not survive, and of the pool, which is immune.      *)
(***************************************************************************)
EXTENDS Integers, Sequences, FiniteSets

CONSTANTS Clients,      \* threads of the application
          Workers,      \* core threads of the pool
          Ops,          \* what the first, second, ... call may be; a bound
          TableLimit,   \* entries that fill a memtable (kDefaultSSTFileSize)
          MaxFailures   \* bound on failing flushes

ASSUME WritePathAssumption ==
    /\ IsFiniteSet(Clients) /\ IsFiniteSet(Workers)
    /\ Clients \intersect Workers = {}
    /\ Ops \in Seq(SUBSET {"insert", "concurrent", "delete", "get"})
    /\ TableLimit \in Nat \ {0} /\ MaxFailures \in Nat

Actors == Clients \union Workers

VARIABLES write_count_, read_count_, phase, spurious,    \* mmt_trans_lock_
          task_queue_, wpc, task, notifying, stage,      \* thread_pool_
          pc,               \* where each thread is in its call or task
          local,            \* its locals: the table, the entry id, the call
          tables,           \* every TCTable made so far; the last is mem_table_
          compact_future_,  \* the table whose flush it stands for, 0 if none
          level0,           \* the entries of each level 0 file of the version
          calls,            \* the calls made so far, by what was called
          acked,            \* calls whose entry was acknowledged
          missed,           \* acknowledged inserts that a Get did not find
          failures          \* flushes that failed so far

lockvars == <<write_count_, read_count_, phase, spurious>>
poolvars == <<task_queue_, wpc, task, notifying, stage>>
storevars == <<tables, compact_future_, level0, failures>>
callvars == <<calls, acked, missed>>
vars == <<lockvars, poolvars, pc, local, storevars, callvars>>

TaskSet == [kind : {"flush", "insert"}, arg : Nat]
NoTask == [kind |-> "none", arg |-> 0]

RW == INSTANCE ReadWriteLock WITH Threads <- Actors, Option <- "Allow",
                                  MaxSpurious <- 0
Pool == INSTANCE ThreadPool WITH Submitters <- Actors, Tasks <- TaskSet

NewTable(id) ==
    [usage |-> 0, next_id |-> id, entries |-> {}, alive |-> TRUE,
     flush |-> "none"]

mem_table_ == Len(tables)

Full(t) == tables[t].usage >= TableLimit

NoLocals == [tbl |-> 0, id |-> 0, op |-> 0, ret |-> "ok", file |-> {}]

(* The constructor: an empty table, no future, the pool started.           *)
Init ==
    /\ RW!Init
    /\ task_queue_ = <<>>
    /\ wpc = [w \in Workers |-> "loop"]
    /\ task = [w \in Workers |-> NoTask]
    /\ notifying = {}
    /\ stage = "running"
    /\ pc = [a \in Actors |-> "idle"]
    /\ local = [a \in Actors |-> NoLocals]
    /\ tables = <<NewTable(0)>>
    /\ compact_future_ = 0
    /\ level0 = <<>>
    /\ calls = <<>>
    /\ acked = {}
    /\ missed = {}
    /\ failures = 0

At(a, l) == pc[a] = l

Goto(a, l) == pc' = [pc EXCEPT ![a] = l]

SetTable(a, t) == local' = [local EXCEPT ![a].tbl = t]

\* A client returns to its caller, a core thread to the wrapper of the task.
Return(a) ==
    /\ Goto(a, IF a \in Clients THEN "idle" ELSE "task_done")
    /\ local' = [local EXCEPT ![a] = NoLocals]

-----------------------------------------------------------------------------
(* The clients' calls.                                                     *)
Begin(c, op) ==
    /\ At(c, "idle")
    /\ Len(calls) < Len(Ops)
    /\ op \in Ops[Len(calls) + 1]
    /\ calls' = Append(calls, op)

Call(c, op, first) ==
    /\ Begin(c, op)
    /\ local' = [local EXCEPT ![c].op = Len(calls')]
    /\ Goto(c, first)
    /\ UNCHANGED <<lockvars, storevars, acked, missed>>

CallInsert(c) == Call(c, "insert", "ins_load") /\ UNCHANGED poolvars

\* The cache has nothing to delete; the memtable is next.
CallDelete(c) == Call(c, "delete", "del_load") /\ UNCHANGED poolvars

\* ConcurrentInsert hands Insert to the pool and forgets the future.
CallConcurrentInsert(c) ==
    /\ Call(c, "concurrent", "con_notify")
    /\ Pool!Enqueue(c, [kind |-> "insert", arg |-> Len(calls')])

ConcurrentInsertNotify(c) ==
    /\ At(c, "con_notify")
    /\ Pool!NotifyOne(c)
    /\ Return(c)
    /\ UNCHANGED <<lockvars, storevars, callvars>>

\* Get of the key of call n, which was acknowledged before.
CallGet(c) ==
    \E n \in acked :
        /\ Begin(c, "get")
        /\ local' = [local EXCEPT ![c].op = n]
        /\ Goto(c, "get_load")
        /\ UNCHANGED <<lockvars, poolvars, storevars, acked, missed>>

-----------------------------------------------------------------------------
(* Insert: the test for a full table, without and then with the lock.      *)
LoadTable(a) ==
    /\ At(a, "ins_load")
    /\ SetTable(a, mem_table_)
    /\ Goto(a, "ins_check")
    /\ UNCHANGED <<lockvars, poolvars, storevars, callvars>>

\* The table may have been flushed and freed since its address was read:
\* then MemUsage returns anything.
CheckUsage(a) ==
    /\ At(a, "ins_check")
    /\ \/ /\ ~ tables[local[a].tbl].alive \/ Full(local[a].tbl)
          /\ Goto(a, "ins_wlock")
       \/ /\ ~ tables[local[a].tbl].alive \/ ~ Full(local[a].tbl)
          /\ Goto(a, "ins_rlock")
    /\ UNCHANGED <<lockvars, poolvars, local, storevars, callvars>>

AskWriteLock(a) ==
    /\ At(a, "ins_wlock")
    /\ RW!WriteLock(a)
    /\ Goto(a, "ins_recheck")
    /\ UNCHANGED <<poolvars, local, storevars, callvars>>

\* Mutant: the last flush is not waited for.
RecheckNoWait(a) ==
    /\ At(a, "ins_recheck")
    /\ phase[a] = "writing"
    /\ Goto(a, IF Full(mem_table_) THEN "ins_swap" ELSE "ins_wunlock")
    /\ UNCHANGED <<lockvars, poolvars, local, storevars, callvars>>

Recheck(a) ==
    /\ At(a, "ins_recheck")
    /\ phase[a] = "writing"
    /\ Goto(a, IF ~ Full(mem_table_) THEN "ins_wunlock"
               ELSE IF compact_future_ # 0 THEN "ins_get" ELSE "ins_swap")
    /\ UNCHANGED <<lockvars, poolvars, local, storevars, callvars>>

\* compact_future_.get() blocks until the task is done and takes the result
\* out of the future.  An error is returned with the write lock held.
GetFuture(a) ==
    /\ At(a, "ins_get")
    /\ tables[compact_future_].flush \in {"ok", "error"}
    /\ compact_future_' = 0
    /\ IF tables[compact_future_].flush = "ok"
       THEN Goto(a, "ins_swap") /\ UNCHANGED local
       ELSE Return(a)
    /\ UNCHANGED <<lockvars, poolvars, tables, level0, failures, callvars>>

\* Mutant: the new table numbers its entries from 0.
SwapTableFromZero(a) ==
    /\ At(a, "ins_swap")
    /\ Pool!Enqueue(a, [kind |-> "flush", arg |-> mem_table_])
    /\ tables' = Append(tables, NewTable(0))
    /\ compact_future_' = mem_table_
    /\ Goto(a, "ins_notify")
    /\ UNCHANGED <<lockvars, local, level0, failures, callvars>>

(* The table becomes immutable, a new one takes its place and its entry    *)
(* ids, and the flush is submitted.                                        *)
SwapTable(a) ==
    /\ At(a, "ins_swap")
    /\ Pool!Enqueue(a, [kind |-> "flush", arg |-> mem_table_])
    /\ tables' = Append(tables, NewTable(tables[mem_table_].next_id))
    /\ compact_future_' = mem_table_
    /\ Goto(a, "ins_notify")
    /\ UNCHANGED <<lockvars, local, level0, failures, callvars>>

SwapNotify(a) ==
    /\ At(a, "ins_notify")
    /\ Pool!NotifyOne(a)
    /\ Goto(a, "ins_wunlock")
    /\ UNCHANGED <<lockvars, local, storevars, callvars>>

ReleaseWriteLock(a) ==
    /\ At(a, "ins_wunlock")
    /\ RW!WriteUnlock(a)
    /\ Goto(a, "ins_rlock")
    /\ UNCHANGED <<poolvars, local, storevars, callvars>>

\* Mutant: the table is written without the shared lock.
AskNoLock(a) ==
    /\ At(a, "ins_rlock")
    /\ SetTable(a, mem_table_)
    /\ Goto(a, "tab_alloc")
    /\ UNCHANGED <<lockvars, poolvars, storevars, callvars>>

AskReadLock(a) ==
    /\ At(a, "ins_rlock")
    /\ RW!ReadLock(a)
    /\ Goto(a, "ins_table")
    /\ UNCHANGED <<poolvars, local, storevars, callvars>>

EnterTable(a) ==
    /\ At(a, "ins_table")
    /\ phase[a] = "reading"
    /\ SetTable(a, mem_table_)
    /\ Goto(a, "tab_alloc")
    /\ UNCHANGED <<lockvars, poolvars, storevars, callvars>>

ResumeLock(a) ==
    /\ RW!Resume(a)
    /\ UNCHANGED <<poolvars, pc, local, storevars, callvars>>

(* Delete takes no lock and never looks at the size of the table.          *)
DeleteLoad(a) ==
    /\ At(a, "del_load")
    /\ SetTable(a, mem_table_)
    /\ Goto(a, "tab_alloc")
    /\ UNCHANGED <<lockvars, poolvars, storevars, callvars>>

(* TCTable::Insert and TCTable::Delete: allocate under the table's mutex,  *)
(* draw an id from the atomic counter, link the entry under the mutex.     *)
Table(a) == tables[local[a].tbl]

TableAllocate(a) ==
    /\ At(a, "tab_alloc")
    /\ tables' = [tables EXCEPT ![local[a].tbl].usage = @ + 1]
    /\ Goto(a, "tab_id")
    /\ UNCHANGED <<lockvars, poolvars, local, compact_future_, level0, failures,
                   callvars>>

TableDrawId(a) ==
    /\ At(a, "tab_id")
    /\ local' = [local EXCEPT ![a].id = Table(a).next_id]
    /\ tables' = [tables EXCEPT ![local[a].tbl].next_id = @ + 1]
    /\ Goto(a, "tab_put")
    /\ UNCHANGED <<lockvars, poolvars, compact_future_, level0, failures,
                   callvars>>

TablePut(a) ==
    /\ At(a, "tab_put")
    /\ tables' = [tables EXCEPT ![local[a].tbl].entries =
                     @ \union {[id |-> local[a].id, op |-> local[a].op]}]
    /\ Goto(a, "tab_done")
    /\ UNCHANGED <<lockvars, poolvars, local, compact_future_, level0, failures,
                   callvars>>

\* Insert gives back the shared lock, Delete has none; the call returns.
WriteReturn(a) ==
    /\ At(a, "tab_done")
    /\ IF phase[a] = "reading" THEN RW!ReadUnlock(a) ELSE UNCHANGED lockvars
    /\ acked' = acked \union {local[a].op}
    /\ Return(a)
    /\ UNCHANGED <<poolvars, storevars, calls, missed>>

-----------------------------------------------------------------------------
(* Get: the memtable, without a lock, then the files of the version.       *)
Holds(entries, n) == \E e \in entries : e.op = n

GetLoad(a) ==
    /\ At(a, "get_load")
    /\ SetTable(a, mem_table_)
    /\ Goto(a, "get_table")
    /\ UNCHANGED <<lockvars, poolvars, storevars, callvars>>

\* A freed table may show the entry or not.
GetFromTable(a) ==
    /\ At(a, "get_table")
    /\ \/ /\ Holds(Table(a).entries, local[a].op)
          /\ Return(a)
       \/ /\ ~ Table(a).alive \/ ~ Holds(Table(a).entries, local[a].op)
          /\ Goto(a, "get_files")
          /\ UNCHANGED local
    /\ UNCHANGED <<lockvars, poolvars, storevars, callvars>>

GetFromFiles(a) ==
    /\ At(a, "get_files")
    /\ missed' = IF \E i \in DOMAIN level0 : Holds(level0[i], local[a].op)
                 THEN missed ELSE missed \union {local[a].op}
    /\ Return(a)
    /\ UNCHANGED <<lockvars, poolvars, storevars, calls, acked>>

-----------------------------------------------------------------------------
(* A core thread and its tasks.                                            *)
PoolStep(w) ==
    /\ Pool!WorkerStep(w)
    /\ UNCHANGED <<lockvars, pc, local, storevars, callvars>>

StartInsertTask(w) ==
    /\ At(w, "idle") /\ wpc[w] = "run" /\ task[w].kind = "insert"
    /\ local' = [local EXCEPT ![w].op = task[w].arg]
    /\ Goto(w, "ins_load")
    /\ UNCHANGED <<lockvars, poolvars, storevars, callvars>>

(* MVCCWriteLevel0.  A failing BackgroundCompact returns at once.          *)
StartFlushTask(w) ==
    /\ At(w, "idle") /\ wpc[w] = "run" /\ task[w].kind = "flush"
    /\ SetTable(w, task[w].arg)
    /\ Goto(w, "fl_write")
    /\ UNCHANGED <<lockvars, poolvars, storevars, callvars>>

SetResult(w, r) == tables' = [tables EXCEPT ![local[w].tbl].flush = r]

\* Mutant: the flush gives up and reports success.
CompactFailsQuietly(w) ==
    /\ At(w, "fl_write")
    /\ failures < MaxFailures
    /\ failures' = failures + 1
    /\ SetResult(w, "ok")
    /\ Goto(w, "task_done")
    /\ UNCHANGED <<lockvars, poolvars, local, compact_future_, level0, callvars>>

CompactFails(w) ==
    /\ At(w, "fl_write")
    /\ failures < MaxFailures
    /\ failures' = failures + 1
    /\ SetResult(w, "error")
    /\ Goto(w, "task_done")
    /\ UNCHANGED <<lockvars, poolvars, local, compact_future_, level0, callvars>>

(* WriteLevel0File writes the entry set to a file and lists it in the      *)
(* manifest; either write may fail.  MVCCWriteLevel0 goes on regardless.   *)
WriteFile(w) ==
    /\ At(w, "fl_write")
    /\ \E r \in {"ok", "file_error", "manifest_error"} :
          /\ r # "ok" => failures < MaxFailures
          /\ failures' = IF r = "ok" THEN failures ELSE failures + 1
          /\ local' = [local EXCEPT ![w].ret = r, ![w].file = Table(w).entries]
    /\ Goto(w, "fl_free")
    /\ UNCHANGED <<lockvars, poolvars, tables, compact_future_, level0, callvars>>

DeleteImmutable(w) ==
    /\ At(w, "fl_free")
    /\ tables' = [tables EXCEPT ![local[w].tbl].alive = FALSE]
    /\ Goto(w, "fl_version")
    /\ UNCHANGED <<lockvars, poolvars, local, compact_future_, level0, failures,
                   callvars>>

\* Mutant: the version is not appended.
AppendNoVersion(w) ==
    /\ At(w, "fl_version")
    /\ SetResult(w, "ok")
    /\ Goto(w, "task_done")
    /\ UNCHANGED <<lockvars, poolvars, local, compact_future_, level0, failures,
                   callvars>>

(* AppendVersion refuses a manifest it knows, which is the case when the   *)
(* file was not listed.  The packaged task then delivers the result.       *)
AppendVersion(w) ==
    /\ At(w, "fl_version")
    /\ level0' = IF local[w].ret = "file_error" THEN level0
                 ELSE Append(level0, local[w].file)
    /\ SetResult(w, IF local[w].ret = "ok" THEN "ok" ELSE "error")
    /\ Goto(w, "task_done")
    /\ UNCHANGED <<lockvars, poolvars, local, compact_future_, failures, callvars>>

FinishTask(w) ==
    /\ At(w, "task_done")
    /\ Pool!Finish(w)
    /\ Goto(w, "idle")
    /\ local' = [local EXCEPT ![w] = NoLocals]
    /\ UNCHANGED <<lockvars, storevars, callvars>>

-----------------------------------------------------------------------------
CallStep(c) ==
    CallInsert(c) \/ CallDelete(c) \/ CallConcurrentInsert(c) \/ CallGet(c)

InsertStep(a) ==
    \/ LoadTable(a) \/ CheckUsage(a)
    \/ AskWriteLock(a) \/ Recheck(a) \/ GetFuture(a)
    \/ SwapTable(a) \/ SwapNotify(a) \/ ReleaseWriteLock(a)
    \/ AskReadLock(a) \/ EnterTable(a) \/ ResumeLock(a)
    \/ TableAllocate(a) \/ TableDrawId(a) \/ TablePut(a) \/ WriteReturn(a)

ClientStep(c) ==
    \/ ConcurrentInsertNotify(c) \/ DeleteLoad(c)
    \/ GetLoad(c) \/ GetFromTable(c) \/ GetFromFiles(c)

FlushStep(w) ==
    \/ StartFlushTask(w) \/ WriteFile(w) \/ CompactFails(w)
    \/ DeleteImmutable(w) \/ AppendVersion(w)

TaskStep(w) == StartInsertTask(w) \/ FlushStep(w) \/ FinishTask(w)

Next ==
    \/ \E c \in Clients : CallStep(c) \/ ClientStep(c)
    \/ \E a \in Actors : InsertStep(a)
    \/ \E w \in Workers : PoolStep(w) \/ TaskStep(w)

(***************************************************************************)
(* Every thread keeps running: a call or task that has been started takes  *)
(* its next step when it can, and so does a core thread in its loop.  No   *)
(* client has to call anything, and no wake-up comes by itself.            *)
(***************************************************************************)
Fairness ==
    /\ \A c \in Clients : WF_vars(ClientStep(c) \/ InsertStep(c))
    /\ \A w \in Workers : WF_vars(PoolStep(w) \/ TaskStep(w) \/ InsertStep(w))

Spec == Init /\ [][Next]_vars
FairSpec == Spec /\ Fairness

-----------------------------------------------------------------------------
Locations ==
    {"idle", "ins_load", "ins_check", "ins_wlock", "ins_recheck", "ins_get",
     "ins_swap", "ins_notify", "ins_wunlock", "ins_rlock", "ins_table",
     "tab_alloc", "tab_id", "tab_put", "tab_done", "con_notify", "del_load",
     "get_load", "get_table", "get_files", "fl_write", "fl_free",
     "fl_version", "task_done"}

(* Every thread is at a line of its call, the future stands for no table   *)
(* or for one that is not the active one, and the pool and the lock hold   *)
(* what their own modules say.                                             *)
TypeOK ==
    /\ RW!TypeOK
    /\ Pool!TypeOKPool
    /\ pc \in [Actors -> Locations]
    /\ compact_future_ \in 0..(Len(tables) - 1)
    /\ Len(calls) <= Len(Ops)
    /\ \A n \in DOMAIN calls : calls[n] \in Ops[n]
    /\ acked \subseteq DOMAIN calls
    /\ failures \in 0..MaxFailures

\* Delete is the one writer that takes no lock.
Locked(n) == calls[n] # "delete"

(* While a thread is inside TCTable::Insert the table it writes to is the  *)
(* active one: the shared lock keeps Insert from swapping it away, so the  *)
(* flush never reads a table that an Insert is still writing.              *)
WritesHitActiveTable ==
    \A a \in Actors :
        /\ At(a, "tab_alloc") \/ At(a, "tab_id") \/ At(a, "tab_put")
        /\ Locked(local[a].op)
        => local[a].tbl = mem_table_

(* Every acknowledged Insert is in the active table, in a table that is    *)
(* still in memory, in the file being added or in a level 0 file, or else  *)
(* the flush of its table failed: nothing but an error drops a write on    *)
(* its way from the memtable to level 0.                                   *)
NothingLost ==
    \A n \in acked : Locked(n) =>
        \/ \E t \in DOMAIN tables : /\ Holds(tables[t].entries, n)
                                    /\ tables[t].alive \/ tables[t].flush = "error"
        \/ \E w \in Workers : At(w, "fl_version") /\ Holds(local[w].file, n)
        \/ \E i \in DOMAIN level0 : Holds(level0[i], n)

(* Every id that an Insert draws is drawn by no other Insert, although     *)
(* each table has its own counter.                                         *)
InsertIdsUnique ==
    \A t, u \in DOMAIN tables :
        \A d \in tables[t].entries, e \in tables[u].entries :
            d.id = e.id /\ Locked(d.op) /\ Locked(e.op) => t = u /\ d = e

(* internal_entry.h: no two entries of a database instance are the same.   *)
(* Every id is drawn once, by Delete too.                                  *)
EntryIdsUnique ==
    \A t, u \in DOMAIN tables :
        \A d \in tables[t].entries, e \in tables[u].entries :
            d.id = e.id => t = u /\ d = e

(* Level 0 files are in the order of the ids of what was inserted: what a  *)
(* later file says of a key is newer than what an earlier one says.        *)
(* IterMerge decides by ids and relies on it.                              *)
Level0Ordered ==
    \A i, j \in DOMAIN level0 :
        i < j => \A d \in level0[i], e \in level0[j] :
                    Locked(d.op) /\ Locked(e.op) => d.id < e.id

(* At most one immutable table is in memory besides the active one: a full *)
(* table is not swapped before the last flush has finished, which bounds   *)
(* what the database holds in memory.                                      *)
OneImmutable ==
    Cardinality({t \in DOMAIN tables : tables[t].alive}) <= 2

(* Every call returns and every task ends: nobody is left waiting for the  *)
(* lock, for the future or for a core thread.                              *)
EveryCallReturns == \A a \in Actors : ~ At(a, "idle") ~> At(a, "idle")

(* Get reads mem_table_ and later the files, with no lock and without the  *)
(* immutable table.  It misses an acknowledged Insert only if the entry's  *)
(* table had been swapped out and its file is not in the version yet, or   *)
(* never will be because the flush reported an error.                      *)
MissOnlyDuringFlush ==
    [][\A n \in missed' \ missed : Locked(n) =>
          \E t \in 1..(mem_table_ - 1) : /\ Holds(tables[t].entries, n)
                                         /\ tables[t].flush # "ok"]_vars

(* A Get that starts after an Insert has returned finds the entry, also    *)
(* while MVCCWriteLevel0 is at work.                                       *)
GetFindsInsert == missed = {}
=============================================================================
