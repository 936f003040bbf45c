# A TLA+ verification of TomCatDB

TomCatDB is an embedded key-value store in C++11: a log-structured merge tree
with a memtable, SST files in levels, background flush and compaction on a
thread pool, and multi-version manifests. This directory holds TLA+ models of
its components, TLC configurations that check them on small instances, and
TLAPS proofs, for every value of the constants, about the lock, the thread pool, the
write path, the skip list, versions and MANIFEST across crashes, the readers, the query
cache, and the levels of files and what a store of such levels holds.
`PROJECT.json` maps every definition to the lines of source it models and lists
runs, mutants, findings, hazards and theorems.

To check: `tlc -config <cfg> <module>` with a cfg of section 3 (its name begins with
the module's), `tlapm <X>Proofs.tla`.

## 1. The system and its components

| Component (source) | State | Operations | What is hard | What makes it correct |
|---|---|---|---|---|
| Read-write lock (`util/lock_util`) | `write_count_`, `read_count_`, two condition variables | ReadLock/Unlock, WriteLock (two wake-up options)/Unlock | wake-ups, lost or spurious; writer priority | exclusion, exact counters, nobody left asleep, implements a shared lock |
| Thread pool (`util/thread_pool`) | task queue, running flag, core threads, `mtx_`/`cv_` | Start, SubmitTask, Shutdown, core thread loop | flag and queue change outside `mtx_` | no task lost, one at a time; shutdown reaches all threads but one at most |
| Write path (`table/db.cc`, `table/db_table.cc`) | `mem_table_`, `compact_future_`, per-table id counter | Insert, ConcurrentInsert, Delete, Get, MVCCWriteLevel0 | table swap under a lock that some calls do not take; waits on futures; failing flushes | no acknowledged write lost, ids unique, at most one immutable table, Get misses only what is being flushed, every call returns |
| Memtable and skip list (`table/skiplist.h`) | towers of links, `last_node_`, `levels_` | Insert, Get, EntrySet | links of new levels, order of arrival | levels sorted and nested, newest entry found |
| Flush and compaction (`db.cc`, `io.cc`, `util/tools`) | manifest: files of each level; SST files | MVCCWriteLevel0, BackgroundCompact, CompactSST, UpdateManifest | shape of levels after long histories, partial failure | levels ordered, disjoint and bounded; the store is a map of what was written; Get returns the newest and takes values only where there are some |
| Multiway merge (`db.cc`, `util/mem_allocator`) | priority queue, open blocks, reference counts, output buffer | MultiwayMerge, IterMerge, WriteMergeSSTFile | refill at block ends, block lifetime, file limit | output sorted, equal to a merge, no use of a freed block |
| SST layout and search (`io.cc`, `db.cc`) | data blocks, index, filter, footer | WriteSSTFile and its parts, ReadSSTFooter, ReadSSTFlexible, ReadSSTIndex, ReadSSTDataBlock, GetFromSST | block boundaries, offsets computed apart from what is written, binary search over blocks | what is written is read back; search finds and ends |
| File writer (`io/writer.cc`, `io/dbfile.cc`) | buffer, file | WriteBatch, WriteFragment, WriteAppendFile, Open | entries cut at the buffer's end, failing opens | the file holds what was given, in order |
| Bloom filter (`coding/filter.cc`) | bits in a string | CreateFilter, ContainsKey | positions computed twice | no key of the file is rejected |
| MANIFEST and restart (`coding/format.cc`, `io.cc`, `db.cc`) | the MANIFEST file, the SST files, `file_id_` | Encode, Decode, BuildMetadataFile, ReadManifest, WriteManifest, UpdateManifest | crash between truncate and write; names used again | the next instance sees the files of the last version; nothing flushed is lost |
| Versions (`table/version`) | list of manifests with reference counts | LatestVersion, AppendVersion, UnrefVersion | iterators used after the mutex is released | no iterator dangles, the latest stays, old ones go |
| Reader pool (`io.cc`, `io/reader.cc`) | vector of four readers with a buffer each | Read* of TCIO | sharing, failing reads, more threads than readers | a read returns its own bytes, readers are conserved |
| Query cache (`table/cache`, `util/dual_list.h`) | LRU list, hash map, allocator blocks | Insert, Delete, Get | index keyed by callers' memory, eviction at capacity | LRU order, list and index agree, exact reference counts |
| Entry coding (`coding/varint`, `coding/internal_entry`) | – | encode, decode | shifts per length, boundary at 128 | round trip |
| Logger, config, CSV | | | | see section 7 |

**How they interact.** A client calls `TCDB::Insert`; it takes
`mmt_trans_lock_` shared to write into `mem_table_`. The client that finds the
table full takes the lock exclusively, waits for `compact_future_`, swaps the
table and submits `MVCCWriteLevel0` to the pool. The task takes the latest
version, compacts levels that are too large, writes the immutable table as a
level 0 file and appends a new version; after every compaction and at its end it
rewrites MANIFEST, which the constructor of the next instance reads. `Get` looks at the query cache, the
active memtable and then the files of the latest version, level by level.

## 2. Modules

| Module | Models | Used by |
|---|---|---|
| `SharedLock` | abstract: any number of readers or one writer | `ReadWriteLock` (refinement) |
| `ReadWriteLock` | the lock; a method is one step up to its wait and one from its wake-up on, since it holds `rw_count_mtx_` otherwise | `WritePath` |
| `ThreadPool` | the pool; every access outside `mtx_` is a step | `WritePath`, `MCThreadPool` |
| `WritePath` | **composition**: the programs of client and core threads over `ReadWriteLock` and `ThreadPool`, one step per shared access | – |
| `Entries` | entries, their order, and what a merge yields | `LSM`, `SSTFormat`, `SkipList` |
| `LSM` | memtable, flush, all levels, search order; client calls and passes of the background task are steps | – |
| `Writer` | `SequentialWriter`: the buffer between entries and file | `SSTFormat` |
| `BloomFilter` | `TCBloomFilter`, bit by bit, over any hash function | `SSTFormat` |
| `SSTFormat` | the bytes of an SST file, written and read back | `SSTSearch`, `MultiwayMerge` |
| `SSTSearch` | `GetFromSST`: filter and binary search | – |
| `MultiwayMerge` | `MultiwayMerge`/`IterMerge`, shown to compute `Entries!Merge`, which `LSM` uses | – |
| `VersionCtrl` | the version list beside `Get` and the flush | `Recovery` |
| `Recovery` | **composition**: what the flush and `Get` do to the version list together with the files on disk, one step per write; crash, restart, failing opens | – |
| `SkipList` | the skip list under a memtable | – |
| `ReaderPool` | the readers of `TCIO` | – |
| `Varint`, `EntryCoding` | 64-bit varints; a number through memory, and entries in a data block | – |
| `LRUCache` | `TCCache`, its list, index and allocator | – |
| `*Proofs` | theorems about the module they are named after (`RecoveryProofs`: also about `VersionCtrl` within it), and the lemmas about sequences, sets and numbers they need | `WritePathProofs` instantiates those of lock and pool |
| `MC*` | instances for TLC | – |

Names follow the source: variables keep the names of members (`write_count_`,
`task_queue_`, `mem_table_`), actions the names of methods. Definitions marked
`Mutant` are deliberately wrong variants of the definition that follows them;
no specification uses them. `PROJECT.json` pairs each checked property with a
mutant that breaks it.

Abstractions that matter:

* Keys are numbers, an entry is a record of key, id and operation; its size is
  one in `LSM`, up to four bytes in the file modules. `EntryCoding` has the bytes
  of an entry. In `SSTFormat` a byte is a record that says what it is a byte of,
  so that a read at a wrong offset gives nonsense, and not by luck the right value.
* In `LSM` an answer of Get is named after the entry whose value it is, and values
  are not empty: the code cannot tell an empty value from no answer. What
  `EntryValue` makes of an entry without a value is `Garbage`, which stands for any
  bytes or none and equals no proper answer.
* In `WritePath` the inside of a compaction succeeds or fails; in `LSM` client
  calls are atomic. The two modules share the flush protocol and divide it.
* `LSM` with `Faults` lets reads and writes of SST files fail. The files on disk,
  MANIFEST and its failures are in `Recovery`.
* The loop of `BackgroundCompact` compares the size of a level with
  `kDefaultLevelSize[level]` without asking whether there is such a limit. A level
  beyond the last one has none (`HasLimit`), and the model stops there.
* `Recovery` has no keys: a file is its four blocks and the flushes whose entries
  it holds. Which files overlap is any choice `CompactSST` could make, and a merge
  makes one file (`LSM` and `MultiwayMerge` have the rest). MANIFEST is a sequence
  of characters; a path is one character, a name two. A disk keeps what `write`
  was given: losses in the cache of the operating system are left out, and
  neither code nor model ever calls `fsync`. Reading MANIFEST with fewer than two
  lines is undefined in the code and a stage of its own, where the model stops.
* `BloomFilter`: the hash is any function of key and round, the number of bits per
  key a constant; the code computes both from the false positive rate.
* The database writes the query cache only in `Delete`, as a tombstone, which
  `TCCache::Get` reports as a miss; so the other modules leave the cache out.
* `LRUCache`: the hash map keeps hash codes of its elements (as libstdc++ does
  for this hash), codes of different keys are different, and `SeqEqual`
  compares length and first byte, which is all the code looks at.
* `Varint`: expressions such as `*p++ >> 7 | *p << 1` are unsequenced in C++;
  the model takes the left operand first, as the compilers the build uses do.
* `ReaderPool`: what follows `pop_back()` on an empty vector is undefined; the
  thread stops in a state of its own, and run `reader` never gets there.

## 3. Runs

Passing runs (all finish within two minutes):

| Run, cfg | Bounds | Shows | States |
|---|---|---|---|
| `rwlock`, `MCReadWriteLock_lock` | 5 threads, default option, readers woken spuriously at any time, writers never; fair; deadlock checked | exclusion, nobody stranded, refinement of `SharedLock`, writers and readers get in | 4 122 |
| `pool`, `MCThreadPool_pool` | 3 core threads, 2 submitters, 2 tasks, start and shutdown, spurious wake-ups; fair | tasks one at a time, none lost; every task runs while the pool does; one thread at most misses the shutdown | 31 621 |
| `write`, `MCWritePath_write` | 2 clients, 2 core threads, an Insert and two further calls of any kind, tables of one entry, one failing flush | writes hit the active table only, ids of insertions unique, nothing lost, level 0 ordered, at most one immutable table; Get misses only what is being flushed or failed to be | 640 625 |
| `lsm`, `MCLSM_store` | 6 free calls on 2 keys, or 9 insertions in ascending or in descending order with gaps; tables of one entry, files below size 3, levels of 1, 2 and 4 files; SST files may fail; fair | no entry twice, levels bounded, every flush ends; in order: levels ordered, the store is a map of what was written, flushes and compactions included, but for deletions that have reached a file | 72 145 |
| `sst_find`, `MCSSTSearch_find` | every file of up to 7 entries of 1, 2 or 4 bytes, blocks of 2 bytes, a writer's buffer of 3, 2 hash values and 6 bits per key, a key in two versions, 7 query keys; fair | bytes read back as written, filter rejects no key of the file, search finds and ends | 5 450 |
| `merge`, `MCMultiwayMerge_merge` | 1 to 3 files, entries of two sizes, one or two entries in a block | no dangling entry, equals `Merge`, output files below the limit | 107 736 |
| `recovery`, `MCRecovery_crash` | 2 readers, 2 Gets per instance, levels of 2 files, MANIFEST in buffers of 6 characters, 4 flushes, 2 crashes, 1 failing open | iterators valid, versions kept as needed, instances agree with MANIFEST, nothing flushed is lost but in the two windows named | 796 715 |
| `skiplist`, `MCSkipList_insert` | 5 entries of 3 keys in every order and tower | levels nested and complete, newest found | 2 786 |
| `reader`, `MCReaderPool_enough` | 3 threads, 3 readers, 3 calls, failing reads | own bytes, readers conserved | 513k |
| `coding`, `EntryCoding_coding` | blocks of 2 entries, lengths around 128; 5 832 numbers of 1–7, 9 and 10 bytes, 9 surroundings | blocks cut up as written; numbers decoded to what they were | 68 185 |
| `cache`, `MCLRUCache_lru` | capacity 2, 3 keys, 4 puts, blocks of 4 bytes | LRU order, index = list, counts exact, hits latest | 83 368 |

Why the bounds are enough. Tables of one entry make every second call a flush
and every few flushes a cascade through three levels; `Workloads` of `LSM` says
which calls are made, so that histories long enough to reach level 3 stay
small. Two core threads are the least for which the pool loses nothing, and
more add nothing since tasks are serialised (proved). Two clients suffice for
each race between a reader and the swapper of a table; `Ops` of `WritePath`
fixes the first call, so that the second one meets a full table. Capacity 2
with 3 keys is the least cache in which the order of use decides who is
evicted. Levels of two files and four flushes make one flush compact twice, so
that MANIFEST is rewritten three times by one task; with a second crash an
instance starts over the leavings of an instance that itself started over
leavings; buffers of 6 characters cut every MANIFEST that lists a file, within
names too. In `sst_find` entries are shorter than the buffer, as long and longer,
and a block of 2 bytes takes one entry or two. Deadlock checking is off in the runs whose bounded workload ends or in
which a call may block for ever (a failed flush leaves the write lock held).

Most modules also state a `TypeOK`. It is an invariant of the specifications
(TLC agrees on the instances above); section 5 says where it is proved. The inductive
invariants of the write path, the versions, MANIFEST and files, the readers, the cache,
the levels, their order and the skip list (section 5) also hold in every state of the
runs `write`, `recovery`, `reader`, `cache`, `lsm` and `skiplist`, but for the parts that
quantify over infinite sets (`Typed` of `RecoveryProofs` and `Counted` of
`LRUCacheProofs`), which TLC cannot evaluate.

### Where code and comments disagree

Run `write_concurrent` (`MCWritePath_concurrent`) refutes `EveryCallReturns`:
an Insert that `ConcurrentInsert` handed to the pool waits on its core thread
for a flush that is queued behind it, while the comment in `db.cc` promises a
wait until the last compaction finishes. `PROJECT.json` has the quotation.

Get of a flushed deletion returns garbage, on a single thread. A deletion is encoded
without a value (`internal_entry.cc:21`), and `internal_entry.h:37` says of `EntryValue`
"ASSERT: the value exists". `TCTable::Get` looks at the operation before it asks for the
value; `TCDB::Get` does not look at the operation of what it has found in a file
(`db.cc:81`), so it reads behind the copy of the entry. `ValueExists` states the
assertion. With the constants of `MCLSM_store` TLC refutes it in five states: Delete(1),
Insert(2), which fills the table, and the flush.
`StoredIfInOrder` leaves out these keys and no others: `FlushedDeletion` says that
the last entry of the key is a deletion and is in a file of the version.

Other properties one would like to have do not hold either. The
configurations below check one each, and TLC's trace shows the case. Where the
table says *with*, the constants are those of that cfg and its properties are
replaced by the one named:

| Cfg | Property | What the code does |
|---|---|---|
| `MCReadWriteLock_spurious` | `MutualExclusion` | WriteLock waits under an `if`: one spurious wake-up lets a writer in beside a reader |
| `MCReadWriteLock_hang` | `WriterGetsIn` | two queued writers with DisallowSpuriousWakeUp wait for each other; no caller passes it |
| `MCThreadPool_shutdown` | `ShutdownWakesAll` | a core thread between its test and its wait sleeps through Shutdown |
| with `MCThreadPool_shutdown` | `DoneBeforeReclaim` | Shutdown returns while tasks run or are queued |
| `MCWritePath_error` | `EveryCallReturns` | Insert returns from a failed flush with the write lock held |
| `MCWritePath_delete` | `EntryIdsUnique` | Delete without the lock draws an id that the next table hands out again |
| with `MCWritePath_write` | `GetFindsInsert` | entries of the immutable table are invisible during a flush |
| with `MCLSM_store` | `ValueExists` | Get takes the value of a deletion that it finds in a file |
| `MCLSM_order` | `LevelsOrdered` | files that fall into a gap of the next level are put at its end |
| with `MCLSM_order` | `LevelsDisjoint` | the file limit comes between two versions of a key |
| `MCLSM_drop` | `CompactedConsecutive` | in a level out of order a file that was not merged is dropped |
| with `MCLSM_order`, `TableLimit = 1`, `LevelLimit <- TwoThenTwo` | `GetNewest` | Get answers from the oldest level 0 file that has the key |
| with `MCSSTSearch_find` | `FindsNewest` | the search returns the older of two versions in a file |
| `MCSkipList_head` | `HeadInitialized` | the head's top link is followed uninitialised |
| with `MCRecovery_crash` | `NextInstanceStarts` | a crash while MANIFEST is made or rewritten leaves fewer than two lines, which Decode reads all the same |
| with `MCRecovery_crash`, `MaxFailures = 0` | `NothingFlushedIsLost` | the next instance numbers files from 0 and appends to the old ones |
| with `MCReaderPool_enough`, `kDefaultReaderNum = 2` | `NeverUndefined` | with more threads than readers a reader is taken from an empty vector |
| `EntryCoding_eight` | `RoundTrip` | numbers of eight encoded bytes take a byte from behind them |
| `MCLRUCache_reuse` | `IndexLive` | when callers reuse the memory of a key, eviction leaves a dangling pointer |
| with `MCLRUCache_lru` | `BlockIdExact` | after a large value small ones get the id of the wrong block |

`NothingLost` excuses failed flushes: `MVCCWriteLevel0` deletes the immutable
table whether or not its file was written, so its entries are gone then.
`FlushedSurvive` excuses a process that stops while MANIFEST is truncated or half
written, and files whose name an earlier instance has used; nothing else that can
stop or fail in the model loses a flush.

The repository's README says that multithreaded use is not supported, while
`ConcurrentInsert`, the locks and the comments in the code provide for it; the
runs take the code at its word.

## 4. Fairness

* `ReadWriteLock`: weak fairness of resuming from a wait and of unlocking, per
  thread. The scheduler runs every runnable thread, and callers release what
  they hold. Acquiring is never fair: nobody has to ask for the lock.
* `ThreadPool`: weak fairness of each core thread's next step, of a submitter
  between Enqueue and notify, of finishing a task. Submitting is not fair.
* `WritePath`: weak fairness of the next step of each client inside a call and
  of each core thread. Starting a call is not fair; a blocked step is not
  enabled, so a wait is never assumed to end.
* `LSM`: weak fairness of the background task. `SSTSearch`: of the loop.
* `Recovery` states safety only: nothing makes a process start again.

No run uses strong fairness.

## 5. Proofs

| Module | Theorem → checked property | Hypotheses |
|---|---|---|
| `ReadWriteLockProofs` | `TypeCorrect`; `Exclusion` → `MutualExclusion`; `Refinement` → `ImplementsSharedLock` | `WakeUpsAreSafe` |
| | `NobodyStranded` → `NoStranded` | default option, writers wake up only when notified |
| `ThreadPoolProofs` | `PoolTypeCorrect`; `Serialized` → `OneTaskAtATime`; `OneMissesShutdown` → `AtMostOneMissesShutdown` | – |
| | `NoTaskLost` → `NoLostTask` | two core threads or more |
| `WritePathProofs` | `TypeCorrect`; `ActiveTableWritten` → `WritesHitActiveTable`; `IdsAreUnique` → `InsertIdsUnique`; `NothingIsLost` → `NothingLost`; `FilesAreOrdered` → `Level0Ordered`; `MemoryBounded` → `OneImmutable`; `MissesOnlyDuringFlush` → `MissOnlyDuringFlush`; `UsesTheLock`; `NoInsertStranded` | – |
| `RecoveryProofs` | `IteratorsStayValid` → `IteratorsValid`; `LatestIsKept` → `VersionsKept`; `ManifestReadsBack` (`Decode` after `Encode`); `LatestIsWritten` → `ManifestIsLatest`; `FlushesSurvive` → `FlushedSurvive` | – |
| `ReaderPoolProofs` | `ReadsOwnPart` → `OwnPart`; `NoReaderLost` → `ReadersKept` | – |
| `LRUCacheProofs` | `EvictsLeastRecent` → `LeastRecentEvicted`; `IndexAndListAgree` → `IndexMatchesList`; `HitsAreLatest` → `HitIsLatest`; `RefsAreExact` → `RefsExact` | `~ MayReuse` |
| `LSMProofs` | `NoEntryTwice` → `EntriesOnce`; `VersionsBounded` → `LevelsBounded`; `LevelsStayOrdered` → `OrderedIfInOrder`; `StoreIsAMap` → `StoredIfInOrder` | – (the last two speak of histories in order) |
| `SkipListProofs` | `TypeCorrect` | – |
| | `NewestFound` → `GetFindsNewest`; `LevelsStayLinked` → `LevelsLinked` | `MaxDraws < kMaxLevels` |

All of them hold for every value of the constants that satisfies the assumption its
module names (`ThreadsAssumption`, `OptionAssumption`, `SpuriousAssumption`,
`PoolAssumption`, `WritePathAssumption`, `VersionCtrlAssumption`,
`RecoveryAssumption`, `ReaderPoolAssumption`, `LRUCacheAssumption`,
`LSMAssumption`, `SkipListAssumption`): sets of threads are finite and apart, bounds are
numbers, the capacity and the limits are not zero, sizes are natural numbers, calls are
calls, entries of a key differ in their ids. TLC evaluates them in the runs.

What a recursive function computes cannot be proved by the induction rules of the
library, which are out of the provers' reach. Where it is proved nevertheless (`Encode`
and `Decode`, `Walk`, `Search`, `Along`) a solution of the function's equation is written
down, so that the function satisfies the equation, and a least place at which its values
are not the ones meant is refuted; that a least number exists comes from the
well-foundedness of `<` on the natural numbers in the library.

### Lock and pool

`WakeUpsAreSafe`: the option is DisallowSpuriousWakeUp, or writers wake up only when
they are notified. Readers wait in a loop and may wake up at any time. The hypothesis
is needed: `MCReadWriteLock_spurious` refutes exclusion without it. The runs use the
default option; for the other one exclusion rests on the proof, and `NobodyStranded`
is false (`MCReadWriteLock_hang`).

Exclusion alone is not inductive: whether a thread may enter is decided from
the counters. The inductive invariant is `Inv = TypeOK /\ CountersExact /\
OneGranted`: the counters are the numbers of threads in the corresponding
phases, and at most one writer is granted the lock or notified, with no reader
in. `CountStep` says how a cardinality changes when one thread changes phase;
every action is then one case. `Refinement` maps the phases `reading` and
`writing` to the abstract holders and needs `Inv` to see that an entering
thread finds the abstract lock free.

`PoolInv = TypeOKPool /\ OneHolder /\ AllInLoop`: at most one thread is at a
place where it holds `mtx_`, and while the pool runs all core threads are in
their loop. `OneMissesShutdown` rests on it too: who is about to wait has `mtx_`,
and who gets `mtx_` once the flag is down does not wait. `NoLostTask` is inductive
relative to it: the one thread that can miss a notification holds `mtx_` between its
test and its wait, so when there is another one that other thread is on its way to
look at the queue. With a single core thread this fails.

### Write path

For any number of clients, core threads, tables and calls. `WritePath` composes lock
and pool, and so does the proof: `RWP` and `PP` are instances of the two proof
modules with the threads and tasks of the write path, and their inductive invariants
are conjuncts of `Typed`. On top of them

* `Programs` says, for every location of a thread's program, what it holds of the
  lock, which call it works for, which table it has loaded and which task it runs.
  `WritesHitActiveTable` follows: a swap is done in phase `writing`, and a writer
  is alone (`RWP!InvExcludes`).
* `Ids`: insertions in earlier tables have smaller ids than those in later ones and
  than the counters of later ones, including ids drawn and not linked yet. Without
  the last part `IdsAreUnique` is not inductive, since drawing an id and linking the
  entry are two steps.
* `Future`, `OneFlush`: `compact_future_` stands for the table swapped out last; of
  all flush tasks, queued or running, there is one at most and it is for that table.
  All other tables were flushed, or the last flush failed, and then the thread that
  saw the error has kept the write lock (`Leaked`) and no swap will follow. So the
  leak of the lock, which makes `EveryCallReturns` fail, is also what keeps the
  tables bounded after an error.
* `Freed`, `Files`, `Reads`: when a table is freed and what its file has, and where
  the entry is that a Get is looking for, in front of the table it has looked at.
  `MissesOnlyDuringFlush` is an action property and follows for the one step in which
  Get gives up.

`UsesTheLock` shows that every behaviour of the write path is, seen from the lock's
variables, a behaviour of `ReadWriteLock`; what is proved of the lock thereby holds in
it, for instance `NoInsertStranded`.

### Versions

`IteratorsValid` and `VersionsKept` are not inductive, since `UnrefVersion` evicts
by `ref_`. `VersionInv` counts: whoever uses a version has a reference to it of its
own (`Referenced`), and if the flush task uses the same one there are two. Gets never
give references back, so it is not necessary to count them all. `Distinct` (every
manifest is in the list once) makes "the version of an iterator" well defined, and
`FlusherPart` says that the flush gives back a version that is not the latest any
more. The theorems are about `Recovery`: Gets and flushes between crashes, failures
and restarts, with any manifests.

### MANIFEST and crashes

`ManifestReadsBack`: `Decode(Encode(m)) = m` for every manifest, of any number of levels,
files and digits. `Encode` is a text of lines and `Split` cuts a text at its separators;
both are described by the places at which the pieces begin, and a text has only one such
description. `Tidy` is what is left of a text that was cut anywhere: `Decode` makes some
manifest of it.

`ManifestIsLatest` follows from `ManifestInv`, which says for each phase of the flush task
how what it has in memory, what is on disk and what it still has to write fit together
(`JobInv`: MANIFEST and the rest of the text make up `Encode(job.next)`), that MANIFEST
decodes to `listed` unless it is torn, and that a constructor finds a file that is whole
or was never written. `FlushedSurvive` follows from `SurviveInv`: the files of the
manifest on disk and of the one that will replace it are complete and hold everything
that was flushed; the file being written is listed by none of them yet, or is the next
one's only new file, with its blocks so far and its blocks to come making up the whole
of it. A name used again would break that, which is why `lost` excuses it.

### Readers

`PoolInv` has every reader in exactly one place, one position of the vector or one
thread (`Apart`, `Kept`), and the buffer of a thread that is about to copy still
holds its part (`Buffered`). The cardinalities of `ReadersKept` follow from that; they
are not enough to show it. The theorems hold for fewer readers than threads as well:
a thread that finds the vector empty stops in the state `undefined`.

### Query cache

`~ MayReuse`: no caller overwrites the memory of a key that `index_` points at. It is
needed, `MCLRUCache_reuse` shows why. `CacheInv` relates the list to the history of
uses (`Order`: the list is a prefix of the sequence of keys by last use, all of it or
`Capacity` long), to the hash map (`Nodes`, `Indexed`: one element per record, under
its own key), to the values put (occurrences in a sequence, and lemmas that say how they change when an element is
removed or put in front). `RefsExact` is about the ids that were handed out; that an
id is the block the memory lies in is false (`BlockIdExact`).

### Levels

`EntriesOnce` speaks of files; a manifest that lists one file twice would satisfy it
and break it in the next compaction. `LSMInv` therefore speaks of positions:
two positions of the manifest hold different files without a common entry (`Single`),
ids are fresh, and memtable, immutable table and files are apart. The proof follows
`UpdateManifest`: a position of the new manifest holds a file that was in the same
level, at a position the compaction did not take, or a new file, and new files share
the entries of the files taken out among them, each in one. It does not need the levels
to be in order, so it covers the histories in which `LevelsOrdered` fails, and it
covers failed reads and writes. `Bounded` adds what the loop of `BackgroundCompact`
has achieved up to its current level; it needs the limits to be positive, and that a
compaction of a level takes `Exceed` files out of it and puts none in.

### Order of levels

`OrderedIfInOrder` and `StoredIfInOrder` speak of histories whose keys come in ascending
or descending order (`InOrder`). The inductive invariant is
`OrderInv = Counted /\ (InOrder => Ordered)`: since a client may leave the order at any
step, `Ordered` is only claimed as long as it has not. In such a history the age of
entries tells the order of their keys (`ByAge`), so one of `Rising` and `Falling` holds,
and `Ordered` says

* `Known`: what is held for a key anywhere is its last entry;
* `Ranked`: the files of level 0 are in order of age, those of each deeper level in order
  of their keys, with nothing of one between two entries of another;
* `Aged`: level 0 is younger than all others, and with ascending keys each level is younger
  than the levels below it; the memtable is younger than the immutable table and both
  are younger than all files (`Recent`);
* `Fronts`: with descending keys, a level that is full, and from which files will be taken
  next, begins before everything below it. Without this the files taken from its front
  could have their place in the middle of the next level, where `UpdateManifest` does not
  put them;
* `Complete`: the last entry of every key is in the memtable, in the immutable table or
  in the latest version, and what the version has the manifest in work has as well.

The step that needs all of it is `CompactSST`: what it takes is the oldest part of level 0
or the first files of a deeper level, and what overlaps with them in the next level is a
stretch of it, so that the files the merge writes fit where `UpdateManifest` puts them,
and a merge of entries with different keys loses nothing. `LevelsOrdered` is false
otherwise (`MCLSM_order`). `StoreIsAMap` then follows for Get as well: the first level,
and in it the first file, in which the key is found has its last entry because there is
no other one. If that is an insertion Get has its value; if it is a deletion the key is
one of those that the property leaves out (`FlushedDeletion`), and Get's answer is
`Garbage`. A deletion that is still in a table hides nothing and is not found.

### Skip list

`ListInv` describes the links by the set `On(i)` of nodes that level `i` leads to: each is
linked to its successor in that set (`Chained`), nodes with lower towers have no link
there (`Bare`), `On(0)` is everything and `On(i + 1)` a part of `On(i)` (`Nested`). From it
`Walk` and `Search` are shown to end at the greatest node of each level below the target,
so `Insert` links the new node in its place, also on the level it adds, whose last node
is the head. Get asks with an id above all others, so the greatest smaller node on level
0 has the key's newest entry or the key has none. `LevelsLinked` needs that a collection
along a level ends: a path of distinct nodes cannot be longer than their number.
`MaxDraws < kMaxLevels` keeps towers below the level the constructor leaves out; in the
code such a tower has a small probability, and `MCSkipList_head` shows what it leads to. The
model ends a walk at an uninitialised link, so without the hypothesis `NewestFound` could
be proved too, but would say nothing about the code.

### Only model-checked

* Liveness (`WriterGetsIn`, `ReadersGetIn`, `EveryTaskRuns`, `FlushEnds`, `SearchEnds`,
  `EveryCallReturns`): fairness and ENABLED are outside the prover.
* What recursively computed functions yield in the file modules: the bytes of an SST
  file (`LayoutExact`, `FoundIfPresent`), the merge (`AgreesWithMerge`), the codings
  (`EntriesReadBack`, `RoundTrip`; the last one over bounded numbers).
* `NoDanglingEntry`, `FilesInBounds` (merge): safety that depends on the same functions.

## 6. Plan

1. *(done)* lock, pool, write path, LSM, search, merge, versions, skip list,
   readers, coding, cache; proofs for lock and pool.
2. *(done)* MANIFEST, crash and restart (`Recovery`); writer and Bloom filter under
   the SST files; the store as a map of what was written (`StoredIfInOrder`); what
   Get may miss during a flush; what Shutdown may miss.
3. *(done)* proofs for the versions, the readers, the write path with the lock and the
   pool in it, the cache, the levels.
4. *(done)* proofs for MANIFEST and what survives crashes, for the order of levels and
   the store as a map, for the skip list.
5. Left: the merge (`NoDanglingEntry`, then `AgreesWithMerge`, which would carry what is
   proved of `LSM` to the blocks of files), and that the Bloom filter rejects no key of
   its file for any hash.

A single-copy store as an abstract specification with `LSM` as its implementation
was tried and given up: Get is stale in most workloads (`GetNewest` fails), and for
ordered ones `StoredIfInOrder` says the same, flushed deletions aside, at a fraction of
the cost.

## 7. Not modelled

Logger, configuration and CSV (input and output without state that a property
depends on) and status codes. Murmur2 is any function. Nothing calls the 32-bit
varint functions, `VariableInteger`, `TCPageCache`, the generic `LRUCache`,
`GetFromSSTv2` and `ReadSSTDataAll`, the forms of `WriteSSTFile` and
`WriteMergeSSTFile` without a filter, `WriteNewFile`, `WriteLevel0`,
`TransferTable` and the deprecated `ThreadPool` and `batch_writer.h`; they are left
out. The query cache is used without a lock by concurrent calls; that is a data
race, and the model covers one thread at a time. The memory a `Sequence` refers to
belongs to the caller; outside `LRUCache` the models take it to stay as it is.
