------------------------------ MODULE LRUCache ------------------------------
(***************************************************************************)
(* The query cache: TCCache over LRUCache<Sequence, Sequence> with its     *)
(* list, its index and the blocks of its CacheAllocator (table/cache.h,    *)
(* table/cache.cc, util/dual_list.h, util/mem_allocator.cc).  The keys of  *)
(* index_ are Sequences, pointers into the memory of whoever called Insert *)
(* or Delete.                                                              *)
(***************************************************************************)
EXTENDS Integers, Sequences, FiniteSets, SequencesExt

CONSTANTS Keys, Values,
          Buffers,              \* memory of callers that holds a key
          Shape(_),             \* length and first byte of a key
          KeySize(_), ValueSize(_),
          Capacity,             \* capacity_
          kDefaultBlockSize,
          MayReuse,             \* do callers overwrite keys that index_ points at?
          MaxPuts               \* bound on the calls of Insert and Delete

kDelete == 0
kInsert == 1
Tombstone == [op |-> kDelete]
Value(v) == [op |-> kInsert, value |-> v]
None == [op |-> 2]

ASSUME LRUCacheAssumption ==
    /\ Capacity \in Nat \ {0}
    /\ kDefaultBlockSize \in Nat \ {0}
    /\ MayReuse \in BOOLEAN
    /\ MaxPuts \in Nat
    /\ \A k \in Keys : KeySize(k) \in Nat
    /\ ValueSize(Tombstone) \in Nat
    /\ \A v \in Values : ValueSize(Value(v)) \in Nat

VARIABLES caller,      \* the key in each buffer
          data_,       \* the list, from front to back
          index_,      \* the elements of the hash map
          size_,
          pool,        \* cache_pool_: ref, the block of start_addr_, and
                       \* remaining_size_
          ret,         \* what the last Get returned
          puts,
          recent,      \* all keys that were used, the latest first
          last         \* what was last put for each key

vars == <<caller, data_, index_, size_, pool, ret, puts, recent, last>>

Init ==
    /\ caller \in [Buffers -> Keys]
    /\ data_ = <<>>
    /\ index_ = {}
    /\ size_ = 0
    /\ pool = [ref |-> <<0>>, at |-> 1, remaining |-> kDefaultBlockSize]
    /\ ret = None
    /\ puts = 0
    /\ recent = <<>>
    /\ last = [k \in Keys |-> None]

-----------------------------------------------------------------------------
\* MemAllocator::Allocate: the space and the block it lies in.
kMaxSectorSize == kDefaultBlockSize \div 2

AllocateFullBlock(p) == [p EXCEPT !.ref = Append(@, 1)]

Allocate(p, size) ==
    LET new == Len(p.ref) + 1
    IN  IF size > kMaxSectorSize
        THEN [pool |-> AllocateFullBlock(p), at |-> new]
        ELSE IF size > p.remaining
        THEN [pool |-> [AllocateFullBlock(p) EXCEPT
                            !.at = new, !.remaining = kDefaultBlockSize - size],
              at |-> new]
        ELSE [pool |-> [p EXCEPT !.ref[new - 1] = @ + 1, !.remaining = @ - size],
              at |-> p.at]

\* CacheAllocator::Allocate returns the id of the last block with the space.
AllocateWithId(p, size) ==
    LET a == Allocate(p, size)
    IN  [pool |-> a.pool, at |-> a.at, id |-> Len(a.pool.ref)]

Unref(p, id) ==
    IF id \in DOMAIN p.ref THEN [p EXCEPT !.ref[id] = @ - 1] ELSE p

-----------------------------------------------------------------------------
(* SeqEqual compares lengths and, as it never moves on, first bytes only;  *)
(* unordered_map compares the hash codes it has kept as well.  Hash codes  *)
(* of different keys are different.                                        *)
SeqEqual(j, k) == Shape(j) = Shape(k)

Find(k) == {i \in index_ : i.code = k /\ SeqEqual(caller[i.at], k)}

Position(node) == CHOOSE j \in DOMAIN data_ : data_[j].node = node

\* DualList::MoveFront, with the new data of the node.
MoveFront(j, d) == <<d>> \o RemoveAt(data_, j)

\* Mutant: an entry that is found is moved to the front and not updated.
UpdateOldValue(i, val) ==
    LET j == Position(i.node)
        v == AllocateWithId(pool, ValueSize(val))
    IN  /\ pool' = Unref(v.pool, data_[j].vblk)
        /\ data_' = MoveFront(j, [data_[j] EXCEPT !.vblk = v.id, !.vat = v.at])
        /\ UNCHANGED <<index_, size_>>

\* Mutant: the old value keeps its reference.
UpdateNoUnref(i, val) ==
    LET j == Position(i.node)
        v == AllocateWithId(pool, ValueSize(val))
    IN  /\ pool' = v.pool
        /\ data_' = MoveFront(j, [data_[j] EXCEPT !.val = val, !.vblk = v.id, !.vat = v.at])
        /\ UNCHANGED <<index_, size_>>

Update(i, val) ==
    LET j == Position(i.node)
        v == AllocateWithId(pool, ValueSize(val))
    IN  /\ pool' = Unref(v.pool, data_[j].vblk)
        /\ data_' = MoveFront(j, [data_[j] EXCEPT !.val = val, !.vblk = v.id, !.vat = v.at])
        /\ UNCHANGED <<index_, size_>>

\* Mutant: the evicted entry stays in the hash map.
EraseNothing(ix, k) == {ix}

\* index_.erase(k): one element that is found, if any.
Erase(ix, k) ==
    LET F == {i \in ix : i.code = k /\ SeqEqual(caller[i.at], k)}
    IN  IF F = {} THEN {ix} ELSE {ix \ {i} : i \in F}

(* A new record, and when there are too many the eviction of the last one. *)
PushFront(b, val) ==
    LET k == caller[b]
        a == AllocateWithId(pool, KeySize(k))
        v == AllocateWithId(a.pool, ValueSize(val))
        d == [node |-> puts, key |-> k, val |-> val,
              kblk |-> a.id, vblk |-> v.id, kat |-> a.at, vat |-> v.at]
        list == <<d>> \o data_
        ix == index_ \cup {[at |-> b, code |-> k, node |-> puts]}
        back == list[Len(list)]
    IN  IF Len(list) <= Capacity
        THEN data_' = list /\ index_' = ix /\ pool' = v.pool /\ size_' = size_ + 1
        ELSE /\ data_' = Front(list)
             /\ index_' \in Erase(ix, back.key)
             /\ pool' = Unref(Unref(v.pool, back.kblk), back.vblk)
             /\ size_' = size_

\* TCCache::Insert and Delete, with a Sequence over buffer b.
InsertOrUpdate(b, val) ==
    /\ puts < MaxPuts
    /\ puts' = puts + 1
    /\ IF Find(caller[b]) = {} THEN PushFront(b, val)
       ELSE \E i \in Find(caller[b]) : Update(i, val)
    /\ recent' = <<caller[b]>> \o RemoveFirst(recent, caller[b])
    /\ last' = [last EXCEPT ![caller[b]] = val]
    /\ ret' = None
    /\ UNCHANGED caller

Insert(b) == \E v \in Values : InsertOrUpdate(b, Value(v))
Delete(b) == InsertOrUpdate(b, Tombstone)

\* TCCache::Get: a tombstone is a miss for the caller.
Answer(k, val) ==
    IF val.op = kInsert THEN [op |-> kInsert, key |-> k, value |-> val.value] ELSE None

\* Mutant: a hit does not count as a use.
GetStays(b) ==
    /\ \E i \in Find(caller[b]) :
          LET j == Position(i.node)
          IN  /\ data_' = data_
              /\ ret' = Answer(caller[b], data_[j].val)
    /\ recent' = <<caller[b]>> \o RemoveFirst(recent, caller[b])
    /\ UNCHANGED <<caller, index_, size_, pool, puts, last>>

\* Get moves the entry to the front.
Get(b) ==
    /\ \E i \in Find(caller[b]) :
          LET j == Position(i.node)
          IN  /\ data_' = MoveFront(j, data_[j])
              /\ ret' = Answer(caller[b], data_[j].val)
    /\ recent' = <<caller[b]>> \o RemoveFirst(recent, caller[b])
    /\ UNCHANGED <<caller, index_, size_, pool, puts, last>>

GetMiss(b) ==
    /\ Find(caller[b]) = {}
    /\ ret' = None
    /\ UNCHANGED <<caller, data_, index_, size_, pool, puts, recent, last>>

\* The caller puts another key into memory that is its own.
ReuseBuffer(b) ==
    /\ MayReuse \/ \A i \in index_ : i.at # b
    /\ \E k \in Keys : caller' = [caller EXCEPT ![b] = k]
    /\ UNCHANGED <<data_, index_, size_, pool, ret, puts, recent, last>>

Next ==
    \E b \in Buffers :
        Insert(b) \/ Delete(b) \/ Get(b) \/ GetMiss(b) \/ ReuseBuffer(b)

Spec == Init /\ [][Next]_vars

-----------------------------------------------------------------------------
(* The cache holds the Capacity keys that were used last, in the order of  *)
(* their last use: LRUCache evicts the least recently used.                *)
LeastRecentEvicted ==
    [j \in DOMAIN data_ |-> data_[j].key]
        = SubSeq(recent, 1, IF Len(recent) < Capacity THEN Len(recent) ELSE Capacity)

(* index_ and data_ describe the same records: a node is found through its *)
(* key, an element leads to a node that is in the list, and size_ counts   *)
(* them.                                                                   *)
IndexMatchesList ==
    /\ size_ = Len(data_)
    /\ Cardinality(index_) = Len(data_)
    /\ \A j \in DOMAIN data_ : \E i \in Find(data_[j].key) : i.node = data_[j].node

(* A hit of TCCache::Get is the value that was put last, and never one     *)
(* that has been deleted since.                                            *)
HitIsLatest == ret # None => last[ret.key] = Value(ret.value)

(* The count of every block of cache_pool_ is the number of keys and       *)
(* values of the cache that were given its id.                             *)
RefsExact ==
    \A id \in DOMAIN pool.ref :
        pool.ref[id] = Cardinality({j \in DOMAIN data_ : data_[j].kblk = id})
                         + Cardinality({j \in DOMAIN data_ : data_[j].vblk = id})

(* cache.h: the LRUCache builds a copy of the key.  What a caller does     *)
(* with its own memory leaves no element of index_ that leads to a node    *)
(* that has been deleted.                                                  *)
IndexLive ==
    \A i \in index_ : \E j \in DOMAIN data_ : data_[j].node = i.node

(* mem_allocator.h: Allocate returns the block id of the space: what it    *)
(* allocates lies in the block whose reference count it raises.            *)
BlockIdExact ==
    \A j \in DOMAIN data_ : data_[j].kblk = data_[j].kat /\ data_[j].vblk = data_[j].vat
=============================================================================
