-------------------------------- MODULE LSM --------------------------------
(***************************************************************************)
(* The log-structured store of TCDB: the memtable, its flush to level 0    *)
(* (MVCCWriteLevel0), leveled compaction (BackgroundCompact, CompactSST,   *)
(* MultiwayMerge with IterMerge, UpdateManifest) and the search order of   *)
(* Get.                                                                    *)
(*                                                                         *)
(* A file holds its entries in the order of the InternalEntryComparator,   *)
(* by key and then by entry id; ids are never repeated, so a file is the   *)
(* set of its entries.  An entry has size one: TableLimit and FileLimit    *)
(* stand for kDefaultSSTFileSize, the size at which a memtable is full and *)
(* at which IterMerge starts a new file.  A file is one data block.        *)
(*                                                                         *)
(* The client's calls are atomic here and so is each pass of the           *)
(* background task; WritePath has the finer interleaving.  The background  *)
(* task works on its own copy of the manifest, which becomes the latest    *)
(* version only when it is done.  Recovery has the files on disk.          *)
(***************************************************************************)
EXTENDS Entries, Sequences

CONSTANTS Keys,         \* a set of numbers: keys in their order
          TableLimit,   \* entries of a full memtable
          FileLimit,    \* a merge starts a new file at this size
          LevelLimit,   \* kDefaultLevelSize, the first levels of it
          Workloads,    \* what the first, second, ... call may be, in each
          Faults        \* whether reading and writing SST files can fail

Op == {"kInsert", "kDelete"}

ASSUME LSMAssumption ==
    /\ Keys \subseteq Nat
    /\ TableLimit \in Nat \ {0}
    /\ FileLimit \in Nat \ {0, 1}
    /\ LevelLimit \in Seq(Nat \ {0}) /\ LevelLimit # <<>>
    /\ \A w \in DOMAIN Workloads : \A n \in DOMAIN Workloads[w] :
          Workloads[w][n] \subseteq Op \X Keys
    /\ Faults \in BOOLEAN

VARIABLES mem_table_,   \* the entries of the active memtable
          immutable,    \* the entries of the table being flushed
          entry_id_,    \* the next entry id
          sst,          \* the SST files on disk: their entries by number
          version,      \* the manifest of the latest version
          manifest,     \* the background task's copy of the manifest
          bg,           \* the background task: idle, start, first, level,
                        \* write, or failed
          lvl,          \* the level BackgroundCompact looks at
          workload,     \* the one of Workloads that this client follows
          latest        \* history: the last entry written for each key

vars == <<mem_table_, immutable, entry_id_, sst, version, manifest, bg,
          lvl, workload, latest>>

Entry == [key : Keys, id : Nat, op : Op]

Init ==
    /\ mem_table_ = {}
    /\ immutable = {}
    /\ entry_id_ = 0
    /\ sst = <<>>
    /\ version = <<>>
    /\ manifest = <<>>
    /\ bg = "idle"
    /\ lvl = 1
    /\ workload \in DOMAIN Workloads
    /\ latest = [k \in Keys |-> NoEntry]

-----------------------------------------------------------------------------
(* CompactSST, both forms: which files of the level and of the next one    *)
(* take part, and where the new files go.                                  *)
Overlaps(S, lo, hi) == ~ Less(hi, Smallest(S)) /\ ~ Less(Largest(S), lo)

Level(m, l) == IF l <= Len(m) THEN m[l] ELSE <<>>

EntriesOf(s, I) == UNION {sst[s[i]] : i \in I}

\* Level 0 files overlap: those that meet the range of the chosen files go
\* along.  The range itself is not widened by them.
Current(m, l, chosen, lo, hi) ==
    chosen \union
    {i \in DOMAIN m[l] : l = 1 /\ Overlaps(sst[m[l][i]], lo, hi)}

\* The scan of the next level stops at the first file that lies beyond.
Beyond(S, lo, hi) == ~ Less(Largest(S), lo) /\ Less(hi, Smallest(S))

Scanned(next, lo, hi) ==
    {i \in DOMAIN next : \A j \in 1..i : ~ Beyond(sst[next[j]], lo, hi)}

NextFiles(next, lo, hi) ==
    {i \in Scanned(next, lo, hi) : Overlaps(sst[next[i]], lo, hi)}

\* Mutant: files that come before all others go to the back too.
InsertAtBack(next, lo, hi) ==
    LET taken == NextFiles(next, lo, hi)
    IN  IF taken # {} THEN Min(taken) - 1 ELSE Len(next)

\* insert_from_index, counted from 0.
InsertFrom(next, lo, hi) ==
    LET taken == NextFiles(next, lo, hi)
    IN  IF taken # {} THEN Min(taken) - 1
        ELSE IF next # <<>> /\ Beyond(sst[next[1]], lo, hi) THEN 0
        ELSE Len(next)

Plan(m, l, chosen) ==
    LET lo == Smallest(EntriesOf(m[l], chosen))
        hi == Largest(EntriesOf(m[l], chosen))
        next == Level(m, l + 1)
    IN  [current |-> Current(m, l, chosen, lo, hi),
         next |-> NextFiles(next, lo, hi),
         insert |-> InsertFrom(next, lo, hi)]

(* UpdateManifest: Remove takes the compacted files out of the level, by   *)
(* their positions, and RearrangeFilesInManifest replaces those of the     *)
(* next level, from the first to the last of them, by the new ones.        *)
Remove(s, I) ==
    LET kept == DOMAIN s \ I
        Nth(n) == CHOOSE i \in kept : Cardinality({j \in kept : j <= i}) = n
    IN  [n \in 1..Cardinality(kept) |-> s[Nth(n)]]

\* Mutant: the last replaced file stays (the "Bug:" comment of tools.cc).
RearrangeKeepLast(s, first, last, new) ==
    SubSeq(s, 1, first) \o new
        \o SubSeq(s, IF last > first THEN last ELSE last + 1, Len(s))

Rearrange(s, first, last, new) ==
    SubSeq(s, 1, first) \o new \o SubSeq(s, last + 1, Len(s))

UpdateManifest(m, l, plan, new) ==
    LET next == Level(m, l + 1)
        first == IF plan.next = {} THEN plan.insert ELSE Min(plan.next) - 1
        last == IF plan.next = {} THEN plan.insert ELSE Max(plan.next)
        cur == Remove(m[l], plan.current)
        nxt == Rearrange(next, first, last, new)
    IN  [i \in 1..Max({Len(m), l + 1}) |->
            IF i = l THEN cur ELSE IF i = l + 1 THEN nxt ELSE m[i]]

CompactSST(l, chosen) ==
    LET plan == Plan(manifest, l, chosen)
        merged == Merge(EntriesOf(manifest[l], plan.current)
                        \union EntriesOf(Level(manifest, l + 1), plan.next),
                        FileLimit)
        new == [n \in DOMAIN merged |-> Len(sst) + n]
    IN  /\ sst' = sst \o merged
        /\ manifest' = UpdateManifest(manifest, l, plan, new)

-----------------------------------------------------------------------------
(* MVCCWriteLevel0 and BackgroundCompact.                                  *)
clientvars == <<mem_table_, entry_id_, workload, latest>>

FlushBegin ==
    /\ bg = "start"
    /\ manifest' = version
    /\ bg' = IF version # <<>> /\ Len(version[1]) >= LevelLimit[1]
             THEN "first" ELSE "write"
    /\ lvl' = 1
    /\ UNCHANGED <<clientvars, immutable, sst, version>>

\* The oldest file of level 0 is compacted first, whatever its size.
CompactFirst ==
    /\ bg = "first"
    /\ CompactSST(1, {1})
    /\ bg' = "level"
    /\ UNCHANGED <<clientvars, immutable, version, lvl>>

\* Mutant: a level that is just full is left alone.
TooManyStrict == lvl <= Len(manifest) /\ Len(manifest[lvl]) > LevelLimit[lvl]

TooMany == lvl <= Len(manifest) /\ Len(manifest[lvl]) >= LevelLimit[lvl]

Exceed == 1..(Len(manifest[lvl]) - LevelLimit[lvl] + 1)

\* A level beyond the last of kDefaultLevelSize has no limit to compare
\* with: the loop would read past the end of the vector.  The model stops.
HasLimit == lvl \in DOMAIN LevelLimit

\* Then as many of the first files of each level as are too many.
CompactLevel ==
    /\ bg = "level"
    /\ HasLimit
    /\ TooMany
    /\ CompactSST(lvl, Exceed)
    /\ UNCHANGED <<clientvars, immutable, version, bg, lvl>>

\* Mutant: the loop does not go on to the next level.
NextLevelAgain ==
    /\ bg = "level"
    /\ HasLimit
    /\ ~ TooMany
    /\ lvl' = lvl
    /\ bg' = IF lvl < Len(manifest) THEN "level" ELSE "write"
    /\ UNCHANGED <<clientvars, immutable, sst, version, manifest>>

NextLevel ==
    /\ bg = "level"
    /\ HasLimit
    /\ ~ TooMany
    /\ lvl' = IF lvl < Len(manifest) THEN lvl + 1 ELSE lvl
    /\ bg' = IF lvl < Len(manifest) THEN "level" ELSE "write"
    /\ UNCHANGED <<clientvars, immutable, sst, version, manifest>>

Level0Push(f) ==
    IF manifest = <<>> THEN <<<<f>>>>
    ELSE [manifest EXCEPT ![1] = Append(@, f)]

\* WriteLevel0File, delete immutable, AppendVersion.
WriteLevel0 ==
    /\ bg = "write"
    /\ sst' = Append(sst, immutable)
    /\ manifest' = Level0Push(Len(sst) + 1)
    /\ version' = manifest'
    /\ immutable' = {}
    /\ bg' = "idle"
    /\ UNCHANGED <<clientvars, lvl>>

\* Every failed read or write of an SST file ends the task with an error.
\* The next Insert that finds the table full gets that error and keeps the
\* write lock (WritePath), so no flush follows it.
CompactFails ==
    /\ Faults
    /\ bg \in {"first", "level"}
    /\ bg = "level" => HasLimit /\ TooMany
    /\ bg' = "failed"
    /\ UNCHANGED <<clientvars, immutable, sst, version, manifest, lvl>>

\* When it is WriteLevel0File that fails the table is deleted all the same,
\* and AppendVersion takes what the compaction made of the manifest.
WriteLevel0Fails ==
    /\ Faults
    /\ bg = "write"
    /\ version' = manifest
    /\ immutable' = {}
    /\ bg' = "failed"
    /\ UNCHANGED <<clientvars, sst, manifest, lvl>>

-----------------------------------------------------------------------------
(* The client.  A full table is handed to the background task, after the   *)
(* last one has been flushed; the entry goes to the table that is active   *)
(* then.  Delete never looks at the size.                                  *)
Full == Cardinality(mem_table_) >= TableLimit

Put(k, op, table) ==
    LET e == [key |-> k, id |-> entry_id_, op |-> op]
    IN  /\ entry_id_ < Len(Workloads[workload])
        /\ <<op, k>> \in Workloads[workload][entry_id_ + 1]
        /\ entry_id_' = entry_id_ + 1
        /\ latest' = [latest EXCEPT ![k] = e]
        /\ mem_table_' = table \union {e}
        /\ UNCHANGED workload

Insert(k) ==
    /\ ~ Full
    /\ Put(k, "kInsert", mem_table_)
    /\ UNCHANGED <<immutable, sst, version, manifest, bg, lvl>>

InsertAndFlush(k) ==
    /\ Full
    /\ bg = "idle"
    /\ Put(k, "kInsert", {})
    /\ immutable' = mem_table_
    /\ bg' = "start"
    /\ UNCHANGED <<sst, version, manifest, lvl>>

Delete(k) ==
    /\ Put(k, "kDelete", mem_table_)
    /\ UNCHANGED <<immutable, sst, version, manifest, bg, lvl>>

Background == FlushBegin \/ CompactFirst \/ CompactLevel \/ NextLevel \/ WriteLevel0

Next ==
    \/ \E k \in Keys : Insert(k) \/ InsertAndFlush(k) \/ Delete(k)
    \/ FlushBegin \/ CompactFirst \/ CompactLevel \/ NextLevel \/ WriteLevel0
    \/ CompactFails \/ WriteLevel0Fails

Spec == Init /\ [][Next]_vars

(* The pool runs the task it was given.                                    *)
FairSpec == Spec /\ WF_vars(Background)

-----------------------------------------------------------------------------
(* Get.  The newest entry of a table counts if it is an insertion; a       *)
(* deletion there counts as not found.  A file gives its first entry of    *)
(* the key.  Level 0 is searched from its first file on, the others end    *)
(* with the first file whose range has the key.  An answer is named after  *)
(* the entry whose value it is; values are not empty.                      *)
OfKey(S, k) == {e \in S : e.key = k}

\* Whatever bytes, or none, come behind an entry that has no value.
Garbage == [key |-> -2, id |-> -2, op |-> "garbage"]

\* A deletion is encoded without a value, and nobody looks at the operation.
EntryValue(e) == IF e.op = "kInsert" THEN e ELSE Garbage

TableGet(T, k) ==
    LET e == Largest(OfKey(T, k))
    IN  IF OfKey(T, k) # {} /\ e.op = "kInsert" THEN EntryValue(e) ELSE NoEntry

GetFromSST(f, k) ==
    IF OfKey(sst[f], k) = {} THEN NoEntry ELSE Smallest(OfKey(sst[f], k))

InRange(f, k) == Smallest(sst[f]).key <= k /\ k <= Largest(sst[f]).key

SearchLevel(m, l, k) ==
    LET hits == IF l = 1
                THEN {i \in DOMAIN m[l] : GetFromSST(m[l][i], k) # NoEntry}
                ELSE {i \in DOMAIN m[l] : InRange(m[l][i], k)}
    IN  IF hits = {} THEN NoEntry ELSE GetFromSST(m[l][Min(hits)], k)

\* What the first level that has something of the key gives.
Found(k) ==
    LET hits == {l \in DOMAIN version : SearchLevel(version, l, k) # NoEntry}
    IN  IF hits = {} THEN NoEntry ELSE SearchLevel(version, Min(hits), k)

\* The value of what was found in a file, a deletion included.
Get(k) ==
    IF TableGet(mem_table_, k) # NoEntry THEN TableGet(mem_table_, k)
    ELSE IF Found(k) # NoEntry THEN EntryValue(Found(k))
    ELSE NoEntry

-----------------------------------------------------------------------------
FilesOf(m) == UNION {{m[l][i] : i \in DOMAIN m[l]} : l \in DOMAIN m}

EntriesIn(m) == UNION {sst[f] : f \in FilesOf(m)}

(* The memtable and the files hold entries; manifests list files that have *)
(* been written.                                                           *)
TypeOK ==
    /\ mem_table_ \subseteq Entry /\ immutable \subseteq Entry
    /\ entry_id_ \in 0..Len(Workloads[workload])
    /\ \A f \in DOMAIN sst : sst[f] \subseteq Entry /\ sst[f] # {}
    /\ \A m \in {version, manifest} : FilesOf(m) \subseteq DOMAIN sst
    /\ bg \in {"idle", "start", "first", "level", "write", "failed"}

(* No entry is in two files of the manifest: a compaction takes out of     *)
(* both levels every file that it merged (UpdateManifest, Remove,          *)
(* RearrangeFilesInManifest).                                              *)
EntriesOnce ==
    \A f, g \in FilesOf(manifest) : f # g => sst[f] \intersect sst[g] = {}

(* After a flush no level holds more files than kDefaultLevelSize allows:  *)
(* level 0 up to the limit, the others below it.                           *)
LevelsBounded ==
    \A l \in DOMAIN version :
        Len(version[l]) < LevelLimit[l] + (IF l = 1 THEN 1 ELSE 0)

(* BackgroundCompact ends: every flush becomes a version.                  *)
FlushEnds == bg # "idle" ~> bg \in {"idle", "failed"}

(* db.cc: all SST files above level 0 are ordered.                         *)
LevelsOrdered ==
    \A l \in DOMAIN version : l > 1 =>
        \A i, j \in DOMAIN version[l] :
            i < j => Less(Largest(sst[version[l][i]]), Smallest(sst[version[l][j]]))

\* Every key was written at most once, in ascending or in descending order.
InOrder ==
    LET written == {k \in Keys : latest[k] # NoEntry}
    IN  /\ entry_id_ = Cardinality(written)
        /\ \/ \A j, k \in written : j < k => latest[j].id < latest[k].id
           \/ \A j, k \in written : j < k => latest[j].id > latest[k].id

(* The files above level 0 are ordered if keys arrive in order: whatever   *)
(* gaps they leave, each compaction puts its files on the right side.      *)
OrderedIfInOrder == InOrder => LevelsOrdered

(* db.cc: all SST files at level 1+ do not overlap: no key is in the range *)
(* of two files of a level.                                                *)
LevelsDisjoint ==
    \A l \in DOMAIN version : l > 1 =>
        \A i, j \in DOMAIN version[l], k \in Keys :
            InRange(version[l][i], k) /\ InRange(version[l][j], k) => i = j

(* io.cc: the files of the next level that take part are consecutive, so   *)
(* that replacing the stretch from the first to the last drops no other.   *)
CompactedConsecutive ==
    LET chosen == IF bg = "first" THEN {1} ELSE Exceed
        l == IF bg = "first" THEN 1 ELSE lvl
    IN  bg = "first" \/ (bg = "level" /\ TooMany) =>
            LET next == Plan(manifest, l, chosen).next
            IN  next # {} => next = Min(next)..Max(next)

(* internal_entry.h: EntryValue is asked for values that exist.  Get asks  *)
(* for the value of whatever it has found in a file.                       *)
ValueExists ==
    \A k \in Keys : TableGet(mem_table_, k) = NoEntry => Found(k).op # "kDelete"

\* What a map answers: a deleted key and one never written have no value.
Answer(k) == IF latest[k].op = "kInsert" THEN latest[k] ELSE NoEntry

(* While no flush is under way Get answers as a map of what was written.   *)
GetNewest == bg = "idle" => \A k \in Keys : Get(k) = Answer(k)

(* What the store holds for a key: what Get would find if it looked at the *)
(* table that is being flushed too, after the memtable.                    *)
Stored(k) ==
    IF TableGet(mem_table_, k) = NoEntry /\ TableGet(immutable, k) # NoEntry
    THEN TableGet(immutable, k)
    ELSE Get(k)

\* The keys for which Get returns garbage: see ValueExists.
FlushedDeletion(k) == latest[k].op = "kDelete" /\ latest[k] \in EntriesIn(version)

(* If keys arrive in order the store is a map of them, at every moment:    *)
(* no swap of tables, flush, compaction or new version loses or changes    *)
(* what was inserted, on whatever level it is, until a flush fails, and    *)
(* nothing is found for a key that has not been written or whose deletion  *)
(* has not reached a file; between flushes that is what Get returns.       *)
StoredIfInOrder ==
    InOrder /\ bg # "failed" =>
        \A k \in Keys : ~ FlushedDeletion(k) =>
            /\ Stored(k) = Answer(k)
            /\ bg = "idle" => Get(k) = Answer(k)
=============================================================================
