--------------------------- MODULE MultiwayMerge ---------------------------
(***************************************************************************)
(* MultiwayMerge and IterMerge: the files of a compaction are read block   *)
(* by block into a priority queue and written out in ascending order.  The *)
(* blocks live in a MergeAllocator, which counts the entries of each block *)
(* that are still in use and frees the blocks that have none.              *)
(*                                                                         *)
(* A block is numbered by its place in the allocator; the first one is the *)
(* empty block that the allocator starts with.                             *)
(***************************************************************************)
EXTENDS SSTFormat

CONSTANTS FileLimit,    \* kDefaultSSTFileSize
          Inputs        \* the compactions: sequences of files

(* No entry is as large as a file may be.                                  *)
ASSUME MergeAssumption ==
    /\ BlkLimit \in Nat \ {0} /\ FileLimit \in Nat
    /\ \A in \in Inputs : \A f \in DOMAIN in :
          /\ in[f] # <<>>
          /\ \A i \in DOMAIN in[f] : SizeOf(in[f][i]) \in 1..(FileLimit - 1)

OnDisk == [es \in UNION {Range(in) : in \in Inputs} |-> WriteSSTFile(es)]

VARIABLES files,                \* the files of the compaction
          index_list,           \* their indexes, as far as they are open
          queue,                \* priority_queue: entry, file and block
          file_entry_in_queue,  \* entries of each file in the queue
          index_block_ptr,      \* blocks of each file that have been read
          output_buffer,        \* what goes to the next file
          current_sst_size,
          ref,                  \* the reference counts of the blocks
          freed,                \* the blocks that were given back
          new_files,            \* the files written so far
          status                \* running, ok or error

vars == <<files, index_list, queue, file_entry_in_queue, index_block_ptr,
          output_buffer, current_sst_size, ref, freed, new_files, status>>

Init ==
    /\ files \in Inputs
    /\ index_list = <<>>
    /\ queue = {}
    /\ file_entry_in_queue = <<>>
    /\ index_block_ptr = <<>>
    /\ output_buffer = <<>>
    /\ current_sst_size = 0
    /\ ref = <<0>>
    /\ freed = {}
    /\ new_files = <<>>
    /\ status = "running"

Items(es, f, b) == {[entry |-> es[i], file |-> f, block |-> b] : i \in DOMAIN es}

Opened == Len(index_list) = Len(files)

\* The allocator has one block, and each file that is open has one.
FirstBlock(f) == f + 1

(* The next file's footer and index, and its first block.                  *)
OpenFile ==
    /\ status = "running"
    /\ ~ Opened
    /\ LET f == Len(index_list) + 1
           index == ReadSSTIndex(OnDisk[files[f]])
           es == Block(OnDisk[files[f]], index, 1)
       IN  /\ index_list' = Append(index_list, index)
           /\ queue' = queue \union Items(es, f, FirstBlock(f))
           /\ file_entry_in_queue' = Append(file_entry_in_queue, Len(es))
           /\ index_block_ptr' = Append(index_block_ptr, 1)
           /\ ref' = Append(ref, Len(es))
    /\ UNCHANGED <<files, output_buffer, current_sst_size, freed, new_files,
                   status>>

Top == CHOOSE q \in queue : \A p \in queue : ~ Less(p.entry, q.entry)

\* Unref, once for each item.
UnrefAll(items) ==
    [b \in DOMAIN ref |->
        ref[b] - Cardinality({i \in DOMAIN items : items[i].block = b})]

ReleaseIdleSpace == freed' = freed \union {b \in DOMAIN ref' : ref'[b] = 0}

\* WriteMergeSSTFile.
WriteBuffer ==
    /\ new_files' = Append(new_files,
                           [i \in DOMAIN output_buffer |-> output_buffer[i].entry])
    /\ ref' = UnrefAll(output_buffer)
    /\ ReleaseIdleSpace
    /\ output_buffer' = <<>>

\* Mutant: the file may reach the limit.
ReachesLimitLate ==
    current_sst_size + SizeOf(Top.entry) >= FileLimit + 1

\* The entry at the top does not fit into the current file.
ReachesLimit == current_sst_size + SizeOf(Top.entry) >= FileLimit

WriteFile ==
    /\ status = "running"
    /\ Opened
    /\ queue # {}
    /\ ReachesLimit
    /\ WriteBuffer
    /\ current_sst_size' = 0
    /\ UNCHANGED <<files, index_list, queue, file_entry_in_queue,
                   index_block_ptr, status>>

SameKey(q) ==
    output_buffer # <<>> /\ output_buffer[Len(output_buffer)].entry.key = q.entry.key

\* An entry of the same key takes the place of the one before it.
Put(q) ==
    output_buffer' = IF SameKey(q)
                     THEN [output_buffer EXCEPT ![Len(output_buffer)] = q]
                     ELSE Append(output_buffer, q)

\* Mutant: the new entry is released instead of the one it replaces.
ReleasedNew(q) == IF SameKey(q) THEN <<q>> ELSE <<>>

Released(q) ==
    IF SameKey(q) THEN <<output_buffer[Len(output_buffer)]>> ELSE <<>>

\* Mutant: the next block is read once the whole queue is empty.
BlockDoneLate(q) == queue = {q}

\* The last entry of its block has left the queue.
BlockDone(q) == file_entry_in_queue[q.file] = 1

PopEntry ==
    /\ status = "running"
    /\ Opened
    /\ queue # {}
    /\ ~ ReachesLimit
    /\ LET q == Top
           f == q.file
           n == index_block_ptr[f] + 1
           more == BlockDone(q) /\ n < Len(index_list[f])
           es == IF more THEN Block(OnDisk[files[f]], index_list[f], n) ELSE <<>>
           kept == UnrefAll(Released(q))
       IN  /\ current_sst_size' = current_sst_size + SizeOf(q.entry)
           /\ Put(q)
           /\ ref' = IF more THEN Append(kept, Len(es)) ELSE kept
           /\ queue' = (queue \ {q}) \union Items(es, f, Len(ref'))
           /\ file_entry_in_queue' =
                 [file_entry_in_queue EXCEPT ![f] = @ - 1 + Len(es)]
           /\ index_block_ptr' = IF more THEN [index_block_ptr EXCEPT ![f] = n]
                                 ELSE index_block_ptr
    /\ UNCHANGED <<files, index_list, freed, new_files, status>>

WriteLast ==
    /\ status = "running"
    /\ Opened
    /\ queue = {}
    /\ WriteBuffer
    /\ status' = "ok"
    /\ UNCHANGED <<files, index_list, queue, file_entry_in_queue,
                   index_block_ptr, current_sst_size>>

\* A file that cannot be read or written ends the merge.
Fail ==
    /\ status = "running"
    /\ status' = "error"
    /\ UNCHANGED <<files, index_list, queue, file_entry_in_queue,
                   index_block_ptr, output_buffer, current_sst_size, ref, freed,
                   new_files>>

Next == OpenFile \/ WriteFile \/ PopEntry \/ WriteLast \/ Fail

Spec == Init /\ [][Next]_vars

-----------------------------------------------------------------------------
AllEntries == UNION {Range(files[f]) : f \in DOMAIN files}

InUse == queue \union Range(output_buffer)

TypeOK ==
    /\ \A q \in InUse : q.entry \in AllEntries /\ q.block \in DOMAIN ref
    /\ \A f \in DOMAIN file_entry_in_queue : file_entry_in_queue[f] \in Nat
    /\ \A b \in DOMAIN ref : ref[b] \in Nat
    /\ status \in {"running", "ok", "error"}

(* The memory pool of MultiwayMerge: no entry that is in the queue or in   *)
(* the output buffer lies in a block that ReleaseIdleSpace has freed, and  *)
(* a block is freed no later than by the file that takes its last entry.   *)
NoDanglingEntry ==
    /\ \A q \in InUse : q.block \notin freed
    /\ status = "ok" => freed = DOMAIN ref

(* Every file that IterMerge writes stays below kDefaultSSTFileSize, and   *)
(* none is empty: WriteSSTFile takes the first and the last entry of each. *)
FilesInBounds ==
    \A n \in DOMAIN new_files :
        /\ new_files[n] # <<>>
        /\ Size(new_files[n]) < FileLimit

(* What the loop writes is the merge that LSM computes from the sets of    *)
(* entries (Merge in Entries), if every entry has size one.                *)
AgreesWithMerge ==
    status = "ok" /\ (\A e \in AllEntries : SizeOf(e) = 1) =>
        [n \in DOMAIN new_files |-> Range(new_files[n])]
            = Merge(AllEntries, FileLimit)
=============================================================================
