----------------------------- MODULE SSTSearch -----------------------------
(***************************************************************************)
(* GetFromSST: the bloom filter, then a binary search over the data blocks *)
(* of one file, each read and scanned in turn.  The variable file has the  *)
(* entries that were written; what is read are the bytes of the file.      *)
(***************************************************************************)
EXTENDS SSTFormat

CONSTANTS Contents,     \* the files: sequences of entries in ascending order
          QueryKeys     \* the keys that are looked up

ASSUME SSTSearchAssumption ==
    /\ BlkLimit \in Nat \ {0}
    /\ \A es \in Contents : /\ es # <<>>
                            /\ \A i \in DOMAIN es : SizeOf(es[i]) \in Nat \ {0}
                            /\ \A i, j \in DOMAIN es : i < j => Less(es[i], es[j])

OnDisk == [es \in Contents |-> WriteSSTFile(es)]

VARIABLES file,         \* the file
          query_key,    \* the key
          index_block,  \* the offsets of its blocks, and its end
          l, r,         \* the first and the last block left, from 0
          ret_entry,    \* what was found
          pc            \* filter, search, done

vars == <<file, query_key, index_block, l, r, ret_entry, pc>>

Init ==
    /\ file \in Contents
    /\ query_key \in QueryKeys
    /\ index_block = <<>>
    /\ l = 0
    /\ r = 0
    /\ ret_entry = NoEntry
    /\ pc = "filter"

HasKey(es) == \E i \in DOMAIN es : es[i].key = query_key

\* The bloom filter may let a key pass that the file does not have.
FilterPasses ==
    /\ pc = "filter"
    /\ ContainsKey(query_key, ReadSSTFlexible(OnDisk[file]))
    /\ index_block' = ReadSSTIndex(OnDisk[file])
    /\ r' = Len(index_block') - 2
    /\ pc' = "search"
    /\ UNCHANGED <<file, query_key, l, ret_entry>>

FilterRejects ==
    /\ pc = "filter"
    /\ ~ ContainsKey(query_key, ReadSSTFlexible(OnDisk[file]))
    /\ pc' = "done"
    /\ UNCHANGED <<file, query_key, index_block, l, r, ret_entry>>

mid == (l + r) \div 2

BlockRead == Block(OnDisk[file], index_block, mid + 1)

\* The scan of a block ends with the first entry that has the key.
Hit ==
    /\ pc = "search"
    /\ l <= r
    /\ HasKey(BlockRead)
    /\ ret_entry' = BlockRead[Min({i \in DOMAIN BlockRead :
                                      BlockRead[i].key = query_key})]
    /\ pc' = "done"
    /\ UNCHANGED <<file, query_key, index_block, l, r>>

\* Mutant: the block that was read stays in the range.
MissKeepsBlock ==
    /\ pc = "search"
    /\ l <= r
    /\ ~ HasKey(BlockRead)
    /\ IF query_key > BlockRead[Len(BlockRead)].key
       THEN l' = mid /\ UNCHANGED r
       ELSE r' = mid - 1 /\ UNCHANGED l
    /\ UNCHANGED <<file, query_key, index_block, ret_entry, pc>>

Miss ==
    /\ pc = "search"
    /\ l <= r
    /\ ~ HasKey(BlockRead)
    /\ IF query_key > BlockRead[Len(BlockRead)].key
       THEN l' = mid + 1 /\ UNCHANGED r
       ELSE r' = mid - 1 /\ UNCHANGED l
    /\ UNCHANGED <<file, query_key, index_block, ret_entry, pc>>

Exhausted ==
    /\ pc = "search"
    /\ l > r
    /\ pc' = "done"
    /\ UNCHANGED <<file, query_key, index_block, l, r, ret_entry>>

Next == FilterPasses \/ FilterRejects \/ Hit \/ Miss \/ Exhausted

Spec == Init /\ [][Next]_vars

(* GetFromSST is a plain loop: it takes its next step.                     *)
FairSpec == Spec /\ WF_vars(Next)

-----------------------------------------------------------------------------
TypeOK ==
    /\ l \in 0..Len(file)
    /\ r \in -1..(Len(file) - 1)
    /\ ret_entry = NoEntry \/ \E i \in DOMAIN file : ret_entry = file[i]
    /\ pc \in {"filter", "search", "done"}

(* The blocks that the index cuts the data into are read back as the       *)
(* entries that were written, in their order, none of them empty, whatever *)
(* buffers they went to disk in; the footer, found from the end of the     *)
(* file, points at the first and at the last entry and at a filter that    *)
(* lets every key of the file pass.                                        *)
LayoutExact ==
    pc = "search" =>
        LET sst == OnDisk[file]
            blocks == [n \in 1..(Len(index_block) - 1) |-> Block(sst, index_block, n)]
        IN  /\ FlattenSeq(blocks) = file
            /\ \A n \in DOMAIN blocks : blocks[n] # <<>>
            /\ ReadSSTBoundary(sst) = <<<<file[1]>>, <<file[Len(file)]>>>>
            /\ \A i \in DOMAIN file : ContainsKey(file[i].key, ReadSSTFlexible(sst))

(* GetFromSST finds an entry of the key exactly if the file has one.       *)
FoundIfPresent ==
    pc = "done" => /\ (ret_entry # NoEntry) = HasKey(file)
                   /\ ret_entry # NoEntry => ret_entry.key = query_key

(* The binary search ends, however the keys are spread over the blocks.    *)
SearchEnds == <>(pc = "done")

(* db.h: if the key exists it is unique, so that the search may end with   *)
(* the first equal entry: what it finds is the newest entry of the key.    *)
FindsNewest ==
    pc = "done" /\ ret_entry # NoEntry =>
        \A i \in DOMAIN file : file[i].key = query_key => file[i].id <= ret_entry.id
=============================================================================
