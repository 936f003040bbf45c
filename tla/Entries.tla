------------------------------ MODULE Entries ------------------------------
(***************************************************************************)
(* Internal entries and their order (InternalEntryComparator), and what a  *)
(* merge of SST files yields.  LSM uses Merge for a whole compaction;      *)
(* MultiwayMerge has the loop that computes it.                            *)
(***************************************************************************)
EXTENDS Integers, FiniteSets, FiniteSetsExt

NoEntry == [key |-> -1, id |-> -1, op |-> "none"]

\* By key, and entries of one key by id.
Less(d, e) == d.key < e.key \/ (d.key = e.key /\ d.id < e.id)

Smallest(S) == CHOOSE e \in S : \A d \in S : ~ Less(d, e)
Largest(S) == CHOOSE e \in S : \A d \in S : ~ Less(e, d)

Rank(e, S) == Cardinality({d \in S : Less(d, e)})

(* IterMerge takes entries in ascending order.  Its size counts what was   *)
(* taken since the last file was begun, and the entry that would reach the *)
(* limit opens the next file.  Within one file only the newest entry of a  *)
(* key is kept.  Every entry has size one here.                            *)

KeepNewest(S) == {e \in S : \A d \in S : d.key = e.key => d.id <= e.id}

\* Mutant: what is left in the output buffer at the end is not written.
MergeNoTail(S, limit) ==
    [n \in 1..(Cardinality(S) \div (limit - 1)) |->
        KeepNewest({e \in S : Rank(e, S) \div (limit - 1) = n - 1})]

Merge(S, limit) ==
    [n \in 1..((Cardinality(S) + limit - 2) \div (limit - 1)) |->
        KeepNewest({e \in S : Rank(e, S) \div (limit - 1) = n - 1})]
=============================================================================
