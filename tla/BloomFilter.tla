---------------------------- MODULE BloomFilter ----------------------------
(***************************************************************************)
(* TCBloomFilter.  The hash function (Murmur2 with one seed for each of    *)
(* the hash_k_ rounds) is any function from keys to numbers; the size in   *)
(* bits of a filter, computed from the false positive rate in the code, is *)
(* a multiple of the number of its entries.                                *)
(***************************************************************************)
EXTENDS Integers, Sequences

CONSTANTS Hash(_, _),   \* hasher_->Hash(key, seeds_[i])
          hash_k_,      \* hash values of a key
          BitsPerKey    \* -ln(fp_rate) / ln(2)^2

ASSUME BloomFilterAssumption == hash_k_ \in Nat \ {0} /\ BitsPerKey \in Nat \ {0}

Bytes(n) == (n * BitsPerKey + 7) \div 8

\* The byte, from 1, and the bit in it.
Pos(h, size) == ((h \div 8) % size) + 1
Bit(h) == h % 8

Hashes(key) == {Hash(key, i) : i \in 1..hash_k_}

\* Mutant: a bit is assigned to its byte instead of added to it.
CreateFilterAssign(keys) ==
    LET size == Bytes(Len(keys))
        all == UNION {Hashes(keys[i]) : i \in DOMAIN keys}
        bits(p) == {Bit(h) : h \in {x \in all : Pos(x, size) = p}}
    IN  [p \in 1..size |->
            [bits |-> {b \in bits(p) : \A c \in bits(p) : b >= c}]]

\* Every byte is the set of its bits that are on.
CreateFilter(keys) ==
    LET size == Bytes(Len(keys))
        all == UNION {Hashes(keys[i]) : i \in DOMAIN keys}
    IN  [p \in 1..size |-> [bits |-> {Bit(h) : h \in {x \in all : Pos(x, size) = p}}]]

ContainsKey(key, filter) ==
    \A h \in Hashes(key) : Bit(h) \in filter[Pos(h, Len(filter))].bits
=============================================================================
