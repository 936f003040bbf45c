-------------------------- MODULE MCMultiwayMerge --------------------------
(* Seven entries of five keys, spread over up to three files in every way: *)
(* once with entries of one size, once with entries of two sizes.  A block *)
(* closes with the entry that exceeds BlkLimit.                            *)
EXTENDS MultiwayMerge

Seven(base) ==
    {[key |-> k, id |-> base + i] :
        <<k, i>> \in {<<1, 0>>, <<2, 1>>, <<2, 3>>, <<3, 2>>, <<3, 5>>, <<4, 4>>,
                      <<5, 6>>}}

Spread(n, S) ==
    {[f \in 1..n |-> Ascending({e \in S : where[e] = f})] :
        where \in {w \in [S -> 1..n] : \A f \in 1..n : \E e \in S : w[e] = f}}

OneToThree == UNION {Spread(n, S) : n \in 1..3, S \in {Seven(0), Seven(100)}}

OneOrTwo(e) == IF e.id < 100 THEN 1 ELSE 1 + (e.id % 2)

OneHash(k, n) == k
=============================================================================
