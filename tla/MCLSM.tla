------------------------------- MODULE MCLSM -------------------------------
(* Small instances of LSM for TLC: the first levels of kDefaultLevelSize,  *)
(* scaled down, and the workloads.  No workload reaches a level beyond the *)
(* last of LevelLimit.                                                     *)
EXTENDS LSM

OneThenTwo == <<1, 2, 4, 8>>
TwoThenTwo == <<2, 2, 4, 8>>

OneThenEight == <<1, 8>>

Free(n, K) == [i \in 1..n |-> Op \X K]

\* Every key at most once and in order; between two keys that are written
\* there may be one that is not.
Ascending(n) == [i \in 1..n |-> {"kInsert"} \X {2 * i, 2 * i + 1}]
Descending(n) ==
    [i \in 1..n |-> {"kInsert"} \X {2 * (n - i), 2 * (n - i) + 1}]

\* Four tables fill level 1 with one key each, the third one in the gap of
\* the first two; then the client is free.
AfterGap ==
    [i \in 1..4 |-> {<<"kInsert", <<1, 4, 2, 5>>[i]>>}] \o Free(4, {2, 3, 5})

Mixed == <<Free(6, {1, 2}), Ascending(9), Descending(9)>>
AnyInserts == <<[i \in 1..7 |-> {"kInsert"} \X {1, 2, 3}]>>
Gap == <<AfterGap>>
=============================================================================
