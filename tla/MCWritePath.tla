---------------------------- MODULE MCWritePath ----------------------------
(* WritePath for TLC: clients and core threads are interchangeable where   *)
(* no liveness property is checked.                                        *)
EXTENDS WritePath, TLC

Symmetry == Permutations(Clients) \union Permutations(Workers)

Calls(n, S) == [i \in 1..n |-> S]

\* An Insert fills the first table; then everything is called.
AnyAfterInsert ==
    <<{"insert"}, {"insert", "concurrent", "delete"},
      {"insert", "concurrent", "delete", "get"}>>

FourInserts == Calls(4, {"insert"})
ThreeConcurrent == Calls(3, {"concurrent"})
InsertsAndDeletes == Calls(3, {"insert", "delete"})
InsertsAndGets == Calls(3, {"insert", "get"})
=============================================================================
