----------------------------- MODULE MCLRUCache -----------------------------
(* Keys 1 and 2 have the same length and first byte, key 3 another one.    *)
EXTENDS LRUCache, TLC

Symmetry == Permutations(Buffers)

ShapeOf(k) == IF k < 3 THEN "a" ELSE "b"
One(k) == 1
\* A value with the byte of its operation: "v" fits into a sector.
Bytes(val) == IF val.op = kDelete THEN 1 ELSE IF val.value = "v" THEN 2 ELSE 3
=============================================================================
