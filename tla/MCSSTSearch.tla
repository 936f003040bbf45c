---------------------------- MODULE MCSSTSearch ----------------------------
(* Every file that can be made of eight entries of five keys, of different *)
(* sizes, in blocks of about two bytes.                                    *)
EXTENDS SSTSearch

Pool == {[key |-> 1, id |-> 4], [key |-> 2, id |-> 0], [key |-> 2, id |-> 5],
         [key |-> 4, id |-> 1], [key |-> 4, id |-> 2], [key |-> 4, id |-> 7],
         [key |-> 5, id |-> 3], [key |-> 7, id |-> 6]}

Files == {Ascending(S) : S \in SUBSET Pool \ {{}}}

\* The last entry is longer than a block and than the buffer.
OneTwoOrFour(e) == IF e.id = 6 THEN 4 ELSE IF e.id % 3 = 0 THEN 2 ELSE 1

\* Two hash values of each key; some keys share one.
SmallHash(k, n) == k * k * (n + 4) + 3 * n
=============================================================================
