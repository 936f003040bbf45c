----------------------------- MODULE MCSkipList -----------------------------
(* The skip list on a few entries of three keys.                           *)
EXTENDS SkipList

Five == {[key |-> 1, id |-> 2], [key |-> 2, id |-> 0], [key |-> 2, id |-> 3],
         [key |-> 2, id |-> 4], [key |-> 3, id |-> 1]}
=============================================================================
