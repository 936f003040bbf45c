------------------------------ MODULE SkipList ------------------------------
(***************************************************************************)
(* The skip list under a memtable (include/table/skiplist.h), as TCTable   *)
(* uses it: Insert and Get run under table_lock_, so each is one step.     *)
(* The ids of a table come from one counter, so entries of a key differ in *)
(* theirs; because an id is drawn before the lock is taken, they arrive in *)
(* any order.  Get is asked with the largest id there is.                  *)
(***************************************************************************)
EXTENDS Entries, SequencesExt

CONSTANTS Pool,         \* the entries that may be inserted
          kMaxLevels,
          MaxDraws      \* bound on the lucky draws of RandomLevel

ASSUME SkipListAssumption ==
    /\ IsFiniteSet(Pool)
    /\ \A e \in Pool : e.key \in Nat /\ e.id \in Nat
    /\ \A d, e \in Pool : d.key = e.key /\ d.id = e.id => d = e
    /\ kMaxLevels \in Nat \ {0, 1}
    /\ MaxDraws \in Nat

\* No entry is smaller than the head and none is larger than the tail, which
\* is never compared.  Garbage is a link that nobody has initialised.
head_ == [key |-> -1, id |-> -1]
tail_ == [key |-> -2, id |-> -2]
Garbage == [key |-> -3, id |-> -3]

VARIABLES next_,        \* the links of every node, levels 0..kMaxLevels
          last_node_,   \* the node that Search met last on each level
          levels_

vars == <<next_, last_node_, levels_>>

Nodes == DOMAIN next_
Inserted == Nodes \ {head_}
Top == 0..kMaxLevels
MaxId == 1 + Max({e.id : e \in Pool})

Init ==
    /\ next_ = [n \in {head_} |->
                   [i \in Top |-> IF i < kMaxLevels THEN tail_ ELSE Garbage]]
    /\ last_node_ = [i \in Top |-> Garbage]
    /\ levels_ = 0

\* From node n along level i, as long as the next entry is smaller than e.
Walk(n, i, e) ==
    LET to[m \in Nodes] ==
            IF next_[m][i] \in Nodes /\ Less(next_[m][i], e)
            THEN to[next_[m][i]] ELSE m
    IN  to[n]

\* From the highest level down: the node at which each level is left.
Search(e) ==
    LET before[i \in 0..levels_] ==
            IF i = levels_ THEN Walk(head_, i, e) ELSE Walk(before[i + 1], i, e)
    IN  before

\* Mutant: the head is not made the last node of a new level.
LastNodesStale(e, r) ==
    LET before == Search(e)
    IN  [i \in Top |-> IF i <= levels_ THEN before[i] ELSE last_node_[i]]

\* last_node_ when the new tower is linked in.
LastNodes(e, r) ==
    LET before == Search(e)
    IN  [i \in Top |-> IF i <= levels_ THEN before[i]
                       ELSE IF i = levels_ + 1 /\ i <= r THEN head_
                       ELSE last_node_[i]]

\* The tower is at most one level higher than the list.
Level(r) == IF r > levels_ THEN levels_ + 1 ELSE r

Insert(e, r) ==
    LET last == LastNodes(e, r)
        Linked(n, i) == i <= Level(r) /\ last[i] = n
    IN  /\ e \notin Nodes
        /\ last_node_' = last
        /\ levels_' = IF r > levels_ THEN Level(r) ELSE levels_
        /\ next_' = [n \in Nodes \union {e} |->
                        [i \in Top |->
                            IF n = e
                            THEN IF i <= Level(r) /\ last[i] \in Nodes
                                 THEN next_[last[i]][i] ELSE Garbage
                            ELSE IF Linked(n, i) THEN e ELSE next_[n][i]]]

RandomLevel(lev) == IF lev <= kMaxLevels THEN lev ELSE kMaxLevels

Next == \E e \in Pool, lev \in 0..MaxDraws : Insert(e, RandomLevel(lev))

Spec == Init /\ [][Next]_vars

-----------------------------------------------------------------------------
(* Get and EntrySet change nothing.                                        *)
\* Mutant: the node behind the last smaller one is looked at.
GetBehind(k) ==
    LET n == next_[Search([key |-> k, id |-> MaxId])[0]][0]
    IN  IF n.key = k THEN n ELSE tail_

\* The query has the key and the largest id, so its entry is the last smaller
\* one.
Get(k) ==
    LET n == Search([key |-> k, id |-> MaxId])[0]
    IN  IF n.key = k THEN n ELSE tail_

\* The entries along level i, at most as many as there are.
Along(i) ==
    LET from[c \in 0..Cardinality(Nodes)] ==
            IF c = 0 THEN <<next_[head_][i]>>
            ELSE LET s == from[c - 1]
                 IN  IF Last(s) \in Nodes THEN Append(s, next_[Last(s)][i]) ELSE s
    IN  from[Cardinality(Nodes)]

EntrySet == Front(Along(0))

-----------------------------------------------------------------------------
(* Every link leads to a node, to the tail or is uninitialised, and the    *)
(* list grows by at most one level with each entry.                        *)
TypeOK ==
    /\ Inserted \subseteq Pool
    /\ next_ \in [Nodes -> [Top -> Nodes \union {tail_, Garbage}]]
    /\ levels_ \in 0..Cardinality(Inserted)

(* EntrySet, which a flush writes, has every inserted entry once, by key   *)
(* and id, in whatever order and with whatever towers they came.  Every    *)
(* level that Search walks ends at the tail after it has met entries in    *)
(* ascending order only: no link is uninitialised, none leads back, each   *)
(* level is a part of the one below it and none is in use for nothing.     *)
LevelsLinked ==
    /\ Range(EntrySet) = Inserted
    /\ \A i \in 0..levels_ :
          LET s == Along(i)
          IN  /\ Last(s) = tail_
              /\ \A j, k \in 1..(Len(s) - 1) : j < k => Less(s[j], s[k])
              /\ i > 0 => Len(s) > 1 /\ Range(s) \subseteq Range(Along(i - 1))

(* Get finds the newest entry of a key, and nothing for a key that has     *)
(* none.                                                                   *)
GetFindsNewest ==
    \A k \in {e.key : e \in Pool} :
        LET S == {e \in Inserted : e.key = k}
        IN  Get(k) = IF S = {} THEN tail_ ELSE Largest(S)

(* skiplist.h: the constructor initialises the head nodes.  No link that a *)
(* search of the levels in use can follow is uninitialised.                *)
HeadInitialized == \A i \in 0..levels_ : Garbage \notin Range(Along(i))
=============================================================================
