----------------------------- MODULE SharedProofs -----------------------------
(***************************************************************************)
(* Theorems about the structures the threads of the engine share: the skip *)
(* list, the services of PosixEnv and the cache of open tables.  The three *)
(* parts have nothing in common but the module.                            *)
(***************************************************************************)
EXTENDS SkipList, TableCache, PosixEnv, WellFoundedInduction, FiniteSetTheorems, SequenceTheorems, TLAPS

-------------------------------------------------------------------------------
(***************************************************************************)
(* For any number of keys and any height: a reader that follows the links  *)
(* of the skip list beside a running Insert finds what it must.            *)
(*                                                                         *)
(* A node is on a level once it was published there.  Every stored link    *)
(* leads to the next node on its level, the node being inserted included,  *)
(* whose own link leads on before anyone can reach it; and a node on a     *)
(* level is on all levels below it.                                        *)
(***************************************************************************)

Nodes == {HeadNode} \cup ListKeys

\* Node n was published at level l: readers can reach it there.
OnLevel(n, l) ==
  /\ next[n][l] # Unset
  /\ ~(insert.linked /\ n = insert.key /\ l = insert.level)

LinkTypes ==
  /\ next \in [Nodes -> [Levels -> Nodes \cup {Null, Unset}]]
  /\ heights \subseteq 1..kMaxHeight /\ heights # {}
  /\ inserted \subseteq ListKeys

InsertTypes ==
  /\ insert \in [key : ListKeys \cup {Null}, height : 0..kMaxHeight, level : Nat, linked : BOOLEAN]
  /\ insert.key = Null => insert = NoInsert
  /\ insert # NoInsert => insert.key \in ListKeys \ inserted /\ insert.level < insert.height

ReadTypes ==
  read \in [busy : BOOLEAN, forward : BOOLEAN, bound : 0..Null, node : Nodes \cup {Null},
            level : Levels, floor : SUBSET inserted]

\* The levels a node is on: all of them for the head, the lowest ones for an
\* inserted key, those below the current one for the key being inserted.
TowerInv ==
  /\ \A l \in Levels : next[HeadNode][l] # Unset
  /\ \A k \in inserted : next[k][0] # Unset
  /\ \A k \in Nodes, l, j \in Levels : OnLevel(k, l) /\ j <= l => OnLevel(k, j)
  /\ insert # NoInsert => \A l \in Levels : l > insert.level => next[insert.key][l] = Unset
  /\ insert # NoInsert /\ ~insert.linked => next[insert.key][insert.level] = Unset
  /\ insert # NoInsert /\ insert.linked => next[insert.key][insert.level] # Unset
  /\ insert # NoInsert => \A l \in Levels : l < insert.level => next[insert.key][l] # Unset
  /\ \A k \in ListKeys, l \in Levels : k \notin inserted /\ k # insert.key => next[k][l] = Unset

\* A stored link leads forward, to the first node on its level behind.
LinkInv ==
  \A n \in Nodes, l \in Levels :
    next[n][l] # Unset =>
      /\ n < next[n][l]
      /\ \A m \in Nodes : next[n][l] = m => OnLevel(m, l)
      /\ \A m \in Nodes : OnLevel(m, l) /\ n < m => next[n][l] <= m

\* A search that is under way has not reached its bound, on a level that its
\* node is on; a node it returned can be followed.
ReadInv ==
  /\ read.busy => read.node \in Nodes /\ OnLevel(read.node, read.level) /\ read.node < read.bound
  /\ ~read.busy /\ read.node \in ListKeys => OnLevel(read.node, 0)

ListInv ==
  /\ LinkTypes /\ InsertTypes /\ ReadTypes
  /\ TowerInv /\ LinkInv /\ ReadInv /\ SearchesExact

-------------------------------------------------------------------------------
(* Numbers. *)

\* The nodes in their order, with the head before and null after all keys.
LEMMA Order ==
  /\ HeadNode = 0 /\ HeadNode \in Nodes /\ Nodes \subseteq Nat
  /\ Null \in Nat /\ Null \notin Nodes /\ Unset \notin Nat /\ Unset \notin Nodes
  /\ \A n \in Nodes : n < Null
  /\ \A n \in Nodes : n # HeadNode <=> n \in ListKeys
  /\ \A k \in ListKeys : HeadNode < k
  /\ 0 \in Levels /\ Levels \subseteq Nat
  BY SkipListAssumption DEF HeadNode, Nodes, ListKeys, Null, Unset, Levels

\* A set of naturals that is bounded has a largest element.
LEMMA BoundedMax ==
  ASSUME NEW S \in SUBSET Nat, S # {}, NEW N \in Nat, \A x \in S : x <= N
  PROVE  Max(S) \in S /\ \A y \in S : y <= Max(S)
<1> DEFINE T == {N - x : x \in S}
<1>1. T \subseteq Nat /\ T # {}
  <2>1. \A x \in S : x \in Nat /\ x <= N
    OBVIOUS
  <2>2. \A x \in S : N - x \in Nat
    BY <2>1
  <2> QED
    BY <2>2
<1>2. IsWellFoundedOn(OpToRel(<, Nat), Nat)
  BY NatLessThanWellFounded
<1>3. PICK t \in T : \A u \in T : ~(<<u, t>> \in OpToRel(<, Nat))
  BY <1>1, <1>2, WFMin
<1>4. PICK x \in S : t = N - x
  OBVIOUS
<1>5. \A y \in S : x >= y
  <2> TAKE y \in S
  <2>1. N - y \in T /\ N - y \in Nat /\ t \in Nat /\ <<N - y, t>> \in Nat \X Nat
    BY <1>1
  <2>2. N - y < t => <<N - y, t>> \in OpToRel(<, Nat)
    BY <2>1 DEF OpToRel
  <2>3. ~(N - y < t)
    BY <1>3, <2>1, <2>2, Zenon
  <2> QED
    BY <1>4, <2>1, <2>3
<1>6. \E z \in S : \A y \in S : z >= y
  BY <1>5
<1>7. Max(S) \in S /\ \A y \in S : Max(S) >= y
  BY <1>6 DEF Max
<1> QED
  BY <1>7

-------------------------------------------------------------------------------
(* The invariant. *)

\* An empty list satisfies the invariant.
LEMMA ListInvInit == ListInit => ListInv
<1> SUFFICES ASSUME ListInit PROVE ListInv
  OBVIOUS
<1> USE Order
<1>1. \A n \in Nodes, l \in Levels : next[n][l] = IF n = HeadNode THEN Null ELSE Unset
  BY DEF ListInit, Nodes
<1>2. /\ insert = NoInsert /\ insert.key = Null /\ ~insert.linked /\ insert.level = 0 /\ insert.height = 0
      /\ inserted = {} /\ heights = {1}
  BY DEF ListInit, NoInsert
<1>3. LinkTypes
  <2>1. next \in [Nodes -> [Levels -> Nodes \cup {Null, Unset}]]
    BY DEF ListInit, Nodes
  <2> QED
    BY <1>2, <2>1, SkipListAssumption DEF LinkTypes
<1>4. InsertTypes
  <2>1. NoInsert \in [key : ListKeys \cup {Null}, height : 0..kMaxHeight, level : Nat, linked : BOOLEAN]
    BY SkipListAssumption DEF NoInsert
  <2> QED
    BY <1>2, <2>1 DEF InsertTypes
<1>5. ReadTypes
  BY SkipListAssumption DEF ReadTypes, ListInit, Null
<1>6. \A n \in Nodes, l \in Levels : OnLevel(n, l) <=> n = HeadNode
  BY <1>1, <1>2 DEF OnLevel
<1>7. TowerInv
  <2>1. \A l \in Levels : next[HeadNode][l] # Unset
    BY <1>1
  <2>2. \A k \in Nodes, l, j \in Levels : OnLevel(k, l) /\ j <= l => OnLevel(k, j)
    BY <1>6
  <2>3. \A k \in ListKeys, l \in Levels : next[k][l] = Unset
    BY <1>1 DEF Nodes
  <2> QED
    BY <1>2, <2>1, <2>2, <2>3 DEF TowerInv
<1>8. LinkInv
  <2> SUFFICES ASSUME NEW n \in Nodes, NEW l \in Levels, next[n][l] # Unset
               PROVE  /\ n < next[n][l]
                      /\ \A m \in Nodes : next[n][l] = m => OnLevel(m, l)
                      /\ \A m \in Nodes : OnLevel(m, l) /\ n < m => next[n][l] <= m
    BY DEF LinkInv
  <2>1. n = HeadNode /\ next[n][l] = Null
    BY <1>1
  <2>2. n < Null /\ \A m \in Nodes : Null # m
    OBVIOUS
  <2>3. \A m \in Nodes : OnLevel(m, l) => m = n
    BY <1>6, <2>1
  <2>4. \A m \in Nodes : m \in Nat
    OBVIOUS
  <2> QED
    BY <2>1, <2>2, <2>3, <2>4
<1>9. ReadInv /\ SearchesExact
  <2>1. /\ read.busy = FALSE /\ read.forward = TRUE /\ read.bound = 0 /\ read.node = Null
        /\ read.floor = {}
    BY DEF ListInit
  <2>2. Null \notin ListKeys /\ Null >= 0
    BY DEF Nodes
  <2> QED
    BY <2>1, <2>2 DEF ReadInv, SearchesExact
<1> QED
  BY <1>3, <1>4, <1>5, <1>7, <1>8, <1>9 DEF ListInv

\* Where Insert links its node: behind the last node before it on the level,
\* whose link leads past it.
LEMMA PrevFound ==
  ASSUME ListInv, insert # NoInsert
  PROVE  /\ insert.key \in ListKeys /\ insert.level \in Levels
         /\ ~OnLevel(insert.key, insert.level)
         /\ PrevAt(insert.key, insert.level) \in Nodes
         /\ PrevAt(insert.key, insert.level) < insert.key
         /\ OnLevel(PrevAt(insert.key, insert.level), insert.level)
         /\ next[PrevAt(insert.key, insert.level)][insert.level] > insert.key
         /\ next[PrevAt(insert.key, insert.level)][insert.level] \in Nodes \cup {Null}
         /\ \A m \in Nodes : OnLevel(m, insert.level) /\ m < insert.key
                              => m <= PrevAt(insert.key, insert.level)
<1> DEFINE key == insert.key
           lev == insert.level
           S == {n \in {HeadNode} \cup ListKeys : n < key /\ next[n][lev] # Unset}
           p == PrevAt(key, lev)
<1>0. LinkTypes /\ InsertTypes /\ TowerInv /\ LinkInv
  BY DEF ListInv
<1>1. key \in ListKeys /\ key \notin inserted /\ lev < insert.height /\ lev \in Nat
      /\ insert.height \in 0..kMaxHeight
  BY <1>0 DEF InsertTypes
<1>2. lev \in Levels
  BY <1>1, SkipListAssumption DEF Levels
<1>3. ~OnLevel(key, lev)
  BY <1>0 DEF TowerInv, OnLevel
<1> HIDE DEF key, lev
<1>4. key \in Nodes /\ key \in Nat /\ HeadNode < key
  BY <1>1, Order DEF Nodes
<1>5. S \subseteq Nat /\ HeadNode \in S /\ \A x \in S : x <= key
  <2>1. S \subseteq Nodes
    BY DEF Nodes
  <2>2. S \subseteq Nat
    BY <2>1, Order
  <2>3. HeadNode \in S
    BY <1>0, <1>2, <1>4 DEF TowerInv
  <2>4. \A x \in S : x < key
    OBVIOUS
  <2> QED
    BY <1>4, <2>2, <2>3, <2>4
<1>6. p \in S /\ \A y \in S : y <= p
  <2>1. p = Max(S)
    BY DEF PrevAt
  <2>2. Max(S) \in S /\ \A y \in S : y <= Max(S)
    BY <1>4, <1>5, BoundedMax
  <2> QED
    BY <2>1, <2>2
<1> HIDE DEF p
<1>7. p \in Nodes /\ p < key /\ next[p][lev] # Unset /\ p \in Nat
  BY <1>6, Order DEF Nodes
<1>8. OnLevel(p, lev)
  <2>1. p # insert.key
    BY <1>4, <1>7 DEF key
  <2> QED
    BY <1>7, <2>1 DEF OnLevel
<1>9. \A m \in Nodes : OnLevel(m, lev) /\ m < key => m <= p
  BY <1>6 DEF OnLevel, Nodes
<1>10. /\ p < next[p][lev]
       /\ \A m \in Nodes : next[p][lev] = m => OnLevel(m, lev)
  BY <1>0, <1>2, <1>7 DEF LinkInv
<1>11. next[p][lev] \in Nodes \cup {Null}
  BY <1>0, <1>2, <1>7 DEF LinkTypes
<1>12. next[p][lev] > key
  <2>1. CASE next[p][lev] = Null
    BY <1>4, <2>1, Order
  <2>2. CASE next[p][lev] # Null
    <3>1. next[p][lev] \in Nodes /\ OnLevel(next[p][lev], lev) /\ next[p][lev] \in Nat
      BY <1>10, <1>11, <2>2, Order
    <3>2. next[p][lev] # key
      BY <1>3, <3>1
    <3>3. ~(next[p][lev] < key)
      BY <1>7, <1>9, <1>10, <3>1
    <3> QED
      BY <1>4, <3>1, <3>2, <3>3
  <2> QED
    BY <2>1, <2>2
<1> QED
  BY <1>1, <1>2, <1>3, <1>7, <1>8, <1>9, <1>11, <1>12 DEF p, key, lev

\* What is published stays published, so that a writer does not disturb a
\* reader.
LEMMA ReaderUndisturbed ==
  ASSUME ListInv, UNCHANGED read, inserted \subseteq inserted',
         \A n \in Nodes, l \in Levels : OnLevel(n, l) => OnLevel(n, l)'
  PROVE  ReadTypes' /\ ReadInv' /\ SearchesExact'
<1>0. ReadTypes /\ ReadInv /\ SearchesExact
  BY DEF ListInv
<1>1. ReadTypes'
  BY <1>0 DEF ReadTypes
<1>2. read.level \in Levels /\ 0 \in Levels /\ ListKeys \subseteq Nodes
  BY <1>0, Order DEF ReadTypes, Nodes
<1>3. ReadInv'
  BY <1>0, <1>2 DEF ReadInv
<1>4. read.busy => next'[read.node][read.level] # Unset
  <2>1. read.busy => OnLevel(read.node, read.level)'
    BY <1>0, <1>2 DEF ReadInv
  <2> QED
    BY <2>1 DEF OnLevel
<1>5. SearchesExact'
  BY <1>0, <1>4 DEF SearchesExact
<1> QED
  BY <1>1, <1>3, <1>5

\* Insert chooses a height; the new node is on no level yet.
LEMMA StartInsertKeeps ==
  ASSUME ListInv, StartInsert
  PROVE  ListInv'
<1>0. LinkTypes /\ InsertTypes /\ TowerInv /\ LinkInv
  BY DEF ListInv
<1>1. PICK key \in ListKeys \ inserted, height \in 1..kMaxHeight :
        /\ insert' = [key |-> key, height |-> height, level |-> 0, linked |-> FALSE]
        /\ heights' = heights \cup {Max(heights \cup {height})}
  BY DEF StartInsert
<1>2. insert = NoInsert /\ UNCHANGED <<next, inserted, read>>
  BY DEF StartInsert
<1>3. insert.key = Null /\ ~insert.linked /\ ~insert'.linked
  BY <1>1, <1>2 DEF NoInsert
<1>4. insert'.key = key /\ insert'.height = height /\ insert'.level = 0
  BY <1>1
<1>5. key \in Nodes /\ key # Null /\ Null \notin ListKeys /\ insert' # NoInsert
  <2>1. key \in Nodes /\ key # Null /\ Null \notin ListKeys
    BY Order DEF Nodes
  <2> QED
    BY <1>4, <2>1 DEF NoInsert
<1>6. heights' \subseteq 1..kMaxHeight /\ heights' # {}
  <2>1. heights \cup {height} \subseteq 1..kMaxHeight
    BY <1>0 DEF LinkTypes
  <2>2. heights \cup {height} \in SUBSET Nat /\ \A x \in heights \cup {height} : x <= kMaxHeight
    BY <2>1, SkipListAssumption
  <2>3. Max(heights \cup {height}) \in heights \cup {height}
    BY <2>2, BoundedMax, SkipListAssumption
  <2> QED
    BY <1>1, <2>1, <2>3
<1>7. LinkTypes'
  BY <1>0, <1>2, <1>6 DEF LinkTypes
<1>8. InsertTypes'
  <2>1. insert' \in [key : ListKeys \cup {Null}, height : 0..kMaxHeight, level : Nat, linked : BOOLEAN]
    BY <1>1, SkipListAssumption
  <2>2. insert'.level < insert'.height
    BY <1>4, SkipListAssumption
  <2> QED
    BY <1>2, <1>4, <1>5, <2>1, <2>2 DEF InsertTypes
<1>9. \A n \in Nodes, l \in Levels : OnLevel(n, l)' <=> OnLevel(n, l)
  BY <1>2, <1>3 DEF OnLevel
<1>10. \A l \in Levels : next[key][l] = Unset
  BY <1>0, <1>3, <1>5 DEF TowerInv
<1>11. TowerInv'
  <2>1. 0 \in Levels /\ Levels \subseteq Nat
    BY Order
  <2>2. \A k \in Nodes, l, j \in Levels : OnLevel(k, l)' /\ j <= l => OnLevel(k, j)'
    BY <1>0, <1>9 DEF TowerInv
  <2>3. \A l \in Levels : ~(l < 0)
    BY <2>1
  <2>4. \A k \in ListKeys, l \in Levels : k \notin inserted => next[k][l] = Unset
    BY <1>0, <1>3, <1>5 DEF TowerInv
  <2> QED
    BY <1>0, <1>2, <1>3, <1>4, <1>10, <2>1, <2>2, <2>3, <2>4 DEF TowerInv
<1>12. LinkInv'
  <2> SUFFICES ASSUME NEW n \in Nodes, NEW l \in Levels, next[n][l] # Unset
               PROVE  /\ n < next[n][l]
                      /\ \A m \in Nodes : next[n][l] = m => OnLevel(m, l)'
                      /\ \A m \in Nodes : OnLevel(m, l)' /\ n < m => next[n][l] <= m
    BY <1>2 DEF LinkInv
  <2> QED
    BY <1>0, <1>9 DEF LinkInv
<1>13. ReadTypes' /\ ReadInv' /\ SearchesExact'
  BY <1>2, <1>9, ReaderUndisturbed
<1> QED
  BY <1>7, <1>8, <1>11, <1>12, <1>13 DEF ListInv

\* The node's own link is stored; nobody can reach the node through it yet.
LEMMA SetOwnLinkKeeps ==
  ASSUME ListInv, SetOwnLink
  PROVE  ListInv'
<1> DEFINE key == insert.key
           lev == insert.level
           p == PrevAt(insert.key, insert.level)
<1>0. LinkTypes /\ InsertTypes /\ TowerInv /\ LinkInv
  BY DEF ListInv
<1>1. /\ insert # NoInsert /\ ~insert.linked
      /\ next' = [next EXCEPT ![key][lev] = next[p][lev]]
      /\ insert' = [insert EXCEPT !.linked = TRUE]
      /\ UNCHANGED <<heights, inserted, read>>
  BY DEF SetOwnLink
<1>2. /\ key \in ListKeys /\ lev \in Levels /\ ~OnLevel(key, lev)
      /\ p \in Nodes /\ p < key /\ OnLevel(p, lev)
      /\ next[p][lev] > key /\ next[p][lev] \in Nodes \cup {Null}
      /\ \A m \in Nodes : OnLevel(m, lev) /\ m < key => m <= p
  BY <1>1, PrevFound
<1>3. /\ insert'.key = key /\ insert'.level = lev /\ insert'.height = insert.height
      /\ insert'.linked
  BY <1>0, <1>1 DEF InsertTypes
<1>i. InsertTypes'
  <2>1. insert' \in [key : ListKeys \cup {Null}, height : 0..kMaxHeight, level : Nat, linked : BOOLEAN]
    BY <1>0, <1>1 DEF InsertTypes
  <2>2. insert'.key # Null /\ insert'.key \notin inserted
    BY <1>0, <1>1, <1>2, <1>3, Order DEF InsertTypes, Nodes
  <2> QED
    BY <1>0, <1>1, <1>2, <1>3, <2>1, <2>2 DEF InsertTypes
<1>n. insert' # NoInsert
  BY <1>3 DEF NoInsert
<1> HIDE DEF key, lev, p
<1>4. key \in Nodes /\ key \in Nat /\ key # HeadNode /\ p \in Nat
  BY <1>2, Order DEF Nodes
<1>5. /\ next'[key][lev] = next[p][lev]
      /\ \A n \in Nodes, l \in Levels : n # key \/ l # lev => next'[n][l] = next[n][l]
      /\ next' \in [Nodes -> [Levels -> Nodes \cup {Null, Unset}]]
  BY <1>0, <1>1, <1>2, <1>4 DEF LinkTypes
<1>6. LinkTypes'
  BY <1>0, <1>1, <1>5 DEF LinkTypes
<1>7. \A n \in Nodes, l \in Levels : OnLevel(n, l)' <=> OnLevel(n, l)
  <2>1. ASSUME NEW n \in Nodes, NEW l \in Levels, n = key, l = lev
        PROVE  ~OnLevel(n, l)' /\ ~OnLevel(n, l)
    BY <1>2, <1>3, <2>1 DEF OnLevel, key, lev
  <2>2. ASSUME NEW n \in Nodes, NEW l \in Levels, n # key \/ l # lev
        PROVE  OnLevel(n, l)' <=> OnLevel(n, l)
    <3>1. next'[n][l] = next[n][l]
      BY <1>5, <2>2
    <3> QED
      BY <1>1, <1>3, <2>2, <3>1 DEF OnLevel, key, lev
  <2> QED
    BY <2>1, <2>2
<1>8. next[key][lev] = Unset /\ next[p][lev] # Unset
  BY <1>0, <1>1, <1>2, Order DEF TowerInv, key, lev
<1>9. TowerInv'
  <2>1. \A l \in Levels : next'[HeadNode][l] # Unset
    BY <1>0, <1>4, <1>5, Order DEF TowerInv
  <2>2. \A k \in inserted : next'[k][0] # Unset
    <3>1. inserted \subseteq Nodes /\ key \notin inserted
      BY <1>0, <1>1 DEF LinkTypes, InsertTypes, Nodes, key
    <3> QED
      BY <1>0, <1>5, <3>1, Order DEF TowerInv
  <2>3. \A k \in Nodes, l, j \in Levels : OnLevel(k, l)' /\ j <= l => OnLevel(k, j)'
    BY <1>0, <1>7 DEF TowerInv
  <2>4. \A l \in Levels : l > lev => next'[key][l] = Unset
    <3>1. \A l \in Levels : l > lev => next[key][l] = Unset
      BY <1>0, <1>1 DEF TowerInv, key, lev
    <3> QED
      BY <1>2, <1>4, <1>5, <3>1, Order
  <2>5. \A l \in Levels : l < lev => next'[key][l] # Unset
    <3>1. \A l \in Levels : l < lev => next[key][l] # Unset
      BY <1>0, <1>1 DEF TowerInv, key, lev
    <3> QED
      BY <1>2, <1>4, <1>5, <3>1, Order
  <2>6. \A k \in ListKeys, l \in Levels : k \notin inserted /\ k # key => next'[k][l] = Unset
    <3>1. \A k \in ListKeys, l \in Levels : k \notin inserted /\ k # key => next[k][l] = Unset
      BY <1>0 DEF TowerInv, key
    <3> QED
      BY <1>5, <3>1 DEF Nodes
  <2> QED
    BY <1>1, <1>3, <1>5, <1>8, <2>1, <2>2, <2>3, <2>4, <2>5, <2>6 DEF TowerInv, key, lev
<1>10. LinkInv'
  <2> SUFFICES ASSUME NEW n \in Nodes, NEW l \in Levels, next'[n][l] # Unset
               PROVE  /\ n < next'[n][l]
                      /\ \A m \in Nodes : next'[n][l] = m => OnLevel(m, l)'
                      /\ \A m \in Nodes : OnLevel(m, l)' /\ n < m => next'[n][l] <= m
    BY DEF LinkInv
  <2>2. CASE n # key \/ l # lev
    <3>1. next'[n][l] = next[n][l]
      BY <1>5, <2>2
    <3> QED
      BY <1>0, <1>7, <3>1 DEF LinkInv
  <2>3. CASE n = key /\ l = lev
    <3>1. /\ \A m \in Nodes : next[p][lev] = m => OnLevel(m, lev)
          /\ \A m \in Nodes : OnLevel(m, lev) /\ p < m => next[p][lev] <= m
      BY <1>0, <1>2, <1>8 DEF LinkInv
    <3>2. \A m \in Nodes : key < m => p < m
      BY <1>2, <1>4, Order
    <3>3. next[p][lev] \in Nat /\ n < next[p][lev]
      BY <1>2, <1>4, <2>3, Order
    <3>4. next'[n][l] = next[p][lev]
      BY <1>5, <2>3
    <3>5. \A m \in Nodes : OnLevel(m, l)' <=> OnLevel(m, lev)
      BY <1>7, <2>3
    <3>6. ASSUME NEW m \in Nodes, next'[n][l] = m PROVE OnLevel(m, l)'
      <4>1. OnLevel(m, lev)
        BY <3>1, <3>4, <3>6
      <4> QED
        BY <3>5, <4>1
    <3>7. \A m \in Nodes : OnLevel(m, l)' /\ n < m => next'[n][l] <= m
      BY <2>3, <3>1, <3>2, <3>4, <3>5
    <3> QED
      BY <3>3, <3>4, <3>6, <3>7
  <2> QED
    BY <2>2, <2>3
<1>11. ReadTypes' /\ ReadInv' /\ SearchesExact'
  BY <1>1, <1>7, ReaderUndisturbed
<1> QED
  BY <1>i, <1>6, <1>9, <1>10, <1>11 DEF ListInv

\* The node is published at a level, below which it was published before; the
\* last level ends the Insert.
LEMMA PublishKeeps ==
  ASSUME ListInv, Publish
  PROVE  ListInv'
<1> DEFINE key == insert.key
           lev == insert.level
           p == PrevAt(insert.key, insert.level)
           last == insert.level + 1 >= insert.height
<1>0. LinkTypes /\ InsertTypes /\ TowerInv /\ LinkInv
  BY DEF ListInv
<1>1. /\ insert # NoInsert /\ insert.linked
      /\ next' = [next EXCEPT ![p][lev] = key]
      /\ UNCHANGED <<heights, read>>
  BY DEF Publish
<1>2. /\ key \in ListKeys /\ lev \in Levels /\ ~OnLevel(key, lev)
      /\ p \in Nodes /\ p < key /\ OnLevel(p, lev)
      /\ next[p][lev] > key /\ next[p][lev] \in Nodes \cup {Null}
      /\ \A m \in Nodes : OnLevel(m, lev) /\ m < key => m <= p
  BY <1>1, PrevFound
<1>3. /\ key \notin inserted /\ key # Null
      /\ lev \in Nat /\ insert.height \in 0..kMaxHeight /\ lev < insert.height
  BY <1>0, <1>1, <1>2, Order DEF InsertTypes, Nodes
<1>4. \/ last /\ insert' = NoInsert /\ inserted' = inserted \cup {key}
      \/ /\ ~last /\ insert' = [insert EXCEPT !.level = @ + 1, !.linked = FALSE]
         /\ inserted' = inserted
  BY <1>3, SkipListAssumption DEF Publish
<1> HIDE DEF last
<1>a. ASSUME ~last
      PROVE  /\ insert'.key = key /\ insert'.height = insert.height /\ insert'.level = lev + 1
             /\ ~insert'.linked
             /\ insert' \in [key : ListKeys \cup {Null}, height : 0..kMaxHeight, level : Nat,
                             linked : BOOLEAN]
  <2>1. insert' = [key |-> key, height |-> insert.height, level |-> lev + 1, linked |-> FALSE]
    BY <1>0, <1>4, <1>a DEF InsertTypes
  <2> QED
    BY <1>2, <1>3, <2>1
<1>b. last => insert'.key = Null /\ ~insert'.linked /\ insert' = NoInsert
  BY <1>4 DEF NoInsert
<1>5. /\ ~insert'.linked
      /\ insert' # NoInsert => /\ ~last /\ insert'.key = key /\ insert'.level = lev + 1
                               /\ insert'.height = insert.height
      /\ insert'.key = key \/ insert'.key = Null
  BY <1>a, <1>b
<1>6. inserted \subseteq inserted' /\ inserted' \subseteq inserted \cup {key}
      /\ (insert' # NoInsert => inserted' = inserted)
      /\ (insert' = NoInsert => inserted' = inserted \cup {key})
  <2>1. ~last => insert' # NoInsert
    BY <1>3, <1>a DEF NoInsert
  <2> QED
    BY <1>4, <2>1
<1>i. InsertTypes'
  <2>1. CASE insert' = NoInsert
    <3>1. NoInsert \in [key : ListKeys \cup {Null}, height : 0..kMaxHeight, level : Nat, linked : BOOLEAN]
      BY SkipListAssumption DEF NoInsert
    <3> QED
      BY <2>1, <3>1 DEF InsertTypes
  <2>2. CASE insert' # NoInsert
    <3>1. insert' \in [key : ListKeys \cup {Null}, height : 0..kMaxHeight, level : Nat, linked : BOOLEAN]
      BY <1>5, <1>a, <2>2
    <3>2. insert'.level < insert'.height
      BY <1>3, <1>5, <2>2, SkipListAssumption DEF last
    <3> QED
      BY <1>2, <1>3, <1>5, <1>6, <2>2, <3>1, <3>2 DEF InsertTypes
  <2> QED
    BY <2>1, <2>2
<1> HIDE DEF key, lev, p
<1>7. key \in Nodes /\ key \in Nat /\ key # HeadNode /\ p \in Nat
  BY <1>2, Order DEF Nodes
<1>8. /\ next'[p][lev] = key
      /\ \A n \in Nodes, l \in Levels : n # p \/ l # lev => next'[n][l] = next[n][l]
      /\ next' \in [Nodes -> [Levels -> Nodes \cup {Null, Unset}]]
  BY <1>0, <1>1, <1>2, <1>7 DEF LinkTypes
<1>9. LinkTypes'
  BY <1>0, <1>1, <1>2, <1>6, <1>8 DEF LinkTypes
<1>10. key # Unset /\ next[p][lev] # Unset
  BY <1>2, <1>7, Order
<1>11. \A n \in Nodes, l \in Levels : next'[n][l] = Unset <=> next[n][l] = Unset
  BY <1>8, <1>10
<1>12. next[key][lev] # Unset
  BY <1>0, <1>1 DEF TowerInv, key, lev
<1>13. \A n \in Nodes, l \in Levels : OnLevel(n, l)' <=> next[n][l] # Unset
  BY <1>5, <1>11 DEF OnLevel
<1>14. \A n \in Nodes, l \in Levels : next[n][l] # Unset <=> OnLevel(n, l) \/ (n = key /\ l = lev)
  BY <1>12 DEF OnLevel, key, lev
<1>15. TowerInv'
  <2>1. \A l \in Levels : next'[HeadNode][l] # Unset
    BY <1>0, <1>11, Order DEF TowerInv
  <2>2. \A k \in inserted' : next'[k][0] # Unset
    <3>1. inserted \subseteq Nodes
      BY <1>0 DEF LinkTypes, Nodes
    <3>2. \A k \in inserted : next'[k][0] # Unset
      BY <1>0, <1>11, <3>1, Order DEF TowerInv
    <3>3. next'[key][0] # Unset
      <4>1. CASE lev = 0
        BY <1>7, <1>11, <1>12, <4>1, Order
      <4>2. CASE lev # 0
        <5>1. 0 < lev /\ 0 \in Levels
          BY <1>3, <4>2, Order DEF lev
        <5>2. next[key][0] # Unset
          BY <1>0, <1>1, <5>1 DEF TowerInv, key, lev
        <5> QED
          BY <1>7, <1>11, <5>1, <5>2
      <4> QED
        BY <4>1, <4>2
    <3> QED
      BY <1>6, <3>2, <3>3
  <2>3. \A k \in Nodes, l, j \in Levels : OnLevel(k, l)' /\ j <= l => OnLevel(k, j)'
    <3> SUFFICES ASSUME NEW k \in Nodes, NEW l \in Levels, NEW j \in Levels, OnLevel(k, l)', j <= l
                 PROVE  OnLevel(k, j)'
      OBVIOUS
    <3>1. CASE OnLevel(k, l)
      BY <1>0, <1>13, <1>14, <3>1 DEF TowerInv
    <3>2. CASE k = key /\ l = lev
      <4>1. j < lev \/ j = lev
        BY <3>2, Order
      <4>2. j < lev => next[key][j] # Unset
        BY <1>0, <1>1 DEF TowerInv, key, lev
      <4> QED
        BY <1>12, <1>13, <3>2, <4>1, <4>2
    <3> QED
      BY <1>13, <1>14, <3>1, <3>2
  <2>4. ASSUME insert' # NoInsert
        PROVE  /\ \A l \in Levels : l > insert'.level => next'[insert'.key][l] = Unset
               /\ next'[insert'.key][insert'.level] = Unset
               /\ \A l \in Levels : l < insert'.level => next'[insert'.key][l] # Unset
    <3>1. insert'.key = key /\ insert'.level = lev + 1 /\ lev \in Nat /\ lev + 1 \in Levels
      <4>1. insert.level + 1 < insert.height
        BY <1>3, <1>5, <2>4, SkipListAssumption DEF last, lev
      <4>2. lev + 1 \in Levels
        BY <1>3, <4>1, SkipListAssumption DEF Levels, lev
      <4> QED
        BY <1>3, <1>5, <2>4, <4>2 DEF key, lev
    <3>2. \A l \in Levels : l > lev => next'[key][l] = Unset
      <4>1. \A l \in Levels : l > lev => next[key][l] = Unset
        BY <1>0, <1>1 DEF TowerInv, key, lev
      <4> QED
        BY <1>7, <1>11, <4>1
    <3>3. \A l \in Levels : l <= lev => next'[key][l] # Unset
      <4>1. \A l \in Levels : l < lev => next[key][l] # Unset
        BY <1>0, <1>1 DEF TowerInv, key, lev
      <4>2. Levels \subseteq Nat /\ lev \in Nat
        BY <3>1, Order
      <4>3. \A l \in Levels : l <= lev => l < lev \/ l = lev
        BY <4>2
      <4>4. next[key][lev] # Unset
        BY <1>12
      <4>5. \A l \in Levels : l <= lev => next[key][l] # Unset
        BY <4>1, <4>3, <4>4
      <4> QED
        BY <1>7, <1>11, <4>5
    <3>4. \A l \in Levels : (l > lev + 1 => l > lev) /\ (l < lev + 1 => l <= lev)
      BY <3>1, Order
    <3>5. lev + 1 > lev
      BY <3>1
    <3> QED
      BY <3>1, <3>2, <3>3, <3>4, <3>5
  <2>5. \A k \in ListKeys, l \in Levels : k \notin inserted' /\ k # insert'.key => next'[k][l] = Unset
    <3> SUFFICES ASSUME NEW k \in ListKeys, NEW l \in Levels, k \notin inserted', k # insert'.key
                 PROVE  next'[k][l] = Unset
      OBVIOUS
    <3>1. k \notin inserted /\ k # key
      BY <1>5, <1>6 DEF key
    <3>2. next[k][l] = Unset
      BY <1>0, <3>1 DEF TowerInv, key
    <3> QED
      BY <1>11, <3>2 DEF Nodes
  <2> QED
    BY <1>5, <2>1, <2>2, <2>3, <2>4, <2>5 DEF TowerInv
<1>16. LinkInv'
  <2> SUFFICES ASSUME NEW n \in Nodes, NEW l \in Levels, next'[n][l] # Unset
               PROVE  /\ n < next'[n][l]
                      /\ \A m \in Nodes : next'[n][l] = m => OnLevel(m, l)'
                      /\ \A m \in Nodes : OnLevel(m, l)' /\ n < m => next'[n][l] <= m
    BY DEF LinkInv
  <2>0. n \in Nat /\ next[n][l] # Unset
    BY <1>11, Order
  <2>1. /\ n < next[n][l]
        /\ \A m \in Nodes : next[n][l] = m => OnLevel(m, l)
        /\ \A m \in Nodes : OnLevel(m, l) /\ n < m => next[n][l] <= m
    BY <1>0, <2>0 DEF LinkInv
  <2>2. \A m \in Nodes : OnLevel(m, l)' <=> OnLevel(m, l) \/ (m = key /\ l = lev)
    BY <1>13, <1>14
  <2>3. CASE n = p /\ l = lev
    <3>1. next'[n][l] = key
      BY <1>8, <2>3
    <3>2. \A m \in Nodes : next'[n][l] = m => OnLevel(m, l)'
      BY <2>2, <2>3, <3>1
    <3>3. ASSUME NEW m \in Nodes, OnLevel(m, lev), p < m
          PROVE  key <= m
      <4>1. m \in Nat /\ ~(m <= p)
        BY <1>7, <3>3, Order
      <4>2. ~(m < key)
        BY <1>2, <3>3, <4>1
      <4> QED
        BY <1>7, <4>1, <4>2
    <3>4. \A m \in Nodes : OnLevel(m, l)' /\ n < m => next'[n][l] <= m
      BY <1>7, <2>2, <2>3, <3>1, <3>3
    <3> QED
      BY <1>2, <2>3, <3>1, <3>2, <3>4
  <2>4. CASE n # p \/ l # lev
    <3>1. next'[n][l] = next[n][l]
      BY <1>8, <2>4
    <3>2. \A m \in Nodes : next'[n][l] = m => OnLevel(m, l)'
      BY <2>1, <2>2, <3>1
    <3>3. l = lev /\ n < key => next[n][l] <= key
      <4> SUFFICES ASSUME l = lev, n < key PROVE next[n][l] <= key
        OBVIOUS
      <4>1. OnLevel(n, lev)
        BY <1>7, <1>14, <2>0
      <4>2. n < p
        BY <1>2, <1>7, <2>0, <2>4, <4>1
      <4>3. next[n][l] <= p
        BY <1>2, <2>1, <4>2
      <4>4. next[n][l] \in Nat
        BY <1>0, <2>0, Order DEF LinkTypes
      <4> QED
        BY <1>2, <1>7, <4>3, <4>4
    <3>4. \A m \in Nodes : OnLevel(m, l)' /\ n < m => next'[n][l] <= m
      BY <2>1, <2>2, <3>1, <3>3
    <3> QED
      BY <2>1, <3>1, <3>2, <3>4
  <2> QED
    BY <2>3, <2>4
<1>17. ReadTypes' /\ ReadInv' /\ SearchesExact'
  BY <1>1, <1>6, <1>13, <1>14, ReaderUndisturbed
<1> QED
  BY <1>i, <1>9, <1>15, <1>16, <1>17 DEF ListInv

\* A reader changes only its own position: the list stays as it is.
LEMMA ReadOnly ==
  ASSUME ListInv, UNCHANGED <<next, heights, insert, inserted>>
  PROVE  /\ LinkTypes' /\ InsertTypes' /\ TowerInv' /\ LinkInv'
         /\ \A n \in Nodes, l \in Levels : OnLevel(n, l)' <=> OnLevel(n, l)
<1>1. \A n \in Nodes, l \in Levels : OnLevel(n, l)' <=> OnLevel(n, l)
  BY DEF OnLevel
<1> QED
  BY <1>1 DEF ListInv, LinkTypes, InsertTypes, TowerInv, LinkInv

\* A search starts at the head, which is on every level.
LEMMA BeginKeeps ==
  ASSUME ListInv, NEW forward \in BOOLEAN, NEW bound \in ListKeys \cup {Null}, Begin(forward, bound)
  PROVE  ListInv'
<1>1. UNCHANGED <<next, heights, insert, inserted>>
  BY DEF Begin
<1>2. PICK h \in heights :
        read' = [busy |-> TRUE, forward |-> forward, bound |-> bound,
                 node |-> HeadNode, level |-> h - 1, floor |-> inserted]
  BY DEF Begin
<1>3. h - 1 \in Levels
  BY SkipListAssumption DEF ListInv, LinkTypes, Levels
<1>4. OnLevel(HeadNode, h - 1)
  <2>1. next[HeadNode][h - 1] # Unset
    BY <1>3 DEF ListInv, TowerInv
  <2>2. HeadNode # insert.key
    BY Order DEF ListInv, InsertTypes, Nodes
  <2> QED
    BY <2>1, <2>2 DEF OnLevel
<1>5. bound \in 0..Null /\ HeadNode < bound /\ HeadNode \in Nodes
  BY Order DEF Nodes
<1>6. ReadTypes'
  BY <1>1, <1>2, <1>3, <1>5 DEF ReadTypes
<1>7. /\ read'.busy /\ read'.node = HeadNode /\ read'.level = h - 1 /\ read'.bound = bound
  BY <1>2
<1>8. ReadInv'
  BY <1>1, <1>4, <1>5, <1>7 DEF ReadInv, OnLevel
<1>9. SearchesExact'
  BY <1>1, <1>4, <1>7 DEF SearchesExact, OnLevel
<1> QED
  BY <1>1, <1>6, <1>8, <1>9, ReadOnly DEF ListInv

\* Every key whose Insert returned can be reached on the lowest level.
LEMMA InsertedReachable ==
  ASSUME ListInv
  PROVE  \A k \in inserted : k \in Nodes /\ OnLevel(k, 0) /\ k \in Nat
<1> TAKE k \in inserted
<1>1. LinkTypes /\ InsertTypes /\ TowerInv
  BY DEF ListInv
<1>2. k \in ListKeys /\ k \in Nodes /\ next[k][0] # Unset
  BY <1>1 DEF LinkTypes, TowerInv, Nodes
<1>3. k # Null /\ k \in Nat
  BY <1>2, Order
<1>4. k # insert.key
  <2>1. CASE insert = NoInsert
    BY <1>3, <2>1 DEF NoInsert
  <2>2. CASE insert # NoInsert
    BY <1>1, <2>2 DEF InsertTypes
  <2> QED
    BY <2>1, <2>2
<1> QED
  BY <1>2, <1>3, <1>4 DEF OnLevel

\* One round of a search: ahead on its level, down, or to its end.
LEMMA StepKeeps ==
  ASSUME ListInv, Step
  PROVE  ListInv'
<1> DEFINE n == next[read.node][read.level]
<1>0. LinkTypes /\ ReadTypes /\ TowerInv /\ LinkInv /\ ReadInv
  BY DEF ListInv
<1>1. /\ read.busy /\ UNCHANGED <<next, heights, insert, inserted>>
      /\ read' = IF n < read.bound THEN [read EXCEPT !.node = n]
                 ELSE IF read.level > 0 THEN [read EXCEPT !.level = @ - 1]
                 ELSE [read EXCEPT !.busy = FALSE, !.node = IF read.forward THEN n ELSE @]
  BY DEF Step
<1>2. /\ read.node \in Nodes /\ read.level \in Levels /\ OnLevel(read.node, read.level)
      /\ read.node < read.bound /\ read.bound \in 0..Null /\ read.floor \subseteq inserted
  BY <1>0, <1>1 DEF ReadInv, ReadTypes
<1>3. n # Unset
  BY <1>2 DEF OnLevel
<1>4. /\ read.node < n
      /\ \A m \in Nodes : n = m => OnLevel(m, read.level)
      /\ \A m \in Nodes : OnLevel(m, read.level) /\ read.node < m => n <= m
  BY <1>0, <1>2, <1>3 DEF LinkInv
<1>5. n \in Nodes \cup {Null} /\ n \in Nat /\ read.bound \in Nat /\ read.node \in Nat
  <2>1. n \in Nodes \cup {Null}
    BY <1>0, <1>2, <1>3 DEF LinkTypes
  <2>2. n \in Nat
    BY <2>1, Order
  <2>3. read.node \in Nat
    BY <1>2, Order
  <2>4. read.bound \in Nat
    BY <1>2, SkipListAssumption DEF Null
  <2> QED
    BY <2>1, <2>2, <2>3, <2>4
<1> HIDE DEF n
<1>6. \A k \in Nodes, l \in Levels : OnLevel(k, l)' <=> OnLevel(k, l)
  BY <1>1, ReadOnly
<1>7. \A k \in read.floor : k \in Nodes /\ OnLevel(k, 0) /\ k \in Nat
  BY <1>2, InsertedReachable
<1>8. CASE n < read.bound
  <2>1. read' = [read EXCEPT !.node = n]
    BY <1>1, <1>8
  <2>2. n \in Nodes
    BY <1>2, <1>5, <1>8, Order
  <2>3. ReadTypes'
    BY <1>0, <1>1, <1>5, <2>1 DEF ReadTypes
  <2>4. read'.busy /\ read'.node = n /\ read'.level = read.level /\ read'.bound = read.bound
    BY <1>0, <1>1, <2>1 DEF ReadTypes
  <2>5. OnLevel(n, read.level)
    BY <1>4, <2>2
  <2>6. ReadInv'
    BY <1>1, <1>8, <2>2, <2>4, <2>5 DEF ReadInv, OnLevel
  <2>7. SearchesExact'
    BY <1>1, <2>4, <2>5 DEF SearchesExact, OnLevel
  <2> QED
    BY <1>1, <2>3, <2>6, <2>7, ReadOnly DEF ListInv
<1>9. CASE ~(n < read.bound) /\ read.level > 0
  <2>1. read' = [read EXCEPT !.level = @ - 1]
    BY <1>1, <1>9
  <2>2. read.level - 1 \in Levels /\ read.level - 1 <= read.level
    BY <1>2, <1>9, SkipListAssumption DEF Levels
  <2>3. ReadTypes'
    BY <1>0, <1>1, <2>1, <2>2 DEF ReadTypes
  <2>4. read'.busy /\ read'.node = read.node /\ read'.level = read.level - 1 /\ read'.bound = read.bound
    BY <1>0, <1>1, <2>1 DEF ReadTypes
  <2>5. OnLevel(read.node, read.level - 1)
    BY <1>0, <1>2, <2>2 DEF TowerInv
  <2>6. ReadInv'
    BY <1>1, <1>2, <2>4, <2>5 DEF ReadInv, OnLevel
  <2>7. SearchesExact'
    BY <1>1, <2>4, <2>5 DEF SearchesExact, OnLevel
  <2> QED
    BY <1>1, <2>3, <2>6, <2>7, ReadOnly DEF ListInv
<1>10. CASE ~(n < read.bound) /\ ~(read.level > 0)
  <2>1. read' = [read EXCEPT !.busy = FALSE, !.node = IF read.forward THEN n ELSE @]
    BY <1>1, <1>10
  <2>2. read.level = 0
    BY <1>2, <1>10, SkipListAssumption DEF Levels
  <2>3. ReadTypes'
    BY <1>0, <1>1, <1>5, <2>1 DEF ReadTypes
  <2>4. /\ ~read'.busy /\ read'.forward = read.forward /\ read'.bound = read.bound
        /\ read'.floor = read.floor
        /\ read'.node = IF read.forward THEN n ELSE read.node
    BY <1>0, <2>1 DEF ReadTypes
  <2>5. \A m \in Nodes : read'.node = m => OnLevel(m, 0)
    BY <1>2, <1>4, <2>2, <2>4
  <2>6. ReadInv'
    BY <1>1, <2>4, <2>5 DEF ReadInv, OnLevel, Nodes
  <2>7. \A k \in read.floor : k >= read.bound => k >= n
    BY <1>2, <1>4, <1>5, <1>7, <2>2
  <2>8. \A k \in read.floor : k < read.bound => k <= read.node
    BY <1>2, <1>4, <1>5, <1>7, <1>10, <2>2
  <2>9. n >= read.bound
    BY <1>5, <1>10
  <2>10. ASSUME read.forward PROVE SearchesExact'
    <3>1. read'.node = n /\ read'.forward
      BY <2>4, <2>10
    <3> QED
      BY <2>4, <2>7, <2>9, <3>1 DEF SearchesExact
  <2>11. ASSUME ~read.forward PROVE SearchesExact'
    <3>1. read'.node = read.node /\ ~read'.forward
      BY <2>4, <2>11
    <3> QED
      BY <1>2, <2>4, <2>8, <3>1 DEF SearchesExact
  <2>12. SearchesExact'
    BY <2>10, <2>11
  <2> QED
    BY <1>1, <2>3, <2>6, <2>12, ReadOnly DEF ListInv
<1> QED
  BY <1>8, <1>9, <1>10

\* One load: the first node behind a node of the list.
LEMMA FollowKeeps ==
  ASSUME ListInv, NEW from \in Nodes, OnLevel(from, 0), Follow(from)
  PROVE  ListInv'
<1> DEFINE n == next[from][0]
<1>0. LinkTypes /\ TowerInv /\ LinkInv /\ 0 \in Levels
  BY Order DEF ListInv
<1>1. /\ UNCHANGED <<next, heights, insert, inserted>>
      /\ read' = [busy |-> FALSE, forward |-> TRUE, bound |-> from + 1,
                  node |-> n, level |-> 0, floor |-> inserted]
  BY DEF Follow
<1>2. n # Unset /\ from \in Nat
  BY Order DEF OnLevel
<1>3. /\ from < n
      /\ \A m \in Nodes : n = m => OnLevel(m, 0)
      /\ \A m \in Nodes : OnLevel(m, 0) /\ from < m => n <= m
  BY <1>0, <1>2 DEF LinkInv
<1>4. n \in Nodes \cup {Null} /\ n \in Nat /\ from + 1 \in 0..Null
  <2>1. n \in Nodes \cup {Null}
    BY <1>0, <1>2 DEF LinkTypes
  <2>2. n \in Nat
    BY <2>1, Order
  <2>3. from + 1 \in 0..Null
    BY <1>2, Order
  <2> QED
    BY <2>1, <2>2, <2>3
<1> HIDE DEF n
<1>5. \A k \in inserted : k \in Nodes /\ OnLevel(k, 0) /\ k \in Nat
  BY InsertedReachable
<1>6. ReadTypes'
  BY <1>0, <1>1, <1>4 DEF ReadTypes
<1>7. /\ ~read'.busy /\ read'.forward /\ read'.bound = from + 1 /\ read'.node = n
      /\ read'.floor = inserted
  BY <1>1
<1>8. ReadInv'
  BY <1>1, <1>3, <1>7 DEF ReadInv, OnLevel, Nodes
<1>9. n >= from + 1 /\ \A k \in inserted : k >= from + 1 => k >= n
  BY <1>2, <1>3, <1>4, <1>5
<1>10. SearchesExact'
  BY <1>7, <1>9 DEF SearchesExact
<1> QED
  BY <1>1, <1>6, <1>8, <1>10, ReadOnly DEF ListInv

\* The invariant is inductive.
LEMMA ListInvNext == ListInv /\ [ListNext]_listVars => ListInv'
<1> SUFFICES ASSUME ListInv, [ListNext]_listVars PROVE ListInv'
  OBVIOUS
<1>1. CASE BeginSeek
  BY <1>1, BeginKeeps DEF BeginSeek
<1>2. CASE BeginPrev
  BY <1>2, BeginKeeps DEF BeginPrev
<1>3. CASE BeginLast
  BY <1>3, BeginKeeps DEF BeginLast
<1>4. CASE FollowNext
  <2>1. read.node \in Nodes /\ OnLevel(read.node, 0) /\ Follow(read.node)
    BY <1>4 DEF FollowNext, Follow, ListInv, ReadInv, Nodes
  <2> QED
    BY <2>1, FollowKeeps
<1>5. CASE SeekToFirst
  <2>1. HeadNode \in Nodes /\ HeadNode # insert.key
    BY Order DEF ListInv, InsertTypes, Nodes
  <2>2. OnLevel(HeadNode, 0)
    BY <2>1, Order DEF ListInv, TowerInv, OnLevel
  <2> QED
    BY <1>5, <2>1, <2>2, FollowKeeps DEF SeekToFirst
<1>6. CASE UNCHANGED listVars
  BY <1>6, ReaderUndisturbed, ReadOnly DEF listVars, ListInv
<1> QED
  BY <1>1, <1>2, <1>3, <1>4, <1>5, <1>6, StartInsertKeeps, SetOwnLinkKeeps, PublishKeeps, StepKeeps
     DEF ListNext

\* Beside a running Insert, a reader of the memtable reads no link that was not
\* stored, and its searches pass over no key that was in the list before.
THEOREM SearchesAreExact == ListSpec => []SearchesExact
<1>1. ListInv => SearchesExact
  BY DEF ListInv
<1> QED
  BY <1>1, ListInvInit, ListInvNext, PTL DEF ListSpec

-------------------------------------------------------------------------------
(***************************************************************************)
(* For any processes and threads: at most one thread of a process holds    *)
(* the lock of a database.  The argument needs only the process's table of *)
(* locks; the system's record lock, which a process may give up without    *)
(* meaning to, is not part of it.  For any databases: work that was        *)
(* scheduled stays in the queue, once, and the background thread does not  *)
(* sleep on it.                                                            *)
(***************************************************************************)

Threads == Processes \X Openers

\* EnvInit establishes the invariant: nobody is inside LockFile.
LEMMA LockInvInit == EnvInit => LockInv
  BY DEF EnvInit, LockInv, InTable, LockStates

\* A step that moves one thread, and takes it into the table only if its
\* process is not there, out of it only together with the entry.
LEMMA MovePreserves ==
  ASSUME LockInv,
         NEW t \in Threads, NEW to \in LockStates,
         opener' = [opener EXCEPT ![t] = to],
         \/ locks' = locks /\ (InTable(t) \/ to \notin {"inserted", "holding", "refused", "unlocked"})
         \/ locks' = locks \cup {t[1]} /\ t[1] \notin locks
         \/ /\ locks' = locks \ {t[1]} /\ InTable(t)
            /\ to \notin {"inserted", "holding", "refused", "unlocked"}
  PROVE  LockInv'
<1>1. opener' \in [Threads -> LockStates]
  BY DEF LockInv, Threads
<1>2. \A s \in Threads : s # t => (InTable(s)' <=> InTable(s))
  BY DEF LockInv, InTable, Threads
<1>3. InTable(t)' <=> to \in {"inserted", "holding", "refused", "unlocked"}
  BY DEF LockInv, InTable, Threads
<1>4. \A s \in Threads : InTable(s)' => s[1] \in locks'
  BY <1>2, <1>3 DEF LockInv, Threads
<1>5. \A r, s \in Threads : r[1] = s[1] /\ InTable(r)' /\ InTable(s)' => r = s
  BY <1>2, <1>3 DEF LockInv, Threads
<1> QED
  BY <1>1, <1>4, <1>5 DEF LockInv, InTable, Threads

\* Every step of LockFile and UnlockFile is such a move.
LEMMA LockInvNext == LockInv /\ [EnvNext]_envVars => LockInv'
<1> SUFFICES ASSUME LockInv, [EnvNext]_envVars PROVE LockInv'
  OBVIOUS
<1> USE DEF Moves, InTable, LockStates, Threads
<1>1. CASE LockNext
  <2>1. PICK t \in Threads :
          \/ LockFile(t) \/ InsertLock(t) \/ AlreadyHeld(t) \/ Lock(t) \/ LockRefused(t)
          \/ RemoveRefused(t) \/ Unlock(t) \/ RemoveLock(t) \/ CloseLock(t)
    BY <1>1 DEF LockNext
  <2>2. CASE LockFile(t)
    BY <2>2, MovePreserves DEF LockFile
  <2>3. CASE InsertLock(t)
    BY <2>3, MovePreserves DEF InsertLock
  <2>4. CASE AlreadyHeld(t)
    BY <2>4, MovePreserves DEF AlreadyHeld
  <2>5. CASE Lock(t)
    BY <2>5, MovePreserves DEF Lock
  <2>6. CASE LockRefused(t)
    BY <2>6, MovePreserves DEF LockRefused
  <2>7. CASE RemoveRefused(t)
    BY <2>7, MovePreserves DEF RemoveRefused
  <2>8. CASE Unlock(t)
    BY <2>8, MovePreserves DEF Unlock
  <2>9. CASE RemoveLock(t)
    BY <2>9, MovePreserves DEF RemoveLock
  <2>10. CASE CloseLock(t)
    BY <2>10, MovePreserves DEF CloseLock
  <2> QED
    BY <2>1, <2>2, <2>3, <2>4, <2>5, <2>6, <2>7, <2>8, <2>9, <2>10
<1>2. CASE UNCHANGED lockVars
  BY <1>2 DEF LockInv, lockVars
<1>3. WorkNext => UNCHANGED lockVars
  BY DEF WorkNext, WaitForWork, SpuriousWakeup, TakeWork, Schedule, WorkDone
<1> QED
  BY <1>1, <1>2, <1>3 DEF EnvNext, envVars

\* Within a process at most one thread has the lock of a database, for any
\* number of processes and threads (LockFile and UnlockFile of PosixEnv).
THEOREM LockHeldOnce == EnvSpec => []HeldOncePerProcess
<1>1. LockInv => HeldOncePerProcess
  BY DEF LockInv, InTable, HeldOncePerProcess
<1> QED
  BY <1>1, LockInvInit, LockInvNext, PTL DEF EnvSpec

-------------------------------------------------------------------------------
(* The background thread. *)

WorkInv == WorkTypes /\ WorkNotForgotten

\* EnvInit establishes the invariant: nothing is scheduled.
LEMMA WorkInvInit == EnvInit => WorkInv
<1> SUFFICES ASSUME EnvInit PROVE WorkInv
  OBVIOUS
<1>1. WorkTypes
  BY DEF EnvInit, WorkTypes
<1>2. Len(queue) = 0 /\ 1..Len(queue) = {}
  BY DEF EnvInit
<1>3. \A d \in Databases : d \notin scheduled /\ running # d
  BY PosixEnvAssumption DEF EnvInit
<1>4. WorkNotForgotten
  BY <1>2, <1>3 DEF EnvInit, WorkNotForgotten
<1> QED
  BY <1>1, <1>4 DEF WorkInv

\* A call that is appended for a database that has none.
LEMMA AppendWork ==
  ASSUME WorkInv, NEW d \in Databases,
         queue' = Append(queue, d),
         \A i \in 1..Len(queue) : queue[i] # d
  PROVE  /\ queue' \in Seq(Databases) /\ queue' # <<>>
         /\ \A i, j \in 1..Len(queue') : queue'[i] = queue'[j] => i = j
         /\ \A x : (\E i \in 1..Len(queue') : queue'[i] = x)
                  <=> x = d \/ \E i \in 1..Len(queue) : queue[i] = x
<1>0. WorkTypes /\ WorkNotForgotten
  BY DEF WorkInv
<1>1. queue \in Seq(Databases) /\ Len(queue) \in Nat
  BY <1>0 DEF WorkTypes
<1>2. /\ queue' \in Seq(Databases) /\ Len(queue') = Len(queue) + 1
      /\ queue'[Len(queue) + 1] = d
      /\ \A i \in 1..Len(queue) : queue'[i] = queue[i]
  BY <1>1
<1>3. \A i \in 1..Len(queue') : i \in 1..Len(queue) \/ i = Len(queue) + 1
  BY <1>1, <1>2
<1>4. \A i \in 1..Len(queue) : i \in 1..Len(queue')
  BY <1>1, <1>2
<1>5. Len(queue) + 1 \in 1..Len(queue') /\ queue' # <<>>
  BY <1>1, <1>2
<1>6. \A i, j \in 1..Len(queue') : queue'[i] = queue'[j] => i = j
  <2>1. \A i, j \in 1..Len(queue) : queue[i] = queue[j] => i = j
    BY <1>0 DEF WorkNotForgotten
  <2> QED
    BY <1>2, <1>3, <2>1
<1> QED
  BY <1>2, <1>3, <1>4, <1>5, <1>6

\* Each step of Schedule and of the background thread keeps it.
LEMMA WorkInvNext == WorkInv /\ [EnvNext]_envVars => WorkInv'
<1> SUFFICES ASSUME WorkInv, [EnvNext]_envVars PROVE WorkInv'
  OBVIOUS
<1>0. WorkTypes /\ WorkNotForgotten
  BY DEF WorkInv
<1>1. CASE UNCHANGED workVars
  BY <1>0, <1>1 DEF workVars, WorkInv, WorkTypes, WorkNotForgotten
<1>2. CASE WaitForWork \/ SpuriousWakeup
  BY <1>0, <1>2 DEF WaitForWork, SpuriousWakeup, WorkInv, WorkTypes, WorkNotForgotten
<1>3. ASSUME NEW d \in Databases, Schedule(d) PROVE WorkInv'
  <2>1. /\ d \notin scheduled /\ scheduled' = scheduled \cup {d}
        /\ queue' = Append(queue, d) /\ running' = running
        /\ worker' = IF worker = "absent" THEN "ready" ELSE IF queue = <<>> THEN Woken ELSE worker
    BY <1>3 DEF Schedule
  <2>2. running # d /\ \A i \in 1..Len(queue) : queue[i] # d
    BY <1>0, <2>1 DEF WorkNotForgotten
  <2>3. /\ queue' \in Seq(Databases) /\ queue' # <<>>
        /\ \A i, j \in 1..Len(queue') : queue'[i] = queue'[j] => i = j
        /\ \A x : (\E i \in 1..Len(queue') : queue'[i] = x)
                 <=> x = d \/ \E i \in 1..Len(queue) : queue[i] = x
    BY <2>1, <2>2, AppendWork
  <2>4. /\ worker' \in {"ready", "running"}
        /\ worker' = "running" <=> worker = "running"
    BY <1>0, <2>1 DEF Woken, WorkTypes, WorkNotForgotten
  <2>5. \A i \in 1..Len(queue') : queue'[i] # running
    BY <1>0, <2>2, <2>3 DEF WorkNotForgotten
  <2> QED
    BY <1>0, <2>1, <2>3, <2>4, <2>5 DEF WorkInv, WorkTypes, WorkNotForgotten
<1>4. CASE TakeWork
  <2>1. /\ worker = "ready" /\ queue # <<>> /\ worker' = "running"
        /\ running' = Head(queue) /\ queue' = Tail(queue) /\ scheduled' = scheduled
    BY <1>4 DEF TakeWork
  <2>2. queue \in Seq(Databases) /\ Len(queue) \in Nat /\ Len(queue) > 0 /\ running = Nobody
    BY <1>0, <2>1 DEF WorkTypes
  <2>3. /\ Head(queue) = queue[1] /\ queue[1] \in Databases
        /\ queue' \in Seq(Databases) /\ Len(queue') = Len(queue) - 1
        /\ \A i \in 1..Len(queue') : queue'[i] = queue[i + 1]
    BY <2>1, <2>2
  <2>4. /\ \A i \in 1..Len(queue') : i + 1 \in 1..Len(queue) /\ i + 1 # 1 /\ i \in Int
        /\ 1 \in 1..Len(queue)
        /\ \A i \in 1..Len(queue) : i # 1 => i - 1 \in 1..Len(queue') /\ (i - 1) + 1 = i
    BY <2>2, <2>3
  <2>u. \A i, j \in 1..Len(queue) : queue[i] = queue[j] => i = j
    BY <1>0 DEF WorkNotForgotten
  <2>5. \A i, j \in 1..Len(queue') : queue'[i] = queue'[j] => i = j
    <3> SUFFICES ASSUME NEW i \in 1..Len(queue'), NEW j \in 1..Len(queue'), queue'[i] = queue'[j]
                 PROVE  i = j
      OBVIOUS
    <3>1. i + 1 \in 1..Len(queue) /\ j + 1 \in 1..Len(queue) /\ queue[i + 1] = queue[j + 1]
      BY <2>3, <2>4
    <3>2. i + 1 = j + 1
      BY <2>u, <3>1
    <3> QED
      BY <2>4, <3>2
  <2>6. \A i \in 1..Len(queue') : queue'[i] # queue[1]
    <3> TAKE i \in 1..Len(queue')
    <3>1. i + 1 \in 1..Len(queue) /\ i + 1 # 1 /\ queue'[i] = queue[i + 1]
      BY <2>3, <2>4
    <3> QED
      BY <2>u, <2>4, <3>1
  <2>7. \A x : (\E i \in 1..Len(queue) : queue[i] = x)
             <=> x = queue[1] \/ \E i \in 1..Len(queue') : queue'[i] = x
    <3> TAKE x
    <3>1. ASSUME NEW i \in 1..Len(queue), queue[i] = x, i # 1
          PROVE  \E k \in 1..Len(queue') : queue'[k] = x
      <4>1. i - 1 \in 1..Len(queue') /\ (i - 1) + 1 = i
        BY <2>4, <3>1
      <4>2. queue'[i - 1] = x
        BY <2>3, <3>1, <4>1
      <4> QED
        BY <4>1, <4>2
    <3>2. ASSUME NEW i \in 1..Len(queue'), queue'[i] = x
          PROVE  \E k \in 1..Len(queue) : queue[k] = x
      BY <2>3, <2>4, <3>2
    <3> QED
      BY <2>4, <3>1, <3>2
  <2>8. \A d \in Databases : d \in scheduled <=> \E i \in 1..Len(queue) : queue[i] = d
    BY <1>0, <2>2, PosixEnvAssumption DEF WorkNotForgotten
  <2>9. running' = queue[1] /\ running' # Nobody
    BY <2>1, <2>3, PosixEnvAssumption
  <2>10. WorkTypes'
    BY <1>0, <2>1, <2>3, <2>9 DEF WorkTypes
  <2>11. \A d \in Databases :
           d \in scheduled <=> running' = d \/ \E i \in 1..Len(queue') : queue'[i] = d
    BY <2>7, <2>8, <2>9
  <2>12. WorkNotForgotten'
    BY <2>1, <2>5, <2>6, <2>9, <2>11 DEF WorkNotForgotten
  <2> QED
    BY <2>10, <2>12 DEF WorkInv
<1>5. ASSUME NEW d \in Databases, WorkDone(d) PROVE WorkInv'
  <2>1. /\ worker = "running" /\ running = d /\ worker' = "ready" /\ running' = Nobody
        /\ \/ scheduled' = scheduled \ {d} /\ UNCHANGED queue
           \/ queue' = Append(queue, d) /\ UNCHANGED scheduled
    BY <1>5 DEF WorkDone
  <2>2. \A i \in 1..Len(queue) : queue[i] # d /\ queue[i] \in Databases
    BY <1>0, <2>1 DEF WorkNotForgotten, WorkTypes
  <2>3. d \in scheduled
    BY <1>0, <2>1 DEF WorkNotForgotten
  <2>4. CASE scheduled' = scheduled \ {d} /\ UNCHANGED queue
    BY <1>0, <2>1, <2>2, <2>4, PosixEnvAssumption DEF WorkInv, WorkTypes, WorkNotForgotten
  <2>5. CASE queue' = Append(queue, d) /\ UNCHANGED scheduled
    <3>1. /\ queue' \in Seq(Databases) /\ queue' # <<>>
          /\ \A i, j \in 1..Len(queue') : queue'[i] = queue'[j] => i = j
          /\ \A x : (\E i \in 1..Len(queue') : queue'[i] = x)
                   <=> x = d \/ \E i \in 1..Len(queue) : queue[i] = x
      BY <2>2, <2>5, AppendWork
    <3>2. \A i \in 1..Len(queue') : queue'[i] # Nobody
      BY <2>2, <3>1, PosixEnvAssumption
    <3>3. \A x \in Databases : x # Nobody
      BY PosixEnvAssumption
    <3> QED
      BY <1>0, <2>1, <2>3, <2>5, <3>1, <3>2, <3>3 DEF WorkInv, WorkTypes, WorkNotForgotten
  <2> QED
    BY <2>1, <2>4, <2>5
<1>6. CASE LockNext
  BY <1>1, <1>6 DEF LockNext, LockFile, InsertLock, AlreadyHeld, Lock, LockRefused, RemoveRefused,
                    Unlock, RemoveLock, CloseLock
<1> QED
  BY <1>1, <1>2, <1>3, <1>4, <1>5, <1>6 DEF EnvNext, WorkNext, envVars

\* The background thread never sleeps while work is queued, whatever signals are
\* lost on a thread that does not wait, and each database has at most one call
\* queued or running.
THEOREM WorkIsKept == EnvSpec => []WorkNotForgotten
<1>1. WorkInv => WorkNotForgotten
  BY DEF WorkInv
<1> QED
  BY <1>1, WorkInvInit, WorkInvNext, PTL DEF EnvSpec

-------------------------------------------------------------------------------
(***************************************************************************)
(* For any finite sets of files and readers, any capacity and any limits:  *)
(* the references of every handle, the hash table, the two lists and       *)
(* usage_ agree, the cache exceeds its capacity by entries in use only,    *)
(* and no permit is lost.                                                  *)
(*                                                                         *)
(* The operations of the shard are operators on a record, so each of them  *)
(* has a lemma of its own, about the record s and a function hold that     *)
(* says which handle each reader has.  Between HandleTable::Remove or      *)
(* Insert and FinishErase one handle is in the cache and not in the table; *)
(* E is the set of such handles, empty when the mutex is free.             *)
(***************************************************************************)

Opened == {"closed", "mmap", "fd", "each_read"}
Places == {"idle", "acquire_mmap", "return_mmap", "map", "acquire_fd", "return_fd", "keep_fd",
           "opened", "shrinking", "using"}
Entry == [file : Files \cup {Nil}, refs : Nat, as : Opened]
Shards == [handle : [Slots -> Entry], in_cache : SUBSET Slots, table : [Files -> Slots \cup {Nil}],
           lru : Seq(Slots), in_use : SUBSET Slots, usage : Int, allowed : [Limited -> Int]]
Holding == [TableReaders -> Slots \cup {Nil}]

Uses(hold, h) == {r \in TableReaders : hold[r] = h}
Entered(s) == {f \in Files : s.table[f] # Nil}

RefsOK(s, hold) ==
  \A h \in Slots : s.handle[h].refs = Cardinality(Uses(hold, h)) + (IF h \in s.in_cache THEN 1 ELSE 0)
FreeOK(s) == \A h \in Slots : s.handle[h].refs = 0 => s.handle[h] = Free
TableOK(s, E) ==
  /\ E \subseteq s.in_cache
  /\ \A h \in s.in_cache \ E : s.handle[h].file \in Files /\ s.table[s.handle[h].file] = h
  /\ \A f \in Entered(s) : s.table[f] \in s.in_cache \ E /\ s.handle[s.table[f]].file = f
ListsOK(s) ==
  /\ s.in_use = {h \in s.in_cache : s.handle[h].refs > 1}
  /\ ToSet(s.lru) = {h \in s.in_cache : s.handle[h].refs = 1}
  /\ IsInjective(s.lru)
UsageOK(s, E) == s.usage = Cardinality(Entered(s)) + Cardinality(E)

ShardOK(s, hold, E) ==
  /\ s \in Shards /\ hold \in Holding
  /\ RefsOK(s, hold) /\ FreeOK(s) /\ TableOK(s, E) /\ ListsOK(s) /\ UsageOK(s, E)

\* The permits of a limiter that are free or belong to a table.
Permits(s, what) == s.allowed[what] + Cardinality({h \in Slots : s.handle[h].as = what})

-------------------------------------------------------------------------------
(* Sets and lists. *)

\* There are finitely many handles.
LEMMA SlotsFinite ==
  /\ IsFiniteSet(Slots) /\ Slots \subseteq Nat /\ Nil \notin Slots
  /\ Cardinality(Slots) = Cardinality(Files) + Cardinality(TableReaders)
  /\ Cardinality(Files) \in Nat /\ Cardinality(TableReaders) \in Nat
<1>1. Cardinality(Files) \in Nat /\ Cardinality(TableReaders) \in Nat
  BY TableCacheAssumption, FS_CardinalityType
<1>2. Nil \notin Int
  BY TableCacheAssumption
<1> DEFINE n == Cardinality(Files) + Cardinality(TableReaders)
<1>3. n \in Nat /\ 1 \in Int /\ n \in Int
  BY <1>1
<1>4. IsFiniteSet(1..n) /\ Cardinality(1..n) = n
  BY <1>3, FS_Interval
<1>5. Slots = 1..n /\ 1..n \subseteq Nat
  BY <1>3 DEF Slots
<1>6. Nil \notin Nat
  BY <1>2
<1> QED
  BY <1>1, <1>4, <1>5, <1>6

\* The readers of a handle are finitely many.
LEMMA UsesFinite ==
  ASSUME NEW hold, NEW h
  PROVE  IsFiniteSet(Uses(hold, h)) /\ Cardinality(Uses(hold, h)) \in Nat
<1>1. Uses(hold, h) \in SUBSET TableReaders
  BY DEF Uses
<1> QED
  BY <1>1, TableCacheAssumption, FS_Subset, FS_CardinalityType

\* A reader gets a handle.
LEMMA UsesGrow ==
  ASSUME NEW hold \in Holding, NEW r \in TableReaders, hold[r] = Nil, NEW g \in Slots, NEW h \in Slots
  PROVE  Cardinality(Uses([hold EXCEPT ![r] = g], h)) =
           Cardinality(Uses(hold, h)) + (IF h = g THEN 1 ELSE 0)
<1>1. Nil \notin Slots
  BY SlotsFinite
<1>2. CASE h = g
  <2>1. Uses([hold EXCEPT ![r] = g], h) = Uses(hold, h) \cup {r} /\ r \notin Uses(hold, h)
    BY <1>1, <1>2 DEF Uses, Holding
  <2> QED
    BY <1>2, <2>1, UsesFinite, FS_AddElement
<1>3. CASE h # g
  <2>1. Uses([hold EXCEPT ![r] = g], h) = Uses(hold, h)
    BY <1>1, <1>3 DEF Uses, Holding
  <2> QED
    BY <1>3, <2>1, UsesFinite
<1> QED
  BY <1>2, <1>3

\* A reader gives its handle up.
LEMMA UsesShrink ==
  ASSUME NEW hold \in Holding, NEW r \in TableReaders, NEW g \in Slots, hold[r] = g, NEW h \in Slots
  PROVE  /\ Cardinality(Uses([hold EXCEPT ![r] = Nil], h)) =
              Cardinality(Uses(hold, h)) - (IF h = g THEN 1 ELSE 0)
         /\ Cardinality(Uses(hold, g)) > 0
<1>1. Nil \notin Slots
  BY SlotsFinite
<1>2. r \in Uses(hold, g)
  BY DEF Uses
<1>3. Cardinality(Uses(hold, g)) > 0
  BY <1>2, UsesFinite, FS_EmptySet
<1>4. CASE h = g
  <2>1. Uses([hold EXCEPT ![r] = Nil], h) = Uses(hold, h) \ {r}
    BY <1>1, <1>4 DEF Uses, Holding
  <2> QED
    BY <1>2, <1>3, <1>4, <2>1, UsesFinite, FS_RemoveElement
<1>5. CASE h # g
  <2>1. Uses([hold EXCEPT ![r] = Nil], h) = Uses(hold, h)
    BY <1>1, <1>5 DEF Uses, Holding
  <2> QED
    BY <1>3, <1>5, <2>1, UsesFinite
<1> QED
  BY <1>4, <1>5

\* What RemoveAt of the library makes of a sequence.
LEMMA RemoveAtFacts ==
  ASSUME NEW S, NEW list \in Seq(S), NEW i \in 1..Len(list)
  PROVE  /\ RemoveAt(list, i) \in Seq(S) /\ Len(RemoveAt(list, i)) = Len(list) - 1
         /\ \A j \in 1..(Len(list) - 1) :
              RemoveAt(list, i)[j] = IF j < i THEN list[j] ELSE list[j + 1]
<1> DEFINE n == Len(list)
           u == SubSeq(list, 1, i - 1)
           v == SubSeq(list, i + 1, n)
<1>1. /\ n \in Nat /\ i \in Nat /\ i >= 1 /\ i <= n
      /\ \A j \in 1..n : list[j] \in S
  OBVIOUS
<1>2. RemoveAt(list, i) = u \o v
  BY DEF RemoveAt
<1>3. /\ u \in Seq(S) /\ Len(u) = i - 1
      /\ \A j \in 1..(i - 1) : u[j] = list[j]
  BY <1>1, SubSeqProperties
<1>4. /\ v \in Seq(S) /\ Len(v) = IF i + 1 <= n THEN n - (i + 1) + 1 ELSE 0
      /\ \A j \in 1..(n - (i + 1) + 1) : v[j] = list[(i + 1) + j - 1]
  <2>1. i + 1 \in Int /\ n \in Int /\ \A j \in (i + 1)..n : list[j] \in S
    BY <1>1
  <2> HIDE DEF n
  <2> QED
    BY <2>1, SubSeqProperties
<1> HIDE DEF n, u, v
<1>5. Len(v) = n - i
  BY <1>1, <1>4
<1>6. \A j \in 1..(n - i) : v[j] = list[j + i]
  <2> TAKE j \in 1..(n - i)
  <2>1. j \in 1..(n - (i + 1) + 1) /\ (i + 1) + j - 1 = j + i
    BY <1>1
  <2> QED
    BY <1>4, <2>1
<1>7. /\ u \o v \in Seq(S) /\ Len(u \o v) = Len(u) + Len(v)
      /\ \A j \in 1..(Len(u) + Len(v)) : (u \o v)[j] = IF j <= Len(u) THEN u[j] ELSE v[j - Len(u)]
  BY <1>3, <1>4, ConcatProperties
<1>8. ASSUME NEW j \in 1..(n - 1)
      PROVE  (u \o v)[j] = IF j < i THEN list[j] ELSE list[j + 1]
  <2>1. j \in 1..(Len(u) + Len(v))
    BY <1>1, <1>3, <1>5
  <2>2. CASE j < i
    <3>1. j <= Len(u) /\ j \in 1..(i - 1)
      BY <1>1, <1>3, <2>2
    <3> QED
      BY <1>3, <1>7, <2>1, <2>2, <3>1
  <2>3. CASE ~(j < i)
    <3>1. /\ ~(j <= Len(u)) /\ j - Len(u) = j - (i - 1)
          /\ j - (i - 1) \in 1..(n - i) /\ (j - (i - 1)) + i = j + 1
      BY <1>1, <1>3, <2>3
    <3>2. (u \o v)[j] = v[j - (i - 1)]
      BY <1>7, <2>1, <3>1
    <3> QED
      BY <1>6, <2>3, <3>1, <3>2
  <2> QED
    BY <2>2, <2>3
<1>9. Len(u \o v) = n - 1
  BY <1>1, <1>3, <1>5, <1>7
<1> QED
  BY <1>2, <1>7, <1>8, <1>9 DEF n

\* A list of distinct handles, without one of them.
LEMMA WithoutFacts ==
  ASSUME NEW list \in Seq(Slots), IsInjective(list), NEW h \in Slots
  PROVE  /\ Without(list, h) \in Seq(Slots) /\ IsInjective(Without(list, h))
         /\ ToSet(Without(list, h)) = ToSet(list) \ {h}
<1>1. CASE h \notin ToSet(list)
  BY <1>1 DEF Without
<1>2. CASE h \in ToSet(list)
  <2> DEFINE i == CHOOSE i \in DOMAIN list : list[i] = h
  <2>1. i \in DOMAIN list /\ list[i] = h
    BY <1>2 DEF ToSet
  <2>2. /\ Len(list) \in Nat /\ DOMAIN list = 1..Len(list) /\ i \in 1..Len(list) /\ i \in Nat
        /\ \A j \in 1..Len(list) : list[j] \in Slots
    BY <2>1
  <2>3. Without(list, h) = RemoveAt(list, i)
    BY <1>2, SMTT(60) DEF Without
  <2> HIDE DEF i
  <2> DEFINE w == Without(list, h)
  <2>4. /\ w \in Seq(Slots) /\ Len(w) = Len(list) - 1
        /\ \A j \in 1..(Len(list) - 1) : w[j] = IF j < i THEN list[j] ELSE list[j + 1]
    BY <2>2, <2>3, RemoveAtFacts
  <2> HIDE DEF w
  <2>5. DOMAIN w = 1..(Len(list) - 1)
    BY <2>4
  <2>6. \A a, b \in DOMAIN list : list[a] = list[b] => a = b
    BY DEF IsInjective
  <2>7. IsInjective(w)
    <3> DEFINE src(j) == IF j < i THEN j ELSE j + 1
    <3>1. \A j \in DOMAIN w : src(j) \in DOMAIN list /\ w[j] = list[src(j)]
      BY <2>2, <2>4, <2>5
    <3>2. \A a, b \in DOMAIN w : src(a) = src(b) => a = b
      BY <2>2, <2>5
    <3> HIDE DEF src
    <3> QED
      BY <2>6, <3>1, <3>2 DEF IsInjective
  <2>8. \A x \in ToSet(w) : x \in ToSet(list) /\ x # h
    BY <2>1, <2>2, <2>4, <2>5, <2>6 DEF ToSet
  <2>9. \A x \in ToSet(list) : x # h => x \in ToSet(w)
    <3> TAKE x \in ToSet(list)
    <3> HAVE x # h
    <3>1. PICK j \in 1..Len(list) : list[j] = x
      BY <2>2 DEF ToSet
    <3>2. j # i
      BY <2>1, <3>1
    <3>3. CASE j < i
      <4>1. j \in DOMAIN w /\ w[j] = x
        BY <2>2, <2>4, <2>5, <3>1, <3>3
      <4> QED
        BY <4>1 DEF ToSet
    <3>4. CASE j > i
      <4>1. j - 1 \in 1..(Len(list) - 1) /\ ~(j - 1 < i) /\ (j - 1) + 1 = j
        BY <2>2, <3>4
      <4>2. j - 1 \in DOMAIN w /\ w[j - 1] = x
        BY <2>4, <2>5, <3>1, <4>1
      <4> QED
        BY <4>2 DEF ToSet
    <3> QED
      BY <2>2, <3>2, <3>3, <3>4
  <2> QED
    BY <2>4, <2>7, <2>8, <2>9 DEF w
<1> QED
  BY <1>1, <1>2

\* A list of distinct handles, with one more at its end.
LEMMA AppendFacts ==
  ASSUME NEW list \in Seq(Slots), IsInjective(list), NEW h \in Slots, h \notin ToSet(list)
  PROVE  /\ Append(list, h) \in Seq(Slots) /\ IsInjective(Append(list, h))
         /\ ToSet(Append(list, h)) = ToSet(list) \cup {h}
<1> DEFINE a == Append(list, h)
<1>1. /\ a \in Seq(Slots) /\ Len(list) \in Nat /\ DOMAIN list = 1..Len(list)
      /\ DOMAIN a = 1..(Len(list) + 1) /\ a[Len(list) + 1] = h
      /\ \A j \in DOMAIN list : a[j] = list[j]
  OBVIOUS
<1> HIDE DEF a
<1>2. \A x, y \in DOMAIN list : list[x] = list[y] => x = y
  BY DEF IsInjective
<1>3. \A x \in DOMAIN list : list[x] # h
  BY DEF ToSet
<1>4. IsInjective(a)
  BY <1>1, <1>2, <1>3 DEF IsInjective
<1>5. \A x : x \in ToSet(a) <=> x \in ToSet(list) \cup {h}
  <2>1. \A j \in DOMAIN a : j \in DOMAIN list \/ j = Len(list) + 1
    BY <1>1
  <2>2. Len(list) + 1 \in DOMAIN a /\ \A j \in DOMAIN list : j \in DOMAIN a
    BY <1>1
  <2> QED
    BY <1>1, <2>1, <2>2, Zenon DEF ToSet
<1> QED
  BY <1>1, <1>4, <1>5 DEF a

-------------------------------------------------------------------------------
(* The operations of the shard. *)

\* The parts of what Ref makes of a shard.
LEMMA RefFields ==
  ASSUME NEW s \in Shards, NEW h \in Slots, h \in s.in_cache
  PROVE  LET t == Ref(s, h)
         IN  /\ t \in [handle : {t.handle}, in_cache : {t.in_cache}, table : {t.table}, lru : {t.lru},
                       in_use : {t.in_use}, usage : {t.usage}, allowed : {t.allowed}]
             /\ t.handle = [s.handle EXCEPT ![h] = [s.handle[h] EXCEPT !.refs = @ + 1]]
             /\ t.in_cache = s.in_cache /\ t.table = s.table
             /\ t.usage = s.usage /\ t.allowed = s.allowed
             /\ t.lru = IF s.handle[h].refs = 1 THEN Without(s.lru, h) ELSE s.lru
             /\ t.in_use = IF s.handle[h].refs = 1 THEN s.in_use \cup {h} ELSE s.in_use
<1>1. CASE s.handle[h].refs = 1
  BY <1>1 DEF Ref, LRU_Remove, Shards
<1>2. CASE s.handle[h].refs # 1
  BY <1>2 DEF Ref, Shards
<1> QED
  BY <1>1, <1>2

\* The parts of what Unref makes of a shard.
LEMMA UnrefFields ==
  ASSUME NEW s \in Shards, NEW h \in Slots, s.handle[h].refs > 0
  PROVE  LET t == Unref(s, h)
             n == s.handle[h].refs - 1
             listed == n = 1 /\ h \in s.in_cache
         IN  /\ t \in [handle : {t.handle}, in_cache : {t.in_cache}, table : {t.table}, lru : {t.lru},
                       in_use : {t.in_use}, usage : {t.usage}, allowed : {t.allowed}]
             /\ t.handle = [s.handle EXCEPT ![h] =
                              IF n = 0 THEN Free ELSE [s.handle[h] EXCEPT !.refs = n]]
             /\ t.in_cache = s.in_cache /\ t.table = s.table /\ t.usage = s.usage
             /\ t.allowed = IF n = 0 THEN CloseFile(s.allowed, s.handle[h].as) ELSE s.allowed
             /\ t.lru = IF listed THEN Append(Without(s.lru, h), h) ELSE s.lru
             /\ t.in_use = IF listed THEN s.in_use \ {h} ELSE s.in_use
<1> DEFINE n == s.handle[h].refs - 1
<1>1. s.handle[h].refs \in Nat /\ n \in Nat
  BY DEF Shards, Entry
<1>2. [s.handle[h] EXCEPT !.refs = @ - 1].refs = n /\ [s.handle[h] EXCEPT !.refs = @ - 1].as = s.handle[h].as
  BY DEF Shards, Entry
<1>3. CASE n = 0
  <2> DEFINE e == [s.handle[h] EXCEPT !.refs = @ - 1]
             less == [s EXCEPT !.handle[h] = e]
  <2>1. Unref(s, h) = [less EXCEPT !.handle[h] = Free, !.allowed = CloseFile(@, e.as)]
    BY <1>2, <1>3 DEF Unref
  <2>2. e.as = s.handle[h].as
    BY <1>2
  <2> HIDE DEF e
  <2>3. /\ less \in [handle : {less.handle}, in_cache : {s.in_cache}, table : {s.table}, lru : {s.lru},
                     in_use : {s.in_use}, usage : {s.usage}, allowed : {s.allowed}]
        /\ less.handle = [s.handle EXCEPT ![h] = e]
    BY DEF Shards
  <2> HIDE DEF less
  <2>4. [less.handle EXCEPT ![h] = Free] = [s.handle EXCEPT ![h] = Free]
    BY <2>3 DEF Shards
  <2>5. Unref(s, h) \in [handle : {[less.handle EXCEPT ![h] = Free]}, in_cache : {s.in_cache},
                         table : {s.table}, lru : {s.lru}, in_use : {s.in_use}, usage : {s.usage},
                         allowed : {CloseFile(s.allowed, e.as)}]
    BY <2>1, <2>3
  <2> QED
    BY <1>3, <2>2, <2>4, <2>5
<1>4. CASE n # 0 /\ n = 1 /\ h \in s.in_cache
  <2> DEFINE e == [s.handle[h] EXCEPT !.refs = @ - 1]
             less == [s EXCEPT !.handle[h] = e]
  <2>1. Unref(s, h) = [LRU_Remove(less, h) EXCEPT !.lru = Append(@, h)]
    BY <1>2, <1>4 DEF Unref
  <2>2. e = [s.handle[h] EXCEPT !.refs = n]
    BY DEF Shards, Entry
  <2> HIDE DEF e
  <2>3. /\ less \in [handle : {less.handle}, in_cache : {s.in_cache}, table : {s.table}, lru : {s.lru},
                     in_use : {s.in_use}, usage : {s.usage}, allowed : {s.allowed}]
        /\ less.handle = [s.handle EXCEPT ![h] = e]
    BY DEF Shards
  <2> HIDE DEF less
  <2>4. /\ Unref(s, h) \in [handle : {less.handle}, in_cache : {s.in_cache}, table : {s.table},
                            lru : {Append(Without(s.lru, h), h)}, in_use : {s.in_use \ {h}},
                            usage : {s.usage}, allowed : {s.allowed}]
    BY <2>1, <2>3 DEF LRU_Remove
  <2> QED
    BY <1>4, <2>2, <2>3, <2>4
<1>5. CASE n # 0 /\ ~(n = 1 /\ h \in s.in_cache)
  BY <1>2, <1>5 DEF Unref, Shards
<1> QED
  BY <1>3, <1>4, <1>5

\* What an operation leaves open is open for the same file.
SameFiles(s, t) == \A g \in Slots : t.handle[g].refs > 0 => t.handle[g].file = s.handle[g].file

\* Lookup of a cached handle by a reader that has none.
LEMMA RefKeeps ==
  ASSUME NEW s, NEW hold, ShardOK(s, hold, {}), NEW h \in s.in_cache,
         NEW r \in TableReaders, hold[r] = Nil
  PROVE  /\ ShardOK(Ref(s, h), [hold EXCEPT ![r] = h], {})
         /\ SameFiles(s, Ref(s, h))
         /\ Ref(s, h).usage = s.usage
         /\ \A what \in Limited : Permits(Ref(s, h), what) = Permits(s, what)
<1> DEFINE t == Ref(s, h)
           e == [s.handle[h] EXCEPT !.refs = @ + 1]
           hold2 == [hold EXCEPT ![r] = h]
<1>1. /\ s \in Shards /\ hold \in Holding /\ RefsOK(s, hold) /\ FreeOK(s) /\ TableOK(s, {})
      /\ ListsOK(s) /\ UsageOK(s, {})
  BY DEF ShardOK
<1>2. /\ h \in Slots /\ s.handle[h] \in Entry /\ s.handle \in [Slots -> Entry] /\ s.in_cache \subseteq Slots
  BY <1>1 DEF Shards
<1>3. /\ t \in [handle : {t.handle}, in_cache : {t.in_cache}, table : {t.table}, lru : {t.lru},
                in_use : {t.in_use}, usage : {t.usage}, allowed : {t.allowed}]
      /\ t.handle = [s.handle EXCEPT ![h] = e]
      /\ t.in_cache = s.in_cache /\ t.table = s.table /\ t.usage = s.usage /\ t.allowed = s.allowed
      /\ t.lru = IF s.handle[h].refs = 1 THEN Without(s.lru, h) ELSE s.lru
      /\ t.in_use = IF s.handle[h].refs = 1 THEN s.in_use \cup {h} ELSE s.in_use
  BY <1>1, <1>2, RefFields
<1>4. /\ e \in Entry /\ e.refs = s.handle[h].refs + 1 /\ e.file = s.handle[h].file /\ e.as = s.handle[h].as
  BY <1>2 DEF Entry
<1> HIDE DEF t, e, hold2
<1>5. /\ t.handle \in [Slots -> Entry]
      /\ \A g \in Slots : t.handle[g] = IF g = h THEN e ELSE s.handle[g]
  BY <1>2, <1>3, <1>4
<1>6. \A g \in Slots : Cardinality(Uses(hold2, g)) = Cardinality(Uses(hold, g)) + (IF g = h THEN 1 ELSE 0)
  BY <1>1, <1>2, UsesGrow DEF hold2
<1>7. \A g \in Slots : s.handle[g].refs \in Nat /\ t.handle[g].refs \in Nat /\ Cardinality(Uses(hold, g)) \in Nat
  BY <1>2, <1>5, UsesFinite DEF Entry
<1>8. RefsOK(t, hold2)
  BY <1>1, <1>3, <1>4, <1>5, <1>6, <1>7 DEF RefsOK
<1>9. s.handle[h].refs >= 1
  BY <1>1, <1>2, <1>7 DEF RefsOK
<1>10. FreeOK(t)
  BY <1>1, <1>4, <1>5, <1>7 DEF FreeOK
<1>11. TableOK(t, {})
  <2>1. \A g \in Slots : t.handle[g].file = s.handle[g].file
    BY <1>4, <1>5
  <2>2. s.table \in [Files -> Slots \cup {Nil}]
    BY <1>1 DEF Shards
  <2> QED
    BY <1>1, <1>2, <1>3, <2>1, <2>2 DEF TableOK, Entered
<1>12. /\ t.lru \in Seq(Slots) /\ IsInjective(t.lru)
       /\ ToSet(t.lru) = ToSet(s.lru) \ {h}
  <2>1. s.lru \in Seq(Slots) /\ IsInjective(s.lru) /\ ToSet(s.lru) = {g \in s.in_cache : s.handle[g].refs = 1}
    BY <1>1 DEF ListsOK, Shards
  <2>2. CASE s.handle[h].refs = 1
    BY <1>2, <1>3, <2>1, <2>2, WithoutFacts
  <2>3. CASE s.handle[h].refs # 1
    BY <1>3, <2>1, <2>3
  <2> QED
    BY <2>2, <2>3
<1>13. t.in_use = {g \in t.in_cache : t.handle[g].refs > 1}
  <2>1. s.in_use = {g \in s.in_cache : s.handle[g].refs > 1}
    BY <1>1 DEF ListsOK
  <2>2. \A g \in s.in_cache : g # h => (t.handle[g].refs > 1 <=> g \in s.in_use)
    BY <1>2, <1>5, <2>1
  <2>3. t.handle[h].refs > 1 /\ h \in t.in_use
    BY <1>2, <1>3, <1>4, <1>5, <1>7, <1>9, <2>1
  <2>4. \A g \in t.in_use : g \in s.in_use \/ g = h
    BY <1>3
  <2>5. s.in_use \subseteq t.in_use
    BY <1>3
  <2> QED
    BY <1>3, <2>1, <2>2, <2>3, <2>4, <2>5
<1>14. ListsOK(t)
  <2>1. ToSet(s.lru) = {g \in s.in_cache : s.handle[g].refs = 1}
    BY <1>1 DEF ListsOK
  <2>2. \A g \in s.in_cache : t.handle[g].refs = 1 <=> (g # h /\ s.handle[g].refs = 1)
    BY <1>2, <1>4, <1>5, <1>7, <1>9
  <2>3. ToSet(t.lru) = {g \in t.in_cache : t.handle[g].refs = 1}
    BY <1>3, <1>12, <2>1, <2>2
  <2> QED
    BY <1>12, <1>13, <2>3 DEF ListsOK
<1>15. UsageOK(t, {})
  BY <1>1, <1>3 DEF UsageOK, Entered
<1>16. t \in Shards /\ hold2 \in Holding
  <2>1. t.in_use \subseteq Slots
    BY <1>1, <1>2, <1>3 DEF Shards
  <2> QED
    BY <1>1, <1>2, <1>3, <1>5, <1>12, <2>1 DEF Shards, Holding, hold2
<1>17. SameFiles(s, t)
  BY <1>4, <1>5 DEF SameFiles
<1>18. \A what \in Limited : Permits(t, what) = Permits(s, what)
  <2>1. \A g \in Slots : t.handle[g].as = s.handle[g].as
    BY <1>4, <1>5
  <2>2. \A what : {g \in Slots : t.handle[g].as = what} = {g \in Slots : s.handle[g].as = what}
    BY <2>1
  <2> QED
    BY <1>3, <2>2 DEF Permits
<1> QED
  BY <1>3, <1>8, <1>10, <1>11, <1>14, <1>15, <1>16, <1>17, <1>18 DEF ShardOK, t, hold2

\* DeleteEntry gives back the permit of the table it closes.
LEMMA UnrefPermits ==
  ASSUME NEW s \in Shards, NEW h \in Slots, s.handle[h].refs > 0
  PROVE  \A what \in Limited : Permits(Unref(s, h), what) = Permits(s, what)
<1> DEFINE t == Unref(s, h)
           n == s.handle[h].refs - 1
<1>1. /\ t.handle = [s.handle EXCEPT ![h] = IF n = 0 THEN Free ELSE [s.handle[h] EXCEPT !.refs = n]]
      /\ t.allowed = IF n = 0 THEN CloseFile(s.allowed, s.handle[h].as) ELSE s.allowed
  BY UnrefFields
<1>2. s.handle \in [Slots -> Entry] /\ s.handle[h].as \in Opened /\ s.allowed \in [Limited -> Int]
  BY DEF Shards, Entry
<1>3. [s.handle[h] EXCEPT !.refs = n].as = s.handle[h].as
  BY <1>2 DEF Entry
<1>4. \A g \in Slots : t.handle[g].as = IF n = 0 /\ g = h THEN "closed" ELSE s.handle[g].as
  BY <1>1, <1>2, <1>3 DEF Free
<1> HIDE DEF t, n
<1> TAKE what \in Limited
<1> DEFINE S == {g \in Slots : s.handle[g].as = what}
           T == {g \in Slots : t.handle[g].as = what}
<1>5. S \in SUBSET Slots /\ IsFiniteSet(S) /\ Cardinality(S) \in Nat
  BY SlotsFinite, FS_Subset, FS_CardinalityType
<1>6. what # "closed" /\ s.allowed[what] \in Int
  BY <1>2 DEF Limited
<1>7. CASE n = 0 /\ s.handle[h].as = what
  <2>1. T = S \ {h} /\ h \in S
    BY <1>4, <1>6, <1>7
  <2>2. Cardinality(T) = Cardinality(S) - 1
    <3> HIDE DEF S, T
    <3> QED
      BY <1>5, <2>1, FS_RemoveElement
  <2>3. t.allowed[what] = s.allowed[what] + 1
    BY <1>1, <1>2, <1>7 DEF CloseFile
  <2> QED
    BY <1>5, <1>6, <2>2, <2>3 DEF Permits, t
<1>8. CASE ~(n = 0 /\ s.handle[h].as = what)
  <2>1. T = S
    BY <1>4, <1>6, <1>8
  <2>2. t.allowed[what] = s.allowed[what]
    BY <1>1, <1>2, <1>8 DEF CloseFile
  <2> QED
    BY <2>1, <2>2 DEF Permits, t
<1> QED
  BY <1>7, <1>8

\* A reader gives back its handle.
LEMMA ReleaseKeeps ==
  ASSUME NEW s, NEW hold, ShardOK(s, hold, {}), NEW h \in Slots,
         NEW r \in TableReaders, hold[r] = h
  PROVE  /\ ShardOK(Unref(s, h), [hold EXCEPT ![r] = Nil], {})
         /\ SameFiles(s, Unref(s, h))
         /\ Unref(s, h).usage = s.usage
         /\ \A what \in Limited : Permits(Unref(s, h), what) = Permits(s, what)
<1> DEFINE t == Unref(s, h)
           n == s.handle[h].refs - 1
           e == IF n = 0 THEN Free ELSE [s.handle[h] EXCEPT !.refs = n]
           hold2 == [hold EXCEPT ![r] = Nil]
<1>1. /\ s \in Shards /\ hold \in Holding /\ RefsOK(s, hold) /\ FreeOK(s) /\ TableOK(s, {})
      /\ ListsOK(s) /\ UsageOK(s, {})
  BY DEF ShardOK
<1>2. /\ s.handle[h] \in Entry /\ s.handle \in [Slots -> Entry] /\ s.in_cache \subseteq Slots
  BY <1>1 DEF Shards
<1>3. /\ \A g \in Slots : /\ Cardinality(Uses(hold2, g)) = Cardinality(Uses(hold, g)) - (IF g = h THEN 1 ELSE 0)
                          /\ Cardinality(Uses(hold, g)) \in Nat
      /\ Cardinality(Uses(hold, h)) > 0
  BY <1>1, UsesShrink, UsesFinite
<1>4. /\ s.handle[h].refs > 0 /\ n \in Nat /\ (h \in s.in_cache => n >= 1)
      /\ \A g \in Slots : s.handle[g].refs \in Nat
  BY <1>1, <1>2, <1>3 DEF RefsOK, Entry
<1>5. /\ t \in [handle : {t.handle}, in_cache : {t.in_cache}, table : {t.table}, lru : {t.lru},
                in_use : {t.in_use}, usage : {t.usage}, allowed : {t.allowed}]
      /\ t.handle = [s.handle EXCEPT ![h] = e]
      /\ t.in_cache = s.in_cache /\ t.table = s.table /\ t.usage = s.usage
      /\ t.allowed = IF n = 0 THEN CloseFile(s.allowed, s.handle[h].as) ELSE s.allowed
      /\ t.lru = IF n = 1 /\ h \in s.in_cache THEN Append(Without(s.lru, h), h) ELSE s.lru
      /\ t.in_use = IF n = 1 /\ h \in s.in_cache THEN s.in_use \ {h} ELSE s.in_use
  <2>1. s \in Shards /\ s.handle[h].refs > 0
    BY <1>1, <1>4
  <2> QED
    BY <2>1, UnrefFields
<1>6. /\ e \in Entry /\ e.refs = n
      /\ (n > 0 => e.file = s.handle[h].file) /\ (n = 0 => e = Free)
  <2>1. CASE n = 0
    BY <2>1 DEF Entry, Free, Opened
  <2>2. CASE n # 0
    BY <1>2, <1>4, <2>2 DEF Entry
  <2> QED
    BY <2>1, <2>2
<1>7. s.handle[h].refs = n + 1
  BY <1>4
<1>8. \A what \in Limited : Permits(t, what) = Permits(s, what)
  BY <1>1, <1>4, UnrefPermits
<1> HIDE DEF t, n, e, hold2
<1>9. /\ t.handle \in [Slots -> Entry]
      /\ \A g \in Slots : t.handle[g] = IF g = h THEN e ELSE s.handle[g]
  BY <1>2, <1>5, <1>6
<1>10. RefsOK(t, hold2)
  <2> SUFFICES ASSUME NEW g \in Slots
               PROVE  t.handle[g].refs = Cardinality(Uses(hold2, g)) + (IF g \in t.in_cache THEN 1 ELSE 0)
    BY DEF RefsOK
  <2>1. s.handle[g].refs = Cardinality(Uses(hold, g)) + (IF g \in s.in_cache THEN 1 ELSE 0)
    BY <1>1 DEF RefsOK
  <2>2. t.handle[g].refs = IF g = h THEN n ELSE s.handle[g].refs
    BY <1>6, <1>9
  <2> QED
    BY <1>3, <1>5, <1>7, <2>1, <2>2, <1>4
<1>11. FreeOK(t)
  BY <1>1, <1>6, <1>9 DEF FreeOK
<1>12. \A g \in s.in_cache : t.handle[g].file = s.handle[g].file
  BY <1>2, <1>4, <1>6, <1>9
<1>13. TableOK(t, {})
  <2>1. s.table \in [Files -> Slots \cup {Nil}]
    BY <1>1 DEF Shards
  <2> QED
    BY <1>1, <1>2, <1>5, <1>12, <2>1 DEF TableOK, Entered
<1>14. /\ s.lru \in Seq(Slots) /\ IsInjective(s.lru)
       /\ ToSet(s.lru) = {g \in s.in_cache : s.handle[g].refs = 1}
       /\ s.in_use = {g \in s.in_cache : s.handle[g].refs > 1}
  BY <1>1 DEF ListsOK, Shards
<1>15. t.lru \in Seq(Slots) /\ ListsOK(t)
  <2>1. CASE n = 1 /\ h \in s.in_cache
    <3> DEFINE w == Without(s.lru, h)
    <3>1. w \in Seq(Slots) /\ IsInjective(w) /\ ToSet(w) = ToSet(s.lru) \ {h}
      BY <1>14, WithoutFacts
    <3> HIDE DEF w
    <3>2. /\ Append(w, h) \in Seq(Slots) /\ IsInjective(Append(w, h))
          /\ ToSet(Append(w, h)) = ToSet(w) \cup {h}
      BY <3>1, AppendFacts
    <3>3. t.lru = Append(w, h) /\ t.in_use = s.in_use \ {h}
      BY <1>5, <2>1 DEF w
    <3>4. t.handle[h].refs = 1 /\ \A g \in Slots : g # h => t.handle[g].refs = s.handle[g].refs
      BY <1>6, <1>9, <2>1
    <3>5. ToSet(t.lru) = {g \in t.in_cache : t.handle[g].refs = 1}
      <4>1. \A g : g \in ToSet(t.lru) <=> g = h \/ (g \in s.in_cache /\ g # h /\ s.handle[g].refs = 1)
        BY <1>14, <3>1, <3>2, <3>3
      <4>2. \A g \in s.in_cache : t.handle[g].refs = 1 <=> g = h \/ s.handle[g].refs = 1
        BY <1>2, <3>4
      <4> QED
        BY <1>5, <2>1, <4>1, <4>2
    <3>6. t.in_use = {g \in t.in_cache : t.handle[g].refs > 1}
      BY <1>2, <1>5, <1>14, <2>1, <3>3, <3>4
    <3> QED
      BY <3>2, <3>3, <3>5, <3>6 DEF ListsOK
  <2>2. CASE ~(n = 1 /\ h \in s.in_cache)
    <3>1. \A g \in s.in_cache : /\ t.handle[g].refs = 1 <=> s.handle[g].refs = 1
                                /\ t.handle[g].refs > 1 <=> s.handle[g].refs > 1
      BY <1>2, <1>4, <1>6, <1>7, <1>9, <2>2
    <3>2. t.lru = s.lru /\ t.in_use = s.in_use
      BY <1>5, <2>2
    <3>3. ToSet(t.lru) = {g \in t.in_cache : t.handle[g].refs = 1}
      BY <1>5, <1>14, <3>1, <3>2
    <3>4. t.in_use = {g \in t.in_cache : t.handle[g].refs > 1}
      BY <1>5, <1>14, <3>1, <3>2
    <3> QED
      BY <1>14, <3>2, <3>3, <3>4 DEF ListsOK
  <2> QED
    BY <2>1, <2>2
<1>16. UsageOK(t, {})
  BY <1>1, <1>5 DEF UsageOK, Entered
<1>17. t \in Shards /\ hold2 \in Holding
  <2>1. t.in_use \subseteq Slots /\ t.allowed \in [Limited -> Int]
    BY <1>1, <1>5 DEF Shards, CloseFile
  <2> QED
    BY <1>1, <1>2, <1>5, <1>9, <1>15, <2>1 DEF Shards, Holding, hold2
<1>18. SameFiles(s, t)
  BY <1>4, <1>6, <1>9 DEF SameFiles
<1> QED
  BY <1>5, <1>8, <1>10, <1>11, <1>13, <1>15, <1>16, <1>17, <1>18 DEF ShardOK, t, hold2

\* FinishErase of the handle that has just left the table.
LEMMA FinishKeeps ==
  ASSUME NEW s, NEW hold, NEW h \in Slots, ShardOK(s, hold, {h})
  PROVE  /\ ShardOK(FinishErase(s, h), hold, {})
         /\ SameFiles(s, FinishErase(s, h))
         /\ FinishErase(s, h).usage = s.usage - 1 /\ FinishErase(s, h).table = s.table
         /\ \A what \in Limited : Permits(FinishErase(s, h), what) = Permits(s, what)
<1> DEFINE p == [LRU_Remove(s, h) EXCEPT !.in_cache = @ \ {h}, !.usage = @ - 1]
           t == Unref(p, h)
           n == p.handle[h].refs - 1
           e == IF n = 0 THEN Free ELSE [p.handle[h] EXCEPT !.refs = n]
<1>1. /\ s \in Shards /\ hold \in Holding /\ RefsOK(s, hold) /\ FreeOK(s) /\ TableOK(s, {h})
      /\ ListsOK(s) /\ UsageOK(s, {h}) /\ h \in s.in_cache
  BY DEF ShardOK, TableOK
<1>2. FinishErase(s, h) = t
  BY SlotsFinite DEF FinishErase
<1>3. /\ s.lru \in Seq(Slots) /\ IsInjective(s.lru)
      /\ ToSet(s.lru) = {g \in s.in_cache : s.handle[g].refs = 1}
      /\ s.in_use = {g \in s.in_cache : s.handle[g].refs > 1}
      /\ s.handle[h] \in Entry /\ s.handle \in [Slots -> Entry] /\ s.in_cache \subseteq Slots
  BY <1>1 DEF ListsOK, Shards
<1>4. /\ Without(s.lru, h) \in Seq(Slots) /\ IsInjective(Without(s.lru, h))
      /\ ToSet(Without(s.lru, h)) = ToSet(s.lru) \ {h}
  BY <1>3, WithoutFacts
<1>5. p \in [handle : {s.handle}, in_cache : {s.in_cache \ {h}}, table : {s.table},
             lru : {Without(s.lru, h)}, in_use : {s.in_use \ {h}}, usage : {s.usage - 1},
             allowed : {s.allowed}]
  BY <1>1 DEF LRU_Remove, Shards
<1> HIDE DEF p
<1>6. p \in Shards
  BY <1>1, <1>4, <1>5 DEF Shards
<1>7. \A g \in Slots : s.handle[g].refs \in Nat /\ Cardinality(Uses(hold, g)) \in Nat
  BY <1>3, UsesFinite DEF Entry
<1>8. /\ p.handle = s.handle /\ s.handle[h].refs = Cardinality(Uses(hold, h)) + 1
      /\ p.handle[h].refs > 0 /\ n = Cardinality(Uses(hold, h)) /\ n \in Nat
  BY <1>1, <1>5, <1>7 DEF RefsOK
<1>9. /\ t \in [handle : {t.handle}, in_cache : {t.in_cache}, table : {t.table}, lru : {t.lru},
                in_use : {t.in_use}, usage : {t.usage}, allowed : {t.allowed}]
      /\ t.handle = [p.handle EXCEPT ![h] = e]
      /\ t.in_cache = p.in_cache /\ t.table = p.table /\ t.usage = p.usage
      /\ t.allowed = IF n = 0 THEN CloseFile(p.allowed, p.handle[h].as) ELSE p.allowed
      /\ t.lru = p.lru /\ t.in_use = p.in_use
  <2>1. h \notin p.in_cache
    BY <1>5
  <2> QED
    BY <1>6, <1>8, <2>1, UnrefFields
<1>10. /\ e \in Entry /\ e.refs = n
       /\ (n > 0 => e.file = s.handle[h].file) /\ (n = 0 => e = Free)
  <2>1. CASE n = 0
    BY <2>1 DEF Entry, Free, Opened
  <2>2. CASE n # 0
    BY <1>3, <1>8, <2>2 DEF Entry
  <2> QED
    BY <2>1, <2>2
<1>11. \A what \in Limited : Permits(t, what) = Permits(s, what)
  <2>1. \A what \in Limited : Permits(t, what) = Permits(p, what)
    BY <1>6, <1>8, UnrefPermits
  <2> QED
    BY <1>5, <2>1 DEF Permits
<1> HIDE DEF t, n, e
<1>12. /\ t.handle \in [Slots -> Entry]
       /\ \A g \in Slots : t.handle[g] = IF g = h THEN e ELSE s.handle[g]
       /\ t.in_cache = s.in_cache \ {h} /\ t.table = s.table /\ t.usage = s.usage - 1
       /\ t.lru = Without(s.lru, h) /\ t.in_use = s.in_use \ {h}
  BY <1>3, <1>5, <1>8, <1>9, <1>10
<1>13. RefsOK(t, hold)
  BY <1>1, <1>7, <1>8, <1>10, <1>12 DEF RefsOK
<1>14. FreeOK(t)
  BY <1>1, <1>10, <1>12 DEF FreeOK
<1>15. TableOK(t, {})
  <2>1. \A g \in s.in_cache \ {h} : t.handle[g].file = s.handle[g].file
    BY <1>3, <1>12
  <2>2. s.table \in [Files -> Slots \cup {Nil}]
    BY <1>1 DEF Shards
  <2> QED
    BY <1>1, <1>12, <2>1, <2>2 DEF TableOK, Entered
<1>16. ListsOK(t)
  <2>1. \A g \in t.in_cache : t.handle[g].refs = s.handle[g].refs /\ g # h
    BY <1>3, <1>12
  <2>2. ToSet(t.lru) = {g \in t.in_cache : t.handle[g].refs = 1}
    BY <1>3, <1>4, <1>12, <2>1
  <2>3. t.in_use = {g \in t.in_cache : t.handle[g].refs > 1}
    BY <1>3, <1>12, <2>1
  <2> QED
    BY <1>4, <1>12, <2>2, <2>3 DEF ListsOK
<1>17. UsageOK(t, {})
  <2>1. Cardinality({h}) = 1 /\ Cardinality({}) = 0
    BY FS_Singleton, FS_EmptySet
  <2>2. Entered(t) = Entered(s) /\ IsFiniteSet(Entered(s)) /\ Cardinality(Entered(s)) \in Nat
    BY <1>12, TableCacheAssumption, FS_Subset, FS_CardinalityType DEF Entered
  <2> QED
    BY <1>1, <1>12, <2>1, <2>2 DEF UsageOK
<1>18. t \in Shards
  <2>1. t.in_use \subseteq Slots /\ t.allowed \in [Limited -> Int]
    BY <1>1, <1>5, <1>9 DEF Shards, CloseFile
  <2> QED
    <3>1. t.in_cache \in SUBSET Slots /\ t.lru \in Seq(Slots) /\ t.usage \in Int /\ t.table = s.table
      BY <1>1, <1>4, <1>12 DEF Shards
    <3>2. s.table \in [Files -> Slots \cup {Nil}] /\ t.handle \in [Slots -> Entry]
      BY <1>1, <1>12 DEF Shards
    <3> QED
      BY <1>9, <2>1, <3>1, <3>2 DEF Shards
<1>19. SameFiles(s, t)
  BY <1>8, <1>10, <1>12 DEF SameFiles
<1> QED
  BY <1>1, <1>2, <1>11, <1>12, <1>13, <1>14, <1>15, <1>16, <1>17, <1>18, <1>19 DEF ShardOK

\* Erase of a file, cached or not.
LEMMA EraseKeeps ==
  ASSUME NEW s, NEW hold, ShardOK(s, hold, {}), NEW f \in Files
  PROVE  /\ ShardOK(Erase(s, f), hold, {})
         /\ SameFiles(s, Erase(s, f))
         /\ Erase(s, f).usage <= s.usage /\ Erase(s, f).table[f] = Nil
         /\ \A what \in Limited : Permits(Erase(s, f), what) = Permits(s, what)
<1> DEFINE p == [s EXCEPT !.table[f] = Nil]
           h == s.table[f]
<1>1. /\ s \in Shards /\ hold \in Holding /\ RefsOK(s, hold) /\ FreeOK(s) /\ TableOK(s, {})
      /\ ListsOK(s) /\ UsageOK(s, {})
  BY DEF ShardOK
<1>2. /\ s.table \in [Files -> Slots \cup {Nil}] /\ h \in Slots \cup {Nil} /\ s.usage \in Int
      /\ s.handle \in [Slots -> Entry] /\ s.in_cache \subseteq Slots
  BY <1>1 DEF Shards
<1>3. Erase(s, f) = FinishErase(p, h)
  BY DEF Erase
<1>4. p \in [handle : {s.handle}, in_cache : {s.in_cache}, table : {[s.table EXCEPT ![f] = Nil]},
             lru : {s.lru}, in_use : {s.in_use}, usage : {s.usage}, allowed : {s.allowed}]
  BY <1>1 DEF Shards
<1> HIDE DEF p, h
<1>5. /\ p.handle = s.handle /\ p.in_cache = s.in_cache /\ p.lru = s.lru /\ p.in_use = s.in_use
      /\ p.usage = s.usage /\ p.allowed = s.allowed /\ p.table \in [Files -> Slots \cup {Nil}]
      /\ \A g \in Files : p.table[g] = IF g = f THEN Nil ELSE s.table[g]
  BY <1>2, <1>4
<1>6. p \in Shards
  BY <1>1, <1>4, <1>5 DEF Shards
<1>7. RefsOK(p, hold) /\ FreeOK(p) /\ ListsOK(p) /\ (\A what : Permits(p, what) = Permits(s, what)) /\ SameFiles(s, p)
  BY <1>1, <1>5 DEF RefsOK, FreeOK, ListsOK, Permits, SameFiles
<1>8. CASE h = Nil
  <2>1. \A g \in Files : p.table[g] = s.table[g]
    BY <1>5, <1>8 DEF h
  <2>2. Entered(p) = Entered(s)
    BY <2>1 DEF Entered
  <2>3. TableOK(p, {}) /\ UsageOK(p, {})
    <3>1. TableOK(p, {})
      <4>1. \A g \in s.in_cache : s.handle[g].file \in Files /\ s.table[s.handle[g].file] = g
        BY <1>1 DEF TableOK
      <4>2. \A g \in Entered(s) : g \in Files /\ s.table[g] \in s.in_cache /\ s.handle[s.table[g]].file = g
        BY <1>1 DEF TableOK, Entered
      <4> QED
        BY <1>5, <2>1, <2>2, <4>1, <4>2 DEF TableOK
    <3>2. UsageOK(p, {})
      BY <1>1, <1>5, <2>2 DEF UsageOK
    <3> QED
      BY <3>1, <3>2
  <2>4. ShardOK(p, hold, {})
    BY <1>1, <1>6, <1>7, <2>3 DEF ShardOK
  <2> QED
    BY <1>2, <1>3, <1>5, <1>7, <1>8, <2>4 DEF FinishErase
<1>9. CASE h \in Slots
  <2>1. h \in s.in_cache /\ s.handle[h].file = f /\ f \in Entered(s)
    BY <1>1, <1>9, SlotsFinite DEF TableOK, Entered, h
  <2>2. Entered(p) = Entered(s) \ {f}
    BY <1>5 DEF Entered
  <2>3. TableOK(p, {h})
    <3>1. \A g \in s.in_cache \ {h} : s.handle[g].file \in Files /\ s.handle[g].file # f /\ s.table[s.handle[g].file] = g
      BY <1>1 DEF TableOK, h
    <3>2. \A g \in Entered(p) : s.table[g] \in s.in_cache /\ s.handle[s.table[g]].file = g /\ s.table[g] # h /\ g # f /\ g \in Files
      BY <1>1, <2>1, <2>2 DEF TableOK, Entered
    <3> QED
      BY <1>5, <2>1, <3>1, <3>2 DEF TableOK
  <2>4. UsageOK(p, {h})
    <3>1. Cardinality({h}) = 1 /\ Cardinality({}) = 0
      BY FS_Singleton, FS_EmptySet
    <3>2. IsFiniteSet(Entered(s)) /\ Cardinality(Entered(s)) \in Nat
      BY TableCacheAssumption, FS_Subset, FS_CardinalityType DEF Entered
    <3>3. Cardinality(Entered(p)) = Cardinality(Entered(s)) - 1
      <4>1. Cardinality(Entered(s) \ {f}) = Cardinality(Entered(s)) - 1
        BY <2>1, <3>2, FS_RemoveElement
      <4> QED
        BY <2>2, <4>1
    <3> QED
      BY <1>1, <1>5, <3>1, <3>2, <3>3 DEF UsageOK
  <2>5. ShardOK(p, hold, {h})
    BY <1>1, <1>6, <1>7, <2>3, <2>4 DEF ShardOK
  <2>6. /\ ShardOK(FinishErase(p, h), hold, {}) /\ SameFiles(p, FinishErase(p, h))
        /\ FinishErase(p, h).usage = p.usage - 1 /\ FinishErase(p, h).table = p.table
        /\ \A what \in Limited : Permits(FinishErase(p, h), what) = Permits(p, what)
    BY <1>9, <2>5, FinishKeeps
  <2>7. SameFiles(s, FinishErase(p, h))
    BY <1>5, <2>6 DEF SameFiles
  <2> QED
    BY <1>2, <1>3, <1>5, <1>7, <2>6, <2>7
<1> QED
  BY <1>2, <1>8, <1>9

\* There is memory for one more handle while a reader has none.
LEMMA FreeSlot ==
  ASSUME NEW s, NEW hold, ShardOK(s, hold, {}), NEW r \in TableReaders, hold[r] = Nil
  PROVE  \E g \in Slots : s.handle[g] = Free
<1> SUFFICES ASSUME \A g \in Slots : s.handle[g] # Free PROVE FALSE
  OBVIOUS
<1> DEFINE H == {g \in Slots : \E q \in TableReaders : hold[q] = g}
           file == [g \in s.in_cache |-> s.handle[g].file]
           user == [g \in H |-> CHOOSE q \in TableReaders : hold[q] = g]
<1>1. /\ RefsOK(s, hold) /\ FreeOK(s) /\ TableOK(s, {}) /\ s.in_cache \subseteq Slots
      /\ s.handle \in [Slots -> Entry]
  BY DEF ShardOK, Shards
<1>2. Slots = s.in_cache \cup H
  <2>1. ASSUME NEW g \in Slots, g \notin s.in_cache PROVE g \in H
    <3>1. s.handle[g].refs # 0 /\ s.handle[g].refs = Cardinality(Uses(hold, g)) + 0 /\ Cardinality(Uses(hold, g)) \in Nat
      BY <1>1, <2>1, UsesFinite DEF FreeOK, RefsOK
    <3>2. Uses(hold, g) # {}
      BY <3>1, FS_EmptySet
    <3> QED
      BY <3>2 DEF Uses
  <2> QED
    BY <1>1, <2>1
<1>3. IsFiniteSet(Files) /\ IsFiniteSet(TableReaders)
  BY TableCacheAssumption
<1>4. file \in Injection(s.in_cache, Files)
  BY <1>1 DEF TableOK, Injection, IsInjective
<1>5. IsFiniteSet(s.in_cache) /\ Cardinality(s.in_cache) <= Cardinality(Files)
  <2> HIDE DEF file
  <2> QED
    BY <1>3, <1>4, FS_Injection
<1>6. user \in Injection(H, TableReaders \ {r})
  <2>1. \A g \in H : user[g] \in TableReaders /\ hold[user[g]] = g /\ g \in Slots
    OBVIOUS
  <2>2. Nil \notin Slots
    BY SlotsFinite
  <2>3. user \in [H -> TableReaders]
    BY <2>1
  <2>4. \A g \in H : user[g] # r
    BY <2>1, <2>2
  <2>5. DOMAIN user = H
    OBVIOUS
  <2> HIDE DEF user, H
  <2>6. user \in [H -> TableReaders \ {r}]
    BY <2>3, <2>4
  <2>7. IsInjective(user)
    BY <2>1, <2>5 DEF IsInjective
  <2> QED
    BY <2>6, <2>7 DEF Injection
<1> HIDE DEF H, user
<1>7. IsFiniteSet(TableReaders \ {r}) /\ Cardinality(TableReaders \ {r}) = Cardinality(TableReaders) - 1
  BY <1>3, FS_RemoveElement
<1>8. IsFiniteSet(H) /\ Cardinality(H) <= Cardinality(TableReaders) - 1
  BY <1>6, <1>7, FS_Injection
<1>9. Cardinality(Slots) = Cardinality(s.in_cache) + Cardinality(H) - Cardinality(s.in_cache \cap H)
  BY <1>2, <1>5, <1>8, FS_Union
<1>10. /\ Cardinality(s.in_cache) \in Nat /\ Cardinality(H) \in Nat /\ Cardinality(s.in_cache \cap H) \in Nat
  BY <1>5, <1>8, FS_Intersection, FS_CardinalityType
<1> QED
  BY <1>5, <1>8, <1>9, <1>10, SlotsFinite

\* A cache without an entry to evict has no more entries than there are readers.
LEMMA AllInUse ==
  ASSUME NEW s, NEW hold, ShardOK(s, hold, {}), s.lru = <<>>
  PROVE  s.usage <= Cardinality(TableReaders)
<1> DEFINE user == [f \in Entered(s) |-> CHOOSE q \in TableReaders : hold[q] = s.table[f]]
<1>1. /\ RefsOK(s, hold) /\ TableOK(s, {}) /\ ListsOK(s) /\ UsageOK(s, {}) /\ s.in_cache \subseteq Slots
  BY DEF ShardOK, Shards
<1>2. ToSet(s.lru) = {}
  BY DEF ToSet
<1>3. ASSUME NEW f \in Entered(s) PROVE \E q \in TableReaders : hold[q] = s.table[f]
  <2> DEFINE h == s.table[f]
  <2>1. h \in s.in_cache /\ h \in Slots
    BY <1>1, <1>3 DEF TableOK
  <2> HIDE DEF h
  <2>2. s.handle[h].refs # 1 /\ s.handle[h].refs = Cardinality(Uses(hold, h)) + 1 /\ Cardinality(Uses(hold, h)) \in Nat
    BY <1>1, <1>2, <2>1, UsesFinite DEF ListsOK, RefsOK
  <2>3. Cardinality(Uses(hold, h)) # 0
    BY <2>2
  <2>4. Uses(hold, h) # {}
    BY <2>3, FS_EmptySet
  <2> QED
    BY <2>4 DEF Uses, h
<1>4. \A f \in Entered(s) : user[f] \in TableReaders /\ hold[user[f]] = s.table[f] /\ s.handle[s.table[f]].file = f
  BY <1>1, <1>3 DEF TableOK
<1>5. user \in Injection(Entered(s), TableReaders)
  <2>1. user \in [Entered(s) -> TableReaders]
    BY <1>4
  <2>2. DOMAIN user = Entered(s)
    OBVIOUS
  <2> HIDE DEF user
  <2>3. IsInjective(user)
    BY <1>4, <2>2 DEF IsInjective
  <2> QED
    BY <2>1, <2>3 DEF Injection
<1> HIDE DEF user
<1>6. Cardinality(Entered(s)) <= Cardinality(TableReaders) /\ Cardinality(Entered(s)) \in Nat
  BY <1>5, TableCacheAssumption, FS_Injection, FS_CardinalityType
<1> QED
  BY <1>1, <1>6, FS_EmptySet DEF UsageOK

\* What Insert does for the reader that has opened a table.
Inserts(s, t, hold2, h, f, as) ==
  /\ ShardOK(t, hold2, {})
  /\ \A g \in Slots : t.handle[g].refs > 0 =>
       t.handle[g].file = IF g = h THEN f ELSE s.handle[g].file
  /\ \A what \in Limited :
       Permits(t, what) = Permits(s, what) + (IF as = what THEN 1 ELSE 0)

\* Insert, up to its loop, of a table that reader r has opened.
LEMMA InsertKeeps ==
  ASSUME NEW s, NEW hold, ShardOK(s, hold, {}), NEW h \in Slots, s.handle[h] = Free,
         NEW r \in TableReaders, hold[r] = Nil, NEW f \in Files, NEW as \in Opened, capacity \in Nat
  PROVE  Inserts(s, Insert(s, h, f, as), [hold EXCEPT ![r] = h], h, f, as)
<1> DEFINE e == [file |-> f, refs |-> IF capacity > 0 THEN 2 ELSE 1, as |-> as]
           a == Allocated(s, h, f, as)
           hold2 == [hold EXCEPT ![r] = h]
<1>1. /\ s \in Shards /\ hold \in Holding /\ RefsOK(s, hold) /\ FreeOK(s) /\ TableOK(s, {})
      /\ ListsOK(s) /\ UsageOK(s, {})
  BY DEF ShardOK
<1>2. /\ s.handle \in [Slots -> Entry] /\ s.in_cache \subseteq Slots /\ s.table \in [Files -> Slots \cup {Nil}]
      /\ s.usage \in Int /\ s.allowed \in [Limited -> Int]
  BY <1>1 DEF Shards
<1>3. a \in [handle : {[s.handle EXCEPT ![h] = e]}, in_cache : {s.in_cache}, table : {s.table},
             lru : {s.lru}, in_use : {s.in_use}, usage : {s.usage}, allowed : {s.allowed}]
  BY <1>1 DEF Allocated, Shards
<1>4. /\ e \in Entry /\ e.file = f /\ e.as = as /\ e.refs = IF capacity > 0 THEN 2 ELSE 1
  BY DEF Entry
<1>5. hold2 \in Holding
  BY <1>1 DEF Holding
<1>6. \A g \in Slots : /\ Cardinality(Uses(hold2, g)) = Cardinality(Uses(hold, g)) + (IF g = h THEN 1 ELSE 0)
                       /\ Cardinality(Uses(hold, g)) \in Nat /\ s.handle[g].refs \in Nat
  BY <1>1, <1>2, UsesGrow, UsesFinite DEF Entry
<1>7. s.handle[h].refs = 0 /\ h \notin s.in_cache /\ Cardinality(Uses(hold, h)) = 0
  BY <1>1, <1>6 DEF RefsOK, Free
<1> HIDE DEF e, a, hold2
<1>8. \A g \in Slots : [s.handle EXCEPT ![h] = e][g] = IF g = h THEN e ELSE s.handle[g]
  BY <1>2
<1>9. \A what \in Limited : Permits(a, what) = Permits(s, what) + (IF as = what THEN 1 ELSE 0)
  <2> TAKE what \in Limited
  <2> DEFINE S == {g \in Slots : s.handle[g].as = what}
             T == {g \in Slots : a.handle[g].as = what}
  <2>1. IsFiniteSet(S) /\ Cardinality(S) \in Nat
    BY SlotsFinite, FS_Subset, FS_CardinalityType
  <2>2. s.handle[h].as = "closed" /\ what # "closed"
    BY DEF Free, Limited
  <2>3. \A g \in Slots : a.handle[g].as = IF g = h THEN as ELSE s.handle[g].as
    BY <1>3, <1>4, <1>8
  <2>4. h \notin S /\ T = IF as = what THEN S \cup {h} ELSE S
    BY <2>2, <2>3
  <2>5. a.allowed[what] = s.allowed[what] /\ s.allowed[what] \in Int
    BY <1>2, <1>3
  <2>6. Permits(a, what) = a.allowed[what] + Cardinality(T) /\ Permits(s, what) = s.allowed[what] + Cardinality(S)
    BY DEF Permits
  <2> HIDE DEF S, T
  <2>7. CASE as = what
    <3>1. Cardinality(T) = Cardinality(S) + 1
      BY <2>1, <2>4, <2>7, FS_AddElement
    <3> QED
      BY <2>1, <2>5, <2>6, <2>7, <3>1
  <2>8. CASE as # what
    <3>1. Cardinality(T) = Cardinality(S)
      BY <2>4, <2>8
    <3> QED
      BY <2>1, <2>5, <2>6, <2>8, <3>1
  <2> QED
    BY <2>7, <2>8
<1>10. CASE capacity = 0
  <2>1. Insert(s, h, f, as) = a
    BY <1>10 DEF Insert, a
  <2>2. /\ a.handle \in [Slots -> Entry] /\ a.in_cache = s.in_cache /\ a.table = s.table
        /\ a.lru = s.lru /\ a.in_use = s.in_use /\ a.usage = s.usage
        /\ \A g \in Slots : a.handle[g] = IF g = h THEN e ELSE s.handle[g]
    BY <1>2, <1>3, <1>4, <1>8
  <2>3. a \in Shards
    BY <1>1, <1>3, <2>2 DEF Shards
  <2>4. e.refs = 1
    BY <1>4, <1>10
  <2>5. RefsOK(a, hold2) /\ FreeOK(a)
    BY <1>1, <1>6, <1>7, <2>2, <2>4 DEF RefsOK, FreeOK
  <2>6. \A g \in s.in_cache : g \in Slots /\ a.handle[g] = s.handle[g]
    BY <1>2, <1>7, <2>2
  <2>7. ListsOK(a)
    <3>1. {g \in a.in_cache : a.handle[g].refs = 1} = {g \in s.in_cache : s.handle[g].refs = 1}
      BY <2>2, <2>6
    <3>2. {g \in a.in_cache : a.handle[g].refs > 1} = {g \in s.in_cache : s.handle[g].refs > 1}
      BY <2>2, <2>6
    <3> QED
      BY <1>1, <2>2, <3>1, <3>2 DEF ListsOK
  <2>8. TableOK(a, {}) /\ UsageOK(a, {})
    <3>1. Entered(a) = Entered(s)
      BY <2>2 DEF Entered
    <3>2. TableOK(a, {})
      BY <1>1, <2>2, <2>6, <3>1 DEF TableOK
    <3> QED
      BY <1>1, <2>2, <3>1, <3>2 DEF UsageOK
  <2>9. \A g \in Slots : a.handle[g].file = IF g = h THEN f ELSE s.handle[g].file
    BY <1>4, <2>2
  <2> QED
    BY <1>5, <1>9, <2>1, <2>3, <2>5, <2>7, <2>8, <2>9 DEF Inserts, ShardOK, hold2
<1>11. CASE capacity > 0
  <2> DEFINE c == Cached(a, h, f)
             old == s.table[f]
             E == IF old = Nil THEN {} ELSE {old}
  <2>1. Insert(s, h, f, as) = FinishErase(c, old)
    BY <1>11 DEF Insert, a
  <2>2. c \in [handle : {[s.handle EXCEPT ![h] = e]}, in_cache : {s.in_cache \cup {h}},
               table : {[s.table EXCEPT ![f] = h]}, lru : {s.lru}, in_use : {s.in_use \cup {h}},
               usage : {s.usage + 1}, allowed : {s.allowed}]
    BY <1>3 DEF Cached
  <2> HIDE DEF c
  <2>3. /\ c.handle \in [Slots -> Entry] /\ c.in_cache = s.in_cache \cup {h}
        /\ c.table \in [Files -> Slots \cup {Nil}] /\ \A g \in Files : c.table[g] = IF g = f THEN h ELSE s.table[g]
        /\ c.lru = s.lru /\ c.in_use = s.in_use \cup {h} /\ c.usage = s.usage + 1
        /\ \A g \in Slots : c.handle[g] = IF g = h THEN e ELSE s.handle[g]
    BY <1>2, <1>4, <1>8, <2>2
  <2>4. c \in Shards
    BY <1>1, <1>2, <2>2, <2>3 DEF Shards
  <2>5. e.refs = 2
    BY <1>4, <1>11
  <2>6. RefsOK(c, hold2) /\ FreeOK(c)
    BY <1>1, <1>6, <1>7, <2>3, <2>5 DEF RefsOK, FreeOK
  <2>7. \A g \in s.in_cache : g \in Slots /\ g # h /\ c.handle[g] = s.handle[g]
    BY <1>2, <1>7, <2>3
  <2>8. ListsOK(c)
    <3>1. /\ s.in_use = {g \in s.in_cache : s.handle[g].refs > 1}
          /\ ToSet(s.lru) = {g \in s.in_cache : s.handle[g].refs = 1}
          /\ IsInjective(s.lru)
      BY <1>1 DEF ListsOK
    <3>2. c.handle[h].refs > 1 /\ ~(c.handle[h].refs = 1)
      BY <2>3, <2>5
    <3>3. {g \in c.in_cache : c.handle[g].refs = 1} = {g \in s.in_cache : s.handle[g].refs = 1}
      BY <2>3, <2>7, <3>2
    <3>4. {g \in c.in_cache : c.handle[g].refs > 1} = {g \in s.in_cache : s.handle[g].refs > 1} \cup {h}
      BY <2>3, <2>7, <3>2
    <3> QED
      BY <2>3, <3>1, <3>3, <3>4 DEF ListsOK
  <2>9. /\ \A g \in s.in_cache : s.handle[g].file \in Files /\ s.table[s.handle[g].file] = g
        /\ \A g \in Entered(s) : g \in Files /\ s.table[g] \in s.in_cache /\ s.handle[s.table[g]].file = g
        /\ old \in Slots \cup {Nil} /\ Nil \notin Slots
    BY <1>1, <1>2, SlotsFinite DEF TableOK, Entered
  <2>10. f \in Entered(s) <=> old # Nil
    BY DEF Entered
  <2>11. Entered(c) = Entered(s) \cup {f}
    BY <2>3, <2>9 DEF Entered
  <2>12. TableOK(c, E)
    <3>1. E \subseteq s.in_cache
      BY <2>9, <2>10
    <3>2. \A g \in s.in_cache \ E : s.handle[g].file # f
      <4> TAKE g \in s.in_cache \ E
      <4>1. s.handle[g].file = f => s.table[f] = g
        BY <2>9
      <4>2. g # Nil
        BY <1>2, <2>9
      <4> QED
        BY <4>1, <4>2
    <3>3. c.handle[h].file = f /\ c.table[f] = h
      BY <1>4, <2>3
    <3>4. h \notin E
      BY <1>7, <3>1
    <3>5. \A g \in Entered(c) : g = f \/ (g \in Entered(s) /\ g # f /\ s.table[g] # old)
      <4>1. ASSUME NEW g \in Entered(s), g # f PROVE s.table[g] # old
        <5>1. s.table[g] = old => f \in Entered(s)
          BY <2>10, <4>1 DEF Entered
        <5> QED
          BY <2>9, <4>1, <5>1
      <4> QED
        BY <2>11, <4>1
    <3>6. \A g \in Entered(c) : g # f => s.table[g] \notin E
      BY <3>5
    <3> HIDE DEF E
    <3>7. \A g \in c.in_cache \ E : c.handle[g].file \in Files /\ c.table[c.handle[g].file] = g
      BY <2>3, <2>7, <2>9, <3>2, <3>3
    <3>8. \A g \in Entered(c) : c.table[g] \in c.in_cache \ E /\ c.handle[c.table[g]].file = g
      BY <2>3, <2>7, <2>9, <3>3, <3>4, <3>5, <3>6
    <3> QED
      BY <2>3, <3>1, <3>7, <3>8 DEF TableOK
  <2>13. UsageOK(c, E)
    <3>1. Cardinality({old}) = 1 /\ Cardinality({}) = 0
      BY FS_Singleton, FS_EmptySet
    <3>2. IsFiniteSet(Entered(s)) /\ Cardinality(Entered(s)) \in Nat
      BY TableCacheAssumption, FS_Subset, FS_CardinalityType DEF Entered
    <3>3. Cardinality(Entered(s) \cup {f}) = IF old # Nil THEN Cardinality(Entered(s)) ELSE Cardinality(Entered(s)) + 1
      BY <2>10, <3>2, FS_AddElement
    <3>4. Cardinality(E) = IF old # Nil THEN 1 ELSE 0
      BY <3>1
    <3>5. s.usage = Cardinality(Entered(s))
      BY <1>1, <3>1, <3>2 DEF UsageOK
    <3> HIDE DEF E
    <3>6. c.usage = Cardinality(Entered(s)) + 1
      BY <2>3, <3>5
    <3> QED
      BY <2>11, <3>2, <3>3, <3>4, <3>6 DEF UsageOK
  <2>14. ShardOK(c, hold2, E)
    BY <1>5, <2>4, <2>6, <2>8, <2>12, <2>13 DEF ShardOK
  <2>15. \A what \in Limited : Permits(c, what) = Permits(s, what) + (IF as = what THEN 1 ELSE 0)
    <3>1. c.handle = a.handle /\ c.allowed = a.allowed
      BY <1>3, <2>2
    <3> QED
      BY <1>9, <3>1 DEF Permits
  <2>16. \A g \in Slots : c.handle[g].file = IF g = h THEN f ELSE s.handle[g].file
    BY <1>4, <2>3
  <2>17. CASE old = Nil
    <3>1. Insert(s, h, f, as) = c /\ E = {}
      BY <2>1, <2>17 DEF FinishErase
    <3> HIDE DEF E
    <3> QED
      BY <2>14, <2>15, <2>16, <3>1 DEF Inserts, hold2
  <2>18. CASE old \in Slots
    <3>1. E = {old}
      BY <2>9, <2>18
    <3>2. /\ ShardOK(FinishErase(c, old), hold2, {}) /\ SameFiles(c, FinishErase(c, old))
          /\ \A what \in Limited : Permits(FinishErase(c, old), what) = Permits(c, what)
      BY <2>14, <2>18, <3>1, FinishKeeps
    <3> QED
      BY <2>1, <2>15, <2>16, <3>2 DEF Inserts, SameFiles, hold2
  <2> QED
    BY <2>9, <2>17, <2>18
<1>12. capacity = 0 \/ capacity > 0
  OBVIOUS
<1> QED
  BY <1>10, <1>11, <1>12, Zenon

\* The limiters' counts are no concern of the lists.
LEMMA AllowedFree ==
  ASSUME NEW s, NEW hold, ShardOK(s, hold, {}), NEW al \in [Limited -> Int]
  PROVE  ShardOK([s EXCEPT !.allowed = al], hold, {})
<1> DEFINE t == [s EXCEPT !.allowed = al]
<1>1. /\ s \in Shards /\ hold \in Holding /\ RefsOK(s, hold) /\ FreeOK(s) /\ TableOK(s, {})
      /\ ListsOK(s) /\ UsageOK(s, {})
  BY DEF ShardOK
<1>2. /\ t \in Shards /\ t.handle = s.handle /\ t.in_cache = s.in_cache /\ t.table = s.table
      /\ t.lru = s.lru /\ t.in_use = s.in_use /\ t.usage = s.usage
  BY <1>1 DEF Shards
<1> HIDE DEF t
<1>3. RefsOK(t, hold) /\ FreeOK(t) /\ TableOK(t, {}) /\ ListsOK(t) /\ UsageOK(t, {})
  BY <1>1, <1>2 DEF RefsOK, FreeOK, TableOK, ListsOK, UsageOK, Entered
<1> QED
  BY <1>1, <1>2, <1>3 DEF ShardOK, t

-------------------------------------------------------------------------------
(* The invariant. *)

Reading == [at : Places, file : Files \cup {Nil}, handle : Slots \cup {Nil}, as : Opened]
Hold == [r \in TableReaders |-> reader[r].handle]

CacheTypes == reader \in [TableReaders -> Reading] /\ capacity \in Nat /\ deleted \subseteq Files

ShardInv == ShardOK(Shard, Hold, {})

\* What the place of a reader says of its file, its handle and its permit.
PlaceOK(x) ==
  /\ x.at = "idle" => x = AtRest
  /\ x.at # "idle" => x.file \in Files
  /\ x.handle # Nil <=> x.at \in {"shrinking", "using"}
  /\ x.as # "closed" => x.at = "opened"

ReaderInv ==
  /\ \A r \in TableReaders :
       /\ PlaceOK(reader[r]) /\ reader[r].file \notin deleted
       /\ reader[r].handle # Nil => handle[reader[r].handle].file = reader[r].file
  /\ \A r, q \in TableReaders : reader[r].at = "shrinking" /\ reader[q].at = "shrinking" => r = q

CapacityInv == MutexFree => usage <= capacity \/ usage <= Cardinality(TableReaders)

PermitInv ==
  \A what \in Limited : Permits(Shard, what) + Cardinality(Holders(what)) = MaxAllowed(what)

FilesInv == \A h \in Slots : handle[h].file \notin deleted

\* The inductive invariant.
CacheInv == CacheTypes /\ ShardInv /\ ReaderInv /\ CapacityInv /\ PermitInv /\ FilesInv

\* It says what the properties say.
LEMMA CacheInvImplies ==
  ASSUME CacheInv
  PROVE  ReferencesExact /\ NothingLeaked
<1>1. /\ RefsOK(Shard, Hold) /\ TableOK(Shard, {}) /\ ListsOK(Shard) /\ UsageOK(Shard, {})
      /\ Shard \in Shards
  BY DEF CacheInv, ShardInv, ShardOK
<1>2. /\ Shard.handle = handle /\ Shard.in_cache = in_cache /\ Shard.table = table /\ Shard.lru = lru
      /\ Shard.in_use = in_use /\ Shard.usage = usage /\ Shard.allowed = allowed
  BY DEF Shard
<1>3. \A h : Uses(Hold, h) = Users(h)
  BY DEF Uses, Users, Hold
<1>4. /\ in_cache \subseteq Slots /\ Nil \notin Slots
  BY <1>1, <1>2, SlotsFinite DEF Shards
<1>5. ASSUME NEW h \in Slots
      PROVE  /\ handle[h].refs = Cardinality(Users(h)) + (IF h \in in_cache THEN 1 ELSE 0)
             /\ \A r \in Users(h) : handle[h].file = reader[r].file
             /\ h \in in_cache <=> \E f \in Files : table[f] = h /\ handle[h].file = f
             /\ h \in in_use <=> h \in in_cache /\ handle[h].refs > 1
             /\ h \in ToSet(lru) <=> h \in in_cache /\ handle[h].refs = 1
  <2>1. handle[h].refs = Cardinality(Users(h)) + (IF h \in in_cache THEN 1 ELSE 0)
    BY <1>1, <1>2, <1>3 DEF RefsOK
  <2>2. \A r \in Users(h) : handle[h].file = reader[r].file
    BY <1>4 DEF Users, CacheInv, ReaderInv
  <2>3. h \in in_cache <=> \E f \in Files : table[f] = h /\ handle[h].file = f
    BY <1>1, <1>2, <1>4 DEF TableOK, Entered
  <2>4. /\ h \in in_use <=> h \in in_cache /\ handle[h].refs > 1
        /\ h \in ToSet(lru) <=> h \in in_cache /\ handle[h].refs = 1
    BY <1>1, <1>2 DEF ListsOK
  <2> QED
    BY <2>1, <2>2, <2>3, <2>4
<1>6. usage = Cardinality({f \in Files : table[f] # Nil})
  <2>1. usage = Cardinality(Entered(Shard)) + 0
    BY <1>1, <1>2, FS_EmptySet DEF UsageOK
  <2>2. Cardinality(Entered(Shard)) \in Nat
    BY TableCacheAssumption, FS_Subset, FS_CardinalityType DEF Entered
  <2> QED
    BY <1>2, <2>1, <2>2 DEF Entered
<1>7. ReferencesExact
  BY <1>5, <1>6 DEF ReferencesExact, CacheInv, CapacityInv
<1>8. NothingLeaked
  BY <1>2 DEF NothingLeaked, CacheInv, PermitInv, FilesInv, Permits
<1> QED
  BY <1>7, <1>8

\* An empty cache satisfies it.
LEMMA CacheInvInit == CacheInit => CacheInv
<1> SUFFICES ASSUME CacheInit PROVE CacheInv
  OBVIOUS
<1>1. /\ Shard.handle = [h \in Slots |-> Free] /\ Shard.in_cache = {} /\ Shard.table = [f \in Files |-> Nil]
      /\ Shard.lru = <<>> /\ Shard.in_use = {} /\ Shard.usage = 0
      /\ Shard.allowed = [what \in Limited |-> MaxAllowed(what)]
      /\ reader = [r \in TableReaders |-> AtRest] /\ deleted = {} /\ capacity \in Nat
  BY TableCacheAssumption DEF CacheInit, Shard
<1>2. /\ AtRest \in Reading /\ AtRest.handle = Nil /\ AtRest.file = Nil /\ AtRest.at = "idle" /\ AtRest.as = "closed"
      /\ Free \in Entry /\ Free.refs = 0 /\ Free.file = Nil /\ Free.as = "closed" /\ Nil \notin Slots
  BY SlotsFinite DEF AtRest, Reading, Places, Opened, Free, Entry
<1>3. \A r \in TableReaders : reader[r] = AtRest
  BY <1>1
<1>4. CacheTypes
  BY <1>1, <1>2 DEF CacheTypes
<1>5. ShardInv
  <2>1. Shard \in Shards
    <3>1. \A what \in Limited : MaxAllowed(what) \in Int
      BY TableCacheAssumption DEF MaxAllowed
    <3>2. Shard.handle \in [Slots -> Entry] /\ Shard.table \in [Files -> Slots \cup {Nil}] /\ Shard.lru \in Seq(Slots)
          /\ Shard.allowed \in [Limited -> Int]
      BY <1>1, <1>2, <3>1
    <3>3. Shard \in [handle : {Shard.handle}, in_cache : {Shard.in_cache}, table : {Shard.table}, lru : {Shard.lru},
                     in_use : {Shard.in_use}, usage : {Shard.usage}, allowed : {Shard.allowed}]
      BY DEF Shard
    <3>4. Shard.in_cache \in SUBSET Slots /\ Shard.in_use \in SUBSET Slots /\ Shard.usage \in Int
      BY <1>1
    <3> QED
      BY <3>2, <3>3, <3>4 DEF Shards
  <2>2. Hold \in Holding /\ \A h \in Slots : Uses(Hold, h) = {}
    BY <1>2, <1>3 DEF Hold, Holding, Uses
  <2>3. RefsOK(Shard, Hold) /\ FreeOK(Shard)
    <3>1. \A h \in Slots : Shard.handle[h] = Free /\ Cardinality(Uses(Hold, h)) = 0 /\ h \notin Shard.in_cache
      BY <1>1, <2>2, FS_EmptySet
    <3> HIDE DEF Shard
    <3> QED
      BY <1>2, <3>1 DEF RefsOK, FreeOK
  <2>4. Entered(Shard) = {}
    BY <1>1 DEF Entered
  <2>5. TableOK(Shard, {}) /\ UsageOK(Shard, {})
    BY <1>1, <2>4, FS_EmptySet DEF TableOK, UsageOK
  <2>6. ListsOK(Shard)
    BY <1>1 DEF ListsOK, ToSet, IsInjective
  <2> QED
    BY <2>1, <2>2, <2>3, <2>5, <2>6 DEF ShardInv, ShardOK
<1>6. ReaderInv
  BY <1>1, <1>2, <1>3 DEF ReaderInv, PlaceOK
<1>7. CapacityInv
  BY <1>1 DEF CapacityInv, Shard
<1>8. PermitInv
  <2> SUFFICES ASSUME NEW what \in Limited
               PROVE  Permits(Shard, what) + Cardinality(Holders(what)) = MaxAllowed(what)
    BY DEF PermitInv
  <2>1. what # "closed" /\ "idle" \notin Taken(what) /\ MaxAllowed(what) \in Nat
    BY TableCacheAssumption DEF Limited, Taken, MaxAllowed
  <2>2. Holders(what) = {}
    BY <1>2, <1>3, <2>1 DEF Holders
  <2>3. {h \in Slots : Shard.handle[h].as = what} = {}
    BY <1>1, <1>2, <2>1
  <2>4. Shard.allowed[what] = MaxAllowed(what)
    BY <1>1
  <2> QED
    BY <2>1, <2>2, <2>3, <2>4, FS_EmptySet DEF Permits
<1>9. FilesInv
  BY <1>1 DEF FilesInv
<1> QED
  BY <1>4, <1>5, <1>6, <1>7, <1>8, <1>9 DEF CacheInv

-------------------------------------------------------------------------------
(* The steps. *)

\* Whether a reader in state x has a permit that is not a table's.
HasPermit(x, what) == x.as = what \/ x.at \in Taken(what)
Permit(x, what) == IF HasPermit(x, what) THEN 1 ELSE 0

\* The holders of permits when one reader moves.
LEMMA HoldersMove ==
  ASSUME CacheTypes, NEW r \in TableReaders, NEW x, reader' = [reader EXCEPT ![r] = x], NEW what
  PROVE  /\ Cardinality(Holders(what)') = Cardinality(Holders(what)) - Permit(reader[r], what) + Permit(x, what)
         /\ Cardinality(Holders(what)) \in Nat
<1> DEFINE H == Holders(what)
           G == H \ {r}
<1>1. H \in SUBSET TableReaders
  BY DEF Holders
<1>2. IsFiniteSet(H) /\ Cardinality(H) \in Nat
  BY <1>1, TableCacheAssumption, FS_Subset, FS_CardinalityType
<1>3. r \in H <=> HasPermit(reader[r], what)
  BY DEF Holders, HasPermit
<1>4. Holders(what)' = IF HasPermit(x, what) THEN G \cup {r} ELSE G
  <2>1. \A q \in TableReaders : reader'[q] = IF q = r THEN x ELSE reader[q]
    BY DEF CacheTypes
  <2>2. \A q \in TableReaders : q \in Holders(what)' <=> HasPermit(IF q = r THEN x ELSE reader[q], what)
    BY <2>1 DEF Holders, HasPermit
  <2>3. \A q \in TableReaders : q \in H <=> HasPermit(reader[q], what)
    BY DEF Holders, HasPermit
  <2>4. Holders(what)' \subseteq TableReaders
    BY DEF Holders
  <2> HIDE DEF H
  <2> QED
    BY <1>1, <2>2, <2>3, <2>4
<1> HIDE DEF H
<1>5. IsFiniteSet(G) /\ Cardinality(G) = Cardinality(H) - Permit(reader[r], what)
  BY <1>2, <1>3, FS_RemoveElement DEF Permit
<1>6. r \notin G
  OBVIOUS
<1> HIDE DEF G
<1>7. Cardinality(G \cup {r}) = Cardinality(G) + 1 /\ Cardinality(G) \in Nat
  BY <1>5, <1>6, FS_AddElement, FS_CardinalityType
<1>8. Cardinality(Holders(what)') = Cardinality(G) + Permit(x, what)
  BY <1>4, <1>7 DEF Permit
<1> QED
  BY <1>2, <1>5, <1>8 DEF H

\* A step of one reader keeps the invariant, if it leaves the shard in order
\* and gives and takes permits as the reader's new state says.
LEMMA MoveKeeps ==
  ASSUME CacheInv, NEW r \in TableReaders, NEW x \in Reading, PlaceOK(x),
         reader' = [reader EXCEPT ![r] = x], UNCHANGED <<capacity, deleted>>,
         x.file \notin deleted,
         x.at = "shrinking" => \A q \in TableReaders \ {r} : reader[q].at # "shrinking",
         NEW t, SetShard(t), ShardOK(t, [Hold EXCEPT ![r] = x.handle], {}),
         \A g \in Slots : t.handle[g].refs > 0 =>
           t.handle[g].file = IF g = x.handle THEN x.file ELSE handle[g].file,
         x.handle # Nil => \A q \in TableReaders : reader[q].handle = x.handle => reader[q].file = x.file,
         \A what \in Limited : Permits(t, what) + Permit(x, what)
                                 = Permits(Shard, what) + Permit(reader[r], what),
         CapacityInv'
  PROVE  CacheInv'
<1>1. /\ CacheTypes /\ ShardInv /\ ReaderInv /\ PermitInv /\ FilesInv
      /\ reader \in [TableReaders -> Reading]
  BY DEF CacheInv, CacheTypes
<1>2. \A q \in TableReaders : reader'[q] = IF q = r THEN x ELSE reader[q]
  BY <1>1
<1>3. CacheTypes'
  BY <1>1 DEF CacheTypes
<1>4. t \in Shards
  BY DEF ShardOK
<1>5. Shard' = t
  BY <1>4 DEF Shards, Shard, SetShard
<1>6. Hold' = [Hold EXCEPT ![r] = x.handle]
  <2>1. Hold' = [q \in TableReaders |-> reader'[q].handle]
    BY DEF Hold
  <2>2. [Hold EXCEPT ![r] = x.handle] = [q \in TableReaders |-> IF q = r THEN x.handle ELSE reader[q].handle]
    BY DEF Hold
  <2>3. \A q \in TableReaders : reader'[q].handle = IF q = r THEN x.handle ELSE reader[q].handle
    BY <1>2
  <2> QED
    BY <2>1, <2>2, <2>3
<1>7. ShardInv'
  BY <1>5, <1>6 DEF ShardInv
<1>8. handle' = t.handle
  BY DEF SetShard
<1>9. \A q \in TableReaders : q # r /\ reader[q].handle # Nil =>
        handle'[reader[q].handle].file = reader[q].file
  <2> TAKE q \in TableReaders
  <2> HAVE q # r /\ reader[q].handle # Nil
  <2> DEFINE g == reader[q].handle
             hold2 == [Hold EXCEPT ![r] = x.handle]
  <2>1. g \in Slots /\ g # Nil
    BY <1>1 DEF Reading
  <2>2. q \in Uses(hold2, g)
    BY DEF Uses, Hold
  <2>3. t.handle[g].refs = Cardinality(Uses(hold2, g)) + (IF g \in t.in_cache THEN 1 ELSE 0)
    BY <2>1 DEF ShardOK, RefsOK
  <2> HIDE DEF hold2
  <2>4. Cardinality(Uses(hold2, g)) # 0 /\ Cardinality(Uses(hold2, g)) \in Nat
    BY <2>2, UsesFinite, FS_EmptySet
  <2>5. t.handle[g].refs > 0
    BY <2>3, <2>4
  <2>6. t.handle[g].file = IF g = x.handle THEN x.file ELSE handle[g].file
    BY <2>1, <2>5
  <2>7. handle[g].file = reader[q].file
    BY <1>1, <2>1 DEF ReaderInv
  <2> QED
    BY <1>8, <2>1, <2>6, <2>7
<1>10. x.handle # Nil => handle'[x.handle].file = x.file
  <2> HAVE x.handle # Nil
  <2> DEFINE g == x.handle
             hold2 == [Hold EXCEPT ![r] = g]
  <2>1. g \in Slots
    BY DEF Reading
  <2>2. r \in Uses(hold2, g)
    BY DEF Uses, Hold
  <2>3. t.handle[g].refs = Cardinality(Uses(hold2, g)) + (IF g \in t.in_cache THEN 1 ELSE 0)
    BY <2>1 DEF ShardOK, RefsOK
  <2> HIDE DEF hold2
  <2>4. Cardinality(Uses(hold2, g)) # 0 /\ Cardinality(Uses(hold2, g)) \in Nat
    BY <2>2, UsesFinite, FS_EmptySet
  <2>5. t.handle[g].refs > 0
    BY <2>3, <2>4
  <2> QED
    BY <1>8, <2>1, <2>5
<1>11. ReaderInv'
  <2>1. deleted' = deleted
    OBVIOUS
  <2>2. \A q \in TableReaders : PlaceOK(reader'[q]) /\ reader'[q].file \notin deleted
    BY <1>1, <1>2 DEF ReaderInv
  <2>3. \A q \in TableReaders : reader'[q].handle # Nil => handle'[reader'[q].handle].file = reader'[q].file
    BY <1>2, <1>9, <1>10
  <2>4. \A q, p \in TableReaders : reader'[q].at = "shrinking" /\ reader'[p].at = "shrinking" => q = p
    BY <1>1, <1>2 DEF ReaderInv
  <2> QED
    BY <2>1, <2>2, <2>3, <2>4 DEF ReaderInv, PlaceOK
<1>12. PermitInv'
  <2> SUFFICES ASSUME NEW what \in Limited
               PROVE  Permits(Shard', what) + Cardinality(Holders(what)') = MaxAllowed(what)
    BY DEF PermitInv, Permits, MaxAllowed
  <2>1. /\ Cardinality(Holders(what)') = Cardinality(Holders(what)) - Permit(reader[r], what) + Permit(x, what)
        /\ Cardinality(Holders(what)) \in Nat
    BY <1>1, HoldersMove
  <2>2. Permits(t, what) + Permit(x, what) = Permits(Shard, what) + Permit(reader[r], what)
    OBVIOUS
  <2>3. Permits(Shard, what) + Cardinality(Holders(what)) = MaxAllowed(what)
    BY <1>1 DEF PermitInv
  <2>4. Permit(x, what) \in Int /\ Permit(reader[r], what) \in Int
    BY DEF Permit
  <2>5. Permits(t, what) \in Int /\ Permits(Shard, what) \in Int
    <3>1. ASSUME NEW s \in Shards PROVE Permits(s, what) \in Int
      <4>1. s.allowed[what] \in Int
        BY DEF Shards
      <4>2. Cardinality({h \in Slots : s.handle[h].as = what}) \in Nat
        BY SlotsFinite, FS_Subset, FS_CardinalityType
      <4> QED
        BY <4>1, <4>2 DEF Permits
    <3>2. Shard \in Shards
      BY <1>1 DEF ShardInv, ShardOK
    <3> QED
      BY <1>4, <3>1, <3>2
  <2> QED
    BY <1>5, <2>1, <2>2, <2>3, <2>4, <2>5
<1>13. FilesInv'
  <2>1. \A g \in Slots : t.handle[g].file \notin deleted
    <3> TAKE g \in Slots
    <3>1. t.handle[g].refs \in Nat
      BY <1>4 DEF Shards, Entry
    <3>2. CASE t.handle[g].refs > 0
      BY <1>1, <3>2 DEF FilesInv
    <3>3. CASE t.handle[g].refs = 0
      <4>1. t.handle[g].file = Nil
        BY <3>3 DEF ShardOK, FreeOK, Free
      <4>2. Nil \notin deleted
        BY <1>1, TableCacheAssumption DEF CacheTypes
      <4> QED
        BY <4>1, <4>2
    <3> QED
      BY <3>1, <3>2, <3>3
  <2> QED
    BY <1>8, <2>1 DEF FilesInv
<1> QED
  BY <1>3, <1>7, <1>11, <1>12, <1>13 DEF CacheInv

\* A step of one reader that touches no handle and no list.
LEMMA PlainKeeps ==
  ASSUME CacheInv, NEW r \in TableReaders, NEW x \in Reading, PlaceOK(x),
         reader' = [reader EXCEPT ![r] = x], UNCHANGED <<capacity, shardVars, deleted>>,
         x.file \notin deleted, x.at # "shrinking",
         x.handle = reader[r].handle, x.handle # Nil => x.file = reader[r].file,
         NEW al \in [Limited -> Int], allowed' = al,
         \A what \in Limited : al[what] + Permit(x, what) = allowed[what] + Permit(reader[r], what),
         CapacityInv'
  PROVE  CacheInv'
<1> DEFINE t == [Shard EXCEPT !.allowed = al]
<1>1. /\ t.handle = handle /\ t.in_cache = in_cache /\ t.table = table /\ t.lru = lru
      /\ t.in_use = in_use /\ t.usage = usage /\ t.allowed = al
  BY DEF Shard
<1>2. SetShard(t)
  BY <1>1 DEF SetShard, shardVars
<1>3. /\ reader \in [TableReaders -> Reading] /\ ShardOK(Shard, Hold, {}) /\ ReaderInv
  BY DEF CacheInv, CacheTypes, ShardInv
<1>4. ShardOK(t, Hold, {})
  BY <1>3, AllowedFree
<1>5. [Hold EXCEPT ![r] = x.handle] = Hold
  BY DEF Hold
<1>6. \A what \in Limited : Permits(t, what) + Permit(x, what) = Permits(Shard, what) + Permit(reader[r], what)
  <2> TAKE what \in Limited
  <2> DEFINE n == Cardinality({h \in Slots : handle[h].as = what})
  <2>1. Permits(t, what) = al[what] + n /\ Permits(Shard, what) = allowed[what] + n
    BY <1>1 DEF Permits, Shard
  <2>2. n \in Nat
    BY SlotsFinite, FS_Subset, FS_CardinalityType
  <2>3. al[what] \in Int /\ allowed[what] \in Int
    BY <1>3 DEF ShardOK, Shards, Shard
  <2>4. Permit(x, what) \in Int /\ Permit(reader[r], what) \in Int
    BY DEF Permit
  <2>5. al[what] + Permit(x, what) = allowed[what] + Permit(reader[r], what)
    OBVIOUS
  <2> HIDE DEF n, t
  <2> QED
    BY <2>1, <2>2, <2>3, <2>4, <2>5
<1>7. \A g \in Slots : t.handle[g].refs > 0 => t.handle[g].file = IF g = x.handle THEN x.file ELSE handle[g].file
  BY <1>1, <1>3, SlotsFinite DEF ReaderInv
<1>8. x.handle # Nil => \A q \in TableReaders : reader[q].handle = x.handle => reader[q].file = x.file
  BY <1>3 DEF ReaderInv
<1> HIDE DEF t
<1> QED
  BY <1>2, <1>4, <1>5, <1>6, <1>7, <1>8, MoveKeeps, ZenonT(60)

\* Facts about an idle or opening reader.
LEMMA NoHandleYet ==
  ASSUME CacheInv, NEW r \in TableReaders, reader[r].at \notin {"shrinking", "using"}
  PROVE  reader[r].handle = Nil /\ Hold[r] = Nil /\ reader[r] \in Reading
  BY DEF CacheInv, CacheTypes, ReaderInv, PlaceOK, Hold

\* The bound on usage is kept by a step that changes none of it.
LEMMA CapacityUnchanged ==
  ASSUME CacheInv, NEW r \in TableReaders, NEW x, reader' = [reader EXCEPT ![r] = x],
         x.at # "shrinking", reader[r].at # "shrinking", UNCHANGED <<capacity, usage>>
  PROVE  CapacityInv'
<1>1. \A q \in TableReaders : reader'[q] = IF q = r THEN x ELSE reader[q]
  BY DEF CacheInv, CacheTypes
<1>2. MutexFree' => MutexFree
  BY <1>1 DEF MutexFree
<1> QED
  BY <1>2 DEF CacheInv, CapacityInv

\* A reader that gets to rest, having opened nothing or given it back.
LEMMA RestKeeps ==
  ASSUME CacheInv, NEW r \in TableReaders, reader' = [reader EXCEPT ![r] = AtRest],
         UNCHANGED <<capacity, shardVars, deleted>>,
         reader[r].at \notin {"shrinking", "using"},
         NEW al \in [Limited -> Int], allowed' = al,
         \A what \in Limited : al[what] = allowed[what] + Permit(reader[r], what)
  PROVE  CacheInv'
<1>1. /\ AtRest \in Reading /\ AtRest.handle = Nil /\ AtRest.file = Nil /\ AtRest.at = "idle"
      /\ AtRest.as = "closed"
  BY DEF AtRest, Reading, Places, Opened
<1>2. PlaceOK(AtRest)
  BY <1>1 DEF PlaceOK
<1>3. AtRest.file \notin deleted
  BY <1>1, TableCacheAssumption DEF CacheInv, CacheTypes
<1>4. \A what \in Limited : al[what] + Permit(AtRest, what) = allowed[what] + Permit(reader[r], what)
  <2> TAKE what \in Limited
  <2>1. Permit(AtRest, what) = 0
    BY <1>1 DEF Permit, HasPermit, Limited, Taken
  <2>2. al[what] \in Int
    OBVIOUS
  <2> QED
    BY <2>1, <2>2
<1>5. CapacityInv'
  BY <1>1, CapacityUnchanged DEF shardVars
<1>6. reader[r].handle = Nil
  BY NoHandleYet
<1> QED
  BY <1>1, <1>2, <1>3, <1>4, <1>5, <1>6, PlainKeeps, ZenonT(60)

\* A reader on its way to open a table.
LEMMA OpeningKeeps ==
  ASSUME CacheInv, NEW r \in TableReaders, NEW x \in Reading,
         reader' = [reader EXCEPT ![r] = x], UNCHANGED <<capacity, shardVars, deleted>>,
         reader[r].at \notin {"shrinking", "using"}, x.at \notin {"idle", "shrinking", "using"},
         x.handle = Nil, x.file \in Files \ deleted, x.as # "closed" => x.at = "opened",
         NEW al \in [Limited -> Int], allowed' = al,
         \A what \in Limited : al[what] + Permit(x, what) = allowed[what] + Permit(reader[r], what)
  PROVE  CacheInv'
<1>1. PlaceOK(x)
  BY DEF PlaceOK
<1>2. CapacityInv'
  BY CapacityUnchanged DEF shardVars
<1>3. reader[r].handle = Nil
  BY NoHandleYet
<1> QED
  BY <1>1, <1>2, <1>3, PlainKeeps, ZenonT(60)

\* A reader that goes on to another step of opening its file.
LEMMA GoesKeeps ==
  ASSUME CacheInv, NEW r \in TableReaders, NEW at \in Places \ {"idle", "shrinking", "using"},
         reader[r].at \notin {"idle", "opened", "shrinking", "using"},
         Goes(r, at), UNCHANGED <<capacity, shardVars, deleted>>,
         NEW al \in [Limited -> Int], allowed' = al,
         \A what \in Limited : al[what] + (IF at \in Taken(what) THEN 1 ELSE 0)
                                 = allowed[what] + (IF reader[r].at \in Taken(what) THEN 1 ELSE 0)
  PROVE  CacheInv'
<1> DEFINE x == [reader[r] EXCEPT !.at = at]
<1>1. /\ reader[r] \in Reading /\ PlaceOK(reader[r]) /\ reader[r].file \notin deleted
  BY DEF CacheInv, CacheTypes, ReaderInv
<1>2. reader' = [reader EXCEPT ![r] = x]
  BY DEF Goes
<1>3. /\ x \in Reading /\ x.at = at /\ x.as = "closed" /\ x.handle = Nil /\ x.file \in Files \ deleted
      /\ reader[r].as = "closed"
  BY <1>1 DEF Reading, PlaceOK
<1> HIDE DEF x
<1>4. \A what \in Limited : /\ Permit(x, what) = IF at \in Taken(what) THEN 1 ELSE 0
                            /\ Permit(reader[r], what) = IF reader[r].at \in Taken(what) THEN 1 ELSE 0
  BY <1>3 DEF Permit, HasPermit, Limited
<1>5. \A what \in Limited : al[what] + Permit(x, what) = allowed[what] + Permit(reader[r], what)
  BY <1>4
<1> QED
  BY <1>2, <1>3, <1>5, OpeningKeeps

\* The steps of opening a file keep the invariant.
LEMMA OpenSteps ==
  ASSUME CacheInv, NEW r \in TableReaders,
         \/ OpenFails(r) \/ AcquireMmap(r) \/ ReturnMmap(r) \/ AcquireFd(r) \/ ReturnFd(r)
         \/ KeepFd(r) \/ Map(r) \/ MapFails(r) \/ TableOpenFails(r)
  PROVE  CacheInv'
<1>1. /\ reader[r] \in Reading /\ PlaceOK(reader[r]) /\ reader[r].file \notin deleted
      /\ allowed \in [Limited -> Int]
  BY DEF CacheInv, CacheTypes, ReaderInv, ShardInv, ShardOK, Shards, Shard
<1>2. /\ "mmap" \in Limited /\ "fd" \in Limited /\ \A what \in Limited : what \in {"mmap", "fd"}
      /\ Taken("mmap") = {"return_mmap", "map"} /\ Taken("fd") = {"return_fd", "keep_fd"}
  BY DEF Limited, Taken
<1>3. reader[r].at # "idle" => reader[r].file \in Files \ deleted
  BY <1>1 DEF PlaceOK
<1>4. reader[r].at \notin {"opened", "shrinking", "using"} => reader[r].as = "closed" /\ reader[r].handle = Nil
  BY <1>1 DEF PlaceOK
<1> DEFINE to(at, as) == [reader[r] EXCEPT !.at = at, !.as = as]
<1>5. ASSUME NEW at \in Places \ {"idle", "shrinking", "using"}, NEW as \in Opened,
             reader[r].at \notin {"idle", "opened", "shrinking", "using"},
             as # "closed" => at = "opened",
             reader' = [reader EXCEPT ![r] = to(at, as)], UNCHANGED <<capacity, shardVars, deleted>>,
             NEW al \in [Limited -> Int], allowed' = al,
             \A what \in Limited :
               al[what] + (IF at \in Taken(what) \/ as = what THEN 1 ELSE 0)
                 = allowed[what] + (IF reader[r].at \in Taken(what) THEN 1 ELSE 0)
      PROVE  CacheInv'
  <2> DEFINE x == to(at, as)
  <2>1. x \in Reading /\ x.at = at /\ x.as = as /\ x.file = reader[r].file /\ x.handle = reader[r].handle
    BY <1>1 DEF Reading
  <2> HIDE DEF x, to
  <2>2. \A what \in Limited : /\ Permit(x, what) = IF at \in Taken(what) \/ as = what THEN 1 ELSE 0
                              /\ Permit(reader[r], what) = IF reader[r].at \in Taken(what) THEN 1 ELSE 0
    BY <1>2, <1>4, <1>5, <2>1 DEF Permit, HasPermit
  <2>3. reader' = [reader EXCEPT ![r] = x]
    BY <1>5 DEF x
  <2> QED
    <3>1. \A what \in Limited : al[what] + Permit(x, what) = allowed[what] + Permit(reader[r], what)
      BY <1>5, <2>2
    <3>2. /\ reader[r].at \notin {"shrinking", "using"} /\ x.at \notin {"idle", "shrinking", "using"}
          /\ x.handle = Nil /\ x.file \in Files \ deleted /\ (x.as # "closed" => x.at = "opened")
      BY <1>3, <1>4, <1>5, <2>1
    <3>3. UNCHANGED <<capacity, shardVars, deleted>> /\ allowed' = al
      BY <1>5
    <3> QED
      BY <2>1, <2>3, <3>1, <3>2, <3>3, OpeningKeeps, ZenonT(60)
<1>7. \A as : Opens(r, as) => reader' = [reader EXCEPT ![r] = to("opened", as)]
  BY DEF Opens
<1> HIDE DEF to
<1>8. CASE OpenFails(r)
  <2>1. /\ reader[r].at = "acquire_mmap" /\ reader' = [reader EXCEPT ![r] = AtRest]
        /\ UNCHANGED <<capacity, shardVars, allowed, deleted>>
    BY <1>8 DEF OpenFails
  <2>2. \A what \in Limited : Permit(reader[r], what) = 0
    BY <1>2, <1>4, <2>1 DEF Permit, HasPermit
  <2>3. \A what \in Limited : allowed[what] = allowed[what] + Permit(reader[r], what)
    BY <1>1, <2>2
  <2> QED
    BY <1>1, <2>1, <2>3, RestKeeps
<1>9. CASE AcquireMmap(r)
  <2> DEFINE at == IF allowed["mmap"] > 0 THEN "map" ELSE "return_mmap"
             al == [allowed EXCEPT !["mmap"] = @ - 1]
  <2>1. /\ reader[r].at = "acquire_mmap" /\ Goes(r, at) /\ allowed' = al
        /\ UNCHANGED <<capacity, shardVars, deleted>>
    BY <1>9 DEF AcquireMmap, Acquire
  <2>2. al \in [Limited -> Int] /\ at \in {"map", "return_mmap"} /\ at \in Places \ {"idle", "shrinking", "using"}
    BY <1>1, <1>2 DEF Places
  <2>3. \A what \in Limited : al[what] + (IF at \in Taken(what) THEN 1 ELSE 0)
                                = allowed[what] + (IF reader[r].at \in Taken(what) THEN 1 ELSE 0)
    BY <1>1, <1>2, <2>1, <2>2
  <2> HIDE DEF at, al
  <2>4. reader[r].at \notin {"idle", "opened", "shrinking", "using"}
    BY <2>1
  <2> QED
    BY <2>1, <2>2, <2>3, <2>4, GoesKeeps
<1>10. CASE AcquireFd(r)
  <2> DEFINE at == IF allowed["fd"] > 0 THEN "keep_fd" ELSE "return_fd"
             al == [allowed EXCEPT !["fd"] = @ - 1]
  <2>1. /\ reader[r].at = "acquire_fd" /\ Goes(r, at) /\ allowed' = al
        /\ UNCHANGED <<capacity, shardVars, deleted>>
    BY <1>10 DEF AcquireFd, Acquire
  <2>2. al \in [Limited -> Int] /\ at \in {"keep_fd", "return_fd"} /\ at \in Places \ {"idle", "shrinking", "using"}
    BY <1>1, <1>2 DEF Places
  <2>3. \A what \in Limited : al[what] + (IF at \in Taken(what) THEN 1 ELSE 0)
                                = allowed[what] + (IF reader[r].at \in Taken(what) THEN 1 ELSE 0)
    BY <1>1, <1>2, <2>1, <2>2
  <2> HIDE DEF at, al
  <2>4. reader[r].at \notin {"idle", "opened", "shrinking", "using"}
    BY <2>1
  <2> QED
    BY <2>1, <2>2, <2>3, <2>4, GoesKeeps
<1>11. CASE ReturnMmap(r)
  <2> DEFINE al == [allowed EXCEPT !["mmap"] = @ + 1]
  <2>1. /\ reader[r].at = "return_mmap" /\ Goes(r, "acquire_fd") /\ allowed' = al
        /\ UNCHANGED <<capacity, shardVars, deleted>>
    BY <1>11 DEF ReturnMmap
  <2>2. al \in [Limited -> Int] /\ "acquire_fd" \in Places \ {"idle", "shrinking", "using"}
    BY <1>1, <1>2 DEF Places
  <2>3. \A what \in Limited : al[what] + (IF "acquire_fd" \in Taken(what) THEN 1 ELSE 0)
                                = allowed[what] + (IF reader[r].at \in Taken(what) THEN 1 ELSE 0)
    BY <1>1, <1>2, <2>1
  <2> HIDE DEF al
  <2>4. reader[r].at \notin {"idle", "opened", "shrinking", "using"}
    BY <2>1
  <2> QED
    BY <2>1, <2>2, <2>3, <2>4, GoesKeeps
<1>12. CASE ReturnFd(r)
  <2> DEFINE al == [allowed EXCEPT !["fd"] = @ + 1]
  <2>1. /\ reader[r].at = "return_fd" /\ Opens(r, "each_read") /\ allowed' = al
        /\ UNCHANGED <<capacity, shardVars, deleted>>
    BY <1>12 DEF ReturnFd
  <2>2. al \in [Limited -> Int] /\ "opened" \in Places \ {"idle", "shrinking", "using"}
    BY <1>1, <1>2 DEF Places
  <2>3. \A what \in Limited : al[what] + (IF "opened" \in Taken(what) \/ "each_read" = what THEN 1 ELSE 0)
                                = allowed[what] + (IF reader[r].at \in Taken(what) THEN 1 ELSE 0)
    BY <1>1, <1>2, <2>1
  <2> HIDE DEF al
  <2> QED
    BY <1>5, <1>7, <2>1, <2>2, <2>3 DEF Opened
<1>13. CASE KeepFd(r)
  <2>1. /\ reader[r].at = "keep_fd" /\ Opens(r, "fd")
        /\ UNCHANGED <<capacity, shardVars, allowed, deleted>>
    BY <1>13 DEF KeepFd
  <2>2. \A what \in Limited : allowed[what] + (IF "opened" \in Taken(what) \/ "fd" = what THEN 1 ELSE 0)
                                = allowed[what] + (IF reader[r].at \in Taken(what) THEN 1 ELSE 0)
    BY <1>1, <1>2, <2>1
  <2> QED
    BY <1>1, <1>5, <1>7, <2>1, <2>2 DEF Opened, Places
<1>14. CASE Map(r)
  <2>1. /\ reader[r].at = "map" /\ Opens(r, "mmap")
        /\ UNCHANGED <<capacity, shardVars, allowed, deleted>>
    BY <1>14 DEF Map
  <2>2. \A what \in Limited : allowed[what] + (IF "opened" \in Taken(what) \/ "mmap" = what THEN 1 ELSE 0)
                                = allowed[what] + (IF reader[r].at \in Taken(what) THEN 1 ELSE 0)
    BY <1>1, <1>2, <2>1
  <2> QED
    BY <1>1, <1>5, <1>7, <2>1, <2>2 DEF Opened, Places
<1>15. CASE MapFails(r)
  <2> DEFINE al == [allowed EXCEPT !["mmap"] = @ + 1]
  <2>1. /\ reader[r].at = "map" /\ reader' = [reader EXCEPT ![r] = AtRest] /\ allowed' = al
        /\ UNCHANGED <<capacity, shardVars, deleted>>
    BY <1>15 DEF MapFails
  <2>2. \A what \in Limited : Permit(reader[r], what) = IF what = "mmap" THEN 1 ELSE 0
    BY <1>2, <1>4, <2>1 DEF Permit, HasPermit
  <2>3. al \in [Limited -> Int] /\ \A what \in Limited : al[what] = allowed[what] + Permit(reader[r], what)
    BY <1>1, <1>2, <2>2
  <2> HIDE DEF al
  <2> QED
    BY <2>1, <2>3, RestKeeps
<1>16. CASE TableOpenFails(r)
  <2> DEFINE al == CloseFile(allowed, reader[r].as)
  <2>1. /\ reader[r].at = "opened" /\ reader' = [reader EXCEPT ![r] = AtRest] /\ allowed' = al
        /\ UNCHANGED <<capacity, shardVars, deleted>>
    BY <1>16 DEF TableOpenFails
  <2>2. \A what \in Limited : Permit(reader[r], what) = IF reader[r].as = what THEN 1 ELSE 0
    BY <1>2, <2>1 DEF Permit, HasPermit
  <2>3. al \in [Limited -> Int] /\ \A what \in Limited : al[what] = allowed[what] + Permit(reader[r], what)
    BY <1>1, <2>2 DEF CloseFile
  <2> HIDE DEF al
  <2> QED
    BY <2>1, <2>3, RestKeeps
<1> QED
  BY <1>8, <1>9, <1>10, <1>11, <1>12, <1>13, <1>14, <1>15, <1>16

\* FindTable keeps the invariant, whether its Lookup hits or not.
LEMMA FindTableKeeps ==
  ASSUME CacheInv, NEW r \in TableReaders, NEW f \in Files, FindTable(r, f)
  PROVE  CacheInv'
<1>1. /\ reader[r].at = "idle" /\ f \notin deleted /\ MutexFree /\ UNCHANGED <<capacity, deleted>>
  BY DEF FindTable
<1>2. /\ ShardOK(Shard, Hold, {}) /\ reader \in [TableReaders -> Reading] /\ ReaderInv
      /\ reader[r] = AtRest /\ AtRest.handle = Nil /\ AtRest.at = "idle" /\ AtRest.as = "closed"
  BY <1>1 DEF CacheInv, CacheTypes, ShardInv, ReaderInv, PlaceOK, AtRest
<1>3. reader[r].handle = Nil /\ Hold[r] = Nil
  BY <1>1, NoHandleYet
<1>4. \A what \in Limited : what \in {"mmap", "fd"} /\ Permit(reader[r], what) = 0
  BY <1>2 DEF Limited, Permit, HasPermit, Taken
<1>5. CASE table[f] # Nil
  <2> DEFINE h == table[f]
             t == Ref(Shard, h)
             x == [AtRest EXCEPT !.at = "using", !.file = f, !.handle = h]
  <2>1. SetShard(t) /\ reader' = [reader EXCEPT ![r] = x]
    BY <1>5 DEF FindTable
  <2>2. h \in in_cache /\ handle[h].file = f /\ h \in Slots
    BY <1>2, <1>5 DEF ShardOK, TableOK, Entered, Shards, Shard
  <2>3. h \in Shard.in_cache
    BY <2>2 DEF Shard
  <2>4. /\ ShardOK(t, [Hold EXCEPT ![r] = h], {}) /\ SameFiles(Shard, t) /\ t.usage = Shard.usage
        /\ \A what \in Limited : Permits(t, what) = Permits(Shard, what)
    BY <1>2, <1>3, <2>3, RefKeeps
  <2>5. /\ x \in Reading /\ x.at = "using" /\ x.file = f /\ x.handle = h /\ x.as = "closed"
    BY <2>2 DEF AtRest, Reading, Places, Opened
  <2>6. h # Nil /\ h \in Slots
    BY <1>5, <2>2
  <2> HIDE DEF x, h, t
  <2>7. PlaceOK(x)
    BY <2>5, <2>6 DEF PlaceOK
  <2>8. \A what \in Limited : Permits(t, what) + Permit(x, what) = Permits(Shard, what) + Permit(reader[r], what)
    <3>1. \A what \in Limited : Permit(x, what) = 0
      BY <1>4, <2>5 DEF Permit, HasPermit, Taken
    <3> QED
      BY <1>4, <2>4, <3>1
  <2>9. \A g \in Slots : t.handle[g].refs > 0 => t.handle[g].file = IF g = x.handle THEN x.file ELSE handle[g].file
    BY <2>2, <2>4, <2>5 DEF SameFiles, Shard
  <2>10. \A q \in TableReaders : reader[q].handle = x.handle => reader[q].file = x.file
    BY <1>2, <2>2, <2>5, <2>6 DEF ReaderInv
  <2>11. CapacityInv'
    <3>1. usage' = usage
      BY <2>1, <2>4 DEF SetShard, Shard
    <3> QED
      BY <1>1, <3>1 DEF CacheInv, CapacityInv
  <2>12. ShardOK(t, [Hold EXCEPT ![r] = x.handle], {})
    BY <2>4, <2>5
  <2>13. x.at # "shrinking" /\ x.file \notin deleted
    BY <1>1, <2>5
  <2> QED
    BY <1>1, <2>1, <2>5, <2>7, <2>8, <2>9, <2>10, <2>11, <2>12, <2>13, MoveKeeps
<1>6. CASE table[f] = Nil
  <2> DEFINE x == [AtRest EXCEPT !.at = "acquire_mmap", !.file = f]
  <2>1. reader' = [reader EXCEPT ![r] = x] /\ UNCHANGED <<shardVars, allowed>>
    BY <1>6 DEF FindTable
  <2>2. /\ x \in Reading /\ x.at = "acquire_mmap" /\ x.file = f /\ x.handle = Nil /\ x.as = "closed"
    BY DEF AtRest, Reading, Places, Opened
  <2> HIDE DEF x
  <2>3. allowed \in [Limited -> Int]
    BY <1>2 DEF ShardOK, Shards, Shard
  <2>4. \A what \in Limited : allowed[what] + Permit(x, what) = allowed[what] + Permit(reader[r], what)
    <3>1. \A what \in Limited : Permit(x, what) = 0
      BY <1>4, <2>2 DEF Permit, HasPermit, Taken
    <3> QED
      BY <1>4, <3>1
  <2>5. x.file \in Files \ deleted /\ reader[r].at \notin {"shrinking", "using"} /\ x.at \notin {"idle", "shrinking", "using"}
    BY <1>1, <2>2
  <2> QED
    BY <1>1, <2>1, <2>2, <2>3, <2>4, <2>5, OpeningKeeps, ZenonT(60)
<1> QED
  BY <1>5, <1>6

\* Insert, up to its loop, keeps the invariant.
LEMMA TableOpenedKeeps ==
  ASSUME CacheInv, NEW r \in TableReaders, TableOpened(r)
  PROVE  CacheInv'
<1> DEFINE h == CHOOSE g \in Slots : handle[g] = Free
           f == reader[r].file
           as == reader[r].as
           t == Insert(Shard, h, f, as)
           x == [reader[r] EXCEPT !.at = "shrinking", !.handle = h, !.as = "closed"]
<1>1. /\ reader[r].at = "opened" /\ MutexFree /\ SetShard(t) /\ reader' = [reader EXCEPT ![r] = x]
      /\ UNCHANGED <<capacity, deleted>>
  BY DEF TableOpened
<1>2. /\ ShardOK(Shard, Hold, {}) /\ reader \in [TableReaders -> Reading] /\ ReaderInv /\ capacity \in Nat
      /\ f \in Files /\ f \notin deleted /\ as \in Opened
  BY <1>1 DEF CacheInv, CacheTypes, ShardInv, ReaderInv, PlaceOK, Reading
<1>3. reader[r].handle = Nil /\ Hold[r] = Nil
  BY <1>1, NoHandleYet
<1>4. h \in Slots /\ Shard.handle[h] = Free /\ Shard.handle = handle
  <2>1. \E g \in Slots : Shard.handle[g] = Free
    BY <1>2, <1>3, FreeSlot
  <2>2. Shard.handle = handle
    BY DEF Shard
  <2> QED
    BY <2>1, <2>2
<1>5. x \in Reading /\ x.at = "shrinking" /\ x.file = f /\ x.handle = h /\ x.as = "closed"
  BY <1>2, <1>4 DEF Reading, Places, Opened
<1> HIDE DEF h, f, as, x
<1>6. Inserts(Shard, t, [Hold EXCEPT ![r] = h], h, f, as)
  <2>1. ShardOK(Shard, Hold, {}) /\ Hold[r] = Nil /\ h \in Slots /\ Shard.handle[h] = Free
    BY <1>2, <1>3, <1>4
  <2>2. f \in Files /\ as \in Opened /\ capacity \in Nat
    BY <1>2
  <2> QED
    BY <2>1, <2>2, InsertKeeps
<1> HIDE DEF t
<1>7. PlaceOK(x)
  BY <1>2, <1>4, <1>5, SlotsFinite DEF PlaceOK
<1>8. \A what \in Limited : Permits(t, what) + Permit(x, what) = Permits(Shard, what) + Permit(reader[r], what)
  <2> TAKE what \in Limited
  <2>1. what \in {"mmap", "fd"}
    BY DEF Limited
  <2>2. Permit(x, what) = 0
    BY <1>5, <2>1 DEF Permit, HasPermit, Taken
  <2>3. Permit(reader[r], what) = IF as = what THEN 1 ELSE 0
    BY <1>1, <2>1 DEF Permit, HasPermit, Taken, as
  <2>4. Permits(Shard, what) \in Int
    <3>1. Cardinality({g \in Slots : Shard.handle[g].as = what}) \in Nat
      BY SlotsFinite, FS_Subset, FS_CardinalityType
    <3>2. Shard.allowed[what] \in Int
      BY <1>2 DEF ShardOK, Shards
    <3> QED
      BY <3>1, <3>2 DEF Permits
  <2>5. Permits(t, what) = Permits(Shard, what) + (IF as = what THEN 1 ELSE 0)
    BY <1>6 DEF Inserts
  <2>6. CASE as = what
    BY <2>2, <2>3, <2>4, <2>5, <2>6
  <2>7. CASE as # what
    BY <2>2, <2>3, <2>4, <2>5, <2>7
  <2> QED
    BY <2>6, <2>7
<1>9. \A q \in TableReaders : reader[q].handle # h
  <2>1. Uses(Hold, h) = {}
    <3>1. Cardinality(Uses(Hold, h)) \in Nat /\ IsFiniteSet(Uses(Hold, h))
      BY UsesFinite
    <3>2. Shard.handle[h].refs = Cardinality(Uses(Hold, h)) + (IF h \in Shard.in_cache THEN 1 ELSE 0)
      BY <1>2, <1>4 DEF ShardOK, RefsOK
    <3>3. Shard.handle[h].refs = 0
      BY <1>4 DEF Free
    <3>4. Cardinality(Uses(Hold, h)) = 0
      BY <3>1, <3>2, <3>3
    <3> QED
      BY <3>1, <3>4, FS_EmptySet
  <2> QED
    BY <2>1 DEF Uses, Hold
<1>10. ~MutexFree'
  <2>1. reader'[r] = x
    BY <1>1, <1>2
  <2> QED
    BY <1>5, <2>1 DEF MutexFree
<1>11. CapacityInv'
  BY <1>10 DEF CapacityInv
<1>12. x.at = "shrinking" => \A q \in TableReaders \ {r} : reader[q].at # "shrinking"
  BY <1>1 DEF MutexFree
<1>13. \A g \in Slots : t.handle[g].refs > 0 => t.handle[g].file = IF g = x.handle THEN x.file ELSE handle[g].file
  BY <1>4, <1>5, <1>6 DEF Inserts
<1>14. x.handle # Nil => \A q \in TableReaders : reader[q].handle = x.handle => reader[q].file = x.file
  BY <1>5, <1>9
<1>15. ShardOK(t, [Hold EXCEPT ![r] = x.handle], {}) /\ x.file \notin deleted
  BY <1>2, <1>5, <1>6 DEF Inserts
<1> QED
  BY <1>1, <1>5, <1>7, <1>8, <1>11, <1>12, <1>13, <1>14, <1>15, MoveKeeps

\* A round of the loop of Insert keeps the invariant.
LEMMA ShrinkKeeps ==
  ASSUME CacheInv, NEW r \in TableReaders, Shrink(r)
  PROVE  CacheInv'
<1> DEFINE old == Head(lru)
           f == handle[old].file
           t == Erase(Shard, f)
           x == reader[r]
<1>1. /\ x.at = "shrinking" /\ lru # <<>> /\ SetShard(t) /\ UNCHANGED <<capacity, reader, deleted>>
  BY DEF Shrink
<1>2. /\ ShardOK(Shard, Hold, {}) /\ reader \in [TableReaders -> Reading] /\ ReaderInv
      /\ x \in Reading /\ PlaceOK(x) /\ x.file \notin deleted
      /\ (x.handle # Nil => handle[x.handle].file = x.file)
  BY DEF CacheInv, CacheTypes, ShardInv, ReaderInv
<1>3. /\ Shard.handle = handle /\ Shard.in_cache = in_cache /\ Shard.lru = lru
  BY DEF Shard
<1>4. old \in in_cache
  <2>1. lru \in Seq(Slots)
    BY <1>2, <1>3 DEF ShardOK, Shards
  <2>2. old \in ToSet(lru)
    BY <1>1, <2>1 DEF ToSet
  <2> QED
    BY <1>2, <1>3, <2>2 DEF ShardOK, ListsOK
<1>5. f \in Files
  BY <1>2, <1>3, <1>4 DEF ShardOK, TableOK
<1> HIDE DEF old, f
<1>6. /\ ShardOK(t, Hold, {}) /\ SameFiles(Shard, t)
      /\ \A what \in Limited : Permits(t, what) = Permits(Shard, what)
  BY <1>2, <1>5, EraseKeeps
<1> HIDE DEF t
<1>7. [reader EXCEPT ![r] = x] = reader /\ [Hold EXCEPT ![r] = x.handle] = Hold
  BY <1>2 DEF Hold
<1>8. CapacityInv'
  <2>1. ~MutexFree'
    BY <1>1 DEF MutexFree
  <2> QED
    BY <2>1 DEF CapacityInv
<1>9. \A q \in TableReaders \ {r} : reader[q].at # "shrinking"
  BY <1>1, <1>2 DEF ReaderInv
<1>10. \A g \in Slots : t.handle[g].refs > 0 => t.handle[g].file = IF g = x.handle THEN x.file ELSE handle[g].file
  BY <1>2, <1>3, <1>6, SlotsFinite DEF SameFiles
<1>11. x.handle # Nil => \A q \in TableReaders : reader[q].handle = x.handle => reader[q].file = x.file
  BY <1>2 DEF ReaderInv
<1>12. reader' = [reader EXCEPT ![r] = x] /\ ShardOK(t, [Hold EXCEPT ![r] = x.handle], {})
  BY <1>1, <1>6, <1>7
<1>13. \A what \in Limited : Permits(t, what) + Permit(x, what) = Permits(Shard, what) + Permit(x, what)
  BY <1>6
<1> HIDE DEF x
<1>14. \A what \in Limited : Permits(t, what) + Permit(x, what) = Permits(Shard, what) + Permit(reader[r], what)
  BY <1>13 DEF x
<1> QED
  BY <1>1, <1>2, <1>8, <1>9, <1>10, <1>11, <1>12, <1>14, MoveKeeps

\* The end of the loop: the cache is within its capacity, or all of it is in use.
LEMMA InsertedKeeps ==
  ASSUME CacheInv, NEW r \in TableReaders, Inserted(r)
  PROVE  CacheInv'
<1> DEFINE x == [reader[r] EXCEPT !.at = "using"]
<1>1. /\ reader[r].at = "shrinking" /\ (usage <= capacity \/ lru = <<>>)
      /\ reader' = [reader EXCEPT ![r] = x] /\ UNCHANGED <<capacity, shardVars, allowed, deleted>>
  BY DEF Inserted, Goes
<1>2. /\ ShardOK(Shard, Hold, {}) /\ reader[r] \in Reading /\ PlaceOK(reader[r]) /\ reader[r].file \notin deleted
  BY DEF CacheInv, CacheTypes, ShardInv, ReaderInv
<1>3. /\ x \in Reading /\ x.at = "using" /\ x.as = reader[r].as /\ x.as = "closed" /\ x.handle = reader[r].handle
      /\ x.file = reader[r].file
  BY <1>1, <1>2 DEF Reading, Places, PlaceOK
<1> HIDE DEF x
<1>4. PlaceOK(x)
  BY <1>1, <1>2, <1>3 DEF PlaceOK
<1>5. allowed \in [Limited -> Int]
  BY <1>2 DEF ShardOK, Shards, Shard
<1>6. \A what \in Limited : allowed[what] + Permit(x, what) = allowed[what] + Permit(reader[r], what)
  <2>1. \A what \in Limited : HasPermit(x, what) <=> HasPermit(reader[r], what)
    BY <1>1, <1>3 DEF HasPermit, Limited, Taken
  <2> QED
    BY <2>1 DEF Permit
<1>7. CapacityInv'
  <2>1. lru = <<>> => usage <= Cardinality(TableReaders)
    <3>1. Shard.lru = lru /\ Shard.usage = usage
      BY DEF Shard
    <3> QED
      BY <1>2, <3>1, AllInUse
  <2> QED
    BY <1>1, <2>1 DEF CapacityInv, shardVars
<1> QED
  BY <1>1, <1>2, <1>3, <1>4, <1>5, <1>6, <1>7, PlainKeeps

\* Release keeps the invariant.
LEMMA ReleaseStep ==
  ASSUME CacheInv, NEW r \in TableReaders, Release(r)
  PROVE  CacheInv'
<1> DEFINE h == reader[r].handle
           t == Unref(Shard, h)
           x == AtRest
<1>1. /\ reader[r].at = "using" /\ MutexFree /\ SetShard(t) /\ reader' = [reader EXCEPT ![r] = x]
      /\ UNCHANGED <<capacity, deleted>>
  BY DEF Release
<1>2. /\ ShardOK(Shard, Hold, {}) /\ reader \in [TableReaders -> Reading] /\ PlaceOK(reader[r])
      /\ deleted \subseteq Files
  BY DEF CacheInv, CacheTypes, ShardInv, ReaderInv
<1>3. h \in Slots /\ Hold[r] = h /\ reader[r].as = "closed"
  BY <1>1, <1>2 DEF PlaceOK, Reading, Hold
<1>4. /\ x \in Reading /\ x.handle = Nil /\ x.file = Nil /\ x.at = "idle" /\ x.as = "closed"
  BY DEF AtRest, Reading, Places, Opened
<1> HIDE DEF h, x
<1>5. /\ ShardOK(t, [Hold EXCEPT ![r] = Nil], {}) /\ SameFiles(Shard, t) /\ t.usage = Shard.usage
      /\ \A what \in Limited : Permits(t, what) = Permits(Shard, what)
  BY <1>2, <1>3, ReleaseKeeps
<1> HIDE DEF t
<1>6. PlaceOK(x)
  BY <1>4 DEF PlaceOK, x
<1>7. CapacityInv'
  <2>1. usage' = usage
    BY <1>1, <1>5 DEF SetShard, Shard
  <2> QED
    BY <1>1, <2>1 DEF CacheInv, CapacityInv
<1>8. \A what \in Limited : Permits(t, what) + Permit(x, what) = Permits(Shard, what) + Permit(reader[r], what)
  <2>1. \A what \in Limited : Permit(x, what) = 0 /\ Permit(reader[r], what) = 0
    BY <1>1, <1>3, <1>4 DEF Permit, HasPermit, Limited, Taken
  <2> QED
    BY <1>5, <2>1
<1>9. \A g \in Slots : t.handle[g].refs > 0 => t.handle[g].file = IF g = x.handle THEN x.file ELSE handle[g].file
  BY <1>4, <1>5, SlotsFinite DEF SameFiles, Shard
<1>10. x.file \notin deleted /\ x.at # "shrinking" /\ ~(x.handle # Nil)
  BY <1>2, <1>4, TableCacheAssumption
<1>11. ShardOK(t, [Hold EXCEPT ![r] = x.handle], {})
  BY <1>4, <1>5
<1> QED
  BY <1>1, <1>4, <1>6, <1>7, <1>8, <1>9, <1>10, <1>11, MoveKeeps

\* Evict keeps the invariant: no reader is at the file.
LEMMA EvictKeeps ==
  ASSUME CacheInv, NEW f \in Files, Evict(f)
  PROVE  CacheInv'
<1> DEFINE t == Erase(Shard, f)
<1>1. /\ f \notin deleted /\ MutexFree /\ (\A r \in TableReaders : reader[r].file # f) /\ SetShard(t)
      /\ deleted' = deleted \cup {f} /\ UNCHANGED <<capacity, reader>>
  BY DEF Evict
<1>2. /\ CacheTypes /\ ShardOK(Shard, Hold, {}) /\ ReaderInv /\ CapacityInv /\ PermitInv /\ FilesInv
  BY DEF CacheInv, ShardInv
<1>3. /\ ShardOK(t, Hold, {}) /\ SameFiles(Shard, t) /\ t.usage <= Shard.usage /\ t.table[f] = Nil
      /\ \A what \in Limited : Permits(t, what) = Permits(Shard, what)
  BY <1>2, EraseKeeps
<1> HIDE DEF t
<1>4. /\ t \in Shards /\ RefsOK(t, Hold) /\ FreeOK(t) /\ TableOK(t, {})
  BY <1>3 DEF ShardOK
<1>5. Shard' = t
  BY <1>1, <1>4 DEF Shards, Shard, SetShard
<1>6. Hold' = Hold
  BY <1>1 DEF Hold
<1>7. ShardInv'
  BY <1>3, <1>5, <1>6 DEF ShardInv
<1>8. CacheTypes'
  BY <1>1, <1>2 DEF CacheTypes
<1>9. handle' = t.handle /\ usage' = t.usage /\ Shard.handle = handle /\ Shard.usage = usage
  BY <1>1 DEF SetShard, Shard
<1>10. ASSUME NEW g \in Slots, t.handle[g].refs > 0 PROVE t.handle[g].file # f
  <2> SUFFICES ASSUME t.handle[g].file = f PROVE FALSE
    OBVIOUS
  <2>1. g \notin t.in_cache
    BY <1>3, <1>4, SlotsFinite DEF TableOK
  <2>2. t.handle[g].refs = Cardinality(Uses(Hold, g)) + 0 /\ Cardinality(Uses(Hold, g)) \in Nat
    BY <1>4, <2>1, UsesFinite DEF RefsOK
  <2>3. Cardinality(Uses(Hold, g)) # 0
    BY <1>10, <2>2
  <2>4. PICK q \in TableReaders : Hold[q] = g
    BY <2>3, FS_EmptySet DEF Uses
  <2>5. reader[q].handle = g /\ g # Nil
    BY <2>4, SlotsFinite DEF Hold
  <2>6. handle[g].file = reader[q].file
    BY <1>2, <2>5 DEF ReaderInv
  <2>7. handle[g].file = f
    BY <1>3, <1>9, <1>10 DEF SameFiles
  <2> QED
    BY <1>1, <2>6, <2>7
<1>11. FilesInv'
  <2>1. \A g \in Slots : t.handle[g].file \notin deleted \cup {f}
    <3> TAKE g \in Slots
    <3>1. t.handle[g].refs \in Nat
      BY <1>4 DEF Shards, Entry
    <3>2. CASE t.handle[g].refs > 0
      BY <1>2, <1>3, <1>9, <1>10, <3>2 DEF SameFiles, FilesInv
    <3>3. CASE t.handle[g].refs = 0
      <4>1. t.handle[g].file = Nil
        BY <1>4, <3>3 DEF FreeOK, Free
      <4>2. Nil \notin deleted \cup {f}
        BY <1>2, TableCacheAssumption DEF CacheTypes
      <4> QED
        BY <4>1, <4>2
    <3> QED
      BY <3>1, <3>2, <3>3
  <2> QED
    BY <1>1, <1>9, <2>1 DEF FilesInv
<1>12. ReaderInv'
  <2>1. ASSUME NEW r \in TableReaders, reader[r].handle # Nil
        PROVE  handle'[reader[r].handle].file = reader[r].file
    <3> DEFINE g == reader[r].handle
    <3>1. g \in Slots /\ handle[g].file = reader[r].file
      BY <1>2, <2>1 DEF CacheTypes, Reading, ReaderInv
    <3>2. r \in Uses(Hold, g)
      BY DEF Uses, Hold
    <3>3. Cardinality(Uses(Hold, g)) # 0 /\ Cardinality(Uses(Hold, g)) \in Nat
      BY <3>2, UsesFinite, FS_EmptySet
    <3>4. t.handle[g].refs > 0
      BY <1>4, <3>1, <3>3 DEF RefsOK
    <3> QED
      BY <1>3, <1>9, <3>1, <3>4 DEF SameFiles
  <2>2. \A r \in TableReaders : PlaceOK(reader[r]) /\ reader[r].file \notin deleted'
    BY <1>1, <1>2 DEF ReaderInv
  <2>3. \A r, q \in TableReaders : reader[r].at = "shrinking" /\ reader[q].at = "shrinking" => r = q
    BY <1>2 DEF ReaderInv
  <2>4. reader' = reader
    BY <1>1
  <2> QED
    BY <2>1, <2>2, <2>3, <2>4 DEF ReaderInv, PlaceOK
<1>13. CapacityInv'
  <2>1. capacity' = capacity /\ capacity \in Int /\ t.usage \in Int /\ Shard.usage \in Int /\ Cardinality(TableReaders) \in Int
    BY <1>1, <1>2, <1>4, SlotsFinite DEF CacheTypes, ShardOK, Shards
  <2>2. usage <= capacity \/ usage <= Cardinality(TableReaders)
    BY <1>1, <1>2 DEF CapacityInv
  <2>3. t.usage <= capacity \/ t.usage <= Cardinality(TableReaders)
    BY <1>3, <1>9, <2>1, <2>2
  <2> QED
    BY <1>9, <2>1, <2>3 DEF CapacityInv
<1>14. PermitInv'
  <2>1. \A what : Holders(what)' = Holders(what)
    BY <1>1 DEF Holders
  <2>2. \A what \in Limited : Permits(Shard', what) + Cardinality(Holders(what)') = MaxAllowed(what)
    BY <1>2, <1>3, <1>5, <2>1 DEF PermitInv
  <2> QED
    BY <2>2 DEF PermitInv, Permits, MaxAllowed
<1> QED
  BY <1>7, <1>8, <1>11, <1>12, <1>13, <1>14 DEF CacheInv

\* A step that leaves the cache and its readers alone, and no file deleted
\* that was not.
LEMMA OthersKeep ==
  ASSUME CacheInv, UNCHANGED <<capacity, shardVars, allowed, reader>>, deleted' \subseteq deleted
  PROVE  CacheInv'
<1>1. UNCHANGED <<handle, in_cache, table, lru, in_use, usage>>
  BY DEF shardVars
<1>2. Shard' = Shard /\ Hold' = Hold /\ (MutexFree' <=> MutexFree) /\ \A what : Holders(what)' = Holders(what)
  BY <1>1 DEF Shard, Hold, MutexFree, Holders
<1>3. ShardInv'
  BY <1>2 DEF CacheInv, ShardInv
<1>4. CacheTypes' /\ CapacityInv' /\ FilesInv'
  BY <1>1, <1>2 DEF CacheInv, CacheTypes, CapacityInv, FilesInv
<1>5. ReaderInv'
  <2>1. ReaderInv
    BY DEF CacheInv
  <2> QED
    BY <1>1, <2>1 DEF ReaderInv, PlaceOK
<1>6. PermitInv'
  <2>1. \A what \in Limited : Permits(Shard', what) + Cardinality(Holders(what)') = MaxAllowed(what)
    BY <1>2 DEF CacheInv, PermitInv
  <2> QED
    BY <2>1 DEF PermitInv, Permits, MaxAllowed
<1> QED
  BY <1>3, <1>4, <1>5, <1>6 DEF CacheInv

\* Every step keeps the invariant.
LEMMA CacheInvNext == CacheInv /\ [CacheNext]_cacheVars => CacheInv'
<1> SUFFICES ASSUME CacheInv, [CacheNext]_cacheVars PROVE CacheInv'
  OBVIOUS
<1>1. ASSUME NEW r \in TableReaders, NEW f \in Files, FindTable(r, f) PROVE CacheInv'
  BY <1>1, FindTableKeeps
<1>2. ASSUME NEW r \in TableReaders,
             \/ OpenFails(r) \/ AcquireMmap(r) \/ ReturnMmap(r) \/ AcquireFd(r) \/ ReturnFd(r)
             \/ KeepFd(r) \/ Map(r) \/ MapFails(r) \/ TableOpenFails(r)
      PROVE  CacheInv'
  BY <1>2, OpenSteps
<1>3. ASSUME NEW r \in TableReaders, TableOpened(r) \/ Shrink(r) \/ Inserted(r) \/ Release(r) PROVE CacheInv'
  BY <1>3, TableOpenedKeeps, ShrinkKeeps, InsertedKeeps, ReleaseStep
<1>4. ASSUME NEW f \in Files, Evict(f) PROVE CacheInv'
  BY <1>4, EvictKeeps
<1>5. ASSUME NEW f \in Files, NewFile(f) PROVE CacheInv'
  BY <1>5, OthersKeep DEF NewFile
<1>6. CASE UNCHANGED cacheVars
  BY <1>6, OthersKeep DEF cacheVars, shardVars
<1> QED
  BY <1>1, <1>2, <1>3, <1>4, <1>5, <1>6 DEF CacheNext

-------------------------------------------------------------------------------
(* The theorems. *)

\* The inductive invariant is an invariant of the cache of open tables.
LEMMA CacheInvariance == CacheSpec => []CacheInv
  BY CacheInvInit, CacheInvNext, PTL DEF CacheSpec

\* LRUCache: a handle has as many references as it has readers, and one more
\* while it is cached; the table, lru_, in_use_ and usage_ agree on what is
\* cached, and usage_ exceeds the capacity only while as many tables are read.
THEOREM CacheReferences == CacheSpec => []ReferencesExact
  BY CacheInvariance, CacheInvImplies, PTL

\* Limiter and TableCache: no path through FindTable, Evict or the deleter of
\* a table loses a permit or gives one back twice, and none leaves a table of
\* a removed file open.
THEOREM CacheLeaksNothing == CacheSpec => []NothingLeaked
  BY CacheInvariance, CacheInvImplies, PTL

===============================================================================
