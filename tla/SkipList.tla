------------------------------- MODULE SkipList -------------------------------
(***************************************************************************)
(* The memtable's skip list (src/cpp/leveldb/db/skiplist.h): one Insert at *)
(* a time, by the writer at the front of the queue, and a reader that      *)
(* follows the links without any lock.  A step is one load or store of a   *)
(* link that the other thread can see.                                     *)
(*                                                                         *)
(* Links are stored with release and loaded with acquire, which for this   *)
(* structure is taken as an interleaving; max_height_ is relaxed, and a    *)
(* load of it gives any of the values it has had.                          *)
(***************************************************************************)
EXTENDS Integers, FiniteSets, FiniteSetsExt

CONSTANTS
  MaxKey,     \* bound: the keys are 1..MaxKey, in their order
  kMaxHeight

ASSUME SkipListAssumption == MaxKey \in Nat /\ kMaxHeight \in Nat \ {0}

ListKeys == 1..MaxKey
Levels   == 0..(kMaxHeight - 1)
HeadNode == 0
Null     == MaxKey + 1   \* "null n is considered infinite"
Unset    == -1           \* a link not yet stored

VARIABLES
  next,       \* the links of every node
  heights,    \* the values max_height_ has had; the last one is the largest
  insert,     \* the Insert that is running
  inserted,   \* the keys whose Insert returned
  read        \* the reader: its search, or what its last one returned

listVars == <<next, heights, insert, inserted, read>>

NoInsert == [key |-> Null, height |-> 0, level |-> 0, linked |-> FALSE]

ListInit ==
  /\ next = [n \in {HeadNode} \cup ListKeys |-> [l \in Levels |-> IF n = HeadNode THEN Null ELSE Unset]]
  /\ heights = {1}
  /\ insert = NoInsert
  /\ inserted = {}
  /\ read = [busy |-> FALSE, forward |-> TRUE, bound |-> 0, node |-> Null, level |-> 0, floor |-> {}]

-------------------------------------------------------------------------------
(* The writer. *)

\* FindGreaterOrEqual's prev: nobody else stores links, so what the writer
\* finds before its first store still holds when it uses it.
PrevAt(key, level) == Max({n \in {HeadNode} \cup ListKeys : n < key /\ next[n][level] # Unset})

\* Insert up to NewNode: the height, and with it max_height_.
StartInsert ==
  /\ insert = NoInsert
  /\ \E key \in ListKeys \ inserted, height \in 1..kMaxHeight :
       /\ insert' = [key |-> key, height |-> height, level |-> 0, linked |-> FALSE]
       /\ heights' = heights \cup {Max(heights \cup {height})}
  /\ UNCHANGED <<next, inserted, read>>

\* Mutant: the node is made reachable first and gets its own link later.
SetOwnLinkLate ==
  /\ insert # NoInsert /\ ~insert.linked
  /\ next' = [next EXCEPT ![PrevAt(insert.key, insert.level)][insert.level] = insert.key]
  /\ insert' = [insert EXCEPT !.linked = TRUE]
  /\ UNCHANGED <<heights, inserted, read>>

\* x->NoBarrier_SetNext(i, prev[i]->NoBarrier_Next(i))
SetOwnLink ==
  /\ insert # NoInsert /\ ~insert.linked
  /\ next' = [next EXCEPT ![insert.key][insert.level] =
                next[PrevAt(insert.key, insert.level)][insert.level]]
  /\ insert' = [insert EXCEPT !.linked = TRUE]
  /\ UNCHANGED <<heights, inserted, read>>

\* prev[i]->SetNext(i, x), and the next level or the end of Insert
Publish ==
  /\ insert # NoInsert /\ insert.linked
  /\ next' = [next EXCEPT ![PrevAt(insert.key, insert.level)][insert.level] = insert.key]
  /\ IF insert.level + 1 < insert.height
     THEN /\ insert' = [insert EXCEPT !.level = @ + 1, !.linked = FALSE]
          /\ UNCHANGED inserted
     ELSE /\ insert' = NoInsert
          /\ inserted' = inserted \cup {insert.key}
  /\ UNCHANGED <<heights, read>>

-------------------------------------------------------------------------------
(* The reader.  A search forward returns the first node at or after bound, *)
(* one backward the last node before it.                                   *)

Begin(forward, bound) ==
  /\ ~read.busy
  /\ \E h \in heights :
       read' = [busy |-> TRUE, forward |-> forward, bound |-> bound,
                node |-> HeadNode, level |-> h - 1, floor |-> inserted]
  /\ UNCHANGED <<next, heights, insert, inserted>>

\* Seek and Contains; Prev; SeekToLast, whose search has no bound
BeginSeek == \E target \in ListKeys : Begin(TRUE, target)
BeginPrev == read.node \in ListKeys /\ Begin(FALSE, read.node)
BeginLast == Begin(FALSE, Null)

\* One round of the loop of FindGreaterOrEqual, FindLessThan or FindLast.
Step ==
  LET n == next[read.node][read.level]
  IN  /\ read.busy
      /\ read' = IF n < read.bound THEN [read EXCEPT !.node = n]
                 ELSE IF read.level > 0 THEN [read EXCEPT !.level = @ - 1]
                 ELSE [read EXCEPT !.busy = FALSE, !.node = IF read.forward THEN n ELSE @]
      /\ UNCHANGED <<next, heights, insert, inserted>>

\* Next and SeekToFirst: one load.
Follow(from) ==
  /\ ~read.busy
  /\ read' = [busy |-> FALSE, forward |-> TRUE, bound |-> from + 1,
              node |-> next[from][0], level |-> 0, floor |-> inserted]
  /\ UNCHANGED <<next, heights, insert, inserted>>

FollowNext == read.node \in ListKeys /\ Follow(read.node)
SeekToFirst == Follow(HeadNode)

ListNext ==
  \/ StartInsert \/ SetOwnLink \/ Publish
  \/ BeginSeek \/ BeginPrev \/ BeginLast \/ Step \/ FollowNext \/ SeekToFirst

ListSpec == ListInit /\ [][ListNext]_listVars

-------------------------------------------------------------------------------
(* Properties. *)

\* A reader beside a running Insert never reads a link that was not stored
\* yet, and when its search returns, it is on the right side of its bound and
\* has passed over no key that was in the list before the search began.
SearchesExact ==
  /\ read.busy => next[read.node][read.level] # Unset
  /\ ~read.busy =>
       IF read.forward
       THEN /\ read.node >= read.bound
            /\ \A k \in read.floor : k >= read.bound => k >= read.node
       ELSE /\ read.node < read.bound
            /\ \A k \in read.floor : k < read.bound => k <= read.node
===============================================================================
