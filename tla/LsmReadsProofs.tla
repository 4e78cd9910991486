--------------------------- MODULE LsmReadsProofs ---------------------------
(***************************************************************************)
(* Reads of LsmStore are exact for every value of the constants, as long   *)
(* as no compaction divides what two files of its output level have of one *)
(* user key; and always, in a database that holds no snapshot.             *)
(*                                                                         *)
(* A Get stops at the first entry it meets, so it needs newer entries of a *)
(* key above older ones (OrderInv); an iterator merges everything, so it   *)
(* needs every entry that some read may see (CompleteInv).  While a        *)
(* compaction runs, MergeInv says why its end will keep both.              *)
(***************************************************************************)
EXTENDS LsmStoreProofs

\* The entries of A are newer than those of B; A and B have no key in common.
Newer(A, B) == \A a \in A, b \in B : a.k = b.k => a.s > b.s
NoSharedKey(A, B) == \A a \in A, b \in B : a.k # b.k

\* The entries of files, and those of a version.
EntriesIn(F) == UNION {f.entries : f \in F}
FileEntries(v) == EntriesIn(UNION {v[l] : l \in Levels})

\* A file that is not in S has newer entries of a key than the files in S.
LeftNewer(files, S) == \A g \in files \ S, h \in S : Newer(g.entries, h.entries)

\* The files of a level above, and those of level 0 with higher numbers, have the
\* newer entries of a key.
LevelOrder(v) ==
  /\ \A l, m \in Levels : l < m => \A f \in v[l], g \in v[m] : Newer(f.entries, g.entries)
  /\ \A f, g \in v[0] : f.number < g.number => Newer(g.entries, f.entries)

\* Newer entries of a key are above older ones.
OrderInv ==
  /\ Newer(mem, imm)
  /\ Newer(mem \cup imm, FileEntries(current))
  /\ LevelOrder(current)

\* The sequence numbers that a read may ask for, and what a merge of everything
\* shows at them.
Seen == {last_sequence} \cup ToSet(snapshots)
CompleteInv == \A s \in Seen, k \in Keys : IteratorGet(mem, imm, current, k, s) = Expected(k, s)

\* The list of snapshots is in the order of their sequence numbers.
SnapshotsInv == \A i, j \in DOMAIN snapshots : i < j => snapshots[i] <= snapshots[j]

\* The files of the current version that the compaction does not merge have newer
\* entries than its inputs, or none of their keys, or are deeper files that the
\* compaction knows of.
Beside(c) ==
  /\ LeftNewer(current[c.level], c.inputs0)
  /\ \A f \in current[c.level + 1] \ c.inputs1 : NoSharedKey(f.entries, InputEntries(c))
  /\ \A l \in Levels : l > c.level + 1 =>
       \A f \in current[l] \ c.version[l] : NoSharedKey(f.entries, InputEntries(c))

\* What the compaction writes is what it keeps of its inputs, as seen from a
\* sequence number that no snapshot is older than.
Kept(c, oldest) == {e \in InputEntries(c) : ~Dropped(c, oldest, e)}
Keeps(c) ==
  \E oldest \in 0..last_sequence :
    /\ \A s \in Seen : oldest <= s
    /\ EntriesIn(c.outputs) \cup InTables(c.todo) = Kept(c, oldest)
MergeInv == compaction # None => Beside(compaction) /\ Keeps(compaction)

ReadInv == OrderInv /\ CompleteInv /\ SnapshotsInv /\ MergeInv

\* Without snapshots every user key of a level below 0 is in one file of it, and a
\* compaction keeps one entry of a key.
Whole(files) == \A f, g \in files : f = g \/ NoSharedKey(f.entries, g.entries)
OneEach(E) == \A d, e \in E : d.k = e.k => d = e
WholeInv ==
  /\ \A l \in Levels \ {0} : Whole(current[l])
  /\ compaction # None => OneEach(EntriesIn(compaction.outputs) \cup InTables(compaction.todo))

-----------------------------------------------------------------------------
(***************************************************************************)
(* What is left behind of a level by the inputs of a compaction.           *)
(***************************************************************************)

\* A loop whose rounds only add files of a finite set, as many rounds as files.
Growing(F, D, grow, body, x, n) ==
  /\ IsFiniteSet(F) /\ n = Cardinality(F) /\ D \subseteq SUBSET F
  /\ \A i \in 1..n : body[i] = grow
  /\ x \in D
  /\ \A S \in D : S # {} /\ S \subseteq grow[S] /\ grow[S] \in D

\* Such a loop ends where another round would add nothing.
LEMMA LoopSettles ==
  ASSUME NEW F, NEW D, NEW grow, NEW body, NEW x, NEW n, Growing(F, D, grow, body, x, n)
  PROVE  Loop(body, x, n) \in D /\ grow[Loop(body, x, n)] = Loop(body, x, n)
<1> USE DEF Growing
<1> DEFINE P == {p \in Nat \X D : grow[p[2]] = p[2] \/ Cardinality(p[2]) >= p[1] + 1}
<1>1. n \in Nat
  BY FS_CardinalityType
<1>2. ASSUME NEW S \in D
      PROVE  /\ IsFiniteSet(S) /\ Cardinality(S) \in Nat /\ Cardinality(S) >= 1
             /\ Cardinality(S) <= n
             /\ grow[S] # S => Cardinality(grow[S]) > Cardinality(S)
  <2>1. S \in SUBSET F /\ grow[S] \in SUBSET F /\ S # {} /\ S \subseteq grow[S]
    OBVIOUS
  <2>2. IsFiniteSet(S) /\ IsFiniteSet(grow[S]) /\ Cardinality(S) <= n
    BY <2>1, FS_Subset
  <2>3. Cardinality(S) \in Nat /\ Cardinality(S) # 0
    BY <2>1, <2>2, FS_CardinalityType, FS_EmptySet
  <2>4. Cardinality(grow[S]) \in Nat
    BY <2>2, FS_CardinalityType
  <2>5. Cardinality(S) <= Cardinality(grow[S]) /\ (Cardinality(grow[S]) = Cardinality(S) => grow[S] = S)
    BY <2>1, <2>2, FS_Subset, S \in SUBSET grow[S], Zenon
  <2> QED  BY <2>2, <2>3, <2>4, <2>5
<1>3. <<0, x>> \in P
  <2>1. Cardinality(x) >= 0 + 1
    BY <1>2
  <2> QED  BY <2>1
<1>4. ASSUME NEW i \in 1..n, NEW y, <<i - 1, y>> \in P
      PROVE  <<i, body[i][y]>> \in P
  <2>1. y \in D /\ body[i][y] = grow[y] /\ grow[y] \in D /\ i \in Nat
    BY <1>1, <1>4
  <2>2. grow[y] = y \/ Cardinality(y) >= (i - 1) + 1
    BY <1>4
  <2>3. CASE grow[y] = y
    BY <2>1, <2>3
  <2>4. CASE grow[y] # y
    <3>1. Cardinality(grow[y]) > Cardinality(y) /\ Cardinality(y) >= i
      BY <1>2, <2>1, <2>2, <2>4
    <3>2. Cardinality(grow[y]) \in Nat /\ Cardinality(y) \in Nat
      BY <1>2, <2>1
    <3>3. Cardinality(grow[y]) >= i + 1
      BY <2>1, <3>1, <3>2
    <3> QED  BY <2>1, <3>3
  <2> QED  BY <2>3, <2>4
<1> DEFINE S == Loop(body, x, n)
<1>5. <<n, S>> \in P
  <2> HIDE DEF P
  <2> QED  BY <1>1, <1>3, <1>4, LoopInduction
<1>6. S \in D
  BY <1>5
<1>7. grow[S] = S
  <2>1. grow[S] = S \/ Cardinality(S) >= n + 1
    BY <1>5
  <2>2. Cardinality(S) \in Nat /\ Cardinality(S) <= n
    BY <1>2, <1>6
  <2> HIDE DEF S
  <2> QED  BY <1>1, <2>1, <2>2
<1> QED  BY <1>6, <1>7

\* The files of a level that overlap the range of S are in S.
HullClosed(files, S) == \A g \in files : Overlaps(g, LowKey(S), HighKey(S)) => g \in S
\* A file between two members is a member.
Convex(files, S) == \A f, h \in S : \A g \in files : Precedes(f, g) /\ Precedes(g, h) => g \in S
\* No user key of S goes on in a later file.
EndsWhole(files, S) ==
  \A f \in S : \A g \in files \ S : Precedes(f, g) => f.largest.k # g.smallest.k

\* In level 0 GetOverlappingInputs goes on until nothing else overlaps what it found.
LEMMA OverlappingSettles ==
  ASSUME NEW v, NEW W, GoodFiles(v[0], W), NEW lo \in Keys, NEW hi \in Keys,
         Touching(v[0], lo, hi) # {}
  PROVE  LET S == GetOverlappingInputs(v, 0, lo, hi)
         IN S # {} /\ S \subseteq v[0] /\ HullClosed(v[0], S)
<1> DEFINE F == v[0]
           n == Cardinality(F)
           widen == [S \in SUBSET F |->
             IF S = {} THEN {} ELSE Touching(F, Min({lo, LowKey(S)}), Max({hi, HighKey(S)}))]
           D == {S \in SUBSET F : S # {}}
           x == Touching(F, lo, hi)
           body == [i \in 1..n |-> widen]
<1>1. GetOverlappingInputs(v, 0, lo, hi) = Loop(body, x, n)
  BY DEF GetOverlappingInputs
<1>2. IsFiniteSet(F) /\ GoodFiles(F, W)
  <2>1. F \in SUBSET Files
    BY DEF GoodFiles
  <2> QED  BY <2>1, FilesFinite, FS_Subset
<1>3. x \in D
  BY TouchingIn
<1>4. lo \in Int /\ hi \in Int
  BY LsmAssumption
<1> HIDE DEF F, n, x
<1>5. ASSUME NEW S \in D
      PROVE  /\ widen[S] \subseteq F
             /\ \A g \in F : Overlaps(g, LowKey(S), HighKey(S)) => g \in widen[S]
  <2> DEFINE a == Min({lo, LowKey(S)})
             b == Max({hi, HighKey(S)})
  <2>1. S \in SUBSET F /\ S # {} /\ widen[S] = Touching(F, a, b)
    OBVIOUS
  <2>2. GoodFiles(S, W)
    BY <1>2, <2>1, GoodSubset
  <2>3. LowKey(S) \in Keys /\ HighKey(S) \in Keys /\ LowKey(S) \in Int /\ HighKey(S) \in Int
    BY <2>1, <2>2, Hull
  <2>4. a \in {lo, LowKey(S)} /\ a <= LowKey(S) /\ b \in {hi, HighKey(S)} /\ HighKey(S) <= b
    BY <2>3, TwoKeys
  <2>5. a \in Int /\ b \in Int
    BY <1>4, <2>3, <2>4
  <2> HIDE DEF a, b
  <2>6. ASSUME NEW g \in F, Overlaps(g, LowKey(S), HighKey(S)) PROVE g \in Touching(F, a, b)
    <3>1. g.smallest.k \in Int /\ g.largest.k \in Int
      BY <1>2, GoodFile
    <3>2. a <= g.largest.k /\ g.smallest.k <= b
      BY <2>3, <2>4, <2>5, <2>6, <3>1 DEF Overlaps
    <3> QED  BY <3>2, TouchingIn
  <2> QED  BY <2>1, <2>6, TouchingIn
<1>6. ASSUME NEW S \in D PROVE S # {} /\ S \subseteq widen[S] /\ widen[S] \in D
  <2>1. S \in SUBSET F /\ S # {} /\ GoodFiles(S, W)
    BY <1>2, GoodSubset
  <2>2. ASSUME NEW g \in S PROVE g \in widen[S]
    <3>1. /\ LowKey(S) \in Int /\ HighKey(S) \in Int /\ g.smallest.k \in Int /\ g.largest.k \in Int
          /\ LowKey(S) <= g.smallest.k /\ g.largest.k <= HighKey(S) /\ g.smallest.k <= g.largest.k
      BY <2>1, Hull, GoodFile
    <3>2. Overlaps(g, LowKey(S), HighKey(S))
      BY <3>1 DEF Overlaps
    <3> QED  BY <1>5, <2>1, <3>2
  <2> QED  BY <1>5, <2>1, <2>2
<1> DEFINE T == Loop(body, x, n)
<1>7. T \in D /\ widen[T] = T
  <2>1. D \in SUBSET SUBSET F
    OBVIOUS
  <2> HIDE DEF D, widen
  <2>2. \A i \in 1..n : body[i] = widen
    OBVIOUS
  <2> HIDE DEF body
  <2>3. n = Cardinality(F)
    BY DEF n
  <2>4. Growing(F, D, widen, body, x, n)
    BY <1>2, <1>3, <1>6, <2>1, <2>2, <2>3 DEF Growing
  <2> QED  BY <2>4, LoopSettles
<1>8. T # {} /\ T \subseteq F /\ HullClosed(F, T)
  <2>1. T \in D
    BY <1>7
  <2> HIDE DEF T
  <2> QED  BY <1>5, <1>7, <2>1 DEF HullClosed
<1> QED  BY <1>1, <1>8 DEF F

\* What AddBoundaryInputs looks for in one round: the files that go on with the
\* last user key of S, and the first of them.
LastOf(S) == CHOOSE f \in S : \A g \in S : ~Before(f.largest, g.largest)
BoundaryOf(files, S) ==
  {f \in files : f.smallest.k = LastOf(S).largest.k /\ Before(LastOf(S).largest, f.smallest)}
FirstBoundary(files, S) ==
  {f \in BoundaryOf(files, S) : \A g \in BoundaryOf(files, S) : ~Before(g.smallest, f.smallest)}

\* A round looks for files that come after all of S.
LEMMA BoundaryRound ==
  ASSUME NEW files, NEW W, GoodFiles(files, W), NEW S \in SUBSET files, S # {}
  PROVE  /\ LastOf(S) \in S /\ \A g \in S : ~Before(LastOf(S).largest, g.largest)
         /\ BoundaryOf(files, S) \cap S = {}
         /\ BoundaryOf(files, S) # {} => FirstBoundary(files, S) # {}
<1>1. GoodFiles(S, W)
  BY GoodSubset
<1>2. LastOf(S) \in S /\ \A g \in S : ~Before(LastOf(S).largest, g.largest)
  <2>1. \E f \in S : \A g \in S : ~Before(f.largest, g.largest)
    BY <1>1, LastFile
  <2> QED  BY <2>1 DEF LastOf
<1>3. ASSUME NEW f \in BoundaryOf(files, S), f \in S PROVE FALSE
  <2> DEFINE last == LastOf(S)
  <2>1. last \in S /\ ~Before(last.largest, f.largest) /\ Before(last.largest, f.smallest)
    BY <1>2, <1>3 DEF BoundaryOf
  <2>2. last.largest \in Entries /\ f.smallest \in Entries /\ f.largest \in Entries
        /\ ~Before(f.largest, f.smallest)
    BY <1>1, <1>3, <2>1, GoodFile
  <2> HIDE DEF last
  <2> QED  BY <2>1, <2>2, BeforeOrder
<1>4. ASSUME BoundaryOf(files, S) # {} PROVE FirstBoundary(files, S) # {}
  <2> DEFINE B == BoundaryOf(files, S)
             E == {f.smallest : f \in B}
  <2>1. B \subseteq files /\ B # {}
    BY <1>4 DEF BoundaryOf
  <2>2. GoodFiles(B, W)
    BY <2>1, GoodSubset
  <2> HIDE DEF B
  <2>3. E \in SUBSET W /\ E # {}
    BY <2>1, <2>2, GoodFile
  <2>4. E \in SUBSET Entries /\ Distinct(E)
    BY <2>2, <2>3 DEF GoodFiles, Distinct
  <2> HIDE DEF E
  <2>5. IsFiniteSet(E) /\ StrictOrder(E, EntryOrder(E))
    BY <2>4, EntriesOrdered
  <2>6. PICK e \in E : \A d \in E : d = e \/ <<e, d>> \in EntryOrder(E)
    BY <2>3, <2>5, FirstAndLast
  <2>7. \A d \in E : ~Before(d, e)
    <3> TAKE d \in E
    <3>1. e \in Entries /\ d \in Entries
      BY <2>4
    <3>2. d = e \/ Before(e, d)
      BY <2>6 DEF EntryOrder
    <3> QED  BY <3>1, <3>2, BeforeOrder
  <2>8. PICK f \in B : f.smallest = e
    BY DEF E
  <2>9. \A g \in B : ~Before(g.smallest, f.smallest)
    BY <2>7, <2>8 DEF E
  <2> QED  BY <2>8, <2>9 DEF B, FirstBoundary
<1> QED  BY <1>2, <1>3, <1>4

\* Where nothing else overlaps the range of the inputs there is no boundary file.
LEMMA BoundaryNone ==
  ASSUME NEW files, NEW W, GoodFiles(files, W), NEW S \in SUBSET files, S # {}, HullClosed(files, S)
  PROVE  AddBoundaryInputs(files, S) = S
<1> DEFINE n == Cardinality(files)
           add == [T \in SUBSET files |-> T \cup FirstBoundary(files, T)]
           body == [i \in 1..n |-> add]
<1>1. n \in Nat
  <2>1. files \in SUBSET Files
    BY DEF GoodFiles
  <2> QED  BY <2>1, FilesFinite, FS_Subset, FS_CardinalityType
<1>2. AddBoundaryInputs(files, S) = Loop(body, S, n)
  BY DEF AddBoundaryInputs, FirstBoundary, BoundaryOf, LastOf
<1>3. BoundaryOf(files, S) = {}
  <2> SUFFICES ASSUME NEW f \in BoundaryOf(files, S) PROVE FALSE
    OBVIOUS
  <2> DEFINE last == LastOf(S)
  <2>1. last \in S /\ f \in files /\ f.smallest.k = last.largest.k /\ f \notin S
    BY BoundaryRound DEF BoundaryOf
  <2> HIDE DEF last
  <2>2. GoodFiles(S, W)
    BY GoodSubset
  <2>3. /\ LowKey(S) \in Int /\ HighKey(S) \in Int /\ last.smallest.k \in Int /\ last.largest.k \in Int
        /\ LowKey(S) <= last.smallest.k /\ last.largest.k <= HighKey(S)
        /\ last.smallest.k <= last.largest.k
    BY <2>1, <2>2, Hull, GoodFile
  <2>4. f.smallest.k \in Int /\ f.largest.k \in Int /\ f.smallest.k <= f.largest.k
    BY <2>1, GoodFile
  <2>5. Overlaps(f, LowKey(S), HighKey(S))
    BY <2>1, <2>3, <2>4 DEF Overlaps
  <2> QED  BY <2>1, <2>5 DEF HullClosed
<1>4. add[S] = S
  BY <1>3 DEF FirstBoundary
<1> HIDE DEF add
<1>5. \A i \in 1..n : \A T \in {S} : body[i][T] \in {S}
  BY <1>4
<1> HIDE DEF body, n
<1>6. Loop(body, S, n) \in {S}
  BY <1>1, <1>5, LoopKeeps
<1> QED  BY <1>2, <1>6

\* Of two files of a level that do not overlap, one that does not follow precedes.
LEMMA FilesApart ==
  ASSUME NEW files, NEW W, GoodFiles(files, W), Disjoint(files),
         NEW f \in files, NEW g \in files, f # g
  PROVE  /\ Precedes(f, g) \/ Precedes(g, f)
         /\ Precedes(f, g) => /\ f.largest.k <= g.smallest.k /\ f.largest.k <= g.largest.k
                              /\ f.smallest.k <= g.smallest.k
                              /\ Before(f.largest, g.largest) /\ ~Precedes(g, f)
<1>1. Precedes(f, g) \/ Precedes(g, f)
  BY DEF Disjoint
<1>2. /\ f.smallest \in Entries /\ f.largest \in Entries /\ g.smallest \in Entries /\ g.largest \in Entries
      /\ ~Before(f.largest, f.smallest) /\ ~Before(g.largest, g.smallest)
      /\ f.smallest.k \in Int /\ f.largest.k \in Int /\ g.smallest.k \in Int /\ g.largest.k \in Int
      /\ f.smallest.k <= f.largest.k /\ g.smallest.k <= g.largest.k
  BY GoodFile
<1>3. ASSUME Precedes(f, g)
      PROVE  /\ f.largest.k <= g.smallest.k /\ Before(f.largest, g.largest) /\ ~Precedes(g, f)
  <2>1. Before(f.largest, g.smallest)
    BY <1>3 DEF Precedes
  <2>2. f.largest.k <= g.smallest.k
    BY <1>2, <2>1 DEF Before
  <2>3. Before(f.largest, g.largest)
    BY <1>2, <2>1, BeforeOrder
  <2>4. ~Before(g.largest, f.smallest)
    BY <1>2, <2>3, BeforeOrder
  <2> QED  BY <2>2, <2>3, <2>4 DEF Precedes
<1>4. ASSUME Precedes(f, g)
      PROVE  f.largest.k <= g.largest.k /\ f.smallest.k <= g.smallest.k
  BY <1>2, <1>3, <1>4
<1> QED  BY <1>1, <1>3, <1>4

\* Below level 0 a round of AddBoundaryInputs adds the next file of the level.
LEMMA BoundaryConvex ==
  ASSUME NEW files, NEW W, GoodFiles(files, W), Disjoint(files),
         NEW S \in SUBSET files, S # {}, Convex(files, S)
  PROVE  Convex(files, S \cup FirstBoundary(files, S))
<1> DEFINE last == LastOf(S)
           B == BoundaryOf(files, S)
           T == S \cup FirstBoundary(files, S)
<1>1. /\ last \in S /\ \A g \in S : ~Before(last.largest, g.largest)
      /\ B \cap S = {} /\ B \subseteq files
      /\ \A b \in B : b.smallest.k = last.largest.k /\ Precedes(last, b)
  BY BoundaryRound DEF BoundaryOf, Precedes
<1>2. T \subseteq files /\ \A h \in T : h \in S \/ (h \in B /\ \A g \in B : ~Before(g.smallest, h.smallest))
  BY <1>1 DEF FirstBoundary
<1>3. \A g \in files : g.smallest.k = last.largest.k /\ Precedes(last, g) => g \in B
  BY DEF BoundaryOf, Precedes
<1> HIDE DEF last, B
<1>4. SUFFICES ASSUME NEW f \in T, NEW h \in T, NEW g \in files, Precedes(f, g), Precedes(g, h), g \notin T
               PROVE  FALSE
  BY DEF Convex
<1>5. g \notin S /\ f # g /\ g # h /\ last # g /\ f \in files /\ h \in files /\ last \in files
  BY <1>1, <1>2, <1>4
<1>6. CASE Precedes(g, last)
  <2>1. ~Precedes(f, g) \/ f \notin S
    BY <1>1, <1>4, <1>5, <1>6 DEF Convex
  <2>2. f \in B /\ Precedes(last, f) /\ last # f
    BY <1>1, <1>2, <1>4, <2>1
  <2>3. ~Precedes(last, g)
    BY <1>5, <1>6, FilesApart
  <2>4. /\ last.largest \in Entries /\ f.smallest \in Entries /\ f.largest \in Entries /\ g.smallest \in Entries
        /\ ~Before(f.largest, f.smallest)
    BY <1>5, GoodFile
  <2>5. Before(last.largest, f.smallest) /\ Before(f.largest, g.smallest)
    BY <1>4, <2>2 DEF Precedes
  <2>6. Before(last.largest, f.largest)
    BY <2>4, <2>5, BeforeOrder
  <2>7. Before(last.largest, g.smallest)
    BY <2>4, <2>5, <2>6, BeforeOrder
  <2> QED  BY <2>3, <2>7 DEF Precedes
<1>7. CASE Precedes(last, g)
  <2>1. CASE h \in S
    <3>1. ~Before(last.largest, h.largest)
      BY <1>1, <2>1
    <3>2. Before(last.largest, g.largest) /\ Before(g.largest, h.largest)
      BY <1>4, <1>5, <1>7, FilesApart
    <3>3. last.largest \in Entries /\ h.largest \in Entries /\ g.largest \in Entries
      BY <1>5, GoodFile
    <3> QED  BY <3>1, <3>2, <3>3, BeforeOrder
  <2>2. CASE h \in B /\ \A b \in B : ~Before(b.smallest, h.smallest)
    <3>1. h.smallest.k = last.largest.k
      BY <1>1, <2>2
    <3>2. last.largest.k <= g.smallest.k /\ g.smallest.k <= h.smallest.k
      BY <1>4, <1>5, <1>7, FilesApart
    <3>3. last.largest.k \in Int /\ g.smallest.k \in Int
      BY <1>5, GoodFile
    <3>4. g.smallest.k = last.largest.k
      BY <3>1, <3>2, <3>3
    <3>5. g \in B
      BY <1>3, <1>7, <3>4
    <3>6. ~Before(g.smallest, h.smallest)
      BY <2>2, <3>5
    <3>7. /\ g.smallest \in Entries /\ g.largest \in Entries /\ h.smallest \in Entries
          /\ ~Before(g.largest, g.smallest) /\ Before(g.largest, h.smallest)
      BY <1>4, <1>5, GoodFile DEF Precedes
    <3> QED  BY <3>6, <3>7, BeforeOrder
  <2> QED  BY <1>2, <1>4, <2>1, <2>2
<1> QED  BY <1>5, <1>6, <1>7, FilesApart

\* A set without boundary files and without gaps divides no key from a later file.
LEMMA BoundaryEnds ==
  ASSUME NEW files, NEW W, GoodFiles(files, W), Disjoint(files),
         NEW S \in SUBSET files, S # {}, Convex(files, S), FirstBoundary(files, S) \subseteq S
  PROVE  EndsWhole(files, S)
<1> DEFINE last == LastOf(S)
<1>1. last \in S /\ \A g \in S : ~Before(last.largest, g.largest)
  BY BoundaryRound
<1>2. BoundaryOf(files, S) = {}
  BY BoundaryRound DEF FirstBoundary
<1>3. SUFFICES ASSUME NEW f \in S, NEW g \in files \ S, Precedes(f, g), f.largest.k = g.smallest.k
               PROVE  FALSE
  BY DEF EndsWhole
<1>4. ~(g.smallest.k = last.largest.k /\ Precedes(last, g))
  BY <1>2 DEF BoundaryOf, Precedes
<1> HIDE DEF last
<1>5. last \in files /\ f \in files /\ g \in files /\ last # g /\ f # g
  BY <1>1
<1>6. ~Precedes(g, last)
  BY <1>1, <1>3 DEF Convex
<1>7. Precedes(last, g)
  BY <1>5, <1>6, FilesApart
<1>8. f.largest.k <= last.largest.k
  <2>1. CASE f = last
    <3>1. f.largest.k \in Int
      BY <1>5, GoodFile
    <3> QED  BY <2>1, <3>1
  <2>2. CASE f # last
    <3>1. ~Before(last.largest, f.largest)
      BY <1>1
    <3>2. Precedes(f, last)
      BY <1>5, <2>2, <3>1, FilesApart
    <3> QED  BY <1>5, <2>2, <3>2, FilesApart
  <2> QED  BY <2>1, <2>2
<1>9. last.largest.k <= g.smallest.k
  BY <1>5, <1>7, FilesApart
<1>10. last.largest.k \in Int /\ f.largest.k \in Int
  BY <1>5, GoodFile
<1>11. g.smallest.k = last.largest.k
  BY <1>3, <1>8, <1>9, <1>10
<1> QED  BY <1>4, <1>7, <1>11

\* When AddBoundaryInputs is done, no user key of the inputs goes on in another file.
LEMMA BoundarySettles ==
  ASSUME NEW files, NEW W, GoodFiles(files, W), Disjoint(files),
         NEW inputs \in SUBSET files, inputs # {}, Convex(files, inputs)
  PROVE  LET added == AddBoundaryInputs(files, inputs)
         IN added # {} /\ added \subseteq files /\ Convex(files, added) /\ EndsWhole(files, added)
<1> DEFINE n == Cardinality(files)
           add == [T \in SUBSET files |-> T \cup FirstBoundary(files, T)]
           body == [i \in 1..n |-> add]
           D == {T \in SUBSET files : T # {} /\ Convex(files, T)}
<1>1. AddBoundaryInputs(files, inputs) = Loop(body, inputs, n)
  BY DEF AddBoundaryInputs, FirstBoundary, BoundaryOf, LastOf
<1>2. IsFiniteSet(files)
  <2>1. files \in SUBSET Files
    BY DEF GoodFiles
  <2> QED  BY <2>1, FilesFinite, FS_Subset
<1>3. ASSUME NEW T \in D PROVE T # {} /\ T \subseteq add[T] /\ add[T] \in D
  <2>1. Convex(files, T \cup FirstBoundary(files, T))
    BY BoundaryConvex
  <2>2. FirstBoundary(files, T) \subseteq files
    BY DEF FirstBoundary, BoundaryOf
  <2> QED  BY <2>1, <2>2
<1>4. inputs \in D /\ D \in SUBSET SUBSET files
  OBVIOUS
<1>5. \A i \in 1..n : body[i] = add
  OBVIOUS
<1>6. \A T \in D : add[T] = T \cup FirstBoundary(files, T)
  OBVIOUS
<1> HIDE DEF body, add, D
<1> DEFINE R == Loop(body, inputs, n)
<1>7. R \in D /\ add[R] = R
  <2>1. n = Cardinality(files)
    OBVIOUS
  <2> HIDE DEF n
  <2>2. Growing(files, D, add, body, inputs, n)
    BY <1>2, <1>3, <1>4, <1>5, <2>1 DEF Growing
  <2> QED  BY <2>2, LoopSettles
<1> HIDE DEF R
<1>8. R # {} /\ R \in SUBSET files /\ Convex(files, R) /\ FirstBoundary(files, R) \subseteq R
  BY <1>6, <1>7 DEF D
<1>9. EndsWhole(files, R)
  BY <1>8, BoundaryEnds
<1> QED  BY <1>1, <1>8, <1>9 DEF R

\* The user keys of a file's entries are between those of its bounds.
LEMMA EntryInFile ==
  ASSUME NEW F, NEW W, GoodFiles(F, W), NEW f \in F, NEW e \in f.entries
  PROVE  /\ e \in W /\ e \in Entries /\ e.k \in Int /\ e.s \in Nat
         /\ f.smallest.k <= e.k /\ e.k <= f.largest.k
         /\ ~Before(e, f.smallest) /\ ~Before(f.largest, e)
<1>1. f.smallest \in Entries /\ f.largest \in Entries /\ e \in W
  BY GoodFile
<1>2. e \in Entries /\ ~Before(e, f.smallest) /\ ~Before(f.largest, e)
  BY <1>1 DEF GoodFiles, FileOK
<1>3. f.smallest.k <= e.k /\ e.k <= f.largest.k
  BY <1>1, <1>2, BeforeOrder
<1> QED  BY <1>1, <1>2, <1>3, EntryFields

\* Files that do not overlap share no user key.
LEMMA NoOverlapNoKey ==
  ASSUME NEW F, NEW W, GoodFiles(F, W), NEW f \in F, NEW g \in F,
         ~Overlaps(g, f.smallest.k, f.largest.k)
  PROVE  NoSharedKey(f.entries, g.entries) /\ NoSharedKey(g.entries, f.entries)
<1> SUFFICES ASSUME NEW a \in f.entries, NEW b \in g.entries, a.k = b.k PROVE FALSE
  BY DEF NoSharedKey
<1>1. f.smallest.k <= a.k /\ a.k <= f.largest.k /\ g.smallest.k <= b.k /\ b.k <= g.largest.k
      /\ a.k \in Int /\ b.k \in Int
  BY EntryInFile
<1>2. f.smallest.k \in Int /\ f.largest.k \in Int /\ g.smallest.k \in Int /\ g.largest.k \in Int
  BY GoodFile
<1> QED  BY <1>1, <1>2 DEF Overlaps

\* Entries of different keys are in any order.
LEMMA DistinctAreNewer ==
  ASSUME NEW A, NEW B, NoSharedKey(A, B)
  PROVE  Newer(A, B)
BY DEF NoSharedKey, Newer

\* What overlaps nothing of S shares no key with it.
LEMMA HullNewer ==
  ASSUME NEW files, NEW W, GoodFiles(files, W), NEW S \in SUBSET files, S # {}, HullClosed(files, S)
  PROVE  LeftNewer(files, S)
<1> SUFFICES ASSUME NEW g \in files \ S, NEW h \in S PROVE Newer(g.entries, h.entries)
  BY DEF LeftNewer
<1>1. GoodFiles(S, W)
  BY GoodSubset
<1>2. /\ LowKey(S) \in Int /\ HighKey(S) \in Int
      /\ LowKey(S) <= h.smallest.k /\ h.largest.k <= HighKey(S)
  BY <1>1, Hull
<1>3. /\ h.smallest.k \in Int /\ h.largest.k \in Int /\ g.smallest.k \in Int /\ g.largest.k \in Int
      /\ h \in files /\ g \in files
  BY GoodFile
<1>4. ~Overlaps(g, LowKey(S), HighKey(S))
  BY DEF HullClosed
<1>5. ~Overlaps(g, h.smallest.k, h.largest.k)
  BY <1>2, <1>3, <1>4 DEF Overlaps
<1> QED  BY <1>3, <1>5, NoOverlapNoKey, DistinctAreNewer

\* The earlier one of two files of a level has the newer entries of a key.
LEMMA PrecedesNewer ==
  ASSUME NEW files, NEW W, GoodFiles(files, W), NEW f \in files, NEW g \in files, Precedes(f, g)
  PROVE  Newer(f.entries, g.entries)
<1> SUFFICES ASSUME NEW a \in f.entries, NEW b \in g.entries, a.k = b.k PROVE a.s > b.s
  BY DEF Newer
<1>1. a \in Entries /\ b \in Entries /\ ~Before(f.largest, a) /\ ~Before(b, g.smallest)
  BY EntryInFile
<1>2. f.largest \in Entries /\ g.smallest \in Entries /\ Before(f.largest, g.smallest)
  BY GoodFile DEF Precedes
<1>3. Before(a, g.smallest)
  BY <1>1, <1>2, BeforeSplit
<1>4. Before(a, b)
  BY <1>1, <1>2, <1>3, BeforeSplit
<1>5. a.k \in Int
  BY <1>1, EntryFields
<1> QED  BY <1>4, <1>5 DEF Before

\* Below level 0, a file left out is before S and newer, or after it and shares no key.
LEMMA EndsNewer ==
  ASSUME NEW files, NEW W, GoodFiles(files, W), Disjoint(files),
         NEW S \in SUBSET files, EndsWhole(files, S)
  PROVE  LeftNewer(files, S)
<1> SUFFICES ASSUME NEW g \in files \ S, NEW h \in S PROVE Newer(g.entries, h.entries)
  BY DEF LeftNewer
<1>1. g \in files /\ h \in files /\ g # h
  OBVIOUS
<1>2. CASE Precedes(g, h)
  BY <1>1, <1>2, PrecedesNewer
<1>3. CASE Precedes(h, g)
  <2>1. h.largest.k # g.smallest.k
    BY <1>3 DEF EndsWhole
  <2>2. h.largest.k <= g.smallest.k
    BY <1>1, <1>3, FilesApart
  <2>3. /\ h.smallest.k \in Int /\ h.largest.k \in Int /\ g.smallest.k \in Int /\ g.largest.k \in Int
    BY <1>1, GoodFile
  <2>4. ~Overlaps(h, g.smallest.k, g.largest.k)
    BY <2>1, <2>2, <2>3 DEF Overlaps
  <2> QED  BY <1>1, <2>4, NoOverlapNoKey, DistinctAreNewer
<1> QED  BY <1>1, <1>2, <1>3, FilesApart

\* Whatever range is asked for, with the boundary files added the inputs of the
\* upper level leave newer entries behind, never older ones.
LEMMA AddedNewer ==
  ASSUME NEW files, NEW W, GoodFiles(files, W), NEW S \in SUBSET files, S # {},
         HullClosed(files, S) \/ (Disjoint(files) /\ Convex(files, S))
  PROVE  LET T == AddBoundaryInputs(files, S)
         IN T # {} /\ T \subseteq files /\ LeftNewer(files, T)
<1> DEFINE T == AddBoundaryInputs(files, S)
<1>1. CASE HullClosed(files, S)
  <2>1. T = S
    BY <1>1, BoundaryNone
  <2>2. LeftNewer(files, S)
    BY <1>1, HullNewer
  <2> QED  BY <2>1, <2>2
<1>2. CASE Disjoint(files) /\ Convex(files, S)
  <2>1. T # {} /\ T \subseteq files /\ EndsWhole(files, T)
    BY <1>2, BoundarySettles
  <2> HIDE DEF T
  <2>2. LeftNewer(files, T)
    BY <1>2, <2>1, EndsNewer
  <2> QED  BY <2>1, <2>2 DEF T
<1> QED  BY <1>1, <1>2

\* The files of a level that overlap a range are next to each other.
LEMMA TouchingConvex ==
  ASSUME NEW files, NEW W, GoodFiles(files, W), Disjoint(files), NEW lo \in Int, NEW hi \in Int
  PROVE  Convex(files, Touching(files, lo, hi))
<1> SUFFICES ASSUME NEW f \in Touching(files, lo, hi), NEW h \in Touching(files, lo, hi),
                    NEW g \in files, Precedes(f, g), Precedes(g, h)
             PROVE  g \in Touching(files, lo, hi)
  BY DEF Convex
<1>1. f \in files /\ h \in files /\ lo <= f.largest.k /\ h.smallest.k <= hi
  BY TouchingIn
<1>2. CASE f = g \/ g = h
  BY <1>2
<1>3. CASE f # g /\ g # h
  <2>1. f.largest.k <= g.largest.k /\ g.smallest.k <= h.smallest.k
    BY <1>1, <1>3, FilesApart
  <2>2. f.largest.k \in Int /\ g.largest.k \in Int /\ g.smallest.k \in Int /\ h.smallest.k \in Int
    BY <1>1, GoodFile
  <2>3. lo <= g.largest.k /\ g.smallest.k <= hi
    BY <1>1, <2>1, <2>2
  <2> QED  BY <2>3, TouchingIn
<1> QED  BY <1>2, <1>3

\* A set of files of a level that AddBoundaryInputs can complete.
Completable(files, S) ==
  S # {} /\ S \subseteq files /\ (HullClosed(files, S) \/ (Disjoint(files) /\ Convex(files, S)))

\* GetOverlappingInputs returns such a set.
LEMMA OverlappingCompletable ==
  ASSUME NEW v, NEW level, NEW W, GoodFiles(v[level], W), level # 0 => Disjoint(v[level]),
         NEW lo \in Keys, NEW hi \in Keys, Touching(v[level], lo, hi) # {}
  PROVE  Completable(v[level], GetOverlappingInputs(v, level, lo, hi))
<1>1. CASE level = 0
  <2> DEFINE S == GetOverlappingInputs(v, 0, lo, hi)
  <2>1. S # {} /\ S \subseteq v[0] /\ HullClosed(v[0], S)
    BY <1>1, OverlappingSettles
  <2> HIDE DEF S
  <2>2. Completable(v[0], S)
    BY <2>1 DEF Completable
  <2> QED  BY <1>1, <2>2 DEF S
<1>2. CASE level # 0
  <2>1. lo \in Int /\ hi \in Int
    BY LsmAssumption
  <2> DEFINE S == Touching(v[level], lo, hi)
  <2>2. Convex(v[level], S) /\ S \subseteq v[level]
    BY <1>2, <2>1, TouchingConvex, TouchingIn
  <2>3. Completable(v[level], S)
    <3> HIDE DEF S
    <3> QED  BY <1>2, <2>2 DEF Completable, S
  <2> QED  BY <1>2, <2>3, OverlappingBelow
<1> QED  BY <1>1, <1>2

\* SetupOtherInputs leaves newer entries behind, whether it takes more inputs or not.
LEMMA SetupNewer ==
  ASSUME NEW level \in 0..(kNumLevels - 2), NEW picked, NEW W,
         GoodFiles(current[level], W), GoodFiles(current[level + 1], W),
         level # 0 => Disjoint(current[level]), Completable(current[level], picked)
  PROVE  LeftNewer(current[level], SetupOtherInputs(level, picked).inputs0)
<1> DEFINE F == current[level]
           G == current[level + 1]
           below(S) == GetOverlappingInputs(current, level + 1, LowKey(S), HighKey(S))
           in0 == AddBoundaryInputs(current[level], picked)
           in1 == below(in0)
           a == LowKey(in0 \cup in1)
           b == HighKey(in0 \cup in1)
           found == GetOverlappingInputs(current, level, a, b)
           wide0 == AddBoundaryInputs(current[level], found)
<1>1. level \in Nat /\ level + 1 # 0
  OBVIOUS
<1>2. in1 \subseteq G
  BY <1>1, OverlappingBelow, TouchingIn
<1>3. SetupOtherInputs(level, picked).inputs0 \in {in0, wide0}
  BY DEF SetupOtherInputs
<1> HIDE DEF F, G
<1>4. GoodFiles(F, W) /\ GoodFiles(G, W) /\ F = current[level] /\ (level # 0 => Disjoint(F))
  BY DEF F, G
<1>5. in0 # {} /\ in0 \subseteq F /\ LeftNewer(F, in0)
  BY <1>4, AddedNewer DEF Completable
<1> HIDE DEF in0, in1
<1>6. a \in Keys /\ b \in Keys /\ Touching(F, a, b) # {}
  <2> DEFINE R == in0 \cup in1
  <2>1. GoodFiles(R, W) /\ R # {}
    <3>1. GoodFiles(in0, W) /\ GoodFiles(in1, W)
      BY <1>2, <1>4, <1>5, GoodSubset
    <3> QED  BY <1>5, <3>1, GoodUnion
  <2>2. PICK f \in in0 : f \in R
    BY <1>5
  <2>3. a = LowKey(R) /\ b = HighKey(R)
    OBVIOUS
  <2> HIDE DEF R, a, b
  <2>4. /\ a \in Keys /\ b \in Keys /\ a \in Int /\ b \in Int
        /\ a <= f.smallest.k /\ f.largest.k <= b
    BY <2>1, <2>2, <2>3, Hull
  <2>5. f.smallest.k \in Int /\ f.largest.k \in Int /\ f.smallest.k <= f.largest.k
    BY <2>1, <2>2, GoodFile
  <2>6. a <= f.largest.k /\ f.smallest.k <= b
    BY <2>4, <2>5
  <2> QED  BY <1>5, <2>4, <2>6, TouchingIn
<1> HIDE DEF a, b
<1>7. Completable(F, found)
  BY <1>4, <1>6, OverlappingCompletable
<1> HIDE DEF found
<1>8. LeftNewer(F, wide0)
  BY <1>4, <1>7, AddedNewer DEF Completable
<1> HIDE DEF wide0
<1> QED  BY <1>3, <1>4, <1>5, <1>8

\* The upper level's files that a compaction leaves alone have newer entries.
LEMMA PickedNewer ==
  ASSUME LsmInv, NeedsCompaction
  PROVE  LET c == PickCompaction IN LeftNewer(current[c.level], c.inputs0)
<1> DEFINE level == IF size_compaction THEN compaction_level(current) ELSE file_to_compact.level
           f == IF size_compaction THEN NextFileOf(level) ELSE file_to_compact.file
           picked == IF level = 0 THEN GetOverlappingInputs(current, 0, f.smallest.k, f.largest.k)
                     ELSE {f}
<1>1. PickCompaction = SetupOtherInputs(level, picked)
  BY DEF PickCompaction
<1>g. /\ current \in Versions
      /\ \A l \in Levels : GoodFiles(current[l], written) /\ OneNumberEach(current[l])
                             /\ (l # 0 => Disjoint(current[l]))
  BY CurrentGood DEF LsmInv
<1>2. level \in 0..(kNumLevels - 2) /\ f \in current[level]
  <2>1. CASE size_compaction
    <3>1. level \in 0..(kNumLevels - 2) /\ current[level] # {}
      BY <2>1, CompactionLevel, TooLarge
    <3>2. f = NextFileOf(level)
      BY <2>1
    <3> HIDE DEF level, f
    <3>3. level \in Levels
      BY <3>1, LsmAssumption DEF Levels
    <3> QED  BY <1>g, <3>1, <3>2, <3>3, NextFileIn
  <2>2. CASE ~size_compaction
    <3>1. file_to_compact # None
      BY <2>2 DEF NeedsCompaction
    <3>2. file_to_compact \in SeekCharges /\ file_to_compact.file \in current[file_to_compact.level]
      BY <3>1 DEF LsmInv, TypeOK
    <3>3. file_to_compact.level \in 0..(kNumLevels - 2)
      BY <3>2 DEF SeekCharges
    <3> QED  BY <2>2, <3>2, <3>3
  <2> QED  BY <2>1, <2>2
<1>3. picked = IF level = 0 THEN GetOverlappingInputs(current, 0, f.smallest.k, f.largest.k) ELSE {f}
  OBVIOUS
<1>4. SetupOtherInputs(level, picked).level = level
  BY DEF SetupOtherInputs
<1> HIDE DEF level, f, picked
<1>5. level \in Levels /\ level + 1 \in Levels
  BY <1>2, LevelFacts
<1>6. Completable(current[level], picked)
  <2>1. f.smallest.k \in Keys /\ f.largest.k \in Keys /\ f.smallest.k \in Int /\ f.largest.k \in Int
        /\ f.smallest.k <= f.largest.k
    BY <1>2, <1>5, <1>g, GoodFile
  <2>2. CASE level = 0
    <3> DEFINE lo == f.smallest.k
               hi == f.largest.k
    <3>1. Touching(current[level], lo, hi) # {}
      BY <1>2, <2>1, TouchingIn
    <3> HIDE DEF lo, hi
    <3>2. lo \in Keys /\ hi \in Keys /\ picked = GetOverlappingInputs(current, level, lo, hi)
      BY <1>3, <2>1, <2>2 DEF lo, hi
    <3> QED  BY <1>5, <1>g, <3>1, <3>2, OverlappingCompletable
  <2>3. CASE level # 0
    <3>1. picked = {f} /\ Disjoint(current[level]) /\ GoodFiles(current[level], written)
      BY <1>3, <1>5, <1>g, <2>3
    <3>2. Convex(current[level], {f})
      <4> SUFFICES ASSUME NEW g \in current[level], Precedes(f, g), Precedes(g, f) PROVE g \in {f}
        BY DEF Convex
      <4> QED  BY <1>2, <3>1, FilesApart
    <3> QED  BY <1>2, <3>1, <3>2 DEF Completable
  <2> QED  BY <2>2, <2>3
<1>7. LeftNewer(current[level], SetupOtherInputs(level, picked).inputs0)
  BY <1>2, <1>5, <1>6, <1>g, SetupNewer
<1> QED  BY <1>1, <1>4, <1>7

-----------------------------------------------------------------------------
(***************************************************************************)
(* Lookups.                                                                *)
(***************************************************************************)

\* e is the newest entry of k in S that is visible at s.
Newest(S, k, s, e) ==
  e \in S /\ e.k = k /\ e.s <= s /\ \A d \in S : d.k = k /\ d.s <= s => d.s <= e.s
\* S has no entry of k that is visible at s.
Nothing(S, k, s) == \A e \in S : ~(e.k = k /\ e.s <= s)

\* If an entry is visible, one is the newest.
LEMMA NewestExists ==
  ASSUME NEW S \in SUBSET Entries, NEW k, NEW s \in Int, ~Nothing(S, k, s)
  PROVE  \E e : Newest(S, k, s, e)
<1> DEFINE V == {e \in S : e.k = k /\ e.s <= s}
           N == {MaxWrites - e.s : e \in V}
<1>1. PICK e0 \in V : TRUE
  BY DEF Nothing
<1>2. \A e \in V : e \in S /\ e.s \in 1..MaxWrites /\ e.s \in Int
  BY EntryFields
<1>3. MaxWrites \in Nat
  BY LsmAssumption
<1>4. N \in SUBSET Nat /\ MaxWrites - e0.s \in N
  BY <1>1, <1>2, <1>3
<1>5. PICK x \in N : \A y \in N : x <= y
  BY <1>4, LeastNumber
<1>6. PICK e \in V : x = MaxWrites - e.s
  OBVIOUS
<1>7. ASSUME NEW d \in V PROVE d.s <= e.s
  <2>1. MaxWrites - e.s <= MaxWrites - d.s
    BY <1>5, <1>6
  <2> QED  BY <1>2, <1>3, <2>1
<1> QED  BY <1>6, <1>7 DEF Newest

\* Lookup returns the newest visible entry, which is no other than this one.
LEMMA LookupNewest ==
  ASSUME NEW S \in SUBSET Entries, Distinct(S), NEW k, NEW s, NEW e, Newest(S, k, s, e)
  PROVE  Lookup(S, k, s) = e /\ Lookup(S, k, s) # None /\ e \in Entries
<1> DEFINE V == {d \in S : d.k = k /\ d.s <= s}
           x == CHOOSE d \in V : \A c \in V : c.s <= d.s
<1>1. e \in V /\ \A c \in V : c.s <= e.s
  BY DEF Newest
<1>2. x \in V /\ \A c \in V : c.s <= x.s
  BY <1>1
<1>3. Lookup(S, k, s) = x
  BY <1>1 DEF Lookup
<1> HIDE DEF x
<1>4. x \in S /\ e \in S /\ x.s <= e.s /\ e.s <= x.s
  BY <1>1, <1>2
<1>5. x.s \in Nat /\ e.s \in Nat
  BY <1>4, EntryFields
<1>6. x.s = e.s
  BY <1>4, <1>5
<1>7. x = e
  BY <1>4, <1>6 DEF Distinct
<1> QED  BY <1>3, <1>4, <1>7, NoneAssumption

\* Lookup returns None if nothing is visible.
LEMMA LookupNothing ==
  ASSUME NEW S, NEW k, NEW s, Nothing(S, k, s)
  PROVE  Lookup(S, k, s) = None
<1>1. {d \in S : d.k = k /\ d.s <= s} = {}
  BY DEF Nothing
<1> QED  BY <1>1 DEF Lookup

\* What Lookup returns.
LEMMA LookupCases ==
  ASSUME NEW S \in SUBSET Entries, Distinct(S), NEW k, NEW s \in Int
  PROVE  \/ Nothing(S, k, s) /\ Lookup(S, k, s) = None
         \/ Newest(S, k, s, Lookup(S, k, s)) /\ Lookup(S, k, s) # None /\ Lookup(S, k, s) \in Entries
<1>1. CASE Nothing(S, k, s)
  BY <1>1, LookupNothing
<1>2. CASE ~Nothing(S, k, s)
  <2>1. PICK e : Newest(S, k, s, e)
    BY <1>2, NewestExists
  <2> QED  BY <2>1, LookupNewest
<1> QED  BY <1>1, <1>2

\* In each level the search looks at a file with the newest visible entry.
LevelFinds(v, l, k, s) ==
  \A f \in v[l] : \A d \in f.entries : d.k = k /\ d.s <= s =>
    \E g \in FilesFor(v, l, k, s) : \E e \in g.entries : e.k = k /\ e.s <= s /\ d.s <= e.s

\* The one file that the binary search finds, or the files of level 0, suffice.
LEMMA LevelSearch ==
  ASSUME NEW v, NEW l, NEW W, GoodFiles(v[l], W), OneNumberEach(v[l]), l # 0 => Disjoint(v[l]),
         NEW k \in Int, NEW s \in Int
  PROVE  LevelFinds(v, l, k, s)
<1> SUFFICES ASSUME NEW f \in v[l], NEW d \in f.entries, d.k = k, d.s <= s
             PROVE  \E g \in FilesFor(v, l, k, s) : \E e \in g.entries : e.k = k /\ e.s <= s /\ d.s <= e.s
  BY DEF LevelFinds
<1>1. /\ d \in Entries /\ d.s \in Nat /\ f.smallest.k <= k /\ k <= f.largest.k
      /\ ~Before(d, f.smallest) /\ ~Before(f.largest, d)
  BY EntryInFile
<1>2. CASE l = 0
  <2>1. f \in Touching(v[0], k, k)
    BY <1>1, <1>2, TouchingIn
  <2>2. f \in FilesFor(v, l, k, s)
    BY <1>2, <2>1 DEF FilesFor
  <2> QED  BY <1>1, <2>2
<1>3. CASE l # 0
  <2> DEFINE F == v[l]
             q == InOrder(F)
             ikey == [k |-> k, s |-> s]
             m == FindFile(q, ikey)
  <2>1. FilesFor(v, l, k, s) = {g \in F : m < Len(q) /\ g = q[m + 1] /\ g.smallest.k <= k}
    BY <1>3 DEF FilesFor
  <2>2. ikey.k = k /\ ikey.s = s
    OBVIOUS
  <2> HIDE DEF ikey, F
  <2>3. GoodFiles(F, W) /\ OneNumberEach(F) /\ Disjoint(F) /\ f \in F
    BY <1>3 DEF F
  <2>4. m \in 0..Len(q) /\ \A j \in 1..Len(q) : j <= m <=> Before(q[j].largest, ikey)
    BY <2>2, <2>3, FindFileFinds
  <2>5. /\ Len(q) \in Nat /\ \A i \in 1..Len(q) : q[i] \in F
        /\ \E i \in 1..Len(q) : q[i] = f
    BY <2>3, LevelOrdered
  <2>6. \A i, j \in 1..Len(q) : i < j => Precedes(q[i], q[j])
    BY <2>3, FilesFollow
  <2> HIDE DEF q, m
  <2>7. PICK i \in 1..Len(q) : q[i] = f
    BY <2>5
  <2>8. f.largest \in Entries /\ f.smallest \in Entries
    BY <2>3, GoodFile
  <2>9. ~Before(f.largest, ikey)
    <3>1. f.largest.k \in Int /\ f.largest.s \in Nat
      BY <2>8, EntryFields
    <3>2. ~(f.largest.k = k /\ f.largest.s > d.s)
      BY <1>1 DEF Before
    <3> QED  BY <1>1, <2>2, <3>1, <3>2 DEF Before
  <2>10. ~(i <= m)
    BY <2>4, <2>7, <2>9
  <2>11. m + 1 \in 1..Len(q) /\ m + 1 <= i /\ m < Len(q) /\ ~(m + 1 <= m) /\ m \in Nat
    BY <2>4, <2>5, <2>10
  <2> DEFINE g == q[m + 1]
  <2>12. g \in F /\ ~Before(g.largest, ikey)
    BY <2>4, <2>5, <2>11
  <2>13. CASE m + 1 = i
    <3>1. f \in FilesFor(v, l, k, s)
      BY <1>1, <2>1, <2>3, <2>7, <2>11, <2>13
    <3> QED  BY <1>1, <3>1
  <2>14. CASE m + 1 # i
    <3>1. Precedes(g, f)
      <4>1. m + 1 < i
        BY <2>11, <2>14
      <4> QED  BY <2>6, <2>7, <2>11, <4>1
    <3>2. FilesFor(v, l, k, s) = {h \in F : h = g /\ h.smallest.k <= k}
      BY <2>1, <2>11
    <3> HIDE DEF g
    <3>3. g.largest \in Entries /\ g.largest \in g.entries /\ g.smallest.k \in Int
          /\ g.smallest.k <= g.largest.k
      BY <2>3, <2>12, GoodFile DEF GoodFiles, FileOK
    <3>4. Before(g.largest, d)
      <4>1. Before(g.largest, f.smallest)
        BY <3>1 DEF Precedes
      <4> QED  BY <1>1, <2>8, <3>3, <4>1, BeforeSplit
    <3>5. g.largest.k \in Int /\ g.largest.s \in Nat
      BY <3>3, EntryFields
    <3>6. g.largest.k = k /\ g.largest.s <= s /\ d.s <= g.largest.s
      BY <1>1, <2>2, <2>12, <3>4, <3>5 DEF Before
    <3>7. g \in FilesFor(v, l, k, s)
      BY <2>12, <3>2, <3>3, <3>6
    <3> QED  BY <3>3, <3>6, <3>7
  <2> QED  BY <2>13, <2>14
<1> QED  BY <1>2, <1>3

\* So the first file with an answer has the newest entry.
LEMMA VersionGetNewest ==
  ASSUME TypeOK, EntriesInv, VersionInv, LevelsDisjoint, LevelOrder(current), NEW k \in Keys, NEW s \in Int
  PROVE  \/ Nothing(FileEntries(current), k, s) /\ VersionGet(current, k, s) = None
         \/ Newest(FileEntries(current), k, s, VersionGet(current, k, s))
<1> DEFINE q == ForEachOverlapping(current, k, s)
           hits == Hits(q, k, s)
           A == FileEntries(current)
<1>1. /\ written \subseteq Entries /\ Distinct(written) /\ current \in Versions
      /\ \A l \in Levels : GoodFiles(current[l], written) /\ OneNumberEach(current[l])
                             /\ (l # 0 => Disjoint(current[l]))
  BY CurrentGood
<1>2. k \in Int
  BY LsmAssumption
<1>3. /\ Len(q) \in Nat /\ DOMAIN q = 1..Len(q)
      /\ \A i \in 1..Len(q) : /\ q[i].level \in Levels
                              /\ q[i].file \in FilesFor(current, q[i].level, k, s)
                              /\ q[i] = [level |-> q[i].level, file |-> q[i].file]
      /\ \A l \in Levels : \A f \in FilesFor(current, l, k, s) :
           \E i \in 1..Len(q) : q[i].level = l /\ q[i].file = f
      /\ \A i, j \in 1..Len(q) : i < j <=> NewestFirst(q[i], q[j])
  BY SearchSorted
<1>4. VersionGet(current, k, s) = IF hits = {} THEN None ELSE Lookup(q[Min(hits)].file.entries, k, s)
  BY DEF VersionGet
<1>5. \A i : i \in hits <=> i \in 1..Len(q) /\ Lookup(q[i].file.entries, k, s) # None
  BY <1>3 DEF Hits
<1>6. \A d : d \in A <=> \E l \in Levels : \E f \in current[l] : d \in f.entries
  BY DEF FileEntries, EntriesIn
<1> HIDE DEF q, hits, A
<1>7. ASSUME NEW i \in 1..Len(q)
      PROVE  /\ q[i].level \in Levels /\ q[i].level \in Nat /\ q[i].file \in current[q[i].level]
             /\ q[i].file.number \in Nat
             /\ q[i].file.entries \in SUBSET Entries /\ Distinct(q[i].file.entries)
  <2>1. q[i].level \in Levels /\ q[i].file \in current[q[i].level]
    BY <1>3, OneFileEach
  <2>2. q[i].file.entries \subseteq written /\ q[i].file.number \in Nat
    BY <1>1, <2>1, GoodFile
  <2> QED  BY <1>1, <2>1, <2>2, LevelFacts DEF Distinct
\* A visible entry of a level is reached by a hit of that level.
<1>8. ASSUME NEW l \in Levels, NEW f \in current[l], NEW d \in f.entries, d.k = k, d.s <= s
      PROVE  \E j \in hits : /\ q[j].level = l /\ (l = 0 => q[j].file = f)
                             /\ \E e \in q[j].file.entries : e.k = k /\ e.s <= s /\ d.s <= e.s
  <2>1. PICK g \in FilesFor(current, l, k, s) :
               /\ l = 0 => g = f
               /\ \E e \in g.entries : e.k = k /\ e.s <= s /\ d.s <= e.s
    <3>1. CASE l = 0
      <4>1. d.s \in Nat /\ f.smallest.k <= k /\ k <= f.largest.k
        BY <1>1, <1>8, EntryInFile
      <4>2. f \in FilesFor(current, l, k, s)
        BY <1>8, <3>1, <4>1, TouchingIn DEF FilesFor
      <4>3. d.s <= d.s
        BY <4>1
      <4> QED  BY <1>8, <4>2, <4>3
    <3>2. CASE l # 0
      <4>1. GoodFiles(current[l], written) /\ OneNumberEach(current[l]) /\ Disjoint(current[l])
        BY <1>1, <3>2
      <4>2. LevelFinds(current, l, k, s)
        BY <1>2, <4>1, LevelSearch
      <4>3. \E g \in FilesFor(current, l, k, s) : \E e \in g.entries : e.k = k /\ e.s <= s /\ d.s <= e.s
        BY <1>8, <4>2 DEF LevelFinds
      <4> QED  BY <3>2, <4>3
    <3> QED  BY <3>1, <3>2
  <2>2. PICK j \in 1..Len(q) : q[j].level = l /\ q[j].file = g
    BY <1>3
  <2>3. PICK e \in g.entries : e.k = k /\ e.s <= s /\ d.s <= e.s
    BY <2>1
  <2>4. ~Nothing(g.entries, k, s)
    BY <2>3 DEF Nothing
  <2>5. Lookup(g.entries, k, s) # None
    BY <1>7, <2>2, <2>4, LookupCases
  <2>6. j \in hits
    BY <1>5, <2>2, <2>5
  <2> QED  BY <2>1, <2>2, <2>6
<1>9. CASE hits = {}
  <2>1. Nothing(A, k, s)
    <3> SUFFICES ASSUME NEW d \in A, d.k = k, d.s <= s PROVE FALSE
      BY DEF Nothing
    <3> QED  BY <1>6, <1>8, <1>9
  <2> QED  BY <1>4, <1>9, <2>1 DEF A
<1>10. CASE hits # {}
  <2> DEFINE i == Min(hits)
  <2>1. i \in hits /\ \A j \in hits : i <= j
    <3>1. hits \in SUBSET Nat
      BY <1>3, <1>5
    <3>2. \E x \in hits : \A y \in hits : x <= y
      BY <1>10, <3>1, LeastNumber
    <3> QED  BY <3>2 DEF Min
  <2>2. VersionGet(current, k, s) = Lookup(q[i].file.entries, k, s)
    BY <1>4, <1>10
  <2> HIDE DEF i
  <2> DEFINE h == q[i].file
             m == q[i].level
             e == Lookup(h.entries, k, s)
  <2>3. i \in 1..Len(q) /\ e # None
    BY <1>5, <2>1
  <2>4. /\ m \in Levels /\ m \in Nat /\ h \in current[m] /\ h.number \in Nat
        /\ h.entries \in SUBSET Entries /\ Distinct(h.entries)
    BY <1>7, <2>3
  <2>5. Newest(h.entries, k, s, e) /\ e \in Entries
    BY <2>3, <2>4, LookupCases
  <2>6. e \in h.entries /\ e.k = k /\ e.s <= s /\ e.s \in Nat
    BY <2>5, EntryFields DEF Newest
  <2> HIDE DEF e
  <2>7. ASSUME NEW d \in A, d.k = k, d.s <= s PROVE d.s <= e.s
    <3>1. PICK l \in Levels : \E f \in current[l] : d \in f.entries
      BY <1>6
    <3>2. PICK f \in current[l] : d \in f.entries
      BY <3>1
    <3>3. PICK j \in hits : /\ q[j].level = l /\ (l = 0 => q[j].file = f)
                            /\ \E x \in q[j].file.entries : x.k = k /\ x.s <= s /\ d.s <= x.s
      BY <1>8, <2>7, <3>2
    <3>4. PICK x \in q[j].file.entries : x.k = k /\ x.s <= s /\ d.s <= x.s
      BY <3>3
    <3>5. j \in 1..Len(q) /\ i <= j
      BY <1>5, <2>1
    <3>6. /\ l \in Nat /\ q[j].file \in current[l] /\ q[j].file.number \in Nat
          /\ x.s \in Nat /\ d.s \in Nat
      <4>1. x \in Entries /\ d \in Entries
        BY <1>1, <1>7, <3>2, <3>4, <3>5, GoodFile
      <4> QED  BY <1>7, <3>3, <3>5, <4>1, EntryFields
    <3>7. x.s <= e.s
      <4>1. CASE i = j
        BY <2>5, <3>4, <4>1 DEF Newest
      <4>2. CASE i # j
        <5>1. NewestFirst(q[i], q[j])
          <6>1. i < j
            BY <2>3, <3>5, <4>2
          <6> QED  BY <1>3, <2>3, <3>5, <6>1
        <5>2. m < l \/ (m = l /\ h.number > q[j].file.number)
          BY <3>3, <5>1 DEF NewestFirst
        <5>3. CASE m < l
          <6>1. Newer(h.entries, q[j].file.entries)
            BY <2>4, <3>6, <5>3 DEF LevelOrder
          <6> QED  BY <2>6, <3>4, <3>6, <6>1 DEF Newer
        <5>4. CASE m = l /\ h.number > q[j].file.number
          <6>1. h # q[j].file
            BY <2>4, <3>6, <5>4
          <6>2. l = 0
            BY <1>3, <2>3, <3>3, <3>5, <5>4, <6>1, OneFileEach
          <6>3. Newer(h.entries, q[j].file.entries)
            BY <2>4, <3>6, <5>4, <6>2 DEF LevelOrder
          <6> QED  BY <2>6, <3>4, <3>6, <6>3 DEF Newer
        <5> QED  BY <5>2, <5>3, <5>4
      <4> QED  BY <4>1, <4>2
    <3> QED  BY <2>6, <3>4, <3>6, <3>7
  <2>8. e \in A
    BY <1>6, <2>4, <2>6
  <2>9. Newest(A, k, s, e)
    BY <2>6, <2>7, <2>8 DEF Newest
  <2> QED  BY <2>2, <2>9 DEF A, e
<1> QED  BY <1>9, <1>10


\* A newest entry stays the newest when older ones are added.
LEMMA NewestAbove ==
  ASSUME NEW A, NEW B, A \cup B \subseteq Entries, Newer(A, B), NEW k, NEW s, NEW e, Newest(A, k, s, e)
  PROVE  Newest(A \cup B, k, s, e)
<1>1. e \in A /\ e.k = k /\ e.s <= s /\ \A d \in A : d.k = k /\ d.s <= s => d.s <= e.s
  BY DEF Newest
<1>2. ASSUME NEW d \in B, d.k = k PROVE d.s <= e.s
  <2>1. e.s > d.s
    BY <1>1, <1>2 DEF Newer
  <2>2. e.s \in Nat /\ d.s \in Nat
    BY <1>1, EntryFields
  <2> QED  BY <2>1, <2>2
<1> QED  BY <1>1, <1>2 DEF Newest

\* Where nothing is visible above, what is below decides.
LEMMA NewestBelow ==
  ASSUME NEW A, NEW B, NEW k, NEW s, Nothing(A, k, s)
  PROVE  /\ \A e : Newest(B, k, s, e) => Newest(A \cup B, k, s, e)
         /\ Nothing(B, k, s) => Nothing(A \cup B, k, s)
BY DEF Nothing, Newest

\* Where the entries are.
LEMMA MergedEntries ==
  ASSUME LsmInv
  PROVE  /\ Merged(mem, imm, current) = (mem \cup imm) \cup FileEntries(current)
         /\ mem \subseteq written /\ imm \subseteq written /\ FileEntries(current) \subseteq written
         /\ written \subseteq Entries /\ Distinct(written)
         /\ \A e : e \in FileEntries(current) <=> \E l \in Levels : \E f \in current[l] : e \in f.entries
<1>1. TypeOK /\ EntriesInv /\ VersionInv /\ LevelsDisjoint
  BY DEF LsmInv
<1>2. /\ written \subseteq Entries /\ Distinct(written)
      /\ \A l \in Levels : GoodFiles(current[l], written)
  BY <1>1, CurrentGood
<1>3. \A e : e \in FileEntries(current) <=> \E l \in Levels : \E f \in current[l] : e \in f.entries
  BY DEF FileEntries, EntriesIn
<1>4. \A l \in Levels : \A f \in current[l] : f.entries \subseteq written
  BY <1>2, GoodFile
<1>5. Merged(mem, imm, current) = (mem \cup imm) \cup FileEntries(current)
  BY DEF Merged, FileEntries, EntriesIn
<1> QED  BY <1>1, <1>2, <1>3, <1>4, <1>5 DEF EntriesInv

\* Reads ask for sequence numbers up to the last one.
LEMMA SeenNumbers ==
  ASSUME LsmInv
  PROVE  /\ last_sequence \in Nat /\ last_sequence \in Seen /\ snapshots \in Seq(0..last_sequence)
         /\ \A s \in Seen : s \in 0..last_sequence /\ s \in Nat /\ s \in Int
<1>1. last_sequence \in 0..MaxWrites /\ snapshots \in Seq(0..last_sequence) /\ MaxWrites \in Nat
  BY LsmAssumption DEF LsmInv, TypeOK
<1>2. last_sequence \in Nat
  BY <1>1
<1>3. \A s \in ToSet(snapshots) : s \in 0..last_sequence
  BY <1>1 DEF ToSet
<1> QED  BY <1>1, <1>2, <1>3 DEF Seen

\* A Get finds what an iterator shows.
LEMMA GetIsIteratorGet ==
  ASSUME LsmInv, OrderInv, NEW k \in Keys, NEW s \in Int
  PROVE  Get(mem, imm, current, k, s) = IteratorGet(mem, imm, current, k, s)
<1> DEFINE F == FileEntries(current)
           M == mem \cup imm
           found == VersionGet(current, k, s)
<1>1. /\ Merged(mem, imm, current) = M \cup F
      /\ mem \subseteq written /\ imm \subseteq written /\ F \subseteq written
      /\ written \subseteq Entries /\ Distinct(written)
  BY MergedEntries
<1>2. /\ Newer(mem, imm) /\ Newer(M, F) /\ LevelOrder(current)
  BY DEF OrderInv
<1>3. \/ Nothing(F, k, s) /\ found = None
      \/ Newest(F, k, s, found)
  <2>1. TypeOK /\ EntriesInv /\ VersionInv /\ LevelsDisjoint
    BY DEF LsmInv
  <2> QED  BY <1>2, <2>1, VersionGetNewest
<1> HIDE DEF F, found
<1>4. /\ mem \in SUBSET Entries /\ imm \in SUBSET Entries /\ M \cup F \in SUBSET Entries
      /\ Distinct(mem) /\ Distinct(imm) /\ Distinct(M \cup F)
  BY <1>1 DEF Distinct
<1>5. ASSUME NEW e, Newest(M \cup F, k, s, e)
      PROVE  IteratorGet(mem, imm, current, k, s) = Value(e)
  <2>1. Lookup(M \cup F, k, s) = e
    BY <1>4, <1>5, LookupNewest
  <2> QED  BY <1>1, <2>1 DEF IteratorGet
<1>6. CASE ~Nothing(mem, k, s)
  <2> DEFINE e == Lookup(mem, k, s)
  <2>1. Newest(mem, k, s, e) /\ e # None
    BY <1>4, <1>6, LookupCases
  <2>2. Newest(M, k, s, e)
    BY <1>2, <1>4, <2>1, NewestAbove
  <2>3. Newest(M \cup F, k, s, e)
    BY <1>2, <1>4, <2>2, NewestAbove
  <2> QED  BY <1>5, <2>1, <2>3 DEF Get
<1>7. CASE Nothing(mem, k, s) /\ ~Nothing(imm, k, s)
  <2> DEFINE e == Lookup(imm, k, s)
  <2>1. Newest(imm, k, s, e) /\ e # None
    BY <1>4, <1>7, LookupCases
  <2>2. Newest(M, k, s, e)
    BY <1>7, <2>1, NewestBelow
  <2>3. Newest(M \cup F, k, s, e)
    BY <1>2, <1>4, <2>2, NewestAbove
  <2>4. Lookup(mem, k, s) = None
    BY <1>7, LookupNothing
  <2> QED  BY <1>5, <2>1, <2>3, <2>4 DEF Get
<1>8. CASE Nothing(mem, k, s) /\ Nothing(imm, k, s)
  <2>1. Nothing(M, k, s)
    BY <1>8, NewestBelow
  <2>2. Lookup(mem, k, s) = None /\ Lookup(imm, k, s) = None
    BY <1>8, LookupNothing
  <2>3. Get(mem, imm, current, k, s) = Value(found)
    BY <2>2 DEF Get, found
  <2>4. CASE Nothing(F, k, s) /\ found = None
    <3>1. Nothing(M \cup F, k, s)
      BY <2>1, <2>4, NewestBelow
    <3>2. Lookup(M \cup F, k, s) = None
      BY <3>1, LookupNothing
    <3> QED  BY <1>1, <2>3, <2>4, <3>2 DEF IteratorGet
  <2>5. CASE Newest(F, k, s, found)
    <3>1. Newest(M \cup F, k, s, found)
      BY <2>1, <2>5, NewestBelow
    <3> QED  BY <1>5, <2>3, <3>1
  <2> QED  BY <1>3, <2>4, <2>5
<1> QED  BY <1>6, <1>7, <1>8

\* The invariant says what reads return.
LEMMA ReadInvReads ==
  ASSUME LsmInv, ReadInv PROVE ReadsExact
<1>1. OrderInv /\ CompleteInv
  BY DEF ReadInv
<1>2. ASSUME NEW s \in Seen, NEW k \in Keys
      PROVE  /\ IteratorGet(mem, imm, current, k, s) = Expected(k, s)
             /\ Get(mem, imm, current, k, s) = Expected(k, s)
  <2>1. s \in Int
    BY SeenNumbers
  <2>2. IteratorGet(mem, imm, current, k, s) = Expected(k, s)
    BY <1>1 DEF CompleteInv
  <2> QED  BY <1>1, <2>1, <2>2, GetIsIteratorGet
<1> QED  BY <1>2 DEF ReadsExact, SeenExactly, Seen

-----------------------------------------------------------------------------
(***************************************************************************)
(* Steps that leave the entries alone.                                     *)
(***************************************************************************)

\* A merge of the same entries shows the same.
LEMMA SameMerged ==
  ASSUME CompleteInv, written' = written, Merged(mem, imm, current)' = Merged(mem, imm, current),
         Seen' \subseteq Seen
  PROVE  CompleteInv'
BY DEF CompleteInv, IteratorGet, Expected

\* No new read sees less than before.
LEMMA KeepsStays ==
  ASSUME LsmInv, LsmInv', NEW c, Keeps(c), last_sequence <= last_sequence',
         \A s \in Seen' : s \in Seen \/ last_sequence <= s
  PROVE  \E oldest \in 0..last_sequence' :
           /\ \A s \in Seen' : oldest <= s
           /\ EntriesIn(c.outputs) \cup InTables(c.todo) = Kept(c, oldest)
<1>1. PICK oldest \in 0..last_sequence :
        /\ \A s \in Seen : oldest <= s
        /\ EntriesIn(c.outputs) \cup InTables(c.todo) = Kept(c, oldest)
  BY DEF Keeps
<1>2. last_sequence \in Nat /\ last_sequence' \in Nat /\ \A s \in Seen' : s \in Nat
  <2>1. last_sequence \in Nat
    BY SeenNumbers
  <2>2. last_sequence' \in 0..MaxWrites /\ snapshots' \in Seq(0..last_sequence') /\ MaxWrites \in Nat
    BY LsmAssumption DEF LsmInv, TypeOK
  <2>3. \A s \in ToSet(snapshots') : s \in 0..last_sequence'
    BY <2>2 DEF ToSet
  <2>4. last_sequence' \in Nat
    BY <2>2
  <2> QED  BY <2>1, <2>3, <2>4 DEF Seen
<1>3. oldest \in 0..last_sequence' /\ \A s \in Seen' : oldest <= s
  BY <1>1, <1>2
<1> QED  BY <1>1, <1>3

\* So a compaction that goes on keeps what it has to.
LEMMA KeepsNext ==
  ASSUME LsmInv, LsmInv', compaction # None => Keeps(compaction), compaction' = compaction,
         last_sequence <= last_sequence', \A s \in Seen' : s \in Seen \/ last_sequence <= s
  PROVE  compaction # None => Keeps(compaction)'
<1> SUFFICES ASSUME compaction # None PROVE Keeps(compaction)'
  OBVIOUS
<1> DEFINE c == compaction
<1>1. Keeps(c)
  OBVIOUS
<1> HIDE DEF c
<1>2. PICK oldest \in 0..last_sequence' :
           /\ \A s \in Seen' : oldest <= s
           /\ EntriesIn(c.outputs) \cup InTables(c.todo) = Kept(c, oldest)
  BY <1>1, KeepsStays
<1>3. compaction' = c
  BY DEF c
<1> QED  BY <1>2, <1>3 DEF Keeps

\* Steps that leave the store alone and let reads ask for nothing new.
LEMMA QuietReads ==
  ASSUME LsmInv, LsmInv', ReadInv, UNCHANGED <<written, last_sequence, mem, imm, current, compaction>>,
         Seen' \subseteq Seen, SnapshotsInv'
  PROVE  ReadInv'
<1>1. OrderInv /\ CompleteInv /\ SnapshotsInv /\ MergeInv
  BY DEF ReadInv
<1>2. OrderInv'
  BY <1>1 DEF OrderInv, Newer, LevelOrder, FileEntries, EntriesIn
<1>3. CompleteInv'
  <2>1. Merged(mem, imm, current)' = Merged(mem, imm, current)
    BY DEF Merged
  <2> QED  BY <1>1, <2>1, SameMerged
<1>4. MergeInv'
  <2>1. compaction # None => Keeps(compaction)'
    <3>1. last_sequence <= last_sequence'
      BY SeenNumbers
    <3>2. compaction # None => Keeps(compaction)
      BY <1>1 DEF MergeInv
    <3>3. \A s \in Seen' : s \in Seen \/ last_sequence <= s
      OBVIOUS
    <3> QED  BY <3>1, <3>2, <3>3, KeepsNext
  <2>2. compaction # None => Beside(compaction)
    BY <1>1 DEF MergeInv
  <2>3. compaction # None => Beside(compaction)'
    BY <2>2 DEF Beside, LeftNewer, NoSharedKey, Newer, InputEntries
  <2> QED  BY <2>1, <2>3 DEF MergeInv
<1> QED  BY <1>2, <1>3, <1>4 DEF ReadInv

\* Steps of readers and charges for seeks.
LEMMA SameSnapshots ==
  ASSUME LsmInv, LsmInv', ReadInv,
         UNCHANGED <<written, last_sequence, mem, imm, current, compaction, snapshots>>
  PROVE  ReadInv'
<1>1. Seen' \subseteq Seen /\ SnapshotsInv'
  BY DEF Seen, ReadInv, SnapshotsInv, ToSet
<1> QED  BY <1>1, QuietReads

\* A new snapshot has the last sequence number, which reads ask for already.
LEMMA GetSnapshotReads ==
  ASSUME LsmInv, LsmInv', ReadInv, GetSnapshot PROVE ReadInv'
<1>1. /\ snapshots' = Append(snapshots, last_sequence)
      /\ UNCHANGED <<written, last_sequence, mem, imm, current, compaction>>
  BY DEF GetSnapshot
<1>2. last_sequence \in Nat /\ snapshots \in Seq(0..last_sequence)
  BY SeenNumbers
<1> DEFINE n == Len(snapshots)
<1>3. n \in Nat /\ DOMAIN snapshots = 1..n /\ \A i \in 1..n : snapshots[i] \in 0..last_sequence
  BY <1>2
<1>4. DOMAIN snapshots' = 1..(n + 1) /\ snapshots'[n + 1] = last_sequence
      /\ \A i \in 1..n : snapshots'[i] = snapshots[i]
  BY <1>1, <1>2
<1> HIDE DEF n
<1>5. SnapshotsInv'
  <2> SUFFICES ASSUME NEW i \in 1..(n + 1), NEW j \in 1..(n + 1), i < j PROVE snapshots'[i] <= snapshots'[j]
    BY <1>4 DEF SnapshotsInv
  <2>1. CASE j \in 1..n
    <3>1. i \in 1..n
      BY <1>3, <2>1
    <3>2. snapshots[i] <= snapshots[j]
      BY <1>3, <2>1, <3>1 DEF ReadInv, SnapshotsInv
    <3> QED  BY <1>4, <2>1, <3>1, <3>2
  <2>2. CASE j = n + 1
    <3>1. i \in 1..n
      BY <1>3, <2>2
    <3> QED  BY <1>2, <1>3, <1>4, <2>2, <3>1
  <2> QED  BY <1>3, <2>1, <2>2
<1>6. Seen' \subseteq Seen
  <2>1. \A s \in ToSet(snapshots') : \E i \in 1..(n + 1) : s = snapshots'[i]
    BY <1>4 DEF ToSet
  <2>2. \A i \in 1..n : snapshots[i] \in Seen
    BY <1>3 DEF Seen, ToSet
  <2>3. last_sequence \in Seen /\ last_sequence' = last_sequence
    BY <1>1 DEF Seen
  <2>4. \A i \in 1..(n + 1) : snapshots'[i] \in Seen
    BY <1>3, <1>4, <2>2, <2>3
  <2> QED  BY <2>1, <2>3, <2>4 DEF Seen
<1> QED  BY <1>1, <1>5, <1>6, QuietReads

\* A sequence without its i-th element.
LEMMA WithoutOne ==
  ASSUME NEW S, NEW q \in Seq(S), NEW i \in 1..Len(q)
  PROVE  LET r == RemoveAt(q, i)
         IN /\ DOMAIN r = 1..(Len(q) - 1)
            /\ \A j \in 1..(Len(q) - 1) : r[j] = IF j < i THEN q[j] ELSE q[j + 1]
<1> DEFINE n == Len(q)
           a == SubSeq(q, 1, i - 1)
           b == SubSeq(q, i + 1, n)
<1>1. n \in Nat /\ i \in Nat /\ i >= 1 /\ i <= n
  OBVIOUS
<1>2. a \in Seq(S) /\ b \in Seq(S)
  BY Slice
<1>3. Len(a) = i - 1 /\ \A j \in 1..(i - 1) : a[j] = q[j]
  BY <1>1
<1>4. Len(b) = n - i /\ \A j \in 1..(n - i) : b[j] = q[j + i]
  BY <1>1
<1>5. RemoveAt(q, i) = a \o b
  BY DEF RemoveAt
<1> HIDE DEF a, b
<1>6. DOMAIN (a \o b) = 1..(n - 1)
  BY <1>1, <1>2, <1>3, <1>4
<1>7. \A j \in 1..(n - 1) : (a \o b)[j] = IF j <= i - 1 THEN a[j] ELSE b[j - (i - 1)]
  BY <1>1, <1>2, <1>3, <1>4
<1>8. \A j \in 1..(n - 1) : (a \o b)[j] = IF j < i THEN q[j] ELSE q[j + 1]
  BY <1>1, <1>3, <1>4, <1>7
<1> QED  BY <1>5, <1>6, <1>8

\* A snapshot is released.
LEMMA ReleaseSnapshotReads ==
  ASSUME LsmInv, LsmInv', ReadInv, NEW i \in DOMAIN snapshots, ReleaseSnapshot(i) PROVE ReadInv'
<1>1. /\ snapshots' = RemoveAt(snapshots, i)
      /\ UNCHANGED <<written, last_sequence, mem, imm, current, compaction>>
  BY DEF ReleaseSnapshot
<1>2. last_sequence \in Nat /\ snapshots \in Seq(0..last_sequence)
  BY SeenNumbers
<1> DEFINE n == Len(snapshots)
           S == 0..last_sequence
           old(j) == IF j < i THEN j ELSE j + 1
<1> HIDE DEF S
<1>3. n \in Nat /\ DOMAIN snapshots = 1..n /\ i \in 1..n /\ snapshots \in Seq(S)
  BY <1>2 DEF S
<1>4. /\ DOMAIN snapshots' = 1..(n - 1)
      /\ \A j \in 1..(n - 1) : snapshots'[j] = IF j < i THEN snapshots[j] ELSE snapshots[j + 1]
  BY <1>1, <1>3, WithoutOne
<1> HIDE DEF n
<1>5. \A j \in 1..(n - 1) : old(j) \in 1..n /\ snapshots'[j] = snapshots[old(j)]
  BY <1>3, <1>4
<1>6. \A j, k \in 1..(n - 1) : j < k => old(j) < old(k)
  BY <1>3
<1> HIDE DEF old
<1>7. SnapshotsInv'
  <2>1. SnapshotsInv
    BY DEF ReadInv
  <2>2. \A j, k \in 1..n : j < k => snapshots[j] <= snapshots[k]
    BY <1>3, <2>1 DEF SnapshotsInv
  <2>3. \A j, k \in 1..(n - 1) : j < k => snapshots'[j] <= snapshots'[k]
    BY <1>5, <1>6, <2>2
  <2> QED  BY <1>4, <2>3 DEF SnapshotsInv
<1>8. Seen' \subseteq Seen
  <2>1. \A j \in 1..(n - 1) : snapshots'[j] \in ToSet(snapshots)
    BY <1>3, <1>5 DEF ToSet
  <2>2. ToSet(snapshots') \subseteq ToSet(snapshots)
    BY <1>4, <2>1 DEF ToSet
  <2> QED  BY <1>1, <2>2 DEF Seen
<1> QED  BY <1>1, <1>7, <1>8, QuietReads

\* The memtable becomes the immutable one.
LEMMA SwitchReads ==
  ASSUME LsmInv, LsmInv', ReadInv, SwitchMemTable PROVE ReadInv'
<1>1. /\ imm = {} /\ imm' = mem /\ mem' = {}
      /\ UNCHANGED <<written, last_sequence, current, compaction, snapshots>>
  BY DEF SwitchMemTable
<1>2. OrderInv /\ CompleteInv /\ SnapshotsInv /\ MergeInv
  BY DEF ReadInv
<1>3. Seen' \subseteq Seen /\ SnapshotsInv'
  BY <1>1, <1>2 DEF Seen, SnapshotsInv, ToSet
<1>4. OrderInv'
  <2>1. Newer(mem', imm')
    BY <1>1 DEF Newer
  <2>2. mem' \cup imm' = mem \cup imm
    BY <1>1
  <2>3. FileEntries(current)' = FileEntries(current) /\ LevelOrder(current)'
    BY <1>1, <1>2 DEF OrderInv, FileEntries, EntriesIn, LevelOrder, Newer
  <2> QED  BY <1>2, <2>1, <2>2, <2>3 DEF OrderInv, Newer
<1>5. CompleteInv'
  <2>1. Merged(mem, imm, current)' = Merged(mem, imm, current)
    BY <1>1 DEF Merged
  <2> QED  BY <1>1, <1>2, <1>3, <2>1, SameMerged
<1>6. MergeInv'
  <2>1. compaction # None => Keeps(compaction)'
    <3>1. last_sequence <= last_sequence'
      BY <1>1, SeenNumbers
    <3>2. compaction # None => Keeps(compaction)
      BY <1>2 DEF MergeInv
    <3>3. \A s \in Seen' : s \in Seen \/ last_sequence <= s
      BY <1>3
    <3> QED  BY <1>1, <3>1, <3>2, <3>3, KeepsNext
  <2>2. compaction # None => Beside(compaction)
    BY <1>2 DEF MergeInv
  <2>3. compaction # None => Beside(compaction)'
    BY <1>1, <2>2 DEF Beside, LeftNewer, NoSharedKey, Newer, InputEntries
  <2> QED  BY <1>1, <2>1, <2>3 DEF MergeInv
<1> QED  BY <1>3, <1>4, <1>5, <1>6 DEF ReadInv

-----------------------------------------------------------------------------
(***************************************************************************)
(* Writes.                                                                 *)
(***************************************************************************)

\* Lookup depends on the visible entries of the key only.
LEMMA SameLookup ==
  ASSUME NEW S, NEW T, NEW k, NEW s, NEW r,
         \A e : e \in S /\ e.k = k /\ e.s <= s <=> e \in T /\ e.k = k /\ e.s <= r
  PROVE  Lookup(S, k, s) = Lookup(T, k, r)
<1> DEFINE V == {e \in S : e.k = k /\ e.s <= s}
           U == {e \in T : e.k = k /\ e.s <= r}
           first(F) == IF F = {} THEN None ELSE CHOOSE e \in F : \A d \in F : d.s <= e.s
<1>1. V = U
  OBVIOUS
<1>2. Lookup(S, k, s) = first(V) /\ Lookup(T, k, r) = first(U)
  BY DEF Lookup
<1> HIDE DEF V, U, first
<1> QED  BY <1>1, <1>2

\* An entry with the next sequence number is seen by the reads that may see it.
LEMMA EntryAdded ==
  ASSUME NEW A \in SUBSET Entries, Distinct(A), NEW e \in Entries, NEW n \in Nat, e.s = n + 1,
         \A d \in A : d.s <= n, NEW k
  PROVE  /\ \A s \in 0..n : Lookup(A \cup {e}, k, s) = Lookup(A, k, s)
         /\ Lookup(A \cup {e}, k, n + 1) = IF e.k = k THEN e ELSE Lookup(A, k, n)
<1>1. \A d \in A : d.s \in Nat
  BY EntryFields
<1>2. ASSUME NEW s \in 0..n PROVE Lookup(A \cup {e}, k, s) = Lookup(A, k, s)
  <2>1. ~(e.s <= s)
    OBVIOUS
  <2>2. \A d : d \in A \cup {e} /\ d.k = k /\ d.s <= s <=> d \in A /\ d.k = k /\ d.s <= s
    BY <2>1
  <2> QED  BY <2>2, SameLookup
<1>3. CASE e.k = k
  <2>1. \A d \in A \cup {e} : d.s <= e.s
    BY <1>1
  <2>2. e.s <= n + 1
    OBVIOUS
  <2>3. Newest(A \cup {e}, k, n + 1, e)
    BY <1>3, <2>1, <2>2 DEF Newest
  <2>4. A \cup {e} \in SUBSET Entries /\ Distinct(A \cup {e})
    <3>1. \A d \in A : d.s # e.s
      BY <1>1
    <3> QED  BY <3>1 DEF Distinct
  <2>5. Lookup(A \cup {e}, k, n + 1) = e
    BY <2>3, <2>4, LookupNewest
  <2> QED  BY <1>2, <1>3, <2>5
<1>4. CASE e.k # k
  <2>1. \A d \in A : d.s <= n /\ d.s <= n + 1
    BY <1>1
  <2>2. \A d : d \in A \cup {e} /\ d.k = k /\ d.s <= n + 1 <=> d \in A /\ d.k = k /\ d.s <= n
    BY <1>4, <2>1
  <2>3. Lookup(A \cup {e}, k, n + 1) = Lookup(A, k, n)
    BY <2>2, SameLookup
  <2> QED  BY <1>2, <1>4, <2>3
<1> QED  BY <1>3, <1>4

\* A write is newer than everything, and only reads from now on see it.
LEMMA WriteReads ==
  ASSUME LsmInv, LsmInv', ReadInv, NEW key \in Keys, NEW t \in Types, Write(key, t) PROVE ReadInv'
<1> DEFINE e == [k |-> key, s |-> last_sequence + 1, t |-> t]
           A == Merged(mem, imm, current)
           n == last_sequence
<1>1. /\ last_sequence' = n + 1 /\ mem' = mem \cup {e} /\ written' = written \cup {e}
      /\ UNCHANGED <<imm, current, compaction, snapshots>>
  BY DEF Write
<1>2. OrderInv /\ CompleteInv /\ SnapshotsInv /\ MergeInv
  BY DEF ReadInv
<1>3. /\ A = (mem \cup imm) \cup FileEntries(current)
      /\ mem \subseteq written /\ imm \subseteq written /\ FileEntries(current) \subseteq written
      /\ written \subseteq Entries /\ Distinct(written)
  BY MergedEntries
<1>4. \A d \in written : d.s <= n /\ d.s \in Nat
  <2>1. EntriesInv
    BY DEF LsmInv
  <2> QED  BY <1>3, <2>1, EntryFields DEF EntriesInv
<1>5. n \in Nat /\ n \in Seen /\ \A s \in Seen : s \in 0..n
  BY SeenNumbers
<1>6. e \in Entries /\ e.s = n + 1 /\ e.k = key
  <2>1. TypeOK'
    BY DEF LsmInv
  <2>2. e \in written' /\ written' \subseteq Entries
    BY <1>1, <2>1 DEF TypeOK
  <2> QED  BY <2>2
<1>7. Merged(mem, imm, current)' = A \cup {e}
  BY <1>1 DEF Merged
<1> HIDE DEF e, A, n
<1>8. Seen' \subseteq Seen \cup {n + 1}
  BY <1>1 DEF Seen
<1>9. OrderInv'
  <2>1. \A d \in written : e.s > d.s
    BY <1>4, <1>5, <1>6
  <2>2. FileEntries(current)' = FileEntries(current) /\ LevelOrder(current)'
    BY <1>1, <1>2 DEF OrderInv, FileEntries, EntriesIn, LevelOrder, Newer
  <2>3. Newer(mem', imm')
    BY <1>1, <1>2, <1>3, <2>1 DEF OrderInv, Newer
  <2>4. Newer(mem' \cup imm', FileEntries(current))
    BY <1>1, <1>2, <1>3, <2>1 DEF OrderInv, Newer
  <2> QED  BY <2>2, <2>3, <2>4 DEF OrderInv, Newer
<1>10. CompleteInv'
  <2>1. A \in SUBSET Entries /\ Distinct(A) /\ \A d \in A : d.s <= n
    BY <1>3, <1>4 DEF Distinct
  <2>2. written \in SUBSET Entries
    BY <1>3
  <2> SUFFICES ASSUME NEW s \in Seen', NEW k \in Keys
               PROVE  Value(Lookup(A \cup {e}, k, s)) = Value(Lookup(written \cup {e}, k, s))
    BY <1>1, <1>7 DEF CompleteInv, IteratorGet, Expected
  <2>3. \A r \in Seen : Value(Lookup(A, k, r)) = Value(Lookup(written, k, r))
    BY <1>2 DEF CompleteInv, IteratorGet, Expected, A
  <2>4. /\ \A r \in 0..n : Lookup(A \cup {e}, k, r) = Lookup(A, k, r)
        /\ Lookup(A \cup {e}, k, n + 1) = IF e.k = k THEN e ELSE Lookup(A, k, n)
    BY <1>5, <1>6, <2>1, EntryAdded
  <2>5. /\ \A r \in 0..n : Lookup(written \cup {e}, k, r) = Lookup(written, k, r)
        /\ Lookup(written \cup {e}, k, n + 1) = IF e.k = k THEN e ELSE Lookup(written, k, n)
    BY <1>3, <1>4, <1>5, <1>6, <2>2, EntryAdded
  <2>6. CASE s \in Seen
    BY <1>5, <2>3, <2>4, <2>5, <2>6
  <2>7. CASE s = n + 1
    BY <1>5, <2>3, <2>4, <2>5, <2>7
  <2> QED  BY <1>8, <2>6, <2>7
<1>11. SnapshotsInv'
  BY <1>1, <1>2 DEF SnapshotsInv
<1>12. MergeInv'
  <2>1. compaction # None => Keeps(compaction)'
    <3>1. last_sequence <= last_sequence'
      BY <1>1, <1>5 DEF n
    <3>2. compaction # None => Keeps(compaction)
      BY <1>2 DEF MergeInv
    <3>3. \A s \in Seen' : s \in Seen \/ last_sequence <= s
      BY <1>5, <1>8 DEF n
    <3> QED  BY <1>1, <3>1, <3>2, <3>3, KeepsNext
  <2>2. compaction # None => Beside(compaction)
    BY <1>2 DEF MergeInv
  <2>3. compaction # None => Beside(compaction)'
    BY <1>1, <2>2 DEF Beside, LeftNewer, NoSharedKey, Newer, InputEntries
  <2> QED  BY <1>1, <2>1, <2>3 DEF MergeInv
<1> QED  BY <1>9, <1>10, <1>11, <1>12 DEF ReadInv

-----------------------------------------------------------------------------
(***************************************************************************)
(* Flushes and moves.                                                      *)
(***************************************************************************)

\* A file is added that has newer entries than every file: the levels stay in
\* order, and the file is no obstacle to the running compaction.
LEMMA FlushOrder ==
  ASSUME LsmInv, NEW level \in Levels, NEW f \in Files, NEW E, Flushed(level, f, E),
         Newer(E, FileEntries(current)), LevelOrder(current), MergeInv, compaction' = compaction,
         \A l \in Levels : \A g : g \in current'[l] <=> g \in current[l] \/ (l = level /\ g = f)
  PROVE  /\ LevelOrder(current') /\ FileEntries(current') = FileEntries(current) \cup E
         /\ compaction # None => Beside(compaction)'
<1>1. /\ FileOK(f, written) /\ f.number = next_file /\ f.entries = E
      /\ level # 0 => \A l \in 0..level : \A g \in current[l] : ~Overlaps(g, f.smallest.k, f.largest.k)
  BY DEF Flushed
<1>2. /\ written \subseteq Entries /\ Distinct(written)
      /\ \A l \in Levels : GoodFiles(current[l], written)
      /\ \A l \in Levels : \A g \in current[l] : g.number < next_file
  <2>1. TypeOK /\ EntriesInv /\ VersionInv /\ LevelsDisjoint
    BY DEF LsmInv
  <2> QED  BY <2>1, CurrentGood DEF VersionInv
<1>3. ASSUME NEW l \in Levels, NEW g \in current[l] PROVE Newer(E, g.entries)
  BY <1>3 DEF FileEntries, EntriesIn, Newer
<1>4. ASSUME NEW l \in Levels, l <= level, level # 0, NEW g \in current[l]
      PROVE  NoSharedKey(f.entries, g.entries) /\ NoSharedKey(g.entries, f.entries)
  <2>1. l \in 0..level
    BY <1>4, LevelFacts DEF Levels
  <2>2. ~Overlaps(g, f.smallest.k, f.largest.k)
    BY <1>1, <1>4, <2>1
  <2> DEFINE F == current[l] \cup {f}
  <2>3. GoodFiles(F, written) /\ f \in F /\ g \in F
    BY <1>1, <1>2 DEF GoodFiles
  <2> HIDE DEF F
  <2> QED  BY <2>2, <2>3, NoOverlapNoKey
<1>5. LevelOrder(current')
  <2>1. ASSUME NEW l \in Levels, NEW m \in Levels, l < m, NEW g \in current'[l], NEW h \in current'[m]
        PROVE  Newer(g.entries, h.entries)
    <3>1. CASE g \in current[l] /\ h \in current[m]
      BY <2>1, <3>1 DEF LevelOrder
    <3>2. CASE l = level /\ g = f /\ h \in current[m]
      BY <1>1, <1>3, <3>2
    <3>3. CASE g \in current[l] /\ m = level /\ h = f
      <4>1. l <= level /\ level # 0
        BY <2>1, <3>3, LevelFacts
      <4>2. NoSharedKey(g.entries, f.entries)
        BY <1>4, <3>3, <4>1
      <4> QED  BY <3>3, <4>2, DistinctAreNewer
    <3>4. ~(l = level /\ m = level)
      BY <2>1, LevelFacts
    <3>5. /\ g \in current[l] \/ (l = level /\ g = f)
          /\ h \in current[m] \/ (m = level /\ h = f)
      OBVIOUS
    <3> QED  BY <3>1, <3>2, <3>3, <3>4, <3>5
  <2>2. ASSUME NEW g \in current'[0], NEW h \in current'[0], g.number < h.number
        PROVE  Newer(h.entries, g.entries)
    <3>1. 0 \in Levels
      BY LevelFacts
    <3>2. CASE g \in current[0] /\ h \in current[0]
      BY <2>2, <3>2 DEF LevelOrder
    <3>3. CASE g \in current[0] /\ h = f
      BY <1>1, <1>3, <3>1, <3>3
    <3>4. CASE g = f
      <4>1. next_file < h.number /\ next_file \in Nat /\ h.number \in Nat
        <5>1. next_file \in 1..(MaxFiles + 1) /\ MaxFiles \in Nat
          BY LsmAssumption DEF LsmInv, TypeOK
        <5>2. h \in current[0] \/ h = f
          BY <3>1
        <5>3. h.number \in Nat
          BY <1>1, <1>2, <3>1, <5>1, <5>2, GoodFile
        <5> QED  BY <1>1, <2>2, <3>4, <5>1, <5>3
      <4>2. h \notin current[0] /\ h # f
        BY <1>1, <1>2, <3>1, <4>1
      <4> QED  BY <3>1, <4>2
    <3> QED  BY <3>1, <3>2, <3>3, <3>4
  <2> QED  BY <2>1, <2>2 DEF LevelOrder
<1>6. FileEntries(current') = FileEntries(current) \cup E
  <2>1. \A e : e \in FileEntries(current') <=> \E l \in Levels : \E g \in current'[l] : e \in g.entries
    BY DEF FileEntries, EntriesIn
  <2>2. \A e : e \in FileEntries(current) <=> \E l \in Levels : \E g \in current[l] : e \in g.entries
    BY DEF FileEntries, EntriesIn
  <2>3. \A e : e \in FileEntries(current') <=> e \in FileEntries(current) \/ e \in E
    BY <1>1, <2>1, <2>2
  <2> QED  BY <2>3
<1>7. ASSUME compaction # None PROVE Beside(compaction)'
  <2> DEFINE c == compaction
  <2>1. /\ c.level \in Levels /\ c.level + 1 \in Levels /\ c.level \in Nat
        /\ c.inputs0 \subseteq current[c.level] /\ c.inputs1 \subseteq current[c.level + 1]
        /\ \A e \in InputEntries(c) : \E g \in c.inputs0 \cup c.inputs1 : e \in g.entries
    BY <1>7, CompactionFacts
  <2>2. /\ LeftNewer(current[c.level], c.inputs0)
        /\ \A g \in current[c.level + 1] \ c.inputs1 : NoSharedKey(g.entries, InputEntries(c))
        /\ \A l \in Levels : l > c.level + 1 =>
             \A g \in current[l] \ c.version[l] : NoSharedKey(g.entries, InputEntries(c))
    BY <1>7 DEF MergeInv, Beside
  <2> HIDE DEF c
  <2>3. LeftNewer(current'[c.level], c.inputs0)
    BY <1>1, <1>3, <2>1, <2>2 DEF LeftNewer
  <2>4. ASSUME level >= c.level + 1 PROVE NoSharedKey(f.entries, InputEntries(c))
    <3>1. c.level <= level /\ c.level + 1 <= level /\ level # 0
      BY <2>1, <2>4, LevelFacts
    <3>2. \A g \in c.inputs0 \cup c.inputs1 : NoSharedKey(f.entries, g.entries)
      BY <1>4, <2>1, <3>1
    <3> QED  BY <2>1, <3>2 DEF NoSharedKey
  <2>5. \A g \in current'[c.level + 1] \ c.inputs1 : NoSharedKey(g.entries, InputEntries(c))
    <3>1. level = c.level + 1 => level >= c.level + 1
      BY <2>1
    <3> QED  BY <2>1, <2>2, <2>4, <3>1
  <2>6. ASSUME NEW l \in Levels, l > c.level + 1, NEW g \in current'[l] \ c.version[l]
        PROVE  NoSharedKey(g.entries, InputEntries(c))
    <3>1. CASE g \in current[l]
      BY <2>2, <2>6, <3>1
    <3>2. CASE l = level /\ g = f
      <4>1. level >= c.level + 1
        BY <2>1, <2>6, <3>2, LevelFacts
      <4> QED  BY <2>4, <3>2, <4>1
    <3> QED  BY <3>1, <3>2
  <2>7. compaction' = c
    BY DEF c
  <2> QED  BY <2>3, <2>5, <2>6, <2>7 DEF Beside
<1> QED  BY <1>5, <1>6, <1>7

\* The memtable E, imm or the mem of a reopened database, becomes a file.
LEMMA FlushReads ==
  ASSUME LsmInv, LsmInv', ReadInv, NEW level \in Levels, NEW f \in Files, NEW E, Flushed(level, f, E),
         \A l \in Levels : \A g : g \in current'[l] <=> g \in current[l] \/ (l = level /\ g = f),
         mem' \cup E = mem \cup imm, imm' = {}, Newer(mem', E),
         UNCHANGED <<written, last_sequence, compaction, snapshots>>
  PROVE  ReadInv'
<1>1. OrderInv /\ CompleteInv /\ SnapshotsInv /\ MergeInv
  BY DEF ReadInv
<1>2. Newer(mem \cup imm, FileEntries(current)) /\ LevelOrder(current)
  BY <1>1 DEF OrderInv
<1>3. Newer(E, FileEntries(current)) /\ Newer(mem', FileEntries(current))
  BY <1>2 DEF Newer
<1>4. /\ LevelOrder(current') /\ FileEntries(current') = FileEntries(current) \cup E
      /\ compaction # None => Beside(compaction)'
  BY <1>1, <1>2, <1>3, FlushOrder
<1>5. OrderInv'
  <2>1. Newer(mem', imm')
    BY DEF Newer
  <2>2. Newer(mem' \cup imm', FileEntries(current'))
    BY <1>3, <1>4 DEF Newer
  <2> QED  BY <1>4, <2>1, <2>2 DEF OrderInv
<1>6. Seen' \subseteq Seen /\ SnapshotsInv'
  BY <1>1 DEF Seen, SnapshotsInv, ToSet
<1>7. CompleteInv'
  <2>1. /\ Merged(mem, imm, current) = (mem \cup imm) \cup FileEntries(current)
        /\ Merged(mem, imm, current)' = (mem' \cup imm') \cup FileEntries(current')
    BY DEF Merged, FileEntries, EntriesIn
  <2>2. Merged(mem, imm, current)' = Merged(mem, imm, current)
    BY <1>4, <2>1
  <2> QED  BY <1>1, <1>6, <2>2, SameMerged
<1>8. MergeInv'
  <2>1. last_sequence <= last_sequence'
    BY SeenNumbers
  <2>2. compaction # None => Keeps(compaction)
    BY <1>1 DEF MergeInv
  <2>3. \A s \in Seen' : s \in Seen \/ last_sequence <= s
    BY <1>6
  <2>4. compaction # None => Keeps(compaction)'
    BY <2>1, <2>2, <2>3, KeepsNext
  <2> QED  BY <1>4, <2>4 DEF MergeInv
<1> QED  BY <1>5, <1>6, <1>7, <1>8 DEF ReadInv

\* The immutable memtable becomes a file, in the middle of a compaction too.
LEMMA CompactMemTableReads ==
  ASSUME LsmInv, LsmInv', ReadInv, CompactMemTable PROVE ReadInv'
<1>1. /\ next_file' = next_file + 1 /\ imm' = {}
      /\ UNCHANGED <<written, last_sequence, mem, compaction, snapshots>>
  BY DEF CompactMemTable
<1>2. PICK level \in Levels : \E f \in Files : Flushed(level, f, imm)
  BY FlushedMemTable
<1>3. PICK f \in Files : Flushed(level, f, imm)
  BY <1>2
<1>4. \A l \in Levels : \A g : g \in current'[l] <=> g \in current[l] \/ (l = level /\ g = f)
  BY <1>1, <1>3, FileAdded DEF Flushed
<1>5. Newer(mem', imm) /\ mem' \cup imm = mem \cup imm
  BY <1>1 DEF ReadInv, OrderInv
<1> DEFINE E == imm
<1> HIDE DEF E
<1>6. Flushed(level, f, E) /\ Newer(mem', E) /\ mem' \cup E = mem \cup imm
  BY <1>3, <1>5 DEF E
<1> QED  BY <1>1, <1>4, <1>6, FlushReads

\* Recovery writes the entries of the log to a file of level 0.
LEMMA ReopenedFile ==
  ASSUME LsmInv, Reopen
  PROVE  \E f \in Files : /\ Flushed(0, f, mem)
                          /\ \A l \in Levels : \A g : g \in current'[l] <=> g \in current[l] \/ (l = 0 /\ g = f)
<1> DEFINE f == NewFile(next_file, mem)
<1>1. /\ mem # {} /\ next_file <= MaxFiles
      /\ next_file' = next_file + 1 /\ LogAndApply(NoFiles, [NoFiles EXCEPT ![0] = {f}])
      /\ UNCHANGED <<written, compaction>>
  BY DEF Reopen
<1>2. TypeOK /\ EntriesInv /\ VersionInv /\ LevelsDisjoint
  BY DEF LsmInv
<1>3. written \subseteq Entries /\ Distinct(written) /\ mem \subseteq written
  BY <1>2, CurrentGood DEF EntriesInv
<1>4. next_file \in 1..MaxFiles
  BY <1>1, <1>2, LsmAssumption DEF TypeOK
<1>5. f \in Files /\ FileOK(f, written) /\ f.number = next_file /\ f.entries = mem
  BY <1>1, <1>3, <1>4, NewFileOK
<1> HIDE DEF f
<1>6. Flushed(0, f, mem)
  BY <1>1, <1>5 DEF Flushed
<1>7. \A l \in Levels : \A g : g \in current'[l] <=> g \in current[l] \/ (l = 0 /\ g = f)
  BY <1>1, <1>5, LevelFacts, FileAdded
<1> QED  BY <1>5, <1>6, <1>7

\* The database is reopened.
LEMMA ReopenReads ==
  ASSUME LsmInv, LsmInv', ReadInv, Reopen PROVE ReadInv'
<1>1. /\ imm = {} /\ imm' = {} /\ mem' = {}
      /\ UNCHANGED <<written, last_sequence, compaction, snapshots>>
  BY DEF Reopen
<1>2. PICK f \in Files : /\ Flushed(0, f, mem)
                        /\ \A l \in Levels : \A g : g \in current'[l] <=> g \in current[l] \/ (l = 0 /\ g = f)
  BY ReopenedFile
<1> DEFINE level == 0
           E == mem
<1>3. /\ level \in Levels /\ Flushed(level, f, E)
      /\ \A l \in Levels : \A g : g \in current'[l] <=> g \in current[l] \/ (l = level /\ g = f)
  BY <1>2, LevelFacts
<1>4. Newer(mem', E) /\ mem' \cup E = mem \cup imm
  BY <1>1 DEF Newer
<1> HIDE DEF level, E
<1> QED  BY <1>1, <1>3, <1>4, FlushReads

\* A file moves to the next level: what is left in its level is newer, and nothing
\* of the next level has its keys.
LEMMA MoveFileReads ==
  ASSUME LsmInv, LsmInv', ReadInv, MoveFile PROVE ReadInv'
<1> DEFINE c == PickCompaction
           low == c.level
           S == c.inputs0
<1>1. /\ compaction = None /\ NeedsCompaction
      /\ UNCHANGED <<written, last_sequence, mem, imm, compaction, snapshots>>
  BY DEF MoveFile
<1>2. OrderInv /\ CompleteInv /\ SnapshotsInv /\ MergeInv
  BY DEF ReadInv
<1>3. /\ Ready(c, written)
      /\ \A l \in Levels : \A f : f \in current'[l] <=>
                 \/ f \in current[l] /\ ~(l = low /\ f \in S)
                 \/ l = low + 1 /\ f \in S
  BY MovedLevels
<1>4. LeftNewer(current[low], S)
  BY <1>1, PickedNewer
<1>5. low \in 0..(kNumLevels - 2) /\ S \subseteq current[low]
  BY <1>3 DEF Ready
<1> HIDE DEF low, S, c
<1>6. /\ low \in Levels /\ low + 1 \in Levels /\ low + 1 # 0 /\ low \in Nat /\ 0 \in Levels
      /\ Levels \subseteq Nat
  BY <1>5, LevelFacts
<1>7. FileEntries(current') = FileEntries(current)
  <2>1. \A e : e \in FileEntries(current') <=> \E l \in Levels : \E g \in current'[l] : e \in g.entries
    BY DEF FileEntries, EntriesIn
  <2>2. \A e : e \in FileEntries(current) <=> \E l \in Levels : \E g \in current[l] : e \in g.entries
    BY DEF FileEntries, EntriesIn
  <2>3. ASSUME NEW l \in Levels, NEW g \in current'[l] PROVE \E m \in Levels : g \in current[m]
    BY <1>3, <1>5, <1>6
  <2>4. ASSUME NEW l \in Levels, NEW g \in current[l] PROVE \E m \in Levels : g \in current'[m]
    <3>1. CASE l = low /\ g \in S
      BY <1>3, <1>6, <3>1
    <3>2. CASE ~(l = low /\ g \in S)
      BY <1>3, <3>2
    <3> QED  BY <3>1, <3>2
  <2>5. \A e : e \in FileEntries(current') <=> e \in FileEntries(current)
    BY <2>1, <2>2, <2>3, <2>4
  <2> QED  BY <2>5
<1>8. LevelOrder(current')
  <2>1. LevelOrder(current)
    BY <1>2 DEF OrderInv
  <2>2. ASSUME NEW l \in Levels, NEW m \in Levels, l < m, NEW g \in current'[l], NEW h \in current'[m]
        PROVE  Newer(g.entries, h.entries)
    <3>1. CASE g \in current[l] /\ h \in current[m]
      BY <2>1, <2>2, <3>1 DEF LevelOrder
    <3>2. CASE l = low + 1 /\ g \in S /\ h \in current[m]
      <4>1. g \in current[low] /\ low < m
        BY <1>5, <1>6, <2>2, <3>2
      <4> QED  BY <1>6, <2>1, <3>2, <4>1 DEF LevelOrder
    <3>3. CASE g \in current[l] /\ ~(l = low /\ g \in S) /\ m = low + 1 /\ h \in S
      <4>1. l < low \/ l = low
        BY <1>6, <2>2, <3>3
      <4>2. CASE l < low
        BY <1>5, <1>6, <2>1, <3>3, <4>2 DEF LevelOrder
      <4>3. CASE l = low
        BY <1>4, <3>3, <4>3 DEF LeftNewer
      <4> QED  BY <4>1, <4>2, <4>3
    <3>4. ~(l = low + 1 /\ m = low + 1)
      BY <1>6, <2>2
    <3>5. /\ (g \in current[l] /\ ~(l = low /\ g \in S)) \/ (l = low + 1 /\ g \in S)
          /\ (h \in current[m] /\ ~(m = low /\ h \in S)) \/ (m = low + 1 /\ h \in S)
      BY <1>3
    <3> QED  BY <3>1, <3>2, <3>3, <3>4, <3>5
  <2>3. \A g \in current'[0] : g \in current[0]
    BY <1>3, <1>6
  <2> QED  BY <2>1, <2>2, <2>3 DEF LevelOrder
<1>9. OrderInv'
  <2>1. Newer(mem', imm') /\ Newer(mem' \cup imm', FileEntries(current'))
    BY <1>1, <1>2, <1>7 DEF OrderInv
  <2> QED  BY <1>8, <2>1 DEF OrderInv
<1>10. Seen' \subseteq Seen /\ SnapshotsInv'
  BY <1>1, <1>2 DEF Seen, SnapshotsInv, ToSet
<1>11. CompleteInv'
  <2>1. /\ Merged(mem, imm, current) = (mem \cup imm) \cup FileEntries(current)
        /\ Merged(mem, imm, current)' = (mem' \cup imm') \cup FileEntries(current')
    BY DEF Merged, FileEntries, EntriesIn
  <2>2. Merged(mem, imm, current)' = Merged(mem, imm, current)
    BY <1>1, <1>7, <2>1
  <2> QED  BY <1>1, <1>2, <1>10, <2>2, SameMerged
<1>12. MergeInv'
  BY <1>1 DEF MergeInv
<1> QED  BY <1>9, <1>10, <1>11, <1>12 DEF ReadInv

-----------------------------------------------------------------------------
(***************************************************************************)
(* Compactions.                                                            *)
(***************************************************************************)

\* No read asks for a sequence number before that of the oldest snapshot.
LEMMA SmallestSnapshot ==
  ASSUME LsmInv, SnapshotsInv
  PROVE  smallest_snapshot \in 0..last_sequence /\ \A s \in Seen : smallest_snapshot <= s
<1>1. last_sequence \in Nat /\ snapshots \in Seq(0..last_sequence)
  BY SeenNumbers
<1> DEFINE n == Len(snapshots)
<1>2. n \in Nat /\ DOMAIN snapshots = 1..n /\ \A i \in 1..n : snapshots[i] \in 0..last_sequence
  BY <1>1
<1>3. \A s \in Seen : s = last_sequence \/ \E i \in 1..n : s = snapshots[i]
  BY <1>2 DEF Seen, ToSet
<1>4. CASE snapshots = <<>>
  <2>1. smallest_snapshot = last_sequence /\ n = 0
    BY <1>4 DEF smallest_snapshot
  <2>2. \A s \in Seen : s = last_sequence
    BY <1>3, <2>1
  <2> QED  BY <1>1, <2>1, <2>2
<1>5. CASE snapshots # <<>>
  <2>1. smallest_snapshot = snapshots[1] /\ 1 \in 1..n
    BY <1>1, <1>5 DEF smallest_snapshot
  <2>2. \A i \in 1..n : snapshots[1] <= snapshots[i]
    <3>1. \A i \in 1..n : i = 1 \/ 1 < i
      BY <1>2
    <3>2. \A i \in 1..n : 1 < i => snapshots[1] <= snapshots[i]
      BY <1>2, <2>1 DEF SnapshotsInv
    <3>3. snapshots[1] <= snapshots[1]
      BY <1>2, <2>1
    <3> QED  BY <3>1, <3>2, <3>3
  <2>3. snapshots[1] \in 0..last_sequence /\ snapshots[1] <= last_sequence
    BY <1>1, <1>2, <2>1
  <2> QED  BY <1>3, <2>1, <2>2, <2>3
<1> QED  BY <1>4, <1>5

\* What a compaction says of its inputs depends on few of its fields.
LEMMA SameInputs ==
  ASSUME NEW c, NEW d, d.level = c.level, d.inputs0 = c.inputs0, d.inputs1 = c.inputs1,
         d.version = c.version
  PROVE  InputEntries(d) = InputEntries(c) /\ \A oldest : Kept(d, oldest) = Kept(c, oldest)
<1>1. InputEntries(d) = InputEntries(c)
  BY DEF InputEntries
<1>2. \A k : IsBaseLevelForKey(d, k) <=> IsBaseLevelForKey(c, k)
  BY DEF IsBaseLevelForKey
<1>3. \A oldest, e : Dropped(d, oldest, e) <=> Dropped(c, oldest, e)
  BY <1>1, <1>2 DEF Dropped
<1> QED  BY <1>1, <1>3 DEF Kept

\* The files of the output level that a compaction leaves alone have none of the
\* keys of its inputs of the upper level.
LEMMA OthersShareNothing ==
  ASSUME NEW F, NEW W, GoodFiles(F, W), NEW I \in SUBSET F, I # {}, NEW B \in SUBSET F,
         NEW f \in B \ Touching(B, LowKey(I), HighKey(I)), NEW g \in I
  PROVE  NoSharedKey(f.entries, g.entries)
<1>1. GoodFiles(I, W) /\ f \in F /\ g \in F
  BY DEF GoodFiles
<1>2. /\ LowKey(I) \in Int /\ HighKey(I) \in Int
      /\ LowKey(I) <= g.smallest.k /\ g.largest.k <= HighKey(I)
  BY <1>1, Hull
<1>3. ~(LowKey(I) <= f.largest.k /\ f.smallest.k <= HighKey(I))
  BY TouchingIn
<1>4. /\ g.smallest.k \in Int /\ g.largest.k \in Int /\ f.smallest.k \in Int /\ f.largest.k \in Int
  BY <1>1, GoodFile
<1>5. ~Overlaps(g, f.smallest.k, f.largest.k)
  BY <1>2, <1>3, <1>4 DEF Overlaps
<1> QED  BY <1>1, <1>5, NoOverlapNoKey

\* A compaction starts: PickCompaction leaves newer entries in the upper level, and
\* that it leaves none of its keys in the output level is what InputsWhole says.
LEMMA StartCompactionReads ==
  ASSUME LsmInv, LsmInv', ReadInv, InputsWhole', StartCompaction PROVE ReadInv'
<1> DEFINE c == PickCompaction
           low == c.level
           I == c.inputs0
           T == c.inputs1
           todo == OutputTables(c, smallest_snapshot)
<1>1. /\ compaction = None /\ NeedsCompaction
      /\ compaction' = [level |-> low, inputs0 |-> I, inputs1 |-> T, version |-> c.version,
                        todo |-> todo, outputs |-> {}]
      /\ UNCHANGED <<written, last_sequence, mem, imm, current, snapshots>>
  BY DEF StartCompaction, Begin
<1>2. OrderInv /\ CompleteInv /\ SnapshotsInv /\ MergeInv
  BY DEF ReadInv
<1>3. Ready(c, written) /\ LeftNewer(current[low], I)
  BY <1>1, PickedReady, PickedNewer
<1>4. /\ low \in 0..(kNumLevels - 2) /\ c.version = current /\ I # {} /\ I \subseteq current[low]
      /\ T = Touching(current[low + 1], LowKey(I), HighKey(I))
      /\ GoodFiles(c.grandparents, written) /\ OneNumberEach(c.grandparents)
  BY <1>3 DEF Ready
<1>5. T \subseteq current[low + 1]
  BY <1>4, TouchingIn
<1> HIDE DEF c
<1>6. low \in Levels /\ low + 1 \in Levels
  BY <1>4, LevelFacts
<1> DEFINE F == current[low] \cup current[low + 1]
           B == current[low + 1]
<1>7. GoodFiles(F, written) /\ I \in SUBSET F /\ T \in SUBSET F /\ B \in SUBSET F
  <2>1. TypeOK /\ EntriesInv /\ VersionInv /\ LevelsDisjoint
    BY DEF LsmInv
  <2>2. GoodFiles(current[low], written) /\ GoodFiles(current[low + 1], written)
    BY <1>6, <2>1, CurrentGood
  <2> QED  BY <1>4, <1>5, <2>2 DEF GoodFiles
<1>8. /\ InputEntries(c) \in SUBSET Entries /\ Distinct(InputEntries(c))
      /\ \A e \in InputEntries(c) : \E g \in I \cup T : e \in g.entries
  BY <1>7, InputsWritten
<1>9. OrderInv'
  BY <1>1, <1>2 DEF OrderInv, FileEntries, EntriesIn, LevelOrder, Newer
<1>10. Seen' = Seen /\ SnapshotsInv'
  BY <1>1, <1>2 DEF Seen, SnapshotsInv, ToSet
<1>11. CompleteInv'
  <2>1. Merged(mem, imm, current)' = Merged(mem, imm, current)
    BY <1>1 DEF Merged
  <2> QED  BY <1>1, <1>2, <1>10, <2>1, SameMerged
<1>12. ASSUME compaction' # None PROVE Beside(compaction') /\ Keeps(compaction)'
  <2> DEFINE d == compaction'
  <2>1. /\ d.level = low /\ d.inputs0 = I /\ d.inputs1 = T /\ d.version = c.version
        /\ d.todo = todo /\ d.outputs = {}
    BY <1>1
  <2>2. \A f \in B \ T, g \in T : f.largest.k < g.smallest.k \/ g.largest.k < f.smallest.k
    BY <1>1, <1>12, <2>1 DEF InputsWhole
  <2> HIDE DEF d, todo, I, T, low, F, B
  <2>3. InputEntries(d) = InputEntries(c) /\ \A oldest : Kept(d, oldest) = Kept(c, oldest)
    BY <2>1, SameInputs DEF low, I, T
  <2>4. ASSUME NEW f \in B \ T PROVE NoSharedKey(f.entries, InputEntries(d))
    <3>1. ASSUME NEW g \in I PROVE NoSharedKey(f.entries, g.entries)
      <4>1. f \in B \ Touching(B, LowKey(I), HighKey(I))
        BY <1>4 DEF B
      <4> QED  BY <1>4, <1>7, <4>1, OthersShareNothing
    <3>2. ASSUME NEW g \in T PROVE NoSharedKey(f.entries, g.entries)
      <4>1. f \in F /\ g \in F
        BY <1>7
      <4>2. /\ g.smallest.k \in Int /\ g.largest.k \in Int /\ f.smallest.k \in Int /\ f.largest.k \in Int
        BY <1>7, <4>1, GoodFile
      <4>3. f.largest.k < g.smallest.k \/ g.largest.k < f.smallest.k
        BY <2>2
      <4>4. ~Overlaps(g, f.smallest.k, f.largest.k)
        BY <4>2, <4>3 DEF Overlaps
      <4> QED  BY <1>7, <4>1, <4>4, NoOverlapNoKey
    <3> QED  BY <1>8, <2>3, <3>1, <3>2 DEF NoSharedKey
  <2>5. Beside(d)
    <3>1. LeftNewer(current[d.level], d.inputs0)
      BY <1>3, <2>1
    <3>2. \A f \in current[d.level + 1] \ d.inputs1 : NoSharedKey(f.entries, InputEntries(d))
      BY <2>1, <2>4 DEF B
    <3>3. \A l \in Levels : \A f \in current[l] \ d.version[l] : NoSharedKey(f.entries, InputEntries(d))
      BY <1>4, <2>1
    <3> QED  BY <3>1, <3>2, <3>3 DEF Beside
  <2>6. PICK oldest : oldest = smallest_snapshot
    OBVIOUS
  <2>7. oldest \in 0..last_sequence /\ \A s \in Seen : oldest <= s
    BY <1>2, <2>6, SmallestSnapshot
  <2>8. EntriesIn(d.outputs) \cup InTables(d.todo) = Kept(d, oldest)
    <3>1. Built(OutputTables(c, oldest), {}, {e \in InputEntries(c) : ~Dropped(c, oldest, e)})
      BY <1>4, <1>8, OutputsBuilt
    <3>2. InTables(todo) = Kept(c, oldest)
      BY <2>6, <3>1 DEF Built, Kept, todo
    <3>3. EntriesIn(d.outputs) = {}
      BY <2>1 DEF EntriesIn
    <3> QED  BY <2>1, <2>3, <3>2, <3>3
  <2>9. Keeps(compaction)'
    BY <1>1, <1>10, <2>7, <2>8 DEF Keeps, d
  <2> QED  BY <2>5, <2>9 DEF d
<1>13. MergeInv'
  <2>1. Beside(compaction') => Beside(compaction)'
    BY <1>1 DEF Beside, LeftNewer, NoSharedKey, Newer, InputEntries
  <2> QED  BY <1>12, <2>1 DEF MergeInv
<1> QED  BY <1>9, <1>10, <1>11, <1>13 DEF ReadInv

\* A table of the list is written to a file.
LEMMA FirstOfTables ==
  ASSUME NEW S, NEW q \in Seq(S), q # <<>>
  PROVE  InTables(q) = Head(q) \cup InTables(Tail(q))
<1>1. Len(q) \in Nat /\ 1 \in 1..Len(q) /\ DOMAIN q = 1..Len(q) /\ Head(q) = q[1]
  OBVIOUS
<1>2. DOMAIN Tail(q) = 1..(Len(q) - 1) /\ \A i \in 1..(Len(q) - 1) : Tail(q)[i] = q[i + 1]
  OBVIOUS
<1>3. ASSUME NEW e \in InTables(q) PROVE e \in Head(q) \cup InTables(Tail(q))
  <2>1. PICK i \in 1..Len(q) : e \in q[i]
    BY <1>1 DEF InTables
  <2>2. CASE i = 1
    BY <1>1, <2>1, <2>2
  <2>3. CASE i # 1
    <3>1. i - 1 \in 1..(Len(q) - 1) /\ Tail(q)[i - 1] = q[i]
      BY <1>1, <1>2, <2>3
    <3> QED  BY <1>2, <2>1, <3>1 DEF InTables
  <2> QED  BY <2>2, <2>3
<1>4. ASSUME NEW e \in Head(q) \cup InTables(Tail(q)) PROVE e \in InTables(q)
  <2>1. CASE e \in Head(q)
    BY <1>1, <2>1 DEF InTables
  <2>2. CASE e \in InTables(Tail(q))
    <3>1. PICK i \in 1..(Len(q) - 1) : e \in Tail(q)[i]
      BY <1>2, <2>2 DEF InTables
    <3>2. i + 1 \in 1..Len(q) /\ e \in q[i + 1]
      BY <1>1, <1>2, <3>1
    <3> QED  BY <1>1, <3>2 DEF InTables
  <2> QED  BY <2>1, <2>2
<1> QED  BY <1>3, <1>4

\* A finished table is one more file of the outputs.
LEMMA OutputWritten ==
  ASSUME LsmInv, WriteOutput
  PROVE  LET c == compaction
             d == compaction'
         IN /\ d.level = c.level /\ d.inputs0 = c.inputs0 /\ d.inputs1 = c.inputs1
            /\ d.version = c.version
            /\ EntriesIn(d.outputs) \cup InTables(d.todo) = EntriesIn(c.outputs) \cup InTables(c.todo)
<1> DEFINE table == Head(compaction.todo)
           f == NewFile(next_file, table)
           todo == compaction.todo
           outputs == compaction.outputs
           added == IF table = {} THEN {} ELSE {f}
<1>1. compaction # None /\ todo # <<>>
  BY DEF WriteOutput
<1>2. /\ compaction \in Compactions
  BY <1>1, CompactionFacts
<1>3. todo \in Seq(SUBSET Entries)
  BY <1>2 DEF Compactions
<1>4. compaction' = [compaction EXCEPT !.todo = Tail(@), !.outputs = @ \cup added]
  <2>1. CASE table = {}
    <3>1. compaction' = [compaction EXCEPT !.todo = Tail(@)]
      BY <2>1 DEF WriteOutput
    <3>2. outputs \cup added = outputs
      BY <2>1
    <3> QED  BY <1>2, <3>1, <3>2 DEF Compactions
  <2>2. CASE table # {}
    BY <2>2 DEF WriteOutput
  <2> QED  BY <2>1, <2>2
<1>5. f.entries = table
  BY DEF NewFile
<1> HIDE DEF f, table, added, todo, outputs
<1>6. /\ compaction'.level = compaction.level /\ compaction'.inputs0 = compaction.inputs0
      /\ compaction'.inputs1 = compaction.inputs1 /\ compaction'.version = compaction.version
      /\ compaction'.todo = Tail(todo) /\ compaction'.outputs = outputs \cup added
  BY <1>2, <1>4 DEF Compactions, todo, outputs
<1>7. InTables(todo) = table \cup InTables(Tail(todo))
  <2> DEFINE S == SUBSET Entries
  <2> HIDE DEF S
  <2>1. todo \in Seq(S)
    BY <1>3 DEF S
  <2> QED  BY <1>1, <2>1, FirstOfTables DEF table, todo
<1>8. EntriesIn(outputs \cup added) = EntriesIn(outputs) \cup table
  BY <1>5 DEF EntriesIn, added
<1> QED  BY <1>6, <1>7, <1>8 DEF todo, outputs

\* A table of the compaction is written.
LEMMA WriteOutputReads ==
  ASSUME LsmInv, LsmInv', ReadInv, WriteOutput PROVE ReadInv'
<1> DEFINE d == compaction'
           c == compaction
<1>1. /\ compaction # None
      /\ UNCHANGED <<written, last_sequence, mem, imm, current, snapshots>>
  BY DEF WriteOutput
<1>2. OrderInv /\ CompleteInv /\ SnapshotsInv /\ MergeInv
  BY DEF ReadInv
<1>3. /\ d.level = c.level /\ d.inputs0 = c.inputs0 /\ d.inputs1 = c.inputs1 /\ d.version = c.version
      /\ EntriesIn(d.outputs) \cup InTables(d.todo) = EntriesIn(c.outputs) \cup InTables(c.todo)
  BY OutputWritten
<1>4. OrderInv'
  BY <1>1, <1>2 DEF OrderInv, FileEntries, EntriesIn, LevelOrder, Newer
<1>5. Seen' = Seen /\ SnapshotsInv'
  BY <1>1, <1>2 DEF Seen, SnapshotsInv, ToSet
<1>6. CompleteInv'
  <2>1. Merged(mem, imm, current)' = Merged(mem, imm, current)
    BY <1>1 DEF Merged
  <2> QED  BY <1>1, <1>2, <1>5, <2>1, SameMerged
<1>7. Beside(c) /\ Keeps(c)
  BY <1>1, <1>2 DEF MergeInv
<1> HIDE DEF c, d
<1>8. InputEntries(d) = InputEntries(c) /\ \A oldest : Kept(d, oldest) = Kept(c, oldest)
  BY <1>3, SameInputs
<1>9. Beside(d)
  BY <1>3, <1>7, <1>8 DEF Beside
<1>10. Keeps(d)
  BY <1>3, <1>7, <1>8 DEF Keeps
<1>11. MergeInv'
  <2>1. Beside(compaction)'
    BY <1>1, <1>9 DEF Beside, LeftNewer, NoSharedKey, Newer, InputEntries, d
  <2>2. Keeps(compaction)'
    BY <1>1, <1>5, <1>10 DEF Keeps, d
  <2> QED  BY <2>1, <2>2 DEF MergeInv
<1> QED  BY <1>4, <1>5, <1>6, <1>11 DEF ReadInv

\* R has no older entries of the keys of which the compaction drops deletions.
NothingOlder(c, R) ==
  \A d \in R, e \in InputEntries(c) : d.k = e.k => d.s > e.s \/ ~IsBaseLevelForKey(c, e.k)

\* What a compaction drops was hidden by an entry of its inputs, or was a deletion
\* of entries that nothing else has: no read from oldest on can tell.
LEMMA DroppedUnseen ==
  ASSUME NEW c, NEW R, NEW A, A = R \cup InputEntries(c), A \in SUBSET Entries, Distinct(A),
         NEW oldest \in Nat, NEW s \in Nat, oldest <= s, NEW k, NothingOlder(c, R)
  PROVE  Value(Lookup(R \cup Kept(c, oldest), k, s)) = Value(Lookup(A, k, s))
<1> DEFINE B == R \cup Kept(c, oldest)
           I == InputEntries(c)
<1>1. B \in SUBSET Entries /\ B \subseteq A /\ Distinct(B)
  BY DEF Kept, Distinct
<1>2. \A d \in A : d.s \in Nat
  BY EntryFields
<1>3. \A d \in I : d \in B \/ Dropped(c, oldest, d)
  BY DEF Kept
<1>4. \A d \in B : d \in R \/ (d \in I /\ ~Dropped(c, oldest, d))
  BY DEF Kept
<1>5. CASE Nothing(A, k, s)
  <2>1. Nothing(B, k, s)
    BY <1>1, <1>5 DEF Nothing
  <2>2. Lookup(A, k, s) = None /\ Lookup(B, k, s) = None
    BY <1>5, <2>1, LookupNothing
  <2> QED  BY <2>2
<1> HIDE DEF B, I
<1>6. CASE ~Nothing(A, k, s)
  <2>1. PICK e : Newest(A, k, s, e)
    <3>1. s \in Int
      OBVIOUS
    <3> QED  BY <1>6, <3>1, NewestExists
  <2>2. /\ e \in A /\ e.k = k /\ e.s <= s /\ e.s \in Nat
        /\ \A d \in A : d.k = k /\ d.s <= s => d.s <= e.s
    BY <1>2, <2>1 DEF Newest
  <2>3. Lookup(A, k, s) = e
    BY <2>1, LookupNewest
  <2>4. CASE e \in B
    <3>1. Newest(B, k, s, e)
      BY <1>1, <2>2, <2>4 DEF Newest
    <3>2. Lookup(B, k, s) = e
      BY <1>1, <3>1, LookupNewest
    <3> QED  BY <2>3, <3>2 DEF B
  <2>5. CASE e \notin B
    <3>1. e \in I /\ Dropped(c, oldest, e)
      BY <1>3, <2>2, <2>5 DEF B, I
    <3>2. ASSUME NEW d \in I, d.k = e.k, d.s > e.s, d.s <= oldest PROVE FALSE
      <4>1. d \in A /\ d.s \in Nat
        BY <1>2 DEF I
      <4>2. d.s <= s
        BY <3>2, <4>1
      <4>3. d.s <= e.s
        BY <2>2, <3>2, <4>1, <4>2
      <4> QED  BY <2>2, <3>2, <4>1, <4>3
    <3>3. e.t = "deletion" /\ e.s <= oldest /\ IsBaseLevelForKey(c, e.k)
      BY <3>1, <3>2 DEF Dropped, I
    <3>4. ASSUME NEW d \in B, d.k = k, d.s <= s PROVE FALSE
      <4>1. d \in A /\ d.s \in Nat /\ d.s <= e.s
        BY <1>1, <1>2, <2>2, <3>4
      <4>2. d.s # e.s
        BY <2>2, <2>5, <4>1 DEF Distinct
      <4>3. e.s > d.s /\ ~(d.s > e.s)
        BY <2>2, <4>1, <4>2
      <4>4. CASE d \in R
        BY <2>2, <3>1, <3>3, <3>4, <4>3, <4>4 DEF I, NothingOlder
      <4>5. CASE d \in I /\ ~Dropped(c, oldest, d)
        BY <2>2, <3>1, <3>3, <3>4, <4>3, <4>5 DEF Dropped, I
      <4> QED  BY <1>4, <4>4, <4>5
    <3>5. Nothing(B, k, s)
      BY <3>4 DEF Nothing
    <3>6. Lookup(B, k, s) = None
      BY <3>5, LookupNothing
    <3>7. Value(e) = None /\ Value(None) = None
      BY <3>3 DEF Value
    <3> QED  BY <2>3, <3>6, <3>7 DEF B
  <2> QED  BY <2>4, <2>5
<1> QED  BY <1>5, <1>6

\* A file that the running compaction does not merge.
Unmerged(c, l, f) ==
  f \in current[l] /\ ~(l = c.level /\ f \in c.inputs0) /\ ~(l = c.level + 1 /\ f \in c.inputs1)

\* The order between such a file and the inputs.
LEMMA InputOrder ==
  ASSUME LsmInv, LevelOrder(current), compaction # None, Beside(compaction),
         NEW l \in Levels, NEW f, Unmerged(compaction, l, f)
  PROVE  LET c == compaction
         IN /\ l <= c.level => Newer(f.entries, InputEntries(c))
            /\ l > c.level + 1 => Newer(InputEntries(c), f.entries)
            /\ l = c.level + 1 => NoSharedKey(f.entries, InputEntries(c))
            /\ \A d \in f.entries, e \in InputEntries(c) :
                 d.k = e.k => d.s > e.s \/ ~IsBaseLevelForKey(c, e.k)
<1> DEFINE c == compaction
           low == c.level
<1>1. /\ low \in Levels /\ low + 1 \in Levels /\ low \in 0..(kNumLevels - 2)
      /\ c.inputs0 \subseteq current[low] /\ c.inputs1 \subseteq current[low + 1]
      /\ \A e \in InputEntries(c) : \E g \in c.inputs0 \cup c.inputs1 : e \in g.entries
  BY CompactionFacts
<1>2. /\ LeftNewer(current[low], c.inputs0)
      /\ \A g \in current[low + 1] \ c.inputs1 : NoSharedKey(g.entries, InputEntries(c))
      /\ \A m \in Levels : m > low + 1 =>
           \A g \in current[m] \ c.version[m] : NoSharedKey(g.entries, InputEntries(c))
  BY DEF Beside
<1>3. f \in current[l] /\ ~(l = low /\ f \in c.inputs0) /\ ~(l = low + 1 /\ f \in c.inputs1)
  BY DEF Unmerged
<1> HIDE DEF c, low
<1>4. low \in Nat /\ l \in Nat
  BY <1>1, LevelFacts
<1>5. ASSUME l <= low PROVE Newer(f.entries, InputEntries(c))
  <2>1. ASSUME NEW g \in c.inputs0 PROVE Newer(f.entries, g.entries)
    <3>1. CASE l < low
      BY <1>1, <1>3, <3>1 DEF LevelOrder
    <3>2. CASE l = low
      BY <1>2, <1>3, <3>2 DEF LeftNewer
    <3> QED  BY <1>4, <1>5, <3>1, <3>2
  <2>2. ASSUME NEW g \in c.inputs1 PROVE Newer(f.entries, g.entries)
    <3>1. l < low + 1
      BY <1>4, <1>5
    <3> QED  BY <1>1, <1>3, <3>1 DEF LevelOrder
  <2> QED  BY <1>1, <2>1, <2>2 DEF Newer
<1>6. ASSUME l > low + 1 PROVE Newer(InputEntries(c), f.entries)
  <2>1. low < l /\ low + 1 < l
    BY <1>4, <1>6
  <2>2. \A g \in c.inputs0 \cup c.inputs1 : Newer(g.entries, f.entries)
    BY <1>1, <1>3, <2>1 DEF LevelOrder
  <2> QED  BY <1>1, <2>2 DEF Newer
<1>7. ASSUME l = low + 1 PROVE NoSharedKey(f.entries, InputEntries(c))
  BY <1>2, <1>3, <1>7
<1>8. ASSUME NEW d \in f.entries, NEW e \in InputEntries(c), d.k = e.k
      PROVE  d.s > e.s \/ ~IsBaseLevelForKey(c, e.k)
  <2>1. CASE l <= low
    BY <1>5, <1>8, <2>1 DEF Newer
  <2>2. CASE l = low + 1
    BY <1>7, <1>8, <2>2 DEF NoSharedKey
  <2>3. CASE l > low + 1
    <3>1. f \in c.version[l]
      BY <1>2, <1>3, <1>8, <2>3 DEF NoSharedKey
    <3>2. f.smallest.k <= e.k /\ e.k <= f.largest.k
      <4>1. GoodFiles(current[l], written)
        BY CurrentGood DEF LsmInv
      <4> QED  BY <1>3, <1>8, <4>1, EntryInFile
    <3>3. f \in Touching(c.version[l], e.k, e.k)
      BY <3>1, <3>2, TouchingIn
    <3>4. l \in (c.level + 2)..(kNumLevels - 1)
      BY <1>1, <1>4, <2>3 DEF Levels, low
    <3> QED  BY <3>3, <3>4 DEF IsBaseLevelForKey
  <2>4. l <= low \/ l = low + 1 \/ l > low + 1
    BY <1>4
  <2> QED  BY <2>1, <2>2, <2>3, <2>4
<1> QED  BY <1>5, <1>6, <1>7, <1>8 DEF c, low

\* The outputs take the place of the inputs.
LEMMA InstallCompactionReads ==
  ASSUME LsmInv, LsmInv', ReadInv, InstallCompaction PROVE ReadInv'
<1> DEFINE c == compaction
           low == c.level
           I == InputEntries(c)
           Rest == {e \in written : \E l \in Levels : \E f : Unmerged(c, l, f) /\ e \in f.entries}
<1>1. /\ c # None /\ c.todo = <<>> /\ compaction' = None
      /\ UNCHANGED <<written, last_sequence, mem, imm, snapshots>>
  BY DEF InstallCompaction
<1>2. /\ OrderInv /\ CompleteInv /\ SnapshotsInv /\ MergeInv
  BY DEF ReadInv
<1>3. /\ Newer(mem, imm) /\ Newer(mem \cup imm, FileEntries(current)) /\ LevelOrder(current)
      /\ Beside(c) /\ Keeps(c)
  BY <1>1, <1>2 DEF OrderInv, MergeInv
<1>4. \A l \in Levels : \A f : f \in current'[l] <=> Unmerged(c, l, f) \/ (l = low + 1 /\ f \in c.outputs)
  <2>1. \A l \in Levels : \A f : f \in current'[l] <=>
                 \/ f \in current[l] /\ ~(l = c.level /\ f \in c.inputs0) /\ ~(l = c.level + 1 /\ f \in c.inputs1)
                 \/ l = c.level + 1 /\ f \in c.outputs
    BY InstalledLevels
  <2> QED  BY <2>1 DEF Unmerged
<1>5. PICK oldest \in 0..last_sequence :
        /\ \A s \in Seen : oldest <= s
        /\ EntriesIn(c.outputs) \cup InTables(c.todo) = Kept(c, oldest)
  BY <1>3 DEF Keeps
<1>6. EntriesIn(c.outputs) = Kept(c, oldest) /\ Kept(c, oldest) \subseteq I
  <2>1. InTables(<<>>) = {}
    BY DEF InTables
  <2> QED  BY <1>1, <1>5, <2>1 DEF Kept
<1>7. /\ low \in Levels /\ low + 1 \in Levels /\ low \in Nat /\ low + 1 # 0
      /\ c.inputs0 \subseteq current[low] /\ c.inputs1 \subseteq current[low + 1]
      /\ \A e \in I : \E g \in c.inputs0 \cup c.inputs1 : e \in g.entries
  BY <1>1, CompactionFacts
<1>8. ASSUME NEW l \in Levels, NEW f, Unmerged(c, l, f)
      PROVE  /\ l <= low => Newer(f.entries, I)
             /\ l > low + 1 => Newer(I, f.entries)
             /\ \A d \in f.entries, e \in I : d.k = e.k => d.s > e.s \/ ~IsBaseLevelForKey(c, e.k)
  BY <1>1, <1>3, <1>8, InputOrder
<1>9. /\ Merged(mem, imm, current) = (mem \cup imm) \cup FileEntries(current)
      /\ mem \subseteq written /\ imm \subseteq written /\ FileEntries(current) \subseteq written
      /\ written \subseteq Entries /\ Distinct(written)
      /\ \A e : e \in FileEntries(current) <=> \E l \in Levels : \E f \in current[l] : e \in f.entries
  BY MergedEntries
<1>10. \A e \in I : \E g \in c.inputs0 \cup c.inputs1 : e \in g.entries
  BY <1>7
<1>11. \A g \in c.inputs0 \cup c.inputs1 : g.entries \subseteq I
  BY DEF InputEntries
<1> HIDE DEF c, I
<1>12. FileEntries(current) = Rest \cup I
  <2>1. ASSUME NEW e \in FileEntries(current) PROVE e \in Rest \cup I
    <3>1. PICK l \in Levels : \E f \in current[l] : e \in f.entries
      BY <1>9
    <3>2. PICK f \in current[l] : e \in f.entries
      BY <3>1
    <3>3. CASE Unmerged(c, l, f)
      BY <1>9, <3>2, <3>3
    <3>4. CASE ~Unmerged(c, l, f)
      <4>1. f \in c.inputs0 \cup c.inputs1
        BY <3>4 DEF Unmerged
      <4> QED  BY <1>11, <3>2, <4>1
    <3> QED  BY <3>3, <3>4
  <2>2. Rest \subseteq FileEntries(current)
    BY <1>9 DEF Unmerged
  <2>3. I \subseteq FileEntries(current)
    BY <1>7, <1>9, <1>10
  <2> QED  BY <2>1, <2>2, <2>3
<1>13. FileEntries(current') = Rest \cup Kept(c, oldest)
  <2>1. \A e : e \in FileEntries(current') <=> \E l \in Levels : \E f \in current'[l] : e \in f.entries
    BY DEF FileEntries, EntriesIn
  <2>2. \A e : e \in Kept(c, oldest) <=> \E f \in c.outputs : e \in f.entries
    BY <1>6 DEF EntriesIn
  <2>3. \A e : e \in Rest <=> \E l \in Levels : \E f : Unmerged(c, l, f) /\ e \in f.entries
    BY <1>9 DEF Unmerged
  <2>4. \A e : e \in FileEntries(current') <=> e \in Rest \/ e \in Kept(c, oldest)
    <3> HIDE DEF Rest
    <3> QED  BY <1>4, <1>7, <2>1, <2>2, <2>3
  <2> QED  BY <2>4
<1>14. \A d \in (mem \cup imm) \cup Rest, e \in I : d.k = e.k => d.s > e.s \/ ~IsBaseLevelForKey(c, e.k)
  <2>1. \A d \in mem \cup imm, e \in I : d.k = e.k => d.s > e.s
    BY <1>3, <1>12 DEF Newer
  <2>2. \A d \in Rest, e \in I : d.k = e.k => d.s > e.s \/ ~IsBaseLevelForKey(c, e.k)
    BY <1>8
  <2> QED  BY <2>1, <2>2
<1>15. LevelOrder(current')
  <2>1. ASSUME NEW f \in c.outputs PROVE f.entries \subseteq I
    BY <1>6 DEF EntriesIn
  <2>2. ASSUME NEW l \in Levels, NEW m \in Levels, l < m, NEW g \in current'[l], NEW h \in current'[m]
        PROVE  Newer(g.entries, h.entries)
    <3>1. CASE Unmerged(c, l, g) /\ Unmerged(c, m, h)
      BY <1>3, <2>2, <3>1 DEF LevelOrder, Unmerged
    <3>2. CASE l = low + 1 /\ g \in c.outputs /\ Unmerged(c, m, h)
      <4>1. Newer(I, h.entries)
        BY <1>8, <2>2, <3>2
      <4> QED  BY <2>1, <3>2, <4>1 DEF Newer
    <3>3. CASE Unmerged(c, l, g) /\ m = low + 1 /\ h \in c.outputs
      <4>1. l <= low
        BY <1>7, <2>2, <3>3, LevelFacts
      <4>2. Newer(g.entries, I)
        BY <1>8, <3>3, <4>1
      <4> QED  BY <2>1, <3>3, <4>2 DEF Newer
    <3>4. ~(l = low + 1 /\ m = low + 1)
      BY <1>7, <2>2, LevelFacts
    <3>5. /\ Unmerged(c, l, g) \/ (l = low + 1 /\ g \in c.outputs)
          /\ Unmerged(c, m, h) \/ (m = low + 1 /\ h \in c.outputs)
      BY <1>4
    <3> QED  BY <3>1, <3>2, <3>3, <3>4, <3>5
  <2>3. \A g \in current'[0] : g \in current[0]
    BY <1>4, <1>7, LevelFacts DEF Unmerged
  <2> QED  BY <1>3, <2>2, <2>3 DEF LevelOrder
<1>16. OrderInv'
  <2>1. FileEntries(current') \subseteq FileEntries(current)
    BY <1>6, <1>12, <1>13
  <2>2. Newer(mem', imm') /\ Newer(mem' \cup imm', FileEntries(current'))
    BY <1>1, <1>3, <2>1 DEF Newer
  <2> QED  BY <1>15, <2>2 DEF OrderInv
<1>17. Seen' = Seen /\ SnapshotsInv'
  BY <1>1, <1>2 DEF Seen, SnapshotsInv, ToSet
<1>18. CompleteInv'
  <2> DEFINE R == (mem \cup imm) \cup Rest
             A == Merged(mem, imm, current)
             K == Kept(c, oldest)
  <2>1. A = R \cup I
    BY <1>9, <1>12
  <2>2. Merged(mem, imm, current)' = R \cup K
    <3>1. Merged(mem, imm, current)' = (mem' \cup imm') \cup FileEntries(current')
      BY DEF Merged, FileEntries, EntriesIn
    <3> QED  BY <1>1, <1>13, <3>1
  <2>3. A \in SUBSET Entries /\ Distinct(A)
    BY <1>9 DEF Distinct
  <2> SUFFICES ASSUME NEW s \in Seen, NEW k \in Keys
               PROVE  Value(Lookup(R \cup K, k, s)) = Value(Lookup(written, k, s))
    BY <1>1, <1>17, <2>2 DEF CompleteInv, IteratorGet, Expected
  <2>4. Value(Lookup(A, k, s)) = Value(Lookup(written, k, s))
    BY <1>2 DEF CompleteInv, IteratorGet, Expected
  <2>5. oldest \in Nat /\ s \in Nat /\ oldest <= s
    BY <1>5, SeenNumbers
  <2> HIDE DEF R, A, Rest
  <2>6. NothingOlder(c, R)
    BY <1>14 DEF R, I, NothingOlder
  <2>7. Value(Lookup(R \cup Kept(c, oldest), k, s)) = Value(Lookup(A, k, s))
    <3>1. A = R \cup InputEntries(c)
      BY <2>1 DEF I
    <3> QED  BY <2>3, <2>5, <2>6, <3>1, DroppedUnseen
  <2> QED  BY <2>4, <2>7
<1>19. MergeInv'
  BY <1>1 DEF MergeInv
<1> QED  BY <1>16, <1>17, <1>18, <1>19 DEF ReadInv

\* An empty database reads exactly.
LEMMA ReadsInit == ASSUME Init PROVE ReadInv
<1>1. /\ written = {} /\ last_sequence = 0 /\ mem = {} /\ imm = {} /\ snapshots = <<>> /\ compaction = None
      /\ \A l \in Levels : current[l] = {}
  BY DEF Init
<1>2. FileEntries(current) = {} /\ Merged(mem, imm, current) = {}
  BY <1>1 DEF FileEntries, EntriesIn, Merged
<1>3. 0 \in Levels
  BY LevelFacts
<1>4. OrderInv
  BY <1>1, <1>2, <1>3 DEF OrderInv, Newer, LevelOrder
<1>5. CompleteInv
  BY <1>1, <1>2 DEF CompleteInv, IteratorGet, Expected
<1>6. SnapshotsInv /\ MergeInv
  BY <1>1 DEF SnapshotsInv, MergeInv
<1> QED  BY <1>4, <1>5, <1>6 DEF ReadInv

\* Every step keeps the invariant of reads.
LEMMA ReadsNext == ASSUME LsmInv, LsmInv', ReadInv, InputsWhole', [Next]_vars PROVE ReadInv'
<1>1. CASE Next
  <2>1. ASSUME NEW k \in Keys, NEW t \in Types, Write(k, t) PROVE ReadInv'
    BY <2>1, WriteReads
  <2>2. CASE SwitchMemTable
    BY <2>2, SwitchReads
  <2>3. CASE CompactMemTable
    BY <2>3, CompactMemTableReads
  <2>4. CASE Reopen
    BY <2>4, ReopenReads
  <2>5. CASE MoveFile
    BY <2>5, MoveFileReads
  <2>6. CASE StartCompaction
    BY <2>6, StartCompactionReads
  <2>7. CASE WriteOutput
    BY <2>7, WriteOutputReads
  <2>8. CASE InstallCompaction
    BY <2>8, InstallCompactionReads
  <2>9. CASE GetSnapshot
    BY <2>9, GetSnapshotReads
  <2>10. ASSUME NEW i \in DOMAIN snapshots, ReleaseSnapshot(i) PROVE ReadInv'
    BY <2>10, ReleaseSnapshotReads
  <2>11. ASSUME NEW r \in Readers, BeginRead(r) \/ EndRead(r) PROVE ReadInv'
    BY <2>11, SameSnapshots DEF BeginRead, EndRead
  <2>12. ASSUME NEW k, NEW s, ChargeGet(k, s) PROVE ReadInv'
    BY <2>12, SameSnapshots DEF ChargeGet, UpdateStats
  <2>13. ASSUME NEW e, RecordReadSample(e) PROVE ReadInv'
    BY <2>13, SameSnapshots DEF RecordReadSample, UpdateStats
  <2> QED  BY <1>1, <2>1, <2>2, <2>3, <2>4, <2>5, <2>6, <2>7, <2>8, <2>9, <2>10, <2>11, <2>12, <2>13
           DEF Next
<1>2. CASE UNCHANGED vars
  BY <1>2, SameSnapshots DEF vars
<1> QED  BY <1>1, <1>2


-----------------------------------------------------------------------------
(***************************************************************************)
(* Without snapshots.                                                      *)
(***************************************************************************)

\* Then no compaction divides a key.
LEMMA WholeInputs ==
  ASSUME LsmInv, WholeInv PROVE InputsWhole
<1> SUFFICES ASSUME compaction # None,
                    NEW f \in current[compaction.level + 1] \ compaction.inputs1, NEW g \in compaction.inputs1
             PROVE  f.largest.k < g.smallest.k \/ g.largest.k < f.smallest.k
  BY DEF InputsWhole
<1> DEFINE l == compaction.level + 1
<1>1. l \in Levels \ {0} /\ f \in current[l] /\ g \in current[l] /\ f # g
  BY CompactionFacts
<1> HIDE DEF l
<1>2. GoodFiles(current[l], written) /\ Disjoint(current[l])
  BY <1>1, CurrentGood DEF LsmInv
<1>3. NoSharedKey(f.entries, g.entries)
  BY <1>1 DEF WholeInv, Whole
<1>4. /\ f.smallest \in f.entries /\ f.largest \in f.entries
      /\ g.smallest \in g.entries /\ g.largest \in g.entries
  BY <1>1, <1>2 DEF GoodFiles, FileOK
<1>5. f.largest.k # g.smallest.k /\ f.smallest.k # g.largest.k
  BY <1>3, <1>4 DEF NoSharedKey
<1>6. /\ f.smallest.k \in Int /\ f.largest.k \in Int /\ g.smallest.k \in Int /\ g.largest.k \in Int
  BY <1>1, <1>2, GoodFile
<1>7. Before(f.largest, g.smallest) \/ Before(g.largest, f.smallest)
  BY <1>1, <1>2 DEF Disjoint, Precedes
<1> QED  BY <1>5, <1>6, <1>7 DEF Before

\* Steps that leave version and compaction alone.
LEMMA WholeStays ==
  ASSUME WholeInv, UNCHANGED <<current, compaction>> PROVE WholeInv'
BY DEF WholeInv, Whole, NoSharedKey, OneEach, EntriesIn, InTables

\* A memtable goes below level 0 only where nothing overlaps it.
LEMMA FlushWhole ==
  ASSUME LsmInv, WholeInv, NEW level \in Levels, NEW f \in Files, NEW E, Flushed(level, f, E),
         compaction' = compaction,
         \A l \in Levels : \A g : g \in current'[l] <=> g \in current[l] \/ (l = level /\ g = f)
  PROVE  WholeInv'
<1>1. /\ FileOK(f, written)
      /\ level # 0 => \A l \in 0..level : \A g \in current[l] : ~Overlaps(g, f.smallest.k, f.largest.k)
  BY DEF Flushed
<1>2. ASSUME NEW l \in Levels, l # 0 PROVE Whole(current'[l])
  <2>1. Whole(current[l])
    BY <1>2 DEF WholeInv
  <2>2. ASSUME l = level, NEW g \in current[l]
        PROVE  NoSharedKey(f.entries, g.entries) /\ NoSharedKey(g.entries, f.entries)
    <3>1. l \in 0..level
      BY <2>2, LevelFacts DEF Levels
    <3>2. ~Overlaps(g, f.smallest.k, f.largest.k)
      BY <1>1, <1>2, <2>2, <3>1
    <3> DEFINE F == current[l] \cup {f}
    <3>3. GoodFiles(F, written) /\ f \in F /\ g \in F
      BY <1>1, CurrentGood DEF GoodFiles, LsmInv
    <3> HIDE DEF F
    <3> QED  BY <3>2, <3>3, NoOverlapNoKey
  <2> QED  BY <2>1, <2>2 DEF Whole
<1>3. compaction # None => OneEach(EntriesIn(compaction'.outputs) \cup InTables(compaction'.todo))
  BY DEF WholeInv
<1> QED  BY <1>2, <1>3 DEF WholeInv

\* A file moves to a level where nothing overlaps it.
LEMMA MoveFileWhole ==
  ASSUME LsmInv, WholeInv, MoveFile PROVE WholeInv'
<1> DEFINE c == PickCompaction
           low == c.level
           S == c.inputs0
<1>1. compaction' = None /\ Cardinality(S) = 1 /\ c.inputs1 = {}
  BY DEF MoveFile, IsTrivialMove
<1>2. /\ Ready(c, written)
      /\ \A l \in Levels : \A f : f \in current'[l] <=>
                 \/ f \in current[l] /\ ~(l = low /\ f \in S)
                 \/ l = low + 1 /\ f \in S
  BY MovedLevels
<1>3. /\ low \in 0..(kNumLevels - 2) /\ S \subseteq current[low] /\ S # {}
      /\ {} = Touching(current[low + 1], LowKey(S), HighKey(S))
  BY <1>1, <1>2 DEF Ready
<1>4. ASSUME NEW f \in S, NEW g \in S PROVE f = g
  <2>1. IsFiniteSet(S)
    <3>1. S \in SUBSET Files
      <4>1. low \in Levels
        BY <1>3, LevelFacts
      <4>2. current \in Versions
        BY DEF LsmInv, TypeOK
      <4> QED  BY <1>3, <4>1, <4>2 DEF Versions
    <3> HIDE DEF S
    <3> QED  BY <3>1, FilesFinite, FS_Subset, Zenon
  <2> HIDE DEF S
  <2>2. PICK x : S = {x}
    BY <1>1, <2>1, FS_Singleton
  <2> QED  BY <2>2
<1> HIDE DEF c, low, S
<1>5. low \in Levels /\ low + 1 \in Levels
  BY <1>3, LevelFacts
<1> DEFINE F == current[low] \cup current[low + 1]
           B == current[low + 1]
<1>6. GoodFiles(F, written) /\ S \in SUBSET F /\ B \in SUBSET F
  BY <1>3, <1>5, CurrentGood DEF LsmInv, GoodFiles
<1>7. ASSUME NEW f \in B, NEW g \in S PROVE NoSharedKey(f.entries, g.entries) /\ NoSharedKey(g.entries, f.entries)
  <2>1. f \in B \ Touching(B, LowKey(S), HighKey(S))
    BY <1>3
  <2> HIDE DEF F, B
  <2>2. NoSharedKey(f.entries, g.entries)
    BY <1>3, <1>6, <2>1, OthersShareNothing
  <2> QED  BY <2>2 DEF NoSharedKey
<1>8. ASSUME NEW l \in Levels, l # 0 PROVE Whole(current'[l])
  <2>1. Whole(current[l])
    BY <1>8 DEF WholeInv
  <2>2. \A f \in current'[l] : f \in current[l] \/ (l = low + 1 /\ f \in S)
    BY <1>2
  <2>3. l = low + 1 => current[l] = B
    OBVIOUS
  <2> HIDE DEF B
  <2> QED  BY <1>4, <1>7, <2>1, <2>2, <2>3 DEF Whole
<1> QED  BY <1>1, <1>8 DEF WholeInv

\* Without a snapshot rule (A) drops all but the newest entry of a key.
LEMMA StartCompactionWhole ==
  ASSUME LsmInv, WholeInv, snapshots = <<>>, StartCompaction PROVE WholeInv'
<1> DEFINE c == PickCompaction
           I == c.inputs0
           T == c.inputs1
           low == c.level
           todo == OutputTables(c, smallest_snapshot)
<1>1. /\ NeedsCompaction /\ current' = current
      /\ compaction' = [level |-> low, inputs0 |-> I, inputs1 |-> T, version |-> c.version,
                        todo |-> todo, outputs |-> {}]
  BY DEF StartCompaction, Begin
<1>2. Ready(c, written)
  BY <1>1, PickedReady
<1>3. /\ low \in 0..(kNumLevels - 2) /\ I \subseteq current[low]
      /\ T = Touching(current[low + 1], LowKey(I), HighKey(I))
      /\ GoodFiles(c.grandparents, written) /\ OneNumberEach(c.grandparents)
  BY <1>2 DEF Ready
<1>4. T \subseteq current[low + 1]
  BY <1>3, TouchingIn
<1>5. compaction'.todo = todo /\ compaction'.outputs = {}
  BY <1>1
<1> HIDE DEF c
<1>6. /\ InputEntries(c) \in SUBSET Entries /\ InputEntries(c) \subseteq written /\ Distinct(InputEntries(c))
  <2> DEFINE F == current[low] \cup current[low + 1]
  <2>1. low \in Levels /\ low + 1 \in Levels
    BY <1>3, LevelFacts
  <2>2. GoodFiles(F, written)
    BY <2>1, CurrentGood DEF LsmInv, GoodFiles
  <2>3. I \subseteq F /\ T \subseteq F
    BY <1>3, <1>4
  <2> HIDE DEF F
  <2> QED  BY <2>2, <2>3, InputsWritten
<1>7. PICK oldest : oldest = smallest_snapshot
  OBVIOUS
<1>8. oldest = last_sequence /\ last_sequence \in Nat
  BY <1>7, SeenNumbers DEF smallest_snapshot
<1>9. InTables(todo) = Kept(c, oldest)
  <2>1. Built(OutputTables(c, oldest), {}, {e \in InputEntries(c) : ~Dropped(c, oldest, e)})
    BY <1>3, <1>6, OutputsBuilt
  <2> QED  BY <1>7, <2>1 DEF Built, Kept
<1>10. OneEach(Kept(c, oldest))
  <2> SUFFICES ASSUME NEW d \in Kept(c, oldest), NEW e \in Kept(c, oldest), d.k = e.k PROVE d = e
    BY DEF OneEach
  <2>1. /\ d \in InputEntries(c) /\ ~Dropped(c, oldest, d) /\ e \in InputEntries(c) /\ ~Dropped(c, oldest, e)
    BY DEF Kept
  <2>2. d.s \in Nat /\ e.s \in Nat
    BY <1>6, <2>1, EntryFields
  <2>3. d.s <= oldest /\ e.s <= oldest
    BY <1>6, <1>8, <2>1 DEF LsmInv, EntriesInv
  <2>4. ~(d.s > e.s) /\ ~(e.s > d.s)
    BY <2>1, <2>3 DEF Dropped
  <2>5. d.s = e.s
    BY <2>2, <2>4
  <2> QED  BY <1>6, <2>1, <2>5 DEF Distinct
<1>11. EntriesIn(compaction'.outputs) \cup InTables(compaction'.todo) = Kept(c, oldest)
  <2>1. EntriesIn({}) = {}
    BY DEF EntriesIn
  <2> QED  BY <1>5, <1>9, <2>1
<1>12. \A l \in Levels \ {0} : Whole(current'[l])
  BY <1>1 DEF WholeInv
<1> QED  BY <1>10, <1>11, <1>12 DEF WholeInv

\* A table of the compaction is written.
LEMMA WriteOutputWhole ==
  ASSUME LsmInv, WholeInv, WriteOutput PROVE WholeInv'
<1>1. current' = current /\ compaction # None
  BY DEF WriteOutput
<1>2. OneEach(EntriesIn(compaction'.outputs) \cup InTables(compaction'.todo))
  BY <1>1, OutputWritten DEF WholeInv
<1>3. \A l \in Levels \ {0} : Whole(current'[l])
  BY <1>1 DEF WholeInv
<1> QED  BY <1>2, <1>3 DEF WholeInv

\* The outputs share no key with each other or with the rest of their level.
LEMMA InstallCompactionWhole ==
  ASSUME LsmInv, ReadInv, WholeInv, InstallCompaction PROVE WholeInv'
<1> DEFINE c == compaction
           low == c.level
<1>1. c # None /\ compaction' = None
  BY DEF InstallCompaction
<1>2. \A l \in Levels : \A f : f \in current'[l] <=>
        \/ f \in current[l] /\ ~(l = low /\ f \in c.inputs0) /\ ~(l = low + 1 /\ f \in c.inputs1)
        \/ l = low + 1 /\ f \in c.outputs
  BY InstalledLevels
<1>3. \A f \in current[low + 1] \ c.inputs1 : NoSharedKey(f.entries, InputEntries(c))
  BY <1>1 DEF ReadInv, MergeInv, Beside
<1>4. /\ \A f \in c.outputs : FileOK(f, written) /\ f.entries \subseteq InputEntries(c)
      /\ \A f, g \in c.outputs : f = g \/ Precedes(f, g) \/ Precedes(g, f)
      /\ c.outputs \subseteq Files /\ written \subseteq Entries /\ Distinct(written)
  <2>1. OutputsInv /\ TypeOK /\ EntriesInv
    BY DEF LsmInv
  <2> QED  BY <1>1, <2>1 DEF OutputsInv, TypeOK, EntriesInv, Compactions
<1>5. OneEach(EntriesIn(c.outputs))
  BY <1>1 DEF WholeInv, OneEach
<1> HIDE DEF c, low
<1>6. ASSUME NEW f \in c.outputs, NEW g \in c.outputs, f # g PROVE NoSharedKey(f.entries, g.entries)
  <2> SUFFICES ASSUME NEW d \in f.entries, NEW e \in g.entries, d.k = e.k PROVE FALSE
    BY DEF NoSharedKey
  <2>1. d = e
    BY <1>5 DEF OneEach, EntriesIn
  <2>2. GoodFiles(c.outputs, written)
    BY <1>4 DEF GoodFiles
  <2>3. d \in Entries /\ ~Before(f.largest, d) /\ ~Before(d, g.smallest) /\ ~Before(g.largest, d)
        /\ ~Before(d, f.smallest)
    BY <2>1, <2>2, EntryInFile
  <2>4. f.smallest \in Entries /\ f.largest \in Entries /\ g.smallest \in Entries /\ g.largest \in Entries
    BY <2>2, GoodFile
  <2>5. Before(f.largest, g.smallest) \/ Before(g.largest, f.smallest)
    BY <1>4, <1>6 DEF Precedes
  <2> QED  BY <2>3, <2>4, <2>5, BeforeSplit
<1>7. ASSUME NEW f \in c.outputs, NEW g \in current[low + 1] \ c.inputs1
      PROVE  NoSharedKey(f.entries, g.entries) /\ NoSharedKey(g.entries, f.entries)
  BY <1>3, <1>4 DEF NoSharedKey
<1>8. ASSUME NEW l \in Levels, l # 0 PROVE Whole(current'[l])
  <2>1. Whole(current[l])
    BY <1>8 DEF WholeInv
  <2>2. \A f \in current'[l] : \/ f \in current[l] /\ ~(l = low + 1 /\ f \in c.inputs1)
                               \/ l = low + 1 /\ f \in c.outputs
    BY <1>2
  <2> QED  BY <1>6, <1>7, <2>1, <2>2 DEF Whole
<1> QED  BY <1>1, <1>8 DEF WholeInv

\* No level of an empty database has a file.
LEMMA WholeInit == ASSUME Init PROVE WholeInv
BY DEF Init, WholeInv, Whole

\* Every step from a state without snapshots keeps keys whole.
LEMMA WholeNext ==
  ASSUME LsmInv, ReadInv, WholeInv, snapshots = <<>>, [Next]_vars PROVE WholeInv'
<1>1. CASE Next
  <2>1. ASSUME NEW k \in Keys, NEW t \in Types, Write(k, t) PROVE WholeInv'
    BY <2>1, WholeStays DEF Write
  <2>2. CASE SwitchMemTable
    BY <2>2, WholeStays DEF SwitchMemTable
  <2>3. CASE CompactMemTable
    <3>1. next_file' = next_file + 1 /\ UNCHANGED <<written, compaction>>
      BY <2>3 DEF CompactMemTable
    <3>2. PICK level \in Levels : \E f \in Files : Flushed(level, f, imm)
      BY <2>3, FlushedMemTable
    <3>3. PICK f \in Files : Flushed(level, f, imm)
      BY <3>2
    <3>4. \A l \in Levels : \A g : g \in current'[l] <=> g \in current[l] \/ (l = level /\ g = f)
      BY <3>1, <3>3, FileAdded DEF Flushed
    <3> DEFINE E == imm
    <3>5. Flushed(level, f, E)
      BY <3>3
    <3> HIDE DEF E
    <3> QED  BY <3>1, <3>4, <3>5, FlushWhole
  <2>4. CASE Reopen
    <3>1. /\ compaction' = compaction /\ 0 \in Levels
          /\ \E f \in Files : /\ Flushed(0, f, mem)
                              /\ \A l \in Levels : \A g : g \in current'[l] <=> g \in current[l] \/ (l = 0 /\ g = f)
      BY <2>4, ReopenedFile, LevelFacts DEF Reopen
    <3>2. PICK f \in Files : /\ Flushed(0, f, mem)
                             /\ \A l \in Levels : \A g : g \in current'[l] <=> g \in current[l] \/ (l = 0 /\ g = f)
      BY <3>1
    <3> DEFINE E == mem
               level == 0
    <3>3. /\ level \in Levels /\ Flushed(level, f, E)
          /\ \A l \in Levels : \A g : g \in current'[l] <=> g \in current[l] \/ (l = level /\ g = f)
      BY <3>1, <3>2
    <3> HIDE DEF E, level
    <3> QED  BY <3>1, <3>3, FlushWhole
  <2>5. CASE MoveFile
    BY <2>5, MoveFileWhole
  <2>6. CASE StartCompaction
    BY <2>6, StartCompactionWhole
  <2>7. CASE WriteOutput
    BY <2>7, WriteOutputWhole
  <2>8. CASE InstallCompaction
    BY <2>8, InstallCompactionWhole
  <2>9. CASE GetSnapshot
    BY <2>9, WholeStays DEF GetSnapshot
  <2>10. ASSUME NEW i \in DOMAIN snapshots, ReleaseSnapshot(i) PROVE WholeInv'
    BY <2>10, WholeStays DEF ReleaseSnapshot
  <2>11. ASSUME NEW r \in Readers, BeginRead(r) \/ EndRead(r) PROVE WholeInv'
    BY <2>11, WholeStays DEF BeginRead, EndRead
  <2>12. ASSUME NEW k, NEW s, ChargeGet(k, s) PROVE WholeInv'
    BY <2>12, WholeStays DEF ChargeGet, UpdateStats
  <2>13. ASSUME NEW e, RecordReadSample(e) PROVE WholeInv'
    BY <2>13, WholeStays DEF RecordReadSample, UpdateStats
  <2> QED  BY <1>1, <2>1, <2>2, <2>3, <2>4, <2>5, <2>6, <2>7, <2>8, <2>9, <2>10, <2>11, <2>12, <2>13
           DEF Next
<1>2. CASE UNCHANGED vars
  BY <1>2, WholeStays DEF vars
<1> QED  BY <1>1, <1>2

-----------------------------------------------------------------------------
(***************************************************************************)
(* Results.                                                                *)
(***************************************************************************)

\* A Get and an iterator see the newest entry of every key, now and at every
\* snapshot, whatever is flushed, moved, merged and dropped and in whatever order
\* versions are installed, as long as every compaction takes whole user keys from
\* its output level.
THEOREM ReadsExactIfUnsplit == Spec => UnsplitReadsExact
<1>1. Init => ReadInv
  BY ReadsInit
<1>2. LsmInv /\ LsmInv' /\ ReadInv /\ InputsWhole' /\ [Next]_vars => ReadInv'
  BY ReadsNext
<1>3. LsmInv /\ ReadInv => ReadsExact
  BY ReadInvReads
<1> QED  BY <1>1, <1>2, <1>3, LsmInvariant, PTL DEF Spec, UnsplitReadsExact

\* A database without snapshots needs no such condition: what SetupOtherInputs
\* leaves out of the output level is always whole.
THEOREM ReadsExactWithoutSnapshots == Spec => SnapshotFreeReadsExact
<1> DEFINE NoSnapshots == snapshots = <<>>
<1>1. Init => ReadInv /\ WholeInv
  BY ReadsInit, WholeInit
<1>2. LsmInv /\ ReadInv /\ WholeInv /\ NoSnapshots /\ [Next]_vars => WholeInv'
  BY WholeNext
<1>3. LsmInv /\ WholeInv => InputsWhole
  BY WholeInputs
<1>4. LsmInv /\ LsmInv' /\ ReadInv /\ InputsWhole' /\ [Next]_vars => ReadInv'
  BY ReadsNext
<1>5. LsmInv /\ ReadInv => ReadsExact
  BY ReadInvReads
<1> HIDE DEF NoSnapshots
<1>6. Spec => ([]NoSnapshots => []ReadsExact)
  BY <1>1, <1>2, <1>3, <1>4, <1>5, LsmInvariant, PTL DEF Spec
<1> QED  BY <1>6 DEF NoSnapshots, SnapshotFreeReadsExact
=============================================================================
