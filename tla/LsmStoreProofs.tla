---------------------------- MODULE LsmStoreProofs ----------------------------
(***************************************************************************)
(* Proofs about LsmStore: the types of its state, that no table in use is  *)
(* deleted and that the levels below level 0 stay sorted without overlap,  *)
(* for every set of keys, every limit and any number of levels, files,     *)
(* writes and readers.                                                     *)
(*                                                                         *)
(* The inductive invariant is LsmInv.  Its core is what a running          *)
(* compaction can rely on although a memtable is flushed in the middle of  *)
(* it: the inputs leave no gap (NoGap), so that a new file of the next     *)
(* level that overlaps none of them is before or after all of them, and    *)
(* the outputs, which are cut from the inputs in their order, fit between  *)
(* the other files of that level.  NoGap is what GetOverlappingInputs, its *)
(* restarts in level 0 and AddBoundaryInputs establish.                    *)
(***************************************************************************)
EXTENDS LsmStore, TLAPS, FiniteSetTheorems, NaturalsInduction, WellFoundedInduction

-----------------------------------------------------------------------------
(***************************************************************************)
(* The invariant.                                                          *)
(***************************************************************************)

Distinct(W) == \A a, b \in W : a.s = b.s => a = b

\* Every entry was written, with a sequence number of its own.
EntriesInv ==
  /\ Distinct(written)
  /\ \A e \in written : e.s <= last_sequence
  /\ last_sequence + left.writes <= MaxWrites
  /\ mem \subseteq written /\ imm \subseteq written

\* The bounds of a file are its first and its last entry.
FileOK(f, W) ==
  /\ f.entries \subseteq W
  /\ f.smallest \in f.entries /\ f.largest \in f.entries
  /\ \A e \in f.entries : ~Before(e, f.smallest) /\ ~Before(f.largest, e)

\* A file number is given to one file, and a file is in one level.
Unique(v) ==
  \A l, m \in Levels : \A f \in v[l], g \in v[m] : f.number = g.number => f = g /\ l = m

VersionInv ==
  /\ \A l \in Levels : \A f \in current[l] : FileOK(f, written) /\ f.number < next_file
  /\ Unique(current)

\* What is being written is in use too.
OutputNumbers == IF compaction = None THEN {} ELSE {f.number : f \in compaction.outputs}
DiskInv ==
  /\ NoTableDeletedInUse
  /\ pending_outputs = OutputNumbers
  /\ manual = None

\* The files F leave no gap: a key between two of them is in the range of one.
NoGap(F) ==
  \A k \in Keys : (\E f \in F : f.smallest.k <= k) /\ (\E g \in F : k <= g.largest.k)
                    => \E h \in F : Overlaps(h, k, k)

Precedes(f, g) == Before(f.largest, g.smallest)
Apart(f, F) == (\A g \in F : Precedes(f, g)) \/ (\A g \in F : Precedes(g, f))

\* The inputs of the running compaction are in the current version, whose other
\* files of the next level are before or after all of them.
InputsInv ==
  compaction # None =>
    LET c == compaction
        inputs == c.inputs0 \cup c.inputs1
    IN /\ c.inputs0 \subseteq current[c.level] /\ c.inputs1 \subseteq current[c.level + 1]
       /\ NoGap(inputs)
       /\ \A f \in current[c.level + 1] \ c.inputs1 : Apart(f, inputs)

\* The tables that a compaction has written and those it has still to write
\* are in the order of their entries, which come from the inputs.
OutputsInv ==
  compaction # None =>
    LET c == compaction
    IN /\ \A f \in c.outputs :
            /\ FileOK(f, written) /\ f.entries \subseteq InputEntries(c)
            /\ f.number < next_file /\ f.number \notin NumbersOf(current)
       /\ \A f, g \in c.outputs : f.number = g.number => f = g
       /\ \A f, g \in c.outputs : f = g \/ Precedes(f, g) \/ Precedes(g, f)
       /\ \A i \in DOMAIN c.todo : c.todo[i] \subseteq InputEntries(c)
       /\ \A f \in c.outputs, i \in DOMAIN c.todo : \A e \in c.todo[i] : Before(f.largest, e)
       /\ \A i, j \in DOMAIN c.todo : i < j => \A d \in c.todo[i], e \in c.todo[j] : Before(d, e)

LsmInv ==
  /\ TypeOK /\ EntriesInv /\ VersionInv /\ DiskInv
  /\ LevelsDisjoint /\ InputsInv /\ OutputsInv

-----------------------------------------------------------------------------
(***************************************************************************)
(* Loops.                                                                  *)
(***************************************************************************)

\* A set of numbers with a member has a smallest one.
LEMMA LeastNumber ==
  ASSUME NEW S \in SUBSET Nat, NEW k \in S
  PROVE  \E x \in S : \A y \in S : x <= y
<1>1. PICK x \in S : \A y \in S : ~(<<y, x>> \in OpToRel(<, Nat))
  BY NatLessThanWellFounded, WFMin
<1>2. \A y \in S : x <= y
  <2> TAKE y \in S
  <2>1. x \in Nat /\ y \in Nat
    OBVIOUS
  <2>2. y < x => <<y, x>> \in OpToRel(<, Nat)
    BY <2>1 DEF OpToRel
  <2>3. ~(y < x)
    BY <1>1, <2>2, Zenon
  <2> QED  BY <2>1, <2>3
<1> QED  BY <1>2

\* The recursive function of a loop exists.
After(body, x, n, f) == f = [i \in 0..n |-> IF i = 0 THEN x ELSE body[i][f[i - 1]]]

\* The recursive function that a loop is defined by exists, by induction on its rounds.
LEMMA LoopExists ==
  ASSUME NEW body, NEW x, NEW n \in Nat
  PROVE  \E f : After(body, x, n, f)
<1> DEFINE Bad == {m \in Nat : ~\E f : After(body, x, m, f)}
<1> SUFFICES ASSUME n \in Bad PROVE FALSE
  OBVIOUS
<1>1. PICK m \in Bad : \A k \in Bad : m <= k
  BY LeastNumber, Bad \in SUBSET Nat
<1>2. CASE m = 0
  <2> DEFINE f == [i \in 0..0 |-> x]
  <2>1. After(body, x, 0, f)
    BY DEF After
  <2> QED  BY <1>2, <2>1
<1>3. CASE m # 0
  <2>1. m \in Nat /\ m - 1 \in Nat /\ m - 1 \notin Bad
    BY <1>1, <1>3
  <2>2. PICK g : After(body, x, m - 1, g)
    BY <2>1
  <2> DEFINE f == [i \in 0..m |-> IF i = m THEN body[m][g[m - 1]] ELSE g[i]]
  <2>3. \A i \in 0..(m - 1) : f[i] = g[i]
    BY <2>1
  <2>4. \A i \in 0..m : f[i] = IF i = 0 THEN x ELSE body[i][f[i - 1]]
    <3> TAKE i \in 0..m
    <3>1. CASE i = m
      BY <1>3, <3>1, <2>1, <2>3
    <3>2. CASE i # m
      <4>1. i \in 0..(m - 1) /\ (i # 0 => i - 1 \in 0..(m - 1))
        BY <3>2, <2>1
      <4>2. g[i] = IF i = 0 THEN x ELSE body[i][g[i - 1]]
        BY <4>1, <2>2 DEF After
      <4> QED  BY <4>1, <4>2, <2>3
    <3> QED  BY <3>1, <3>2
  <2>5. After(body, x, m, f)
    <3> HIDE DEF f
    <3>1. f = [i \in 0..m |-> f[i]]
      BY DEF f
    <3> QED  BY <2>4, <3>1 DEF After
  <2> QED  BY <2>5
<1> QED  BY <1>2, <1>3

\* The last round of a loop.
LEMMA LoopUnfolds ==
  ASSUME NEW body, NEW x, NEW n \in Nat
  PROVE  \E f : After(body, x, n, f) /\ Loop(body, x, n) = f[n]
<1> DEFINE f == CHOOSE f : After(body, x, n, f)
<1>1. After(body, x, n, f)
  BY LoopExists
<1>2. Loop(body, x, n) = f[n]
  BY DEF Loop, After
<1> QED  BY <1>1, <1>2

\* What holds at first and is kept by every round holds at the end; P relates
\* the number of a round to the state after it.
LEMMA LoopInduction ==
  ASSUME NEW body, NEW x, NEW n \in Nat, NEW P, <<0, x>> \in P,
         \A i \in 1..n : \A y : <<i - 1, y>> \in P => <<i, body[i][y]>> \in P
  PROVE  <<n, Loop(body, x, n)>> \in P
<1>1. PICK f : After(body, x, n, f) /\ Loop(body, x, n) = f[n]
  BY LoopUnfolds
<1> DEFINE Bad == {m \in 0..n : <<m, f[m]>> \notin P}
<1>2. Bad = {}
  <2> SUFFICES ASSUME NEW k \in Bad PROVE FALSE
    OBVIOUS
  <2>1. PICK m \in Bad : \A j \in Bad : m <= j
    BY LeastNumber, Bad \in SUBSET Nat
  <2>2. f[0] = x
    BY <1>1 DEF After
  <2>3. m # 0
    BY <2>2
  <2>4. m \in 1..n /\ m - 1 \in 0..n /\ m - 1 \notin Bad
    BY <2>1, <2>3
  <2>5. f[m] = body[m][f[m - 1]]
    BY <1>1, <2>4 DEF After
  <2>6. <<m - 1, f[m - 1]>> \in P
    BY <2>4
  <2> QED  BY <2>4, <2>5, <2>6
<1>3. n \in 0..n
  OBVIOUS
<1> QED  BY <1>1, <1>2, <1>3

\* What every round keeps, the loop keeps.
LEMMA LoopKeeps ==
  ASSUME NEW body, NEW x, NEW n \in Nat, NEW D, x \in D,
         \A i \in 1..n : \A y \in D : body[i][y] \in D
  PROVE  Loop(body, x, n) \in D
<1> DEFINE P == (0..n) \X D
<1>1. <<0, x>> \in P
  OBVIOUS
<1>2. \A i \in 1..n : \A y : <<i - 1, y>> \in P => <<i, body[i][y]>> \in P
  OBVIOUS
<1> HIDE DEF P
<1>3. <<n, Loop(body, x, n)>> \in P
  BY <1>1, <1>2, LoopInduction
<1> QED  BY <1>3 DEF P

-----------------------------------------------------------------------------
(***************************************************************************)
(* Sorting.                                                                *)
(***************************************************************************)

StrictOrder(S, R) ==
  /\ \A a \in S : <<a, a>> \notin R
  /\ \A a, b, c \in S : <<a, b>> \in R /\ <<b, c>> \in R => <<a, c>> \in R
  /\ \A a, b \in S : a = b \/ <<a, b>> \in R \/ <<b, a>> \in R

Below(S, R, e) == {d \in S : <<d, e>> \in R}

\* An element has more elements below it than one below it has.
LEMMA RankGrows ==
  ASSUME NEW S, NEW R, IsFiniteSet(S), StrictOrder(S, R),
         NEW a \in S, NEW b \in S, <<a, b>> \in R
  PROVE  /\ Cardinality(Below(S, R, a)) \in Nat /\ Cardinality(Below(S, R, b)) \in Nat
         /\ Cardinality(Below(S, R, a)) < Cardinality(Below(S, R, b))
<1>1. Below(S, R, a) \subseteq Below(S, R, b) /\ a \in Below(S, R, b) /\ a \notin Below(S, R, a)
  BY Zenon DEF StrictOrder, Below
<1>2. IsFiniteSet(Below(S, R, b))
  BY FS_Subset, Below(S, R, b) \in SUBSET S, Zenon DEF Below
<1>3. /\ IsFiniteSet(Below(S, R, a))
      /\ Cardinality(Below(S, R, a)) <= Cardinality(Below(S, R, b))
      /\ Cardinality(Below(S, R, b)) = Cardinality(Below(S, R, a)) => Below(S, R, b) = Below(S, R, a)
  BY <1>1, <1>2, FS_Subset, Below(S, R, a) \in SUBSET Below(S, R, b), Zenon
<1>4. Cardinality(Below(S, R, a)) \in Nat /\ Cardinality(Below(S, R, b)) \in Nat
  BY <1>2, <1>3, FS_CardinalityType
<1>5. Cardinality(Below(S, R, b)) # Cardinality(Below(S, R, a))
  BY <1>1, <1>3, Zenon
<1> HIDE DEF Below
<1> QED  BY <1>3, <1>4, <1>5

\* The rank of an element is less than the number of elements.
LEMMA Ranked ==
  ASSUME NEW S, NEW R, IsFiniteSet(S), StrictOrder(S, R), NEW a \in S
  PROVE  Cardinality(Below(S, R, a)) \in 0..(Cardinality(S) - 1)
<1>1. Below(S, R, a) \in SUBSET (S \ {a})
  BY Zenon DEF StrictOrder, Below
<1>2. IsFiniteSet(S \ {a}) /\ Cardinality(S \ {a}) = Cardinality(S) - 1
  BY FS_RemoveElement, Zenon
<1>3. IsFiniteSet(Below(S, R, a)) /\ Cardinality(Below(S, R, a)) <= Cardinality(S \ {a})
  BY <1>1, <1>2, FS_Subset, Zenon
<1>4. Cardinality(Below(S, R, a)) \in Nat /\ Cardinality(S) \in Nat
  BY <1>3, FS_CardinalityType
<1> QED  BY <1>2, <1>3, <1>4

\* Every rank below the size of S is taken.
LEMMA RanksTaken ==
  ASSUME NEW S, NEW R, IsFiniteSet(S), StrictOrder(S, R)
  PROVE  /\ Cardinality(S) \in Nat
         /\ \A i \in 1..Cardinality(S) : \E e \in S : Cardinality(Below(S, R, e)) = i - 1
<1> DEFINE n == Cardinality(S)
           rank == [e \in S |-> Cardinality(Below(S, R, e)) + 1]
<1>1. n \in Nat
  BY FS_CardinalityType
<1>2. rank \in [S -> 1..n]
  <2> SUFFICES ASSUME NEW e \in S PROVE Cardinality(Below(S, R, e)) + 1 \in 1..n
    OBVIOUS
  <2>1. Cardinality(Below(S, R, e)) \in 0..(n - 1)
    BY Ranked
  <2> QED  BY <1>1, <2>1
<1>3. \A a, b \in S : rank[a] = rank[b] => a = b
  <2> SUFFICES ASSUME NEW a \in S, NEW b \in S, a # b PROVE rank[a] # rank[b]
    OBVIOUS
  <2>1. CASE <<a, b>> \in R
    <3>1. /\ Cardinality(Below(S, R, a)) \in Nat /\ Cardinality(Below(S, R, b)) \in Nat
          /\ Cardinality(Below(S, R, a)) < Cardinality(Below(S, R, b))
      BY <2>1, RankGrows
    <3> QED  BY <3>1
  <2>2. CASE <<b, a>> \in R
    <3>1. /\ Cardinality(Below(S, R, b)) \in Nat /\ Cardinality(Below(S, R, a)) \in Nat
          /\ Cardinality(Below(S, R, b)) < Cardinality(Below(S, R, a))
      BY <2>2, RankGrows
    <3> QED  BY <3>1
  <2> QED  BY <2>1, <2>2 DEF StrictOrder
<1>4. rank \in Injection(S, 1..n)
  <2> HIDE DEF rank, n
  <2> QED  BY <1>2, <1>3 DEF Injection, IsInjective
<1>5. IsFiniteSet(1..n) /\ Cardinality(1..n) = n
  BY <1>1, FS_Interval
<1>6. rank \in Surjection(S, 1..n)
  <2> HIDE DEF rank
  <2> QED  BY <1>4, <1>5, FS_Injection
<1>7. \A i \in 1..n : \E e \in S : rank[e] = i
  <2> HIDE DEF rank
  <2> QED  BY <1>6 DEF Surjection
<1>8. ASSUME NEW i \in 1..n PROVE \E e \in S : Cardinality(Below(S, R, e)) = i - 1
  <2>1. PICK e \in S : rank[e] = i
    BY <1>7
  <2>2. Cardinality(Below(S, R, e)) \in 0..(n - 1)
    BY Ranked
  <2>3. Cardinality(Below(S, R, e)) = i - 1
    BY <2>1, <2>2, <1>1
  <2> QED  BY <2>3
<1> QED  BY <1>1, <1>8

\* SortedBy lists S in the order of R.
LEMMA SortedOrder ==
  ASSUME NEW S, NEW R, IsFiniteSet(S), StrictOrder(S, R)
  PROVE  LET q == SortedBy(S, R)
             n == Cardinality(S)
         IN /\ n \in Nat /\ q \in [1..n -> S] /\ q \in Seq(S) /\ Len(q) = n /\ DOMAIN q = 1..n
            /\ \A e \in S : \E i \in 1..n : q[i] = e
            /\ \A i, j \in 1..n : i < j <=> <<q[i], q[j]>> \in R
<1> DEFINE q == SortedBy(S, R)
           n == Cardinality(S)
           rank(e) == Cardinality(Below(S, R, e))
<1>1. n \in Nat /\ \A i \in 1..n : \E e \in S : rank(e) = i - 1
  BY RanksTaken
<1>2. q = [i \in 1..n |-> CHOOSE e \in S : rank(e) = i - 1]
  BY DEF SortedBy, Below
<1>3. \A i \in 1..n : q[i] \in S /\ rank(q[i]) = i - 1
  <2> TAKE i \in 1..n
  <2> DEFINE e == CHOOSE e \in S : rank(e) = i - 1
  <2>1. e \in S /\ rank(e) = i - 1
    BY <1>1
  <2>2. q[i] = e
    BY <1>2
  <2> QED  BY <2>1, <2>2
<1>4. q \in [1..n -> S]
  BY <1>2, <1>3
<1> HIDE DEF q, n, rank
<1>5. q \in Seq(S) /\ Len(q) = n /\ DOMAIN q = 1..n
  BY <1>1, <1>4
<1>6. \A a, b \in S : <<a, b>> \in R => rank(a) \in Nat /\ rank(b) \in Nat /\ rank(a) < rank(b)
  BY RankGrows DEF rank
<1>7. \A i, j \in 1..n : i < j <=> <<q[i], q[j]>> \in R
  <2> TAKE i, j \in 1..n
  <2>1. q[i] \in S /\ q[j] \in S /\ rank(q[i]) = i - 1 /\ rank(q[j]) = j - 1
    BY <1>3
  <2>2. <<q[i], q[j]>> \in R => i < j
    <3> SUFFICES ASSUME <<q[i], q[j]>> \in R PROVE i < j
      OBVIOUS
    <3>1. rank(q[i]) < rank(q[j])
      BY <2>1, <1>6
    <3> QED  BY <2>1, <3>1, <1>1
  <2>3. <<q[j], q[i]>> \in R => j < i
    <3> SUFFICES ASSUME <<q[j], q[i]>> \in R PROVE j < i
      OBVIOUS
    <3>1. rank(q[j]) < rank(q[i])
      BY <2>1, <1>6
    <3> QED  BY <2>1, <3>1, <1>1
  <2>4. i < j => <<q[i], q[j]>> \in R
    <3> SUFFICES ASSUME i < j PROVE <<q[i], q[j]>> \in R
      OBVIOUS
    <3>1. i # j /\ ~(j < i) /\ i - 1 # j - 1
      BY <1>1
    <3>2. q[i] # q[j]
      BY <2>1, <3>1
    <3> QED  BY <2>1, <2>3, <3>1, <3>2 DEF StrictOrder
  <2> QED  BY <2>2, <2>4
<1>8. \A e \in S : \E i \in 1..n : q[i] = e
  <2> TAKE e \in S
  <2>1. rank(e) \in 0..(n - 1)
    BY Ranked DEF rank, n
  <2>2. PICK i \in 1..n : rank(e) = i - 1
    BY <1>1, <2>1
  <2>3. q[i] \in S /\ rank(q[i]) = rank(e) /\ rank(e) \in Nat
    BY <1>3, <2>1, <2>2
  <2>4. ~(<<q[i], e>> \in R) /\ ~(<<e, q[i]>> \in R)
    BY <2>3, <1>6
  <2>5. q[i] = e
    BY <2>3, <2>4 DEF StrictOrder
  <2> QED  BY <2>5
<1> QED  BY <1>1, <1>4, <1>5, <1>7, <1>8 DEF q, n

-----------------------------------------------------------------------------
(***************************************************************************)
(* Entries and files.                                                      *)
(***************************************************************************)

\* The fields of an entry.
LEMMA EntryFields ==
  ASSUME NEW e \in Entries
  PROVE  e.k \in Keys /\ e.k \in Int /\ e.s \in Nat /\ e.s \in 1..MaxWrites /\ e.t \in Types
<1>1. e.k \in Keys /\ e.s \in 1..MaxWrites /\ e.t \in Types
  BY DEF Entries
<1>2. Keys \subseteq Int /\ MaxWrites \in Nat
  BY LsmAssumption
<1>3. e.k \in Int
  BY <1>1, <1>2
<1>4. e.s \in Nat
  BY <1>1, <1>2
<1> QED  BY <1>1, <1>3, <1>4, Zenon

\* The fields of a file.
LEMMA FileFields ==
  ASSUME NEW f \in Files
  PROVE  /\ f.number \in 1..MaxFiles /\ f.number \in Nat /\ f.entries \in SUBSET Entries
         /\ f.smallest \in Entries /\ f.largest \in Entries
BY LsmAssumption DEF Files

\* There are finitely many entries.
LEMMA EntriesFinite == IsFiniteSet(Entries)
<1> DEFINE D == Keys \X ((1..MaxWrites) \X Types)
           f == [p \in D |-> [k |-> p[1], s |-> p[2][1], t |-> p[2][2]]]
<1>1. IsFiniteSet(1..MaxWrites)
  BY FS_Interval, LsmAssumption
<1>2. IsFiniteSet(Types)
  <2>1. IsFiniteSet({"value"}) /\ {"value"} \cup {"deletion"} = Types
    BY FS_Singleton DEF Types
  <2> QED  BY <2>1, FS_AddElement
<1>3. IsFiniteSet((1..MaxWrites) \X Types)
  BY <1>1, <1>2, FS_Product
<1>4. IsFiniteSet(D)
  BY <1>3, FS_Product, LsmAssumption
<1>5. f \in [D -> Entries]
  BY DEF Entries
<1>6. \A e \in Entries : \E p \in D : f[p] = e
  <2> TAKE e \in Entries
  <2>1. e.k \in Keys /\ e.s \in 1..MaxWrites /\ e.t \in Types /\ e = [k |-> e.k, s |-> e.s, t |-> e.t]
    BY DEF Entries
  <2> DEFINE p == <<e.k, <<e.s, e.t>>>>
  <2>2. p \in D
    BY <2>1
  <2>3. f[p] = e
    BY <2>1, <2>2
  <2> QED  BY <2>2, <2>3
<1>7. f \in Surjection(D, Entries)
  <2> HIDE DEF D, f
  <2> QED  BY <1>5, <1>6 DEF Surjection
<1> HIDE DEF D, f
<1> QED  BY <1>4, <1>7, FS_Surjection

\* There are finitely many files.
LEMMA FilesFinite == IsFiniteSet(Files)
<1> DEFINE D == (1..MaxFiles) \X ((SUBSET Entries) \X (Entries \X Entries))
           f == [p \in D |-> [number |-> p[1], entries |-> p[2][1],
                              smallest |-> p[2][2][1], largest |-> p[2][2][2]]]
<1>1. IsFiniteSet(1..MaxFiles)
  BY FS_Interval, LsmAssumption
<1>2. IsFiniteSet(SUBSET Entries) /\ IsFiniteSet(Entries \X Entries)
  BY EntriesFinite, FS_SUBSET, FS_Product
<1>3. IsFiniteSet((SUBSET Entries) \X (Entries \X Entries))
  BY <1>2, FS_Product
<1>4. IsFiniteSet(D)
  BY <1>1, <1>3, FS_Product
<1>5. f \in [D -> Files]
  BY DEF Files
<1>6. \A e \in Files : \E p \in D : f[p] = e
  <2> TAKE e \in Files
  <2>1. /\ e.number \in 1..MaxFiles /\ e.entries \in SUBSET Entries
        /\ e.smallest \in Entries /\ e.largest \in Entries
        /\ e = [number |-> e.number, entries |-> e.entries,
                smallest |-> e.smallest, largest |-> e.largest]
    BY DEF Files
  <2> DEFINE p == <<e.number, <<e.entries, <<e.smallest, e.largest>>>>>>
  <2>2. p \in D
    BY <2>1
  <2>3. f[p] = e
    BY <2>1, <2>2
  <2> QED  BY <2>2, <2>3
<1>7. f \in Surjection(D, Files)
  <2> HIDE DEF D, f
  <2> QED  BY <1>5, <1>6 DEF Surjection
<1> HIDE DEF D, f
<1> QED  BY <1>4, <1>7, FS_Surjection

\* Before compares user keys, then sequence numbers.
LEMMA BeforeOrder ==
  ASSUME NEW a \in Entries, NEW b \in Entries, NEW c \in Entries
  PROVE  /\ ~Before(a, a)
         /\ Before(a, b) => ~Before(b, a)
         /\ Before(a, b) /\ Before(b, c) => Before(a, c)
         /\ Before(a, b) /\ ~Before(c, b) => Before(a, c)
         /\ ~Before(b, a) /\ Before(b, c) => Before(a, c)
         /\ ~Before(b, a) /\ ~Before(c, b) => ~Before(c, a)
         /\ a.k < b.k => Before(a, b)
         /\ ~Before(b, a) => a.k <= b.k
         /\ ~Before(a, b) /\ ~Before(b, a) => a.s = b.s
BY EntryFields DEF Before

EntryOrder(E) == {p \in E \X E : Before(p[1], p[2])}

\* Entries with different sequence numbers are in a strict order.
LEMMA EntriesOrdered ==
  ASSUME NEW E \in SUBSET Entries, Distinct(E)
  PROVE  IsFiniteSet(E) /\ StrictOrder(E, EntryOrder(E))
<1>1. IsFiniteSet(E)
  BY EntriesFinite, FS_Subset
<1>2. \A a, b \in E : <<a, b>> \in EntryOrder(E) <=> Before(a, b)
  BY DEF EntryOrder
<1>3. \A a, b \in E : a = b \/ Before(a, b) \/ Before(b, a)
  BY BeforeOrder DEF Distinct
<1>4. \A a, b, c \in E : ~Before(a, a) /\ (Before(a, b) /\ Before(b, c) => Before(a, c))
  BY BeforeOrder
<1> QED  BY <1>1, <1>2, <1>3, <1>4, Zenon DEF StrictOrder

\* A finite set in a strict order has a first and a last element.
LEMMA FirstAndLast ==
  ASSUME NEW S, NEW R, IsFiniteSet(S), StrictOrder(S, R), S # {}
  PROVE  /\ \E e \in S : \A d \in S : d = e \/ <<e, d>> \in R
         /\ \E e \in S : \A d \in S : d = e \/ <<d, e>> \in R
<1> DEFINE q == SortedBy(S, R)
           n == Cardinality(S)
<1>1. /\ n \in Nat /\ q \in [1..n -> S]
      /\ \A e \in S : \E i \in 1..n : q[i] = e
      /\ \A i, j \in 1..n : i < j <=> <<q[i], q[j]>> \in R
  BY SortedOrder
<1> HIDE DEF q, n
<1>2. 1 \in 1..n /\ n \in 1..n
  BY <1>1
<1>3. \A d \in S : (d = q[1] \/ <<q[1], d>> \in R) /\ (d = q[n] \/ <<d, q[n]>> \in R)
  <2> TAKE d \in S
  <2>1. PICK i \in 1..n : q[i] = d
    BY <1>1
  <2>2. (i = 1 \/ 1 < i) /\ (i = n \/ i < n)
    BY <1>1, <2>1
  <2> QED  BY <1>1, <1>2, <2>1, <2>2
<1>4. q[1] \in S /\ q[n] \in S
  BY <1>1, <1>2
<1> QED  BY <1>3, <1>4

\* A new table has the entries it is made of, and their bounds.
LEMMA NewFileOK ==
  ASSUME NEW W \in SUBSET Entries, Distinct(W), NEW E \in SUBSET W, E # {}, NEW n \in 1..MaxFiles
  PROVE  /\ NewFile(n, E) \in Files /\ FileOK(NewFile(n, E), W)
         /\ NewFile(n, E).number = n /\ NewFile(n, E).entries = E
<1> DEFINE first == CHOOSE e \in E : \A d \in E : d = e \/ Before(e, d)
           last == CHOOSE e \in E : \A d \in E : d = e \/ Before(d, e)
<1>1. E \in SUBSET Entries /\ Distinct(E)
  BY DEF Distinct
<1> DEFINE R == EntryOrder(E)
<1>2. IsFiniteSet(E) /\ StrictOrder(E, R)
  BY <1>1, EntriesOrdered
<1>3. \A a, b \in E : <<a, b>> \in R <=> Before(a, b)
  BY DEF EntryOrder
<1> HIDE DEF R
<1>a. /\ \E e \in E : \A d \in E : d = e \/ <<e, d>> \in R
      /\ \E e \in E : \A d \in E : d = e \/ <<d, e>> \in R
  BY <1>2, FirstAndLast
<1>4. first \in E /\ \A d \in E : d = first \/ Before(first, d)
  <2>1. \E e \in E : \A d \in E : d = e \/ Before(e, d)
    BY <1>a, <1>3, Zenon
  <2> QED  BY <2>1
<1>5. last \in E /\ \A d \in E : d = last \/ Before(d, last)
  <2>1. \E e \in E : \A d \in E : d = e \/ Before(d, e)
    BY <1>a, <1>3, Zenon
  <2> QED  BY <2>1
<1>6. NewFile(n, E) = [number |-> n, entries |-> E, smallest |-> first, largest |-> last]
  BY DEF NewFile
<1> HIDE DEF first, last
<1>7. NewFile(n, E) \in Files
  BY <1>1, <1>4, <1>5, <1>6 DEF Files
<1>8. \A d \in E : ~Before(d, first) /\ ~Before(last, d)
  BY <1>1, <1>4, <1>5, BeforeOrder
<1>9. /\ NewFile(n, E).number = n /\ NewFile(n, E).entries = E
      /\ NewFile(n, E).smallest = first /\ NewFile(n, E).largest = last
  BY <1>6
<1>10. FileOK(NewFile(n, E), W)
  BY <1>4, <1>5, <1>8, <1>9 DEF FileOK
<1> QED  BY <1>7, <1>9, <1>10

\* BySmallestKey orders files with numbers of their own.
OneNumberEach(F) == \A f, g \in F : f.number = g.number => f = g

FileOrder(F) == {p \in F \X F : BySmallestKey(p[1], p[2])}

\* Files with numbers of their own are in a strict order.
LEMMA FilesOrdered ==
  ASSUME NEW F \in SUBSET Files, NEW W \in SUBSET Entries, Distinct(W),
         \A f \in F : FileOK(f, W), OneNumberEach(F)
  PROVE  IsFiniteSet(F) /\ StrictOrder(F, FileOrder(F))
<1>1. IsFiniteSet(F)
  BY FilesFinite, FS_Subset
<1>2. \A f, g \in F : <<f, g>> \in FileOrder(F) <=> BySmallestKey(f, g)
  BY DEF FileOrder
<1>3. \A f \in F : f.smallest \in W /\ f.smallest \in Entries /\ f.number \in Nat
  BY FileFields DEF FileOK
<1>4. \A f \in F : ~BySmallestKey(f, f)
  <2> TAKE f \in F
  <2>1. ~(f.number < f.number)
    BY <1>3
  <2> QED  BY <1>3, <2>1, BeforeOrder DEF BySmallestKey
<1>5. \A f, g, h \in F : BySmallestKey(f, g) /\ BySmallestKey(g, h) => BySmallestKey(f, h)
  <2> TAKE f, g, h \in F
  <2>1. f.number < g.number /\ g.number < h.number => f.number < h.number
    BY <1>3
  <2>2. Before(f.smallest, g.smallest) /\ Before(g.smallest, h.smallest) => Before(f.smallest, h.smallest)
    BY <1>3, BeforeOrder
  <2> QED  BY <2>1, <2>2, Zenon DEF BySmallestKey
<1>6. \A f, g \in F : f = g \/ BySmallestKey(f, g) \/ BySmallestKey(g, f)
  <2> TAKE f, g \in F
  <2>1. f.smallest = g.smallest \/ Before(f.smallest, g.smallest) \/ Before(g.smallest, f.smallest)
    BY <1>3, BeforeOrder DEF Distinct
  <2>2. f.number = g.number \/ f.number < g.number \/ g.number < f.number
    BY <1>3
  <2> QED  BY <2>1, <2>2, Zenon DEF BySmallestKey, OneNumberEach
<1> QED  BY <1>1, <1>2, <1>4, <1>5, <1>6, Zenon DEF StrictOrder

-----------------------------------------------------------------------------
(***************************************************************************)
(* Ranges of keys.                                                         *)
(***************************************************************************)

\* The least and the greatest of some keys.
LEMMA KeyBounds ==
  ASSUME NEW S \in SUBSET Keys, S # {}
  PROVE  Min(S) \in S /\ Max(S) \in S /\ \A x \in S : Min(S) <= x /\ x <= Max(S)
<1> DEFINE R == {p \in S \X S : p[1] < p[2]}
<1>0. IsFiniteSet(S)
  BY LsmAssumption, FS_Subset
<1>1. S \subseteq Int
  BY LsmAssumption
<1>2. \A a, b \in S : <<a, b>> \in R <=> a < b
  OBVIOUS
<1> HIDE DEF R
<1>3. \A a, b, c \in S : ~(a < a) /\ (a < b /\ b < c => a < c) /\ (a = b \/ a < b \/ b < a)
  BY <1>1
<1>4. StrictOrder(S, R)
  BY <1>2, <1>3, Zenon DEF StrictOrder
<1>5. /\ \E e \in S : \A d \in S : d = e \/ <<e, d>> \in R
      /\ \E e \in S : \A d \in S : d = e \/ <<d, e>> \in R
  BY <1>0, <1>4, FirstAndLast
<1>6. \E e \in S : \A d \in S : e <= d
  <2>1. PICK e \in S : \A d \in S : d = e \/ <<e, d>> \in R
    BY <1>5
  <2>2. \A d \in S : d = e \/ e < d
    BY <1>2, <2>1, Zenon
  <2> QED  BY <1>1, <2>2
<1>7. \E e \in S : \A d \in S : e >= d
  <2>1. PICK e \in S : \A d \in S : d = e \/ <<d, e>> \in R
    BY <1>5
  <2>2. \A d \in S : d = e \/ d < e
    BY <1>2, <2>1, Zenon
  <2> QED  BY <1>1, <2>2
<1>8. Min(S) \in S /\ \A d \in S : Min(S) <= d
  BY <1>6 DEF Min
<1>9. Max(S) \in S /\ \A d \in S : Max(S) >= d
  BY <1>7 DEF Max
<1>10. \A d \in S : d <= Max(S)
  BY <1>1, <1>9
<1> QED  BY <1>8, <1>9, <1>10

\* Files whose entries were written.
GoodFiles(F, W) ==
  W \subseteq Entries /\ Distinct(W) /\ F \subseteq Files /\ \A f \in F : FileOK(f, W)

\* What the bounds of a file are.
LEMMA GoodFile ==
  ASSUME NEW F, NEW W, GoodFiles(F, W), NEW f \in F
  PROVE  /\ f \in Files /\ f.number \in Nat
         /\ f.smallest \in Entries /\ f.largest \in Entries
         /\ f.smallest \in W /\ f.largest \in W /\ f.entries \subseteq W
         /\ f.smallest.k \in Keys /\ f.largest.k \in Keys
         /\ f.smallest.k \in Int /\ f.largest.k \in Int /\ f.smallest.k <= f.largest.k
         /\ ~Before(f.largest, f.smallest)
<1>1. f \in Files /\ FileOK(f, W)
  BY DEF GoodFiles
<1>2. f.smallest \in Entries /\ f.largest \in Entries /\ f.number \in Nat
  BY <1>1, FileFields
<1>3. f.smallest \in W /\ f.largest \in W /\ f.entries \subseteq W /\ ~Before(f.largest, f.smallest)
  BY <1>1 DEF FileOK
<1>4. f.smallest.k <= f.largest.k
  BY <1>2, <1>3, BeforeOrder
<1>5. f.smallest.k \in Keys /\ f.largest.k \in Keys /\ f.smallest.k \in Int /\ f.largest.k \in Int
  BY <1>2, EntryFields
<1> QED  BY <1>1, <1>2, <1>3, <1>4, <1>5

\* Files of two good sets are good.
LEMMA GoodUnion ==
  ASSUME NEW F, NEW G, NEW W, GoodFiles(F, W), GoodFiles(G, W)
  PROVE  GoodFiles(F \cup G, W)
BY DEF GoodFiles

\* Some of the files of a good set are good.
LEMMA GoodSubset ==
  ASSUME NEW F, NEW G \in SUBSET F, NEW W, GoodFiles(F, W)
  PROVE  GoodFiles(G, W)
BY DEF GoodFiles

\* The range of a set of files.
LEMMA Hull ==
  ASSUME NEW F, NEW W, GoodFiles(F, W), F # {}
  PROVE  /\ LowKey(F) \in Keys /\ HighKey(F) \in Keys /\ LowKey(F) \in Int /\ HighKey(F) \in Int
         /\ \E a \in F : a.smallest.k = LowKey(F)
         /\ \E b \in F : b.largest.k = HighKey(F)
         /\ \A f \in F : LowKey(F) <= f.smallest.k /\ f.largest.k <= HighKey(F)
<1> DEFINE L == {f.smallest.k : f \in F}
           H == {f.largest.k : f \in F}
<1>1. L \in SUBSET Keys /\ H \in SUBSET Keys /\ L # {} /\ H # {}
  BY GoodFile
<1>2. LowKey(F) = Min(L) /\ HighKey(F) = Max(H)
  BY DEF LowKey, HighKey
<1>3. Min(L) \in L /\ \A x \in L : Min(L) <= x
  BY <1>1, KeyBounds
<1>4. Max(H) \in H /\ \A x \in H : x <= Max(H)
  BY <1>1, KeyBounds
<1>5. Keys \subseteq Int
  BY LsmAssumption
<1> QED  BY <1>1, <1>2, <1>3, <1>4, <1>5

\* A file on one side of a key, and those that reach to it.
LEMMA FileBelow ==
  ASSUME NEW G, NEW W, GoodFiles(G, W), NEW k \in Keys, NEW f \in G, ~Overlaps(f, k, k)
  PROVE  /\ f.smallest.k <= k => \A b \in G : b.smallest.k <= f.largest.k => b.smallest.k <= k
         /\ k <= f.largest.k => \A a \in G : f.smallest.k <= a.largest.k => k <= a.largest.k
<1>1. k \in Int
  BY LsmAssumption
<1>2. \A h \in G : h.smallest.k \in Int /\ h.largest.k \in Int
  BY GoodFile
<1> QED  BY <1>1, <1>2 DEF Overlaps


\* Files that reach into the range of F leave no gap if F does not.
LEMMA NoGapGrows ==
  ASSUME NEW F, NEW G, NEW W, GoodFiles(G, W), NoGap(F), F \subseteq G,
         \A g \in G : /\ \E a \in F : g.smallest.k <= a.largest.k
                      /\ \E b \in F : b.smallest.k <= g.largest.k
  PROVE  NoGap(G)
<1> SUFFICES ASSUME NEW k \in Keys, NEW f \in G, f.smallest.k <= k, NEW g \in G, k <= g.largest.k,
                    ~\E h \in G : Overlaps(h, k, k)
             PROVE  FALSE
  BY DEF NoGap
<1>4. PICK b \in F : b.smallest.k <= f.largest.k
  OBVIOUS
<1>5. PICK a \in F : g.smallest.k <= a.largest.k
  OBVIOUS
<1>6. b \in G /\ a \in G
  OBVIOUS
<1>7. b.smallest.k <= k
  BY <1>4, <1>6, FileBelow, Zenon
<1>8. k <= a.largest.k
  BY <1>5, <1>6, FileBelow, Zenon
<1>9. \E h \in F : Overlaps(h, k, k)
  BY <1>7, <1>8, Zenon DEF NoGap
<1> QED  BY <1>9

-----------------------------------------------------------------------------
(***************************************************************************)
(* The inputs of a compaction.                                             *)
(***************************************************************************)

\* A loop of no rounds.
LEMMA LoopZero == ASSUME NEW body, NEW x PROVE Loop(body, x, 0) = x
<1>1. PICK f : After(body, x, 0, f) /\ Loop(body, x, 0) = f[0]
  BY LoopUnfolds
<1> QED  BY <1>1 DEF After

\* Below level 0 the files found are those that overlap the range.
LEMMA OverlappingBelow ==
  ASSUME NEW v, NEW level, level # 0, NEW lo, NEW hi
  PROVE  GetOverlappingInputs(v, level, lo, hi) = Touching(v[level], lo, hi)
BY LoopZero DEF GetOverlappingInputs

\* What each round of the search in level 0 keeps, its result has.
LEMMA OverlappingKeeps ==
  ASSUME NEW v, IsFiniteSet(v[0]), NEW lo, NEW hi, NEW D \in SUBSET SUBSET v[0],
         Touching(v[0], lo, hi) \in D,
         \A S \in D : S # {} /\ Touching(v[0], Min({lo, LowKey(S)}), Max({hi, HighKey(S)})) \in D
  PROVE  GetOverlappingInputs(v, 0, lo, hi) \in D
<1> DEFINE n == Cardinality(v[0])
           widen == [S \in SUBSET v[0] |->
             IF S = {} THEN {} ELSE Touching(v[0], Min({lo, LowKey(S)}), Max({hi, HighKey(S)}))]
           body == [i \in 1..n |-> widen]
<1>1. n \in Nat
  BY FS_CardinalityType
<1>2. \A S \in D : widen[S] \in D
  OBVIOUS
<1>3. GetOverlappingInputs(v, 0, lo, hi) = Loop(body, Touching(v[0], lo, hi), n)
  BY DEF GetOverlappingInputs
<1> HIDE DEF widen, n
<1>4. \A i \in 1..n : \A S \in D : body[i][S] \in D
  BY <1>2
<1> HIDE DEF body
<1> QED  BY <1>1, <1>3, <1>4, LoopKeeps

\* The files that touch a range.
LEMMA TouchingIn ==
  ASSUME NEW F, NEW lo, NEW hi
  PROVE  /\ Touching(F, lo, hi) \subseteq F
         /\ \A f \in F : f \in Touching(F, lo, hi) <=> lo <= f.largest.k /\ f.smallest.k <= hi
BY DEF Touching, Overlaps

\* The smaller and the larger of two keys.
LEMMA TwoKeys ==
  ASSUME NEW a \in Keys, NEW b \in Keys
  PROVE  /\ Min({a, b}) \in {a, b} /\ Min({a, b}) <= a /\ Min({a, b}) <= b
         /\ Max({a, b}) \in {a, b} /\ a <= Max({a, b}) /\ b <= Max({a, b})
<1> DEFINE S == {a, b}
<1>1. S \in SUBSET Keys /\ S # {} /\ a \in S /\ b \in S
  OBVIOUS
<1> HIDE DEF S
<1>2. Min(S) \in S /\ Max(S) \in S /\ \A x \in S : Min(S) <= x /\ x <= Max(S)
  BY <1>1, KeyBounds
<1>3. /\ Min(S) <= a /\ Min(S) <= b
      /\ a <= Max(S) /\ b <= Max(S)
  BY <1>1, <1>2
<1> QED  BY <1>2, <1>3 DEF S

\* The search for files that overlap the range of F0 and X, F0 being in the level:
\* it finds F0, and with X what it finds has no gap.
LEMMA OverlappingFound ==
  ASSUME NEW v, NEW level, NEW F0 \in SUBSET v[level], F0 # {}, NEW X, NEW W,
         GoodFiles(v[level], W), GoodFiles(X, W), NoGap(F0 \cup X)
  PROVE  LET found == GetOverlappingInputs(v, level, LowKey(F0 \cup X), HighKey(F0 \cup X))
         IN F0 \subseteq found /\ found \subseteq v[level] /\ NoGap(found \cup X)
<1> DEFINE lo == LowKey(F0 \cup X)
           hi == HighKey(F0 \cup X)
           F == v[level]
           D == {S \in SUBSET F : F0 \subseteq S /\ NoGap(S \cup X)}
<1>1. GoodFiles(F, W) /\ GoodFiles(F0, W) /\ GoodFiles(F0 \cup X, W)
  BY GoodSubset, GoodUnion
<1>2. F0 \cup X # {}
  OBVIOUS
<1>3. /\ lo \in Keys /\ hi \in Keys /\ lo \in Int /\ hi \in Int
      /\ \E a \in F0 \cup X : a.smallest.k = lo
      /\ \E b \in F0 \cup X : b.largest.k = hi
      /\ \A f \in F0 \cup X : lo <= f.smallest.k /\ f.largest.k <= hi
  <2> DEFINE Y == F0 \cup X
  <2> HIDE DEF Y
  <2>1. GoodFiles(Y, W) /\ Y # {}
    BY <1>1, <1>2 DEF Y
  <2>2. /\ LowKey(Y) \in Keys /\ HighKey(Y) \in Keys /\ LowKey(Y) \in Int /\ HighKey(Y) \in Int
        /\ \E a \in Y : a.smallest.k = LowKey(Y)
        /\ \E b \in Y : b.largest.k = HighKey(Y)
        /\ \A f \in Y : LowKey(Y) <= f.smallest.k /\ f.largest.k <= HighKey(Y)
    BY <2>1, Hull
  <2> QED  BY <2>2 DEF Y
<1> HIDE DEF lo, hi
\* A wider range that ends in files of S and X.
<1>4. ASSUME NEW S \in SUBSET F, F0 \subseteq S, NoGap(S \cup X), NEW low \in Int, NEW high \in Int,
             low <= lo, hi <= high, \A f \in S : low <= f.smallest.k /\ f.largest.k <= high,
             \E a \in S \cup X : a.smallest.k = low, \E b \in S \cup X : b.largest.k = high
      PROVE  Touching(F, low, high) \in D
  <2> DEFINE T == Touching(F, low, high)
  <2>1. T \subseteq F /\ \A f \in F : f \in T <=> low <= f.largest.k /\ f.smallest.k <= high
    BY TouchingIn
  <2>2. S \subseteq T
    <3> SUFFICES ASSUME NEW f \in S PROVE low <= f.largest.k /\ f.smallest.k <= high
      BY <2>1
    <3>1. f \in F /\ low <= f.smallest.k /\ f.largest.k <= high
      BY <1>4
    <3>2. f.smallest.k \in Int /\ f.largest.k \in Int /\ f.smallest.k <= f.largest.k
      BY <1>1, <3>1, GoodFile
    <3> QED  BY <1>4, <3>1, <3>2
  <2> HIDE DEF T
  <2>3. GoodFiles(T \cup X, W)
    BY <1>1, <2>1, GoodSubset, GoodUnion
  <2>4. ASSUME NEW g \in T \cup X
        PROVE  /\ \E a \in S \cup X : g.smallest.k <= a.largest.k
               /\ \E b \in S \cup X : b.smallest.k <= g.largest.k
    <3>1. CASE g \in X
      <4>1. g.smallest.k <= g.largest.k
        BY <3>1, GoodFile
      <4> QED  BY <3>1, <4>1
    <3>2. CASE g \in T
      BY <3>2, <2>1, <1>4
    <3> QED  BY <3>1, <3>2
  <2>5. NoGap(T \cup X)
    <3> DEFINE P == S \cup X
               Q == T \cup X
    <3>1. P \subseteq Q
      BY <2>2
    <3>2. NoGap(P)
      BY <1>4
    <3> HIDE DEF P, Q
    <3>3. NoGap(Q)
      BY <2>3, <2>4, <3>1, <3>2, NoGapGrows DEF P, Q
    <3> QED  BY <3>3 DEF Q
  <2> QED  BY <1>4, <2>1, <2>2, <2>5 DEF T
<1>5. F0 \in SUBSET F
  OBVIOUS
<1>6. Touching(F, lo, hi) \in D
  <2>1. lo <= lo /\ hi <= hi
    BY <1>3
  <2> QED  BY <1>3, <1>4, <1>5, <2>1
<1>7. ASSUME NEW S \in D
      PROVE  S # {} /\ Touching(F, Min({lo, LowKey(S)}), Max({hi, HighKey(S)})) \in D
  <2> DEFINE low == Min({lo, LowKey(S)})
             high == Max({hi, HighKey(S)})
  <2>1. S \in SUBSET F /\ F0 \subseteq S /\ NoGap(S \cup X) /\ S # {} /\ GoodFiles(S, W)
    BY <1>1, <1>7, GoodSubset
  <2>2. /\ LowKey(S) \in Keys /\ HighKey(S) \in Keys /\ LowKey(S) \in Int /\ HighKey(S) \in Int
        /\ \E a \in S : a.smallest.k = LowKey(S)
        /\ \E b \in S : b.largest.k = HighKey(S)
        /\ \A f \in S : LowKey(S) <= f.smallest.k /\ f.largest.k <= HighKey(S)
    BY <2>1, Hull
  <2>3. /\ low \in {lo, LowKey(S)} /\ low <= lo /\ low <= LowKey(S)
        /\ high \in {hi, HighKey(S)} /\ hi <= high /\ HighKey(S) <= high
    BY <1>3, <2>2, TwoKeys
  <2> HIDE DEF low, high
  <2>4. low \in Int /\ high \in Int
    BY <1>3, <2>2, <2>3
  <2>5. \A f \in S : low <= f.smallest.k /\ f.largest.k <= high
    <3> TAKE f \in S
    <3>1. f.smallest.k \in Int /\ f.largest.k \in Int
      BY <2>1, GoodFile
    <3> QED  BY <2>2, <2>3, <2>4, <3>1
  <2>6. (\E a \in S \cup X : a.smallest.k = low) /\ (\E b \in S \cup X : b.largest.k = high)
    BY <1>3, <2>1, <2>2, <2>3
  <2>7. Touching(F, low, high) \in D
    BY <1>4, <2>1, <2>3, <2>4, <2>5, <2>6
  <2> QED  BY <2>1, <2>7 DEF low, high
<1>8. GetOverlappingInputs(v, level, lo, hi) \in D
  <2>1. CASE level = 0
    <3>1. IsFiniteSet(v[0])
      <4>1. v[0] \in SUBSET Files
        BY <2>1, <1>1 DEF GoodFiles
      <4> QED  BY <4>1, FilesFinite, FS_Subset
    <3>2. D \in SUBSET SUBSET v[0]
      BY <2>1
    <3>3. /\ Touching(v[0], lo, hi) \in D
          /\ \A S \in D : S # {} /\ Touching(v[0], Min({lo, LowKey(S)}), Max({hi, HighKey(S)})) \in D
      BY <2>1, <1>6, <1>7
    <3> HIDE DEF D
    <3>4. GetOverlappingInputs(v, 0, lo, hi) \in D
      BY <3>1, <3>2, <3>3, OverlappingKeeps
    <3> QED  BY <2>1, <3>4
  <2>2. CASE level # 0
    BY <2>2, <1>6, OverlappingBelow
  <2> QED  BY <2>1, <2>2
<1> QED  BY <1>8 DEF lo, hi

\* The largest key of some files is that of one of them (FindLargestKey).
LEMMA LastFile ==
  ASSUME NEW F, NEW W, GoodFiles(F, W), F # {}
  PROVE  \E f \in F : \A g \in F : ~Before(f.largest, g.largest)
<1> DEFINE E == {f.largest : f \in F}
           R == EntryOrder(E)
<1>1. E \subseteq W /\ W \subseteq Entries /\ Distinct(W)
  BY GoodFile DEF GoodFiles
<1>2. E \in SUBSET Entries /\ Distinct(E) /\ E # {}
  BY <1>1 DEF Distinct
<1> HIDE DEF E
<1>3. IsFiniteSet(E) /\ StrictOrder(E, R)
  BY <1>2, EntriesOrdered
<1>4. \A a, b \in E : <<a, b>> \in R <=> Before(a, b)
  BY DEF EntryOrder
<1> HIDE DEF R
<1>5. PICK e \in E : \A d \in E : d = e \/ <<d, e>> \in R
  BY <1>2, <1>3, FirstAndLast
<1>6. \A d \in E : ~Before(e, d)
  BY <1>2, <1>4, <1>5, BeforeOrder
<1> QED  BY <1>6 DEF E

\* The boundary inputs are added to the inputs, and add no gap.
LEMMA BoundaryAdded ==
  ASSUME NEW files, NEW inputs \in SUBSET files, inputs # {}, NEW X, NEW W,
         GoodFiles(files, W), GoodFiles(X, W), NoGap(inputs \cup X)
  PROVE  LET added == AddBoundaryInputs(files, inputs)
         IN inputs \subseteq added /\ added \subseteq files /\ NoGap(added \cup X)
<1> DEFINE n == Cardinality(files)
           end(S) == (CHOOSE f \in S : \A g \in S : ~Before(f.largest, g.largest)).largest
           boundary(S) == {f \in files : f.smallest.k = end(S).k /\ Before(end(S), f.smallest)}
           add == [S \in SUBSET files |->
             S \cup {f \in boundary(S) : \A g \in boundary(S) : ~Before(g.smallest, f.smallest)}]
           body == [i \in 1..n |-> add]
           D == {S \in SUBSET files : inputs \subseteq S /\ NoGap(S \cup X)}
<1>1. n \in Nat
  <2>1. files \in SUBSET Files
    BY DEF GoodFiles
  <2> QED  BY <2>1, FilesFinite, FS_Subset, FS_CardinalityType
<1>2. AddBoundaryInputs(files, inputs) = Loop(body, inputs, n)
  BY DEF AddBoundaryInputs
<1>3. ASSUME NEW S \in D PROVE add[S] \in D
  <2>1. S \in SUBSET files /\ inputs \subseteq S /\ NoGap(S \cup X) /\ S # {} /\ GoodFiles(S, W)
    BY <1>3, GoodSubset
  <2> DEFINE T == add[S]
             last == CHOOSE f \in S : \A g \in S : ~Before(f.largest, g.largest)
  <2>2. last \in S
    <3>1. \E f \in S : \A g \in S : ~Before(f.largest, g.largest)
      BY <2>1, LastFile
    <3> QED  BY <3>1
  <2>3. T \subseteq files /\ S \subseteq T /\ \A g \in T : g \in S \/ g.smallest.k = last.largest.k
    BY <2>1
  <2> HIDE DEF T, last
  <2>4. GoodFiles(T, W) /\ GoodFiles(T \cup X, W)
    BY <2>3, GoodSubset, GoodUnion
  <2>5. ASSUME NEW g \in T \cup X
        PROVE  /\ \E a \in S \cup X : g.smallest.k <= a.largest.k
               /\ \E b \in S \cup X : b.smallest.k <= g.largest.k
    <3>1. g.smallest.k \in Int /\ g.largest.k \in Int /\ g.smallest.k <= g.largest.k
      BY <2>4, GoodFile
    <3>2. CASE g \in S \cup X
      BY <3>1, <3>2
    <3>3. CASE g \in T /\ g.smallest.k = last.largest.k
      <4>1. last \in S /\ last.smallest.k \in Int /\ last.smallest.k <= last.largest.k
        BY <2>1, <2>2, GoodFile
      <4>2. g.smallest.k <= last.largest.k /\ last.smallest.k <= g.largest.k
        BY <3>1, <3>3, <4>1
      <4> QED  BY <4>1, <4>2
    <3> QED  BY <2>3, <3>2, <3>3
  <2>6. NoGap(T \cup X)
    <3> DEFINE P == S \cup X
               Q == T \cup X
    <3>1. P \subseteq Q
      BY <2>3
    <3>2. NoGap(P)
      BY <2>1
    <3> HIDE DEF P, Q
    <3>3. NoGap(Q)
      BY <2>4, <2>5, <3>1, <3>2, NoGapGrows DEF P, Q
    <3> QED  BY <3>3 DEF Q
  <2>7. T \in D
    BY <2>1, <2>3, <2>6
  <2> QED  BY <2>7 DEF T
<1>4. inputs \in D
  OBVIOUS
<1> HIDE DEF n, add, D
<1>5. \A i \in 1..n : \A S \in D : body[i][S] \in D
  BY <1>3
<1> HIDE DEF body
<1>6. Loop(body, inputs, n) \in D
  BY <1>1, <1>4, <1>5, LoopKeeps
<1> QED  BY <1>2, <1>6 DEF D

\* A compaction of files that leave no gap: its inputs are files of the two
\* levels, leave no gap either, and are all that overlap in the next level.
LEMMA OtherInputs ==
  ASSUME NEW level \in 0..(kNumLevels - 2), NEW picked \in SUBSET current[level], picked # {}, NEW W,
         current \in Versions, \A l \in Levels : GoodFiles(current[l], W), NoGap(picked)
  PROVE  LET c == SetupOtherInputs(level, picked)
         IN /\ c.level = level /\ c.version = current
            /\ c.inputs0 # {} /\ c.inputs0 \subseteq current[level]
            /\ c.inputs1 = Touching(current[level + 1], LowKey(c.inputs0), HighKey(c.inputs0))
            /\ NoGap(c.inputs0 \cup c.inputs1)
            /\ \E l \in Levels : c.grandparents \subseteq current[l]
            /\ c.largest \in Entries
<1> DEFINE F == current[level]
           G == current[level + 1]
           below(S) == GetOverlappingInputs(current, level + 1, LowKey(S), HighKey(S))
           in0 == AddBoundaryInputs(current[level], picked)
           in1 == below(in0)
           found == GetOverlappingInputs(current, level, LowKey(in0 \cup in1), HighKey(in0 \cup in1))
           wide0 == AddBoundaryInputs(current[level], found)
           c == SetupOtherInputs(level, picked)
<1>1. level \in Nat /\ level \in Levels /\ level + 1 \in Levels /\ level + 1 # 0
  BY LsmAssumption DEF Levels
<1>2. GoodFiles(F, W) /\ GoodFiles(G, W) /\ GoodFiles({}, W)
  BY <1>1, GoodSubset
<1>3. \A S : below(S) = Touching(G, LowKey(S), HighKey(S))
  BY <1>1, OverlappingBelow
<1>4. picked \subseteq in0 /\ in0 \subseteq F /\ NoGap(in0) /\ in0 # {}
  <2>1. NoGap(picked \cup {})
    OBVIOUS
  <2>2. picked \subseteq in0 /\ in0 \subseteq F /\ NoGap(in0 \cup {})
    BY <1>2, <2>1, BoundaryAdded
  <2>3. in0 \cup {} = in0
    OBVIOUS
  <2> HIDE DEF in0
  <2> QED  BY <2>2, <2>3
\* The files of the next level that overlap the inputs leave no gap with them.
<1>5. ASSUME NEW S \in SUBSET F, S # {}, NEW X \in SUBSET G, NoGap(S \cup X),
             NEW T, T = Touching(G, LowKey(S), HighKey(S))
      PROVE  T \subseteq G /\ NoGap(S \cup X \cup T)
  <2>1. T \subseteq G /\ \A g \in T : LowKey(S) <= g.largest.k /\ g.smallest.k <= HighKey(S)
    BY <1>5, TouchingIn
  <2>2. GoodFiles(S, W) /\ GoodFiles(X, W) /\ GoodFiles(T, W)
    BY <1>2, <2>1, GoodSubset
  <2>3. (\E a \in S : a.smallest.k = LowKey(S)) /\ (\E b \in S : b.largest.k = HighKey(S))
    BY <1>5, <2>2, Hull
  <2> DEFINE P == S \cup X
             Q == P \cup T
  <2>4. GoodFiles(P, W) /\ GoodFiles(Q, W)
    BY <2>2, GoodUnion
  <2>5. ASSUME NEW g \in Q
        PROVE  /\ \E a \in P : g.smallest.k <= a.largest.k
               /\ \E b \in P : b.smallest.k <= g.largest.k
    <3>1. CASE g \in T
      BY <3>1, <2>1, <2>3
    <3>2. CASE g \in P
      <4>1. g.smallest.k <= g.largest.k
        BY <2>4, GoodFile
      <4> QED  BY <3>2, <4>1
    <3> QED  BY <3>1, <3>2
  <2>6. NoGap(P) /\ P \subseteq Q
    BY <1>5
  <2> HIDE DEF P, Q
  <2>7. NoGap(Q)
    BY <2>4, <2>5, <2>6, NoGapGrows
  <2> QED  BY <2>1, <2>7 DEF P, Q
<1>6. in1 = Touching(G, LowKey(in0), HighKey(in0))
  BY <1>3
<1>7. in1 \subseteq G /\ NoGap(in0 \cup in1)
  <2> HIDE DEF in0, in1
  <2>1. NoGap(in0 \cup {})
    BY <1>4
  <2>2. in1 \subseteq G /\ NoGap(in0 \cup {} \cup in1)
    BY <1>4, <1>5, <1>6, <2>1
  <2> QED  BY <2>2
<1>8. in0 \subseteq found /\ found \subseteq F /\ NoGap(found \cup in1)
  <2>1. GoodFiles(in1, W)
    BY <1>2, <1>7, GoodSubset
  <2> HIDE DEF in0, in1
  <2> QED  BY <1>2, <1>4, <1>7, <2>1, OverlappingFound
<1>9. found \subseteq wide0 /\ wide0 \subseteq F /\ NoGap(wide0 \cup in1) /\ wide0 # {}
  <2>1. GoodFiles(in1, W) /\ found # {}
    BY <1>2, <1>4, <1>7, <1>8, GoodSubset
  <2> HIDE DEF in0, in1, found
  <2>2. found \subseteq wide0 /\ wide0 \subseteq F /\ NoGap(wide0 \cup in1)
    BY <1>2, <1>8, <2>1, BoundaryAdded
  <2> HIDE DEF wide0
  <2> QED  BY <2>1, <2>2
\* The wider inputs overlap what the narrower ones did.
<1>10. in1 \subseteq below(wide0) /\ below(wide0) \subseteq G /\ NoGap(wide0 \cup below(wide0))
  <2> DEFINE T == Touching(G, LowKey(wide0), HighKey(wide0))
  <2>1. below(wide0) = T
    BY <1>3
  <2> HIDE DEF in0, in1, found, wide0
  <2>2. T \subseteq G /\ NoGap(wide0 \cup in1 \cup T)
    BY <1>5, <1>7, <1>9
  <2>3. in1 \subseteq T
    <3> SUFFICES ASSUME NEW g \in in1 PROVE g \in T
      OBVIOUS
    <3>1. g \in G /\ LowKey(in0) <= g.largest.k /\ g.smallest.k <= HighKey(in0)
      BY <1>6, TouchingIn
    <3>2. GoodFiles(in0, W) /\ GoodFiles(wide0, W) /\ in0 \subseteq wide0
      BY <1>2, <1>4, <1>8, <1>9, GoodSubset
    <3>3. /\ LowKey(in0) \in Int /\ HighKey(in0) \in Int
          /\ (\E a \in in0 : a.smallest.k = LowKey(in0)) /\ (\E b \in in0 : b.largest.k = HighKey(in0))
      BY <1>4, <3>2, Hull
    <3>4. /\ LowKey(wide0) \in Int /\ HighKey(wide0) \in Int
          /\ \A f \in wide0 : LowKey(wide0) <= f.smallest.k /\ f.largest.k <= HighKey(wide0)
      BY <1>9, <3>2, Hull
    <3>5. LowKey(wide0) <= LowKey(in0) /\ HighKey(in0) <= HighKey(wide0)
      BY <3>2, <3>3, <3>4
    <3>6. g.largest.k \in Int /\ g.smallest.k \in Int
      BY <1>2, <3>1, GoodFile
    <3>7. LowKey(wide0) <= g.largest.k /\ g.smallest.k <= HighKey(wide0)
      BY <3>1, <3>3, <3>4, <3>5, <3>6
    <3> QED  BY <3>1, <3>7, TouchingIn
  <2>4. wide0 \cup in1 \cup T = wide0 \cup T
    BY <2>3
  <2> QED  BY <2>1, <2>2, <2>3, <2>4
<1> DEFINE expand == /\ in1 # {}
                     /\ Cardinality(wide0) > Cardinality(in0)
                     /\ TotalFileSize(in1) + TotalFileSize(wide0) < ExpandedLimit
                     /\ Cardinality(below(wide0)) = Cardinality(in1)
           inputs0 == IF expand THEN wide0 ELSE in0
           inputs1 == IF expand THEN below(wide0) ELSE in1
           grandparents == IF level + 2 < kNumLevels
                           THEN GetOverlappingInputs(current, level + 2, LowKey(inputs0 \cup inputs1),
                                                     HighKey(inputs0 \cup inputs1))
                           ELSE {}
           last == CHOOSE f \in inputs0 : \A g \in inputs0 : ~Before(f.largest, g.largest)
<1>11. c = [level |-> level, inputs0 |-> inputs0, inputs1 |-> inputs1, version |-> current,
            grandparents |-> grandparents, largest |-> last.largest]
  BY DEF SetupOtherInputs
<1>12. /\ inputs0 # {} /\ inputs0 \subseteq F
       /\ inputs1 = Touching(G, LowKey(inputs0), HighKey(inputs0)) /\ NoGap(inputs0 \cup inputs1)
  <2>1. CASE expand
    <3>1. inputs0 = wide0 /\ inputs1 = below(wide0)
      BY <2>1
    <3> HIDE DEF in0, in1, found, wide0, inputs0, inputs1, expand
    <3> QED  BY <1>3, <1>9, <1>10, <3>1
  <2>2. CASE ~expand
    <3>1. inputs0 = in0 /\ inputs1 = in1
      BY <2>2
    <3> HIDE DEF in0, in1, found, wide0, inputs0, inputs1, expand
    <3> QED  BY <1>4, <1>6, <1>7, <3>1
  <2> QED  BY <2>1, <2>2
<1> HIDE DEF inputs0, inputs1
<1>13. \E l \in Levels : grandparents \subseteq current[l]
  <2>1. CASE level + 2 < kNumLevels
    <3>1. level + 2 \in Levels /\ level + 2 # 0
      BY <1>1, <2>1, LsmAssumption DEF Levels
    <3>2. grandparents \subseteq current[level + 2]
      BY <2>1, <3>1, OverlappingBelow, TouchingIn
    <3> QED  BY <3>1, <3>2
  <2>2. CASE ~(level + 2 < kNumLevels)
    BY <1>1, <2>2
  <2> QED  BY <2>1, <2>2
<1>14. last.largest \in Entries
  <2>1. GoodFiles(inputs0, W)
    BY <1>2, <1>12, GoodSubset
  <2>2. \E f \in inputs0 : \A g \in inputs0 : ~Before(f.largest, g.largest)
    BY <1>12, <2>1, LastFile
  <2>3. last \in inputs0
    BY <2>2
  <2> HIDE DEF last
  <2> QED  BY <2>1, <2>3, GoodFile
<1> HIDE DEF c, grandparents, last
<1>15. /\ c.level = level /\ c.version = current /\ c.inputs0 = inputs0 /\ c.inputs1 = inputs1
       /\ c.grandparents = grandparents /\ c.largest = last.largest
  BY <1>11
<1>16. /\ c.inputs0 # {} /\ c.inputs0 \subseteq current[level]
       /\ c.inputs1 = Touching(current[level + 1], LowKey(c.inputs0), HighKey(c.inputs0))
       /\ NoGap(c.inputs0 \cup c.inputs1)
  BY <1>12, <1>15
<1> QED  BY <1>13, <1>14, <1>15, <1>16 DEF c

-----------------------------------------------------------------------------
(***************************************************************************)
(* The choice of a compaction.                                             *)
(***************************************************************************)

\* No level has a limit of zero.
LEMMA LimitPositive ==
  ASSUME NEW level \in Nat, level >= 1
  PROVE  MaxBytesForLevel(level) \in Nat \ {0}
<1> DEFINE D == Nat \ {0}
           body == [i \in 1..(level - 1) |-> [result \in Nat |-> 2 * result]]
<1>1. level - 1 \in Nat /\ LevelBase \in D
  BY LsmAssumption
<1>2. \A i \in 1..(level - 1) : \A y \in D : body[i][y] \in D
  OBVIOUS
<1>3. MaxBytesForLevel(level) = Loop(body, LevelBase, level - 1)
  BY DEF MaxBytesForLevel
<1> HIDE DEF body, D
<1>4. MaxBytesForLevel(level) \in D
  BY <1>1, <1>2, <1>3, LoopKeeps
<1> QED  BY <1>4 DEF D

\* The level of a size compaction has a next one.
LEMMA CompactionLevel == ASSUME NEW v PROVE compaction_level(v) \in 0..(kNumLevels - 2)
<1> DEFINE D == 0..(kNumLevels - 2)
           body == [level \in 1..(kNumLevels - 2) |-> [best \in D |->
             IF Higher(Score(v, level), Score(v, best)) THEN level ELSE best]]
<1>1. kNumLevels - 2 \in Nat /\ 0 \in D
  BY LsmAssumption
<1>2. \A i \in 1..(kNumLevels - 2) : \A y \in D : body[i][y] \in D
  OBVIOUS
<1>3. compaction_level(v) = Loop(body, 0, kNumLevels - 2)
  BY DEF compaction_level
<1> HIDE DEF body, D
<1>4. compaction_level(v) \in D
  BY <1>1, <1>2, <1>3, LoopKeeps
<1> QED  BY <1>4 DEF D

\* A level that is too large has a file.
LEMMA TooLarge ==
  ASSUME size_compaction
  PROVE  current[compaction_level(current)] # {}
<1> DEFINE level == compaction_level(current)
<1>1. level \in 0..(kNumLevels - 2)
  BY CompactionLevel
<1>2. Score(current, level)[1] >= Score(current, level)[2]
  BY DEF size_compaction
<1> HIDE DEF level
<1> SUFFICES ASSUME current[level] = {} PROVE FALSE
  BY DEF level
<1>3. CASE level = 0
  <2>1. Cardinality(current[0]) = 0
    BY <1>3, FS_EmptySet
  <2>2. Score(current, level) = <<Cardinality(current[0]), kL0_CompactionTrigger>>
    BY <1>3 DEF Score
  <2> QED  BY <1>2, <2>1, <2>2, LsmAssumption
<1>4. CASE level # 0
  <2>1. UNION {{f} \X f.entries : f \in current[level]} = {}
    OBVIOUS
  <2>2. TotalFileSize(current[level]) = 0
    BY <2>1, FS_EmptySet DEF TotalFileSize
  <2>3. MaxBytesForLevel(level) \in Nat \ {0}
    <3>1. level \in Nat /\ level >= 1
      BY <1>1, <1>4, LsmAssumption
    <3> QED  BY <3>1, LimitPositive
  <2>4. Score(current, level) = <<TotalFileSize(current[level]), MaxBytesForLevel(level)>>
    BY <1>4 DEF Score
  <2> QED  BY <1>2, <2>2, <2>3, <2>4
<1> QED  BY <1>3, <1>4

\* The files of a level in the order that the version keeps.
LEMMA LevelOrdered ==
  ASSUME NEW F, NEW W, GoodFiles(F, W), OneNumberEach(F)
  PROVE  LET q == InOrder(F)
             n == Cardinality(F)
         IN /\ n \in Nat /\ q \in [1..n -> F] /\ q \in Seq(F) /\ Len(q) = n /\ DOMAIN q = 1..n
            /\ \A e \in F : \E i \in 1..n : q[i] = e
            /\ \A i, j \in 1..n : i < j <=> BySmallestKey(q[i], q[j])
<1> DEFINE R == FileOrder(F)
           q == InOrder(F)
           n == Cardinality(F)
<1>1. IsFiniteSet(F) /\ StrictOrder(F, R)
  BY FilesOrdered DEF GoodFiles
<1>2. \A f, g \in F : <<f, g>> \in R <=> BySmallestKey(f, g)
  BY DEF FileOrder
<1>3. q = SortedBy(F, R)
  BY DEF InOrder, FileOrder
<1> HIDE DEF R, q, n
<1>4. /\ n \in Nat /\ q \in [1..n -> F] /\ q \in Seq(F) /\ Len(q) = n /\ DOMAIN q = 1..n
      /\ \A e \in F : \E i \in 1..n : q[i] = e
      /\ \A i, j \in 1..n : i < j <=> <<q[i], q[j]>> \in R
  BY <1>1, <1>3, SortedOrder DEF n
<1>5. \A i, j \in 1..n : i < j <=> BySmallestKey(q[i], q[j])
  <2> TAKE i, j \in 1..n
  <2>1. q[i] \in F /\ q[j] \in F
    BY <1>4
  <2> QED  BY <1>2, <1>4, <2>1
<1> QED  BY <1>4, <1>5 DEF q, n

\* The file after the compact pointer is a file of the level.
LEMMA NextFileIn ==
  ASSUME NEW level, NEW W, GoodFiles(current[level], W), OneNumberEach(current[level]),
         current[level] # {}
  PROVE  NextFileOf(level) \in current[level]
<1> DEFINE F == current[level]
           q == InOrder(F)
           n == Cardinality(F)
           after == {i \in DOMAIN q : \/ compact_pointer[level] = None
                                      \/ Before(compact_pointer[level], q[i].largest)}
           index == IF after = {} THEN 1 ELSE Min(after)
<1>1. /\ n \in Nat /\ q \in [1..n -> F] /\ DOMAIN q = 1..n
      /\ \A e \in F : \E i \in 1..n : q[i] = e
  BY LevelOrdered
<1>2. NextFileOf(level) = q[index]
  BY DEF NextFileOf
<1> HIDE DEF q, n
<1>3. 1 \in 1..n
  <2>1. PICK i \in 1..n : TRUE
    BY <1>1
  <2> QED  BY <1>1, <2>1
<1>4. after # {} => Min(after) \in 1..n
  <2> SUFFICES ASSUME after # {} PROVE Min(after) \in 1..n
    OBVIOUS
  <2>1. after \in SUBSET (1..n) /\ after \in SUBSET Nat
    BY <1>1
  <2> HIDE DEF after
  <2>2. \E x \in after : \A y \in after : x <= y
    BY <2>1, LeastNumber
  <2>3. Min(after) \in after
    BY <2>2 DEF Min
  <2> QED  BY <2>1, <2>3
<1> HIDE DEF after
<1>5. index \in 1..n
  BY <1>3, <1>4
<1> HIDE DEF index
<1> QED  BY <1>1, <1>2, <1>5

\* What is known of a compaction when it is picked.
Ready(c, W) ==
  /\ c.level \in 0..(kNumLevels - 2) /\ c.version = current
  /\ c.inputs0 # {} /\ c.inputs0 \subseteq current[c.level]
  /\ c.inputs1 = Touching(current[c.level + 1], LowKey(c.inputs0), HighKey(c.inputs0))
  /\ NoGap(c.inputs0 \cup c.inputs1)
  /\ GoodFiles(c.grandparents, W) /\ OneNumberEach(c.grandparents)
  /\ c.largest \in Entries

\* One file leaves no gap.
LEMMA NoGapOne ==
  ASSUME NEW f PROVE NoGap({f})
BY DEF NoGap, Overlaps

\* PickCompaction finds inputs that are ready to be compacted.
LEMMA Picked ==
  ASSUME NEW W, current \in Versions, NeedsCompaction,
         \A l \in Levels : GoodFiles(current[l], W) /\ OneNumberEach(current[l]),
         \/ file_to_compact = None
         \/ file_to_compact \in SeekCharges /\ file_to_compact.file \in current[file_to_compact.level]
  PROVE  Ready(PickCompaction, W)
<1> DEFINE level == IF size_compaction THEN compaction_level(current) ELSE file_to_compact.level
           f == IF size_compaction THEN NextFileOf(level) ELSE file_to_compact.file
           picked == IF level = 0 THEN GetOverlappingInputs(current, 0, f.smallest.k, f.largest.k)
                     ELSE {f}
<1>1. PickCompaction = SetupOtherInputs(level, picked)
  BY DEF PickCompaction
<1>2. level \in 0..(kNumLevels - 2) /\ f \in current[level]
  <2>1. CASE size_compaction
    <3>1. level \in 0..(kNumLevels - 2) /\ current[level] # {}
      BY <2>1, CompactionLevel, TooLarge
    <3>2. f = NextFileOf(level)
      BY <2>1
    <3> HIDE DEF level, f
    <3>3. level \in Levels
      BY <3>1, LsmAssumption DEF Levels
    <3> QED  BY <3>1, <3>2, <3>3, NextFileIn
  <2>2. CASE ~size_compaction
    <3>1. file_to_compact # None
      BY <2>2 DEF NeedsCompaction
    <3>2. file_to_compact \in SeekCharges /\ file_to_compact.file \in current[file_to_compact.level]
      BY <3>1
    <3>3. file_to_compact.level \in 0..(kNumLevels - 2)
      BY <3>2 DEF SeekCharges
    <3> QED  BY <2>2, <3>2, <3>3
  <2> QED  BY <2>1, <2>2
<1>3. picked = IF level = 0 THEN GetOverlappingInputs(current, 0, f.smallest.k, f.largest.k) ELSE {f}
  OBVIOUS
<1> HIDE DEF level, f, picked
<1>4. level \in Levels /\ GoodFiles(current[level], W)
  BY <1>2, LsmAssumption DEF Levels
<1>5. GoodFiles({f}, W) /\ GoodFiles({}, W) /\ {f} # {} /\ {f} \in SUBSET current[level]
  BY <1>2, <1>4, GoodSubset
<1>6. f \in picked /\ picked \subseteq current[level] /\ NoGap(picked)
  <2>1. CASE level = 0
    <3> DEFINE S == {f}
    <3>1. GoodFiles(S, W) /\ S # {} /\ S \in SUBSET current[0] /\ GoodFiles(current[0], W)
      BY <1>4, <1>5, <2>1
    <3>2. NoGap(S) /\ S \cup {} = S
      BY NoGapOne
    <3>3. f.smallest.k = LowKey(S) /\ f.largest.k = HighKey(S)
      <4>1. (\E a \in S : a.smallest.k = LowKey(S)) /\ (\E b \in S : b.largest.k = HighKey(S))
        <5> HIDE DEF S
        <5> QED  BY <3>1, Hull
      <4> QED  BY <4>1
    <3> HIDE DEF S
    <3>4. picked = GetOverlappingInputs(current, 0, LowKey(S), HighKey(S))
      BY <1>3, <2>1, <3>3
    <3>5. NoGap(S \cup {})
      BY <3>2
    <3> DEFINE found == GetOverlappingInputs(current, 0, LowKey(S \cup {}), HighKey(S \cup {}))
    <3>6. S \subseteq found /\ found \subseteq current[0] /\ NoGap(found \cup {})
      BY <1>5, <3>1, <3>5, OverlappingFound
    <3>7. found = picked
      BY <3>2, <3>4
    <3> HIDE DEF found
    <3>8. found \cup {} = found
      OBVIOUS
    <3> QED  BY <2>1, <3>6, <3>7, <3>8 DEF S
  <2>2. CASE level # 0
    <3>1. picked = {f}
      BY <1>3, <2>2
    <3> QED  BY <1>2, <3>1, NoGapOne
  <2> QED  BY <2>1, <2>2
<1> DEFINE c == SetupOtherInputs(level, picked)
<1>7. /\ c.level = level /\ c.version = current
      /\ c.inputs0 # {} /\ c.inputs0 \subseteq current[level]
      /\ c.inputs1 = Touching(current[level + 1], LowKey(c.inputs0), HighKey(c.inputs0))
      /\ NoGap(c.inputs0 \cup c.inputs1)
      /\ \E l \in Levels : c.grandparents \subseteq current[l]
      /\ c.largest \in Entries
  <2>1. picked \in SUBSET current[level] /\ picked # {}
    BY <1>6
  <2> QED  BY <1>2, <1>6, <2>1, OtherInputs
<1> HIDE DEF c
<1>8. GoodFiles(c.grandparents, W) /\ OneNumberEach(c.grandparents)
  <2>1. PICK l \in Levels : c.grandparents \subseteq current[l]
    BY <1>7
  <2>2. GoodFiles(current[l], W) /\ OneNumberEach(current[l])
    OBVIOUS
  <2> QED  BY <2>1, <2>2, GoodSubset DEF OneNumberEach
<1>9. Ready(c, W)
  BY <1>2, <1>7, <1>8 DEF Ready
<1> QED  BY <1>1, <1>9 DEF c

-----------------------------------------------------------------------------
(***************************************************************************)
(* The outputs of a compaction.                                            *)
(***************************************************************************)

\* The tables t are in the order of their entries, the ones of the open table o
\* come after them, and all together they hold K.
Ascend(t) == \A i, j \in DOMAIN t : i < j => \A d \in t[i], e \in t[j] : Before(d, e)
AllBefore(t, o) == \A i \in DOMAIN t : \A d \in t[i], e \in o : Before(d, e)
InTables(t) == UNION {t[i] : i \in DOMAIN t}
Built(t, o, K) ==
  /\ t \in Seq(SUBSET Entries) /\ o \in SUBSET Entries
  /\ Ascend(t) /\ AllBefore(t, o) /\ InTables(t) \cup o = K

\* The open table is finished.
LEMMA BuiltClose ==
  ASSUME NEW t, NEW o, NEW K, Built(t, o, K)
  PROVE  Built(Append(t, o), {}, K)
<1> DEFINE n == Len(t)
           u == Append(t, o)
<1>1. t \in Seq(SUBSET Entries) /\ o \in SUBSET Entries /\ Ascend(t) /\ AllBefore(t, o)
      /\ InTables(t) \cup o = K
  BY DEF Built
<1>2. n \in Nat /\ DOMAIN t = 1..n
  BY <1>1
<1>3. /\ u \in Seq(SUBSET Entries) /\ DOMAIN u = 1..(n + 1) /\ u[n + 1] = o
      /\ \A i \in 1..n : u[i] = t[i]
  BY <1>1
<1> HIDE DEF n, u
<1>4. Ascend(u)
  <2> SUFFICES ASSUME NEW i \in 1..(n + 1), NEW j \in 1..(n + 1), i < j,
                      NEW d \in u[i], NEW e \in u[j]
               PROVE  Before(d, e)
    BY <1>3 DEF Ascend
  <2>1. i \in 1..n
    BY <1>2
  <2>2. CASE j = n + 1
    BY <1>1, <1>2, <1>3, <2>1, <2>2 DEF AllBefore
  <2>3. CASE j # n + 1
    <3>1. j \in 1..n
      BY <1>2, <2>3
    <3> QED  BY <1>1, <1>2, <1>3, <2>1, <3>1 DEF Ascend
  <2> QED  BY <2>2, <2>3
<1>5. InTables(u) = InTables(t) \cup o
  <2>1. \A i : i \in 1..(n + 1) <=> i \in 1..n \/ i = n + 1
    BY <1>2
  <2> QED  BY <1>2, <1>3, <2>1 DEF InTables
<1>6. AllBefore(u, {})
  BY DEF AllBefore
<1>7. InTables(u) \cup {} = K
  BY <1>1, <1>5
<1>8. Built(u, {}, K)
  BY <1>3, <1>4, <1>6, <1>7, Zenon DEF Built
<1> QED  BY <1>8 DEF u

\* Entries that come after all others go to the open table.
LEMMA BuiltAdd ==
  ASSUME NEW t, NEW o, NEW K, Built(t, o, K), NEW x \in SUBSET Entries,
         \A d \in K, e \in x : Before(d, e)
  PROVE  Built(t, o \cup x, K \cup x)
<1>1. t \in Seq(SUBSET Entries) /\ o \in SUBSET Entries /\ Ascend(t) /\ AllBefore(t, o)
      /\ InTables(t) \cup o = K
  BY DEF Built
<1>2. \A i \in DOMAIN t : t[i] \subseteq K
  BY <1>1 DEF InTables
<1>3. AllBefore(t, o \cup x)
  BY <1>1, <1>2 DEF AllBefore
<1>4. InTables(t) \cup (o \cup x) = K \cup x
  BY <1>1
<1>5. o \cup x \in SUBSET Entries
  BY <1>1
<1> QED  BY <1>1, <1>3, <1>4, <1>5, Zenon DEF Built

\* The loop of DoCompactionWork starts without tables.
LEMMA BuiltEmpty == Built(<<>>, {}, {})
BY DEF Built, Ascend, AllBefore, InTables

\* The size of finitely many files is a number.
LEMMA SizeIsNumber ==
  ASSUME NEW F \in SUBSET Files
  PROVE  TotalFileSize(F) \in Nat
<1> DEFINE P == UNION {{f} \X f.entries : f \in F}
<1>1. P \in SUBSET (Files \X Entries)
  BY FileFields
<1>2. IsFiniteSet(Files \X Entries)
  BY FilesFinite, EntriesFinite, FS_Product
<1> HIDE DEF P
<1>3. Cardinality(P) \in Nat
  BY <1>1, <1>2, FS_Subset, FS_CardinalityType
<1> QED  BY <1>3 DEF TotalFileSize, P

\* The tables of a compaction are in order and hold its inputs, but for the
\* entries that are dropped.
LEMMA OutputsBuilt ==
  ASSUME NEW c, NEW oldest, NEW W, InputEntries(c) \in SUBSET Entries, Distinct(InputEntries(c)),
         GoodFiles(c.grandparents, W), OneNumberEach(c.grandparents)
  PROVE  Built(OutputTables(c, oldest), {}, {e \in InputEntries(c) : ~Dropped(c, oldest, e)})
<1> DEFINE I == InputEntries(c)
           R == EntryOrder(I)
           order == SortedBy(I, R)
           n == Cardinality(I)
           grand == InOrder(c.grandparents)
           passed(acc, e) == {i \in (acc.grand + 1)..Len(grand) : Before(grand[i].largest, e)}
           overlap(acc, e) == acc.bytes + (IF acc.seen THEN TotalFileSize({grand[i] : i \in passed(acc, e)})
                                                       ELSE 0)
           closed(acc) == IF acc.open = {} THEN acc.tables ELSE Append(acc.tables, acc.open)
           stop(acc, e) == overlap(acc, e) > GrandParentLimit
           tables(acc, e) == IF stop(acc, e) THEN closed(acc) ELSE acc.tables
           open(acc, e) == (IF stop(acc, e) THEN {} ELSE acc.open)
                             \cup (IF Dropped(c, oldest, e) THEN {} ELSE {e})
           full(acc, e) == Cardinality(open(acc, e)) >= max_file_size
           step(acc, e) ==
             [tables |-> IF full(acc, e) THEN Append(tables(acc, e), open(acc, e)) ELSE tables(acc, e),
              open |-> IF full(acc, e) THEN {} ELSE open(acc, e),
              grand |-> acc.grand + Cardinality(passed(acc, e)),
              seen |-> TRUE,
              bytes |-> IF stop(acc, e) THEN 0 ELSE overlap(acc, e),
              dropped |-> Dropped(c, oldest, e)]
           start == [tables |-> <<>>, open |-> {}, grand |-> 0, seen |-> FALSE,
                     bytes |-> 0, dropped |-> FALSE]
           body == [i \in 1..n |-> [acc \in Outputs |-> step(acc, order[i])]]
           all == Loop(body, start, n)
           kept(i) == {e \in I : ~Dropped(c, oldest, e) /\ \E j \in 1..i : order[j] = e}
           P == {p \in (0..n) \X Outputs : Built(p[2].tables, p[2].open, kept(p[1]))}
<1>1. IsFiniteSet(I) /\ StrictOrder(I, R)
  BY EntriesOrdered
<1>2. \A a, b \in I : <<a, b>> \in R <=> Before(a, b)
  BY DEF EntryOrder
<1>3. /\ n \in Nat /\ order \in [1..n -> I] /\ Len(order) = n
      /\ \A e \in I : \E i \in 1..n : order[i] = e
      /\ \A i, j \in 1..n : i < j <=> <<order[i], order[j]>> \in R
  BY <1>1, SortedOrder
<1>4. OutputTables(c, oldest) = closed(all) \o (IF all.dropped /\ all.open = {} THEN <<{}>> ELSE <<>>)
  BY <1>3 DEF OutputTables, EntryOrder
<1>5. Len(grand) \in Nat /\ \A i \in 1..Len(grand) : grand[i] \in c.grandparents
  BY LevelOrdered
<1>6. c.grandparents \subseteq Files
  BY DEF GoodFiles
<1> HIDE DEF I, R, order, n, grand
<1>7. ASSUME NEW acc \in Outputs, NEW e \in I
      PROVE  /\ acc.grand + Cardinality(passed(acc, e)) \in Nat
             /\ overlap(acc, e) \in Nat
  <2>1. acc.grand \in Nat /\ acc.bytes \in Nat
    BY <1>7 DEF Outputs
  <2> DEFINE Q == passed(acc, e)
             G == {grand[i] : i \in Q}
  <2>2. Q \subseteq (acc.grand + 1)..Len(grand) /\ Q \subseteq 1..Len(grand)
    BY <1>5, <2>1
  <2>3. IsFiniteSet(1..Len(grand))
    <3> DEFINE m == Len(grand)
    <3>1. m \in Int /\ 1 \in Int
      BY <1>5
    <3> HIDE DEF m
    <3>2. IsFiniteSet(1..m)
      BY <3>1, FS_Interval
    <3> QED  BY <3>2 DEF m
  <2> HIDE DEF Q
  <2>4. Cardinality(Q) \in Nat
    BY <2>2, <2>3, FS_Subset, FS_CardinalityType
  <2>5. G \in SUBSET Files
    BY <1>5, <1>6, <2>2
  <2> HIDE DEF G
  <2>6. TotalFileSize(G) \in Nat
    BY <2>5, SizeIsNumber
  <2>7. overlap(acc, e) = acc.bytes + (IF acc.seen THEN TotalFileSize(G) ELSE 0)
    BY DEF Q, G
  <2>8. overlap(acc, e) \in Nat
    BY <2>1, <2>6, <2>7
  <2>9. acc.grand + Cardinality(Q) \in Nat
    BY <2>1, <2>4
  <2> QED  BY <2>8, <2>9 DEF Q
<1>8. <<0, start>> \in P
  <2>1. start \in Outputs /\ start.tables = <<>> /\ start.open = {}
    BY DEF Outputs
  <2>2. kept(0) = {}
    OBVIOUS
  <2>3. 0 \in 0..n
    BY <1>3
  <2>4. Built(start.tables, start.open, kept(0))
    BY <2>1, <2>2, BuiltEmpty
  <2> HIDE DEF start, kept
  <2> QED  BY <2>1, <2>3, <2>4
<1>9. ASSUME NEW i \in 1..n, NEW acc, <<i - 1, acc>> \in P
      PROVE  <<i, body[i][acc]>> \in P
  <2> DEFINE e == order[i]
             x == IF Dropped(c, oldest, e) THEN {} ELSE {e}
             K == kept(i - 1)
             t1 == tables(acc, e)
             o1 == IF stop(acc, e) THEN {} ELSE acc.open
             o2 == open(acc, e)
             t3 == IF full(acc, e) THEN Append(t1, o2) ELSE t1
             o3 == IF full(acc, e) THEN {} ELSE o2
  <2>1. acc \in Outputs /\ Built(acc.tables, acc.open, K)
    BY <1>9
  <2>2. body[i][acc] = step(acc, e)
    BY <2>1
  <2>3. e \in I /\ e \in Entries /\ x \in SUBSET Entries
    <3>1. e \in I
      BY <1>3
    <3>2. e \in Entries
      BY <3>1 DEF I
    <3> HIDE DEF e
    <3> QED  BY <3>1, <3>2
  <2>4. kept(i) = K \cup x
    <3>1. \A j : j \in 1..i <=> j \in 1..(i - 1) \/ j = i
      BY <1>3
    <3> HIDE DEF step, body
    <3> QED  BY <1>3, <3>1
  <2>5. \A d \in K, y \in x : Before(d, y)
    <3> SUFFICES ASSUME NEW j \in 1..(i - 1), order[j] \in I PROVE Before(order[j], e)
      OBVIOUS
    <3>1. j \in 1..n /\ j < i
      BY <1>3
    <3> QED  BY <1>2, <1>3, <2>3, <3>1
  <2> HIDE DEF K, kept
  <2>6. Built(t1, o1, K)
    <3>1. CASE stop(acc, e)
      <4>1. t1 = closed(acc) /\ o1 = {}
        BY <3>1
      <4>2. CASE acc.open = {}
        BY <2>1, <4>1, <4>2
      <4>3. CASE acc.open # {}
        BY <2>1, <4>1, <4>3, BuiltClose
      <4> QED  BY <4>2, <4>3
    <3>2. CASE ~stop(acc, e)
      BY <2>1, <3>2
    <3> QED  BY <3>1, <3>2
  <2>7. o2 = o1 \cup x
    OBVIOUS
  <2>8. Built(t1, o2, kept(i))
    <3> HIDE DEF t1, o1, o2, x
    <3>1. Built(t1, o1 \cup x, K \cup x)
      BY <2>3, <2>5, <2>6, BuiltAdd
    <3> QED  BY <2>4, <2>7, <3>1
  <2>9. Built(t3, o3, kept(i))
    <3> HIDE DEF t1, o2
    <3>1. CASE full(acc, e)
      <4>1. t3 = Append(t1, o2) /\ o3 = {}
        BY <3>1
      <4> QED  BY <2>8, <4>1, BuiltClose
    <3>2. CASE ~full(acc, e)
      <4>1. t3 = t1 /\ o3 = o2
        BY <3>2
      <4> QED  BY <2>8, <4>1
    <3> QED  BY <3>1, <3>2
  <2> DEFINE r == [tables |-> t3, open |-> o3,
                   grand |-> acc.grand + Cardinality(passed(acc, e)),
                   seen |-> TRUE,
                   bytes |-> IF stop(acc, e) THEN 0 ELSE overlap(acc, e),
                   dropped |-> Dropped(c, oldest, e)]
  <2>10. step(acc, e) = r
    OBVIOUS
  <2>11. r \in Outputs /\ r.tables = t3 /\ r.open = o3
    <3> DEFINE g == acc.grand + Cardinality(passed(acc, e))
               b == IF stop(acc, e) THEN 0 ELSE overlap(acc, e)
               dr == Dropped(c, oldest, e)
    <3>1. g \in Nat /\ overlap(acc, e) \in Nat
      BY <1>7, <2>1, <2>3
    <3>2. b \in Nat
      <4> HIDE DEF overlap
      <4> QED  BY <3>1
    <3>3. dr \in BOOLEAN
      BY DEF Dropped
    <3>4. t3 \in Seq(SUBSET Entries) /\ o3 \in SUBSET Entries
      <4> HIDE DEF t3, o3
      <4> QED  BY <2>9 DEF Built
    <3>5. r = [tables |-> t3, open |-> o3, grand |-> g, seen |-> TRUE, bytes |-> b, dropped |-> dr]
      OBVIOUS
    <3> HIDE DEF t3, o3, g, b, dr, r
    <3> QED  BY <3>1, <3>2, <3>3, <3>4, <3>5 DEF Outputs
  <2> HIDE DEF r, step, body, t3, o3, e
  <2>12. i \in 0..n
    BY <1>3
  <2>13. Built(r.tables, r.open, kept(i))
    BY <2>9, <2>11
  <2>14. <<i, r>> \in P
    BY <2>11, <2>12, <2>13
  <2> QED  BY <2>2, <2>10, <2>14
<1>10. <<n, all>> \in P
  <2> HIDE DEF P, body, start
  <2> QED  BY <1>3, <1>8, <1>9, LoopInduction
<1>11. Built(all.tables, all.open, kept(n))
  <2> HIDE DEF all, kept
  <2> QED  BY <1>10
<1>12. kept(n) = {e \in I : ~Dropped(c, oldest, e)}
  BY <1>3
<1> HIDE DEF all, kept
<1>13. Built(closed(all), {}, kept(n))
  <2>1. CASE all.open = {}
    BY <1>11, <2>1
  <2>2. CASE all.open # {}
    BY <1>11, <2>2, BuiltClose
  <2> QED  BY <2>1, <2>2
<1> DEFINE t == closed(all)
<1>14. t \in Seq(SUBSET Entries)
  BY <1>13 DEF Built
<1>15. Built(Append(t, {}), {}, kept(n))
  BY <1>13, BuiltClose
<1>16. Built(OutputTables(c, oldest), {}, kept(n))
  <2>1. CASE all.dropped /\ all.open = {}
    <3>1. OutputTables(c, oldest) = t \o <<{}>>
      BY <1>4, <2>1
    <3> HIDE DEF t
    <3>2. t \o <<{}>> = Append(t, {})
      BY <1>14
    <3> QED  BY <1>15, <3>1, <3>2
  <2>2. CASE ~(all.dropped /\ all.open = {})
    <3>1. OutputTables(c, oldest) = t \o <<>>
      BY <1>4, <2>2
    <3> HIDE DEF t
    <3>2. t \o <<>> = t
      BY <1>14
    <3> QED  BY <1>13, <3>1, <3>2 DEF t
  <2> QED  BY <2>1, <2>2
<1> QED  BY <1>12, <1>16 DEF I

-----------------------------------------------------------------------------
(***************************************************************************)
(* The search in a level.                                                  *)
(***************************************************************************)

Disjoint(F) == \A f, g \in F : f = g \/ Precedes(f, g) \/ Precedes(g, f)

\* The files of a level that do not overlap follow each other.
LEMMA FilesFollow ==
  ASSUME NEW F, NEW W, GoodFiles(F, W), OneNumberEach(F), Disjoint(F)
  PROVE  LET q == InOrder(F)
         IN \A i, j \in 1..Len(q) : i < j => Precedes(q[i], q[j])
<1> DEFINE q == InOrder(F)
           n == Cardinality(F)
<1>1. /\ n \in Nat /\ q \in [1..n -> F] /\ Len(q) = n
      /\ \A i, j \in 1..n : i < j <=> BySmallestKey(q[i], q[j])
  BY LevelOrdered
<1> HIDE DEF q, n
<1> SUFFICES ASSUME NEW i \in 1..n, NEW j \in 1..n, i < j PROVE Precedes(q[i], q[j])
  BY <1>1 DEF q
<1>2. q[i] \in F /\ q[j] \in F
  BY <1>1
<1>3. BySmallestKey(q[i], q[j]) /\ ~BySmallestKey(q[j], q[i])
  <2>1. ~(j < i)
    BY <1>1
  <2> QED  BY <1>1, <2>1
<1>4. q[i] # q[j]
  BY <1>3
<1>5. ASSUME Precedes(q[j], q[i]) PROVE FALSE
  <2>1. /\ q[i].smallest \in Entries /\ q[j].smallest \in Entries /\ q[j].largest \in Entries
        /\ ~Before(q[j].largest, q[j].smallest)
    BY <1>2, GoodFile
  <2>2. Before(q[j].smallest, q[i].smallest)
    BY <1>5, <2>1, BeforeOrder DEF Precedes
  <2> QED  BY <1>3, <2>2 DEF BySmallestKey
<1> QED  BY <1>2, <1>4, <1>5 DEF Disjoint

\* FindFile finds the first file whose largest key is not before ikey.
LEMMA FindFileFinds ==
  ASSUME NEW F, NEW W, GoodFiles(F, W), OneNumberEach(F), Disjoint(F),
         NEW ikey, ikey.k \in Int, ikey.s \in Int
  PROVE  LET q == InOrder(F)
             m == FindFile(q, ikey)
         IN /\ m \in 0..Len(q)
            /\ \A j \in 1..Len(q) : j <= m <=> Before(q[j].largest, ikey)
<1> DEFINE q == InOrder(F)
           n == Len(q)
           halve == [p \in (0..n) \X (0..n) |->
             LET mid == (p[1] + p[2]) \div 2
             IN IF p[1] >= p[2] THEN p
                ELSE IF Before(q[mid + 1].largest, ikey) THEN <<mid + 1, p[2]>> ELSE <<p[1], mid>>]
           body == [i \in 1..n |-> halve]
           last == Loop(body, <<0, n>>, n)
           between(a, b) == /\ a <= b
                            /\ \A j \in 1..n : j <= a => Before(q[j].largest, ikey)
                            /\ \A j \in 1..n : b < j => ~Before(q[j].largest, ikey)
           P == {r \in (0..n) \X ((0..n) \X (0..n)) :
                   between(r[2][1], r[2][2]) /\ r[2][2] - r[2][1] <= n - r[1]}
<1>1. FindFile(q, ikey) = last[2]
  BY DEF FindFile
<1>2. n \in Nat /\ \A j \in 1..n : q[j] \in F
  BY LevelOrdered
<1>3. \A i, j \in 1..n : i < j => Precedes(q[i], q[j])
  BY FilesFollow
<1> HIDE DEF q, n
<1>4. \A i, j \in 1..n : i < j /\ Before(q[j].largest, ikey) => Before(q[i].largest, ikey)
  <2> TAKE i, j \in 1..n
  <2> HAVE i < j /\ Before(q[j].largest, ikey)
  <2>1. /\ q[i].largest \in Entries /\ q[j].largest \in Entries /\ q[j].smallest \in Entries
        /\ ~Before(q[j].largest, q[j].smallest)
    BY <1>2, GoodFile
  <2>2. Before(q[i].largest, q[j].smallest)
    BY <1>3 DEF Precedes
  <2>3. Before(q[i].largest, q[j].largest)
    BY <2>1, <2>2, BeforeOrder
  <2> DEFINE a == q[i].largest
             b == q[j].largest
  <2>4. a.k \in Int /\ a.s \in Nat /\ b.k \in Int /\ b.s \in Nat
    BY <2>1, EntryFields
  <2> QED  BY <2>3, <2>4 DEF Before
<1> DEFINE less(j) == Before(q[j].largest, ikey)
<1>5. \A i, j \in 1..n : i < j /\ less(j) => less(i)
  BY <1>4
<1>6. halve = [p \in (0..n) \X (0..n) |->
             LET mid == (p[1] + p[2]) \div 2
             IN IF p[1] >= p[2] THEN p ELSE IF less(mid + 1) THEN <<mid + 1, p[2]>> ELSE <<p[1], mid>>]
  OBVIOUS
<1>7. \A a, b : between(a, b) <=> /\ a <= b
                                  /\ \A j \in 1..n : j <= a => less(j)
                                  /\ \A j \in 1..n : b < j => ~less(j)
  OBVIOUS
<1> HIDE DEF less, halve, between
<1>8. <<0, <<0, n>>>> \in P
  <2>1. between(0, n)
    BY <1>2, <1>7
  <2> QED  BY <1>2, <2>1
<1>9. ASSUME NEW i \in 1..n, NEW p, <<i - 1, p>> \in P
      PROVE  <<i, body[i][p]>> \in P
  <2>1. p \in (0..n) \X (0..n) /\ between(p[1], p[2]) /\ p[2] - p[1] <= n - (i - 1)
    BY <1>9
  <2> DEFINE a == p[1]
             b == p[2]
             mid == (a + b) \div 2
  <2>2. a \in 0..n /\ b \in 0..n /\ p = <<a, b>>
    BY <2>1
  <2>3. body[i][p] = IF a >= b THEN p ELSE IF less(mid + 1) THEN <<mid + 1, b>> ELSE <<a, mid>>
    BY <1>6, <2>1
  <2>4. between(a, b) /\ b - a <= n - (i - 1)
    BY <2>1
  <2> HIDE DEF a, b
  <2>5. CASE a >= b
    <3>1. body[i][p] = <<a, b>>
      BY <2>2, <2>3, <2>5
    <3>2. b - a <= n - i
      BY <1>2, <2>2, <2>5
    <3>3. i \in 0..n
      BY <1>2
    <3> QED  BY <2>2, <2>4, <3>1, <3>2, <3>3
  <2>6. CASE a < b
    <3>1. mid \in 0..n /\ a <= mid /\ mid < b /\ mid + 1 \in 0..n /\ mid + 1 \in 1..n
      BY <1>2, <2>2, <2>6
    <3>2. ~(a >= b)
      BY <2>2, <2>6
    <3>3. i \in 0..n
      BY <1>2
    <3> HIDE DEF mid
    <3>4. CASE less(mid + 1)
      <4>1. body[i][p] = <<mid + 1, b>>
        BY <2>3, <3>2, <3>4
      <4>2. \A j \in 1..n : j <= mid + 1 => less(j)
        <5> TAKE j \in 1..n
        <5> HAVE j <= mid + 1
        <5>1. j = mid + 1 \/ j < mid + 1
          BY <3>1
        <5> QED  BY <1>5, <3>1, <3>4, <5>1
      <4>3. between(mid + 1, b)
        <5>1. mid + 1 <= b
          BY <2>2, <3>1
        <5>2. \A j \in 1..n : b < j => ~less(j)
          BY <1>7, <2>4
        <5> QED  BY <1>7, <4>2, <5>1, <5>2
      <4>4. b - (mid + 1) <= n - i
        BY <1>2, <2>2, <2>4, <3>1
      <4> QED  BY <2>2, <3>1, <3>3, <4>1, <4>3, <4>4
    <3>5. CASE ~less(mid + 1)
      <4>1. body[i][p] = <<a, mid>>
        BY <2>3, <3>2, <3>5
      <4>2. \A j \in 1..n : mid < j => ~less(j)
        <5> TAKE j \in 1..n
        <5> HAVE mid < j
        <5>1. j = mid + 1 \/ mid + 1 < j
          BY <3>1
        <5> QED  BY <1>5, <3>1, <3>5, <5>1
      <4>3. between(a, mid)
        <5>1. \A j \in 1..n : j <= a => less(j)
          BY <1>7, <2>4
        <5> QED  BY <1>7, <3>1, <4>2, <5>1
      <4>4. mid - a <= n - i
        BY <1>2, <2>2, <2>4, <3>1
      <4> QED  BY <2>2, <3>1, <3>3, <4>1, <4>3, <4>4
    <3> QED  BY <3>4, <3>5
  <2> QED  BY <2>2, <2>5, <2>6
<1>10. <<n, last>> \in P
  <2> HIDE DEF P, body
  <2> QED  BY <1>2, <1>8, <1>9, LoopInduction
<1> HIDE DEF last
<1>11. last \in (0..n) \X (0..n) /\ between(last[1], last[2]) /\ last[2] - last[1] <= n - n
  BY <1>10
<1>12. last[1] = last[2] /\ last[2] \in 0..n
  <2>1. last[1] <= last[2]
    BY <1>7, <1>11
  <2> QED  BY <1>2, <1>11, <2>1
<1>13. \A j \in 1..n : j <= last[2] <=> less(j)
  <2> TAKE j \in 1..n
  <2>1. j <= last[2] => less(j)
    BY <1>7, <1>11, <1>12
  <2>2. last[2] < j => ~less(j)
    BY <1>7, <1>11
  <2>3. j <= last[2] \/ last[2] < j
    BY <1>2, <1>12
  <2> QED  BY <2>1, <2>2, <2>3
<1> QED  BY <1>1, <1>12, <1>13 DEF less, q, n

\* OverlapInLevel overlooks no file of a level.
LEMMA NothingOverlaps ==
  ASSUME NEW v, NEW level, NEW W, GoodFiles(v[level], W), OneNumberEach(v[level]),
         level # 0 => Disjoint(v[level]), NEW lo \in Keys, NEW hi \in Keys, lo <= hi,
         ~OverlapInLevel(v, level, lo, hi), NEW f \in v[level]
  PROVE  ~Overlaps(f, lo, hi)
<1>1. CASE level = 0
  BY <1>1 DEF OverlapInLevel
<1>2. CASE level # 0
  <2> DEFINE q == InOrder(v[level])
             n == Cardinality(v[level])
             ikey == [k |-> lo, s |-> kMaxSequenceNumber]
             m == FindFile(q, ikey)
  <2>1. ~(m < Len(q) /\ q[m + 1].smallest.k <= hi)
    BY <1>2 DEF OverlapInLevel
  <2>2. /\ n \in Nat /\ q \in [1..n -> v[level]] /\ Len(q) = n
        /\ \A e \in v[level] : \E i \in 1..n : q[i] = e
    BY LevelOrdered
  <2>3. \A i, j \in 1..Len(q) : i < j => Precedes(q[i], q[j])
    BY <1>2, FilesFollow
  <2>4. lo \in Int /\ hi \in Int /\ MaxWrites \in Nat
    BY LsmAssumption
  <2>5. ikey.k = lo /\ ikey.s = MaxWrites + 1 /\ ikey.k \in Int /\ ikey.s \in Int
    BY <2>4 DEF kMaxSequenceNumber
  <2> HIDE DEF ikey, n
  <2>6. m \in 0..Len(q) /\ \A j \in 1..Len(q) : j <= m <=> Before(q[j].largest, ikey)
    BY <1>2, <2>5, FindFileFinds
  <2> HIDE DEF q, m
  <2>7. PICK j \in 1..n : q[j] = f
    BY <2>2
  <2>8. /\ f.largest \in Entries /\ f.smallest \in Entries
        /\ f.smallest.k \in Int /\ f.largest.k \in Int
    BY GoodFile
  <2>9. f.largest.s \in Nat /\ f.largest.s <= MaxWrites
    BY <2>4, <2>8, EntryFields
  <2>10. CASE j <= m
    <3>1. Before(f.largest, ikey)
      BY <2>2, <2>6, <2>7, <2>10
    <3>2. f.largest.k < lo
      BY <2>4, <2>5, <2>8, <2>9, <3>1 DEF Before
    <3> QED  BY <2>4, <2>8, <3>2 DEF Overlaps
  <2>11. CASE m < j
    <3> DEFINE g == q[m + 1]
    <3>1. m < n /\ m + 1 \in 1..n /\ g \in v[level]
      BY <2>2, <2>6, <2>7, <2>11
    <3>2. ~(g.smallest.k <= hi)
      BY <2>1, <2>2, <3>1
    <3>3. /\ g.smallest \in Entries /\ g.largest \in Entries /\ g.smallest.k \in Int
          /\ g.largest.k \in Int /\ g.smallest.k <= g.largest.k
      BY <3>1, GoodFile
    <3>4. g.smallest.k <= f.smallest.k
      <4>1. CASE j = m + 1
        BY <2>7, <2>8, <4>1
      <4>2. CASE j # m + 1
        <5>1. m + 1 < j
          BY <2>2, <2>6, <2>7, <2>11, <4>2
        <5>2. Before(g.largest, f.smallest)
          BY <2>2, <2>3, <2>7, <3>1, <5>1 DEF Precedes
        <5> HIDE DEF g
        <5>3. ~Before(f.smallest, g.largest)
          BY <2>8, <3>3, <5>2, BeforeOrder
        <5>4. g.largest.k <= f.smallest.k
          BY <2>8, <3>3, <5>3, BeforeOrder
        <5> QED  BY <2>8, <3>3, <5>4
      <4> QED  BY <4>1, <4>2
    <3> HIDE DEF g
    <3> QED  BY <2>4, <2>8, <3>2, <3>3, <3>4 DEF Overlaps
  <2>12. j <= m \/ m < j
    BY <2>2, <2>6, <2>7
  <2> QED  BY <2>10, <2>11, <2>12
<1> QED  BY <1>1, <1>2

\* A bounded set of numbers has a largest one.
LEMMA LargestNumber ==
  ASSUME NEW b \in Nat, NEW S \in SUBSET (0..b), S # {}
  PROVE  Max(S) \in S
<1> DEFINE above == {c \in Nat : \A n \in S : n <= c}
<1>1. S \subseteq Nat /\ b \in above
  OBVIOUS
<1>2. PICK x \in above : \A y \in above : x <= y
  BY <1>1, LeastNumber
<1>3. x \in S
  <2> SUFFICES ASSUME x \notin S PROVE FALSE
    OBVIOUS
  <2>1. PICK k \in S : TRUE
    OBVIOUS
  <2>2. k \in Nat /\ x \in Nat /\ k < x
    BY <1>1, <1>2, <2>1
  <2>3. x - 1 \in above
    <3>1. \A n \in S : n \in Nat /\ n <= x /\ n # x
      BY <1>1, <1>2
    <3>2. x - 1 \in Nat
      BY <2>2
    <3>3. \A n \in S : n <= x - 1
      BY <2>2, <3>1
    <3> QED  BY <3>2, <3>3
  <2> QED  BY <1>2, <2>2, <2>3
<1>4. \E y \in S : \A n \in S : y >= n
  BY <1>1, <1>2, <1>3
<1> QED  BY <1>4 DEF Max

\* A memtable goes to a level where nothing overlaps it, on the way there either.
LEMMA LevelPicked ==
  ASSUME NEW v, NEW W, NEW lo \in Keys, NEW hi \in Keys, lo <= hi,
         \A l \in Levels : GoodFiles(v[l], W) /\ OneNumberEach(v[l]) /\ (l # 0 => Disjoint(v[l]))
  PROVE  LET level == PickLevelForMemTableOutput(v, lo, hi)
         IN /\ level \in Levels
            /\ level # 0 => \A l \in 0..level : \A f \in v[l] : ~Overlaps(f, lo, hi)
<1> DEFINE level == PickLevelForMemTableOutput(v, lo, hi)
           S == {l \in 0..kMaxMemCompactLevel : \A up \in 0..(l - 1) : CanPush(v, up, lo, hi)}
<1>0. /\ kNumLevels \in Nat /\ kMaxMemCompactLevel \in Nat /\ 0..kMaxMemCompactLevel \subseteq Levels
      /\ 0 \in Levels
  BY LsmAssumption DEF Levels
<1>1. CASE OverlapInLevel(v, 0, lo, hi)
  <2>1. level = 0
    BY <1>1 DEF PickLevelForMemTableOutput
  <2> QED  BY <1>0, <2>1
<1>2. CASE ~OverlapInLevel(v, 0, lo, hi)
  <2>1. level = Max(S)
    BY <1>2 DEF PickLevelForMemTableOutput
  <2>2. S \in SUBSET (0..kMaxMemCompactLevel) /\ 0 \in S
    BY <1>0
  <2>3. level \in S
    <3> HIDE DEF S
    <3> QED  BY <1>0, <2>1, <2>2, LargestNumber
  <2> HIDE DEF level
  <2>4. level \in 0..kMaxMemCompactLevel /\ \A up \in 0..(level - 1) : CanPush(v, up, lo, hi)
    BY <2>3
  <2>5. ASSUME NEW l \in 0..level, NEW f \in v[l] PROVE ~Overlaps(f, lo, hi)
    <3>1. l \in Levels
      BY <1>0, <2>4
    <3>2. ~OverlapInLevel(v, l, lo, hi)
      <4>1. CASE l = 0
        BY <1>2, <4>1
      <4>2. CASE l # 0
        <5>1. l - 1 \in 0..(level - 1) /\ (l - 1) + 1 = l
          BY <1>0, <2>4, <4>2
        <5>2. CanPush(v, l - 1, lo, hi)
          BY <2>4, <5>1
        <5> QED  BY <5>1, <5>2 DEF CanPush
      <4> QED  BY <4>1, <4>2
    <3>3. GoodFiles(v[l], W) /\ OneNumberEach(v[l]) /\ (l # 0 => Disjoint(v[l]))
      BY <3>1
    <3> QED  BY <3>2, <3>3, NothingOverlaps
  <2>6. level \in Levels
    BY <1>0, <2>4
  <2> QED  BY <2>5, <2>6 DEF level
<1> QED  BY <1>1, <1>2

-----------------------------------------------------------------------------
(*****************************************************************************)
(* Versions and edits.                                                      *)
(*****************************************************************************)

\* The levels of a compaction.
LEMMA LevelFacts ==
  /\ kNumLevels \in Nat /\ kNumLevels >= 2 /\ 0 \in Levels /\ Levels \subseteq Nat
  /\ \A l \in 0..(kNumLevels - 2) : l \in Levels /\ l + 1 \in Levels /\ l + 1 # 0 /\ l + 1 # l
BY LsmAssumption DEF Levels

\* What the invariant says of the files of a level of the current version.
LEMMA CurrentGood ==
  ASSUME TypeOK, EntriesInv, VersionInv, LevelsDisjoint
  PROVE  /\ written \subseteq Entries /\ Distinct(written) /\ current \in Versions
         /\ \A l \in Levels : GoodFiles(current[l], written) /\ OneNumberEach(current[l])
                                /\ (l # 0 => Disjoint(current[l]))
<1>1. written \subseteq Entries /\ current \in Versions /\ Distinct(written)
  BY DEF TypeOK, EntriesInv
<1>2. \A l \in Levels : current[l] \subseteq Files
  BY <1>1 DEF Versions
<1>3. \A l \in Levels : GoodFiles(current[l], written)
  BY <1>1, <1>2 DEF GoodFiles, VersionInv
<1>4. \A l \in Levels : OneNumberEach(current[l])
  BY DEF VersionInv, Unique, OneNumberEach
<1>5. \A l \in Levels : l # 0 => Disjoint(current[l])
  BY DEF LevelsDisjoint, Disjoint, Precedes
<1> QED  BY <1>1, <1>3, <1>4, <1>5

\* What an edit leaves of a version, when it deletes files of the version and
\* adds files with other numbers.
LEMMA AppliedEdit ==
  ASSUME NEW D \in Versions, NEW A \in Versions, current \in Versions, Unique(current),
         LogAndApply(D, A), \A l \in Levels : D[l] \subseteq current[l],
         \A l \in Levels : \A f \in A[l], g \in D[l] : f.number # g.number
  PROVE  /\ file_to_compact' = None /\ current' \in Versions
         /\ \A l \in Levels : current'[l] = (current[l] \ D[l]) \cup A[l]
<1>1. /\ file_to_compact' = None
      /\ current' = [l \in Levels |->
           {f \in current[l] \cup A[l] :
              f.number \notin ({g.number : g \in D[l]} \ {g.number : g \in A[l]})}]
  BY DEF LogAndApply
<1>2. \A l \in Levels : current[l] \subseteq Files /\ A[l] \subseteq Files /\ D[l] \subseteq Files
  BY DEF Versions
<1>3. ASSUME NEW l \in Levels PROVE current'[l] = (current[l] \ D[l]) \cup A[l]
  <2>1. current'[l] = {f \in current[l] \cup A[l] :
              f.number \notin ({g.number : g \in D[l]} \ {g.number : g \in A[l]})}
    BY <1>1
  <2>2. \A f \in A[l] : f \in current'[l]
    BY <2>1
  <2>3. \A f \in current[l] : f.number \in {g.number : g \in D[l]} <=> f \in D[l]
    BY DEF Unique
  <2>4. \A f \in current[l] : f \in D[l] => f.number \notin {g.number : g \in A[l]}
    BY <2>3
  <2> QED  BY <2>1, <2>2, <2>3, <2>4
<1>4. current' \in Versions
  <2>1. \A l \in Levels : current'[l] \subseteq Files
    BY <1>2, <1>3
  <2> QED  BY <1>1, <2>1 DEF Versions
<1> QED  BY <1>1, <1>3, <1>4

\* An edit of one level, or of two.
LEMMA Edits ==
  /\ NoFiles \in Versions
  /\ \A l \in Levels : NoFiles[l] = {}
BY DEF NoFiles, Versions

\* An edit that names files of one level.
LEMMA EditOne ==
  ASSUME NEW l \in Levels, NEW F \in SUBSET Files
  PROVE  LET E == [NoFiles EXCEPT ![l] = F]
         IN E \in Versions /\ \A m \in Levels : E[m] = IF m = l THEN F ELSE {}
BY DEF NoFiles, Versions


\* The numbers of a version are those of its files.
LEMMA Numbers ==
  ASSUME NEW v, NEW n
  PROVE  n \in NumbersOf(v) <=> \E l \in Levels : \E f \in v[l] : f.number = n
BY DEF NumbersOf

\* The bounds of a file do not depend on later writes.
LEMMA FilesStay ==
  ASSUME NEW W, NEW X, W \subseteq X, NEW f, FileOK(f, W)
  PROVE  FileOK(f, X)
BY DEF FileOK

-----------------------------------------------------------------------------
(*****************************************************************************)
(* The steps that leave the files alone.                                    *)
(*****************************************************************************)

\* The files and the compaction are as good after a write as before.
LEMMA StoreStays ==
  ASSUME VersionInv, LevelsDisjoint, InputsInv, OutputsInv, written \subseteq written',
         UNCHANGED <<current, next_file, compaction>>
  PROVE  VersionInv' /\ LevelsDisjoint' /\ InputsInv' /\ OutputsInv'
<1>1. \A f : FileOK(f, written) => FileOK(f, written')
  BY FilesStay
<1>2. VersionInv'
  BY <1>1 DEF VersionInv, Unique
<1>3. LevelsDisjoint'
  BY DEF LevelsDisjoint
<1>4. InputsInv'
  BY DEF InputsInv, NoGap, Apart
<1>5. OutputsInv'
  <2> SUFFICES ASSUME compaction # None PROVE OutputsInv'
    BY DEF OutputsInv
  <2>1. InputEntries(compaction)' = InputEntries(compaction) /\ NumbersOf(current)' = NumbersOf(current)
    BY DEF InputEntries, NumbersOf
  <2>2. \A f \in compaction.outputs : FileOK(f, written')
    BY <1>1 DEF OutputsInv
  <2> QED  BY <2>1, <2>2 DEF OutputsInv
<1> QED  BY <1>2, <1>3, <1>4, <1>5

\* A reader takes a version that is in use, or gives one up.
LEMMA DiskStays ==
  ASSUME DiskInv, UNCHANGED <<current, disk, pending_outputs, compaction, manual>>,
         \A r \in Readers : held'[r] = None \/ held'[r] = current \/ held'[r] = held[r]
  PROVE  DiskInv'
<1>1. OutputNumbers' = OutputNumbers
  BY DEF OutputNumbers
<1>2. NoTableDeletedInUse'
  BY DEF DiskInv, NoTableDeletedInUse, NumbersOf
<1> QED  BY <1>1, <1>2 DEF DiskInv

\* A write has the next sequence number.
LEMMA WriteStep ==
  ASSUME LsmInv, NEW k \in Keys, NEW t \in Types, Write(k, t)
  PROVE  LsmInv'
<1> DEFINE e == [k |-> k, s |-> last_sequence + 1, t |-> t]
<1>1. /\ TypeOK /\ EntriesInv /\ VersionInv /\ DiskInv /\ LevelsDisjoint /\ InputsInv /\ OutputsInv
  BY DEF LsmInv
<1>2. /\ left' = [left EXCEPT !.writes = @ - 1, !.deletes = IF t = "deletion" THEN @ - 1 ELSE @]
      /\ left'.writes >= 0 /\ left'.deletes >= 0
      /\ last_sequence' = last_sequence + 1 /\ mem' = mem \cup {e} /\ written' = written \cup {e}
      /\ UNCHANGED <<imm, current, file_to_compact, compact_pointer, next_file,
                     pending_outputs, disk, compaction, manual, snapshots, held>>
  BY DEF Write
<1>3. left \in [writes : 0..MaxWrites, deletes : Nat, holds : Nat, charges : Nat, reopens : Nat]
  BY <1>1 DEF TypeOK
<1>4. /\ left'.writes = left.writes - 1
      /\ left' \in [writes : 0..MaxWrites, deletes : Nat, holds : Nat, charges : Nat, reopens : Nat]
  <2>1. MaxWrites \in Nat
    BY LsmAssumption
  <2>2. /\ left'.writes = left.writes - 1
        /\ left'.deletes = IF t = "deletion" THEN left.deletes - 1 ELSE left.deletes
    BY <1>2, <1>3
  <2>3. left'.writes \in 0..MaxWrites
    BY <1>2, <1>3, <2>1, <2>2
  <2>4. left'.deletes \in Nat
    <3>1. left.deletes \in Nat
      BY <1>3
    <3>2. left'.deletes \in Int
      BY <2>2, <3>1
    <3> QED  BY <1>2, <3>2
  <2> QED  BY <1>2, <1>3, <2>2, <2>3, <2>4
<1>5. MaxWrites \in Nat /\ last_sequence \in 0..MaxWrites /\ last_sequence + left.writes <= MaxWrites
  BY <1>1, LsmAssumption DEF TypeOK, EntriesInv
<1>6. last_sequence' \in 0..MaxWrites /\ last_sequence' \in 1..MaxWrites
      /\ last_sequence' + left'.writes <= MaxWrites
  BY <1>2, <1>3, <1>4, <1>5
<1>7. e \in Entries /\ e.s = last_sequence'
  BY <1>2, <1>6 DEF Entries
<1> HIDE DEF e
<1>8. written \subseteq Entries /\ \A d \in written : d.s \in Nat /\ d.s <= last_sequence
  BY <1>1, EntryFields DEF TypeOK, EntriesInv
<1>9. EntriesInv'
  <2>1. Distinct(written)'
    <3>1. Distinct(written) /\ \A d \in written : d.s # e.s
      BY <1>1, <1>2, <1>5, <1>7, <1>8 DEF EntriesInv
    <3> QED  BY <1>2, <3>1 DEF Distinct
  <2>2. \A d \in written' : d.s <= last_sequence'
    BY <1>2, <1>5, <1>6, <1>7, <1>8
  <2>3. mem' \subseteq written' /\ imm' \subseteq written'
    BY <1>1, <1>2 DEF EntriesInv
  <2> QED  BY <1>6, <2>1, <2>2, <2>3 DEF EntriesInv
<1>10. TypeOK'
  <2>1. snapshots' \in Seq(0..last_sequence')
    <3>1. 0..last_sequence \subseteq 0..last_sequence'
      BY <1>2, <1>5
    <3> QED  BY <1>1, <1>2, <3>1 DEF TypeOK
  <2>2. written' \subseteq Entries /\ mem' \subseteq Entries
    BY <1>1, <1>2, <1>7 DEF TypeOK
  <2> QED  BY <1>1, <1>2, <1>4, <1>6, <2>1, <2>2, Zenon DEF TypeOK
<1>11. VersionInv' /\ LevelsDisjoint' /\ InputsInv' /\ OutputsInv'
  BY <1>1, <1>2, StoreStays
<1>12. DiskInv'
  BY <1>1, <1>2, DiskStays
<1> QED  BY <1>9, <1>10, <1>11, <1>12 DEF LsmInv

\* The steps of the model that only touch the memtables, the readers, the
\* snapshots and the charges.
LEMMA QuietSteps ==
  ASSUME LsmInv, TypeOK', UNCHANGED <<written, last_sequence, current, next_file, pending_outputs,
                                       disk, compaction, manual>>,
         mem' \subseteq written, imm' \subseteq written, left'.writes = left.writes,
         \A r \in Readers : held'[r] = None \/ held'[r] = current \/ held'[r] = held[r]
  PROVE  LsmInv'
<1>1. /\ TypeOK /\ EntriesInv /\ VersionInv /\ DiskInv /\ LevelsDisjoint /\ InputsInv /\ OutputsInv
  BY DEF LsmInv
<1>2. EntriesInv'
  BY <1>1 DEF EntriesInv, Distinct
<1>3. VersionInv' /\ LevelsDisjoint' /\ InputsInv' /\ OutputsInv'
  BY <1>1, StoreStays
<1>4. DiskInv'
  BY <1>1, DiskStays
<1> QED  BY <1>2, <1>3, <1>4 DEF LsmInv

\* The budget, with one field spent.
Allowance == [writes : 0..MaxWrites, deletes : Nat, holds : Nat, charges : Nat, reopens : Nat]

\* The memtable becomes the immutable one.
LEMMA SwitchStep ==
  ASSUME LsmInv, SwitchMemTable PROVE LsmInv'
<1>1. TypeOK'
  BY DEF LsmInv, TypeOK, SwitchMemTable
<1>2. mem' \subseteq written /\ imm' \subseteq written
  BY DEF LsmInv, EntriesInv, SwitchMemTable
<1> QED  BY <1>1, <1>2, QuietSteps DEF SwitchMemTable

\* A snapshot of the last sequence number.
LEMMA GetSnapshotStep ==
  ASSUME LsmInv, GetSnapshot PROVE LsmInv'
<1>1. left \in Allowance /\ last_sequence \in Nat /\ snapshots \in Seq(0..last_sequence)
  BY LsmAssumption DEF LsmInv, TypeOK, Allowance
<1>2. left' \in Allowance /\ left'.writes = left.writes
  BY <1>1 DEF GetSnapshot, Allowance
<1>3. snapshots' \in Seq(0..last_sequence')
  BY <1>1 DEF GetSnapshot
<1>4. TypeOK'
  BY <1>2, <1>3 DEF LsmInv, TypeOK, GetSnapshot, Allowance
<1>5. mem' \subseteq written /\ imm' \subseteq written
  BY DEF LsmInv, EntriesInv, GetSnapshot
<1> QED  BY <1>2, <1>4, <1>5, QuietSteps DEF GetSnapshot

\* A part of a sequence.
LEMMA Slice ==
  ASSUME NEW S, NEW s \in Seq(S), NEW m \in 1..(Len(s) + 1), NEW n \in 0..Len(s)
  PROVE  SubSeq(s, m, n) \in Seq(S)
<1>1. \A i \in m..n : i \in 1..Len(s) /\ s[i] \in S
  OBVIOUS
<1>2. CASE m <= n
  <2>1. n - m + 1 \in Nat
    BY <1>2
  <2>2. SubSeq(s, m, n) = [i \in 1..(n - m + 1) |-> s[i + m - 1]]
    OBVIOUS
  <2>3. \A i \in 1..(n - m + 1) : s[i + m - 1] \in S
    BY <1>1, <2>1
  <2> QED  BY <2>1, <2>2, <2>3
<1>3. CASE ~(m <= n)
  <2>1. SubSeq(s, m, n) = <<>>
    BY <1>3
  <2> QED  BY <2>1
<1> QED  BY <1>2, <1>3

\* A snapshot is released.
LEMMA ReleaseSnapshotStep ==
  ASSUME LsmInv, NEW i \in DOMAIN snapshots, ReleaseSnapshot(i) PROVE LsmInv'
<1>1. snapshots \in Seq(0..last_sequence)
  BY DEF LsmInv, TypeOK
<1>2. snapshots' \in Seq(0..last_sequence')
  <2>1. i \in 1..Len(snapshots) /\ Len(snapshots) \in Nat
    BY <1>1
  <2> DEFINE S == 0..last_sequence
             n == Len(snapshots)
  <2> HIDE DEF S, n
  <2>2. i - 1 \in 0..n /\ 1 \in 1..(n + 1) /\ i + 1 \in 1..(n + 1) /\ n \in 0..n /\ snapshots \in Seq(S)
    BY <1>1, <2>1 DEF S, n
  <2>3. SubSeq(snapshots, 1, i - 1) \in Seq(S)
    BY <2>2, Slice DEF n
  <2>4. SubSeq(snapshots, i + 1, n) \in Seq(S)
    BY <2>2, Slice DEF n
  <2>5. snapshots' \in Seq(S)
    BY <2>3, <2>4 DEF ReleaseSnapshot, RemoveAt, n
  <2> QED  BY <2>5 DEF S, ReleaseSnapshot
<1>3. TypeOK'
  BY <1>2 DEF LsmInv, TypeOK, ReleaseSnapshot
<1>4. mem' \subseteq written /\ imm' \subseteq written
  BY DEF LsmInv, EntriesInv, ReleaseSnapshot
<1> QED  BY <1>3, <1>4, QuietSteps DEF ReleaseSnapshot

\* A reader takes a reference to the current version, or drops it.
LEMMA ReadSteps ==
  ASSUME LsmInv, NEW r \in Readers, BeginRead(r) \/ EndRead(r) PROVE LsmInv'
<1>1. left \in Allowance /\ current \in Versions /\ held \in [Readers -> Versions \cup {None}]
  BY DEF LsmInv, TypeOK, Allowance
<1>2. left' \in Allowance /\ left'.writes = left.writes
  BY <1>1 DEF BeginRead, EndRead, Allowance
<1>3. /\ held' \in [Readers -> Versions \cup {None}]
      /\ \A q \in Readers : held'[q] = None \/ held'[q] = current \/ held'[q] = held[q]
  BY <1>1 DEF BeginRead, EndRead
<1>4. TypeOK'
  BY <1>2, <1>3 DEF LsmInv, TypeOK, BeginRead, EndRead, Allowance
<1>5. mem' \subseteq written /\ imm' \subseteq written
  BY DEF LsmInv, EntriesInv, BeginRead, EndRead
<1> QED  BY <1>2, <1>3, <1>4, <1>5, QuietSteps DEF BeginRead, EndRead

\* A file of the current version is charged.
LEMMA UpdateStatsStep ==
  ASSUME LsmInv, NEW charged, UpdateStats(charged),
         charged \in SeekCharges, charged.file \in current[charged.level]
  PROVE  LsmInv'
<1>1. left \in Allowance
  BY DEF LsmInv, TypeOK, Allowance
<1>2. left' \in Allowance /\ left'.writes = left.writes
  BY <1>1 DEF UpdateStats, Allowance
<1>3. TypeOK'
  BY <1>2 DEF LsmInv, TypeOK, UpdateStats, Allowance
<1>4. mem' \subseteq written /\ imm' \subseteq written
  BY DEF LsmInv, EntriesInv, UpdateStats
<1> QED  BY <1>2, <1>3, <1>4, QuietSteps DEF UpdateStats

-----------------------------------------------------------------------------
(*****************************************************************************)
(* The steps that make a new version.                                       *)
(*****************************************************************************)

\* Two files that do not overlap are one before the other.
LEMMA NoOverlap ==
  ASSUME NEW F, NEW W, GoodFiles(F, W), NEW f \in F, NEW g \in F, ~Overlaps(g, f.smallest.k, f.largest.k)
  PROVE  /\ f.largest.k < g.smallest.k \/ g.largest.k < f.smallest.k
         /\ f.largest.k < g.smallest.k => Precedes(f, g)
         /\ g.largest.k < f.smallest.k => Precedes(g, f)
<1>1. /\ f.smallest.k \in Int /\ f.largest.k \in Int /\ g.smallest.k \in Int /\ g.largest.k \in Int
  BY GoodFile
<1> QED  BY <1>1 DEF Overlaps, Precedes, Before

\* A file that overlaps none of the files G, which leave no gap, is before all
\* of them or after all of them.
LEMMA ApartFromAll ==
  ASSUME NEW F, NEW W, GoodFiles(F, W), NEW f \in F, NEW G \in SUBSET F, NoGap(G),
         \A g \in G : ~Overlaps(g, f.smallest.k, f.largest.k)
  PROVE  Apart(f, G)
<1> SUFFICES ASSUME ~Apart(f, G) PROVE FALSE
  OBVIOUS
<1>1. PICK a \in G : ~Precedes(a, f)
  BY DEF Apart
<1>2. PICK b \in G : ~Precedes(f, b)
  BY DEF Apart
<1>3. f.largest.k < a.smallest.k
  BY <1>1, NoOverlap
<1>4. b.largest.k < f.smallest.k
  BY <1>2, NoOverlap
<1>5. /\ f.smallest.k \in Keys /\ f.smallest.k \in Int /\ f.largest.k \in Int
      /\ f.smallest.k <= f.largest.k
      /\ a.smallest.k \in Int /\ a.largest.k \in Int /\ a.smallest.k <= a.largest.k
      /\ b.smallest.k \in Int /\ b.largest.k \in Int /\ b.smallest.k <= b.largest.k
  BY <1>1, <1>2, GoodFile
<1>6. b.smallest.k <= f.smallest.k /\ f.smallest.k <= a.largest.k
  BY <1>3, <1>4, <1>5
<1>7. PICK h \in G : Overlaps(h, f.smallest.k, f.smallest.k)
  BY <1>1, <1>2, <1>5, <1>6 DEF NoGap
<1>8. h.smallest.k \in Int /\ h.largest.k \in Int
  BY GoodFile
<1>9. Overlaps(h, f.smallest.k, f.largest.k)
  BY <1>5, <1>7, <1>8 DEF Overlaps
<1> QED  BY <1>9

\* A new file goes to a level where nothing overlaps it.
LEMMA FileAdded ==
  ASSUME LsmInv, NEW level \in Levels, NEW f \in Files, FileOK(f, written), f.number = next_file,
         LogAndApply(NoFiles, [NoFiles EXCEPT ![level] = {f}]),
         level # 0 => \A l \in 0..level : \A g \in current[l] : ~Overlaps(g, f.smallest.k, f.largest.k),
         next_file' = next_file + 1, UNCHANGED <<written, compaction>>
  PROVE  /\ current' \in Versions /\ file_to_compact' = None
         /\ VersionInv' /\ LevelsDisjoint' /\ InputsInv' /\ OutputsInv'
         /\ NumbersOf(current') = NumbersOf(current) \cup {next_file}
         /\ \A l \in Levels : \A g : g \in current'[l] <=> g \in current[l] \/ (l = level /\ g = f)
<1>1. /\ TypeOK /\ EntriesInv /\ VersionInv /\ DiskInv /\ LevelsDisjoint /\ InputsInv /\ OutputsInv
  BY DEF LsmInv
<1>2. /\ written \subseteq Entries /\ Distinct(written) /\ current \in Versions
      /\ \A l \in Levels : GoodFiles(current[l], written) /\ OneNumberEach(current[l])
                             /\ (l # 0 => Disjoint(current[l]))
  BY <1>1, CurrentGood
<1>3. Unique(current) /\ \A l \in Levels : \A g \in current[l] : g.number \in Nat /\ g.number < next_file
  BY <1>1, <1>2, GoodFile DEF VersionInv
<1>4. next_file \in Nat
  <2>1. next_file \in 1..(MaxFiles + 1)
    BY <1>1 DEF TypeOK
  <2>2. MaxFiles \in Nat
    BY LsmAssumption
  <2> QED  BY <2>1, <2>2
<1> DEFINE A == [NoFiles EXCEPT ![level] = {f}]
<1>5. A \in Versions /\ \A m \in Levels : A[m] = IF m = level THEN {f} ELSE {}
  <2>1. {f} \in SUBSET Files
    OBVIOUS
  <2> QED  BY <2>1, EditOne
<1>6. LogAndApply(NoFiles, A)
  OBVIOUS
<1> HIDE DEF A
<1>7. /\ file_to_compact' = None /\ current' \in Versions
      /\ \A l \in Levels : current'[l] = (current[l] \ NoFiles[l]) \cup A[l]
  <2>1. NoFiles \in Versions /\ \A l \in Levels : NoFiles[l] = {}
    BY Edits
  <2>2. \A l \in Levels : \A h \in A[l], g \in NoFiles[l] : h.number # g.number
    BY <2>1
  <2>3. \A l \in Levels : NoFiles[l] \subseteq current[l]
    BY <2>1
  <2> QED  BY <1>2, <1>3, <1>5, <1>6, <2>1, <2>2, <2>3, AppliedEdit
<1>8. \A l \in Levels : current'[l] = IF l = level THEN current[l] \cup {f} ELSE current[l]
  <2>1. \A l \in Levels : NoFiles[l] = {}
    BY Edits
  <2> QED  BY <1>5, <1>7, <2>1
<1>9. VersionInv'
  <2>1. \A l \in Levels : \A g \in current'[l] : FileOK(g, written') /\ g.number < next_file'
    <3>1. \A l \in Levels : \A g \in current[l] : FileOK(g, written) /\ g.number < next_file + 1
      BY <1>1, <1>3, <1>4 DEF VersionInv
    <3>2. f.number < next_file + 1
      BY <1>4
    <3> QED  BY <1>8, <3>1, <3>2
  <2>2. \A l \in Levels : \A g \in current[l] : g.number # f.number
    BY <1>3, <1>4
  <2>3. Unique(current')
    <3>1. \A l \in Levels : \A g : g \in current'[l] <=> g \in current[l] \/ (l = level /\ g = f)
      BY <1>8
    <3> SUFFICES ASSUME NEW l \in Levels, NEW m \in Levels, NEW g \in current'[l], NEW h \in current'[m],
                        g.number = h.number
                 PROVE  g = h /\ l = m
      BY DEF Unique
    <3>2. CASE g \in current[l] /\ h \in current[m]
      BY <1>3, <3>2 DEF Unique
    <3>3. CASE ~(g \in current[l] /\ h \in current[m])
      BY <3>1, <3>3, <2>2
    <3> QED  BY <3>2, <3>3
  <2> QED  BY <2>1, <2>3 DEF VersionInv
<1>10. ASSUME NEW l \in Levels PROVE GoodFiles(current[l] \cup {f}, written)
  BY <1>2 DEF GoodFiles
<1>11. LevelsDisjoint'
  <2>1. ASSUME level # 0, NEW g \in current[level] PROVE Precedes(f, g) \/ Precedes(g, f)
    <3>1. ~Overlaps(g, f.smallest.k, f.largest.k)
      <4>1. level \in 0..level
        BY DEF Levels
      <4> QED  BY <2>1, <4>1
    <3>2. GoodFiles(current[level] \cup {f}, written) /\ f \in current[level] \cup {f}
          /\ g \in current[level] \cup {f}
      BY <1>10
    <3> QED  BY <3>1, <3>2, NoOverlap
  <2>2. \A l \in Levels \ {0} : Disjoint(current'[l])
    BY <1>2, <1>8, <2>1 DEF Disjoint
  <2> QED  BY <2>2 DEF LevelsDisjoint, Disjoint, Precedes
<1>12. NumbersOf(current') = NumbersOf(current) \cup {next_file}
  <2>1. \A l \in Levels : \A g : g \in current'[l] <=> g \in current[l] \/ (l = level /\ g = f)
    BY <1>8
  <2>2. \A n : n \in NumbersOf(current') <=> n \in NumbersOf(current) \/ n = next_file
    <3> TAKE n
    <3>1. n \in NumbersOf(current') <=> \E l \in Levels : \E g \in current'[l] : g.number = n
      BY Numbers
    <3>2. n \in NumbersOf(current) <=> \E l \in Levels : \E g \in current[l] : g.number = n
      BY Numbers
    <3> QED  BY <2>1, <3>1, <3>2
  <2> QED  BY <2>2
<1>13. InputsInv'
  <2> SUFFICES ASSUME compaction # None PROVE InputsInv'
    BY DEF InputsInv
  <2> DEFINE inputs == compaction.inputs0 \cup compaction.inputs1
             low == compaction.level
  <2>1. /\ low \in 0..(kNumLevels - 2) /\ low \in Levels /\ low + 1 \in Levels /\ low + 1 # 0
    BY <1>1, LevelFacts DEF TypeOK, Compactions
  <2>2. /\ compaction.inputs0 \subseteq current[low] /\ compaction.inputs1 \subseteq current[low + 1]
        /\ NoGap(inputs) /\ \A g \in current[low + 1] \ compaction.inputs1 : Apart(g, inputs)
    BY <1>1 DEF InputsInv
  <2>3. ASSUME level = low + 1 PROVE Apart(f, inputs)
    <3>1. low \in 0..level /\ low + 1 \in 0..level
      BY <2>1, <2>3 DEF Levels
    <3>2. \A g \in inputs : ~Overlaps(g, f.smallest.k, f.largest.k)
      BY <2>1, <2>2, <2>3, <3>1
    <3> DEFINE F == current[low] \cup current[low + 1] \cup {f}
    <3>3. GoodFiles(F, written) /\ f \in F /\ inputs \in SUBSET F
      BY <1>2, <2>1, <2>2 DEF GoodFiles
    <3> HIDE DEF F, inputs
    <3> QED  BY <2>2, <3>2, <3>3, ApartFromAll
  <2>4. \A g \in current'[low + 1] \ compaction.inputs1 : Apart(g, inputs)
    BY <1>8, <2>1, <2>2, <2>3
  <2>5. /\ compaction.inputs0 \subseteq current'[low] /\ compaction.inputs1 \subseteq current'[low + 1]
    BY <1>8, <2>1, <2>2
  <2> QED  BY <2>2, <2>4, <2>5 DEF InputsInv, NoGap, Apart
<1>14. OutputsInv'
  <2> SUFFICES ASSUME compaction # None PROVE OutputsInv'
    BY DEF OutputsInv
  <2>1. InputEntries(compaction)' = InputEntries(compaction)
    BY DEF InputEntries
  <2>2. \A g \in compaction.outputs : g.number \in Nat /\ g.number < next_file
    <3>1. compaction.outputs \subseteq Files
      BY <1>1 DEF TypeOK, Compactions
    <3> QED  BY <1>1, <3>1, FileFields DEF OutputsInv
  <2>3. \A g \in compaction.outputs : g.number < next_file' /\ g.number \notin NumbersOf(current')
    BY <1>1, <1>4, <1>12, <2>2 DEF OutputsInv
  <2> QED  BY <1>1, <2>1, <2>3 DEF OutputsInv
<1>15. \A l \in Levels : \A g : g \in current'[l] <=> g \in current[l] \/ (l = level /\ g = f)
  BY <1>8
<1> QED  BY <1>7, <1>9, <1>11, <1>12, <1>13, <1>14, <1>15

\* RemoveObsoleteFiles keeps what is in use.
LEMMA InUseKept ==
  ASSUME NoTableDeletedInUse, NEW inputs, NEW pending, NEW onDisk, disk \subseteq onDisk,
         RemoveObsoleteFiles(current', inputs, pending, onDisk),
         NumbersOf(current') \subseteq onDisk, held' = held, OutputNumbers' \subseteq pending,
         compaction' # None => /\ compaction' = compaction
                               /\ inputs = compaction.version /\ inputs # None
  PROVE  NoTableDeletedInUse'
<1>1. disk' = {n \in onDisk : n \in pending \/ \E w \in LiveVersions(current', inputs) : n \in NumbersOf(w)}
  BY DEF RemoveObsoleteFiles
<1>2. ASSUME NEW w \in LiveVersions(current', inputs), NumbersOf(w) \subseteq onDisk
      PROVE  NumbersOf(w) \subseteq disk'
  BY <1>1, <1>2
<1>3. NumbersOf(current') \subseteq disk'
  BY <1>2 DEF LiveVersions
<1>4. ASSUME NEW r \in Readers, held'[r] # None PROVE NumbersOf(held'[r]) \subseteq disk'
  <2>1. held[r] \in LiveVersions(current', inputs)
    BY <1>4 DEF LiveVersions
  <2>2. NumbersOf(held[r]) \subseteq onDisk
    BY <1>4 DEF NoTableDeletedInUse
  <2> QED  BY <1>2, <2>1, <2>2
<1>5. ASSUME compaction' # None
      PROVE  /\ NumbersOf(compaction'.version) \subseteq disk'
             /\ {f.number : f \in compaction'.outputs} \subseteq disk'
  <2>1. compaction.version \in LiveVersions(current', inputs)
    BY <1>5 DEF LiveVersions
  <2>2. NumbersOf(compaction.version) \subseteq onDisk /\ {f.number : f \in compaction.outputs} \subseteq onDisk
    BY <1>5 DEF NoTableDeletedInUse
  <2>3. {f.number : f \in compaction'.outputs} \subseteq pending
    BY <1>5 DEF OutputNumbers
  <2>4. NumbersOf(compaction.version) \subseteq disk'
    BY <1>2, <2>1, <2>2
  <2> QED  BY <1>1, <1>5, <2>2, <2>3, <2>4
<1> QED  BY <1>3, <1>4, <1>5 DEF NoTableDeletedInUse, NumbersOf

\* The memtable E becomes file f of a level.
Flushed(level, f, E) ==
  /\ FileOK(f, written) /\ f.number = next_file /\ f.entries = E
  /\ LogAndApply(NoFiles, [NoFiles EXCEPT ![level] = {f}])
  /\ level # 0 => \A l \in 0..level : \A g \in current[l] : ~Overlaps(g, f.smallest.k, f.largest.k)

LEMMA FlushedMemTable ==
  ASSUME LsmInv, CompactMemTable
  PROVE  \E level \in Levels : \E f \in Files : Flushed(level, f, imm)
<1>1. /\ TypeOK /\ EntriesInv /\ VersionInv /\ DiskInv /\ LevelsDisjoint /\ InputsInv /\ OutputsInv
  BY DEF LsmInv
<1> DEFINE f == NewFile(next_file, imm)
           level == PickLevelForMemTableOutput(current, f.smallest.k, f.largest.k)
<1>2. /\ imm # {} /\ next_file <= MaxFiles /\ LogAndApply(NoFiles, [NoFiles EXCEPT ![level] = {f}])
  BY DEF CompactMemTable
<1>3. /\ written \subseteq Entries /\ Distinct(written) /\ current \in Versions
      /\ \A l \in Levels : GoodFiles(current[l], written) /\ OneNumberEach(current[l])
                             /\ (l # 0 => Disjoint(current[l]))
  BY <1>1, CurrentGood
<1>4. next_file \in 1..MaxFiles /\ MaxFiles \in Nat
  BY <1>1, <1>2, LsmAssumption DEF TypeOK
<1>5. f \in Files /\ FileOK(f, written) /\ f.number = next_file /\ f.entries = imm
  BY <1>1, <1>2, <1>3, <1>4, NewFileOK DEF EntriesInv
<1> HIDE DEF f
<1>6. f.smallest.k \in Keys /\ f.largest.k \in Keys /\ f.smallest.k <= f.largest.k
  <2>1. GoodFiles({f}, written)
    BY <1>3, <1>5 DEF GoodFiles
  <2> QED  BY <2>1, GoodFile
<1>7. /\ level \in Levels
      /\ level # 0 => \A l \in 0..level : \A g \in current[l] : ~Overlaps(g, f.smallest.k, f.largest.k)
  BY <1>3, <1>6, LevelPicked
<1> HIDE DEF level
<1>8. Flushed(level, f, imm)
  BY <1>2, <1>5, <1>7 DEF Flushed
<1> QED  BY <1>5, <1>7, <1>8

\* A memtable becomes a table, in the middle of a compaction too.
LEMMA CompactMemTableStep ==
  ASSUME LsmInv, CompactMemTable PROVE LsmInv'
<1>1. /\ TypeOK /\ EntriesInv /\ VersionInv /\ DiskInv /\ LevelsDisjoint /\ InputsInv /\ OutputsInv
  BY DEF LsmInv
<1> DEFINE inputs == IF compaction = None THEN None ELSE compaction.version
<1>2. /\ imm # {} /\ next_file <= MaxFiles /\ next_file' = next_file + 1
      /\ imm' = {}
      /\ RemoveObsoleteFiles(current', inputs, pending_outputs, disk \cup {next_file})
      /\ UNCHANGED <<written, last_sequence, mem, compact_pointer, pending_outputs,
                     compaction, manual, snapshots, held, left>>
  BY DEF CompactMemTable
<1>4. next_file \in 1..MaxFiles /\ MaxFiles \in Nat
  BY <1>1, <1>2, LsmAssumption DEF TypeOK
<1>5. PICK level \in Levels : \E f \in Files : Flushed(level, f, imm)
  BY FlushedMemTable
<1>6. PICK f \in Files : Flushed(level, f, imm)
  BY <1>5
<1> HIDE DEF inputs
<1>8. /\ current' \in Versions /\ file_to_compact' = None
      /\ VersionInv' /\ LevelsDisjoint' /\ InputsInv' /\ OutputsInv'
      /\ NumbersOf(current') = NumbersOf(current) \cup {next_file}
  BY <1>2, <1>6, FileAdded DEF Flushed
<1>9. disk' \subseteq disk \cup {next_file}
  BY <1>2 DEF RemoveObsoleteFiles
<1>10. TypeOK'
  <2>1. next_file' \in 1..(MaxFiles + 1) /\ disk' \subseteq 1..MaxFiles
    BY <1>1, <1>2, <1>4, <1>9 DEF TypeOK
  <2>2. imm' \subseteq Entries
    BY <1>2
  <2> QED  BY <1>1, <1>2, <1>8, <2>1, <2>2 DEF TypeOK
<1>11. EntriesInv'
  BY <1>1, <1>2 DEF EntriesInv, Distinct
<1>12. DiskInv'
  <2>1. OutputNumbers' = OutputNumbers /\ pending_outputs = OutputNumbers /\ NoTableDeletedInUse
    BY <1>1, <1>2 DEF OutputNumbers, DiskInv
  <2>2. compaction' # None => compaction' = compaction /\ inputs = compaction.version /\ inputs # None
    <3>1. compaction # None => compaction.version \in Versions
      BY <1>1 DEF TypeOK, Compactions
    <3> QED  BY <1>2, <3>1, NoneAssumption DEF inputs
  <2>3. NumbersOf(current') \subseteq disk \cup {next_file}
    BY <1>8, <2>1 DEF NoTableDeletedInUse
  <2>4. OutputNumbers' \subseteq pending_outputs /\ disk \subseteq disk \cup {next_file} /\ held' = held
    BY <1>2, <2>1
  <2> DEFINE onDisk == disk \cup {next_file}
  <2> HIDE DEF onDisk
  <2>5. /\ disk \subseteq onDisk /\ NumbersOf(current') \subseteq onDisk
        /\ RemoveObsoleteFiles(current', inputs, pending_outputs, onDisk)
    BY <1>2, <2>3 DEF onDisk
  <2>6. NoTableDeletedInUse'
    BY <2>1, <2>2, <2>4, <2>5, InUseKept
  <2> QED  BY <1>1, <1>2, <2>1, <2>6 DEF DiskInv
<1> QED  BY <1>8, <1>10, <1>11, <1>12 DEF LsmInv

\* The log becomes a table of level 0.
LEMMA ReopenStep ==
  ASSUME LsmInv, Reopen PROVE LsmInv'
<1>1. /\ TypeOK /\ EntriesInv /\ VersionInv /\ DiskInv /\ LevelsDisjoint /\ InputsInv /\ OutputsInv
  BY DEF LsmInv
<1> DEFINE f == NewFile(next_file, mem)
<1>2. /\ left.reopens > 0 /\ left' = [left EXCEPT !.reopens = @ - 1]
      /\ mem # {} /\ compaction = None
      /\ next_file <= MaxFiles /\ next_file' = next_file + 1
      /\ LogAndApply(NoFiles, [NoFiles EXCEPT ![0] = {f}])
      /\ mem' = {}
      /\ RemoveObsoleteFiles(current', None, {}, disk \cup {next_file})
      /\ UNCHANGED <<written, last_sequence, imm, compact_pointer, pending_outputs, compaction,
                     manual, snapshots, held>>
  BY DEF Reopen
<1>3. /\ written \subseteq Entries /\ Distinct(written)
  BY <1>1, CurrentGood
<1>4. next_file \in 1..MaxFiles /\ MaxFiles \in Nat
  BY <1>1, <1>2, LsmAssumption DEF TypeOK
<1>5. f \in Files /\ FileOK(f, written) /\ f.number = next_file
  BY <1>1, <1>2, <1>3, <1>4, NewFileOK DEF EntriesInv
<1> HIDE DEF f
<1>8. /\ current' \in Versions /\ file_to_compact' = None
      /\ VersionInv' /\ LevelsDisjoint' /\ InputsInv' /\ OutputsInv'
      /\ NumbersOf(current') = NumbersOf(current) \cup {next_file}
  BY <1>2, <1>5, LevelFacts, FileAdded
<1>9. disk' \subseteq disk \cup {next_file}
  BY <1>2 DEF RemoveObsoleteFiles
<1>6. left \in Allowance
  BY <1>1 DEF TypeOK, Allowance
<1>7. left' \in Allowance /\ left'.writes = left.writes
  BY <1>2, <1>6 DEF Allowance
<1>10. TypeOK'
  <2>1. next_file' \in 1..(MaxFiles + 1) /\ disk' \subseteq 1..MaxFiles
    BY <1>1, <1>2, <1>4, <1>9 DEF TypeOK
  <2>2. mem' \subseteq Entries
    BY <1>2
  <2> QED  BY <1>1, <1>2, <1>7, <1>8, <2>1, <2>2 DEF TypeOK, Allowance
<1>11. EntriesInv'
  BY <1>1, <1>2, <1>7 DEF EntriesInv, Distinct
<1>12. DiskInv'
  <2>1. OutputNumbers' = {} /\ OutputNumbers = {} /\ pending_outputs = OutputNumbers /\ NoTableDeletedInUse
    BY <1>1, <1>2 DEF OutputNumbers, DiskInv
  <2> DEFINE onDisk == disk \cup {next_file}
             none == {}
  <2>2. NumbersOf(current') \subseteq onDisk
    BY <1>8, <2>1 DEF NoTableDeletedInUse
  <2>3. /\ RemoveObsoleteFiles(current', None, none, onDisk) /\ disk \subseteq onDisk
        /\ OutputNumbers' \subseteq none /\ held' = held /\ compaction' = None
    BY <1>2, <2>1
  <2> HIDE DEF onDisk, none
  <2>4. NoTableDeletedInUse'
    BY <2>1, <2>2, <2>3, InUseKept
  <2> QED  BY <1>1, <1>2, <2>1, <2>4 DEF DiskInv
<1> QED  BY <1>8, <1>10, <1>11, <1>12 DEF LsmInv

\* Of two entries, one before and one not before a third.
LEMMA BeforeSplit ==
  ASSUME NEW a \in Entries, NEW b \in Entries, NEW c \in Entries
  PROVE  /\ Before(a, b) /\ ~Before(c, b) => Before(a, c)
         /\ ~Before(b, a) /\ Before(b, c) => Before(a, c)
<1>1. /\ a.k \in Int /\ a.s \in Int /\ b.k \in Int /\ b.s \in Int /\ c.k \in Int /\ c.s \in Int
  BY EntryFields
<1> QED  BY <1>1 DEF Before

\* The only compaction to pick in a state of the invariant is ready.
LEMMA PickedReady ==
  ASSUME LsmInv, NeedsCompaction PROVE Ready(PickCompaction, written)
<1>1. TypeOK /\ EntriesInv /\ VersionInv /\ LevelsDisjoint
  BY DEF LsmInv
<1>2. /\ current \in Versions
      /\ \A l \in Levels : GoodFiles(current[l], written) /\ OneNumberEach(current[l])
  BY <1>1, CurrentGood
<1>3. \/ file_to_compact = None
      \/ file_to_compact \in SeekCharges /\ file_to_compact.file \in current[file_to_compact.level]
  BY <1>1 DEF TypeOK
<1> QED  BY <1>2, <1>3, Picked

\* A file that moves leaves its level for the next one.
LEMMA MovedLevels ==
  ASSUME LsmInv, MoveFile
  PROVE  LET c == PickCompaction
         IN /\ Ready(c, written) /\ file_to_compact' = None /\ current' \in Versions
            /\ \A l \in Levels : \A f : f \in current'[l] <=>
                 \/ f \in current[l] /\ ~(l = c.level /\ f \in c.inputs0)
                 \/ l = c.level + 1 /\ f \in c.inputs0
<1>1. /\ TypeOK /\ EntriesInv /\ VersionInv /\ DiskInv /\ LevelsDisjoint /\ InputsInv /\ OutputsInv
  BY DEF LsmInv
<1> DEFINE c == PickCompaction
           low == c.level
           S == c.inputs0
<1>2. /\ compaction = None /\ NeedsCompaction /\ IsTrivialMove(c)
      /\ LogAndApply([NoFiles EXCEPT ![low] = S], [NoFiles EXCEPT ![low + 1] = S])
      /\ compact_pointer' = [compact_pointer EXCEPT ![low] = c.largest]
      /\ UNCHANGED <<written, last_sequence, mem, imm, next_file, pending_outputs, disk,
                     compaction, manual, snapshots, held, left>>
  BY DEF MoveFile
<1>3. Ready(c, written)
  BY <1>2, PickedReady
<1> HIDE DEF c
<1>4. /\ written \subseteq Entries /\ Distinct(written) /\ current \in Versions
      /\ \A l \in Levels : GoodFiles(current[l], written) /\ OneNumberEach(current[l])
                             /\ (l # 0 => Disjoint(current[l]))
  BY <1>1, CurrentGood
<1>5. low \in 0..(kNumLevels - 2) /\ low \in Levels /\ low + 1 \in Levels /\ low + 1 # 0 /\ low + 1 # low
  BY <1>3, LevelFacts DEF Ready
<1>6. /\ S # {} /\ S \subseteq current[low] /\ c.largest \in Entries
      /\ Touching(current[low + 1], LowKey(S), HighKey(S)) = {}
  BY <1>2, <1>3 DEF Ready, IsTrivialMove
<1>7. S \subseteq Files
  BY <1>4, <1>5, <1>6 DEF Versions
<1> DEFINE D == [NoFiles EXCEPT ![low] = S]
           A == [NoFiles EXCEPT ![low + 1] = S]
<1>8. /\ D \in Versions /\ \A m \in Levels : D[m] = IF m = low THEN S ELSE {}
      /\ A \in Versions /\ \A m \in Levels : A[m] = IF m = low + 1 THEN S ELSE {}
      /\ LogAndApply(D, A)
  <2>1. S \in SUBSET Files /\ LogAndApply(D, A)
    BY <1>2, <1>7
  <2> HIDE DEF S, low
  <2>2. D \in Versions /\ \A m \in Levels : D[m] = IF m = low THEN S ELSE {}
    BY <1>5, <2>1, EditOne
  <2>3. A \in Versions /\ \A m \in Levels : A[m] = IF m = low + 1 THEN S ELSE {}
    BY <1>5, <2>1, EditOne
  <2> QED  BY <2>1, <2>2, <2>3
<1>9. Unique(current)
  BY <1>1 DEF VersionInv
<1> HIDE DEF low, S, D, A
<1>10. /\ file_to_compact' = None /\ current' \in Versions
       /\ \A l \in Levels : current'[l] = (current[l] \ D[l]) \cup A[l]
  <2>1. \A l \in Levels : D[l] \subseteq current[l]
    BY <1>5, <1>6, <1>8
  <2>2. \A l \in Levels : \A f \in A[l], g \in D[l] : f.number # g.number
    BY <1>5, <1>8
  <2> QED  BY <1>4, <1>8, <1>9, <2>1, <2>2, AppliedEdit
<1>11. \A l \in Levels : \A f :
         f \in current'[l] <=> (f \in current[l] /\ ~(l = low /\ f \in S)) \/ (l = low + 1 /\ f \in S)
  BY <1>5, <1>8, <1>10
<1> QED  BY <1>3, <1>10, <1>11 DEF c, low, S

\* A file moves to the next level, where nothing is in its range.
LEMMA MoveFileStep ==
  ASSUME LsmInv, MoveFile PROVE LsmInv'
<1>1. /\ TypeOK /\ EntriesInv /\ VersionInv /\ DiskInv /\ LevelsDisjoint /\ InputsInv /\ OutputsInv
  BY DEF LsmInv
<1> DEFINE c == PickCompaction
           low == c.level
           S == c.inputs0
<1>2. /\ compaction = None /\ NeedsCompaction /\ IsTrivialMove(c)
      /\ LogAndApply([NoFiles EXCEPT ![low] = S], [NoFiles EXCEPT ![low + 1] = S])
      /\ compact_pointer' = [compact_pointer EXCEPT ![low] = c.largest]
      /\ UNCHANGED <<written, last_sequence, mem, imm, next_file, pending_outputs, disk,
                     compaction, manual, snapshots, held, left>>
  BY DEF MoveFile
<1>3. /\ Ready(c, written) /\ file_to_compact' = None /\ current' \in Versions
      /\ \A l \in Levels : \A f :
           f \in current'[l] <=> (f \in current[l] /\ ~(l = low /\ f \in S)) \/ (l = low + 1 /\ f \in S)
  BY MovedLevels
<1> HIDE DEF c
<1>4. /\ written \subseteq Entries /\ Distinct(written) /\ current \in Versions
      /\ \A l \in Levels : GoodFiles(current[l], written) /\ OneNumberEach(current[l])
                             /\ (l # 0 => Disjoint(current[l]))
  BY <1>1, CurrentGood
<1>5. low \in 0..(kNumLevels - 2) /\ low \in Levels /\ low + 1 \in Levels /\ low + 1 # 0 /\ low + 1 # low
  BY <1>3, LevelFacts DEF Ready
<1>6. /\ S # {} /\ S \subseteq current[low] /\ c.largest \in Entries
      /\ Touching(current[low + 1], LowKey(S), HighKey(S)) = {}
  BY <1>2, <1>3 DEF Ready, IsTrivialMove
<1>7. S \subseteq Files
  BY <1>4, <1>5, <1>6 DEF Versions
<1>9. Unique(current)
  BY <1>1 DEF VersionInv
<1> HIDE DEF low, S
<1>10. file_to_compact' = None /\ current' \in Versions
  BY <1>3
<1>11. \A l \in Levels : \A f :
         f \in current'[l] <=> (f \in current[l] /\ ~(l = low /\ f \in S)) \/ (l = low + 1 /\ f \in S)
  BY <1>3 DEF low, S
<1>12. \A l \in Levels : \A f \in current'[l] : \E m \in Levels : f \in current[m]
  BY <1>5, <1>6, <1>11
<1>13. VersionInv'
  <2>1. \A l \in Levels : \A f \in current'[l] : FileOK(f, written') /\ f.number < next_file'
    BY <1>1, <1>2, <1>12 DEF VersionInv
  <2>2. Unique(current')
    <3> SUFFICES ASSUME NEW l \in Levels, NEW m \in Levels, NEW f \in current'[l], NEW g \in current'[m],
                        f.number = g.number
                 PROVE  f = g /\ l = m
      BY DEF Unique
    <3>1. f = g
      BY <1>9, <1>12 DEF Unique
    <3>2. \A k \in Levels : f \in current[k] /\ f \in S => k = low
      BY <1>5, <1>6, <1>9 DEF Unique
    <3>3. \A k, j \in Levels : f \in current[k] /\ f \in current[j] => k = j
      BY <1>9 DEF Unique
    <3> QED  BY <1>5, <1>11, <3>1, <3>2, <3>3
  <2> QED  BY <2>1, <2>2 DEF VersionInv
<1>14. LevelsDisjoint'
  <2> DEFINE F == current[low] \cup current[low + 1]
  <2>1. GoodFiles(F, written) /\ GoodFiles(S, written)
    BY <1>4, <1>5, <1>6 DEF GoodFiles
  <2> HIDE DEF F
  <2>2. ASSUME NEW f \in S, NEW g \in current[low + 1] PROVE Precedes(f, g) \/ Precedes(g, f)
    <3>1. f \in F /\ g \in F
      BY <1>6, <2>2 DEF F
    <3>2. /\ LowKey(S) \in Int /\ HighKey(S) \in Int /\ LowKey(S) <= f.smallest.k /\ f.largest.k <= HighKey(S)
      BY <1>6, <2>1, Hull
    <3>3. ~(LowKey(S) <= g.largest.k /\ g.smallest.k <= HighKey(S))
      BY <1>6, TouchingIn
    <3>4. /\ f.smallest.k \in Int /\ f.largest.k \in Int /\ g.smallest.k \in Int /\ g.largest.k \in Int
      BY <2>1, <3>1, GoodFile
    <3>5. ~Overlaps(g, f.smallest.k, f.largest.k)
      BY <3>2, <3>3, <3>4 DEF Overlaps
    <3> QED  BY <2>1, <3>1, <3>5, NoOverlap
  <2>3. ASSUME NEW l \in Levels, l # 0, NEW f \in current'[l], NEW g \in current'[l]
        PROVE  f = g \/ Precedes(f, g) \/ Precedes(g, f)
    <3>1. CASE f \in current[l] /\ g \in current[l]
      BY <1>4, <2>3, <3>1 DEF Disjoint
    <3>2. CASE l = low + 1 /\ f \in S /\ g \in current[l]
      BY <3>2, <2>2
    <3>3. CASE l = low + 1 /\ g \in S /\ f \in current[l]
      BY <3>3, <2>2
    <3>4. CASE l = low + 1 /\ f \in S /\ g \in S
      <4>2. \A h \in S : h = f
        <5>1. Cardinality(S) = 1
          BY <1>2 DEF IsTrivialMove, S
        <5>2. IsFiniteSet(S)
          BY <1>7, FilesFinite, FS_Subset
        <5>3. \E h : S = {h}
          BY <5>1, <5>2, FS_Singleton
        <5> QED  BY <3>4, <5>3
      <4> QED  BY <3>4, <4>2
    <3> QED  BY <1>11, <3>1, <3>2, <3>3, <3>4
  <2> QED  BY <2>3 DEF LevelsDisjoint, Precedes
<1>15. TypeOK'
  <2>1. compact_pointer' \in [Levels -> Entries \cup {None}]
    BY <1>1, <1>2, <1>6 DEF TypeOK, low
  <2> QED  BY <1>1, <1>2, <1>10, <2>1 DEF TypeOK
<1>16. EntriesInv'
  BY <1>1, <1>2 DEF EntriesInv, Distinct
<1>17. DiskInv'
  <2>1. NumbersOf(current') \subseteq NumbersOf(current)
    <3> SUFFICES ASSUME NEW n \in NumbersOf(current') PROVE n \in NumbersOf(current)
      OBVIOUS
    <3>1. PICK l \in Levels : \E f \in current'[l] : f.number = n
      BY Numbers
    <3> QED  BY <1>12, <3>1, Numbers
  <2>2. NoTableDeletedInUse'
    BY <1>1, <1>2, <2>1 DEF DiskInv, NoTableDeletedInUse, NumbersOf
  <2> QED  BY <1>1, <1>2, <2>2 DEF DiskInv, OutputNumbers
<1>18. InputsInv' /\ OutputsInv'
  BY <1>2 DEF InputsInv, OutputsInv
<1> QED  BY <1>13, <1>14, <1>15, <1>16, <1>17, <1>18 DEF LsmInv

\* The entries of files are entries of the writes their files hold.
LEMMA InputsWritten ==
  ASSUME NEW c, NEW F, NEW W, GoodFiles(F, W), c.inputs0 \subseteq F, c.inputs1 \subseteq F
  PROVE  /\ InputEntries(c) \subseteq W /\ InputEntries(c) \subseteq Entries
         /\ Distinct(InputEntries(c))
         /\ \A e \in InputEntries(c) : \E g \in c.inputs0 \cup c.inputs1 : e \in g.entries
<1>1. \A g \in c.inputs0 \cup c.inputs1 : g.entries \subseteq W
  BY GoodFile
<1>2. W \subseteq Entries /\ Distinct(W)
  BY DEF GoodFiles
<1>3. \A e \in InputEntries(c) : \E g \in c.inputs0 \cup c.inputs1 : e \in g.entries
  BY DEF InputEntries
<1>4. InputEntries(c) \subseteq W
  BY <1>1, <1>3
<1> QED  BY <1>2, <1>3, <1>4 DEF Distinct

\* A file of the next level that does not touch the range of a compaction is
\* before or after all of its inputs.
LEMMA OthersApart ==
  ASSUME NEW F, NEW W, GoodFiles(F, W), NEW I \in SUBSET F, I # {}, NEW B \in SUBSET F, Disjoint(B),
         NEW T, T = Touching(B, LowKey(I), HighKey(I)), NEW f \in B \ T
  PROVE  Apart(f, I \cup T)
<1>1. GoodFiles(I, W) /\ T \subseteq B
  BY TouchingIn DEF GoodFiles
<1>2. /\ LowKey(I) \in Int /\ HighKey(I) \in Int
      /\ \A g \in I : LowKey(I) <= g.smallest.k /\ g.largest.k <= HighKey(I)
      /\ \E g \in I : g.smallest.k = LowKey(I)
  BY <1>1, Hull
<1>3. \A g \in B : g \in T <=> LowKey(I) <= g.largest.k /\ g.smallest.k <= HighKey(I)
  BY TouchingIn
<1>4. \A g \in F : g.smallest.k \in Int /\ g.largest.k \in Int /\ g.smallest.k <= g.largest.k
  BY GoodFile
<1>5. LowKey(I) <= HighKey(I)
  <2>1. PICK g \in I : g.smallest.k = LowKey(I)
    BY <1>2
  <2>2. g.largest.k <= HighKey(I) /\ g.smallest.k \in Int /\ g.largest.k \in Int /\ g.smallest.k <= g.largest.k
    BY <1>2, <1>4
  <2> QED  BY <1>2, <2>1, <2>2
<1>6. f.largest.k < LowKey(I) \/ HighKey(I) < f.smallest.k
  BY <1>2, <1>3, <1>4
<1>7. ASSUME f.largest.k < LowKey(I), NEW g \in I \cup T PROVE Precedes(f, g)
  <2>1. CASE g \in I
    BY <1>2, <1>4, <1>7, <2>1 DEF Precedes, Before
  <2>2. CASE g \in T
    <3>1. g \in B /\ LowKey(I) <= g.largest.k /\ g # f
      BY <1>1, <1>3, <2>2
    <3>2. ~Precedes(g, f)
      BY <1>2, <1>4, <1>7, <3>1 DEF Precedes, Before
    <3> QED  BY <3>1, <3>2 DEF Disjoint
  <2> QED  BY <2>1, <2>2
<1>8. ASSUME HighKey(I) < f.smallest.k, NEW g \in I \cup T PROVE Precedes(g, f)
  <2>1. CASE g \in I
    BY <1>2, <1>4, <1>8, <2>1 DEF Precedes, Before
  <2>2. CASE g \in T
    <3>1. g \in B /\ g.smallest.k <= HighKey(I) /\ g # f
      BY <1>1, <1>3, <2>2
    <3>2. ~Precedes(f, g)
      BY <1>2, <1>4, <1>8, <3>1 DEF Precedes, Before
    <3> QED  BY <3>1, <3>2 DEF Disjoint
  <2> QED  BY <2>1, <2>2
<1> QED  BY <1>6, <1>7, <1>8 DEF Apart

\* A compaction starts with its inputs and the tables to write.
LEMMA StartCompactionStep ==
  ASSUME LsmInv, StartCompaction PROVE LsmInv'
<1>1. /\ TypeOK /\ EntriesInv /\ VersionInv /\ DiskInv /\ LevelsDisjoint /\ InputsInv /\ OutputsInv
  BY DEF LsmInv
<1> DEFINE c == PickCompaction
           low == c.level
           I == c.inputs0
           T == c.inputs1
           todo == OutputTables(c, smallest_snapshot)
<1>2. /\ compaction = None /\ NeedsCompaction
      /\ compaction' = [level |-> low, inputs0 |-> I, inputs1 |-> T, version |-> c.version,
                        todo |-> todo, outputs |-> {}]
      /\ compact_pointer' = [compact_pointer EXCEPT ![low] = c.largest]
      /\ UNCHANGED <<written, last_sequence, mem, imm, current, file_to_compact, next_file,
                     pending_outputs, disk, manual, snapshots, held, left>>
  BY DEF StartCompaction, Begin
<1>3. Ready(c, written)
  BY <1>2, PickedReady
<1> HIDE DEF c
<1>4. /\ written \subseteq Entries /\ Distinct(written) /\ current \in Versions
      /\ \A l \in Levels : GoodFiles(current[l], written) /\ OneNumberEach(current[l])
                             /\ (l # 0 => Disjoint(current[l]))
  BY <1>1, CurrentGood
<1>5. low \in 0..(kNumLevels - 2) /\ low \in Levels /\ low + 1 \in Levels /\ low + 1 # 0 /\ low + 1 # low
  BY <1>3, LevelFacts DEF Ready
<1>6. /\ I # {} /\ I \subseteq current[low] /\ c.largest \in Entries /\ c.version = current
      /\ T = Touching(current[low + 1], LowKey(I), HighKey(I)) /\ T \subseteq current[low + 1]
      /\ NoGap(I \cup T) /\ GoodFiles(c.grandparents, written) /\ OneNumberEach(c.grandparents)
  BY <1>3, TouchingIn DEF Ready
<1> DEFINE F == current[low] \cup current[low + 1]
<1>7. /\ GoodFiles(F, written) /\ I \subseteq F /\ T \subseteq F /\ current[low + 1] \subseteq F
      /\ Disjoint(current[low + 1])
  BY <1>4, <1>5, <1>6 DEF GoodFiles
<1> HIDE DEF F
<1>8. /\ InputEntries(c) \subseteq written /\ InputEntries(c) \subseteq Entries
      /\ Distinct(InputEntries(c))
  BY <1>7, InputsWritten
<1>9. Built(todo, {}, {e \in InputEntries(c) : ~Dropped(c, smallest_snapshot, e)})
  BY <1>6, <1>8, OutputsBuilt
<1> HIDE DEF todo, I, T, low
<1>10. todo \in Seq(SUBSET Entries) /\ Ascend(todo) /\ \A i \in DOMAIN todo : todo[i] \subseteq InputEntries(c)
  BY <1>9 DEF Built, InTables
<1>11. compaction' \in Compactions /\ compaction' # None
  <2>1. I \subseteq Files /\ T \subseteq Files
    BY <1>7 DEF GoodFiles
  <2>2. compaction' \in Compactions
    BY <1>2, <1>4, <1>5, <1>6, <1>10, <2>1 DEF Compactions
  <2> QED  BY <2>2, NoneAssumption
<1>12. /\ compaction'.level = low /\ compaction'.inputs0 = I /\ compaction'.inputs1 = T
       /\ compaction'.version = current /\ compaction'.todo = todo /\ compaction'.outputs = {}
  BY <1>2, <1>6
<1>13. InputEntries(compaction') = InputEntries(c)
  BY <1>12 DEF InputEntries, I, T
<1>14. InputsInv'
  <2>1. \A f \in current[low + 1] \ T : Apart(f, I \cup T)
    <3> TAKE f \in current[low + 1] \ T
    <3> DEFINE B == current[low + 1]
    <3> HIDE DEF B
    <3>1. B \in SUBSET F /\ Disjoint(B) /\ T = Touching(B, LowKey(I), HighKey(I)) /\ f \in B \ T
      BY <1>6, <1>7 DEF B
    <3> QED  BY <1>6, <1>7, <3>1, OthersApart
  <2>2. /\ compaction'.inputs0 \subseteq current'[compaction'.level]
        /\ compaction'.inputs1 \subseteq current'[compaction'.level + 1]
    BY <1>2, <1>6, <1>12
  <2>3. NoGap(compaction'.inputs0 \cup compaction'.inputs1)
    BY <1>6, <1>12
  <2>4. \A f \in current'[compaction'.level + 1] \ compaction'.inputs1 :
          Apart(f, compaction'.inputs0 \cup compaction'.inputs1)
    BY <1>2, <1>12, <2>1
  <2> QED  BY <2>2, <2>3, <2>4 DEF InputsInv, NoGap, Apart
<1>15. OutputsInv'
  <2>1. \A i \in DOMAIN compaction'.todo : compaction'.todo[i] \subseteq InputEntries(compaction')
    BY <1>10, <1>12, <1>13
  <2>2. \A i, j \in DOMAIN compaction'.todo :
          i < j => \A d \in compaction'.todo[i], e \in compaction'.todo[j] : Before(d, e)
    BY <1>10, <1>12 DEF Ascend
  <2> QED  BY <1>12, <2>1, <2>2 DEF OutputsInv, InputEntries
<1>16. TypeOK'
  <2>1. compact_pointer' \in [Levels -> Entries \cup {None}]
    BY <1>1, <1>2, <1>6 DEF TypeOK
  <2> QED  BY <1>1, <1>2, <1>11, <2>1 DEF TypeOK
<1>17. EntriesInv' /\ VersionInv' /\ LevelsDisjoint'
  BY <1>1, <1>2 DEF EntriesInv, Distinct, VersionInv, Unique, LevelsDisjoint
<1>18. DiskInv'
  <2>1. OutputNumbers' = {} /\ OutputNumbers = {}
    BY <1>2, <1>12 DEF OutputNumbers
  <2>2. NoTableDeletedInUse'
    BY <1>1, <1>2, <1>12 DEF DiskInv, NoTableDeletedInUse, NumbersOf
  <2> QED  BY <1>1, <1>2, <2>1, <2>2 DEF DiskInv
<1> QED  BY <1>14, <1>15, <1>16, <1>17, <1>18 DEF LsmInv

\* What an output that was written or is still to be written consists of.
LEMMA CompactionFacts ==
  ASSUME LsmInv, compaction # None
  PROVE  LET c == compaction
             F == current[c.level] \cup current[c.level + 1]
         IN /\ c \in Compactions
            /\ c.level \in 0..(kNumLevels - 2) /\ c.level \in Levels /\ c.level + 1 \in Levels
            /\ c.level + 1 # 0 /\ c.level + 1 # c.level
            /\ c.inputs0 \subseteq current[c.level] /\ c.inputs1 \subseteq current[c.level + 1]
            /\ GoodFiles(F, written)
            /\ InputEntries(c) \subseteq written /\ InputEntries(c) \subseteq Entries
            /\ \A e \in InputEntries(c) : \E g \in c.inputs0 \cup c.inputs1 : e \in g.entries
<1>1. /\ TypeOK /\ EntriesInv /\ VersionInv /\ LevelsDisjoint /\ InputsInv
  BY DEF LsmInv
<1>2. /\ compaction \in Compactions /\ compaction.level \in 0..(kNumLevels - 2)
  BY <1>1 DEF TypeOK, Compactions
<1>3. /\ compaction.level \in Levels /\ compaction.level + 1 \in Levels
      /\ compaction.level + 1 # 0 /\ compaction.level + 1 # compaction.level
  BY <1>2, LevelFacts
<1>4. \A l \in Levels : GoodFiles(current[l], written)
  BY <1>1, CurrentGood
<1> DEFINE F == current[compaction.level] \cup current[compaction.level + 1]
<1>5. GoodFiles(F, written)
  BY <1>3, <1>4 DEF GoodFiles
<1>6. /\ compaction.inputs0 \subseteq current[compaction.level]
      /\ compaction.inputs1 \subseteq current[compaction.level + 1]
  BY <1>1 DEF InputsInv
<1>7. compaction.inputs0 \subseteq F /\ compaction.inputs1 \subseteq F
  BY <1>6
<1> HIDE DEF F
<1>8. /\ InputEntries(compaction) \subseteq written /\ InputEntries(compaction) \subseteq Entries
      /\ \A e \in InputEntries(compaction) :
           \E g \in compaction.inputs0 \cup compaction.inputs1 : e \in g.entries
  BY <1>5, <1>7, InputsWritten
<1> QED  BY <1>2, <1>3, <1>5, <1>6, <1>8 DEF F

\* The next table of the compaction is written.
LEMMA WriteOutputStep ==
  ASSUME LsmInv, WriteOutput PROVE LsmInv'
<1>1. /\ TypeOK /\ EntriesInv /\ VersionInv /\ DiskInv /\ LevelsDisjoint /\ InputsInv /\ OutputsInv
  BY DEF LsmInv
<1> DEFINE table == Head(compaction.todo)
           f == NewFile(next_file, table)
           todo == compaction.todo
           outputs == compaction.outputs
           added == IF table = {} THEN {} ELSE {f}
<1>2. /\ compaction # None /\ todo # <<>>
      /\ UNCHANGED <<written, last_sequence, mem, imm, current, file_to_compact, compact_pointer,
                     manual, snapshots, held, left>>
  BY DEF WriteOutput
<1>3. /\ compaction \in Compactions /\ InputEntries(compaction) \subseteq written
      /\ InputEntries(compaction) \subseteq Entries
  BY <1>2, CompactionFacts
<1>4. todo \in Seq(SUBSET Entries) /\ outputs \subseteq Files
  BY <1>3 DEF Compactions
<1>5. /\ Len(todo) \in Nat /\ Len(todo) >= 1 /\ 1 \in DOMAIN todo /\ table = todo[1]
      /\ Tail(todo) \in Seq(SUBSET Entries) /\ Len(Tail(todo)) = Len(todo) - 1
      /\ \A i \in DOMAIN Tail(todo) : i \in Nat /\ i + 1 \in DOMAIN todo /\ Tail(todo)[i] = todo[i + 1] /\ 1 < i + 1
  BY <1>2, <1>4
<1>6. /\ \A i \in DOMAIN todo : todo[i] \subseteq InputEntries(compaction)
      /\ \A g \in outputs, i \in DOMAIN todo : \A e \in todo[i] : Before(g.largest, e)
      /\ \A i, j \in DOMAIN todo : i < j => \A d \in todo[i], e \in todo[j] : Before(d, e)
      /\ \A g, h \in outputs : g.number = h.number => g = h
      /\ \A g, h \in outputs : g = h \/ Precedes(g, h) \/ Precedes(h, g)
      /\ \A g \in outputs : /\ FileOK(g, written) /\ g.entries \subseteq InputEntries(compaction)
                            /\ g.number < next_file /\ g.number \notin NumbersOf(current)
  BY <1>1, <1>2 DEF OutputsInv
<1>7. next_file \in 1..(MaxFiles + 1) /\ MaxFiles \in Nat
  BY <1>1, LsmAssumption DEF TypeOK
<1>8. ASSUME table # {}
      PROVE  /\ next_file <= MaxFiles /\ next_file' = next_file + 1
             /\ pending_outputs' = pending_outputs \cup {next_file} /\ disk' = disk \cup {next_file}
             /\ f \in Files /\ FileOK(f, written) /\ f.number = next_file /\ f.entries = table
  <2>1. /\ next_file <= MaxFiles /\ next_file' = next_file + 1
        /\ pending_outputs' = pending_outputs \cup {next_file} /\ disk' = disk \cup {next_file}
    BY <1>8 DEF WriteOutput
  <2>2. next_file \in 1..MaxFiles /\ table \subseteq written
    BY <1>3, <1>5, <1>6, <1>7, <2>1
  <2>3. written \in SUBSET Entries /\ Distinct(written)
    BY <1>1 DEF TypeOK, EntriesInv
  <2> QED  BY <1>8, <2>1, <2>2, <2>3, NewFileOK
<1>9. ASSUME table = {} PROVE UNCHANGED <<next_file, pending_outputs, disk>>
  BY <1>9 DEF WriteOutput
<1>10. compaction' = [compaction EXCEPT !.todo = Tail(@), !.outputs = @ \cup added]
  <2>1. CASE table = {}
    <3>1. compaction' = [compaction EXCEPT !.todo = Tail(@)]
      BY <2>1 DEF WriteOutput
    <3>2. outputs \cup added = outputs
      BY <2>1
    <3> QED  BY <1>3, <3>1, <3>2 DEF Compactions
  <2>2. CASE table # {}
    BY <2>2 DEF WriteOutput
  <2> QED  BY <2>1, <2>2
<1> HIDE DEF f, table, added, todo, outputs
<1>11. /\ compaction'.level = compaction.level /\ compaction'.inputs0 = compaction.inputs0
       /\ compaction'.inputs1 = compaction.inputs1 /\ compaction'.version = compaction.version
       /\ compaction'.todo = Tail(todo) /\ compaction'.outputs = outputs \cup added
  BY <1>3, <1>10 DEF Compactions, todo, outputs
<1>12. \A g \in added : g = f /\ table # {}
  BY DEF added
<1>13. compaction' \in Compactions /\ compaction' # None
  <2>1. outputs \cup added \subseteq Files
    BY <1>4, <1>8, <1>12
  <2>2. compaction' \in Compactions
    <3> DEFINE o == outputs \cup added
               t == Tail(todo)
    <3> HIDE DEF o, t
    <3>1. compaction' = [compaction EXCEPT !.todo = t, !.outputs = o]
      BY <1>3, <1>10 DEF o, t, todo, outputs, Compactions
    <3>2. o \in SUBSET Files /\ t \in Seq(SUBSET Entries)
      BY <1>5, <2>1 DEF o, t
    <3> QED  BY <1>3, <3>1, <3>2 DEF Compactions
  <2> QED  BY <2>2, NoneAssumption
<1>14. InputEntries(compaction') = InputEntries(compaction)
  BY <1>11 DEF InputEntries
<1>15. InputsInv'
  <2>1. InputsInv /\ compaction # None
    BY <1>1, <1>2
  <2> QED  BY <1>2, <1>11, <2>1 DEF InputsInv, NoGap, Apart
<1>16. next_file' \in 1..(MaxFiles + 1) /\ next_file <= next_file'
  BY <1>7, <1>8, <1>9
<1>17. \A g \in outputs : g.number \in Nat /\ g.largest \in Entries /\ g.smallest \in Entries
  BY <1>4, FileFields
<1>18. VersionInv'
  <2>1. \A l \in Levels : \A g \in current[l] : g.number \in Nat /\ g.number < next_file
    <3>1. \A l \in Levels : current[l] \subseteq Files
      BY <1>1 DEF TypeOK, Versions
    <3> QED  BY <1>1, <3>1, FileFields DEF VersionInv
  <2>2. \A l \in Levels : \A g \in current[l] : g.number < next_file'
    BY <2>1, <1>7, <1>16
  <2> QED  BY <1>1, <1>2, <2>2 DEF VersionInv, Unique
<1>19. ASSUME table # {}
       PROVE  /\ f.smallest \in table /\ f.largest \in table /\ f.entries \subseteq InputEntries(compaction)
              /\ f.number < next_file' /\ f.number \notin NumbersOf(current)
              /\ \A g \in outputs : g.number # f.number /\ Precedes(g, f)
              /\ \A i \in DOMAIN Tail(todo) : \A e \in Tail(todo)[i] : Before(f.largest, e)
  <2>1. f.smallest \in table /\ f.largest \in table
    BY <1>8, <1>19 DEF FileOK
  <2>2. f.entries \subseteq InputEntries(compaction)
    BY <1>5, <1>6, <1>8, <1>19
  <2>3. f.number < next_file'
    BY <1>7, <1>8, <1>19
  <2>4. f.number \notin NumbersOf(current)
    <3>1. \A l \in Levels : \A g \in current[l] : g.number \in Nat /\ g.number < next_file
      <4>1. \A l \in Levels : current[l] \subseteq Files
        BY <1>1 DEF TypeOK, Versions
      <4> QED  BY <1>1, <4>1, FileFields DEF VersionInv
    <3>2. \A l \in Levels : \A g \in current[l] : g.number # next_file
      BY <3>1, <1>7
    <3> QED  BY <1>8, <1>19, <3>2, Numbers
  <2>5. ASSUME NEW g \in outputs PROVE g.number # f.number /\ Precedes(g, f)
    <3>1. g.number # f.number
      BY <1>6, <1>7, <1>8, <1>17, <1>19
    <3>2. Before(g.largest, f.smallest)
      BY <1>5, <1>6, <2>1
    <3> QED  BY <3>1, <3>2 DEF Precedes
  <2>6. \A i \in DOMAIN Tail(todo) : \A e \in Tail(todo)[i] : Before(f.largest, e)
    BY <1>5, <1>6, <2>1
  <2> QED  BY <2>1, <2>2, <2>3, <2>4, <2>5, <2>6
<1>20. OutputsInv'
  <2> DEFINE O == outputs \cup added
             t == Tail(todo)
  <2>1. \A g \in O : /\ FileOK(g, written') /\ g.entries \subseteq InputEntries(compaction')
                     /\ g.number < next_file' /\ g.number \notin NumbersOf(current')
    <3>1. \A g \in outputs : g.number < next_file'
      BY <1>6, <1>7, <1>16, <1>17
    <3> QED  BY <1>2, <1>6, <1>8, <1>12, <1>14, <1>19, <3>1
  <2>2. \A g, h \in O : g.number = h.number => g = h
    BY <1>6, <1>12, <1>19
  <2>3. \A g, h \in O : g = h \/ Precedes(g, h) \/ Precedes(h, g)
    BY <1>6, <1>12, <1>19
  <2>4. \A i \in DOMAIN t : t[i] \subseteq InputEntries(compaction')
    BY <1>5, <1>6, <1>14
  <2>5. \A g \in O, i \in DOMAIN t : \A e \in t[i] : Before(g.largest, e)
    BY <1>5, <1>6, <1>12, <1>19
  <2>6. \A i, j \in DOMAIN t : i < j => \A d \in t[i], e \in t[j] : Before(d, e)
    <3> SUFFICES ASSUME NEW i \in DOMAIN t, NEW j \in DOMAIN t, i < j PROVE \A d \in t[i], e \in t[j] : Before(d, e)
      OBVIOUS
    <3>1. i + 1 \in DOMAIN todo /\ j + 1 \in DOMAIN todo /\ t[i] = todo[i + 1] /\ t[j] = todo[j + 1] /\ i + 1 < j + 1
      BY <1>5
    <3> QED  BY <1>6, <3>1
  <2> HIDE DEF O, t
  <2>7. compaction'.outputs = O /\ compaction'.todo = t
    BY <1>11 DEF O, t
  <2> QED  BY <2>1, <2>2, <2>3, <2>4, <2>5, <2>6, <2>7 DEF OutputsInv, InputEntries, NumbersOf
<1>21. TypeOK'
  <2>1. pending_outputs' \subseteq 1..MaxFiles /\ disk' \subseteq 1..MaxFiles
    <3>1. pending_outputs \subseteq 1..MaxFiles /\ disk \subseteq 1..MaxFiles
      BY <1>1 DEF TypeOK
    <3>2. CASE table = {}
      BY <1>9, <3>1, <3>2
    <3>3. CASE table # {}
      <4>1. next_file \in 1..MaxFiles
        BY <1>7, <1>8, <3>3
      <4> QED  BY <1>8, <3>1, <3>3, <4>1
    <3> QED  BY <3>2, <3>3
  <2> QED  BY <1>1, <1>2, <1>13, <1>16, <2>1 DEF TypeOK
<1>22. EntriesInv' /\ LevelsDisjoint'
  BY <1>1, <1>2 DEF EntriesInv, Distinct, LevelsDisjoint
<1>23. DiskInv'
  <2>1. OutputNumbers = {g.number : g \in outputs} /\ OutputNumbers' = {g.number : g \in outputs \cup added}
    BY <1>2, <1>11, <1>13 DEF OutputNumbers, outputs
  <2>2. /\ NoTableDeletedInUse /\ pending_outputs = {g.number : g \in outputs} /\ manual = None
    BY <1>1, <2>1 DEF DiskInv
  <2>3. pending_outputs' = OutputNumbers' /\ disk \subseteq disk' /\ OutputNumbers' \subseteq disk'
    <3>1. {g.number : g \in outputs} \subseteq disk
      BY <1>2, <2>2 DEF NoTableDeletedInUse, outputs
    <3>2. CASE table = {}
      BY <1>9, <2>1, <2>2, <3>1, <3>2 DEF added
    <3>3. CASE table # {}
      <4>1. OutputNumbers' = {g.number : g \in outputs} \cup {next_file}
        BY <1>8, <2>1, <3>3 DEF added
      <4> QED  BY <1>8, <2>2, <3>1, <3>3, <4>1
    <3> QED  BY <3>2, <3>3
  <2>4. NoTableDeletedInUse'
    <3>1. \A r \in Readers : held[r] # None => NumbersOf(held[r]) \subseteq disk'
      BY <2>2, <2>3 DEF NoTableDeletedInUse
    <3>2. NumbersOf(current) \subseteq disk' /\ NumbersOf(compaction.version) \subseteq disk'
      BY <1>2, <2>2, <2>3 DEF NoTableDeletedInUse
    <3>3. {g.number : g \in compaction'.outputs} \subseteq disk'
      BY <1>13, <2>3 DEF OutputNumbers
    <3> QED  BY <1>2, <1>11, <3>1, <3>2, <3>3 DEF NoTableDeletedInUse, NumbersOf
  <2> QED  BY <1>2, <2>2, <2>3, <2>4 DEF DiskInv
<1> QED  BY <1>15, <1>18, <1>20, <1>21, <1>22, <1>23 DEF LsmInv

\* The outputs of a compaction take the place of its inputs.
LEMMA InstalledLevels ==
  ASSUME LsmInv, InstallCompaction
  PROVE  LET c == compaction
         IN /\ file_to_compact' = None /\ current' \in Versions
            /\ \A l \in Levels : \A f : f \in current'[l] <=>
                 \/ f \in current[l] /\ ~(l = c.level /\ f \in c.inputs0) /\ ~(l = c.level + 1 /\ f \in c.inputs1)
                 \/ l = c.level + 1 /\ f \in c.outputs
<1>1. /\ TypeOK /\ EntriesInv /\ VersionInv /\ DiskInv /\ LevelsDisjoint /\ InputsInv /\ OutputsInv
  BY DEF LsmInv
<1> DEFINE c == compaction
           low == c.level
           I == c.inputs0
           T == c.inputs1
           O == c.outputs
<1>2. /\ compaction # None
      /\ LogAndApply([NoFiles EXCEPT ![low] = I, ![low + 1] = T], [NoFiles EXCEPT ![low + 1] = O])
      /\ pending_outputs' = pending_outputs \ {f.number : f \in O}
      /\ compaction' = None
      /\ RemoveObsoleteFiles(current', None, pending_outputs', disk)
      /\ manual' = IF manual = None THEN None ELSE [manual EXCEPT !.begin = HighKey(I)]
      /\ UNCHANGED <<written, last_sequence, mem, imm, compact_pointer, next_file, snapshots, held, left>>
  BY DEF InstallCompaction
<1>3. /\ written \subseteq Entries /\ Distinct(written) /\ current \in Versions
      /\ \A l \in Levels : GoodFiles(current[l], written) /\ OneNumberEach(current[l])
                             /\ (l # 0 => Disjoint(current[l]))
  BY <1>1, CurrentGood
<1>4. /\ compaction \in Compactions
      /\ low \in Levels /\ low + 1 \in Levels /\ low + 1 # 0 /\ low + 1 # low
      /\ I \subseteq current[low] /\ T \subseteq current[low + 1]
      /\ GoodFiles(current[low] \cup current[low + 1], written)
      /\ InputEntries(compaction) \subseteq written
      /\ \A e \in InputEntries(compaction) : \E g \in I \cup T : e \in g.entries
  BY <1>2, CompactionFacts
<1>5. I \in SUBSET Files /\ T \in SUBSET Files /\ O \in SUBSET Files
  BY <1>4 DEF Compactions
<1>6. /\ \A f \in O : /\ FileOK(f, written) /\ f.entries \subseteq InputEntries(compaction)
                      /\ f.number < next_file /\ f.number \notin NumbersOf(current)
      /\ \A f, g \in O : f.number = g.number => f = g
      /\ \A f, g \in O : f = g \/ Precedes(f, g) \/ Precedes(g, f)
  BY <1>1, <1>2 DEF OutputsInv
<1> DEFINE D == [NoFiles EXCEPT ![low] = I, ![low + 1] = T]
           A == [NoFiles EXCEPT ![low + 1] = O]
<1>8. LogAndApply(D, A) /\ Unique(current)
  BY <1>1, <1>2 DEF VersionInv
<1> HIDE DEF low, I, T, O
<1>9. /\ D \in Versions /\ \A m \in Levels : D[m] = IF m = low THEN I ELSE IF m = low + 1 THEN T ELSE {}
  <2> DEFINE up == low + 1
  <2>1. D = [NoFiles EXCEPT ![low] = I, ![up] = T] /\ up \in Levels /\ low # up
    BY <1>4
  <2> HIDE DEF up, D
  <2>2. D \in Versions /\ \A m \in Levels : D[m] = IF m = low THEN I ELSE IF m = up THEN T ELSE {}
    BY <1>4, <1>5, <2>1 DEF NoFiles, Versions
  <2> QED  BY <2>2 DEF up
<1>10. /\ A \in Versions /\ \A m \in Levels : A[m] = IF m = low + 1 THEN O ELSE {}
  BY <1>4, <1>5, EditOne
<1> HIDE DEF D, A
<1>11. \A l \in Levels : \A f \in current[l], g \in O : f.number # g.number
  BY <1>6, Numbers
<1>12. /\ file_to_compact' = None /\ current' \in Versions
       /\ \A l \in Levels : current'[l] = (current[l] \ D[l]) \cup A[l]
  <2>1. \A l \in Levels : D[l] \subseteq current[l]
    BY <1>4, <1>9
  <2>2. \A l \in Levels : \A f \in A[l], g \in D[l] : f.number # g.number
    <3> SUFFICES ASSUME NEW l \in Levels, NEW f \in A[l], NEW g \in D[l] PROVE f.number # g.number
      OBVIOUS
    <3>1. f \in O /\ g \in current[l]
      BY <1>10, <2>1
    <3> QED  BY <1>11, <3>1
  <2> QED  BY <1>3, <1>8, <1>9, <1>10, <2>1, <2>2, AppliedEdit
<1>13. \A l \in Levels : \A f : f \in current'[l] <=>
         \/ f \in current[l] /\ ~(l = low /\ f \in I) /\ ~(l = low + 1 /\ f \in T)
         \/ l = low + 1 /\ f \in O
  BY <1>4, <1>9, <1>10, <1>12
<1> QED  BY <1>12, <1>13 DEF low, I, T, O

\* The outputs replace the inputs in the version current by now.
LEMMA InstallCompactionStep ==
  ASSUME LsmInv, InstallCompaction PROVE LsmInv'
<1>1. /\ TypeOK /\ EntriesInv /\ VersionInv /\ DiskInv /\ LevelsDisjoint /\ InputsInv /\ OutputsInv
  BY DEF LsmInv
<1> DEFINE c == compaction
           low == c.level
           I == c.inputs0
           T == c.inputs1
           O == c.outputs
<1>2. /\ compaction # None
      /\ LogAndApply([NoFiles EXCEPT ![low] = I, ![low + 1] = T], [NoFiles EXCEPT ![low + 1] = O])
      /\ pending_outputs' = pending_outputs \ {f.number : f \in O}
      /\ compaction' = None
      /\ RemoveObsoleteFiles(current', None, pending_outputs', disk)
      /\ manual' = IF manual = None THEN None ELSE [manual EXCEPT !.begin = HighKey(I)]
      /\ UNCHANGED <<written, last_sequence, mem, imm, compact_pointer, next_file, snapshots, held, left>>
  BY DEF InstallCompaction
<1>3. /\ written \subseteq Entries /\ Distinct(written) /\ current \in Versions
      /\ \A l \in Levels : GoodFiles(current[l], written) /\ OneNumberEach(current[l])
                             /\ (l # 0 => Disjoint(current[l]))
  BY <1>1, CurrentGood
<1>4. /\ compaction \in Compactions
      /\ low \in Levels /\ low + 1 \in Levels /\ low + 1 # 0 /\ low + 1 # low
      /\ I \subseteq current[low] /\ T \subseteq current[low + 1]
      /\ GoodFiles(current[low] \cup current[low + 1], written)
      /\ InputEntries(compaction) \subseteq written
      /\ \A e \in InputEntries(compaction) : \E g \in I \cup T : e \in g.entries
  BY <1>2, CompactionFacts
<1>5. I \in SUBSET Files /\ T \in SUBSET Files /\ O \in SUBSET Files
  BY <1>4 DEF Compactions
<1>6. /\ \A f \in O : /\ FileOK(f, written) /\ f.entries \subseteq InputEntries(compaction)
                      /\ f.number < next_file /\ f.number \notin NumbersOf(current)
      /\ \A f, g \in O : f.number = g.number => f = g
      /\ \A f, g \in O : f = g \/ Precedes(f, g) \/ Precedes(g, f)
  BY <1>1, <1>2 DEF OutputsInv
<1>7. \A f \in current[low + 1] \ T : Apart(f, I \cup T)
  BY <1>1, <1>2 DEF InputsInv
<1>12. /\ file_to_compact' = None /\ current' \in Versions
       /\ \A l \in Levels : \A f : f \in current'[l] <=>
            \/ f \in current[l] /\ ~(l = low /\ f \in I) /\ ~(l = low + 1 /\ f \in T)
            \/ l = low + 1 /\ f \in O
  BY InstalledLevels
<1>8. Unique(current)
  BY <1>1 DEF VersionInv
<1> HIDE DEF low, I, T, O
<1>11. \A l \in Levels : \A f \in current[l], g \in O : f.number # g.number
  BY <1>6, Numbers
<1>13. \A l \in Levels : \A f \in current'[l] :
         \/ f \in current[l] /\ (l = low + 1 => f \notin T)
         \/ l = low + 1 /\ f \in O
  BY <1>12
<1>14. VersionInv'
  <2>1. \A l \in Levels : \A f \in current'[l] : FileOK(f, written') /\ f.number < next_file'
    BY <1>1, <1>2, <1>6, <1>13 DEF VersionInv
  <2>2. Unique(current')
    <3> SUFFICES ASSUME NEW l \in Levels, NEW m \in Levels, NEW f \in current'[l], NEW g \in current'[m],
                        f.number = g.number
                 PROVE  f = g /\ l = m
      BY DEF Unique
    <3>1. CASE f \in current[l] /\ g \in current[m]
      BY <1>8, <3>1 DEF Unique
    <3>2. CASE l = low + 1 /\ f \in O /\ m = low + 1 /\ g \in O
      BY <1>6, <3>2
    <3>3. ~(f \in current[l] /\ g \in O) /\ ~(f \in O /\ g \in current[m])
      BY <1>11
    <3> QED  BY <1>13, <3>1, <3>2, <3>3
  <2> QED  BY <2>1, <2>2 DEF VersionInv
<1>15. LevelsDisjoint'
  <2>1. ASSUME NEW f \in current[low + 1] \ T, NEW o \in O PROVE Precedes(f, o) \/ Precedes(o, f)
    <3>1. /\ o.smallest \in InputEntries(compaction) /\ o.largest \in InputEntries(compaction)
      BY <1>6 DEF FileOK
    <3>2. PICK a \in I \cup T : o.smallest \in a.entries
      BY <1>4, <3>1
    <3>3. PICK b \in I \cup T : o.largest \in b.entries
      BY <1>4, <3>1
    <3> DEFINE F == current[low] \cup current[low + 1]
    <3>4. GoodFiles(F, written) /\ a \in F /\ b \in F /\ f \in F
      BY <1>4, <3>2, <3>3
    <3> HIDE DEF F
    <3>5. /\ f.smallest \in Entries /\ f.largest \in Entries /\ a.smallest \in Entries /\ a.largest \in Entries
          /\ b.smallest \in Entries /\ b.largest \in Entries /\ o.smallest \in Entries /\ o.largest \in Entries
      BY <1>5, <2>1, <3>4, GoodFile, FileFields
    <3>6. ~Before(o.smallest, a.smallest) /\ ~Before(b.largest, o.largest)
      <4>1. FileOK(a, written) /\ FileOK(b, written)
        BY <3>4 DEF GoodFiles
      <4> QED  BY <3>2, <3>3, <4>1 DEF FileOK
    <3>7. CASE \A g \in I \cup T : Precedes(f, g)
      <4>1. Before(f.largest, a.smallest)
        BY <3>7 DEF Precedes
      <4>2. Before(f.largest, o.smallest)
        BY <3>5, <3>6, <4>1, BeforeSplit
      <4> QED  BY <4>2 DEF Precedes
    <3>8. CASE \A g \in I \cup T : Precedes(g, f)
      <4>1. Before(b.largest, f.smallest)
        BY <3>8 DEF Precedes
      <4>2. Before(o.largest, f.smallest)
        BY <3>5, <3>6, <4>1, BeforeSplit
      <4> QED  BY <4>2 DEF Precedes
    <3> QED  BY <1>7, <3>7, <3>8 DEF Apart
  <2>2. ASSUME NEW l \in Levels, l # 0, NEW f \in current'[l], NEW g \in current'[l]
        PROVE  f = g \/ Precedes(f, g) \/ Precedes(g, f)
    <3>1. CASE f \in current[l] /\ g \in current[l]
      BY <1>3, <2>2, <3>1 DEF Disjoint
    <3>2. CASE f \in O /\ g \in O
      BY <1>6, <3>2
    <3>3. CASE l = low + 1 /\ f \in current[l] \ T /\ g \in O
      BY <2>1, <3>3
    <3>4. CASE l = low + 1 /\ g \in current[l] \ T /\ f \in O
      BY <2>1, <3>4
    <3> QED  BY <1>13, <3>1, <3>2, <3>3, <3>4
  <2> QED  BY <2>2 DEF LevelsDisjoint, Precedes
<1>16. /\ NoTableDeletedInUse /\ pending_outputs = {f.number : f \in O} /\ manual = None
  BY <1>1, <1>2 DEF DiskInv, OutputNumbers, O
<1>17. DiskInv'
  <2>1. pending_outputs' = {} /\ OutputNumbers' = {} /\ manual' = None
    BY <1>2, <1>16 DEF OutputNumbers, O
  <2>2. NumbersOf(current') \subseteq disk
    <3>1. NumbersOf(current) \subseteq disk /\ {f.number : f \in O} \subseteq disk
      BY <1>2, <1>16 DEF NoTableDeletedInUse, O
    <3> SUFFICES ASSUME NEW n \in NumbersOf(current') PROVE n \in disk
      OBVIOUS
    <3>2. PICK l \in Levels : \E f \in current'[l] : f.number = n
      BY Numbers
    <3>3. PICK f \in current'[l] : f.number = n
      BY <3>2
    <3>4. CASE f \in current[l]
      BY <3>1, <3>3, <3>4, Numbers
    <3>5. CASE f \in O
      BY <3>1, <3>3, <3>5
    <3> QED  BY <1>13, <3>4, <3>5
  <2>3. NoTableDeletedInUse'
    <3> DEFINE pending == pending_outputs'
    <3>1. RemoveObsoleteFiles(current', None, pending, disk) /\ OutputNumbers' \subseteq pending
      BY <1>2, <2>1
    <3>2. held' = held /\ compaction' = None
      BY <1>2
    <3> HIDE DEF pending
    <3> QED  BY <1>16, <2>2, <3>1, <3>2, InUseKept
  <2> QED  BY <2>1, <2>3 DEF DiskInv
<1>18. TypeOK'
  <2>1. pending_outputs' \subseteq 1..MaxFiles /\ disk' \subseteq 1..MaxFiles
    BY <1>1, <1>2 DEF TypeOK, RemoveObsoleteFiles
  <2> QED  BY <1>1, <1>2, <1>12, <2>1 DEF TypeOK
<1>19. EntriesInv' /\ InputsInv' /\ OutputsInv'
  BY <1>1, <1>2 DEF EntriesInv, Distinct, InputsInv, OutputsInv
<1> QED  BY <1>14, <1>15, <1>17, <1>18, <1>19 DEF LsmInv

-----------------------------------------------------------------------------
(*****************************************************************************)
(* Files charged for seeks.                                                 *)
(*****************************************************************************)

\* A search looks at one file of a level below level 0.
LEMMA OneFileEach ==
  ASSUME NEW v, NEW l, NEW k, NEW s
  PROVE  /\ FilesFor(v, l, k, s) \subseteq v[l]
         /\ l # 0 => \A f, g \in FilesFor(v, l, k, s) : f = g
<1>1. CASE l = 0
  BY <1>1 DEF FilesFor, Touching
<1>2. CASE l # 0
  <2> DEFINE g == InOrder(v[l])[FindFile(InOrder(v[l]), [k |-> k, s |-> s]) + 1]
  <2>1. \A f \in FilesFor(v, l, k, s) : f \in v[l] /\ f = g
    BY <1>2 DEF FilesFor
  <2> HIDE DEF g
  <2> QED  BY <2>1
<1> QED  BY <1>1, <1>2

\* The files of a search are in its order, each of them once.
LEMMA SearchSorted ==
  ASSUME TypeOK, VersionInv, NEW k, NEW s
  PROVE  LET q == ForEachOverlapping(current, k, s)
         IN /\ Len(q) \in Nat /\ DOMAIN q = 1..Len(q)
            /\ \A i \in 1..Len(q) : /\ q[i].level \in Levels
                                    /\ q[i].file \in FilesFor(current, q[i].level, k, s)
                                    /\ q[i] = [level |-> q[i].level, file |-> q[i].file]
            /\ \A l \in Levels : \A f \in FilesFor(current, l, k, s) :
                 \E i \in 1..Len(q) : q[i].level = l /\ q[i].file = f
            /\ \A i, j \in 1..Len(q) : i < j <=> NewestFirst(q[i], q[j])
<1> DEFINE all == UNION {{[level |-> l, file |-> f] : f \in FilesFor(current, l, k, s)} : l \in Levels}
           R == {p \in all \X all : NewestFirst(p[1], p[2])}
           q == ForEachOverlapping(current, k, s)
           Places == [level : Levels, file : Files]
<1>1. \A l \in Levels : FilesFor(current, l, k, s) \subseteq current[l] /\ current[l] \subseteq Files
  BY OneFileEach DEF TypeOK, Versions
<1>2. \A p \in all : /\ p \in Places /\ p.level \in Levels /\ p.file \in Files
                     /\ p.file \in FilesFor(current, p.level, k, s) /\ p.file \in current[p.level]
                     /\ p = [level |-> p.level, file |-> p.file]
  BY <1>1
<1>3. IsFiniteSet(all)
  <2> DEFINE P == Levels \X Files
             h == [p \in all |-> <<p.level, p.file>>]
  <2>1. IsFiniteSet(P)
    <3>1. IsFiniteSet(Levels)
      <4> DEFINE b == kNumLevels - 1
      <4>1. b \in Int
        BY LevelFacts
      <4> HIDE DEF b
      <4>2. IsFiniteSet(0..b)
        BY <4>1, FS_Interval
      <4> QED  BY <4>2 DEF Levels, b
    <3> QED  BY <3>1, FilesFinite, FS_Product
  <2> HIDE DEF all
  <2>2. h \in [all -> P]
    BY <1>2
  <2>3. \A p, r \in all : h[p] = h[r] => p = r
    BY <1>2
  <2> HIDE DEF h, P
  <2>4. h \in Injection(all, P)
    BY <2>2, <2>3 DEF Injection, IsInjective
  <2> QED  BY <2>1, <2>4, FS_Injection
<1>4. q = SortedBy(all, R)
  BY DEF ForEachOverlapping
<1>5. \A p \in all : p.level \in Nat /\ p.file.number \in Nat
  BY <1>2, LevelFacts, FileFields
<1>6. \A p, r \in all : <<p, r>> \in R <=> NewestFirst(p, r)
  OBVIOUS
<1>in. \A l \in Levels : \A f \in FilesFor(current, l, k, s) : [level |-> l, file |-> f] \in all
  OBVIOUS
<1> HIDE DEF all, R, q
<1>7. StrictOrder(all, R)
  <2>1. \A p, r \in all : p = r \/ NewestFirst(p, r) \/ NewestFirst(r, p)
    <3> SUFFICES ASSUME NEW p \in all, NEW r \in all, p # r PROVE NewestFirst(p, r) \/ NewestFirst(r, p)
      OBVIOUS
    <3>1. ~(p.level = r.level /\ p.file.number = r.file.number)
      <4> SUFFICES ASSUME p.level = r.level, p.file.number = r.file.number PROVE FALSE
        OBVIOUS
      <4>1. p.file = r.file
        BY <1>2 DEF VersionInv, Unique
      <4> QED  BY <1>2, <4>1
    <3>2. p.level \in Nat /\ r.level \in Nat /\ p.file.number \in Nat /\ r.file.number \in Nat
      BY <1>5
    <3> QED  BY <3>1, <3>2 DEF NewestFirst
  <2>2. \A p \in all : ~NewestFirst(p, p)
    BY <1>5 DEF NewestFirst
  <2>3. \A p, r, t \in all : NewestFirst(p, r) /\ NewestFirst(r, t) => NewestFirst(p, t)
    BY <1>5 DEF NewestFirst
  <2> QED  BY <1>6, <2>1, <2>2, <2>3 DEF StrictOrder
<1>8. LET n == Cardinality(all)
      IN /\ n \in Nat /\ q \in [1..n -> all] /\ q \in Seq(all) /\ Len(q) = n /\ DOMAIN q = 1..n
         /\ \A e \in all : \E i \in 1..n : q[i] = e
         /\ \A i, j \in 1..n : i < j <=> <<q[i], q[j]>> \in R
  BY <1>3, <1>4, <1>7, SortedOrder
<1>9. Len(q) \in Nat /\ DOMAIN q = 1..Len(q) /\ \A i \in 1..Len(q) : q[i] \in all
  BY <1>8
<1>10. \A i, j \in 1..Len(q) : i < j <=> NewestFirst(q[i], q[j])
  BY <1>6, <1>8, <1>9
<1>11. ASSUME NEW l \in Levels, NEW f \in FilesFor(current, l, k, s)
       PROVE  \E i \in 1..Len(q) : q[i].level = l /\ q[i].file = f
  <2>1. PICK i \in 1..Len(q) : q[i] = [level |-> l, file |-> f]
    BY <1>8, <1>in
  <2> QED  BY <2>1
<1>12. \A i \in 1..Len(q) : /\ q[i].level \in Levels
                            /\ q[i].file \in FilesFor(current, q[i].level, k, s)
                            /\ q[i] = [level |-> q[i].level, file |-> q[i].file]
  BY <1>2, <1>9
<1> QED  BY <1>9, <1>10, <1>11, <1>12 DEF q

\* The first of several files of a search is not in the last level: it can be
\* compacted.
LEMMA SearchOrder ==
  ASSUME TypeOK, VersionInv, NEW k, NEW s
  PROVE  LET order == ForEachOverlapping(current, k, s)
         IN /\ Len(order) \in Nat /\ DOMAIN order = 1..Len(order)
            /\ Len(order) >= 2 =>
                 order[1] \in SeekCharges /\ order[1].file \in current[order[1].level]
<1> DEFINE q == ForEachOverlapping(current, k, s)
<1>1. /\ Len(q) \in Nat /\ DOMAIN q = 1..Len(q)
      /\ \A i \in 1..Len(q) : /\ q[i].level \in Levels
                              /\ q[i].file \in FilesFor(current, q[i].level, k, s)
                              /\ q[i] = [level |-> q[i].level, file |-> q[i].file]
      /\ \A i, j \in 1..Len(q) : i < j <=> NewestFirst(q[i], q[j])
  BY SearchSorted
<1> HIDE DEF q
<1>2. ASSUME Len(q) >= 2 PROVE q[1] \in SeekCharges /\ q[1].file \in current[q[1].level]
  <2> DEFINE a == q[1]
             b == q[2]
  <2>1. 1 \in 1..Len(q) /\ 2 \in 1..Len(q) /\ 1 < 2
    BY <1>1, <1>2
  <2>2. /\ a.level \in Levels /\ a.file \in FilesFor(current, a.level, k, s)
        /\ b.level \in Levels /\ b.file \in FilesFor(current, b.level, k, s)
        /\ a = [level |-> a.level, file |-> a.file] /\ NewestFirst(a, b)
    BY <1>1, <2>1
  <2> HIDE DEF a, b
  <2>3. a.file \in current[a.level] /\ b.file \in current[b.level]
    BY <2>2, OneFileEach
  <2>4. a.file \in Files /\ b.file \in Files
    BY <2>2, <2>3 DEF TypeOK, Versions
  <2>5. a.file.number \in Nat /\ b.file.number \in Nat
    BY <2>4, FileFields
  <2>6. a.level \in 0..(kNumLevels - 2)
    <3>1. CASE a.level < b.level
      BY <2>2, <3>1, LevelFacts DEF Levels
    <3>2. CASE a.level = b.level /\ a.file.number > b.file.number
      <4>1. a.file # b.file
        BY <2>5, <3>2
      <4>2. a.level = 0
        BY <2>2, <3>2, <4>1, OneFileEach
      <4> QED  BY <4>2, LevelFacts
    <3> QED  BY <2>2, <3>1, <3>2 DEF NewestFirst
  <2>7. a \in SeekCharges
    BY <2>2, <2>4, <2>6 DEF SeekCharges
  <2> QED  BY <2>3, <2>7 DEF a
<1> QED  BY <1>1, <1>2 DEF q

\* What a read or a sample charges can be compacted.
LEMMA ChargedFile ==
  ASSUME TypeOK, VersionInv, NEW k, NEW s, NEW charged, charged # None,
         charged = SeekFile(current, k, s) \/ charged = SampledFile(current, k, s)
  PROVE  charged \in SeekCharges /\ charged.file \in current[charged.level]
<1> DEFINE order == ForEachOverlapping(current, k, s)
           hits == Hits(order, k, s)
           reads == IF hits = {} THEN Len(order) ELSE Min(hits)
<1>1. /\ Len(order) \in Nat /\ DOMAIN order = 1..Len(order)
      /\ Len(order) >= 2 => order[1] \in SeekCharges /\ order[1].file \in current[order[1].level]
  BY SearchOrder
<1>2. hits \subseteq DOMAIN order
  BY DEF Hits
<1>3. SeekFile(current, k, s) = IF reads >= 2 THEN order[1] ELSE None
  BY DEF SeekFile
<1>4. SampledFile(current, k, s) = IF Len(order) >= 2 THEN order[1] ELSE None
  BY DEF SampledFile
<1> HIDE DEF order, hits
<1>5. CASE charged = SampledFile(current, k, s)
  BY <1>1, <1>4, <1>5
<1>6. CASE charged = SeekFile(current, k, s)
  <2>1. reads >= 2 /\ charged = order[1]
    BY <1>3, <1>6
  <2>2. hits # {} => Min(hits) \in hits
    <3> SUFFICES ASSUME NEW i \in hits PROVE Min(hits) \in hits
      OBVIOUS
    <3>1. hits \in SUBSET Nat
      BY <1>1, <1>2
    <3>2. \E x \in hits : \A y \in hits : x <= y
      BY <3>1, LeastNumber
    <3> QED  BY <3>2 DEF Min
  <2>3. Len(order) >= 2
    BY <1>1, <1>2, <2>1, <2>2
  <2> QED  BY <1>1, <2>1, <2>3
<1> QED  BY <1>5, <1>6

\* A read or a sample charges a file.
LEMMA ChargeSteps ==
  ASSUME LsmInv, NEW k, NEW s, ChargeGet(k, s) \/ UpdateStats(SampledFile(current, k, s))
  PROVE  LsmInv'
<1>1. TypeOK /\ VersionInv
  BY DEF LsmInv
<1>2. PICK charged : /\ UpdateStats(charged)
                     /\ charged = SeekFile(current, k, s) \/ charged = SampledFile(current, k, s)
  BY DEF ChargeGet
<1>3. charged # None
  BY <1>2 DEF UpdateStats
<1>4. charged \in SeekCharges /\ charged.file \in current[charged.level]
  BY <1>1, <1>2, <1>3, ChargedFile
<1> QED  BY <1>2, <1>4, UpdateStatsStep

-----------------------------------------------------------------------------
(*****************************************************************************)
(* The theorems.                                                            *)
(*****************************************************************************)

\* A new database satisfies the invariant.
LEMMA LsmInit == ASSUME Init PROVE LsmInv
<1>1. /\ written = {} /\ last_sequence = 0 /\ mem = {} /\ imm = {}
      /\ current = [l \in Levels |-> {}] /\ file_to_compact = None
      /\ compact_pointer = [l \in Levels |-> None]
      /\ next_file = 1 /\ pending_outputs = {} /\ disk = {}
      /\ compaction = None /\ manual = None /\ snapshots = <<>>
      /\ held = [r \in Readers |-> None] /\ left \in Budgets
  BY DEF Init
<1>2. /\ left \in Allowance /\ MaxWrites \in Nat /\ MaxFiles \in Nat
  BY <1>1, LsmAssumption DEF Allowance
<1>3. TypeOK
  <2>1. current \in Versions /\ held \in [Readers -> Versions \cup {None}]
    BY <1>1 DEF Versions
  <2>2. snapshots \in Seq(0..last_sequence)
    BY <1>1
  <2>3. next_file \in 1..(MaxFiles + 1) /\ last_sequence \in 0..MaxWrites
    BY <1>1, <1>2
  <2> QED  BY <1>1, <1>2, <2>1, <2>2, <2>3 DEF TypeOK, Allowance
<1>4. EntriesInv
  BY <1>1, <1>2 DEF EntriesInv, Distinct, Allowance
<1>5. VersionInv /\ LevelsDisjoint
  BY <1>1 DEF VersionInv, Unique, LevelsDisjoint
<1>6. DiskInv
  <2>1. NumbersOf(current) = {}
    BY <1>1 DEF NumbersOf
  <2> QED  BY <1>1, <2>1 DEF DiskInv, OutputNumbers, NoTableDeletedInUse
<1>7. InputsInv /\ OutputsInv
  BY <1>1 DEF InputsInv, OutputsInv
<1> QED  BY <1>3, <1>4, <1>5, <1>6, <1>7 DEF LsmInv

\* Every step keeps the invariant.
LEMMA LsmNext == ASSUME LsmInv, [Next]_vars PROVE LsmInv'
<1>1. CASE Next
  <2>1. ASSUME NEW k \in Keys, NEW t \in Types, Write(k, t) PROVE LsmInv'
    BY <2>1, WriteStep
  <2>2. CASE SwitchMemTable
    BY <2>2, SwitchStep
  <2>3. CASE CompactMemTable
    BY <2>3, CompactMemTableStep
  <2>4. CASE Reopen
    BY <2>4, ReopenStep
  <2>5. CASE MoveFile
    BY <2>5, MoveFileStep
  <2>6. CASE StartCompaction
    BY <2>6, StartCompactionStep
  <2>7. CASE WriteOutput
    BY <2>7, WriteOutputStep
  <2>8. CASE InstallCompaction
    BY <2>8, InstallCompactionStep
  <2>9. CASE GetSnapshot
    BY <2>9, GetSnapshotStep
  <2>10. ASSUME NEW i \in DOMAIN snapshots, ReleaseSnapshot(i) PROVE LsmInv'
    BY <2>10, ReleaseSnapshotStep
  <2>11. ASSUME NEW r \in Readers, BeginRead(r) \/ EndRead(r) PROVE LsmInv'
    BY <2>11, ReadSteps
  <2>12. ASSUME NEW k, NEW s, ChargeGet(k, s) PROVE LsmInv'
    BY <2>12, ChargeSteps
  <2>13. ASSUME NEW e, RecordReadSample(e) PROVE LsmInv'
    BY <2>13, ChargeSteps DEF RecordReadSample
  <2> QED  BY <1>1, <2>1, <2>2, <2>3, <2>4, <2>5, <2>6, <2>7, <2>8, <2>9, <2>10, <2>11, <2>12, <2>13
           DEF Next
<1>2. CASE UNCHANGED vars
  <2>1. TypeOK'
    BY <1>2 DEF vars, LsmInv, TypeOK
  <2>2. mem' \subseteq written /\ imm' \subseteq written
    BY <1>2 DEF vars, LsmInv, EntriesInv
  <2> QED  BY <1>2, <2>1, <2>2, QuietSteps DEF vars
<1> QED  BY <1>1, <1>2

\* The state of the store keeps to the inductive invariant: what follows from it
\* holds whatever is flushed, moved, merged, reopened, read and charged.
THEOREM LsmInvariant == Spec => []LsmInv
<1>1. Init => LsmInv
  BY LsmInit
<1>2. LsmInv /\ [Next]_vars => LsmInv'
  BY LsmNext
<1> QED  BY <1>1, <1>2, PTL DEF Spec

\* Every variable has its type; a file charged for seeks is one of the current
\* version, in a level that has a next one.
THEOREM LsmTypes == Spec => []TypeOK
<1>1. LsmInv => TypeOK
  BY DEF LsmInv
<1> QED  BY <1>1, LsmInvariant, PTL

\* RemoveObsoleteFiles never deletes a table of the current version, of a version
\* that a reader holds, or an input or finished output of the running compaction.
THEOREM TablesInUseKept == Spec => []NoTableDeletedInUse
<1>1. LsmInv => NoTableDeletedInUse
  BY DEF LsmInv, DiskInv
<1> QED  BY <1>1, LsmInvariant, PTL

\* The files of a level below level 0 do not overlap, as SaveTo asserts: the
\* inputs of every compaction, PickLevelForMemTableOutput and the trivial move
\* keep them apart.
THEOREM LevelsStayDisjoint == Spec => []LevelsDisjoint
<1>1. LsmInv => LevelsDisjoint
  BY DEF LsmInv
<1> QED  BY <1>1, LsmInvariant, PTL

===============================================================================
