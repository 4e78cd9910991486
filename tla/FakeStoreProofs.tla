---------------------------- MODULE FakeStoreProofs ----------------------------
(***************************************************************************)
(* For any keys, values and iterators: the binary search of the in-memory  *)
(* double is exact, whatever calls its client makes; and for a careful     *)
(* client the double implements KVStore, call by call.                     *)
(*                                                                         *)
(* Both rest on one invariant: every array, the store's and each           *)
(* iterator's, refers to live tuples whose keys increase strictly.         *)
(***************************************************************************)
EXTENDS FakeStore, FiniteSetTheorems, SequenceTheorems, WellFoundedInduction, TLAPS

\* The keys of an array, in strictly increasing order.
Ordered(cells, mem) ==
  /\ cells \in Seq(Nat)
  /\ \A j \in 1..Len(cells) : cells[j] \in DOMAIN mem /\ mem[cells[j]].key \in Int
  /\ \A a, b \in 1..Len(cells) : a < b => mem[cells[a]].key < mem[cells[b]].key

-------------------------------------------------------------------------------
(* The binary search. *)

\* A set of numbers with a member has a smallest one.
LEMMA Least ==
  ASSUME NEW S \in SUBSET Nat, NEW k \in S
  PROVE  \E x \in S : \A y \in S : x <= y
<1>1. PICK x \in S : \A y \in S : ~(<<y, x>> \in OpToRel(<, Nat))
  <2>1. S \subseteq Nat /\ S # {}
    OBVIOUS
  <2> QED  BY <2>1, NatLessThanWellFounded, WFMin
<1>2. ASSUME NEW y \in S PROVE x <= y
  <2>1. x \in Nat /\ y \in Nat
    OBVIOUS
  <2>2. y < x => <<y, x>> \in OpToRel(<, Nat)
    BY <2>1 DEF OpToRel
  <2>3. ~(y < x)
    BY <1>1, <2>2
  <2> QED  BY <2>1, <2>3
<1> QED  BY <1>2

\* The number of keys below k: the position of the first one that is not.
IsBound(cells, mem, k, b) ==
  /\ b \in 0..Len(cells)
  /\ \A p \in 0..(Len(cells) - 1) : p < b <=> mem[cells[p + 1]].key < k

LEMMA BoundExists ==
  ASSUME NEW cells, NEW mem, Ordered(cells, mem), NEW k \in Int
  PROVE  \E b \in 0..Len(cells) : IsBound(cells, mem, k, b)
<1> DEFINE n == Len(cells)
           S == {b \in 0..n : b = n \/ ~(mem[cells[b + 1]].key < k)}
<1>1. n \in Nat /\ n \in S
  BY DEF Ordered
<1>2. S \in SUBSET Nat
  BY <1>1
<1>3. PICK b \in S : \A c \in S : b <= c
  <2> HIDE DEF S
  <2> QED  BY <1>1, <1>2, Least
<1>4. b \in 0..n /\ b \in Nat
  BY <1>1
<1>5. ASSUME NEW p \in 0..(n - 1), p < b PROVE mem[cells[p + 1]].key < k
  <2>1. p \in 0..n /\ p # n /\ ~(b <= p)
    BY <1>1, <1>4, <1>5
  <2> QED  BY <1>3, <2>1
<1>6. ASSUME NEW p \in 0..(n - 1), ~(p < b) PROVE ~(mem[cells[p + 1]].key < k)
  <2>1. b # n /\ ~(mem[cells[b + 1]].key < k)
    BY <1>1, <1>4, <1>6
  <2>2. b + 1 \in 1..n /\ p + 1 \in 1..n /\ (b = p \/ b + 1 < p + 1)
    BY <1>1, <1>4, <1>6, <2>1
  <2>3. mem[cells[b + 1]].key \in Int /\ mem[cells[p + 1]].key \in Int
    BY <2>2 DEF Ordered
  <2>4. b = p \/ mem[cells[b + 1]].key < mem[cells[p + 1]].key
    BY <2>2 DEF Ordered
  <2> QED  BY <2>1, <2>3, <2>4
<1> QED  BY <1>4, <1>5, <1>6 DEF IsBound

\* One turn of getIdx's loop, f being the rest of it.
Turn(f, cells, mem, k) ==
  [start \in 0..Len(cells) |-> [end \in 0..Len(cells) |->
     IF end - start <= 1
     THEN IF /\ start + (end - start) \div 2 < Len(cells)
             /\ k > mem[cells[start + (end - start) \div 2 + 1]].key
          THEN end ELSE start + (end - start) \div 2
     ELSE IF mem[cells[start + (end - start) \div 2 + 1]].key = k THEN start + (end - start) \div 2
     ELSE IF mem[cells[start + (end - start) \div 2 + 1]].key > k THEN f[start][start + (end - start) \div 2]
     ELSE f[start + (end - start) \div 2][end]]]

LEMMA Unfolded ==
  ASSUME NEW cells, NEW mem, NEW k
  PROVE  getIdx(cells, mem, k) = (CHOOSE search : search = Turn(search, cells, mem, k))[0][Len(cells)]
  BY SMT DEF getIdx, Turn

\* A range of at least two: the middle is inside.
LEMMA Halves ==
  ASSUME NEW s \in Nat, NEW e \in Nat, NEW m, m = s + (e - s) \div 2
  PROVE  /\ m \in Int
         /\ e - s = 1 => m = s
         /\ e - s > 1 => m \in Nat /\ s < m /\ m < e
  OBVIOUS

\* What the loop answers for the positions from start to end: the bound, or
\* the end of the range that is nearest to it.
Answer(cells, mem, k, b) ==
  [start \in 0..Len(cells) |-> [end \in 0..Len(cells) |->
     IF end - start <= 1
     THEN IF /\ start + (end - start) \div 2 < Len(cells)
             /\ k > mem[cells[start + (end - start) \div 2 + 1]].key
          THEN end ELSE start + (end - start) \div 2
     ELSE IF b <= start THEN start ELSE IF b >= end THEN end ELSE b]]

LEMMA AnswerInRange ==
  ASSUME NEW cells, NEW mem, Ordered(cells, mem), NEW k \in Int, NEW b \in 0..Len(cells), IsBound(cells, mem, k, b),
         NEW s \in 0..Len(cells), NEW e \in 0..Len(cells), s < e
  PROVE  Answer(cells, mem, k, b)[s][e] = IF b <= s THEN s ELSE IF b >= e THEN e ELSE b
<1> DEFINE n == Len(cells)
           m == s + (e - s) \div 2
<1>1. n \in Nat /\ s \in Nat /\ e \in Nat /\ b \in Nat
  BY DEF Ordered
<1>2. Answer(cells, mem, k, b)[s][e] =
        IF e - s <= 1
        THEN IF m < n /\ k > mem[cells[m + 1]].key THEN e ELSE m
        ELSE IF b <= s THEN s ELSE IF b >= e THEN e ELSE b
  BY DEF Answer
<1>3. CASE e - s <= 1
  <2>1. m = s /\ e = s + 1
    BY <1>1, <1>3
  <2>2. s \in 0..(n - 1) /\ s < n /\ s + 1 \in 1..n
    BY <1>1, <2>1
  <2>3. mem[cells[s + 1]].key \in Int
    BY <2>2 DEF Ordered
  <2>4. s < b <=> mem[cells[s + 1]].key < k
    BY <2>2 DEF IsBound
  <2>5. Answer(cells, mem, k, b)[s][e] = IF k > mem[cells[s + 1]].key THEN e ELSE s
    <3> HIDE DEF m
    <3> QED  BY <1>2, <1>3, <2>1, <2>2
  <2>6. PICK x \in Int : x = mem[cells[s + 1]].key
    BY <2>3
  <2>7. PICK a : a = Answer(cells, mem, k, b)[s][e]
    OBVIOUS
  <2>8. (s < b <=> x < k) /\ a = IF k > x THEN e ELSE s
    BY <2>4, <2>5, <2>6, <2>7
  <2>9. e = s + 1
    BY <2>1
  <2>10. a = IF b <= s THEN s ELSE IF b >= e THEN e ELSE b
    BY <1>1, <2>8, <2>9
  <2> QED  BY <2>7, <2>10
<1>4. CASE ~(e - s <= 1)
  BY <1>2, <1>4, SMTT(60)
<1> QED  BY <1>3, <1>4

LEMMA AnswerTurns ==
  ASSUME NEW cells, NEW mem, Ordered(cells, mem), NEW k \in Int, NEW b \in 0..Len(cells), IsBound(cells, mem, k, b),
         NEW f, f = Answer(cells, mem, k, b)
  PROVE  f = Turn(f, cells, mem, k)
<1> DEFINE n == Len(cells)
<1>1. n \in Nat /\ b \in Nat
  BY DEF Ordered
<1>2. ASSUME NEW s \in 0..n, NEW e \in 0..n
      PROVE  f[s][e] = Turn(f, cells, mem, k)[s][e]
  <2> DEFINE m == s + (e - s) \div 2
             x == mem[cells[m + 1]].key
  <2>1. Turn(f, cells, mem, k)[s][e] =
          IF e - s <= 1
          THEN IF m < n /\ k > x THEN e ELSE m
          ELSE IF x = k THEN m
          ELSE IF x > k THEN f[s][m]
          ELSE f[m][e]
    BY DEF Turn
  <2>2. f[s][e] =
          IF e - s <= 1
          THEN IF m < n /\ k > x THEN e ELSE m
          ELSE IF b <= s THEN s ELSE IF b >= e THEN e ELSE b
    BY DEF Answer
  <2>3. CASE e - s <= 1
    BY <2>1, <2>2, <2>3
  <2>4. CASE ~(e - s <= 1)
    <3>1. s \in Nat /\ e \in Nat /\ e - s > 1
      BY <1>1, <2>4
    <3>2. m \in Nat /\ s < m /\ m < e
      BY <3>1, Halves
    <3> HIDE DEF m
    <3>3. m \in 0..n /\ m \in 0..(n - 1) /\ m + 1 \in 1..n
      BY <1>1, <3>1, <3>2
    <3>4. x \in Int
      BY <3>3 DEF Ordered
    <3>5. m < b <=> x < k
      BY <3>3 DEF IsBound
    <3>6. f[s][m] = IF b <= s THEN s ELSE IF b >= m THEN m ELSE b
      BY <3>2, <3>3, AnswerInRange
    <3>7. f[m][e] = IF b <= m THEN m ELSE IF b >= e THEN e ELSE b
      BY <3>2, <3>3, AnswerInRange
    <3>8. x = k => m = b
      <4> SUFFICES ASSUME x = k, m # b PROVE FALSE
        OBVIOUS
      <4>1. b < m /\ b + 1 \in 1..n /\ b + 1 < m + 1 /\ b \in 0..(n - 1)
        BY <1>1, <3>2, <3>3, <3>4, <3>5
      <4>2. mem[cells[b + 1]].key < x /\ mem[cells[b + 1]].key \in Int
        BY <3>3, <4>1 DEF Ordered
      <4>3. ~(mem[cells[b + 1]].key < k)
        BY <1>1, <4>1 DEF IsBound
      <4> QED  BY <4>2, <4>3
    <3> HIDE DEF x
    <3>9. CASE x = k
      BY <1>1, <2>1, <2>2, <2>4, <3>1, <3>2, <3>8, <3>9
    <3>10. CASE x > k
      BY <1>1, <2>1, <2>2, <2>4, <3>1, <3>2, <3>4, <3>5, <3>6, <3>10
    <3>11. CASE x < k
      BY <1>1, <2>1, <2>2, <2>4, <3>1, <3>2, <3>4, <3>5, <3>7, <3>11
    <3> QED  BY <3>4, <3>9, <3>10, <3>11
  <2> QED  BY <2>3, <2>4
<1>3. f = [s \in 0..n |-> [e \in 0..n |-> f[s][e]]]
  BY DEF Answer
<1>4. Turn(f, cells, mem, k) = [s \in 0..n |-> [e \in 0..n |-> Turn(f, cells, mem, k)[s][e]]]
  BY DEF Turn
<1>5. PICK g : g = Turn(f, cells, mem, k)
  OBVIOUS
<1>6. /\ \A s \in 0..n : \A e \in 0..n : f[s][e] = g[s][e]
      /\ g = [s \in 0..n |-> [e \in 0..n |-> g[s][e]]]
  BY <1>2, <1>4, <1>5
<1>7. \A s \in 0..n : [e \in 0..n |-> f[s][e]] = [e \in 0..n |-> g[s][e]]
  BY <1>6
<1>8. f = g
  <2>1. [s \in 0..n |-> [e \in 0..n |-> f[s][e]]] = [s \in 0..n |-> [e \in 0..n |-> g[s][e]]]
    BY <1>7
  <2> QED  BY <1>3, <1>6, <2>1
<1> QED  BY <1>5, <1>8

\* getIdx answers the bound.
LEMMA SearchIs ==
  ASSUME NEW cells, NEW mem, Ordered(cells, mem), NEW k \in Int, NEW b \in 0..Len(cells), IsBound(cells, mem, k, b)
  PROVE  getIdx(cells, mem, k) = b
<1> DEFINE n == Len(cells)
<1>1. n \in Nat /\ b \in Nat
  BY DEF Ordered
<1>2. PICK g : g = Answer(cells, mem, k, b)
  OBVIOUS
<1>3. g = Turn(g, cells, mem, k)
  BY <1>2, AnswerTurns
<1>4. PICK f : f = CHOOSE search : search = Turn(search, cells, mem, k)
  OBVIOUS
<1>5. f = Turn(f, cells, mem, k)
  BY <1>3, <1>4
<1>6. f[0][n] = g[0][n]
  <2> SUFFICES ASSUME f[0][n] # g[0][n] PROVE FALSE
    OBVIOUS
  <2> DEFINE T == {d \in Nat : \E s, e \in 0..n : d = e - s /\ f[s][e] # g[s][e]}
  <2>1. n \in T
    <3>1. 0 \in 0..n /\ n \in 0..n /\ n = n - 0
      BY <1>1
    <3> QED  BY <1>1, <3>1
  <2>2. T \in SUBSET Nat
    OBVIOUS
  <2>3. PICK d \in T : \A c \in T : d <= c
    <3> HIDE DEF T
    <3> QED  BY <2>1, <2>2, Least
  <2>4. PICK s \in 0..n, e \in 0..n : d = e - s /\ f[s][e] # g[s][e]
    BY <2>3
  <2> DEFINE m == s + (e - s) \div 2
             x == mem[cells[m + 1]].key
  <2>5. ASSUME NEW h, h = Turn(h, cells, mem, k)
        PROVE  h[s][e] = IF e - s <= 1 THEN IF m < n /\ k > x THEN e ELSE m
                         ELSE IF x = k THEN m ELSE IF x > k THEN h[s][m] ELSE h[m][e]
    <3>1. Turn(h, cells, mem, k)[s][e] =
            IF e - s <= 1 THEN IF m < n /\ k > x THEN e ELSE m
            ELSE IF x = k THEN m ELSE IF x > k THEN h[s][m] ELSE h[m][e]
      BY <2>4 DEF Turn
    <3> QED  BY <2>5, <3>1
  <2>6. ~(e - s <= 1)
    BY <1>3, <1>5, <2>4, <2>5
  <2>7. s \in Nat /\ e \in Nat /\ e - s > 1
    BY <1>1, <2>6
  <2>8. m \in Nat /\ s < m /\ m < e
    BY <2>7, Halves
  <2> HIDE DEF m
  <2>9. m \in 0..n /\ m - s \in Nat /\ e - m \in Nat /\ ~(d <= m - s) /\ ~(d <= e - m)
    BY <1>1, <2>4, <2>7, <2>8
  <2>10. f[s][m] = g[s][m]
    BY <2>3, <2>9
  <2>11. f[m][e] = g[m][e]
    BY <2>3, <2>9
  <2> HIDE DEF x
  <2> QED  BY <1>3, <1>5, <2>4, <2>5, <2>6, <2>10, <2>11
<1>7. g[0][n] = b
  <2>1. 0 \in 0..n /\ n \in 0..n
    BY <1>1
  <2>2. CASE n = 0
    <3>1. g[0][0] = IF 0 - 0 <= 1
                    THEN IF /\ 0 + (0 - 0) \div 2 < n
                            /\ k > mem[cells[0 + (0 - 0) \div 2 + 1]].key
                         THEN 0 ELSE 0 + (0 - 0) \div 2
                    ELSE IF b <= 0 THEN 0 ELSE IF b >= 0 THEN 0 ELSE b
      BY <1>2, <2>1, <2>2 DEF Answer
    <3>2. g[0][0] = 0
      BY <2>2, <3>1
    <3> QED  BY <1>1, <2>2, <3>2
  <2>3. CASE n # 0
    <3>1. 0 < n
      BY <1>1, <2>3
    <3>2. g[0][n] = IF b <= 0 THEN 0 ELSE IF b >= n THEN n ELSE b
      BY <1>2, <2>1, <3>1, AnswerInRange
    <3> QED  BY <1>1, <3>2
  <2> QED  BY <2>2, <2>3
<1>8. getIdx(cells, mem, k) = f[0][n]
  BY <1>4, Unfolded
<1> QED  BY <1>6, <1>7, <1>8

\* What getIdx answers, for a target that is there or not.
LEMMA Search ==
  ASSUME NEW cells, NEW mem, Ordered(cells, mem), NEW k \in Int
  PROVE  IsBound(cells, mem, k, getIdx(cells, mem, k)) /\ getIdx(cells, mem, k) \in 0..Len(cells)
<1>1. PICK b \in 0..Len(cells) : IsBound(cells, mem, k, b)
  BY BoundExists
<1>2. getIdx(cells, mem, k) = b
  BY <1>1, SearchIs
<1> QED  BY <1>1, <1>2

LEMMA Counted ==
  ASSUME NEW cells, NEW mem, Ordered(cells, mem), NEW k \in Int, NEW b \in 0..Len(cells), IsBound(cells, mem, k, b)
  PROVE  Cardinality({c \in Range(cells) : mem[c].key < k}) = b
<1> DEFINE n == Len(cells)
           S == {c \in Range(cells) : mem[c].key < k}
           f == [j \in 1..b |-> cells[j]]
<1>1. n \in Nat /\ b \in Nat /\ b <= n /\ DOMAIN cells = 1..n
  BY DEF Ordered
<1>2. \A j \in 1..n : j - 1 \in 0..(n - 1) /\ (j - 1) + 1 = j /\ (j \in 1..b <=> j - 1 < b)
  BY <1>1
<1>3. \A j \in 1..n : j \in 1..b <=> mem[cells[j]].key < k
  BY <1>2 DEF IsBound
<1>4. ASSUME NEW j \in 1..b PROVE cells[j] \in S /\ f[j] = cells[j]
  <2>1. j \in 1..n
    BY <1>1
  <2> QED  BY <1>1, <1>3, <2>1 DEF Range
<1>5. ASSUME NEW i \in 1..b, NEW j \in 1..b, f[i] = f[j] PROVE i = j
  <2>1. i \in 1..n /\ j \in 1..n /\ cells[i] = cells[j]
    BY <1>1, <1>4, <1>5
  <2>2. ~(i < j) /\ ~(j < i)
    <3>1. mem[cells[i]].key \in Int
      BY <2>1 DEF Ordered
    <3>2. ~(mem[cells[i]].key < mem[cells[i]].key)
      BY <3>1
    <3> QED  BY <2>1, <3>2 DEF Ordered
  <2> QED  BY <1>1, <2>1, <2>2
<1>6. ASSUME NEW c \in S PROVE \E j \in 1..b : f[j] = c
  <2>1. PICK j \in 1..n : cells[j] = c
    BY <1>1, <1>6 DEF Range
  <2>2. j \in 1..b
    BY <1>3, <1>6, <2>1
  <2> QED  BY <1>4, <2>1, <2>2
<1>7. f \in [1..b -> S]
  BY <1>4
<1> HIDE DEF f, S
<1>8. ExistsBijection(1..b, S)
  <2>1. f \in Bijection(1..b, S)
    BY <1>5, <1>6, <1>7 DEF Bijection, Injection, Surjection, IsInjective
  <2> QED  BY <2>1 DEF ExistsBijection
<1>9. IsFiniteSet(1..b) /\ Cardinality(1..b) = b
  BY <1>1, FS_Interval
<1>10. Cardinality(S) = b
  BY <1>8, <1>9, FS_Bijection
<1> QED  BY <1>10 DEF S

-------------------------------------------------------------------------------
(* Arrays of tuples. *)

LEMMA Concat ==
  ASSUME NEW s \in Seq(Nat), NEW t \in Seq(Nat), NEW r, r = s \o t
  PROVE  /\ r \in Seq(Nat) /\ Len(r) = Len(s) + Len(t)
         /\ \A j \in 1..Len(s) : r[j] = s[j]
         /\ \A j \in 1..(Len(s) + Len(t)) : j > Len(s) => r[j] = t[j - Len(s)]
  OBVIOUS

LEMMA Slice ==
  ASSUME NEW s \in Seq(Nat), NEW a \in 1..(Len(s) + 1), NEW n \in 0..Len(s), a <= n + 1, NEW t, t = SubSeq(s, a, n)
  PROVE  /\ t \in Seq(Nat) /\ Len(t) = n - a + 1
         /\ \A j \in 1..(n - a + 1) : t[j] = s[a + j - 1]
<1>1. Len(s) \in Nat /\ a \in Int /\ n \in Int
  OBVIOUS
<1>2. \A j \in a..n : j \in 1..Len(s)
  BY <1>1
<1>3. \A j \in a..n : s[j] \in Nat
  BY <1>2, SMTT(60)
<1>4. /\ SubSeq(s, a, n) \in Seq(Nat)
      /\ Len(SubSeq(s, a, n)) = IF a <= n THEN n - a + 1 ELSE 0
      /\ \A j \in 1..(n - a + 1) : SubSeq(s, a, n)[j] = s[a + j - 1]
  BY <1>1, <1>3, SubSeqProperties
<1>5. (IF a <= n THEN n - a + 1 ELSE 0) = n - a + 1
  BY <1>1
<1> QED  BY <1>4, <1>5

\* t is s with c spliced in at i.
Spliced(s, i, c, t) ==
  /\ t \in Seq(Nat) /\ Len(t) = Len(s) + 1
  /\ \A j \in 1..(Len(s) + 1) : j < i => t[j] = s[j]
  /\ t[i] = c
  /\ \A j \in 1..(Len(s) + 1) : j > i => t[j] = s[j - 1]

LEMMA Inserted ==
  ASSUME NEW s \in Seq(Nat), NEW i \in 1..(Len(s) + 1), NEW c \in Nat
  PROVE  Spliced(s, i, c, InsertAt(s, i, c))
<1>0. PICK t : t = InsertAt(s, i, c)
  OBVIOUS
<1>1. PICK n \in Nat : n = Len(s)
  OBVIOUS
<1>2. PICK u : u = SubSeq(s, 1, i - 1)
  OBVIOUS
<1>3. PICK v : v = SubSeq(s, i, n)
  OBVIOUS
<1>4. u \in Seq(Nat) /\ Len(u) = i - 1 /\ \A j \in 1..(i - 1) : u[j] = s[j]
  <2>1. i - 1 \in 0..Len(s) /\ 1 \in 1..(Len(s) + 1) /\ 1 <= (i - 1) + 1 /\ (i - 1) - 1 + 1 = i - 1
    BY <1>1
  <2>2. /\ u \in Seq(Nat) /\ Len(u) = (i - 1) - 1 + 1
        /\ \A j \in 1..((i - 1) - 1 + 1) : u[j] = s[1 + j - 1]
    BY <1>2, <2>1, Slice
  <2> QED  BY <2>1, <2>2
<1>5. v \in Seq(Nat) /\ Len(v) = n - i + 1 /\ \A j \in 1..(n - i + 1) : v[j] = s[i + j - 1]
  <2>1. n \in 0..Len(s) /\ i <= n + 1
    BY <1>1
  <2> QED  BY <1>3, <2>1, Slice
<1>6. t = (u \o <<c>>) \o v
  BY <1>0, <1>1, <1>2, <1>3 DEF InsertAt
<1>7. PICK x \in Seq(Nat) : x = <<c>> /\ Len(x) = 1 /\ x[1] = c
  <2>1. <<c>> \in Seq(Nat) /\ Len(<<c>>) = 1 /\ <<c>>[1] = c
    OBVIOUS
  <2> QED  BY <2>1, Zenon
<1>8. PICK w : w = u \o x
  OBVIOUS
<1>9. w \in Seq(Nat) /\ Len(w) = i /\ (\A j \in 1..(i - 1) : w[j] = s[j]) /\ w[i] = c
  <2>1. /\ w \in Seq(Nat) /\ Len(w) = Len(u) + 1
        /\ \A j \in 1..Len(u) : w[j] = u[j]
        /\ \A j \in 1..(Len(u) + 1) : j > Len(u) => w[j] = x[j - Len(u)]
    BY <1>4, <1>7, <1>8, Concat
  <2>2. Len(u) = i - 1 /\ Len(u) + 1 = i /\ i \in 1..(Len(u) + 1) /\ i > Len(u) /\ i - Len(u) = 1
    BY <1>4
  <2>3. w[i] = c
    BY <1>7, <2>1, <2>2
  <2>4. \A j \in 1..(i - 1) : w[j] = s[j]
    BY <1>4, <2>1, <2>2
  <2> QED  BY <2>1, <2>2, <2>3, <2>4
<1>10. /\ t \in Seq(Nat) /\ Len(t) = Len(w) + Len(v)
       /\ \A j \in 1..Len(w) : t[j] = w[j]
       /\ \A j \in 1..(Len(w) + Len(v)) : j > Len(w) => t[j] = v[j - Len(w)]
  <2>1. w \in Seq(Nat) /\ v \in Seq(Nat) /\ t = w \o v
    BY <1>5, <1>6, <1>7, <1>8, <1>9
  <2> QED  BY ONLY <2>1, Concat
<1>11. Len(w) = i /\ Len(w) + Len(v) = n + 1
  BY <1>5, <1>9
<1>12. ASSUME NEW j \in 1..(n + 1), j < i PROVE t[j] = s[j]
  <2>1. j \in 1..i /\ j \in 1..(i - 1)
    BY <1>1, <1>12
  <2> QED  BY <1>9, <1>10, <1>11, <2>1
<1>13. t[i] = c
  <2>1. i \in 1..i
    BY <1>1
  <2> QED  BY <1>9, <1>10, <1>11, <2>1
<1>14. ASSUME NEW j \in 1..(n + 1), j > i PROVE t[j] = s[j - 1]
  <2>1. j - i \in 1..(n - i + 1) /\ i + (j - i) - 1 = j - 1
    BY <1>1, <1>14
  <2>2. t[j] = v[j - i]
    BY <1>10, <1>11, <1>14
  <2>3. v[j - i] = s[i + (j - i) - 1]
    BY <1>5, <2>1
  <2> QED  BY <2>1, <2>2, <2>3
<1>15. Spliced(s, i, c, t)
  BY <1>1, <1>10, <1>11, <1>12, <1>13, <1>14 DEF Spliced
<1> QED  BY <1>0, <1>15

LEMMA Removed ==
  ASSUME NEW s \in Seq(Nat), NEW i \in 1..Len(s), NEW t, t = RemoveAt(s, i)
  PROVE  /\ t \in Seq(Nat) /\ Len(t) = Len(s) - 1
         /\ \A j \in 1..(Len(s) - 1) : j < i => t[j] = s[j]
         /\ \A j \in 1..(Len(s) - 1) : ~(j < i) => t[j] = s[j + 1]
<1>1. PICK n \in Nat : n = Len(s)
  OBVIOUS
<1>2. PICK u : u = SubSeq(s, 1, i - 1)
  OBVIOUS
<1>3. PICK v : v = SubSeq(s, i + 1, n)
  OBVIOUS
<1>4. u \in Seq(Nat) /\ Len(u) = i - 1 /\ \A j \in 1..(i - 1) : u[j] = s[j]
  <2>1. i - 1 \in 0..Len(s) /\ 1 \in 1..(Len(s) + 1) /\ 1 <= (i - 1) + 1 /\ (i - 1) - 1 + 1 = i - 1
    BY <1>1
  <2>2. /\ u \in Seq(Nat) /\ Len(u) = (i - 1) - 1 + 1
        /\ \A j \in 1..((i - 1) - 1 + 1) : u[j] = s[1 + j - 1]
    BY <1>2, <2>1, Slice
  <2> QED  BY <2>1, <2>2
<1>5. v \in Seq(Nat) /\ Len(v) = n - i /\ \A j \in 1..(n - i) : v[j] = s[i + j]
  <2>1. n \in 0..Len(s) /\ i + 1 \in 1..(Len(s) + 1) /\ i + 1 <= n + 1 /\ n - (i + 1) + 1 = n - i
    BY <1>1
  <2>2. /\ v \in Seq(Nat) /\ Len(v) = n - (i + 1) + 1
        /\ \A j \in 1..(n - (i + 1) + 1) : v[j] = s[(i + 1) + j - 1]
    BY <1>3, <2>1, Slice
  <2>3. \A j \in 1..(n - i) : (i + 1) + j - 1 = i + j
    BY <1>1
  <2> QED  BY <2>1, <2>2, <2>3
<1>6. t = u \o v
  BY <1>1, <1>2, <1>3 DEF RemoveAt
<1>7. /\ t \in Seq(Nat) /\ Len(t) = Len(u) + Len(v)
      /\ \A j \in 1..Len(u) : t[j] = u[j]
      /\ \A j \in 1..(Len(u) + Len(v)) : j > Len(u) => t[j] = v[j - Len(u)]
  <2>1. u \in Seq(Nat) /\ v \in Seq(Nat) /\ t = u \o v
    BY <1>4, <1>5, <1>6
  <2> QED  BY ONLY <2>1, Concat
<1>8. Len(u) = i - 1 /\ Len(u) + Len(v) = n - 1
  BY <1>1, <1>4, <1>5
<1>9. ASSUME NEW j \in 1..(n - 1), j < i PROVE t[j] = s[j]
  <2>1. j \in 1..(i - 1)
    BY <1>1, <1>9
  <2> QED  BY <1>4, <1>7, <1>8, <2>1
<1>10. ASSUME NEW j \in 1..(n - 1), ~(j < i) PROVE t[j] = s[j + 1]
  <2>1. j > i - 1 /\ j - (i - 1) \in 1..(n - i) /\ i + (j - (i - 1)) = j + 1
    BY <1>1, <1>10
  <2>2. t[j] = v[j - (i - 1)]
    BY <1>7, <1>8, <2>1
  <2>3. v[j - (i - 1)] = s[i + (j - (i - 1))]
    BY <1>5, <2>1
  <2> QED  BY <2>1, <2>2, <2>3
<1> QED  BY <1>1, <1>7, <1>8, <1>9, <1>10

\* A change of values, or of other tuples, keeps the order.
LEMMA OrderKept ==
  ASSUME NEW cells, NEW mem, Ordered(cells, mem), NEW new,
         \A j \in 1..Len(cells) : cells[j] \in DOMAIN new /\ new[cells[j]].key = mem[cells[j]].key
  PROVE  Ordered(cells, new)
  BY DEF Ordered

LEMMA InsertKeepsOrder ==
  ASSUME NEW cells, NEW mem, Ordered(cells, mem), NEW k \in Int, NEW c \in Nat, NEW b \in 0..Len(cells),
         IsBound(cells, mem, k, b), b < Len(cells) => mem[cells[b + 1]].key # k,
         c \in DOMAIN mem, mem[c].key = k, NEW new, new = InsertAt(cells, b + 1, c)
  PROVE  Ordered(new, mem)
<1> DEFINE n == Len(cells)
<1>1. cells \in Seq(Nat) /\ n \in Nat /\ b \in Nat
  BY DEF Ordered
<1>2. b + 1 \in 1..(n + 1)
  BY <1>1
<1>3. /\ new \in Seq(Nat) /\ Len(new) = n + 1
      /\ \A j \in 1..(n + 1) : j < b + 1 => new[j] = cells[j]
      /\ new[b + 1] = c
      /\ \A j \in 1..(n + 1) : j > b + 1 => new[j] = cells[j - 1]
  <2>1. Spliced(cells, b + 1, c, new)
    BY <1>1, <1>2, Inserted
  <2> QED  BY <2>1 DEF Spliced
\* Where each position comes from, and how its key lies to k.
<1>4. ASSUME NEW j \in 1..n PROVE j <= b <=> mem[cells[j]].key < k
  <2>1. j - 1 \in 0..(n - 1) /\ (j - 1) + 1 = j /\ (j <= b <=> j - 1 < b)
    BY <1>1
  <2> QED  BY <2>1 DEF IsBound
<1>5. ASSUME NEW j \in 1..n, j > b PROVE mem[cells[j]].key > k
  <2>1. b + 1 \in 1..n /\ b < n
    BY <1>1, <1>5
  <2>2. mem[cells[j]].key \in Int /\ mem[cells[b + 1]].key \in Int
    BY <2>1 DEF Ordered
  <2>3. ~(mem[cells[b + 1]].key < k) /\ mem[cells[b + 1]].key # k
    BY <1>1, <1>4, <2>1
  <2>4. j = b + 1 \/ mem[cells[b + 1]].key < mem[cells[j]].key
    <3>1. j = b + 1 \/ b + 1 < j
      BY <1>1, <1>5
    <3> QED  BY <2>1, <3>1 DEF Ordered
  <2>5. PICK x \in Int, y \in Int : x = mem[cells[b + 1]].key /\ y = mem[cells[j]].key
    BY <2>2
  <2>6. ~(x < k) /\ x # k /\ (x = y \/ x < y)
    BY <2>3, <2>4, <2>5
  <2>7. y > k
    BY <2>6
  <2> QED  BY <2>5, <2>7
<1>6. ASSUME NEW j \in 1..(n + 1) PROVE new[j] \in DOMAIN mem /\ mem[new[j]].key \in Int
  <2>1. CASE j < b + 1
    <3>1. j \in 1..n
      BY <1>1, <2>1
    <3> QED  BY <1>3, <2>1, <3>1 DEF Ordered
  <2>2. CASE j = b + 1
    <3>1. new[j] = c
      BY <1>1, <1>3, <2>2
    <3> QED  BY <3>1
  <2>3. CASE j > b + 1
    <3>1. j - 1 \in 1..n
      BY <1>1, <2>3
    <3>2. new[j] = cells[j - 1]
      BY <1>3, <2>3
    <3> QED  BY <3>1, <3>2 DEF Ordered
  <2>4. j < b + 1 \/ j = b + 1 \/ j > b + 1
    BY <1>1
  <2> QED  BY <2>1, <2>2, <2>3, <2>4
<1>7. ASSUME NEW j \in 1..(n + 1), NEW l \in 1..(n + 1), j < l PROVE mem[new[j]].key < mem[new[l]].key
  <2>1. CASE l < b + 1
    <3>1. j \in 1..n /\ l \in 1..n /\ j < b + 1
      BY <1>1, <1>7, <2>1
    <3>2. new[j] = cells[j] /\ new[l] = cells[l]
      BY <1>3, <2>1, <3>1
    <3> QED  BY <1>7, <3>1, <3>2 DEF Ordered
  <2>2. CASE l = b + 1
    <3>1. j \in 1..n /\ j <= b /\ j < b + 1
      BY <1>1, <1>7, <2>2
    <3>2. new[j] = cells[j] /\ new[l] = c
      BY <1>1, <1>3, <2>2, <3>1
    <3> QED  BY <1>4, <3>1, <3>2
  <2>3. CASE l > b + 1
    <3>1. l - 1 \in 1..n /\ l - 1 > b
      BY <1>1, <2>3
    <3>2. new[l] = cells[l - 1]
      BY <1>3, <2>3
    <3>3. CASE j < b + 1
      <4>1. j \in 1..n /\ j < l - 1
        BY <1>1, <2>3, <3>3
      <4>2. new[j] = cells[j]
        BY <1>3, <3>3
      <4> QED  BY <3>1, <3>2, <4>1, <4>2 DEF Ordered
    <3>4. CASE j = b + 1
      <4>1. new[j] = c
        BY <1>1, <1>3, <3>4
      <4>2. mem[cells[l - 1]].key > k /\ mem[cells[l - 1]].key \in Int
        BY <1>5, <3>1 DEF Ordered
      <4>3. PICK y \in Int : y = mem[cells[l - 1]].key
        BY <4>2
      <4>4. k < y
        BY <4>2, <4>3
      <4> QED  BY <3>2, <4>1, <4>3, <4>4
    <3>5. CASE j > b + 1
      <4>1. j - 1 \in 1..n /\ j - 1 < l - 1
        BY <1>1, <1>7, <3>5
      <4>2. new[j] = cells[j - 1]
        BY <1>3, <3>5
      <4> QED  BY <3>1, <3>2, <4>1, <4>2 DEF Ordered
    <3>6. j < b + 1 \/ j = b + 1 \/ j > b + 1
      BY <1>1
    <3> QED  BY <3>3, <3>4, <3>5, <3>6
  <2>4. l < b + 1 \/ l = b + 1 \/ l > b + 1
    BY <1>1
  <2> QED  BY <2>1, <2>2, <2>3, <2>4
<1> HIDE DEF n
<1> QED  BY <1>3, <1>6, <1>7 DEF Ordered

\* new refers to the tuples of cells but for the one at i.
Without(cells, i, new) ==
  /\ \A j \in 1..Len(new) : \E l \in 1..Len(cells) : l # i /\ new[j] = cells[l]
  /\ \A l \in 1..Len(cells) : l # i => \E j \in 1..Len(new) : new[j] = cells[l]

LEMMA RemoveKeepsOrder ==
  ASSUME NEW cells, NEW mem, Ordered(cells, mem), NEW i \in 1..Len(cells), NEW new, new = RemoveAt(cells, i)
  PROVE  Ordered(new, mem) /\ Without(cells, i, new)
<1>1. PICK n \in Nat : n = Len(cells)
  BY DEF Ordered
<1>2. cells \in Seq(Nat)
  BY DEF Ordered
<1>3. /\ new \in Seq(Nat) /\ Len(new) = n - 1
      /\ \A j \in 1..(n - 1) : j < i => new[j] = cells[j]
      /\ \A j \in 1..(n - 1) : ~(j < i) => new[j] = cells[j + 1]
  BY <1>1, <1>2, Removed
<1> DEFINE at(j) == IF j < i THEN j ELSE j + 1
<1>4. ASSUME NEW j \in 1..(n - 1) PROVE at(j) \in 1..n /\ at(j) # i /\ new[j] = cells[at(j)]
  <2>1. CASE j < i
    <3>1. at(j) = j /\ j \in 1..n /\ j # i
      BY <1>1, <2>1
    <3> QED  BY <1>3, <2>1, <3>1
  <2>2. CASE ~(j < i)
    <3>1. at(j) = j + 1 /\ j + 1 \in 1..n /\ j + 1 # i
      BY <1>1, <2>2
    <3> QED  BY <1>3, <2>2, <3>1
  <2> QED  BY <2>1, <2>2
<1>5. ASSUME NEW j \in 1..(n - 1), NEW l \in 1..(n - 1), j < l PROVE at(j) < at(l)
  BY <1>1, <1>5
<1>6. ASSUME NEW l \in 1..n, l # i PROVE \E j \in 1..(n - 1) : at(j) = l
  <2>1. CASE l < i
    <3>1. l \in 1..(n - 1) /\ at(l) = l
      BY <1>1, <2>1
    <3> QED  BY <3>1
  <2>2. CASE ~(l < i)
    <3>1. l - 1 \in 1..(n - 1) /\ at(l - 1) = l
      BY <1>1, <1>6, <2>2
    <3> QED  BY <3>1
  <2> QED  BY <2>1, <2>2
<1> HIDE DEF at
<1>7. Ordered(new, mem)
  <2>1. ASSUME NEW j \in 1..(n - 1) PROVE new[j] \in DOMAIN mem /\ mem[new[j]].key \in Int
    BY <1>1, <1>4 DEF Ordered
  <2>2. ASSUME NEW j \in 1..(n - 1), NEW l \in 1..(n - 1), j < l PROVE mem[new[j]].key < mem[new[l]].key
    <3>1. PICK a \in 1..n, b \in 1..n : a < b /\ new[j] = cells[a] /\ new[l] = cells[b]
      BY <1>4, <1>5, <2>2
    <3> QED  BY <1>1, <3>1 DEF Ordered
  <2> QED  BY <1>3, <2>1, <2>2 DEF Ordered
<1>8. ASSUME NEW j \in 1..(n - 1) PROVE \E l \in 1..n : l # i /\ new[j] = cells[l]
  BY <1>4
<1>9. ASSUME NEW l \in 1..n, l # i PROVE \E j \in 1..(n - 1) : new[j] = cells[l]
  <2>1. PICK j \in 1..(n - 1) : at(j) = l
    BY <1>6, <1>9
  <2> QED  BY <1>4, <2>1
<1> QED  BY <1>1, <1>3, <1>7, <1>8, <1>9 DEF Without

-------------------------------------------------------------------------------
(***************************************************************************)
(* The invariant: live tuples are typed, every array is ordered, and an    *)
(* object that was not constructed has neither position nor been closed.   *)
(***************************************************************************)
HeapInv == heap \in [DOMAIN heap -> Tuple] /\ DOMAIN heap \subseteq Cells

ArraysInv ==
  /\ kv = Absent \/ Ordered(kv, heap)
  /\ \A i \in Iters : itKv[i] = Absent \/ Ordered(itKv[i], heap)

ItersInv ==
  /\ itKv = [i \in Iters |-> itKv[i]]
  /\ itPos \in [Iters -> Int \cup {Undefined}]
  /\ itClosed \in [Iters -> BOOLEAN]
  /\ \A i \in Iters : itKv[i] = Absent => itPos[i] = Undefined /\ ~itClosed[i]

FakeInv == HeapInv /\ ArraysInv /\ ItersInv

\* null is no array.
LEMMA OrderedIsArray ==
  ASSUME NEW cells, NEW mem, Ordered(cells, mem)
  PROVE  cells # Absent /\ cells \in Seq(Nat) /\ Len(cells) \in Nat /\ DOMAIN cells = 1..Len(cells)
  BY FakeAssumption DEF Ordered

\* The collector keeps what an array refers to, as it is.
LEMMA CollectKeeps ==
  ASSUME NEW mem, NEW cells, NEW its, NEW new, new = Collect(mem, cells, its),
         NEW a, a # Absent, a = cells \/ \E i \in Iters : a = its[i]
  PROVE  \A c \in Range(a) : c \in DOMAIN mem => c \in DOMAIN new /\ new[c] = mem[c]
<1> DEFINE arrays == {cells} \cup {its[i] : i \in Iters}
           kept == DOMAIN mem \cap UNION {Range(b) : b \in arrays \ {Absent}}
<1>1. a \in arrays \ {Absent}
  OBVIOUS
<1>2. new = [c \in kept |-> mem[c]]
  BY DEF Collect, Restrict
<1>3. ASSUME NEW c \in Range(a), c \in DOMAIN mem PROVE c \in kept
  <2> HIDE DEF arrays
  <2> QED  BY <1>1, <1>3
<1> HIDE DEF kept
<1> QED  BY <1>2, <1>3

LEMMA CollectTyped ==
  ASSUME NEW mem, NEW cells, NEW its, NEW new, new = Collect(mem, cells, its),
         mem \in [DOMAIN mem -> Tuple], DOMAIN mem \subseteq Cells
  PROVE  new \in [DOMAIN new -> Tuple] /\ DOMAIN new \subseteq Cells
<1> DEFINE kept == DOMAIN mem \cap UNION {Range(b) : b \in ({cells} \cup {its[i] : i \in Iters}) \ {Absent}}
<1>1. new = [c \in kept |-> mem[c]]
  BY DEF Collect, Restrict
<1>2. kept \subseteq DOMAIN mem
  OBVIOUS
<1> HIDE DEF kept
<1> QED  BY <1>1, <1>2

\* An array stays ordered when its tuples live on with their keys.
LEMMA KeptOrdered ==
  ASSUME NEW a, NEW mem, Ordered(a, mem), NEW new,
         \A c \in Range(a) : c \in DOMAIN mem => c \in DOMAIN new /\ new[c].key = mem[c].key
  PROVE  Ordered(a, new)
<1>1. \A j \in 1..Len(a) : a[j] \in Range(a) /\ a[j] \in DOMAIN mem
  BY OrderedIsArray DEF Ordered, Range
<1>2. \A j \in 1..Len(a) : a[j] \in DOMAIN new /\ new[a[j]].key = mem[a[j]].key
  BY <1>1
<1> QED  BY <1>2, OrderKept

LEMMA CollectOrdered ==
  ASSUME NEW mem, NEW cells, NEW its, NEW new, new = Collect(mem, cells, its),
         NEW a, Ordered(a, mem), a = cells \/ \E i \in Iters : a = its[i]
  PROVE  Ordered(a, new)
<1>1. a # Absent
  BY OrderedIsArray
<1>2. \A c \in Range(a) : c \in DOMAIN mem => c \in DOMAIN new /\ new[c] = mem[c]
  BY <1>1, CollectKeeps
<1> QED  BY <1>2, KeptOrdered

\* The keys of an array are distinct.
LEMMA KeysDiffer ==
  ASSUME NEW cells, NEW mem, Ordered(cells, mem), NEW i \in 1..Len(cells), NEW j \in 1..Len(cells),
         mem[cells[i]].key = mem[cells[j]].key
  PROVE  i = j
<1>1. ~(i < j) /\ ~(j < i)
  <2>1. mem[cells[i]].key \in Int
    BY DEF Ordered
  <2>2. ~(mem[cells[i]].key < mem[cells[i]].key)
    BY <2>1
  <2> QED  BY <2>2 DEF Ordered
<1> QED  BY <1>1, OrderedIsArray

\* getIdx finds k where it is, and nowhere else.
LEMMA HitFinds ==
  ASSUME NEW cells, Ordered(cells, heap), NEW k \in Int, NEW p, p = getIdx(cells, heap, k)
  PROVE  /\ p \in 0..Len(cells) /\ IsBound(cells, heap, k, p)
         /\ Hit(cells, k) => p + 1 \in 1..Len(cells) /\ heap[cells[p + 1]].key = k
         /\ ~Hit(cells, k) => \A j \in 1..Len(cells) : heap[cells[j]].key # k
<1>1. PICK n \in Nat : n = Len(cells)
  BY OrderedIsArray
<1>2. p \in 0..n /\ IsBound(cells, heap, k, p)
  BY <1>1, Search
<1>3. Hit(cells, k) <=> p < n /\ heap[cells[p + 1]].key = k
  BY <1>1 DEF Hit, KeyAt
<1>4. Hit(cells, k) => p + 1 \in 1..n /\ heap[cells[p + 1]].key = k
  <2>1. p < n => p + 1 \in 1..n
    BY <1>1, <1>2
  <2> QED  BY <1>3, <2>1
<1>5. ASSUME NEW j \in 1..n, heap[cells[j]].key = k PROVE Hit(cells, k)
  <2>1. j - 1 \in 0..(n - 1) /\ (j - 1) + 1 = j
    BY <1>1
  <2>2. ~(heap[cells[j]].key < k)
    BY <1>5
  <2>3. ~(j - 1 < p)
    BY <1>1, <1>2, <2>1, <2>2 DEF IsBound
  <2>4. p < n /\ p + 1 \in 1..n /\ (p + 1 = j \/ p + 1 < j) /\ p \in 0..(n - 1) /\ ~(p < p)
    BY <1>1, <1>2, <2>1, <2>3
  <2>5. ~(heap[cells[p + 1]].key < k)
    BY <1>1, <1>2, <2>4 DEF IsBound
  <2>6. p + 1 = j \/ heap[cells[p + 1]].key < heap[cells[j]].key
    BY <1>1, <2>4 DEF Ordered
  <2>7. heap[cells[p + 1]].key = k
    BY <1>5, <2>5, <2>6
  <2> QED  BY <1>3, <2>4, <2>7
<1> QED  BY <1>1, <1>2, <1>4, <1>5

-------------------------------------------------------------------------------
LEMMA InitFake == Init => FakeInv
<1> SUFFICES ASSUME Init PROVE FakeInv
  OBVIOUS
<1>1. HeapInv
  <2>1. heap = <<>> /\ DOMAIN heap = {}
    BY DEF Init
  <2>2. heap = [c \in DOMAIN heap |-> heap[c]]
    BY <2>1
  <2> QED  BY <2>1, <2>2 DEF HeapInv
<1>2. Ordered(<<>>, heap)
  BY DEF Ordered
<1>3. ArraysInv
  BY <1>2 DEF Init, ArraysInv
<1>4. ItersInv
  BY DEF Init, ItersInv
<1> QED  BY <1>1, <1>3, <1>4 DEF FakeInv

LEMMA OverwriteFake ==
  ASSUME FakeInv, NEW k \in Keys, NEW v \in Values, Overwrite(k, v)
  PROVE  /\ FakeInv'
         /\ DOMAIN heap' = DOMAIN heap
         /\ \A c \in DOMAIN heap : heap'[c].key = heap[c].key
         /\ \E j \in 1..Len(kv) : /\ heap[kv[j]].key = k /\ heap'[kv[j]].value = v
                                  /\ kv[j] = kv[getIdx(kv, heap, k) + 1]
                                  /\ \A c \in DOMAIN heap : c # kv[j] => heap'[c] = heap[c]
<1>1. k \in Int /\ Ordered(kv, heap) /\ heap \in [DOMAIN heap -> Tuple]
  BY FakeAssumption DEF FakeInv, ArraysInv, HeapInv, Overwrite
<1>2. PICK p : p = getIdx(kv, heap, k)
  OBVIOUS
<1>3. p + 1 \in 1..Len(kv) /\ heap[kv[p + 1]].key = k
  BY <1>1, <1>2, HitFinds DEF Overwrite
<1>4. PICK d \in DOMAIN heap : d = kv[p + 1]
  BY <1>1, <1>3 DEF Ordered
<1>5. heap' = [heap EXCEPT ![d].value = v]
  BY <1>2, <1>4 DEF Overwrite
<1>6. heap[d] \in Tuple
  BY <1>1
<1>7. /\ DOMAIN heap' = DOMAIN heap
      /\ heap' \in [DOMAIN heap' -> Tuple]
      /\ \A c \in DOMAIN heap : heap'[c].key = heap[c].key
      /\ \A c \in DOMAIN heap : c # d => heap'[c] = heap[c]
      /\ heap'[d].value = v
  BY <1>1, <1>5, <1>6 DEF Tuple
<1>8. UNCHANGED <<kv, itKv, itPos, itClosed>>
  BY DEF Overwrite
<1>9. ASSUME NEW a, Ordered(a, heap) PROVE Ordered(a, heap')
  BY <1>7, <1>9, KeptOrdered
<1>10. ArraysInv'
  BY <1>8, <1>9 DEF FakeInv, ArraysInv
<1>11. HeapInv' /\ ItersInv'
  BY <1>7, <1>8 DEF FakeInv, HeapInv, ItersInv
<1>12. FakeInv'
  BY <1>10, <1>11 DEF FakeInv
<1> QED  BY <1>2, <1>3, <1>4, <1>7, <1>12

LEMMA InsertFake ==
  ASSUME FakeInv, NEW k \in Keys, NEW v \in Values, Insert(k, v)
  PROVE  /\ FakeInv'
         /\ \A c \in DOMAIN heap : c \in DOMAIN heap' /\ heap'[c] = heap[c]
         /\ \E c \in DOMAIN heap' : Range(kv') = Range(kv) \cup {c} /\ heap'[c] = [key |-> k, value |-> v]
         /\ \A c \in Range(kv) : heap[c].key # k
         /\ Ordered(kv', heap')
<1>1. /\ k \in Int /\ Ordered(kv, heap) /\ heap \in [DOMAIN heap -> Tuple] /\ DOMAIN heap \subseteq Cells
      /\ MaxCells \in Nat
  BY FakeAssumption DEF FakeInv, ArraysInv, HeapInv, Insert
<1>2. PICK p : p = getIdx(kv, heap, k)
  OBVIOUS
<1>3. /\ p \in 0..Len(kv) /\ IsBound(kv, heap, k, p)
      /\ \A j \in 1..Len(kv) : heap[kv[j]].key # k
  BY <1>1, <1>2, HitFinds DEF Insert
<1>4. PICK c : c = CHOOSE x \in FreeCells : \A d \in FreeCells : x <= d
  OBVIOUS
<1>5. c \in FreeCells
  <2>1. FreeCells \in SUBSET Nat /\ FreeCells # {}
    BY <1>1 DEF FreeCells, Cells, Insert
  <2>2. \E x \in FreeCells : \A d \in FreeCells : x <= d
    BY <2>1, Least
  <2> QED  BY <1>4, <2>2
<1>6. c \in Nat /\ c \in Cells /\ c \notin DOMAIN heap
  BY <1>1, <1>5 DEF FreeCells, Cells
<1>7. /\ kv' = InsertAt(kv, p + 1, c)
      /\ heap' = [d \in DOMAIN heap \cup {c} |-> IF d = c THEN [key |-> k, value |-> v] ELSE heap[d]]
      /\ UNCHANGED <<itKv, itPos, itClosed>>
  BY <1>2, <1>4 DEF Insert
<1>8. /\ DOMAIN heap' = DOMAIN heap \cup {c}
      /\ \A d \in DOMAIN heap : d \in DOMAIN heap' /\ heap'[d] = heap[d]
      /\ c \in DOMAIN heap' /\ heap'[c] = [key |-> k, value |-> v]
  BY <1>6, <1>7
<1>9. HeapInv'
  <2>1. heap' \in [DOMAIN heap' -> Tuple]
    BY <1>1, <1>7, <1>8 DEF Tuple
  <2> QED  BY <1>1, <1>6, <1>8, <2>1 DEF HeapInv, Cells
<1>10. ASSUME NEW a, Ordered(a, heap) PROVE Ordered(a, heap')
  BY <1>8, <1>10, KeptOrdered
<1>11. IsBound(kv, heap', k, p)
  <2>1. ASSUME NEW q \in 0..(Len(kv) - 1) PROVE heap'[kv[q + 1]] = heap[kv[q + 1]]
    <3>1. q + 1 \in 1..Len(kv)
      BY <1>1, OrderedIsArray
    <3> QED  BY <1>1, <1>8, <3>1 DEF Ordered
  <2> QED  BY <1>3, <2>1 DEF IsBound
<1>12. p < Len(kv) => heap'[kv[p + 1]].key # k
  <2> HAVE p < Len(kv)
  <2>1. p + 1 \in 1..Len(kv)
    BY <1>1, <1>3, OrderedIsArray
  <2>2. kv[p + 1] \in DOMAIN heap
    BY <1>1, <2>1 DEF Ordered
  <2> QED  BY <1>3, <1>8, <2>1, <2>2
<1>13. Ordered(kv', heap')
  <2>1. Ordered(kv, heap') /\ heap'[c].key = k
    BY <1>1, <1>8, <1>10
  <2>2. PICK cells, mem, new : cells = kv /\ mem = heap' /\ new = kv'
    OBVIOUS
  <2>3. /\ Ordered(cells, mem) /\ IsBound(cells, mem, k, p) /\ (p < Len(cells) => mem[cells[p + 1]].key # k)
        /\ c \in DOMAIN mem /\ mem[c].key = k /\ new = InsertAt(cells, p + 1, c) /\ p \in 0..Len(cells)
    BY <1>3, <1>7, <1>8, <1>11, <1>12, <2>1, <2>2
  <2>4. Ordered(new, mem)
    BY <1>1, <1>6, <2>3, InsertKeepsOrder
  <2> QED  BY <2>2, <2>4
<1>14. ArraysInv' /\ ItersInv'
  BY <1>7, <1>10, <1>13 DEF FakeInv, ArraysInv, ItersInv
<1>15. Range(kv') = Range(kv) \cup {c}
  <2>1. PICK n \in Nat : n = Len(kv)
    BY <1>1, OrderedIsArray
  <2>2. Spliced(kv, p + 1, c, kv')
    <3>1. kv \in Seq(Nat) /\ p + 1 \in 1..(Len(kv) + 1)
      BY <1>1, <1>3, OrderedIsArray
    <3> QED  BY <1>6, <1>7, <3>1, Inserted
  <2>3. DOMAIN kv = 1..n /\ DOMAIN kv' = 1..(n + 1) /\ p \in 0..n
    BY <1>1, <1>3, <2>1, <2>2 DEF Spliced, Ordered
  <2>4. ASSUME NEW j \in 1..(n + 1) PROVE kv'[j] \in Range(kv) \cup {c}
    <3>1. CASE j < p + 1
      <4>1. j \in 1..n /\ kv'[j] = kv[j]
        BY <2>1, <2>2, <2>3, <3>1 DEF Spliced
      <4> QED  BY <2>3, <4>1 DEF Range
    <3>2. CASE j = p + 1
      BY <2>2, <3>2 DEF Spliced
    <3>3. CASE j > p + 1
      <4>1. j - 1 \in 1..n
        BY <2>3, <3>3
      <4>2. kv'[j] = kv[j - 1]
        BY <2>1, <2>2, <3>3 DEF Spliced
      <4> QED  BY <2>3, <4>1, <4>2 DEF Range
    <3>4. j < p + 1 \/ j = p + 1 \/ j > p + 1
      BY <2>3
    <3> QED  BY <3>1, <3>2, <3>3, <3>4
  <2>5. c \in Range(kv')
    <3>1. p + 1 \in 1..(n + 1)
      BY <2>3
    <3> QED  BY <2>2, <2>3, <3>1 DEF Spliced, Range
  <2>6. ASSUME NEW j \in 1..n PROVE kv[j] \in Range(kv')
    <3>1. CASE j < p + 1
      <4>1. j \in 1..(n + 1) /\ kv'[j] = kv[j]
        BY <2>1, <2>2, <2>3, <3>1 DEF Spliced
      <4> QED  BY <2>3, <4>1 DEF Range
    <3>2. CASE ~(j < p + 1)
      <4>1. j + 1 \in 1..(n + 1) /\ j + 1 > p + 1 /\ (j + 1) - 1 = j
        BY <2>3, <3>2
      <4>2. kv'[j + 1] = kv[(j + 1) - 1]
        BY <2>1, <2>2, <4>1 DEF Spliced
      <4> QED  BY <2>3, <4>1, <4>2 DEF Range
    <3> QED  BY <3>1, <3>2
  <2>7. Range(kv) = {kv[j] : j \in 1..n} /\ Range(kv') = {kv'[j] : j \in 1..(n + 1)}
    BY <2>3 DEF Range
  <2> QED  BY <2>4, <2>5, <2>6, <2>7
<1>16. \A d \in Range(kv) : heap[d].key # k
  BY <1>1, <1>3, OrderedIsArray DEF Range
<1> QED  BY <1>8, <1>9, <1>13, <1>14, <1>15, <1>16 DEF FakeInv

\* What the collector leaves after an array was dropped or shortened.
LEMMA CollectFake ==
  ASSUME FakeInv, heap' = Collect(heap, kv', itKv'),
         kv' = Absent \/ Ordered(kv', heap),
         \A i \in Iters : itKv'[i] = Absent \/ itKv'[i] = itKv[i]
  PROVE  /\ HeapInv' /\ ArraysInv'
         /\ kv' # Absent => \A c \in Range(kv') : c \in DOMAIN heap => heap'[c] = heap[c]
         /\ \A i \in Iters : itKv'[i] # Absent =>
              \A c \in Range(itKv'[i]) : c \in DOMAIN heap => heap'[c] = heap[c]
<1>1. PICK mem, cells, its, new : mem = heap /\ cells = kv' /\ its = itKv' /\ new = heap'
  OBVIOUS
<1>2. new = Collect(mem, cells, its)
  BY <1>1
<1>3. HeapInv'
  <2>1. new \in [DOMAIN new -> Tuple] /\ DOMAIN new \subseteq Cells
    BY <1>1, <1>2, CollectTyped DEF FakeInv, HeapInv
  <2> QED  BY <1>1, <2>1 DEF HeapInv
<1>4. \A i \in Iters : its[i] = Absent \/ Ordered(its[i], mem)
  BY <1>1 DEF FakeInv, ArraysInv
<1>5. cells = Absent \/ Ordered(cells, new)
  BY <1>1, <1>2, CollectOrdered
<1>6. \A i \in Iters : its[i] = Absent \/ Ordered(its[i], new)
  BY <1>2, <1>4, CollectOrdered
<1>7. ArraysInv'
  BY <1>1, <1>5, <1>6 DEF ArraysInv
<1>8. cells # Absent => \A c \in Range(cells) : c \in DOMAIN mem => new[c] = mem[c]
  BY <1>2, CollectKeeps
<1>9. \A i \in Iters : its[i] # Absent => \A c \in Range(its[i]) : c \in DOMAIN mem => new[c] = mem[c]
  BY <1>2, CollectKeeps
<1> QED  BY <1>1, <1>3, <1>7, <1>8, <1>9

LEMMA DeleteFake ==
  ASSUME FakeInv, NEW k \in Keys, Delete(k)
  PROVE  /\ FakeInv'
         /\ \A c \in Range(kv') : c \in DOMAIN heap => heap'[c] = heap[c]
         /\ \A i \in Iters : itKv[i] # Absent =>
              \A c \in Range(itKv[i]) : c \in DOMAIN heap => heap'[c] = heap[c]
         /\ Ordered(kv', heap) /\ Range(kv') = {c \in Range(kv) : heap[c].key # k}
<1>1. k \in Int /\ Ordered(kv, heap)
  BY FakeAssumption DEF FakeInv, ArraysInv, Delete
<1>2. PICK p : p = getIdx(kv, heap, k)
  OBVIOUS
<1>3. p + 1 \in 1..Len(kv) /\ heap[kv[p + 1]].key = k
  BY <1>1, <1>2, HitFinds DEF Delete
<1>4. kv' = RemoveAt(kv, p + 1) /\ UNCHANGED <<itKv, itPos, itClosed>>
  BY <1>2 DEF Delete
<1>5. /\ Ordered(kv', heap)
      /\ \A j \in 1..Len(kv') : \E l \in 1..Len(kv) : l # p + 1 /\ kv'[j] = kv[l]
      /\ \A l \in 1..Len(kv) : l # p + 1 => \E j \in 1..Len(kv') : kv'[j] = kv[l]
  <2>1. PICK cells, mem, new, i : cells = kv /\ mem = heap /\ new = kv' /\ i = p + 1
    OBVIOUS
  <2>2. Ordered(cells, mem) /\ new = RemoveAt(cells, i) /\ i \in 1..Len(cells)
    BY <1>1, <1>3, <1>4, <2>1
  <2>3. Ordered(new, mem) /\ Without(cells, i, new)
    BY <2>2, RemoveKeepsOrder
  <2> QED  BY <2>1, <2>3 DEF Without
<1>6. Range(kv') = {c \in Range(kv) : heap[c].key # k}
  <2>1. DOMAIN kv = 1..Len(kv) /\ DOMAIN kv' = 1..Len(kv')
    BY <1>1, <1>5, OrderedIsArray
  <2>2. \A l \in 1..Len(kv) : heap[kv[l]].key = k <=> l = p + 1
    BY <1>1, <1>3, KeysDiffer
  <2>3. ASSUME NEW c \in Range(kv') PROVE c \in Range(kv) /\ heap[c].key # k
    <3>1. PICK j \in 1..Len(kv') : c = kv'[j]
      BY <2>1 DEF Range
    <3>2. PICK l \in 1..Len(kv) : l # p + 1 /\ kv'[j] = kv[l]
      BY <1>5
    <3> QED  BY <2>1, <2>2, <3>1, <3>2 DEF Range
  <2>4. ASSUME NEW c \in Range(kv), heap[c].key # k PROVE c \in Range(kv')
    <3>1. PICK l \in 1..Len(kv) : c = kv[l]
      BY <2>1 DEF Range
    <3>2. PICK j \in 1..Len(kv') : kv'[j] = kv[l]
      BY <1>5, <2>2, <2>4, <3>1
    <3> QED  BY <2>1, <3>1, <3>2 DEF Range
  <2> QED  BY <2>3, <2>4
<1>7. kv' # Absent
  <2>1. PICK new, mem : new = kv' /\ mem = heap
    OBVIOUS
  <2>2. new # Absent
    BY <1>5, <2>1, OrderedIsArray
  <2> QED  BY <2>1, <2>2
<1>8. heap' = Collect(heap, kv', itKv')
  BY <1>4 DEF Delete
<1>9. /\ HeapInv' /\ ArraysInv'
      /\ \A c \in Range(kv') : c \in DOMAIN heap => heap'[c] = heap[c]
      /\ \A i \in Iters : itKv'[i] # Absent =>
           \A c \in Range(itKv'[i]) : c \in DOMAIN heap => heap'[c] = heap[c]
  BY <1>4, <1>5, <1>7, <1>8, CollectFake
<1>10. ItersInv'
  BY <1>4 DEF FakeInv, ItersInv
<1> QED  BY <1>4, <1>5, <1>6, <1>9, <1>10 DEF FakeInv

LEMMA CloseFake ==
  ASSUME FakeInv, Close
  PROVE  /\ FakeInv'
         /\ \A i \in Iters : itKv[i] # Absent =>
              \A c \in Range(itKv[i]) : c \in DOMAIN heap => heap'[c] = heap[c]
<1>1. kv' = Absent /\ UNCHANGED <<itKv, itPos, itClosed>> /\ heap' = Collect(heap, kv', itKv')
  BY DEF Close
<1>2. /\ HeapInv' /\ ArraysInv'
      /\ \A i \in Iters : itKv'[i] # Absent =>
           \A c \in Range(itKv'[i]) : c \in DOMAIN heap => heap'[c] = heap[c]
  BY <1>1, CollectFake
<1>3. ItersInv'
  BY <1>1 DEF FakeInv, ItersInv
<1> QED  BY <1>1, <1>2, <1>3 DEF FakeInv

LEMMA DropIteratorFake ==
  ASSUME FakeInv, NEW i \in Iters, DropIterator(i)
  PROVE  /\ FakeInv'
         /\ kv # Absent => \A c \in Range(kv) : c \in DOMAIN heap => heap'[c] = heap[c]
         /\ \A j \in Iters \ {i} : itKv[j] # Absent =>
              \A c \in Range(itKv[j]) : c \in DOMAIN heap => heap'[c] = heap[c]
<1>1. /\ kv' = kv /\ heap' = Collect(heap, kv', itKv')
      /\ itKv' = [itKv EXCEPT ![i] = Absent]
      /\ itPos' = [itPos EXCEPT ![i] = Undefined]
      /\ itClosed' = [itClosed EXCEPT ![i] = FALSE]
  BY DEF DropIterator
<1>2. itKv'[i] = Absent /\ \A j \in Iters \ {i} : itKv'[j] = itKv[j]
  BY <1>1 DEF FakeInv, ItersInv
<1>3. kv' = Absent \/ Ordered(kv', heap)
  BY <1>1 DEF FakeInv, ArraysInv
<1>4. /\ HeapInv' /\ ArraysInv'
      /\ kv' # Absent => \A c \in Range(kv') : c \in DOMAIN heap => heap'[c] = heap[c]
      /\ \A j \in Iters : itKv'[j] # Absent =>
           \A c \in Range(itKv'[j]) : c \in DOMAIN heap => heap'[c] = heap[c]
  <2>1. \A j \in Iters : itKv'[j] = Absent \/ itKv'[j] = itKv[j]
    BY <1>2
  <2> QED  BY <1>1, <1>3, <2>1, CollectFake
<1>5. ItersInv'
  BY <1>1, <1>2 DEF FakeInv, ItersInv
<1> QED  BY <1>1, <1>2, <1>4, <1>5 DEF FakeInv

LEMMA NewIteratorFake ==
  ASSUME FakeInv, NEW i \in Iters, NewIterator(i)
  PROVE  FakeInv'
<1>1. /\ Ordered(kv, heap) /\ UNCHANGED <<kv, heap, itPos, itClosed>>
      /\ itKv' = [itKv EXCEPT ![i] = kv]
  BY DEF FakeInv, ArraysInv, NewIterator
<1>2. itKv'[i] = kv /\ \A j \in Iters \ {i} : itKv'[j] = itKv[j]
  BY <1>1 DEF FakeInv, ItersInv
<1>3. kv # Absent
  BY DEF NewIterator
<1>4. ArraysInv' /\ HeapInv'
  BY <1>1, <1>2 DEF FakeInv, ArraysInv, HeapInv
<1>5. ItersInv'
  BY <1>1, <1>2, <1>3 DEF FakeInv, ItersInv
<1> QED  BY <1>4, <1>5 DEF FakeInv

LEMMA MoveFake ==
  ASSUME FakeInv, NEW i \in Iters, NEW p \in Int, MoveTo(i, p)
  PROVE  FakeInv'
<1>1. itKv[i] # Absent /\ itPos' = [itPos EXCEPT ![i] = p] /\ UNCHANGED <<kv, heap, itKv, itClosed>>
  BY DEF MoveTo
<1>2. ArraysInv' /\ HeapInv'
  BY <1>1 DEF FakeInv, ArraysInv, HeapInv
<1>3. ItersInv'
  BY <1>1 DEF FakeInv, ItersInv
<1> QED  BY <1>2, <1>3 DEF FakeInv

\* The positions the moves of an iterator go to.
LEMMA MovesTo ==
  ASSUME FakeInv, NEW i \in Iters, Moves(i)
  PROVE  \E p \in Int : MoveTo(i, p)
<1>1. Ordered(itKv[i], heap) /\ Len(itKv[i]) \in Nat
  <2>1. Ordered(itKv[i], heap)
    BY DEF FakeInv, ArraysInv, Moves, SeekToFirst, SeekLast, MoveNext, MovePrev, Seek, MoveTo
  <2> QED  BY <2>1, OrderedIsArray
<1>2. CASE SeekToFirst(i)
  BY <1>2 DEF SeekToFirst
<1>3. CASE SeekLast(i)
  <2>1. Len(itKv[i]) - 1 \in Int
    BY <1>1
  <2> QED  BY <1>3, <2>1 DEF SeekLast
<1>4. CASE MoveNext(i) \/ MovePrev(i)
  <2>1. itPos[i] \in Int
    BY <1>4 DEF MoveNext, MovePrev, Valid, FakeInv, ItersInv
  <2>2. itPos[i] + 1 \in Int /\ itPos[i] - 1 \in Int
    BY <2>1
  <2> QED  BY <1>4, <2>2 DEF MoveNext, MovePrev
<1>5. CASE \E k \in Keys : Seek(i, k)
  <2>1. PICK k \in Keys : MoveTo(i, getIdx(itKv[i], heap, k))
    BY <1>5 DEF Seek
  <2>2. getIdx(itKv[i], heap, k) \in 0..Len(itKv[i])
    BY <1>1, FakeAssumption, Search
  <2>3. getIdx(itKv[i], heap, k) \in Int
    BY <1>1, <2>2
  <2> QED  BY <2>1, <2>3
<1> QED  BY <1>2, <1>3, <1>4, <1>5 DEF Moves

LEMMA CloseIteratorFake ==
  ASSUME FakeInv, NEW i \in Iters, CloseIterator(i)
  PROVE  FakeInv'
<1>1. /\ itKv[i] # Absent /\ UNCHANGED <<kv, heap, itKv>>
      /\ itPos' = [itPos EXCEPT ![i] = Undefined] /\ itClosed' = [itClosed EXCEPT ![i] = TRUE]
  BY DEF CloseIterator
<1>2. ArraysInv' /\ HeapInv'
  BY <1>1 DEF FakeInv, ArraysInv, HeapInv
<1>3. ItersInv'
  BY <1>1 DEF FakeInv, ItersInv
<1> QED  BY <1>2, <1>3 DEF FakeInv

LEMMA NextFake == FakeInv /\ [Next]_vars => FakeInv'
<1> SUFFICES ASSUME FakeInv, [Next]_vars PROVE FakeInv'
  OBVIOUS
<1>1. ASSUME NEW k \in Keys, NEW v \in Values, Overwrite(k, v) \/ Insert(k, v) PROVE FakeInv'
  BY <1>1, OverwriteFake, InsertFake
<1>2. ASSUME NEW k \in Keys, Delete(k) PROVE FakeInv'
  BY <1>2, DeleteFake
<1>3. CASE Close
  BY <1>3, CloseFake
<1>4. ASSUME NEW i \in Iters, NewIterator(i) \/ CloseIterator(i) \/ DropIterator(i) PROVE FakeInv'
  BY <1>4, NewIteratorFake, CloseIteratorFake, DropIteratorFake
<1>5. ASSUME NEW i \in Iters, Moves(i) PROVE FakeInv'
  BY <1>5, MovesTo, MoveFake
<1>6. CASE UNCHANGED vars
  BY <1>6 DEF vars, FakeInv, HeapInv, ArraysInv, ItersInv
<1> QED  BY <1>1, <1>2, <1>3, <1>4, <1>5, <1>6 DEF Next

LEMMA FakeInvHolds == Spec => []FakeInv
  BY InitFake, NextFake, PTL DEF Spec

-------------------------------------------------------------------------------
(* Lookups. *)

\* MapOf, for any heap.
Lookup(cells, mem) ==
  [k \in Keys |->
     IF \E c \in Range(cells) : mem[c].key = k
     THEN mem[CHOOSE c \in Range(cells) : mem[c].key = k].value
     ELSE Absent]

LEMMA MapIsLookup ==
  ASSUME NEW cells
  PROVE  MapOf(cells) = Lookup(cells, heap)
  BY DEF MapOf, Lookup

LEMMA LookupIs ==
  ASSUME NEW cells, NEW mem, Ordered(cells, mem), NEW k \in Keys
  PROVE  /\ \A j \in 1..Len(cells) : mem[cells[j]].key = k => Lookup(cells, mem)[k] = mem[cells[j]].value
         /\ (\A j \in 1..Len(cells) : mem[cells[j]].key # k) => Lookup(cells, mem)[k] = Absent
<1>1. Range(cells) = {cells[j] : j \in 1..Len(cells)}
  BY OrderedIsArray DEF Range
<1>2. ASSUME NEW j \in 1..Len(cells), mem[cells[j]].key = k
      PROVE  Lookup(cells, mem)[k] = mem[cells[j]].value
  <2>1. cells[j] \in Range(cells)
    BY <1>1
  <2>2. PICK c : c = CHOOSE d \in Range(cells) : mem[d].key = k
    OBVIOUS
  <2>3. c \in Range(cells) /\ mem[c].key = k
    BY <1>2, <2>1, <2>2
  <2>4. PICK i \in 1..Len(cells) : c = cells[i]
    BY <1>1, <2>3
  <2>5. i = j
    BY <1>2, <2>3, <2>4, KeysDiffer
  <2> QED  BY <1>2, <2>1, <2>2, <2>4, <2>5 DEF Lookup
<1>3. ASSUME \A j \in 1..Len(cells) : mem[cells[j]].key # k
      PROVE  Lookup(cells, mem)[k] = Absent
  <2>1. ~ \E c \in Range(cells) : mem[c].key = k
    BY <1>1, <1>3
  <2> QED  BY <2>1 DEF Lookup
<1> QED  BY <1>2, <1>3

LEMMA SearchExactHolds == FakeInv => SearchExact
<1> SUFFICES ASSUME FakeInv, kv # Absent PROVE SearchExact
  BY DEF SearchExact
<1>1. Ordered(kv, heap)
  BY DEF FakeInv, ArraysInv
<1>2. ASSUME NEW k \in Int PROVE getIdx(kv, heap, k) = Cardinality({c \in Range(kv) : heap[c].key < k})
  <2>1. PICK b \in 0..Len(kv) : b = getIdx(kv, heap, k) /\ IsBound(kv, heap, k, b)
    BY <1>1, Search
  <2>2. Cardinality({c \in Range(kv) : heap[c].key < k}) = b
    BY <1>1, <2>1, Counted
  <2> QED  BY <2>1, <2>2
<1>3. ASSUME NEW k \in Keys \cup {l - 1 : l \in Keys} \cup {l + 1 : l \in Keys} PROVE k \in Int
  <2>1. \A l \in Keys : l \in Int /\ l - 1 \in Int /\ l + 1 \in Int
    BY FakeAssumption
  <2> QED  BY <2>1
<1>4. ASSUME NEW k \in Keys PROVE getBuf(k) = Contents[k]
  <2>1. Contents[k] = Lookup(kv, heap)[k]
    BY MapIsLookup DEF Contents
  <2>3. k \in Int
    BY FakeAssumption
  <2>2. PICK p : p = getIdx(kv, heap, k)
    OBVIOUS
  <2>4. CASE Hit(kv, k)
    <3>0. p + 1 \in 1..Len(kv) /\ heap[kv[p + 1]].key = k
      BY <1>1, <2>2, <2>3, <2>4, HitFinds, ZenonT(60)
    <3>1. Lookup(kv, heap)[k] = heap[kv[p + 1]].value
      BY <1>1, <3>0, LookupIs
    <3> QED  BY <2>1, <2>2, <2>4, <3>1 DEF getBuf
  <2>5. CASE ~Hit(kv, k)
    <3>0. \A j \in 1..Len(kv) : heap[kv[j]].key # k
      BY <1>1, <2>2, <2>3, <2>5, HitFinds
    <3>1. Lookup(kv, heap)[k] = Absent
      BY <1>1, <3>0, LookupIs
    <3> QED  BY <2>1, <2>5, <3>1 DEF getBuf
  <2> QED  BY <2>4, <2>5
<1> QED  BY <1>2, <1>3, <1>4 DEF SearchExact

\* Whatever calls the client makes, careful or not: getIdx (fake.ts) returns
\* the number of keys below its target, and getBuf and getStr the value last
\* put, or null.
THEOREM LookupsAreExact == Spec => []SearchExact
  BY FakeInvHolds, SearchExactHolds, PTL

-------------------------------------------------------------------------------
(***************************************************************************)
(* The double implements KVStore for a careful client.                     *)
(*                                                                         *)
(* What a client sees of an iterator, for any heap: the map it shows and   *)
(* the key it is at.                                                       *)
(***************************************************************************)
Shown(cells, closed, mem) == IF cells = Absent \/ closed THEN Absent ELSE Lookup(cells, mem)

Stands(cells, closed, pos, mem) ==
  IF Shown(cells, closed, mem) # Absent /\ pos # Undefined /\ pos >= 0 /\ pos < Len(cells)
  THEN mem[cells[pos + 1]].key ELSE Absent

LEMMA LookupTyped ==
  ASSUME NEW cells, NEW mem, Ordered(cells, mem), mem \in [DOMAIN mem -> Tuple]
  PROVE  Lookup(cells, mem) \in [Keys -> Values \cup {Absent}] /\ Lookup(cells, mem) # Absent
<1>1. ASSUME NEW k \in Keys PROVE Lookup(cells, mem)[k] \in Values \cup {Absent}
  <2>1. CASE \E j \in 1..Len(cells) : mem[cells[j]].key = k
    <3>1. PICK j \in 1..Len(cells) : mem[cells[j]].key = k
      BY <2>1
    <3>2. mem[cells[j]] \in Tuple
      BY DEF Ordered
    <3>3. mem[cells[j]].value \in Values
      BY <3>2 DEF Tuple
    <3> QED  BY <3>1, <3>3, LookupIs
  <2>2. CASE \A j \in 1..Len(cells) : mem[cells[j]].key # k
    BY <2>2, LookupIs
  <2> QED  BY <2>1, <2>2
<1>2. Lookup(cells, mem) = [k \in Keys |-> Lookup(cells, mem)[k]]
  BY DEF Lookup
<1>3. Lookup(cells, mem) \in [Keys -> Values \cup {Absent}]
  <2>1. PICK m : m = Lookup(cells, mem)
    OBVIOUS
  <2>2. m = [k \in Keys |-> m[k]] /\ \A k \in Keys : m[k] \in Values \cup {Absent}
    BY <1>1, <1>2, <2>1
  <2>3. m \in [Keys -> Values \cup {Absent}]
    BY <2>2
  <2> QED  BY <2>1, <2>3
<1> QED  BY <1>3, FakeAssumption

\* The keys of an array are those its map has.
LEMMA PresentIs ==
  ASSUME NEW cells, NEW mem, Ordered(cells, mem), mem \in [DOMAIN mem -> Tuple]
  PROVE  /\ \A j \in 1..Len(cells) : mem[cells[j]].key \in KV!Present(Lookup(cells, mem))
         /\ \A k \in KV!Present(Lookup(cells, mem)) : \E j \in 1..Len(cells) : k = mem[cells[j]].key
<1>1. ASSUME NEW j \in 1..Len(cells) PROVE mem[cells[j]].key \in KV!Present(Lookup(cells, mem))
  <2>1. mem[cells[j]] \in Tuple
    BY DEF Ordered
  <2>2. mem[cells[j]].key \in Keys /\ mem[cells[j]].value # Absent
    BY <2>1, FakeAssumption DEF Tuple
  <2>3. Lookup(cells, mem)[mem[cells[j]].key] = mem[cells[j]].value
    BY <2>2, LookupIs
  <2> QED  BY <2>2, <2>3 DEF KV!Present
<1>2. ASSUME NEW k \in KV!Present(Lookup(cells, mem)) PROVE \E j \in 1..Len(cells) : k = mem[cells[j]].key
  BY LookupIs DEF KV!Present
<1> QED  BY <1>1, <1>2

\* The first and the last key of a part of an array.
LEMMA FirstIs ==
  ASSUME NEW cells, NEW mem, Ordered(cells, mem), NEW b \in 0..Len(cells), NEW S,
         \A k \in S : \E j \in 1..Len(cells) : b < j /\ k = mem[cells[j]].key,
         \A j \in 1..Len(cells) : b < j => mem[cells[j]].key \in S
  PROVE  KV!First(S) = IF b < Len(cells) THEN mem[cells[b + 1]].key ELSE Absent
<1>1. PICK n \in Nat : n = Len(cells)
  BY OrderedIsArray
<1>2. CASE b < n
  <2>1. b + 1 \in 1..n /\ b < b + 1
    BY <1>1, <1>2
  <2>2. PICK x \in Int : x = mem[cells[b + 1]].key
    BY <1>1, <2>1 DEF Ordered
  <2>3. x \in S
    BY <1>1, <2>1, <2>2
  <2>4. ASSUME NEW y \in S PROVE x <= y /\ y \in Int
    <3>1. PICK j \in 1..n : b < j /\ y = mem[cells[j]].key
      BY <1>1
    <3>2. y \in Int
      BY <1>1, <3>1 DEF Ordered
    <3>3. b + 1 = j \/ b + 1 < j
      BY <1>1, <3>1
    <3>4. x = y \/ x < y
      BY <1>1, <2>1, <2>2, <3>1, <3>3 DEF Ordered
    <3> QED  BY <3>2, <3>4
  <2>5. \A y \in S : (\A l \in S : y <= l) => y = x
    <3> SUFFICES ASSUME NEW y \in S, \A l \in S : y <= l PROVE y = x
      OBVIOUS
    <3>1. y <= x /\ x <= y /\ y \in Int
      BY <2>3, <2>4
    <3> QED  BY <3>1
  <2>6. (CHOOSE k \in S : \A l \in S : k <= l) = x
    BY <2>3, <2>4, <2>5
  <2> QED  BY <1>1, <1>2, <2>2, <2>3, <2>6 DEF KV!First
<1>3. CASE ~(b < n)
  <2>1. S = {}
    BY <1>1, <1>3
  <2> QED  BY <1>1, <1>3, <2>1 DEF KV!First
<1> QED  BY <1>2, <1>3

LEMMA LastIs ==
  ASSUME NEW cells, NEW mem, Ordered(cells, mem), NEW b \in 0..Len(cells), NEW S,
         \A k \in S : \E j \in 1..Len(cells) : j <= b /\ k = mem[cells[j]].key,
         \A j \in 1..Len(cells) : j <= b => mem[cells[j]].key \in S
  PROVE  KV!Last(S) = IF 0 < b THEN mem[cells[b]].key ELSE Absent
<1>1. PICK n \in Nat : n = Len(cells)
  BY OrderedIsArray
<1>2. CASE 0 < b
  <2>1. b \in 1..n /\ b <= b
    BY <1>1, <1>2
  <2>2. PICK x \in Int : x = mem[cells[b]].key
    BY <1>1, <2>1 DEF Ordered
  <2>3. x \in S
    BY <1>1, <2>1, <2>2
  <2>4. ASSUME NEW y \in S PROVE y <= x /\ y \in Int
    <3>1. PICK j \in 1..n : j <= b /\ y = mem[cells[j]].key
      BY <1>1
    <3>2. y \in Int
      BY <1>1, <3>1 DEF Ordered
    <3>3. b = j \/ j < b
      BY <1>1, <2>1, <3>1
    <3>4. x = y \/ y < x
      BY <1>1, <2>1, <2>2, <3>1, <3>3 DEF Ordered
    <3> QED  BY <3>2, <3>4
  <2>5. \A y \in S : (\A l \in S : l <= y) => y = x
    <3> SUFFICES ASSUME NEW y \in S, \A l \in S : l <= y PROVE y = x
      OBVIOUS
    <3>1. y <= x /\ x <= y /\ y \in Int
      BY <2>3, <2>4
    <3> QED  BY <3>1
  <2>6. (CHOOSE k \in S : \A l \in S : l <= k) = x
    BY <2>3, <2>4, <2>5
  <2> QED  BY <1>1, <1>2, <2>2, <2>3, <2>6 DEF KV!Last
<1>3. CASE ~(0 < b)
  <2>1. S = {}
    BY <1>1, <1>3
  <2> QED  BY <1>1, <1>3, <2>1 DEF KV!Last
<1> QED  BY <1>2, <1>3

\* The key an iterator is at, as the refinement mapping gives it.
At(i) == IF Snapshot(i) # Absent /\ Valid(i) THEN KeyAt(itKv[i], itPos[i]) ELSE Absent

LEMMA SeenIs ==
  ASSUME NEW i \in Iters
  PROVE  /\ Snapshot(i) = Shown(itKv[i], itClosed[i], heap)
         /\ At(i) = Stands(itKv[i], itClosed[i], itPos[i], heap)
         /\ Snapshot(i)' = Shown(itKv'[i], itClosed'[i], heap')
         /\ At(i)' = Stands(itKv'[i], itClosed'[i], itPos'[i], heap')
<1>1. Snapshot(i) = Shown(itKv[i], itClosed[i], heap)
  BY MapIsLookup DEF Snapshot, Shown
<1>2. Snapshot(i)' = Shown(itKv'[i], itClosed'[i], heap')
  BY DEF Snapshot, Shown, MapOf, Lookup
<1>3. At(i) = Stands(itKv[i], itClosed[i], itPos[i], heap)
  BY <1>1 DEF At, Stands, Valid, KeyAt
<1>4. At(i)' = Stands(itKv'[i], itClosed'[i], itPos'[i], heap')
  BY <1>2 DEF At, Stands, Valid, KeyAt
<1> QED  BY <1>1, <1>2, <1>3, <1>4

LEMMA ContentsIs ==
  /\ Contents = IF kv = Absent THEN [k \in Keys |-> Absent] ELSE Lookup(kv, heap)
  /\ Contents' = IF kv' = Absent THEN [k \in Keys |-> Absent] ELSE Lookup(kv', heap')
<1>1. Contents = IF kv = Absent THEN [k \in Keys |-> Absent] ELSE Lookup(kv, heap)
  BY MapIsLookup DEF Contents
<1>2. Contents' = IF kv' = Absent THEN [k \in Keys |-> Absent] ELSE Lookup(kv', heap')
  BY DEF Contents, MapOf, Lookup
<1> QED  BY <1>1, <1>2

\* Tuples that stay as they are look as they did.
LEMMA LookupSame ==
  ASSUME NEW a, NEW mem, Ordered(a, mem), NEW new, \A c \in Range(a) : c \in DOMAIN mem => new[c] = mem[c]
  PROVE  Lookup(a, new) = Lookup(a, mem) /\ \A j \in 1..Len(a) : new[a[j]] = mem[a[j]]
<1>1. Range(a) \subseteq DOMAIN mem /\ \A j \in 1..Len(a) : a[j] \in Range(a)
  BY OrderedIsArray DEF Ordered, Range
<1>2. \A c \in Range(a) : new[c] = mem[c]
  BY <1>1
<1>3. ASSUME NEW k \in Keys PROVE Lookup(a, new)[k] = Lookup(a, mem)[k]
  <2>1. (\E c \in Range(a) : new[c].key = k) <=> \E c \in Range(a) : mem[c].key = k
    BY <1>2
  <2>2. (CHOOSE c \in Range(a) : new[c].key = k) = CHOOSE c \in Range(a) : mem[c].key = k
    <3>1. \A c : (c \in Range(a) /\ new[c].key = k) <=> (c \in Range(a) /\ mem[c].key = k)
      BY <1>2
    <3> QED  BY <3>1
  <2>3. CASE \E c \in Range(a) : mem[c].key = k
    <3>1. PICK c : c = CHOOSE d \in Range(a) : mem[d].key = k
      OBVIOUS
    <3>2. c \in Range(a)
      BY <2>3, <3>1
    <3> QED  BY <1>2, <2>1, <2>2, <2>3, <3>1, <3>2 DEF Lookup
  <2>4. CASE ~ \E c \in Range(a) : mem[c].key = k
    BY <2>1, <2>4 DEF Lookup
  <2> QED  BY <2>3, <2>4
<1>4. Lookup(a, new) = [k \in Keys |-> Lookup(a, new)[k]] /\ Lookup(a, mem) = [k \in Keys |-> Lookup(a, mem)[k]]
  BY DEF Lookup
<1>5. Lookup(a, new) = Lookup(a, mem)
  BY <1>3, <1>4
<1> QED  BY <1>1, <1>2, <1>5

LEMMA SeenSame ==
  ASSUME NEW a, NEW closed, NEW pos \in Int \cup {Undefined}, NEW mem, NEW new,
         a = Absent \/ Ordered(a, mem),
         a # Absent => \A c \in Range(a) : c \in DOMAIN mem => new[c] = mem[c]
  PROVE  Shown(a, closed, new) = Shown(a, closed, mem) /\ Stands(a, closed, pos, new) = Stands(a, closed, pos, mem)
<1>1. CASE a = Absent
  <2>1. Shown(a, closed, new) = Absent /\ Shown(a, closed, mem) = Absent
    BY <1>1 DEF Shown
  <2> QED  BY <2>1 DEF Stands
<1>2. CASE a # Absent
  <2>1. Ordered(a, mem) /\ Len(a) \in Nat
    BY <1>2, OrderedIsArray
  <2>2. Lookup(a, new) = Lookup(a, mem) /\ \A j \in 1..Len(a) : new[a[j]] = mem[a[j]]
    BY <1>2, <2>1, LookupSame
  <2>3. Shown(a, closed, new) = Shown(a, closed, mem)
    BY <2>2 DEF Shown
  <2>4. CASE pos # Undefined /\ pos >= 0 /\ pos < Len(a)
    <3>1. pos + 1 \in 1..Len(a)
      BY <2>1, <2>4
    <3>2. new[a[pos + 1]] = mem[a[pos + 1]]
      BY <2>2, <3>1
    <3> QED  BY <2>3, <3>2 DEF Stands
  <2>5. CASE ~(pos # Undefined /\ pos >= 0 /\ pos < Len(a))
    BY <2>3, <2>5 DEF Stands
  <2> QED  BY <2>3, <2>4, <2>5
<1> QED  BY <1>1, <1>2

\* An iterator that a step leaves alone shows what it did.
LEMMA IteratorSame ==
  ASSUME FakeInv, NEW i \in Iters,
         itKv'[i] = itKv[i], itClosed'[i] = itClosed[i], itPos'[i] = itPos[i],
         itKv[i] # Absent => \A c \in Range(itKv[i]) : c \in DOMAIN heap => heap'[c] = heap[c]
  PROVE  Snapshot(i)' = Snapshot(i) /\ At(i)' = At(i)
<1>1. PICK a, closed, pos, mem, new : a = itKv[i] /\ closed = itClosed[i] /\ pos = itPos[i] /\ mem = heap /\ new = heap'
  OBVIOUS
<1>2. /\ pos \in Int \cup {Undefined} /\ (a = Absent \/ Ordered(a, mem))
      /\ a # Absent => \A c \in Range(a) : c \in DOMAIN mem => new[c] = mem[c]
  BY <1>1 DEF FakeInv, ItersInv, ArraysInv
<1>3. Shown(a, closed, new) = Shown(a, closed, mem) /\ Stands(a, closed, pos, new) = Stands(a, closed, pos, mem)
  BY <1>2, SeenSame
<1> QED  BY <1>1, <1>3, SeenIs

\* No iterator changes: the abstract variables of the iterators keep.
IteratorsSame == \A i \in Iters : Snapshot(i)' = Snapshot(i) /\ At(i)' = At(i)

LEMMA WriteStep ==
  ASSUME NEW k \in Keys, NEW v, kv # Absent, kv' # Absent, IteratorsSame,
         \A l \in Keys : Contents'[l] = IF l = k THEN v ELSE Contents[l]
  PROVE  KV!Write({k}, [l \in {k} |-> v])
<1>1. Contents' = [l \in Keys |-> Contents'[l]]
  <2>1. Contents' = IF kv' = Absent THEN [l \in Keys |-> Absent] ELSE Lookup(kv', heap')
    BY ContentsIs
  <2> QED  BY <2>1 DEF Lookup
<1>2. Contents' = [l \in Keys |-> IF l \in {k} THEN [m \in {k} |-> v][l] ELSE Contents[l]]
  <2>1. ASSUME NEW l \in Keys
        PROVE  Contents'[l] = IF l \in {k} THEN [m \in {k} |-> v][l] ELSE Contents[l]
    OBVIOUS
  <2>2. PICK f : f = Contents'
    OBVIOUS
  <2>3. PICK g : g = Contents
    OBVIOUS
  <2>4. /\ f = [l \in Keys |-> f[l]]
        /\ \A l \in Keys : f[l] = IF l \in {k} THEN [m \in {k} |-> v][l] ELSE g[l]
    BY <1>1, <2>1, <2>2, <2>3
  <2>5. f = [l \in Keys |-> IF l \in {k} THEN [m \in {k} |-> v][l] ELSE g[l]]
    BY <2>4
  <2> QED  BY <2>2, <2>3, <2>5
<1>3. [i \in Iters |-> Snapshot(i)]' = [i \in Iters |-> Snapshot(i)]
  BY DEF IteratorsSame
<1>4. [i \in Iters |-> At(i)]' = [i \in Iters |-> At(i)]
  BY DEF IteratorsSame
<1> QED  BY <1>2, <1>3, <1>4 DEF KV!Write, At

LEMMA PutOverStep ==
  ASSUME FakeInv, NEW k \in Keys, NEW v \in Values, ~Reachable(k), Overwrite(k, v)
  PROVE  KV!Put(k, v)
<1>1. PICK j \in 1..Len(kv) : /\ heap[kv[j]].key = k /\ heap'[kv[j]].value = v
                              /\ kv[j] = kv[getIdx(kv, heap, k) + 1]
                              /\ \A c \in DOMAIN heap : c # kv[j] => heap'[c] = heap[c]
  BY OverwriteFake
<1>2. FakeInv' /\ \A c \in DOMAIN heap : heap'[c].key = heap[c].key
  BY OverwriteFake
<1>3. kv # Absent /\ kv' = kv /\ itKv' = itKv /\ itPos' = itPos /\ itClosed' = itClosed /\ Hit(kv, k)
  BY DEF Overwrite
<1>4. Ordered(kv, heap) /\ Ordered(kv, heap')
  BY <1>2, <1>3 DEF FakeInv, ArraysInv
<1>5. IteratorsSame
  <2>1. ASSUME NEW i \in Iters PROVE Snapshot(i)' = Snapshot(i) /\ At(i)' = At(i)
    <3>1. itKv[i] # Absent => kv[j] \notin Range(itKv[i])
      BY <1>1, <1>3 DEF Reachable
    <3>2. itKv[i] # Absent => \A c \in Range(itKv[i]) : c \in DOMAIN heap => heap'[c] = heap[c]
      BY <1>1, <3>1
    <3> QED  BY <1>3, <3>2, IteratorSame
  <2> QED  BY <2>1 DEF IteratorsSame
<1>6. Contents = Lookup(kv, heap) /\ Contents' = Lookup(kv, heap')
  BY <1>3, ContentsIs
<1>7. ASSUME NEW l \in Keys PROVE Lookup(kv, heap')[l] = IF l = k THEN v ELSE Lookup(kv, heap)[l]
  <2>1. \A i \in 1..Len(kv) : heap'[kv[i]].key = heap[kv[i]].key /\ kv[i] \in DOMAIN heap
    BY <1>2, <1>4 DEF Ordered
  <2>2. CASE l = k
    <3>1. heap'[kv[j]].key = k
      BY <1>1, <2>1
    <3>2. Lookup(kv, heap')[k] = heap'[kv[j]].value
      BY <1>4, <3>1, LookupIs
    <3> QED  BY <1>1, <2>2, <3>2
  <2>3. CASE l # k /\ \E i \in 1..Len(kv) : heap[kv[i]].key = l
    <3>1. PICK i \in 1..Len(kv) : heap[kv[i]].key = l
      BY <2>3
    <3>2. heap'[kv[i]] = heap[kv[i]]
      BY <1>1, <2>1, <2>3, <3>1
    <3>3. Lookup(kv, heap)[l] = heap[kv[i]].value
      BY <1>4, <3>1, LookupIs
    <3>4. Lookup(kv, heap')[l] = heap'[kv[i]].value
      BY <1>4, <3>1, <3>2, LookupIs
    <3> QED  BY <2>3, <3>2, <3>3, <3>4
  <2>4. CASE l # k /\ \A i \in 1..Len(kv) : heap[kv[i]].key # l
    <3>1. Lookup(kv, heap)[l] = Absent
      BY <1>4, <2>4, LookupIs
    <3>2. \A i \in 1..Len(kv) : heap'[kv[i]].key # l
      BY <2>1, <2>4
    <3>3. Lookup(kv, heap')[l] = Absent
      BY <1>4, <3>2, LookupIs
    <3> QED  BY <2>4, <3>1, <3>3
  <2> QED  BY <2>2, <2>3, <2>4
<1>8. KV!Write({k}, [l \in {k} |-> v])
  <2>1. \A l \in Keys : Contents'[l] = IF l = k THEN v ELSE Contents[l]
    BY <1>6, <1>7
  <2> QED  BY <1>3, <1>5, <2>1, WriteStep
<1> QED  BY <1>8 DEF KV!Put

LEMMA LookupAmong ==
  ASSUME NEW cells, NEW mem, Ordered(cells, mem), NEW k \in Keys
  PROVE  /\ \A c \in Range(cells) : mem[c].key = k => Lookup(cells, mem)[k] = mem[c].value
         /\ (\A c \in Range(cells) : mem[c].key # k) => Lookup(cells, mem)[k] = Absent
<1>1. Range(cells) = {cells[j] : j \in 1..Len(cells)}
  BY OrderedIsArray DEF Range
<1>2. \A c \in Range(cells) : mem[c].key = k => Lookup(cells, mem)[k] = mem[c].value
  BY <1>1, LookupIs
<1>3. ASSUME \A c \in Range(cells) : mem[c].key # k PROVE Lookup(cells, mem)[k] = Absent
  <2>1. \A j \in 1..Len(cells) : mem[cells[j]].key # k
    BY <1>1, <1>3
  <2> QED  BY <2>1, LookupIs
<1> QED  BY <1>2, <1>3

LEMMA PutNewStep ==
  ASSUME FakeInv, NEW k \in Keys, NEW v \in Values, Insert(k, v)
  PROVE  KV!Put(k, v)
<1>1. FakeInv' /\ \A c \in DOMAIN heap : c \in DOMAIN heap' /\ heap'[c] = heap[c]
  BY InsertFake
<1>2. PICK c \in DOMAIN heap' : Range(kv') = Range(kv) \cup {c} /\ heap'[c] = [key |-> k, value |-> v]
  BY InsertFake
<1>3. \A d \in Range(kv) : heap[d].key # k
  BY InsertFake
<1>4. kv # Absent /\ itKv' = itKv /\ itPos' = itPos /\ itClosed' = itClosed
  BY DEF Insert
<1>5. Ordered(kv, heap)
  BY <1>4 DEF FakeInv, ArraysInv
<1>6. Ordered(kv', heap')
  BY InsertFake
<1>7. kv' # Absent
  <2>1. PICK new, mem : new = kv' /\ mem = heap'
    OBVIOUS
  <2>2. new # Absent
    BY <1>6, <2>1, OrderedIsArray
  <2> QED  BY <2>1, <2>2
<1>8. IteratorsSame
  <2>1. ASSUME NEW i \in Iters PROVE Snapshot(i)' = Snapshot(i) /\ At(i)' = At(i)
    BY <1>1, <1>4, IteratorSame
  <2> QED  BY <2>1 DEF IteratorsSame
<1>9. Contents = Lookup(kv, heap) /\ Contents' = Lookup(kv', heap')
  BY <1>4, <1>7, ContentsIs
<1>10. ASSUME NEW l \in Keys PROVE Lookup(kv', heap')[l] = IF l = k THEN v ELSE Lookup(kv, heap)[l]
  <2>1. PICK cells, mem, new, heap2 : cells = kv /\ mem = heap /\ new = kv' /\ heap2 = heap'
    OBVIOUS
  <2>2. /\ Ordered(cells, mem) /\ Ordered(new, heap2)
        /\ Range(new) = Range(cells) \cup {c} /\ heap2[c] = [key |-> k, value |-> v]
        /\ \A d \in DOMAIN mem : heap2[d] = mem[d]
    BY <1>1, <1>2, <1>5, <1>6, <2>1
  <2>3. Range(cells) \subseteq DOMAIN mem
    BY <2>2, OrderedIsArray, ZenonT(60) DEF Ordered, Range
  <2>4. heap2[c].key = k /\ heap2[c].value = v /\ c \in Range(new)
    BY <2>2
  <2>5. CASE l = k
    BY <2>1, <2>2, <2>4, <2>5, LookupAmong
  <2>6. CASE l # k /\ \E d \in Range(cells) : mem[d].key = l
    <3>1. PICK d \in Range(cells) : mem[d].key = l
      BY <2>6
    <3>2. heap2[d] = mem[d] /\ d \in Range(new)
      BY <2>2, <2>3
    <3>3. Lookup(cells, mem)[l] = mem[d].value
      BY <2>2, <3>1, LookupAmong
    <3>4. Lookup(new, heap2)[l] = heap2[d].value
      BY <2>2, <3>1, <3>2, LookupAmong
    <3> QED  BY <2>1, <2>6, <3>2, <3>3, <3>4
  <2>7. CASE l # k /\ \A d \in Range(cells) : mem[d].key # l
    <3>1. Lookup(cells, mem)[l] = Absent
      BY <2>2, <2>7, LookupAmong
    <3>2. \A d \in Range(new) : heap2[d].key # l
      BY <2>2, <2>3, <2>4, <2>7
    <3>3. Lookup(new, heap2)[l] = Absent
      BY <2>2, <3>2, LookupAmong
    <3> QED  BY <2>1, <2>7, <3>1, <3>3
  <2> QED  BY <2>5, <2>6, <2>7
<1>11. KV!Write({k}, [l \in {k} |-> v])
  <2>1. \A l \in Keys : Contents'[l] = IF l = k THEN v ELSE Contents[l]
    BY <1>9, <1>10
  <2> QED  BY <1>4, <1>7, <1>8, <2>1, WriteStep
<1> QED  BY <1>11 DEF KV!Put

LEMMA DeleteStep ==
  ASSUME FakeInv, NEW k \in Keys, Delete(k)
  PROVE  KV!Delete(k)
<1>1. Ordered(kv', heap) /\ Range(kv') = {c \in Range(kv) : heap[c].key # k}
  BY DeleteFake
<1>2. \A c \in Range(kv') : c \in DOMAIN heap => heap'[c] = heap[c]
  BY DeleteFake
<1>3. kv # Absent /\ itKv' = itKv /\ itPos' = itPos /\ itClosed' = itClosed
  BY DEF Delete
<1>4. Ordered(kv, heap)
  BY <1>3 DEF FakeInv, ArraysInv
<1>5. IteratorsSame
  <2>1. ASSUME NEW i \in Iters PROVE Snapshot(i)' = Snapshot(i) /\ At(i)' = At(i)
    BY <1>3, DeleteFake, IteratorSame
  <2> QED  BY <2>1 DEF IteratorsSame
<1>6. PICK cells, mem, new, heap2 : cells = kv /\ mem = heap /\ new = kv' /\ heap2 = heap'
  OBVIOUS
<1>7. /\ Ordered(cells, mem) /\ Ordered(new, mem) /\ Range(new) = {c \in Range(cells) : mem[c].key # k}
      /\ \A c \in Range(new) : c \in DOMAIN mem => heap2[c] = mem[c]
  BY <1>1, <1>2, <1>4, <1>6
<1>8. Lookup(new, heap2) = Lookup(new, mem) /\ new # Absent
  BY <1>7, LookupSame, OrderedIsArray
<1>9. Contents = Lookup(cells, mem) /\ Contents' = Lookup(new, mem)
  BY <1>3, <1>6, <1>8, ContentsIs
<1>10. ASSUME NEW l \in Keys PROVE Lookup(new, mem)[l] = IF l = k THEN Absent ELSE Lookup(cells, mem)[l]
  <2>1. CASE \E d \in Range(new) : mem[d].key = l
    <3>1. PICK d \in Range(new) : mem[d].key = l
      BY <2>1
    <3>2. d \in Range(cells) /\ l # k
      BY <1>7, <3>1
    <3>3. Lookup(cells, mem)[l] = mem[d].value
      BY <1>7, <3>1, <3>2, LookupAmong
    <3>4. Lookup(new, mem)[l] = mem[d].value
      BY <1>7, <3>1, LookupAmong
    <3> QED  BY <3>2, <3>3, <3>4
  <2>2. CASE \A d \in Range(new) : mem[d].key # l
    <3>1. Lookup(new, mem)[l] = Absent
      BY <1>7, <2>2, LookupAmong
    <3>2. CASE l = k
      BY <3>1, <3>2
    <3>3. CASE l # k
      <4>1. \A d \in Range(cells) : mem[d].key # l
        BY <1>7, <2>2, <3>3
      <4>2. Lookup(cells, mem)[l] = Absent
        BY <1>7, <4>1, LookupAmong
      <4> QED  BY <3>1, <3>3, <4>2
    <3> QED  BY <3>2, <3>3
  <2> QED  BY <2>1, <2>2
<1>11. KV!Write({k}, [l \in {k} |-> Absent])
  <2>1. \A l \in Keys : Contents'[l] = IF l = k THEN Absent ELSE Contents[l]
    BY <1>9, <1>10
  <2>2. kv' # Absent
    BY <1>6, <1>8
  <2> QED  BY <1>3, <1>5, <2>1, <2>2, WriteStep
<1> QED  BY <1>11 DEF KV!Delete

LEMMA CloseStep ==
  ASSUME FakeInv, Close
  PROVE  KV!Close
<1>1. kv # Absent /\ kv' = Absent /\ itKv' = itKv /\ itPos' = itPos /\ itClosed' = itClosed
  BY DEF Close
<1>2. IteratorsSame
  <2>1. ASSUME NEW i \in Iters PROVE Snapshot(i)' = Snapshot(i) /\ At(i)' = At(i)
    BY <1>1, CloseFake, IteratorSame
  <2> QED  BY <2>1 DEF IteratorsSame
<1>3. Contents' = [k \in Keys |-> Absent]
  BY <1>1, ContentsIs
<1>4. [i \in Iters |-> Snapshot(i)]' = [i \in Iters |-> Snapshot(i)]
  BY <1>2 DEF IteratorsSame
<1>5. [i \in Iters |-> At(i)]' = [i \in Iters |-> At(i)]
  BY <1>2 DEF IteratorsSame
<1> QED  BY <1>1, <1>3, <1>4, <1>5 DEF KV!Close, At

\* One iterator changes: what the abstract variables become.
Becomes(i, snap, key) ==
  /\ Snapshot(i)' = snap /\ At(i)' = key
  /\ \A j \in Iters \ {i} : Snapshot(j)' = Snapshot(j) /\ At(j)' = At(j)

LEMMA BecomesIs ==
  ASSUME NEW i \in Iters, NEW snap, NEW key, Becomes(i, snap, key)
  PROVE  /\ [j \in Iters |-> Snapshot(j)]' = [[j \in Iters |-> Snapshot(j)] EXCEPT ![i] = snap]
         /\ [j \in Iters |-> At(j)]' = [[j \in Iters |-> At(j)] EXCEPT ![i] = key]
         /\ snap = Snapshot(i) => [j \in Iters |-> Snapshot(j)]' = [j \in Iters |-> Snapshot(j)]
         /\ key = At(i) => [j \in Iters |-> At(j)]' = [j \in Iters |-> At(j)]
<1>1. PICK f, g, h, e : /\ f = [j \in Iters |-> Snapshot(j)] /\ g = [j \in Iters |-> Snapshot(j)']
                        /\ h = [j \in Iters |-> At(j)] /\ e = [j \in Iters |-> At(j)']
  OBVIOUS
<1>2. /\ g[i] = snap /\ \A j \in Iters \ {i} : g[j] = f[j]
      /\ e[i] = key /\ \A j \in Iters \ {i} : e[j] = h[j]
      /\ snap = Snapshot(i) => snap = f[i]
      /\ key = At(i) => key = h[i]
  BY <1>1 DEF Becomes
<1>3. /\ f = [j \in Iters |-> f[j]] /\ g = [j \in Iters |-> g[j]]
      /\ h = [j \in Iters |-> h[j]] /\ e = [j \in Iters |-> e[j]]
  BY <1>1
<1>4. g = [f EXCEPT ![i] = snap] /\ (snap = f[i] => g = f)
  BY <1>2, <1>3
<1>5. e = [h EXCEPT ![i] = key] /\ (key = h[i] => e = h)
  BY <1>2, <1>3
<1> QED  BY <1>1, <1>2, <1>4, <1>5

\* The other iterators, when one is called.
LEMMA OthersSame ==
  ASSUME FakeInv, NEW i \in Iters, NEW snap, NEW key, Snapshot(i)' = snap, At(i)' = key,
         \A j \in Iters \ {i} : itKv'[j] = itKv[j] /\ itClosed'[j] = itClosed[j] /\ itPos'[j] = itPos[j],
         \A j \in Iters \ {i} : itKv[j] # Absent => \A c \in Range(itKv[j]) : c \in DOMAIN heap => heap'[c] = heap[c]
  PROVE  Becomes(i, snap, key)
  BY IteratorSame DEF Becomes

LEMMA NewIteratorStep ==
  ASSUME FakeInv, NEW i \in Iters, NewIterator(i)
  PROVE  KV!NewIterator(i)
<1>1. /\ kv # Absent /\ itKv[i] = Absent /\ UNCHANGED <<kv, heap, itPos, itClosed>>
      /\ itKv' = [itKv EXCEPT ![i] = kv]
  BY DEF NewIterator
<1>2. itKv'[i] = kv /\ \A j \in Iters \ {i} : itKv'[j] = itKv[j]
  BY <1>1 DEF FakeInv, ItersInv
<1>3. itPos'[i] = Undefined /\ ~itClosed'[i] /\ Snapshot(i) = Absent
  BY <1>1, SeenIs DEF FakeInv, ItersInv, Shown
<1>4. Snapshot(i)' = Contents /\ Contents' = Contents
  BY <1>1, <1>2, <1>3, SeenIs, ContentsIs DEF Shown
<1>5. At(i)' = Absent
  BY <1>3, SeenIs DEF Stands
<1>6. Becomes(i, Contents, Absent)
  BY <1>1, <1>2, <1>4, <1>5, OthersSame
<1>7. /\ [j \in Iters |-> Snapshot(j)]' = [[j \in Iters |-> Snapshot(j)] EXCEPT ![i] = Contents]
      /\ [j \in Iters |-> At(j)]' = [[j \in Iters |-> At(j)] EXCEPT ![i] = Absent]
  BY <1>6, BecomesIs
<1>8. [j \in Iters |-> Snapshot(j)][i] = Absent
  BY <1>3
<1> QED  BY <1>1, <1>4, <1>7, <1>8 DEF KV!NewIterator, At

\* close of an iterator, or the end of an iterator that was not closed; the
\* end of one that was, and a second close, change nothing a client sees.
LEMMA EndStep ==
  ASSUME FakeInv, NEW i \in Iters, Becomes(i, Absent, Absent), Contents' = Contents, (kv = Absent)' = (kv = Absent)
  PROVE  KV!CloseIterator(i) \/ UNCHANGED KV!kvVars
<1>1. /\ [j \in Iters |-> Snapshot(j)]' = [[j \in Iters |-> Snapshot(j)] EXCEPT ![i] = Absent]
      /\ [j \in Iters |-> At(j)]' = [[j \in Iters |-> At(j)] EXCEPT ![i] = Absent]
  BY BecomesIs, ZenonT(60)
<1>2. CASE Snapshot(i) # Absent
  <2>1. [j \in Iters |-> Snapshot(j)][i] # Absent
    BY <1>2
  <2>2. KV!CloseIterator(i)
    BY <1>1, <2>1 DEF KV!CloseIterator, At
  <2> QED  BY <2>2
<1>3. CASE Snapshot(i) = Absent
  <2>1. At(i) = Absent
    BY <1>3 DEF At
  <2>2. [j \in Iters |-> Snapshot(j)]' = [j \in Iters |-> Snapshot(j)] /\ [j \in Iters |-> At(j)]' = [j \in Iters |-> At(j)]
    BY <1>3, <2>1, BecomesIs
  <2>3. UNCHANGED KV!kvVars
    BY <2>2 DEF KV!kvVars, At
  <2> QED  BY <2>3
<1> QED  BY <1>2, <1>3

LEMMA CloseIteratorStep ==
  ASSUME FakeInv, NEW i \in Iters, CloseIterator(i)
  PROVE  KV!CloseIterator(i) \/ UNCHANGED KV!kvVars
<1>1. /\ UNCHANGED <<kv, heap, itKv>>
      /\ itPos' = [itPos EXCEPT ![i] = Undefined] /\ itClosed' = [itClosed EXCEPT ![i] = TRUE]
  BY DEF CloseIterator
<1>2. itClosed'[i] /\ \A j \in Iters \ {i} : itClosed'[j] = itClosed[j] /\ itPos'[j] = itPos[j]
  BY <1>1 DEF FakeInv, ItersInv
<1>3. Snapshot(i)' = Absent
  BY <1>2, SeenIs DEF Shown
<1>4. At(i)' = Absent
  BY <1>3 DEF At
<1>5. Becomes(i, Absent, Absent)
  BY <1>1, <1>2, <1>3, <1>4, OthersSame
<1>6. Contents' = Contents
  BY <1>1, ContentsIs
<1> QED  BY <1>1, <1>5, <1>6, EndStep

LEMMA DropIteratorStep ==
  ASSUME FakeInv, NEW i \in Iters, DropIterator(i)
  PROVE  KV!CloseIterator(i) \/ UNCHANGED KV!kvVars
<1>1. /\ kv' = kv /\ itKv' = [itKv EXCEPT ![i] = Absent]
      /\ itPos' = [itPos EXCEPT ![i] = Undefined] /\ itClosed' = [itClosed EXCEPT ![i] = FALSE]
  BY DEF DropIterator
<1>2. /\ itKv'[i] = Absent
      /\ \A j \in Iters \ {i} : itKv'[j] = itKv[j] /\ itClosed'[j] = itClosed[j] /\ itPos'[j] = itPos[j]
  BY <1>1 DEF FakeInv, ItersInv
<1>3. Snapshot(i)' = Absent
  BY <1>2, SeenIs DEF Shown
<1>4. At(i)' = Absent
  BY <1>3 DEF At
<1>5. \A j \in Iters \ {i} : itKv[j] # Absent => \A c \in Range(itKv[j]) : c \in DOMAIN heap => heap'[c] = heap[c]
  BY DropIteratorFake
<1>6. Becomes(i, Absent, Absent)
  BY <1>2, <1>3, <1>4, <1>5, OthersSame
<1>7. Contents' = Contents
  <2>1. CASE kv = Absent
    BY <1>1, <2>1, ContentsIs
  <2>2. CASE kv # Absent
    <3>1. PICK cells, mem, new : cells = kv /\ mem = heap /\ new = heap'
      OBVIOUS
    <3>2. Ordered(cells, mem) /\ \A c \in Range(cells) : c \in DOMAIN mem => new[c] = mem[c]
      BY <2>2, <3>1, DropIteratorFake DEF FakeInv, ArraysInv
    <3>3. Lookup(cells, new) = Lookup(cells, mem)
      BY <3>2, LookupSame
    <3> QED  BY <1>1, <2>2, <3>1, <3>3, ContentsIs
  <2> QED  BY <2>1, <2>2
<1> QED  BY <1>1, <1>6, <1>7, EndStep

-------------------------------------------------------------------------------
\* The key a move lands on.
Lands(cells, mem, p) == IF p >= 0 /\ p < Len(cells) THEN mem[cells[p + 1]].key ELSE Absent

LEMMA MoveStep ==
  ASSUME FakeInv, NEW i \in Iters, ~itClosed[i], NEW p \in Int, MoveTo(i, p)
  PROVE  /\ Ordered(itKv[i], heap) /\ Snapshot(i) = Lookup(itKv[i], heap)
         /\ KV!Move(i, Lands(itKv[i], heap, p))
<1>1. /\ itKv[i] # Absent /\ itPos' = [itPos EXCEPT ![i] = p] /\ UNCHANGED <<kv, heap, itKv, itClosed>>
  BY DEF MoveTo
<1>2. itPos'[i] = p /\ \A j \in Iters \ {i} : itPos'[j] = itPos[j]
  BY <1>1 DEF FakeInv, ItersInv
<1>3. Ordered(itKv[i], heap) /\ heap \in [DOMAIN heap -> Tuple]
  BY <1>1 DEF FakeInv, ArraysInv, HeapInv
<1>4. Lookup(itKv[i], heap) # Absent
  BY <1>3, LookupTyped
<1>5. Snapshot(i) = Lookup(itKv[i], heap) /\ Snapshot(i)' = Snapshot(i)
  BY <1>1, SeenIs DEF Shown
<1>6. Shown(itKv'[i], itClosed'[i], heap') # Absent /\ p # Undefined
  BY <1>1, <1>4, <1>5, SeenIs, FakeAssumption
<1>7. At(i)' = Lands(itKv[i], heap, p)
  <2>1. At(i)' = Stands(itKv'[i], itClosed'[i], itPos'[i], heap')
    BY SeenIs
  <2> QED  BY <1>1, <1>2, <1>6, <2>1 DEF Stands, Lands
<1>8. PICK key : key = Lands(itKv[i], heap, p)
  OBVIOUS
<1>9. Becomes(i, Snapshot(i), key)
  BY <1>1, <1>2, <1>5, <1>7, <1>8, OthersSame
<1>10. /\ [j \in Iters |-> Snapshot(j)]' = [j \in Iters |-> Snapshot(j)]
       /\ [j \in Iters |-> At(j)]' = [[j \in Iters |-> At(j)] EXCEPT ![i] = key]
  BY <1>9, BecomesIs
<1>11. [j \in Iters |-> Snapshot(j)][i] # Absent /\ Contents' = Contents
  BY <1>1, <1>4, <1>5, ContentsIs
<1>12. KV!Move(i, key)
  BY <1>1, <1>10, <1>11 DEF KV!Move, At
<1> QED  BY <1>3, <1>5, <1>8, <1>12

\* Where the moves of the abstract store go, on an ordered array.
LEMMA Landings ==
  ASSUME NEW cells, NEW mem, Ordered(cells, mem), mem \in [DOMAIN mem -> Tuple], NEW P, P = KV!Present(Lookup(cells, mem))
  PROVE  /\ KV!First(P) = Lands(cells, mem, 0)
         /\ KV!Last(P) = Lands(cells, mem, Len(cells) - 1)
         /\ \A k \in Int : KV!First({l \in P : k <= l}) = Lands(cells, mem, getIdx(cells, mem, k))
         /\ \A p \in 0..(Len(cells) - 1) :
              /\ KV!First({l \in P : mem[cells[p + 1]].key < l}) = Lands(cells, mem, p + 1)
              /\ KV!Last({l \in P : l < mem[cells[p + 1]].key}) = Lands(cells, mem, p - 1)
<1>1. PICK n \in Nat : n = Len(cells)
  BY OrderedIsArray
<1>2. ASSUME NEW j \in 1..n PROVE mem[cells[j]].key \in P
  BY <1>1, PresentIs
<1>3. ASSUME NEW k \in P PROVE \E j \in 1..n : k = mem[cells[j]].key
  BY <1>1, PresentIs
<1>4. KV!First(P) = Lands(cells, mem, 0)
  <2>1. KV!First(P) = IF 0 < Len(cells) THEN mem[cells[0 + 1]].key ELSE Absent
    <3>1. 0 \in 0..Len(cells) /\ \A j \in 1..Len(cells) : 0 < j
      BY <1>1
    <3> QED  BY <1>1, <1>2, <1>3, <3>1, FirstIs
  <2> QED  BY <2>1 DEF Lands
<1>5. KV!Last(P) = Lands(cells, mem, n - 1)
  <2>1. KV!Last(P) = IF 0 < n THEN mem[cells[n]].key ELSE Absent
    <3>1. n \in 0..Len(cells) /\ \A j \in 1..Len(cells) : j <= n
      BY <1>1
    <3> QED  BY <1>1, <1>2, <1>3, <3>1, LastIs
  <2>2. (0 < n <=> n - 1 >= 0 /\ n - 1 < n) /\ (n - 1) + 1 = n
    BY <1>1
  <2> QED  BY <1>1, <2>1, <2>2 DEF Lands
<1>6. ASSUME NEW k \in Int PROVE KV!First({l \in P : k <= l}) = Lands(cells, mem, getIdx(cells, mem, k))
  <2>1. PICK b \in 0..n : b = getIdx(cells, mem, k) /\ IsBound(cells, mem, k, b)
    BY <1>1, Search
  <2>2. ASSUME NEW j \in 1..n PROVE b < j <=> k <= mem[cells[j]].key
    <3>1. j - 1 \in 0..(n - 1) /\ (j - 1) + 1 = j /\ (b < j <=> ~(j - 1 < b))
      BY <1>1
    <3>2. mem[cells[j]].key \in Int
      BY <1>1 DEF Ordered
    <3>3. j - 1 < b <=> mem[cells[j]].key < k
      BY <1>1, <2>1, <3>1 DEF IsBound
    <3>4. k <= mem[cells[j]].key <=> ~(mem[cells[j]].key < k)
      BY <3>2
    <3> QED  BY <3>1, <3>3, <3>4
  <2>3. PICK S : S = {l \in P : k <= l}
    OBVIOUS
  <2>4. /\ \A l \in S : \E j \in 1..n : b < j /\ l = mem[cells[j]].key
        /\ \A j \in 1..n : b < j => mem[cells[j]].key \in S
    BY <1>2, <1>3, <2>2, <2>3
  <2>5. KV!First(S) = IF b < n THEN mem[cells[b + 1]].key ELSE Absent
    BY <1>1, <2>4, FirstIs
  <2>6. b >= 0
    BY <1>1
  <2> QED  BY <1>1, <2>1, <2>3, <2>5, <2>6 DEF Lands
<1>7. ASSUME NEW p \in 0..(n - 1)
      PROVE  /\ KV!First({l \in P : mem[cells[p + 1]].key < l}) = Lands(cells, mem, p + 1)
             /\ KV!Last({l \in P : l < mem[cells[p + 1]].key}) = Lands(cells, mem, p - 1)
  <2>1. p + 1 \in 1..n /\ p + 1 \in 0..n /\ p \in 0..n
    BY <1>1
  <2>2. PICK x \in Int : x = mem[cells[p + 1]].key
    BY <1>1, <2>1 DEF Ordered
  <2>3. ASSUME NEW j \in 1..n PROVE (p + 1 < j <=> x < mem[cells[j]].key) /\ (j <= p <=> mem[cells[j]].key < x)
    <3>1. PICK y \in Int : y = mem[cells[j]].key
      BY <1>1 DEF Ordered
    <3>2. (p + 1 < j => x < y) /\ (j < p + 1 => y < x) /\ (j = p + 1 => y = x)
      BY <1>1, <2>1, <2>2, <3>1 DEF Ordered
    <3>3. (p + 1 < j \/ j < p + 1 \/ j = p + 1) /\ (j <= p <=> j < p + 1)
      BY <1>1
    <3>4. (p + 1 < j <=> x < y) /\ (j <= p <=> y < x)
      BY <1>1, <3>2, <3>3
    <3> QED  BY <3>1, <3>4
  <2>4. PICK S, T : S = {l \in P : x < l} /\ T = {l \in P : l < x}
    OBVIOUS
  <2>5. /\ \A l \in S : \E j \in 1..n : p + 1 < j /\ l = mem[cells[j]].key
        /\ \A j \in 1..n : p + 1 < j => mem[cells[j]].key \in S
    BY <1>2, <1>3, <2>3, <2>4
  <2>6. /\ \A l \in T : \E j \in 1..n : j <= p /\ l = mem[cells[j]].key
        /\ \A j \in 1..n : j <= p => mem[cells[j]].key \in T
    BY <1>2, <1>3, <2>3, <2>4
  <2>7. KV!First(S) = IF p + 1 < n THEN mem[cells[(p + 1) + 1]].key ELSE Absent
    BY <1>1, <2>1, <2>5, FirstIs, SMTT(60)
  <2>8. KV!Last(T) = IF 0 < p THEN mem[cells[p]].key ELSE Absent
    BY <1>1, <2>1, <2>6, LastIs, SMTT(60)
  <2>9. p + 1 >= 0 /\ (0 < p <=> p - 1 >= 0 /\ p - 1 < n) /\ (p - 1) + 1 = p
    BY <1>1
  <2>10. KV!First(S) = Lands(cells, mem, p + 1)
    BY <1>1, <2>7, <2>9 DEF Lands
  <2>11. KV!Last(T) = Lands(cells, mem, p - 1)
    BY <1>1, <2>8, <2>9 DEF Lands
  <2> QED  BY <2>2, <2>4, <2>10, <2>11
<1> QED  BY <1>1, <1>4, <1>5, <1>6, <1>7

LEMMA MovesStep ==
  ASSUME FakeInv, NEW i \in Iters, ~itClosed[i], Moves(i)
  PROVE  \/ KV!SeekToFirst(i) \/ KV!SeekLast(i) \/ KV!MoveNext(i) \/ KV!MovePrev(i)
         \/ \E k \in Keys : KV!Seek(i, k)
<1>1. PICK q \in Int : MoveTo(i, q)
  BY MovesTo
<1>2. Ordered(itKv[i], heap) /\ Snapshot(i) = Lookup(itKv[i], heap) /\ heap \in [DOMAIN heap -> Tuple]
  BY <1>1, MoveStep DEF FakeInv, HeapInv
<1>3. PICK n \in Nat : n = Len(itKv[i])
  BY <1>2, OrderedIsArray
<1>4. PICK P : P = KV!Present(Lookup(itKv[i], heap))
  OBVIOUS
<1>5. KV!Present([j \in Iters |-> Snapshot(j)][i]) = P
  BY <1>2, <1>4
<1>6. ASSUME NEW p \in Int, MoveTo(i, p) PROVE KV!Move(i, Lands(itKv[i], heap, p))
  BY <1>6, MoveStep
<1>7. CASE SeekToFirst(i)
  <2>1. KV!Move(i, Lands(itKv[i], heap, 0))
    BY <1>6, <1>7 DEF SeekToFirst
  <2>2. KV!First(P) = Lands(itKv[i], heap, 0)
    BY <1>2, <1>4, Landings
  <2>3. KV!SeekToFirst(i)
    BY <1>5, <2>1, <2>2 DEF KV!SeekToFirst
  <2> QED  BY <2>3
<1>8. CASE SeekLast(i)
  <2>1. n - 1 \in Int /\ MoveTo(i, n - 1)
    BY <1>3, <1>8 DEF SeekLast
  <2>2. KV!Move(i, Lands(itKv[i], heap, n - 1))
    BY <1>6, <2>1
  <2>3. KV!Last(P) = Lands(itKv[i], heap, n - 1)
    BY <1>2, <1>3, <1>4, Landings
  <2>4. KV!SeekLast(i)
    BY <1>5, <2>2, <2>3 DEF KV!SeekLast
  <2> QED  BY <2>4
<1>9. CASE MoveNext(i) \/ MovePrev(i)
  <2>1. Valid(i) /\ itPos[i] \in Int
    BY <1>9 DEF MoveNext, MovePrev, Valid, FakeInv, ItersInv
  <2>2. PICK p \in Int : p = itPos[i]
    BY <2>1
  <2>3. p \in 0..(n - 1)
    BY <1>3, <2>1, <2>2 DEF Valid
  <2>4. PICK x : x = heap[itKv[i][p + 1]].key
    OBVIOUS
  <2>5. At(i) = x
    <3>1. Lookup(itKv[i], heap) # Absent
      BY <1>2, LookupTyped
    <3> QED  BY <1>2, <2>1, <2>2, <2>4, <3>1 DEF At, KeyAt
  <2>6. x # Absent
    <3>1. p + 1 \in 1..n
      BY <1>3, <2>3
    <3>2. heap[itKv[i][p + 1]] \in Tuple
      BY <1>2, <1>3, <3>1 DEF Ordered
    <3>3. x \in Keys
      BY <2>4, <3>2 DEF Tuple
    <3> QED  BY <3>3, FakeAssumption
  <2>7. [j \in Iters |-> At(j)][i] = x
    BY <2>5
  <2>8. /\ KV!First({l \in P : x < l}) = Lands(itKv[i], heap, p + 1)
        /\ KV!Last({l \in P : l < x}) = Lands(itKv[i], heap, p - 1)
    <3>1. \A r \in 0..(Len(itKv[i]) - 1) :
            /\ KV!First({l \in P : heap[itKv[i][r + 1]].key < l}) = Lands(itKv[i], heap, r + 1)
            /\ KV!Last({l \in P : l < heap[itKv[i][r + 1]].key}) = Lands(itKv[i], heap, r - 1)
      BY <1>2, <1>4, Landings, ZenonT(60)
    <3>2. p \in 0..(Len(itKv[i]) - 1)
      BY <1>3, <2>3
    <3>3. /\ KV!First({l \in P : heap[itKv[i][p + 1]].key < l}) = Lands(itKv[i], heap, p + 1)
          /\ KV!Last({l \in P : l < heap[itKv[i][p + 1]].key}) = Lands(itKv[i], heap, p - 1)
      BY <3>1, <3>2
    <3> QED  BY <2>4, <3>3
  <2>9. CASE MoveNext(i)
    <3>1. p + 1 \in Int /\ MoveTo(i, p + 1)
      BY <2>2, <2>9 DEF MoveNext
    <3>2. KV!Move(i, Lands(itKv[i], heap, p + 1))
      BY <1>6, <3>1
    <3>3. KV!MoveNext(i)
      BY <1>5, <2>6, <2>7, <2>8, <3>2 DEF KV!MoveNext, At
    <3> QED  BY <3>3
  <2>10. CASE MovePrev(i)
    <3>1. p - 1 \in Int /\ MoveTo(i, p - 1)
      BY <2>2, <2>10 DEF MovePrev
    <3>2. KV!Move(i, Lands(itKv[i], heap, p - 1))
      BY <1>6, <3>1
    <3>3. KV!MovePrev(i)
      BY <1>5, <2>6, <2>7, <2>8, <3>2 DEF KV!MovePrev, At
    <3> QED  BY <3>3
  <2> QED  BY <1>9, <2>9, <2>10
<1>10. CASE \E k \in Keys : Seek(i, k)
  <2>1. PICK k \in Keys : Seek(i, k)
    BY <1>10
  <2>2. k \in Int
    BY FakeAssumption
  <2>3. PICK p : p = getIdx(itKv[i], heap, k)
    OBVIOUS
  <2>4. p \in Int
    <3>1. p \in 0..n
      BY <1>2, <1>3, <2>2, <2>3, Search
    <3> QED  BY <1>3, <3>1
  <2>5. KV!Move(i, Lands(itKv[i], heap, p))
    BY <1>6, <2>1, <2>3, <2>4 DEF Seek
  <2>6. KV!First({l \in P : k <= l}) = Lands(itKv[i], heap, p)
    BY <1>2, <1>4, <2>2, <2>3, Landings
  <2>7. KV!Seek(i, k)
    BY <1>5, <2>5, <2>6 DEF KV!Seek
  <2> QED  BY <2>7
<1> QED  BY <1>7, <1>8, <1>9, <1>10 DEF Moves

LEMMA CarefulIsNext == CarefulNext => Next
  BY DEF CarefulNext, Next

LEMMA CarefulStep == FakeInv /\ [CarefulNext]_vars => [KV!Next]_(KV!kvVars)
<1> SUFFICES ASSUME FakeInv, [CarefulNext]_vars PROVE KV!Next \/ UNCHANGED KV!kvVars
  OBVIOUS
<1>1. ASSUME NEW k \in Keys, NEW v \in Values, kv # Absent /\ ~Reachable(k) /\ Overwrite(k, v)
      PROVE  KV!Next
  <2>1. KV!Put(k, v)
    BY <1>1, PutOverStep
  <2> QED  BY <2>1 DEF KV!Next
<1>2. ASSUME NEW k \in Keys, NEW v \in Values, Insert(k, v) PROVE KV!Next
  <2>1. KV!Put(k, v)
    BY <1>2, PutNewStep
  <2> QED  BY <2>1 DEF KV!Next
<1>3. ASSUME NEW k \in Keys, Delete(k) PROVE KV!Next
  <2>1. KV!Delete(k)
    BY <1>3, DeleteStep
  <2> QED  BY <2>1 DEF KV!Next
<1>4. CASE Close
  <2>1. KV!Close
    BY <1>4, CloseStep
  <2> QED  BY <2>1 DEF KV!Next
<1>5. ASSUME NEW i \in Iters, NewIterator(i) PROVE KV!Next
  <2>1. KV!NewIterator(i)
    BY <1>5, NewIteratorStep
  <2> QED  BY <2>1 DEF KV!Next
<1>6. ASSUME NEW i \in Iters, CloseIterator(i) \/ DropIterator(i) PROVE KV!Next \/ UNCHANGED KV!kvVars
  <2>1. KV!CloseIterator(i) \/ UNCHANGED KV!kvVars
    BY <1>6, CloseIteratorStep, DropIteratorStep
  <2> QED  BY <2>1 DEF KV!Next
<1>7. ASSUME NEW i \in Iters, ~itClosed[i], Moves(i) PROVE KV!Next
  <2>1. \/ KV!SeekToFirst(i) \/ KV!SeekLast(i) \/ KV!MoveNext(i) \/ KV!MovePrev(i)
        \/ \E k \in Keys : KV!Seek(i, k)
    BY <1>7, MovesStep
  <2> QED  BY <2>1 DEF KV!Next
<1>8. CASE UNCHANGED vars
  <2>1. kv' = kv /\ heap' = heap /\ itKv' = itKv /\ itPos' = itPos /\ itClosed' = itClosed
    BY <1>8 DEF vars
  <2>2. Contents' = Contents /\ IteratorsSame
    BY <2>1, ContentsIs, SeenIs DEF IteratorsSame
  <2>3. [i \in Iters |-> Snapshot(i)]' = [i \in Iters |-> Snapshot(i)] /\ [i \in Iters |-> At(i)]' = [i \in Iters |-> At(i)]
    BY <2>2 DEF IteratorsSame
  <2> QED  BY <2>1, <2>2, <2>3 DEF KV!kvVars, At
<1> QED  BY <1>1, <1>2, <1>3, <1>4, <1>5, <1>6, <1>7, <1>8 DEF CarefulNext

LEMMA InitStep == Init => KV!Init
<1> SUFFICES ASSUME Init PROVE KV!Init
  OBVIOUS
<1>1. kv # Absent
  <2>1. <<>> \in Seq(Nat)
    OBVIOUS
  <2> QED  BY <2>1, FakeAssumption DEF Init
<1>2. Contents = [k \in Keys |-> Absent]
  <2>1. Range(kv) = {}
    BY DEF Init, Range
  <2>2. Contents = Lookup(kv, heap)
    BY <1>1, ContentsIs
  <2> QED  BY <2>1, <2>2 DEF Lookup
<1>3. \A i \in Iters : Snapshot(i) = Absent /\ At(i) = Absent
  BY DEF Init, Snapshot, At
<1>4. [i \in Iters |-> Snapshot(i)] = [i \in Iters |-> Absent] /\ [i \in Iters |-> At(i)] = [i \in Iters |-> Absent]
  BY <1>3
<1> QED  BY <1>1, <1>2, <1>4 DEF KV!Init, At

\* For a careful client, one that uses no iterator after closing it and
\* overwrites no key that a live iterator's shallow copy still refers to, every
\* step of FakeLevelDB and of FakeLevelDBIterator (fake.ts) is the step of the
\* interfaces' ordered map: put, delete, close, newIterator, and each seek, next
\* and prev, which lands on the key the database's iterator would land on.
THEOREM DoubleImplements == CarefulSpec => ImplementsKVStore
<1>1. Init => FakeInv /\ KV!Init
  BY InitFake, InitStep
<1>2. FakeInv /\ [CarefulNext]_vars => FakeInv' /\ [KV!Next]_(KV!kvVars)
  BY NextFake, CarefulIsNext, CarefulStep
<1> QED  BY <1>1, <1>2, PTL DEF CarefulSpec, ImplementsKVStore, KV!Spec
===============================================================================
