---------------------------- MODULE LogFormatProofs ----------------------------
(***************************************************************************)
(* For any block and header size, any records, offsets, write failures and *)
(* crashes: what log::Reader returns are whole records, in order, once     *)
(* each; and if no flush failed, all that were acknowledged, without a     *)
(* complaint about the tail that a crash cut off.                          *)
(*                                                                         *)
(* A physical record is named by its number p.  FileInv says how the cells *)
(* of one lie in the file, whatever failed; AlignInv how they lie in the   *)
(* blocks as long as nothing failed.  Place(rd) is the offset in the file  *)
(* that the reader rd has come to.                                         *)
(***************************************************************************)
EXTENDS LogFormat, TLAPS

Types == {"full", "first", "middle", "last"}
FileCells == [p : Nat, i : Nat]

Cell(p, i) == [p |-> p, i |-> i]
Span(p) == HeaderSize + phys[p].length
Begins(p) == phys[p].type \in {"full", "first"}
Ends(p) == phys[p].type \in {"full", "last"}

\* Cell m of the file is the last one of a physical record.
IsLast(m) == file[m].p > 0 /\ file[m].i = Span(file[m].p)

\* The bytes of the file from offset a up to offset b are in one block.
OneBlock(a, b) == \E base \in 0..a : base % BlockSize = 0 /\ b <= base + BlockSize

\* The first n bytes of record r.
Bytes(r, n) == [i \in 1..n |-> <<r, i>>]

\* The first physical record of r is in the file, where records says.
Started(r) ==
  /\ records[r].offset \in 0..(Len(file) - 1)
  /\ LET c == file[records[r].offset + 1]
     IN  c.p > 0 /\ c.i = 1 /\ Begins(c.p) /\ phys[c.p].rec = r

Phys == [type : Types, length : Nat, rec : Nat, first : Nat]
Records == [size : Nat, offset : Int, status : {"pending", "ok", "synced", "failed", "lost"}]

WriterTypes ==
  /\ phase \in {"write", "read"}
  /\ file \in Seq(FileCells) /\ phys \in Seq(Phys) /\ records \in Seq(Records)
  /\ synced \in Nat /\ block_offset_ \in 0..BlockSize /\ failures \in Nat
  /\ adding \in [left : Int, begin : BOOLEAN] /\ (adding # None => adding.left \in Nat)

\* What the writer formed: the fragments of a record follow each other and
\* cover it from its start, to its end if the last one is there.
HistoryInv ==
  /\ \A p \in 1..Len(phys) :
       /\ phys[p].rec \in 1..Len(records)
       /\ phys[p].first + phys[p].length <= records[phys[p].rec].size
       /\ Ends(p) <=> phys[p].first + phys[p].length = records[phys[p].rec].size
       /\ Begins(p) => phys[p].first = 0
       /\ ~Begins(p) => /\ p > 1 /\ phys[p - 1].rec = phys[p].rec
                        /\ phys[p].first = phys[p - 1].first + phys[p - 1].length
  /\ \A p, q \in 1..Len(phys) :
       p < q => phys[p].rec <= phys[q].rec /\ (Ends(p) => phys[p].rec < phys[q].rec)

\* An AddRecord under way: the record it adds is the newest, and what it has
\* written is all there.
AddingInv ==
  adding # None =>
    LET r == Len(records)
        last == Len(phys)
    IN  /\ phase = "write" /\ r > 0
        /\ adding.left <= records[r].size
        /\ \A p \in 1..last : phys[p].rec = r => ~Ends(p)
        /\ adding.begin => adding.left = records[r].size /\ \A p \in 1..last : phys[p].rec < r
        /\ ~adding.begin => /\ last > 0 /\ phys[last].rec = r
                            /\ phys[last].first + phys[last].length = records[r].size - adding.left
                            /\ Len(file) > 0 /\ file[Len(file)] = Cell(last, Span(last))
                            /\ Started(r)

\* The cells of a physical record that are in the file are its first ones and
\* lie side by side, in the order of the physical records; the one before a
\* fragment that continues a record is there to its end.
FileInv ==
  /\ \A j \in 1..Len(file) : file[j].p > 0 =>
       /\ file[j].p <= Len(phys) /\ file[j].i \in 1..Span(file[j].p) /\ file[j].i <= j
       /\ \A i \in 1..file[j].i : file[j - file[j].i + i] = Cell(file[j].p, i)
       /\ ~Begins(file[j].p) =>
            \E m \in 1..(j - 1) : file[m] = Cell(file[j].p - 1, Span(file[j].p - 1))
       /\ file[j].i = 1 /\ Begins(file[j].p) => records[phys[file[j].p].rec].offset = j - 1
  /\ \A j, k \in 1..Len(file) : j < k /\ file[j].p > 0 /\ file[k].p > 0 =>
       \/ file[j].p < file[k].p
       \/ file[j].p = file[k].p /\ k - j = file[k].i - file[j].i

\* Without failures: every physical record is in one block and is followed by
\* the next one, with nothing but the trailer of a block between them.
AlignInv ==
  failures = 0 =>
    /\ \A j \in 1..Len(file) : file[j].p = 0 =>
         \E base \in 0..(j - 1) :
           /\ base % BlockSize = 0
           /\ base + BlockSize - HeaderSize < j - 1 /\ j <= base + BlockSize
           /\ \A k \in j..(base + BlockSize) : k <= Len(file) => file[k].p = 0
    /\ \A j \in 1..Len(file) : file[j].p > 0 =>
         /\ OneBlock(j - file[j].i, j - file[j].i + Span(file[j].p))
         /\ file[j].p > 1 => \E m \in 1..(j - 1) : file[m] = Cell(file[j].p - 1, Span(file[j].p - 1))
         /\ file[j].i = 1 => \A i \in 1..Span(file[j].p) :
                               j + i - 1 <= Len(file) => file[j + i - 1] = Cell(file[j].p, i)
    /\ \A p \in 1..Len(phys) : Begins(p) /\ p > 1 => Ends(p - 1)

\* Without failures the writer is where it thinks it is.
PlaceInv ==
  failures = 0 /\ phase = "write" =>
    /\ \E base \in 0..Len(file) : base % BlockSize = 0 /\ Len(file) = base + block_offset_
    /\ phys = <<>> => file = <<>>
    /\ phys # <<>> => /\ Len(file) > 0 /\ file[Len(file)] = Cell(Len(phys), Span(Len(phys)))
                      /\ adding = None \/ adding.begin => Ends(Len(phys))

\* Without failures an acknowledged record is in the file from its first to its
\* last fragment, on the disk if it was synced.
AckInv ==
  /\ phase = "write" => synced <= Len(file)
  /\ failures = 0 =>
       \A r \in Acknowledged :
         /\ Started(r)
         /\ \E m \in 1..Len(file) :
              /\ IsLast(m) /\ Ends(file[m].p) /\ phys[file[m].p].rec = r
              /\ phase = "write" /\ records[r].status = "synced" => m <= synced

-------------------------------------------------------------------------------
(* The reader rd, what it has delivered, dl, and its reports, rp. *)

Place(rd) == rd.pos - Len(rd.buffer)

Readers ==
  [pos : Nat, buffer : Seq(FileCells), eof : BOOLEAN, end_of_buffer : Nat,
   initial : Nat, last_record : Nat, resyncing : BOOLEAN, in_fragmented : BOOLEAN,
   scratch : Seq(Nat \X Nat), prospective : Nat, started : BOOLEAN, done : BOOLEAN]

TypesOf(rd, dl, rp) ==
  rd \in Readers /\ dl \in Seq([rec : Nat, data : Seq(Nat \X Nat)]) /\ rp \in Nat

BufferOf(rd) ==
  /\ Len(rd.buffer) <= rd.pos /\ rd.end_of_buffer = rd.pos
  /\ \A j \in 1..Len(rd.buffer) : Place(rd) + j <= Len(file) /\ rd.buffer[j] = file[Place(rd) + j]
  /\ ~rd.started => /\ rd.pos = 0 /\ rd.buffer = <<>> /\ rd.last_record = 0
                    /\ ~rd.in_fragmented /\ ~rd.done /\ ~rd.eof
  /\ rd.resyncing => ~rd.in_fragmented

\* A record being assembled: scratch_ has its bytes up to the end of the last
\* fragment read, m, and less than a header was skipped since.
AssemblyAt(rd, m) ==
  LET q == file[m].p
      r == phys[q].rec
  IN  /\ IsLast(m) /\ ~Ends(q)
      /\ rd.scratch = Bytes(r, phys[q].first + phys[q].length)
      /\ m <= Place(rd) /\ Place(rd) < m + HeaderSize
      /\ Place(rd) = m \/ rd.eof \/ Len(rd.buffer) >= HeaderSize
      /\ Started(r) /\ records[r].offset = rd.prospective
      /\ rd.initial <= rd.prospective /\ rd.prospective <= Place(rd)
      /\ failures = 0 => \A k \in (m + 1)..Place(rd) : file[k].p = 0
AssemblyOf(rd) ==
  rd.in_fragmented /\ ~rd.done => \E m \in 1..Len(file) : AssemblyAt(rd, m)

\* What was delivered is whole, in order, ends before the reader's place and
\* starts at or after the initial offset.
GenuineOf(dl) ==
  /\ \A d \in 1..Len(dl) : dl[d].data = Whole(dl[d].rec)
  /\ \A d, e \in 1..Len(dl) : d < e => dl[d].rec < dl[e].rec
DeliveredOf(rd, dl) ==
  \A d \in 1..Len(dl) :
    /\ \E m \in 1..Len(file) : /\ m <= Place(rd) /\ IsLast(m) /\ Ends(file[m].p)
                               /\ phys[file[m].p].rec = dl[d].rec
    /\ records[dl[d].rec].offset >= rd.initial

\* Without failures the reader is in step with the blocks of the writer.
StepOf(rd) ==
  failures = 0 =>
    /\ ~rd.eof => rd.pos % BlockSize = 0
    /\ rd.eof => rd.pos >= Len(file)
    /\ Len(rd.buffer) > 0 => /\ OneBlock(Place(rd), rd.pos)
                             /\ file[Place(rd) + 1].p > 0 => file[Place(rd) + 1].i = 1

\* Without failures a reader from the start meets the fragments of a record in turn.
SilentOf(rd, rp) ==
  failures = 0 /\ rd.initial = 0 =>
    /\ rp = 0 /\ ~rd.resyncing
    /\ ~rd.in_fragmented /\ ~rd.done =>
         \A k \in 1..Len(file) : k > Place(rd) /\ file[k].p > 0 /\ ~Begins(file[k].p) =>
           \E m \in (Place(rd) + 1)..(k - 1) : file[m] = Cell(file[k].p - 1, Span(file[k].p - 1))

\* Without failures an acknowledged record was delivered, is being assembled or
\* is still ahead.
ProgressOf(rd, dl) ==
  failures = 0 =>
    \A r \in Acknowledged :
      \/ records[r].offset < rd.initial
      \/ \E d \in 1..Len(dl) : dl[d].rec = r
      \/ /\ ~rd.done
         /\ \/ records[r].offset >= Place(rd)
            \/ rd.in_fragmented /\ records[r].offset = rd.prospective

Holds(rd, dl, rp) ==
  /\ TypesOf(rd, dl, rp) /\ BufferOf(rd) /\ AssemblyOf(rd) /\ GenuineOf(dl) /\ DeliveredOf(rd, dl)
  /\ StepOf(rd) /\ SilentOf(rd, rp) /\ ProgressOf(rd, dl)

WaitInv == phase = "write" => reader = NewReader(0) /\ delivered = <<>> /\ reports = 0
ReaderInv == phase = "read" => Holds(reader, delivered, reports)

WriterInv == WriterTypes /\ HistoryInv /\ AddingInv /\ FileInv /\ AlignInv /\ PlaceInv /\ AckInv
LogInv == WriterInv /\ WaitInv /\ ReaderInv

-------------------------------------------------------------------------------
(* Numbers. *)

LEMMA Sizing == HeaderSize \in Nat /\ HeaderSize > 1 /\ BlockSize \in Nat /\ BlockSize > HeaderSize
  BY LogFormatAssumption

\* The multiples of BlockSize are the boundaries.
LEMMA Multiple == ASSUME NEW d \in Nat PROVE (BlockSize * d) \in Nat /\ (BlockSize * d) % BlockSize = 0
<1> DEFINE m == BlockSize * d
           e == m \div BlockSize
           r == m % BlockSize
<1>1. m \in Nat
  BY Sizing
<1> HIDE DEF m
<1>2. e \in Int /\ r \in 0..(BlockSize - 1) /\ m = BlockSize * e + r
  BY <1>1, Sizing
<1> HIDE DEF e, r
<1>3. BlockSize * (d - e) = r
  BY <1>2, Sizing DEF m
<1>4. d - e >= 1 => BlockSize * (d - e) >= BlockSize
  BY <1>2, Sizing
<1>5. d - e <= -1 => BlockSize * (d - e) < 0
  BY <1>2, Sizing
<1>6. d - e = 0
  BY <1>2, <1>3, <1>4, <1>5, Sizing
<1>7. r = 0
  BY <1>2, <1>3, <1>6, Sizing
<1> QED  BY <1>1, <1>7 DEF m, r

\* The block boundary at or before an offset.
LEMMA Floor ==
  ASSUME NEW n \in Nat
  PROVE  /\ n % BlockSize \in Nat /\ n % BlockSize < BlockSize /\ n % BlockSize <= n
         /\ (n - (n % BlockSize)) % BlockSize = 0
<1> DEFINE d == n \div BlockSize
<1>1. d \in Nat /\ n % BlockSize \in Nat /\ n % BlockSize < BlockSize /\ n = BlockSize * d + (n % BlockSize)
  BY Sizing
<1>2. n - (n % BlockSize) = BlockSize * d /\ BlockSize * d \in Nat
  BY <1>1, Sizing
<1>3. (BlockSize * d) % BlockSize = 0
  BY <1>1, Multiple
<1> QED  BY <1>1, <1>2, <1>3

\* The boundaries are BlockSize apart.
LEMMA Boundaries ==
  ASSUME NEW a \in Nat, a % BlockSize = 0
  PROVE  /\ (a + BlockSize) % BlockSize = 0
         /\ \A b \in Nat : b % BlockSize = 0 /\ a < b => a + BlockSize <= b
<1> DEFINE d == a \div BlockSize
<1>1. d \in Nat /\ a = BlockSize * d
  BY Sizing
<1>2. (a + BlockSize) % BlockSize = 0
  <2>1. a + BlockSize = BlockSize * (d + 1)
    BY <1>1, Sizing
  <2> QED  BY <1>1, <2>1, Multiple
<1>3. ASSUME NEW b \in Nat, b % BlockSize = 0, a < b PROVE a + BlockSize <= b
  <2> DEFINE e == b \div BlockSize
  <2>1. e \in Nat /\ b = BlockSize * e
    BY <1>3, Sizing
  <2>2. d < e
    BY <1>1, <1>3, <2>1, Sizing
  <2>3. BlockSize * (d + 1) <= BlockSize * e
    BY <1>1, <2>1, <2>2, Sizing
  <2> QED  BY <1>1, <2>1, <2>3, Sizing
<1> QED  BY <1>2, <1>3

-------------------------------------------------------------------------------
(* Sequences and types. *)

LEMMA Concat ==
  ASSUME NEW S, NEW s \in Seq(S), NEW t \in Seq(S)
  PROVE  /\ s \o t \in Seq(S) /\ Len(s \o t) = Len(s) + Len(t)
         /\ \A j \in 1..Len(s) : (s \o t)[j] = s[j]
         /\ \A j \in 1..(Len(s) + Len(t)) : j > Len(s) => (s \o t)[j] = t[j - Len(s)]
  OBVIOUS

LEMMA Prefix ==
  ASSUME NEW S, NEW s \in Seq(S), NEW n \in 0..Len(s)
  PROVE  /\ SubSeq(s, 1, n) \in Seq(S) /\ Len(SubSeq(s, 1, n)) = n
         /\ \A j \in 1..n : SubSeq(s, 1, n)[j] = s[j]
  OBVIOUS

LEMMA Appended ==
  ASSUME NEW S, NEW s \in Seq(S), NEW x \in S
  PROVE  /\ Append(s, x) \in Seq(S) /\ Len(Append(s, x)) = Len(s) + 1 /\ Len(s) \in Nat
         /\ \A j \in 1..Len(s) : Append(s, x)[j] = s[j]
         /\ Append(s, x)[Len(s) + 1] = x
  OBVIOUS

LEMMA FunctionSeq ==
  ASSUME NEW S, NEW n \in Nat, NEW f \in [1..n -> S]
  PROVE  f \in Seq(S) /\ Len(f) = n
  OBVIOUS

\* The types of the parts.
LEMMA WriterFacts ==
  ASSUME WriterTypes
  PROVE  /\ Len(file) \in Nat /\ Len(phys) \in Nat /\ Len(records) \in Nat
         /\ \A j \in 1..Len(file) : file[j].p \in Nat /\ file[j].i \in Nat /\ file[j] = Cell(file[j].p, file[j].i)
         /\ \A p \in 1..Len(phys) : phys[p].length \in Nat /\ phys[p].rec \in Nat /\ phys[p].first \in Nat
                                    /\ Span(p) \in Nat /\ Span(p) >= HeaderSize /\ Span(p) > 0
         /\ \A r \in 1..Len(records) : records[r].size \in Nat /\ records[r].offset \in Int
         /\ block_offset_ \in Nat /\ block_offset_ <= BlockSize /\ failures \in Nat
         /\ adding.begin \in BOOLEAN /\ (adding # None => adding.left \in Nat)
<1>1. /\ file \in Seq(FileCells) /\ phys \in Seq(Phys) /\ records \in Seq(Records)
      /\ block_offset_ \in Nat /\ block_offset_ <= BlockSize /\ failures \in Nat
      /\ adding.begin \in BOOLEAN /\ (adding # None => adding.left \in Nat)
  BY Sizing DEF WriterTypes
<1>2. \A j \in 1..Len(file) : file[j].p \in Nat /\ file[j].i \in Nat /\ file[j] = Cell(file[j].p, file[j].i)
  <2>1. \A j \in 1..Len(file) : file[j] \in FileCells
    BY <1>1
  <2> QED  BY <2>1 DEF FileCells, Cell
<1>3. \A p \in 1..Len(phys) : phys[p].length \in Nat /\ phys[p].rec \in Nat /\ phys[p].first \in Nat
  <2>1. \A p \in 1..Len(phys) : phys[p] \in Phys
    BY <1>1
  <2> QED  BY <2>1 DEF Phys
<1>4. \A r \in 1..Len(records) : records[r].size \in Nat /\ records[r].offset \in Int
  <2>1. \A r \in 1..Len(records) : records[r] \in Records
    BY <1>1
  <2> QED  BY <2>1 DEF Records
<1>5. \A p \in 1..Len(phys) : Span(p) \in Nat /\ Span(p) >= HeaderSize /\ Span(p) > 0
  BY <1>3, Sizing DEF Span
<1>6. Len(file) \in Nat /\ Len(phys) \in Nat /\ Len(records) \in Nat
  BY <1>1
<1> QED  BY <1>1, <1>2, <1>3, <1>4, <1>5, <1>6

-------------------------------------------------------------------------------
(* The writer.  Flushed, FlushFails and ProcessStops emit the first n cells *)
(* of the next fragment, behind a trailer of Skip cells.                     *)

Skip == IF SwitchBlock THEN Leftover ELSE 0
New == Len(phys) + 1

\* The fragment that EmitPhysicalRecord forms.
LEMMA FragmentFacts ==
  ASSUME WriterTypes, AddingInv, adding # None
  PROVE  LET r == Len(records)
         IN  /\ Fragment \in Phys
             /\ Fragment.rec = r /\ r \in 1..Len(records)
             /\ Fragment.length = FragmentLength /\ FragmentLength \in Nat
             /\ Fragment.first = records[r].size - adding.left
             /\ Fragment.first + FragmentLength <= records[r].size
             /\ Fragment.type \in {"full", "last"} <=> adding.left = FragmentLength
             /\ Fragment.type \in {"full", "first"} <=> adding.begin
             /\ adding.left \in Nat /\ adding.left >= FragmentLength
             /\ records[r].size \in Nat
             /\ Skip \in Nat /\ Skip < HeaderSize /\ StartOffset \in Nat
             /\ NextOffset = StartOffset + HeaderSize + FragmentLength /\ NextOffset <= BlockSize
<1> DEFINE r == Len(records)
<1>1. /\ block_offset_ \in Nat /\ block_offset_ <= BlockSize /\ adding.left \in Nat
      /\ adding.begin \in BOOLEAN /\ r \in Nat
  BY WriterFacts
<1>2. r \in 1..Len(records) /\ adding.left <= records[r].size
  BY <1>1 DEF AddingInv
<1>4. records[r].size \in Nat
  BY <1>2, WriterFacts
<1>5. Leftover \in Nat /\ Leftover <= BlockSize /\ StartOffset \in Nat /\ StartOffset + HeaderSize <= BlockSize
  BY <1>1, Sizing DEF Leftover, StartOffset, SwitchBlock
<1>6. Skip \in Nat /\ Skip < HeaderSize
  BY <1>5, Sizing DEF Skip, SwitchBlock
<1>7. FragmentLength \in Nat /\ FragmentLength <= adding.left /\ StartOffset + HeaderSize + FragmentLength <= BlockSize
  BY <1>1, <1>5, Sizing DEF FragmentLength, Least
<1>8. /\ RecordType \in Types
      /\ RecordType \in {"full", "last"} <=> adding.left = FragmentLength
      /\ RecordType \in {"full", "first"} <=> adding.begin
  BY <1>1 DEF RecordType, Types
<1>9. records[r].size - adding.left \in Nat /\ (records[r].size - adding.left) + FragmentLength <= records[r].size
  BY <1>1, <1>2, <1>4, <1>7
<1> HIDE DEF r
<1>10. /\ Fragment.type = RecordType /\ Fragment.length = FragmentLength /\ Fragment.rec = r
       /\ Fragment.first = records[r].size - adding.left
       /\ Fragment = [type |-> Fragment.type, length |-> Fragment.length, rec |-> Fragment.rec, first |-> Fragment.first]
  BY DEF Fragment, r
<1>11. r \in Nat
  BY <1>1
<1>12. Fragment \in Phys
  BY <1>7, <1>8, <1>9, <1>10, <1>11 DEF Phys
<1> QED
  BY <1>1, <1>2, <1>4, <1>5, <1>6, <1>7, <1>8, <1>9, <1>10, <1>12 DEF NextOffset, r

\* Its cells: a trailer, then the cells of the physical record.
LEMMA ToWriteCells ==
  ASSUME WriterTypes, AddingInv, adding # None
  PROVE  /\ Len(Trailer) = Skip
         /\ ToWrite \in Seq(FileCells) /\ Len(ToWrite) = Skip + HeaderSize + FragmentLength
         /\ \A j \in 1..Len(ToWrite) : ToWrite[j] = IF j <= Skip THEN Zero ELSE Cell(New, j - Skip)
<1>1. Skip \in Nat /\ FragmentLength \in Nat /\ HeaderSize \in Nat /\ New \in Nat
  BY FragmentFacts, WriterFacts, Sizing DEF New
<1>2. Trailer \in [1..Skip -> FileCells] /\ \A j \in 1..Skip : Trailer[j] = Zero
  <2>1. Zero \in FileCells
    BY DEF Zero, FileCells
  <2>2. CASE SwitchBlock
    BY <2>1, <2>2 DEF Trailer, Skip
  <2>3. CASE ~SwitchBlock
    BY <2>1, <2>3 DEF Trailer, Skip
  <2> QED  BY <2>2, <2>3
<1>3. Trailer \in Seq(FileCells) /\ Len(Trailer) = Skip
  BY <1>1, <1>2, FunctionSeq
<1> DEFINE c == Cells(New, FragmentLength)
<1>4. c \in [1..(HeaderSize + FragmentLength) -> FileCells] /\ \A j \in 1..(HeaderSize + FragmentLength) : c[j] = Cell(New, j)
  BY <1>1 DEF Cells, Cell, FileCells
<1>5. c \in Seq(FileCells) /\ Len(c) = HeaderSize + FragmentLength
  BY <1>1, <1>4, FunctionSeq
<1>6. ToWrite = Trailer \o c
  BY DEF ToWrite, New
<1> HIDE DEF c
<1>7. /\ ToWrite \in Seq(FileCells) /\ Len(ToWrite) = Skip + (HeaderSize + FragmentLength)
      /\ \A j \in 1..Skip : ToWrite[j] = Trailer[j]
      /\ \A j \in 1..(Skip + (HeaderSize + FragmentLength)) : j > Skip => ToWrite[j] = c[j - Skip]
  <2>1. /\ Trailer \o c \in Seq(FileCells) /\ Len(Trailer \o c) = Len(Trailer) + Len(c)
        /\ \A j \in 1..Len(Trailer) : (Trailer \o c)[j] = Trailer[j]
        /\ \A j \in 1..(Len(Trailer) + Len(c)) : j > Len(Trailer) => (Trailer \o c)[j] = c[j - Len(Trailer)]
    BY <1>3, <1>5, Concat, Zenon
  <2> QED  BY <1>3, <1>5, <1>6, <2>1
<1>8. ASSUME NEW j \in 1..Len(ToWrite) PROVE ToWrite[j] = IF j <= Skip THEN Zero ELSE Cell(New, j - Skip)
  <2>1. CASE j <= Skip
    BY <1>1, <1>2, <1>7, <2>1
  <2>2. CASE ~(j <= Skip)
    <3>1. j - Skip \in 1..(HeaderSize + FragmentLength) /\ j > Skip
      BY <1>1, <1>7, <2>2
    <3> QED  BY <1>4, <1>7, <2>2, <3>1
  <2> QED  BY <2>1, <2>2
<1> QED
  BY <1>1, <1>3, <1>7, <1>8

\* The file after the first n of them.
LEMMA EmittedCells ==
  ASSUME WriterTypes, AddingInv, adding # None,
         NEW n \in 0..Len(ToWrite), file' = file \o SubSeq(ToWrite, 1, n)
  PROVE  /\ file' \in Seq(FileCells) /\ Len(file') = Len(file) + n
         /\ \A j \in 1..Len(file) : file'[j] = file[j]
         /\ \A j \in 1..Len(file') : j > Len(file) /\ j <= Len(file) + Skip => file'[j] = Zero
         /\ \A j \in 1..Len(file') : j > Len(file) + Skip =>
              file'[j] = Cell(New, j - (Len(file) + Skip)) /\ j - (Len(file) + Skip) \in 1..(HeaderSize + FragmentLength)
<1>1. /\ file \in Seq(FileCells) /\ Len(file) \in Nat /\ ToWrite \in Seq(FileCells) /\ Len(ToWrite) \in Nat
      /\ Skip \in Nat /\ FragmentLength \in Nat /\ n \in Nat /\ n <= Len(ToWrite)
      /\ Len(ToWrite) = Skip + HeaderSize + FragmentLength
  BY FragmentFacts, ToWriteCells, WriterFacts DEF WriterTypes
<1> DEFINE t == SubSeq(ToWrite, 1, n)
<1>2. t \in Seq(FileCells) /\ Len(t) = n /\ \A j \in 1..n : t[j] = ToWrite[j]
  BY <1>1, Prefix
<1> HIDE DEF t
<1>3. /\ file' \in Seq(FileCells) /\ Len(file') = Len(file) + n
      /\ \A j \in 1..Len(file) : file'[j] = file[j]
      /\ \A j \in 1..(Len(file) + n) : j > Len(file) => file'[j] = t[j - Len(file)]
  <2>1. file' = file \o t
    BY DEF t
  <2>2. /\ file \o t \in Seq(FileCells) /\ Len(file \o t) = Len(file) + Len(t)
        /\ \A j \in 1..Len(file) : (file \o t)[j] = file[j]
        /\ \A j \in 1..(Len(file) + Len(t)) : j > Len(file) => (file \o t)[j] = t[j - Len(file)]
    <3>1. file \in Seq(FileCells) /\ t \in Seq(FileCells)
      BY <1>1, <1>2
    <3> QED  BY <3>1, Concat, Zenon
  <2> QED  BY <1>2, <2>1, <2>2
<1>4. ASSUME NEW j \in 1..Len(file'), j > Len(file)
      PROVE  j - Len(file) \in 1..Len(ToWrite) /\ file'[j] = ToWrite[j - Len(file)]
  <2>1. j - Len(file) \in 1..n /\ j - Len(file) \in 1..Len(ToWrite)
    BY <1>1, <1>3, <1>4
  <2> QED  BY <1>2, <1>3, <1>4, <2>1
<1>5. ASSUME NEW j \in 1..Len(file'), j > Len(file), j <= Len(file) + Skip
      PROVE  file'[j] = Zero
  <2>1. j - Len(file) <= Skip
    BY <1>1, <1>3, <1>5
  <2> QED  BY <1>4, <1>5, <2>1, ToWriteCells
<1>6. ASSUME NEW j \in 1..Len(file'), j > Len(file) + Skip
      PROVE  file'[j] = Cell(New, j - (Len(file) + Skip)) /\ j - (Len(file) + Skip) \in 1..(HeaderSize + FragmentLength)
  <2>1. j > Len(file) /\ ~(j - Len(file) <= Skip) /\ (j - Len(file)) - Skip = j - (Len(file) + Skip)
    BY <1>1, <1>3, <1>6
  <2>2. j - (Len(file) + Skip) \in 1..(HeaderSize + FragmentLength)
    BY <1>1, <1>3, <1>6, Sizing
  <2>3. file'[j] = Cell(New, (j - Len(file)) - Skip)
    BY <1>4, <2>1, ToWriteCells
  <2> QED  BY <2>1, <2>2, <2>3
<1> QED
  BY <1>3, <1>5, <1>6

\* What the three actions do to the writer's variables.
Emits(n) ==
  /\ adding # None /\ n \in 0..Len(ToWrite)
  /\ file' = file \o SubSeq(ToWrite, 1, n)
  /\ phys' = Append(phys, Fragment)
  /\ records' \in Seq(Records) /\ Len(records') = Len(records)
  /\ \A r \in 1..Len(records) :
       /\ records'[r].size = records[r].size
       /\ records'[r].offset = IF adding.begin /\ r = Len(records) THEN Len(file) + Skip ELSE records[r].offset

LEMMA EmittedPhys ==
  ASSUME WriterTypes, AddingInv, NEW n, Emits(n), NEW new \in Nat, new = New
  PROVE  /\ phys' \in Seq(Phys) /\ Len(phys') = new /\ Len(phys) \in Nat /\ new = Len(phys) + 1
         /\ \A p \in 1..Len(phys) : /\ phys'[p] = phys[p] /\ Span(p)' = Span(p)
                                    /\ Begins(p)' <=> Begins(p)
                                    /\ Ends(p)' <=> Ends(p)
         /\ phys'[new] = Fragment /\ Span(new)' = HeaderSize + FragmentLength
         /\ Begins(new)' <=> adding.begin
         /\ Ends(new)' <=> adding.left = FragmentLength
         /\ phys'[new].rec = Len(records) /\ phys'[new].length = FragmentLength
         /\ phys'[new].first = records[Len(records)].size - adding.left
<1>1. phys \in Seq(Phys) /\ Fragment \in Phys /\ adding # None
  BY FragmentFacts DEF Emits, WriterTypes
<1>2. /\ phys' \in Seq(Phys) /\ Len(phys') = new /\ Len(phys) \in Nat /\ phys'[new] = Fragment
      /\ \A p \in 1..Len(phys) : phys'[p] = phys[p]
  <2>1. phys' = Append(phys, Fragment)
    BY DEF Emits
  <2> QED  BY <1>1, <2>1, Appended DEF New
<1>3. \A p \in 1..Len(phys) : Span(p)' = Span(p) /\ (Begins(p)' <=> Begins(p)) /\ (Ends(p)' <=> Ends(p))
  BY <1>2 DEF Span, Begins, Ends
<1>4. Span(new)' = HeaderSize + FragmentLength
  BY <1>1, <1>2, FragmentFacts DEF Span
<1>5. (Begins(new)' <=> adding.begin) /\ (Ends(new)' <=> adding.left = FragmentLength)
  BY <1>1, <1>2, FragmentFacts DEF Begins, Ends
<1> QED
  BY <1>1, <1>2, <1>3, <1>4, <1>5, FragmentFacts DEF New

LEMMA EmitHistory ==
  ASSUME WriterTypes, HistoryInv, AddingInv, NEW n, Emits(n)
  PROVE  HistoryInv'
<1> DEFINE r == Len(records)
<1>0. PICK new \in Nat : new = New
  BY WriterFacts DEF New
<1>1. /\ Len(phys') = new /\ Len(phys) \in Nat /\ new = Len(phys) + 1
      /\ \A p \in 1..Len(phys) : phys'[p] = phys[p] /\ (Begins(p)' <=> Begins(p)) /\ (Ends(p)' <=> Ends(p))
      /\ phys'[new] = Fragment /\ (Begins(new)' <=> adding.begin)
      /\ Ends(new)' <=> adding.left = FragmentLength
      /\ phys'[new].rec = r /\ phys'[new].length = FragmentLength
      /\ phys'[new].first = records[r].size - adding.left
  BY <1>0, EmittedPhys
<1>2. /\ r \in 1..Len(records) /\ FragmentLength \in Nat /\ adding.left \in Nat /\ adding.left >= FragmentLength
      /\ records[r].size \in Nat /\ adding.left <= records[r].size /\ adding # None
  BY FragmentFacts DEF Emits, AddingInv
<1>3. Len(records') = r /\ \A q \in 1..r : records'[q].size = records[q].size
  BY DEF Emits
<1>4. /\ \A p \in 1..Len(phys) : phys[p].rec = r => ~Ends(p)
      /\ adding.begin => adding.left = records[r].size
      /\ ~adding.begin => /\ Len(phys) > 0 /\ phys[Len(phys)].rec = r
                          /\ phys[Len(phys)].first + phys[Len(phys)].length = records[r].size - adding.left
  BY <1>2 DEF AddingInv
<1> HIDE DEF r
<1>5. ASSUME NEW p \in 1..Len(phys')
      PROVE  /\ phys'[p].rec \in 1..Len(records')
             /\ phys'[p].first + phys'[p].length <= records'[phys'[p].rec].size
             /\ Ends(p)' <=> phys'[p].first + phys'[p].length = records'[phys'[p].rec].size
             /\ Begins(p)' => phys'[p].first = 0
             /\ ~Begins(p)' => /\ p > 1 /\ phys'[p - 1].rec = phys'[p].rec
                               /\ phys'[p].first = phys'[p - 1].first + phys'[p - 1].length
  <2>1. CASE p <= Len(phys)
    <3>1. p \in 1..Len(phys) /\ (p > 1 => p - 1 \in 1..Len(phys))
      BY <1>1, <2>1
    <3>2. /\ phys[p].rec \in 1..r
          /\ phys[p].first + phys[p].length <= records[phys[p].rec].size
          /\ Ends(p) <=> phys[p].first + phys[p].length = records[phys[p].rec].size
          /\ Begins(p) => phys[p].first = 0
          /\ ~Begins(p) => /\ p > 1 /\ phys[p - 1].rec = phys[p].rec
                           /\ phys[p].first = phys[p - 1].first + phys[p - 1].length
      BY <3>1 DEF HistoryInv, r
    <3> QED  BY <1>1, <1>3, <3>1, <3>2
  <2>2. CASE p = new
    <3>1. records'[r].size = records[r].size /\ r \in 1..r
      BY <1>2, <1>3 DEF r
    <3>2. ~adding.begin => Len(phys) \in 1..Len(phys) /\ Len(phys) = new - 1 /\ new > 1
      BY <1>1, <1>4
    <3> QED  BY <1>1, <1>2, <1>3, <1>4, <2>2, <3>1, <3>2, SMTT(60)
  <2> QED  BY <1>1, <2>1, <2>2
<1>6. ASSUME NEW p \in 1..Len(phys'), NEW q \in 1..Len(phys'), p < q
      PROVE  phys'[p].rec <= phys'[q].rec /\ (Ends(p)' => phys'[p].rec < phys'[q].rec)
  <2>1. p \in 1..Len(phys)
    BY <1>1, <1>6
  <2>2. CASE q <= Len(phys)
    <3>1. q \in 1..Len(phys)
      BY <1>1, <2>2
    <3>2. phys[p].rec <= phys[q].rec /\ (Ends(p) => phys[p].rec < phys[q].rec)
      BY <1>6, <2>1, <3>1 DEF HistoryInv
    <3> QED  BY <1>1, <2>1, <3>1, <3>2
  <2>3. CASE q = new
    <3>1. phys[p].rec \in 1..r
      BY <2>1 DEF HistoryInv, r
    <3> QED  BY <1>1, <1>2, <1>4, <2>1, <2>3, <3>1 DEF r
  <2> QED  BY <1>1, <2>2, <2>3
<1> QED  BY <1>5, <1>6 DEF HistoryInv

\* The three kinds of cells of the new file: old ones, the trailer, the fragment.
LEMMA EmittedFile ==
  ASSUME WriterTypes, AddingInv, NEW n, Emits(n), NEW new \in Nat, new = New, NEW off, off = Len(file) + Skip
  PROVE  /\ file' \in Seq(FileCells) /\ Len(file) \in Nat /\ Len(file') = Len(file) + n /\ n \in Nat
         /\ off \in Nat /\ off >= Len(file) /\ off < Len(file) + HeaderSize /\ n <= (off - Len(file)) + HeaderSize + FragmentLength
         /\ FragmentLength \in Nat
         /\ \A j \in 1..Len(file) : file'[j] = file[j]
         /\ \A j \in 1..Len(file') : j > Len(file) /\ j <= off => file'[j].p = 0
         /\ \A j \in 1..Len(file') : j > off =>
              /\ file'[j] = Cell(new, j - off) /\ file'[j].p = new /\ file'[j].i = j - off
              /\ j - off \in 1..(HeaderSize + FragmentLength)
<1>1. /\ adding # None /\ n \in 0..Len(ToWrite) /\ file' = file \o SubSeq(ToWrite, 1, n)
  BY DEF Emits
<1>2. /\ Skip \in Nat /\ Skip < HeaderSize /\ FragmentLength \in Nat /\ Len(file) \in Nat
      /\ Len(ToWrite) = Skip + HeaderSize + FragmentLength
  BY <1>1, FragmentFacts, ToWriteCells, WriterFacts
<1>3. /\ file' \in Seq(FileCells) /\ Len(file') = Len(file) + n
      /\ \A j \in 1..Len(file) : file'[j] = file[j]
      /\ \A j \in 1..Len(file') : j > Len(file) /\ j <= Len(file) + Skip => file'[j] = Zero
      /\ \A j \in 1..Len(file') : j > Len(file) + Skip =>
           file'[j] = Cell(New, j - (Len(file) + Skip)) /\ j - (Len(file) + Skip) \in 1..(HeaderSize + FragmentLength)
  BY <1>1, EmittedCells
<1>4. Zero.p = 0
  BY DEF Zero
<1>5. \A j \in 1..Len(file') : j > off => file'[j] = Cell(new, j - off) /\ j - off \in 1..(HeaderSize + FragmentLength)
  BY <1>3
<1>6. \A j : Cell(new, j).p = new /\ Cell(new, j).i = j
  BY DEF Cell
<1>7. /\ off \in Nat /\ off >= Len(file) /\ off < Len(file) + HeaderSize /\ n \in Nat
      /\ n <= (off - Len(file)) + HeaderSize + FragmentLength
  BY <1>1, <1>2, Sizing
<1> QED  BY <1>2, <1>3, <1>4, <1>5, <1>6, <1>7, SMTT(60)

LEMMA EmitFile ==
  ASSUME WriterTypes, HistoryInv, AddingInv, FileInv, NEW n, Emits(n)
  PROVE  FileInv'
<1> DEFINE r == Len(records)
<1>0. PICK new \in Nat : new = New
  BY WriterFacts DEF New
<1>1. PICK off : off = Len(file) + Skip
  OBVIOUS
<1>2. /\ Len(file) \in Nat /\ Len(file') = Len(file) + n /\ n \in Nat
      /\ off \in Nat /\ off >= Len(file)
      /\ FragmentLength \in Nat
      /\ \A j \in 1..Len(file) : file'[j] = file[j]
      /\ \A j \in 1..Len(file') : j > Len(file) /\ j <= off => file'[j].p = 0
      /\ \A j \in 1..Len(file') : j > off =>
           /\ file'[j] = Cell(new, j - off) /\ file'[j].p = new /\ file'[j].i = j - off
           /\ j - off \in 1..(HeaderSize + FragmentLength)
  BY <1>0, <1>1, EmittedFile
<1>3. /\ Len(phys') = new /\ Len(phys) \in Nat /\ new = Len(phys) + 1
      /\ \A p \in 1..Len(phys) : phys'[p] = phys[p] /\ Span(p)' = Span(p) /\ (Begins(p)' <=> Begins(p))
      /\ Span(new)' = HeaderSize + FragmentLength /\ (Begins(new)' <=> adding.begin) /\ phys'[new].rec = r
  BY <1>0, EmittedPhys
<1>4. /\ r \in 1..Len(records)
      /\ \A q \in 1..r : records'[q].offset = IF adding.begin /\ q = r THEN off ELSE records[q].offset
  BY <1>1, FragmentFacts DEF Emits
<1>5. /\ adding.begin => \A p \in 1..Len(phys) : phys[p].rec < r
      /\ ~adding.begin => Len(file) > 0 /\ Len(phys) > 0 /\ file[Len(file)] = Cell(Len(phys), Span(Len(phys)))
  BY DEF AddingInv, Emits
<1>6. \A p \in 1..Len(phys) : phys[p].rec \in 1..r
  BY DEF HistoryInv
<1>7. \A j \in 1..Len(file) : file[j].p \in Nat /\ file[j].i \in Nat
  BY WriterFacts
<1> HIDE DEF r
<1>8. ASSUME NEW j \in 1..Len(file'), file'[j].p > 0
      PROVE  /\ file'[j].p <= Len(phys') /\ file'[j].i \in 1..Span(file[j].p)' /\ file'[j].i <= j
             /\ \A i \in 1..file'[j].i : file'[j - file'[j].i + i] = Cell(file[j].p, i)'
             /\ ~Begins(file[j].p)' =>
                  \E m \in 1..(j - 1) : file'[m] = Cell(file[j].p - 1, Span(file[j].p - 1))'
             /\ file'[j].i = 1 /\ Begins(file[j].p)' => records'[phys'[file'[j].p].rec].offset = j - 1
  <2>1. CASE j <= Len(file)
    <3> DEFINE p == file[j].p
    <3>1. j \in 1..Len(file) /\ file'[j] = file[j] /\ p \in Nat /\ p > 0 /\ file[j].i \in Nat
      BY <1>2, <1>7, <1>8, <2>1
    <3>2. /\ p <= Len(phys) /\ file[j].i \in 1..Span(p) /\ file[j].i <= j
          /\ \A i \in 1..file[j].i : file[j - file[j].i + i] = Cell(p, i)
          /\ ~Begins(p) => \E m \in 1..(j - 1) : file[m] = Cell(p - 1, Span(p - 1))
          /\ file[j].i = 1 /\ Begins(p) => records[phys[p].rec].offset = j - 1
      BY <3>1 DEF FileInv
    <3>3. p \in 1..Len(phys) /\ Span(file[j].p)' = Span(p) /\ (Begins(file[j].p)' <=> Begins(p)) /\ phys'[p] = phys[p]
      BY <1>3, <3>1, <3>2, SMTT(60) DEF Span, Begins
    <3>4. \A i \in 1..file[j].i : j - file[j].i + i \in 1..Len(file)
      BY <1>2, <3>1, <3>2, SMTT(60)
    <3>5. \A i \in 1..file'[j].i : file'[j - file'[j].i + i] = Cell(file[j].p, i)'
      BY <1>2, <3>1, <3>2, <3>4 DEF Cell
    <3>6. ASSUME ~Begins(p)
          PROVE  \E m \in 1..(j - 1) : file'[m] = Cell(file[j].p - 1, Span(file[j].p - 1))'
      <4>1. p > 1
        BY <3>3, <3>6 DEF HistoryInv
      <4>2. p - 1 \in 1..Len(phys)
        BY <1>3, <3>3, <4>1
      <4>3. Span(p - 1)' = Span(p - 1)
        BY <1>3, <3>1, <4>2 DEF Span
      <4>4. PICK m \in 1..(j - 1) : file[m] = Cell(p - 1, Span(p - 1))
        BY <3>2, <3>6
      <4>5. m \in 1..Len(file) /\ file'[m] = file[m]
        BY <1>2, <3>1, <4>4
      <4>6. Cell(file[j].p - 1, Span(file[j].p - 1))' = Cell(p - 1, Span(p - 1))
        BY <3>1, <4>3 DEF Cell, Span
      <4> QED  BY <4>4, <4>5, <4>6
    <3>7. file[j].i = 1 /\ Begins(p) => records'[phys'[p].rec].offset = j - 1
      <4>1. phys[p].rec \in 1..r /\ ~(adding.begin /\ phys[p].rec = r) /\ phys'[p].rec = phys[p].rec
        BY <1>4, <1>5, <1>6, <3>3
      <4>2. records'[phys[p].rec].offset = records[phys[p].rec].offset
        BY <1>4, <4>1
      <4> QED  BY <3>2, <4>1, <4>2
    <3> QED  BY <1>3, <3>1, <3>2, <3>3, <3>5, <3>6, <3>7
  <2>2. CASE j > off
    <3>1. /\ file'[j] = Cell(new, j - off) /\ file'[j].p = new /\ file'[j].i = j - off
          /\ j - off \in 1..(HeaderSize + FragmentLength)
      BY <1>2, <2>2
    <3>2. Span(file[j].p)' = HeaderSize + FragmentLength /\ (Begins(file[j].p)' <=> adding.begin)
      BY <1>3, <3>1 DEF Span, Begins
    <3>3. file'[j].i \in 1..Span(file[j].p)' /\ file'[j].i <= j
      BY <1>2, <3>1, <3>2
    <3>4. ASSUME NEW i \in 1..file'[j].i PROVE file'[j - file'[j].i + i] = Cell(file[j].p, i)'
      <4>1. j - file'[j].i + i \in 1..Len(file') /\ j - file'[j].i + i > off /\ (j - file'[j].i + i) - off = i
        BY <1>2, <2>2, <3>1, <3>4
      <4>2. file'[j - file'[j].i + i] = Cell(new, i)
        BY <1>2, <4>1
      <4> QED  BY <3>1, <4>2 DEF Cell
    <3>5. ASSUME ~adding.begin
          PROVE  \E m \in 1..(j - 1) : file'[m] = Cell(file[j].p - 1, Span(file[j].p - 1))'
      <4>1. /\ Len(file) \in 1..(j - 1) /\ Len(file) \in 1..Len(file) /\ file'[Len(file)] = Cell(Len(phys), Span(Len(phys)))
            /\ Len(phys) \in 1..Len(phys)
        <5>1. Len(file) > 0 /\ Len(phys) > 0 /\ file[Len(file)] = Cell(Len(phys), Span(Len(phys)))
          BY <1>5, <3>5
        <5>2. Len(file) \in 1..(j - 1) /\ Len(file) \in 1..Len(file) /\ Len(phys) \in 1..Len(phys)
          BY <1>2, <1>3, <2>2, <5>1
        <5> QED  BY <1>2, <5>1, <5>2
      <4>2. Cell(file[j].p - 1, Span(file[j].p - 1))' = Cell(Len(phys), Span(Len(phys)))
        <5>1. file'[j].p - 1 = Len(phys)
          BY <1>3, <3>1
        <5>2. phys'[Len(phys)] = phys[Len(phys)]
          BY <1>3, <4>1
        <5> QED  BY <5>1, <5>2 DEF Cell, Span
      <4> QED  BY <4>1, <4>2
    <3>6. file'[j].i = 1 /\ adding.begin => records'[phys'[file'[j].p].rec].offset = j - 1
      <4>1. phys'[file'[j].p].rec = r /\ r \in 1..r
        BY <1>3, <1>4, <3>1 DEF r
      <4>2. adding.begin => records'[r].offset = off
        BY <1>4, <4>1
      <4>3. file'[j].i = 1 => off = j - 1
        BY <1>2, <3>1
      <4> QED  BY <4>1, <4>2, <4>3
    <3>7. file'[j].p <= Len(phys')
      BY <1>3, <3>1
    <3> QED  BY <3>2, <3>3, <3>4, <3>5, <3>6, <3>7
  <2> QED  BY <1>2, <1>8, <2>1, <2>2
<1>9. ASSUME NEW j \in 1..Len(file'), NEW k \in 1..Len(file'), j < k, file'[j].p > 0, file'[k].p > 0
      PROVE  \/ file'[j].p < file'[k].p
             \/ file'[j].p = file'[k].p /\ k - j = file'[k].i - file'[j].i
  <2>1. CASE k <= Len(file)
    <3>1. j \in 1..Len(file) /\ k \in 1..Len(file) /\ file'[j] = file[j] /\ file'[k] = file[k]
      BY <1>2, <1>9, <2>1
    <3> QED  BY <1>9, <3>1, ZenonT(60) DEF FileInv
  <2>2. CASE j <= Len(file) /\ k > off
    <3>1. j \in 1..Len(file) /\ file'[j] = file[j]
      BY <1>2, <2>2
    <3>2. file[j].p <= Len(phys)
      BY <1>9, <3>1 DEF FileInv
    <3> QED  BY <1>2, <1>3, <1>7, <2>2, <3>1, <3>2, SMTT(60)
  <2>3. CASE j > off /\ k > off
    BY <1>2, <2>3
  <2> QED  BY <1>2, <1>9, <2>1, <2>2, <2>3
<1> QED  BY <1>8, <1>9 DEF FileInv

\* Without failures the fragment starts where the writer's block_offset_ says.
LEMMA EmitPlace ==
  ASSUME WriterTypes, AddingInv, adding # None, PlaceInv, failures = 0, phase = "write", NEW off, off = Len(file) + Skip
  PROVE  /\ \E base \in 0..off : base % BlockSize = 0 /\ off = base + StartOffset
         /\ Skip > 0 => \E base \in 0..Len(file) : /\ base % BlockSize = 0 /\ off = base + BlockSize
                                                   /\ base + BlockSize - HeaderSize < Len(file)
<1>1. PICK base \in 0..Len(file) : base % BlockSize = 0 /\ Len(file) = base + block_offset_
  BY DEF PlaceInv
<1>2. /\ Len(file) \in Nat /\ base \in Nat /\ block_offset_ \in Nat /\ block_offset_ <= BlockSize
      /\ Skip \in Nat /\ HeaderSize \in Nat /\ BlockSize \in Nat /\ BlockSize > HeaderSize /\ HeaderSize > 1
  BY <1>1, FragmentFacts, WriterFacts, Sizing
<1>3. CASE SwitchBlock
  <2>1. Skip = BlockSize - block_offset_ /\ Skip < HeaderSize /\ StartOffset = 0
    BY <1>3, FragmentFacts DEF Skip, Leftover, StartOffset
  <2>2. off = base + BlockSize /\ off \in Nat /\ base + BlockSize - HeaderSize < Len(file)
    BY <1>1, <1>2, <2>1
  <2>3. (base + BlockSize) % BlockSize = 0
    BY <1>1, <1>2, Boundaries
  <2>4. off % BlockSize = 0
    BY <2>2, <2>3
  <2>5. off \in 0..off /\ off = off + StartOffset
    BY <2>1, <2>2
  <2> QED  BY <1>1, <2>2, <2>4, <2>5
<1>4. CASE ~SwitchBlock
  <2>1. Skip = 0 /\ StartOffset = block_offset_
    BY <1>4 DEF Skip, StartOffset
  <2> QED  BY <1>1, <1>2, <2>1
<1> QED  BY <1>3, <1>4

LEMMA EmitAlign ==
  ASSUME WriterTypes, HistoryInv, AddingInv, FileInv, AlignInv, PlaceInv, phase = "write", failures = 0,
         NEW n, Emits(n)
  PROVE  AlignInv'
<1>0. PICK new \in Nat : new = New
  BY WriterFacts DEF New
<1>1. PICK off : off = Len(file) + Skip
  OBVIOUS
<1>2. /\ Len(file) \in Nat /\ Len(file') = Len(file) + n /\ n \in Nat
      /\ off \in Nat /\ off >= Len(file)
      /\ FragmentLength \in Nat /\ n <= (off - Len(file)) + HeaderSize + FragmentLength
      /\ \A j \in 1..Len(file) : file'[j] = file[j]
      /\ \A j \in 1..Len(file') : j > Len(file) /\ j <= off => file'[j].p = 0
      /\ \A j \in 1..Len(file') : j > off =>
           /\ file'[j] = Cell(new, j - off) /\ file'[j].p = new /\ file'[j].i = j - off
           /\ j - off \in 1..(HeaderSize + FragmentLength)
  BY <1>0, <1>1, EmittedFile, SMTT(60)
<1>3. /\ Len(phys') = new /\ Len(phys) \in Nat /\ new = Len(phys) + 1
      /\ \A p \in 1..Len(phys) : /\ phys'[p] = phys[p] /\ Span(p)' = Span(p)
                                 /\ (Begins(p)' <=> Begins(p)) /\ (Ends(p)' <=> Ends(p))
      /\ Span(new)' = HeaderSize + FragmentLength /\ (Begins(new)' <=> adding.begin)
  BY <1>0, EmittedPhys
<1>4. /\ phys = <<>> => file = <<>>
      /\ phys # <<>> => /\ Len(file) > 0 /\ file[Len(file)] = Cell(Len(phys), Span(Len(phys)))
                        /\ adding = None \/ adding.begin => Ends(Len(phys))
  BY DEF PlaceInv
<1>5. phys # <<>> <=> Len(phys) > 0
  BY DEF WriterTypes
<1>6. \A j \in 1..Len(file) : file[j].p \in Nat /\ file[j].i \in Nat
  BY WriterFacts
<1>7. adding # None
  BY DEF Emits
<1>8. \A p, i : Cell(p, i).p = p /\ Cell(p, i).i = i
  BY DEF Cell
<1>9. ASSUME NEW j \in 1..Len(file'), file'[j].p = 0
      PROVE  \E base \in 0..(j - 1) :
               /\ base % BlockSize = 0
               /\ base + BlockSize - HeaderSize < j - 1 /\ j <= base + BlockSize
               /\ \A k \in j..(base + BlockSize) : k <= Len(file') => file'[k].p = 0
  <2>1. CASE j <= Len(file)
    <3>1. j \in 1..Len(file) /\ file[j].p = 0
      BY <1>2, <1>9, <2>1
    <3>2. PICK base \in 0..(j - 1) :
               /\ base % BlockSize = 0
               /\ base + BlockSize - HeaderSize < j - 1 /\ j <= base + BlockSize
               /\ \A k \in j..(base + BlockSize) : k <= Len(file) => file[k].p = 0
      BY <3>1 DEF AlignInv
    <3>3. base + BlockSize < Len(file)
      <4>1. Len(file) > 0 /\ file[Len(file)] = Cell(Len(phys), Span(Len(phys))) /\ Len(phys) > 0
        BY <1>4, <1>5, <3>1
      <4>2. file[Len(file)].p # 0
        BY <1>3, <1>8, <4>1
      <4>3. Len(file) \notin j..(base + BlockSize)
        BY <1>2, <3>2, <4>2
      <4> QED  BY <1>2, <2>1, <4>3, Sizing
    <3>4. \A k \in j..(base + BlockSize) : k \in 1..Len(file) /\ file'[k] = file[k]
      BY <1>2, <3>1, <3>3, Sizing
    <3> QED  BY <1>2, <3>1, <3>2, <3>4, SMTT(60)
  <2>2. CASE j > Len(file)
    <3>1. j <= off
      BY <1>0, <1>2, <1>3, <1>9, SMTT(60)
    <3>2. Skip > 0
      <4>1. Skip \in Nat
        BY <1>7, FragmentFacts
      <4> QED  BY <1>1, <1>2, <2>2, <3>1, <4>1
    <3>3. PICK base \in 0..Len(file) : /\ base % BlockSize = 0 /\ off = base + BlockSize
                                       /\ base + BlockSize - HeaderSize < Len(file)
      BY <1>1, <1>7, <3>2, EmitPlace
    <3>4. base \in 0..(j - 1) /\ base + BlockSize - HeaderSize < j - 1 /\ j <= base + BlockSize
      BY <1>2, <2>2, <3>1, <3>3, Sizing
    <3>5. \A k \in j..(base + BlockSize) : k <= Len(file') => k \in 1..Len(file') /\ k > Len(file) /\ k <= off
      BY <1>2, <2>2, <3>3, Sizing, SMTT(60)
    <3> QED  BY <1>2, <3>3, <3>4, <3>5
  <2> QED  BY <1>2, <2>1, <2>2
<1>10. ASSUME NEW j \in 1..Len(file'), file'[j].p > 0
       PROVE  /\ OneBlock(j - file[j].i, j - file[j].i + Span(file[j].p))'
              /\ file'[j].p > 1 => \E m \in 1..(j - 1) : file'[m] = Cell(file[j].p - 1, Span(file[j].p - 1))'
              /\ file'[j].i = 1 => \A i \in 1..Span(file[j].p)' :
                                    j + i - 1 <= Len(file') => file'[j + i - 1] = Cell(file[j].p, i)'
  <2>1. CASE j <= Len(file)
    <3> DEFINE p == file[j].p
    <3>1. j \in 1..Len(file) /\ file'[j] = file[j] /\ p \in Nat /\ p > 0 /\ file[j].i \in Nat
      BY <1>2, <1>6, <1>10, <2>1
    <3>2. /\ OneBlock(j - file[j].i, j - file[j].i + Span(p))
          /\ p > 1 => \E m \in 1..(j - 1) : file[m] = Cell(p - 1, Span(p - 1))
          /\ file[j].i = 1 => \A i \in 1..Span(p) : j + i - 1 <= Len(file) => file[j + i - 1] = Cell(p, i)
      BY <3>1 DEF AlignInv
    <3>3. p <= Len(phys)
      BY <3>1 DEF FileInv
    <3>4. p \in 1..Len(phys) /\ Span(file[j].p)' = Span(p) /\ Span(p) \in Nat /\ Span(p) > 0
      BY <1>3, <3>1, <3>3, WriterFacts DEF Span
    <3>5. OneBlock(j - file[j].i, j - file[j].i + Span(file[j].p))'
      BY <3>1, <3>2, <3>4 DEF OneBlock
    <3>6. ASSUME p > 1 PROVE \E m \in 1..(j - 1) : file'[m] = Cell(file[j].p - 1, Span(file[j].p - 1))'
      <4>1. p - 1 \in 1..Len(phys)
        BY <1>3, <3>4, <3>6
      <4>2. Span(p - 1)' = Span(p - 1)
        BY <1>3, <3>1, <4>1 DEF Span
      <4>3. PICK m \in 1..(j - 1) : file[m] = Cell(p - 1, Span(p - 1))
        BY <3>2, <3>6
      <4>4. m \in 1..Len(file) /\ file'[m] = file[m]
        BY <1>2, <3>1, <4>3
      <4>5. Cell(file[j].p - 1, Span(file[j].p - 1))' = Cell(p - 1, Span(p - 1))
        BY <3>1, <4>2 DEF Cell, Span
      <4> QED  BY <4>3, <4>4, <4>5
    <3>7. ASSUME file[j].i = 1, NEW i \in 1..Span(p), j + i - 1 <= Len(file')
          PROVE  file'[j + i - 1] = Cell(p, i)
      <4>1. j + i - 1 <= Len(file)
        <5> SUFFICES ASSUME j + i - 1 > Len(file) PROVE FALSE
          BY <1>2, <3>1
        <5>0. PICK span : span = Span(p)
          OBVIOUS
        <5>1. Len(file) - j + 1 \in 1..Span(p) /\ j + (Len(file) - j + 1) - 1 = Len(file) /\ Len(file) - j + 1 < i
          <6>1. span \in Nat /\ i \in 1..span /\ j \in 1..Len(file) /\ Len(file) \in Nat /\ j + i - 1 > Len(file)
            BY <1>2, <3>1, <3>4, <3>7, <5>0
          <6>2. Len(file) - j + 1 \in 1..span /\ j + (Len(file) - j + 1) - 1 = Len(file) /\ Len(file) - j + 1 < i
            BY <6>1
          <6> QED  BY <5>0, <6>2
        <5>2. file[Len(file)] = Cell(p, Len(file) - j + 1)
          BY <1>2, <3>2, <3>7, <5>1, SMTT(60)
        <5>3. file[Len(file)] = Cell(Len(phys), Span(Len(phys)))
          BY <1>4, <1>5, <3>4
        <5>4. p = Len(phys) /\ Len(file) - j + 1 = Span(Len(phys))
          BY <1>8, <5>2, <5>3
        <5> QED  BY <3>4, <3>7, <5>1, <5>4
      <4>2. j + i - 1 \in 1..Len(file)
        BY <1>2, <3>1, <3>4, <4>1
      <4> QED  BY <1>2, <3>2, <3>7, <4>1, <4>2
    <3>8. file'[j].i = 1 => \A i \in 1..Span(file[j].p)' :
                               j + i - 1 <= Len(file') => file'[j + i - 1] = Cell(file[j].p, i)'
      BY <3>1, <3>4, <3>7 DEF Cell
    <3> QED  BY <3>1, <3>5, <3>6, <3>8
  <2>2. CASE j > off
    <3>1. /\ file'[j] = Cell(new, j - off) /\ file'[j].p = new /\ file'[j].i = j - off
          /\ j - off \in 1..(HeaderSize + FragmentLength)
      BY <1>2, <2>2
    <3>2. Span(file[j].p)' = HeaderSize + FragmentLength
      BY <1>3, <3>1 DEF Span
    <3>3. OneBlock(j - file[j].i, j - file[j].i + Span(file[j].p))'
      <4>1. PICK base \in 0..off : base % BlockSize = 0 /\ off = base + StartOffset
        BY <1>1, <1>7, EmitPlace
      <4>2. StartOffset \in Nat /\ StartOffset + HeaderSize + FragmentLength <= BlockSize
        BY <1>7, FragmentFacts
      <4>3. j - file'[j].i = off /\ off + (HeaderSize + FragmentLength) <= base + BlockSize
        BY <1>2, <3>1, <4>1, <4>2, Sizing
      <4>4. OneBlock(j - file[j].i, j - file[j].i + Span(file[j].p))'
            <=> \E b \in 0..off : b % BlockSize = 0 /\ off + (HeaderSize + FragmentLength) <= b + BlockSize
        BY <3>2, <4>3 DEF OneBlock
      <4> QED  BY <4>1, <4>3, <4>4
    <3>4. ASSUME new > 1 PROVE \E m \in 1..(j - 1) : file'[m] = Cell(file[j].p - 1, Span(file[j].p - 1))'
      <4>1. Len(file) > 0 /\ Len(phys) > 0 /\ file[Len(file)] = Cell(Len(phys), Span(Len(phys)))
        BY <1>3, <1>4, <1>5, <3>4
      <4>2. Len(file) \in 1..(j - 1) /\ Len(file) \in 1..Len(file) /\ Len(phys) \in 1..Len(phys)
        BY <1>2, <1>3, <2>2, <4>1
      <4>3. Cell(file[j].p - 1, Span(file[j].p - 1))' = Cell(Len(phys), Span(Len(phys)))
        <5>1. file'[j].p - 1 = Len(phys)
          BY <1>3, <3>1
        <5>2. phys'[Len(phys)] = phys[Len(phys)]
          BY <1>3, <4>2
        <5> QED  BY <5>1, <5>2 DEF Cell, Span
      <4> QED  BY <1>2, <4>1, <4>2, <4>3
    <3>5. ASSUME file'[j].i = 1, NEW i \in 1..(HeaderSize + FragmentLength), j + i - 1 <= Len(file')
          PROVE  file'[j + i - 1] = Cell(new, i)
      <4>1. j + i - 1 \in 1..Len(file') /\ j + i - 1 > off /\ (j + i - 1) - off = i
        BY <1>2, <2>2, <3>1, <3>5, Sizing
      <4> QED  BY <1>2, <4>1
    <3>6. file'[j].i = 1 => \A i \in 1..Span(file[j].p)' :
                               j + i - 1 <= Len(file') => file'[j + i - 1] = Cell(file[j].p, i)'
      BY <3>1, <3>2, <3>5 DEF Cell
    <3> QED  BY <3>1, <3>3, <3>4, <3>6
  <2> QED  BY <1>2, <1>10, <2>1, <2>2
<1>11. ASSUME NEW p \in 1..Len(phys'), Begins(p)', p > 1 PROVE Ends(p - 1)'
  <2>1. p - 1 \in 1..Len(phys) /\ (Ends(p - 1)' <=> Ends(p - 1))
    BY <1>3, <1>11
  <2>2. CASE p <= Len(phys)
    <3>1. p \in 1..Len(phys) /\ Begins(p)
      BY <1>3, <1>11, <2>2
    <3> QED  BY <1>11, <2>1, <3>1 DEF AlignInv
  <2>3. CASE p = new
    <3>1. adding.begin /\ Len(phys) > 0 /\ p - 1 = Len(phys)
      BY <1>3, <1>11, <2>1, <2>3
    <3> QED  BY <1>4, <1>5, <2>1, <3>1
  <2> QED  BY <1>3, <2>2, <2>3
<1> QED  BY <1>9, <1>10, <1>11 DEF AlignInv

\* WithOffset records where the first fragment goes.
LEMMA OffsetOfRecord ==
  ASSUME WriterTypes, AddingInv, adding # None
  PROVE  LET w == WithOffset(records[Len(records)])
         IN  /\ w \in Records /\ w.size = records[Len(records)].size /\ w.status = records[Len(records)].status
             /\ w.offset = IF adding.begin THEN Len(file) + Skip ELSE records[Len(records)].offset
<1> DEFINE x == records[Len(records)]
<1>1. Len(records) \in 1..Len(records) /\ Skip \in Nat /\ Len(file) \in Nat /\ Len(Trailer) = Skip
  BY FragmentFacts, ToWriteCells, WriterFacts
<1>2. x \in Records
  BY <1>1 DEF WriterTypes
<1> HIDE DEF x
<1>3. WithOffset(x) = IF adding.begin THEN [x EXCEPT !.offset = Len(file) + Skip] ELSE x
  BY <1>1 DEF WithOffset
<1>4. Len(file) + Skip \in Int
  BY <1>1
<1>5. CASE adding.begin
  <2>1. WithOffset(x) = [x EXCEPT !.offset = Len(file) + Skip]
    BY <1>3, <1>5
  <2>2. [x EXCEPT !.offset = Len(file) + Skip] \in Records
    BY <1>2, <1>4 DEF Records
  <2>3. /\ [x EXCEPT !.offset = Len(file) + Skip].size = x.size
        /\ [x EXCEPT !.offset = Len(file) + Skip].status = x.status
        /\ [x EXCEPT !.offset = Len(file) + Skip].offset = Len(file) + Skip
    BY <1>2 DEF Records
  <2> QED  BY <1>5, <2>1, <2>2, <2>3 DEF x
<1>6. CASE ~adding.begin
  BY <1>2, <1>3, <1>6 DEF x
<1> QED  BY <1>5, <1>6

LEMMA StatusOfRecord ==
  ASSUME NEW w \in Records, NEW status \in {"pending", "ok", "synced", "failed", "lost"}
  PROVE  LET u == [w EXCEPT !.status = status]
         IN  u \in Records /\ u.size = w.size /\ u.offset = w.offset /\ u.status = status
  BY SMTT(60) DEF Records

LEMMA RecordReplaced ==
  ASSUME WriterTypes, AddingInv, adding # None, NEW u \in Records,
         records' = [records EXCEPT ![Len(records)] = u],
         u.size = records[Len(records)].size,
         u.offset = IF adding.begin THEN Len(file) + Skip ELSE records[Len(records)].offset
  PROVE  /\ records' \in Seq(Records) /\ Len(records') = Len(records) /\ records'[Len(records)] = u
         /\ \A r \in 1..Len(records) :
              /\ records'[r].size = records[r].size
              /\ records'[r].offset = IF adding.begin /\ r = Len(records) THEN Len(file) + Skip ELSE records[r].offset
              /\ r # Len(records) => records'[r] = records[r]
<1>1. Len(records) \in 1..Len(records) /\ records \in Seq(Records)
  BY FragmentFacts DEF WriterTypes
<1>2. /\ records' \in Seq(Records) /\ Len(records') = Len(records) /\ records'[Len(records)] = u
      /\ \A r \in 1..Len(records) : r # Len(records) => records'[r] = records[r]
  BY <1>1
<1>3. ASSUME NEW r \in 1..Len(records)
      PROVE  /\ records'[r].size = records[r].size
             /\ records'[r].offset = IF adding.begin /\ r = Len(records) THEN Len(file) + Skip ELSE records[r].offset
  <2>1. CASE r = Len(records)
    BY <1>2, <2>1
  <2>2. CASE r # Len(records)
    <3>1. records'[r] = records[r]
      BY <1>2, <2>2
    <3>2. (IF adding.begin /\ r = Len(records) THEN Len(file) + Skip ELSE records[r].offset) = records[r].offset
      BY <2>2
    <3> QED  BY <3>1, <3>2, SMTT(60)
  <2> QED  BY <2>1, <2>2, SMTT(60)
<1> QED  BY <1>2, <1>3

\* A successful flush emits the whole fragment.
LEMMA FlushedEmits ==
  ASSUME WriterTypes, AddingInv, Flushed
  PROVE  /\ Emits(Len(ToWrite))
         /\ \A r \in 1..Len(records) : r # Len(records) => records'[r] = records[r]
         /\ adding.left - FragmentLength > 0 => records'[Len(records)].status = records[Len(records)].status
<1>1. /\ adding # None /\ file' = file \o ToWrite /\ phys' = Append(phys, Fragment)
  BY DEF Flushed
<1>2. ToWrite \in Seq(FileCells) /\ Len(ToWrite) \in Nat
  BY <1>1, ToWriteCells
<1>3. SubSeq(ToWrite, 1, Len(ToWrite)) = ToWrite
  BY <1>2
<1> DEFINE w == WithOffset(records[Len(records)])
           u == IF adding.left - FragmentLength > 0 THEN w ELSE [w EXCEPT !.status = "ok"]
<1>4. /\ w \in Records /\ w.size = records[Len(records)].size /\ w.status = records[Len(records)].status
      /\ w.offset = IF adding.begin THEN Len(file) + Skip ELSE records[Len(records)].offset
  BY <1>1, OffsetOfRecord
<1>5. records' = [records EXCEPT ![Len(records)] = u]
  BY DEF Flushed
<1> HIDE DEF w
<1>6. u \in Records /\ u.size = w.size /\ u.offset = w.offset /\ (adding.left - FragmentLength > 0 => u.status = w.status)
  BY <1>4, StatusOfRecord
<1> HIDE DEF u
<1>7. /\ records' \in Seq(Records) /\ Len(records') = Len(records) /\ records'[Len(records)] = u
      /\ \A r \in 1..Len(records) :
           /\ records'[r].size = records[r].size
           /\ records'[r].offset = IF adding.begin /\ r = Len(records) THEN Len(file) + Skip ELSE records[r].offset
           /\ r # Len(records) => records'[r] = records[r]
  BY <1>1, <1>4, <1>5, <1>6, RecordReplaced
<1>8. Len(ToWrite) \in 0..Len(ToWrite) /\ file' = file \o SubSeq(ToWrite, 1, Len(ToWrite))
  BY <1>1, <1>2, <1>3
<1> QED  BY <1>1, <1>4, <1>6, <1>7, <1>8 DEF Emits

LEMMA FlushFailsEmits ==
  ASSUME WriterTypes, AddingInv, NEW n \in Nat, FlushFails(n)
  PROVE  Emits(n)
<1>1. /\ adding # None /\ n < Len(ToWrite) /\ file' = file \o SubSeq(ToWrite, 1, n) /\ phys' = Append(phys, Fragment)
  BY DEF FlushFails
<1>2. Len(ToWrite) \in Nat /\ n \in 0..Len(ToWrite)
  <2>1. Len(ToWrite) \in Nat
    BY <1>1, ToWriteCells
  <2> QED  BY <1>1, <2>1
<1> DEFINE w == WithOffset(records[Len(records)])
           u == [w EXCEPT !.status = "failed"]
<1>4. /\ w \in Records /\ w.size = records[Len(records)].size
      /\ w.offset = IF adding.begin THEN Len(file) + Skip ELSE records[Len(records)].offset
  BY <1>1, OffsetOfRecord
<1>5. records' = [records EXCEPT ![Len(records)] = u]
  BY DEF FlushFails
<1> HIDE DEF w
<1>6. u \in Records /\ u.size = w.size /\ u.offset = w.offset
  BY <1>4, StatusOfRecord
<1> HIDE DEF u
<1>7. /\ records' \in Seq(Records) /\ Len(records') = Len(records)
      /\ \A r \in 1..Len(records) :
           /\ records'[r].size = records[r].size
           /\ records'[r].offset = IF adding.begin /\ r = Len(records) THEN Len(file) + Skip ELSE records[r].offset
  BY <1>1, <1>4, <1>5, <1>6, RecordReplaced
<1> QED  BY <1>1, <1>2, <1>7 DEF Emits

LEMMA ProcessStopsEmits ==
  ASSUME WriterTypes, AddingInv, NEW torn \in Nat, torn > 0, NEW offset, ProcessStops(torn, offset)
  PROVE  Emits(torn) /\ \A r \in 1..Len(records) : records'[r].status = records[r].status
<1>1. /\ adding # None /\ torn <= Len(ToWrite) /\ file' = file \o SubSeq(ToWrite, 1, torn)
      /\ phys' = Append(phys, Fragment)
  BY DEF ProcessStops
<1>2. Len(ToWrite) \in Nat /\ torn \in 0..Len(ToWrite)
  <2>1. Len(ToWrite) \in Nat
    BY <1>1, ToWriteCells
  <2> QED  BY <1>1, <2>1
<1> DEFINE w == WithOffset(records[Len(records)])
<1>4. /\ w \in Records /\ w.size = records[Len(records)].size /\ w.status = records[Len(records)].status
      /\ w.offset = IF adding.begin THEN Len(file) + Skip ELSE records[Len(records)].offset
  BY <1>1, OffsetOfRecord
<1>5. records' = [records EXCEPT ![Len(records)] = w]
  BY DEF ProcessStops
<1> HIDE DEF w
<1>7. /\ records' \in Seq(Records) /\ Len(records') = Len(records) /\ records'[Len(records)] = w
      /\ \A r \in 1..Len(records) :
           /\ records'[r].size = records[r].size
           /\ records'[r].offset = IF adding.begin /\ r = Len(records) THEN Len(file) + Skip ELSE records[r].offset
           /\ r # Len(records) => records'[r] = records[r]
  BY <1>1, <1>4, <1>5, RecordReplaced
<1> QED  BY <1>1, <1>2, <1>4, <1>7 DEF Emits

\* What is in the file stays there when it grows.
LEMMA StartedKept ==
  ASSUME WriterTypes, FileInv, NEW r \in Nat, Started(r), records'[r].offset = records[r].offset,
         Len(file') \in Nat, Len(file') >= Len(file), \A j \in 1..Len(file) : file'[j] = file[j],
         \A p \in 1..Len(phys) : phys'[p] = phys[p]
  PROVE  Started(r)'
<1> DEFINE o == records[r].offset
           p == file[o + 1].p
<1>1. o \in 0..(Len(file) - 1) /\ p > 0 /\ file[o + 1].i = 1 /\ Begins(p) /\ phys[p].rec = r
  BY DEF Started
<1>2. Len(file) \in Nat /\ o + 1 \in 1..Len(file) /\ o \in 0..(Len(file') - 1)
  BY <1>1, WriterFacts, SMTT(60)
<1>3. p \in 1..Len(phys) /\ phys'[p] = phys[p] /\ file'[o + 1] = file[o + 1]
  <2>1. p \in Nat /\ p <= Len(phys) /\ Len(phys) \in Nat
    BY <1>1, <1>2, WriterFacts DEF FileInv
  <2> QED  BY <1>1, <1>2, <2>1, SMTT(60)
<1>4. records'[r].offset = o
  OBVIOUS
<1> HIDE DEF o
<1>5. file'[o + 1].p > 0 /\ file'[o + 1].i = 1 /\ phys'[file'[o + 1].p].type \in {"full", "first"} /\ phys'[file'[o + 1].p].rec = r
  BY <1>1, <1>3 DEF Begins
<1> QED  BY <1>2, <1>4, <1>5 DEF Started, Begins

LEMMA LastKept ==
  ASSUME WriterTypes, FileInv, NEW m \in 1..Len(file), IsLast(m),
         file'[m] = file[m], \A p \in 1..Len(phys) : phys'[p] = phys[p]
  PROVE  /\ IsLast(m)' /\ (Ends(file[m].p)' <=> Ends(file[m].p))
         /\ phys'[file'[m].p] = phys[file[m].p] /\ file[m].p \in 1..Len(phys)
<1>1. file[m].p \in 1..Len(phys)
  <2>1. file[m].p \in Nat /\ file[m].p > 0 /\ file[m].p <= Len(phys) /\ Len(phys) \in Nat
    BY WriterFacts DEF FileInv, IsLast
  <2> QED  BY <2>1
<1>2. phys'[file'[m].p] = phys[file[m].p]
  BY <1>1
<1> QED  BY <1>1, <1>2 DEF IsLast, Ends, Span

\* An acknowledged record stays whole when a fragment is emitted.
LEMMA EmitAcked ==
  ASSUME WriterTypes, AddingInv, FileInv, AckInv, failures = 0, phase = "write",
         NEW n, Emits(n), NEW r \in Acknowledged
  PROVE  /\ r # Len(records) /\ Started(r)'
         /\ \E m \in 1..Len(file') :
              /\ IsLast(m)' /\ Ends(file[m].p)' /\ phys'[file'[m].p].rec = r
              /\ records[r].status = "synced" => m <= synced
<1>1. /\ Started(r) /\ r \in 1..Len(records) /\ r \in Nat
      /\ \E m \in 1..Len(file) :
           /\ IsLast(m) /\ Ends(file[m].p) /\ phys[file[m].p].rec = r
           /\ records[r].status = "synced" => m <= synced
  <2>1. r \in 1..Len(records)
    BY DEF Acknowledged, WriterTypes
  <2> QED  BY <2>1 DEF AckInv
<1>2. PICK m \in 1..Len(file) :
           /\ IsLast(m) /\ Ends(file[m].p) /\ phys[file[m].p].rec = r
           /\ records[r].status = "synced" => m <= synced
  BY <1>1
<1>0. PICK new \in Nat : new = New
  BY WriterFacts DEF New
<1>3. PICK off : off = Len(file) + Skip
  OBVIOUS
<1>4. Len(file) \in Nat /\ Len(file') = Len(file) + n /\ n \in Nat /\ \A j \in 1..Len(file) : file'[j] = file[j]
  BY <1>0, <1>3, EmittedFile
<1>5. \A p \in 1..Len(phys) : phys'[p] = phys[p]
  BY <1>0, EmittedPhys
<1>6. m \in 1..Len(file') /\ file'[m] = file[m]
  BY <1>2, <1>4
<1>7. /\ IsLast(m)' /\ (Ends(file[m].p)' <=> Ends(file[m].p))
      /\ phys'[file'[m].p] = phys[file[m].p] /\ file[m].p \in 1..Len(phys)
  BY <1>2, <1>5, <1>6, LastKept
<1>8. r # Len(records)
  BY <1>2, <1>7 DEF AddingInv, Emits
<1>9. records'[r].offset = records[r].offset
  BY <1>1, <1>8 DEF Emits
<1>10. Started(r)'
  BY <1>1, <1>4, <1>5, <1>9, StartedKept
<1> QED  BY <1>2, <1>6, <1>7, <1>8, <1>10

\* A whole fragment ends the file, and its record has started.
LEMMA EmitWhole ==
  ASSUME WriterTypes, AddingInv, FileInv, NEW n, Emits(n), n = Len(ToWrite), NEW new \in Nat, new = New,
         NEW r \in Nat, r = Len(records)
  PROVE  /\ Len(file') > 0 /\ file'[Len(file')] = Cell(new, HeaderSize + FragmentLength)
         /\ Len(file') = Len(file) + Skip + HeaderSize + FragmentLength
         /\ Started(r)'
<1>1. PICK off : off = Len(file) + Skip
  OBVIOUS
<1>2. /\ Len(file) \in Nat /\ Len(file') = Len(file) + n /\ n \in Nat
      /\ off \in Nat /\ FragmentLength \in Nat
      /\ \A j \in 1..Len(file) : file'[j] = file[j]
      /\ \A j \in 1..Len(file') : j > off => file'[j] = Cell(new, j - off) /\ file'[j].p = new /\ file'[j].i = j - off
  BY <1>1, EmittedFile
<1>3. /\ Len(phys) \in Nat /\ new = Len(phys) + 1 /\ \A p \in 1..Len(phys) : phys'[p] = phys[p]
      /\ (Begins(new)' <=> adding.begin) /\ phys'[new].rec = r
  BY EmittedPhys
<1>4. n = Skip + HeaderSize + FragmentLength /\ Skip \in Nat
  BY FragmentFacts, ToWriteCells DEF Emits
<1>5. Len(file') = off + (HeaderSize + FragmentLength) /\ Len(file') \in Nat /\ Len(file') > off + 1
  BY <1>1, <1>2, <1>4, Sizing
<1>6. Len(file') > 0 /\ file'[Len(file')] = Cell(new, HeaderSize + FragmentLength)
  <2>1. Len(file') \in 1..Len(file') /\ Len(file') - off = HeaderSize + FragmentLength
    <3>1. off \in Nat /\ FragmentLength \in Nat /\ HeaderSize \in Nat
      BY <1>2, Sizing
    <3> QED  BY <1>5, <3>1
  <2>2. file'[Len(file')] = Cell(new, Len(file') - off)
    BY <1>2, <1>5, <2>1
  <2> QED  BY <1>2, <1>5, <2>1, <2>2
<1>7. r \in 1..Len(records)
  BY FragmentFacts DEF Emits
<1>8. records'[r].offset = IF adding.begin THEN off ELSE records[r].offset
  BY <1>1, <1>7 DEF Emits
<1>9. Started(r)'
  <2>1. CASE adding.begin
    <3>1. off + 1 \in 1..Len(file') /\ off + 1 > off /\ (off + 1) - off = 1 /\ off \in 0..(Len(file') - 1)
      BY <1>2, <1>5
    <3>2. file'[off + 1].p = new /\ file'[off + 1].i = 1
      BY <1>2, <3>1
    <3>3. phys'[new].type \in {"full", "first"}
      BY <1>3, <2>1 DEF Begins
    <3>4. new > 0
      BY <1>3
    <3> QED  BY <1>3, <1>8, <2>1, <3>1, <3>2, <3>3, <3>4 DEF Started, Begins
  <2>2. CASE ~adding.begin
    <3>1. Started(r)
      BY <2>2 DEF AddingInv, Emits
    <3>2. Len(file') >= Len(file)
      BY <1>2
    <3> QED  BY <1>2, <1>3, <1>5, <1>7, <1>8, <2>2, <3>1, <3>2, StartedKept
  <2> QED  BY <1>3, <2>1, <2>2
<1>10. Len(file') = Len(file) + Skip + HeaderSize + FragmentLength
  <2>1. Len(file) \in Nat /\ FragmentLength \in Nat /\ HeaderSize \in Nat
    BY <1>2, Sizing
  <2> QED  BY <1>1, <1>4, <1>5, <2>1
<1> QED  BY <1>6, <1>9, <1>10

\* Nothing of the writer is left open once AddRecord has returned.
LEMMA NotAdding == ASSUME adding' = None PROVE AddingInv'
  BY DEF AddingInv, None

LEMMA FlushedKeeps ==
  ASSUME WriterInv, Flushed
  PROVE  WriterInv'
<1> DEFINE n == Len(ToWrite)
<1>1. /\ WriterTypes /\ HistoryInv /\ AddingInv /\ FileInv /\ AlignInv /\ PlaceInv /\ AckInv
  BY DEF WriterInv
<1>2. /\ Emits(n) /\ \A r \in 1..Len(records) : r # Len(records) => records'[r] = records[r]
      /\ adding.left - FragmentLength > 0 => records'[Len(records)].status = records[Len(records)].status
  BY <1>1, FlushedEmits
<1> HIDE DEF n
<1>3. PICK new \in Nat : new = New
  BY <1>1, WriterFacts DEF New
<1>4. PICK off : off = Len(file) + Skip
  OBVIOUS
<1>5. PICK r \in Nat : r = Len(records)
  BY <1>1, WriterFacts
<1>6. HistoryInv' /\ FileInv'
  BY <1>1, <1>2, EmitHistory, EmitFile
<1>7. phase = "write" /\ phase' = "write" /\ failures' = failures /\ synced' = synced
  BY DEF Flushed
<1>8. AlignInv'
  <2>1. CASE failures = 0
    BY <1>1, <1>2, <1>7, <2>1, EmitAlign
  <2>2. CASE failures # 0
    BY <1>7, <2>2 DEF AlignInv
  <2> QED  BY <2>1, <2>2
<1>9. /\ adding # None /\ r \in 1..Len(records) /\ FragmentLength \in Nat /\ adding.left \in Nat
      /\ adding.left >= FragmentLength /\ records[r].size \in Nat /\ adding.left <= records[r].size
      /\ Skip \in Nat /\ StartOffset \in Nat
      /\ NextOffset = StartOffset + HeaderSize + FragmentLength /\ NextOffset <= BlockSize
  BY <1>1, <1>2, <1>5, FragmentFacts DEF Emits, AddingInv
<1> DEFINE left == adding.left - FragmentLength
<1>10. left \in Nat /\ adding' = IF left > 0 THEN [left |-> left, begin |-> FALSE] ELSE None
  BY <1>9 DEF Flushed
<1>11. /\ file' \in Seq(FileCells) /\ Len(file) \in Nat /\ Len(file') = Len(file) + n /\ n \in Nat
       /\ off \in Nat
  BY <1>1, <1>2, <1>3, <1>4, EmittedFile
<1>12. /\ phys' \in Seq(Phys) /\ Len(phys') = new /\ Len(phys) \in Nat /\ new = Len(phys) + 1
       /\ \A p \in 1..Len(phys) : phys'[p] = phys[p] /\ (Ends(p)' <=> Ends(p))
       /\ Span(new)' = HeaderSize + FragmentLength
       /\ Ends(new)' <=> adding.left = FragmentLength
       /\ phys'[new].rec = r /\ phys'[new].length = FragmentLength
       /\ phys'[new].first = records[r].size - adding.left
  BY <1>1, <1>2, <1>3, <1>5, EmittedPhys
<1>13. /\ Len(file') > 0 /\ file'[Len(file')] = Cell(new, HeaderSize + FragmentLength)
       /\ Len(file') = Len(file) + Skip + HeaderSize + FragmentLength /\ Started(r)'
  BY <1>1, <1>2, <1>3, <1>5, EmitWhole DEF n
<1>14. records' \in Seq(Records) /\ Len(records') = r /\ records'[r].size = records[r].size
  BY <1>2, <1>5, <1>9 DEF Emits
<1>15. (adding = None)' <=> ~(left > 0)
  BY <1>10 DEF None
<1>16. WriterTypes'
  <2>1. adding' \in [left : Int, begin : BOOLEAN] /\ (adding' # None => adding'.left \in Nat)
    BY <1>10 DEF None
  <2>2. block_offset_' \in 0..BlockSize
    <3>1. block_offset_' = NextOffset
      BY DEF Flushed
    <3> QED  BY <1>9, <3>1, Sizing
  <2>3. synced' \in Nat /\ failures' \in Nat /\ phase' \in {"write", "read"}
    BY <1>1, <1>7 DEF WriterTypes
  <2> QED  BY <1>11, <1>12, <1>14, <2>1, <2>2, <2>3 DEF WriterTypes
<1>17. file'[Len(file')] = Cell(Len(phys), Span(Len(phys)))'
  BY <1>12, <1>13 DEF Cell, Span
<1>18. AddingInv'
  <2>1. CASE ~(left > 0)
    BY <1>15, <2>1, NotAdding
  <2>2. CASE left > 0
    <3>1. adding'.left = left /\ ~adding'.begin
      BY <1>10, <2>2
    <3>2. ASSUME NEW p \in 1..new, phys'[p].rec = r PROVE ~Ends(p)'
      <4>1. CASE p = new
        BY <1>9, <1>12, <2>2, <4>1
      <4>2. CASE p # new
        <5>1. p \in 1..Len(phys) /\ phys[p].rec = r
          BY <1>12, <3>2, <4>2
        <5>2. ~Ends(p)
          BY <1>1, <1>5, <1>9, <5>1 DEF AddingInv
        <5> QED  BY <1>12, <5>1, <5>2
      <4> QED  BY <4>1, <4>2
    <3>3. r > 0 /\ left <= records'[r].size /\ new > 0
      BY <1>9, <1>12, <1>14
    <3>4. phys'[new].first + phys'[new].length = records'[r].size - left
      BY <1>9, <1>12, <1>14
    <3>5. Started(Len(records))'
      BY <1>13, <1>14 DEF Started
    <3> QED  BY <1>7, <1>12, <1>13, <1>14, <1>17, <3>1, <3>2, <3>3, <3>4, <3>5 DEF AddingInv
  <2> QED  BY <2>1, <2>2
<1>19. PlaceInv'
  <2> SUFFICES ASSUME failures = 0 PROVE PlaceInv'
    BY <1>7 DEF PlaceInv
  <2>1. PICK base \in 0..off : base % BlockSize = 0 /\ off = base + StartOffset
    BY <1>1, <1>4, <1>7, <1>9, EmitPlace
  <2>2. base \in 0..Len(file') /\ Len(file') = base + block_offset_'
    <3>1. block_offset_' = NextOffset
      BY DEF Flushed
    <3>2. Len(file') = off + HeaderSize + FragmentLength
      BY <1>4, <1>9, <1>11, <1>13, Sizing
    <3> QED  BY <1>9, <1>11, <2>1, <3>1, <3>2, Sizing, SMTT(60)
  <2>3. phys' # <<>>
    BY <1>12
  <2>4. adding' = None \/ adding'.begin => Ends(Len(phys))'
    <3>1. CASE left > 0
      BY <1>10, <1>15, <3>1
    <3>2. CASE ~(left > 0)
      <4>1. Ends(new)'
        BY <1>9, <1>12, <3>2
      <4> QED  BY <1>12, <4>1 DEF Ends
    <3> QED  BY <3>1, <3>2
  <2> QED  BY <1>13, <1>17, <2>1, <2>2, <2>3, <2>4 DEF PlaceInv
<1>20. AckInv'
  <2>1. synced' <= Len(file')
    <3>1. synced \in Nat /\ synced <= Len(file)
      BY <1>1, <1>7 DEF AckInv, WriterTypes
    <3> QED  BY <1>7, <1>11, <3>1
  <2>2. ASSUME failures = 0, NEW q \in Acknowledged'
        PROVE  /\ Started(q)'
               /\ \E m \in 1..Len(file') :
                    /\ IsLast(m)' /\ Ends(file[m].p)' /\ phys'[file'[m].p].rec = q
                    /\ records'[q].status = "synced" => m <= synced'
    <3>1. q \in 1..r /\ records'[q].status \in {"ok", "synced"}
      BY <1>14 DEF Acknowledged
    <3>2. CASE q \in Acknowledged
      <4>1. /\ q # Len(records) /\ Started(q)'
            /\ \E m \in 1..Len(file') :
                 /\ IsLast(m)' /\ Ends(file[m].p)' /\ phys'[file'[m].p].rec = q
                 /\ records[q].status = "synced" => m <= synced
        BY <1>1, <1>2, <1>7, <2>2, <3>2, EmitAcked
      <4>2. records'[q] = records[q]
        BY <1>2, <1>5, <3>1, <4>1
      <4> QED  BY <1>7, <4>1, <4>2
    <3>3. CASE q \notin Acknowledged
      <4>1. q = r /\ ~(left > 0)
        <5>1. q \in DOMAIN records
          BY <1>1, <1>5, <3>1 DEF WriterTypes
        <5>2. records'[q].status # records[q].status
          BY <3>1, <3>3, <5>1 DEF Acknowledged
        <5> QED  BY <1>2, <1>5, <3>1, <5>2
      <4>2. records'[r].status = "ok"
        <5>1. records' = [records EXCEPT ![Len(records)] = [WithOffset(records[Len(records)]) EXCEPT !.status = "ok"]]
          BY <4>1 DEF Flushed
        <5>2. WithOffset(records[Len(records)]) \in Records
          BY <1>1, <1>9, OffsetOfRecord
        <5>3. records'[r] = [WithOffset(records[Len(records)]) EXCEPT !.status = "ok"]
          BY <1>1, <1>5, <1>9, <5>1, SMTT(60) DEF WriterTypes
        <5> QED  BY <5>2, <5>3, StatusOfRecord
      <4>3. Len(file') \in 1..Len(file') /\ file'[Len(file')].p = new /\ file'[Len(file')].i = HeaderSize + FragmentLength
        BY <1>11, <1>13 DEF Cell
      <4>4. Ends(new)' /\ new > 0
        BY <1>9, <1>12, <4>1
      <4>5. IsLast(Len(file))' /\ Ends(file[Len(file)].p)' /\ phys'[file'[Len(file')].p].rec = q
        BY <1>12, <4>1, <4>3, <4>4 DEF IsLast, Ends, Span
      <4>6. PICK m : m = Len(file')
        OBVIOUS
      <4>7. m \in 1..Len(file') /\ IsLast(m)' /\ Ends(file[m].p)' /\ phys'[file'[m].p].rec = q
        BY <4>3, <4>5, <4>6 DEF IsLast, Ends, Span
      <4> QED  BY <1>13, <4>1, <4>2, <4>7
    <3> QED  BY <3>2, <3>3
  <2> QED  BY <1>7, <2>1, <2>2 DEF AckInv
<1> QED  BY <1>6, <1>8, <1>16, <1>18, <1>19, <1>20 DEF WriterInv

\* The file is cut or kept, and no fragment is formed.
Cut(kept) ==
  /\ kept \in 0..Len(file) /\ Len(file') = kept /\ \A j \in 1..kept : file'[j] = file[j]
  /\ phys' = phys /\ Len(records') \in Nat /\ Len(records') >= Len(records)
  /\ \A r \in 1..Len(records) : records'[r].size = records[r].size /\ records'[r].offset = records[r].offset

LEMMA CutHistory ==
  ASSUME WriterTypes, HistoryInv, NEW kept, Cut(kept)
  PROVE  HistoryInv'
<1>1. Len(records) \in Nat /\ \A p \in 1..Len(phys) : phys[p].rec \in 1..Len(records)
  BY WriterFacts DEF HistoryInv
<1>2. \A p \in 1..Len(phys) : records'[phys[p].rec].size = records[phys[p].rec].size /\ phys[p].rec \in 1..Len(records')
  BY <1>1 DEF Cut
<1>3. phys' = phys
  BY DEF Cut
<1> QED  BY <1>2, <1>3 DEF HistoryInv, Begins, Ends

LEMMA CutFile ==
  ASSUME WriterTypes, HistoryInv, FileInv, NEW kept, Cut(kept)
  PROVE  FileInv'
<1>1. /\ Len(file) \in Nat /\ kept \in 0..Len(file) /\ Len(file') = kept /\ \A j \in 1..kept : file'[j] = file[j]
      /\ phys' = phys
  BY WriterFacts DEF Cut
<1>2. \A p \in 1..Len(phys) : records'[phys[p].rec].offset = records[phys[p].rec].offset
  BY DEF Cut, HistoryInv
<1>3. ASSUME NEW j \in 1..Len(file'), file'[j].p > 0
      PROVE  /\ file'[j].p <= Len(phys') /\ file'[j].i \in 1..Span(file[j].p)' /\ file'[j].i <= j
             /\ \A i \in 1..file'[j].i : file'[j - file'[j].i + i] = Cell(file[j].p, i)'
             /\ ~Begins(file[j].p)' =>
                  \E m \in 1..(j - 1) : file'[m] = Cell(file[j].p - 1, Span(file[j].p - 1))'
             /\ file'[j].i = 1 /\ Begins(file[j].p)' => records'[phys'[file'[j].p].rec].offset = j - 1
  <2> DEFINE p == file[j].p
  <2>1. /\ j \in 1..Len(file) /\ file'[j] = file[j] /\ p \in Nat /\ p > 0 /\ file[j].i \in Nat /\ Len(phys) \in Nat
    BY <1>1, <1>3, WriterFacts
  <2>2. /\ p <= Len(phys) /\ file[j].i \in 1..Span(p) /\ file[j].i <= j
        /\ \A i \in 1..file[j].i : file[j - file[j].i + i] = Cell(p, i)
        /\ ~Begins(p) => \E m \in 1..(j - 1) : file[m] = Cell(p - 1, Span(p - 1))
        /\ file[j].i = 1 /\ Begins(p) => records[phys[p].rec].offset = j - 1
    BY <2>1 DEF FileInv
  <2>3. Span(file[j].p)' = Span(p) /\ (Begins(file[j].p)' <=> Begins(p)) /\ p \in 1..Len(phys)
    BY <1>1, <2>1, <2>2 DEF Span, Begins
  <2>4. ASSUME NEW i \in 1..file[j].i PROVE file'[j - file[j].i + i] = Cell(p, i)
    <3>1. j - file[j].i + i \in 1..kept
      BY <1>1, <2>1, <2>2, <2>4
    <3> QED  BY <1>1, <2>2, <3>1
  <2>5. ASSUME NEW m \in 1..(j - 1) PROVE file'[m] = file[m]
    <3>1. m \in 1..kept
      BY <1>1, <2>1
    <3> QED  BY <1>1, <3>1
  <2>6. Cell(file[j].p - 1, Span(file[j].p - 1))' = Cell(p - 1, Span(p - 1))
    BY <1>1, <2>1 DEF Cell, Span
  <2>7. \A i : Cell(file[j].p, i)' = Cell(p, i)
    BY <2>1 DEF Cell
  <2>8. file'[j].i = 1 /\ Begins(file[j].p)' => records'[phys'[file'[j].p].rec].offset = j - 1
    BY <1>1, <1>2, <2>1, <2>2, <2>3
  <2> HIDE DEF p
  <2>9. ~Begins(file[j].p)' => \E m \in 1..(j - 1) : file'[m] = Cell(file[j].p - 1, Span(file[j].p - 1))'
    BY <2>2, <2>3, <2>5, <2>6
  <2> QED  BY <1>1, <2>1, <2>2, <2>3, <2>4, <2>7, <2>8, <2>9 DEF p
<1>4. ASSUME NEW j \in 1..Len(file'), NEW k \in 1..Len(file'), j < k, file'[j].p > 0, file'[k].p > 0
      PROVE  \/ file'[j].p < file'[k].p
             \/ file'[j].p = file'[k].p /\ k - j = file'[k].i - file'[j].i
  <2>1. j \in 1..Len(file) /\ k \in 1..Len(file) /\ file'[j] = file[j] /\ file'[k] = file[k]
    BY <1>1
  <2> QED  BY <1>4, <2>1 DEF FileInv
<1> QED  BY <1>3, <1>4 DEF FileInv

LEMMA CutAlign ==
  ASSUME WriterTypes, FileInv, AlignInv, failures' = failures, NEW kept, Cut(kept)
  PROVE  AlignInv'
<1> SUFFICES ASSUME failures = 0 PROVE AlignInv'
  BY DEF AlignInv
<1>1. /\ Len(file) \in Nat /\ kept \in 0..Len(file) /\ Len(file') = kept /\ \A j \in 1..kept : file'[j] = file[j]
      /\ phys' = phys
  BY WriterFacts DEF Cut
<1>2. ASSUME NEW j \in 1..Len(file'), file'[j].p = 0
      PROVE  \E base \in 0..(j - 1) :
               /\ base % BlockSize = 0
               /\ base + BlockSize - HeaderSize < j - 1 /\ j <= base + BlockSize
               /\ \A k \in j..(base + BlockSize) : k <= Len(file') => file'[k].p = 0
  <2>1. j \in 1..Len(file) /\ file[j].p = 0
    BY <1>1, <1>2
  <2>2. PICK base \in 0..(j - 1) :
          /\ base % BlockSize = 0
          /\ base + BlockSize - HeaderSize < j - 1 /\ j <= base + BlockSize
          /\ \A k \in j..(base + BlockSize) : k <= Len(file) => file[k].p = 0
    BY <2>1 DEF AlignInv
  <2>3. \A k \in j..(base + BlockSize) : k <= kept => k \in 1..kept /\ k <= Len(file)
    BY <1>1, <2>1, <2>2, Sizing
  <2>4. \A k \in j..(base + BlockSize) : k <= Len(file') => file'[k].p = 0
    BY <1>1, <2>2, <2>3
  <2> QED  BY <2>2, <2>4
<1>3. ASSUME NEW j \in 1..Len(file'), file'[j].p > 0
      PROVE  /\ OneBlock(j - file[j].i, j - file[j].i + Span(file[j].p))'
             /\ file'[j].p > 1 => \E m \in 1..(j - 1) : file'[m] = Cell(file[j].p - 1, Span(file[j].p - 1))'
             /\ file'[j].i = 1 => \A i \in 1..Span(file[j].p)' :
                                   j + i - 1 <= Len(file') => file'[j + i - 1] = Cell(file[j].p, i)'
  <2> DEFINE p == file[j].p
  <2>1. /\ j \in 1..Len(file) /\ file'[j] = file[j] /\ p \in Nat /\ p > 0 /\ file[j].i \in Nat
    BY <1>1, <1>3, WriterFacts
  <2>2. /\ OneBlock(j - file[j].i, j - file[j].i + Span(p))
        /\ p > 1 => \E m \in 1..(j - 1) : file[m] = Cell(p - 1, Span(p - 1))
        /\ file[j].i = 1 => \A i \in 1..Span(p) : j + i - 1 <= Len(file) => file[j + i - 1] = Cell(p, i)
    BY <2>1 DEF AlignInv
  <2>3. Span(file[j].p)' = Span(p) /\ p \in 1..Len(phys) /\ Span(p) \in Nat
    <3>1. p <= Len(phys) /\ Len(phys) \in Nat
      BY <2>1, WriterFacts DEF FileInv
    <3>2. p \in 1..Len(phys)
      BY <2>1, <3>1
    <3> QED  BY <1>1, <2>1, <3>2, WriterFacts DEF Span
  <2>4. ASSUME file[j].i = 1, NEW i \in 1..Span(p), j + i - 1 <= Len(file') PROVE file'[j + i - 1] = Cell(p, i)
    <3>1. j + i - 1 \in 1..kept /\ j + i - 1 <= Len(file)
      BY <1>1, <2>1, <2>3, <2>4
    <3> QED  BY <1>1, <2>2, <2>4, <3>1
  <2>5. ASSUME NEW m \in 1..(j - 1) PROVE file'[m] = file[m]
    <3>1. m \in 1..kept
      BY <1>1, <2>1
    <3> QED  BY <1>1, <3>1
  <2>6. Cell(file[j].p - 1, Span(file[j].p - 1))' = Cell(p - 1, Span(p - 1))
    BY <1>1, <2>1 DEF Cell, Span
  <2>7. \A i : Cell(file[j].p, i)' = Cell(p, i)
    BY <2>1 DEF Cell
  <2>8. OneBlock(j - file[j].i, j - file[j].i + Span(file[j].p))'
    BY <2>1, <2>2, <2>3 DEF OneBlock
  <2> HIDE DEF p
  <2>9. p > 1 => \E m \in 1..(j - 1) : file'[m] = Cell(file[j].p - 1, Span(file[j].p - 1))'
    BY <2>2, <2>5, <2>6
  <2>10. file'[j].i = 1 => \A i \in 1..Span(file[j].p)' :
                              j + i - 1 <= Len(file') => file'[j + i - 1] = Cell(file[j].p, i)'
    BY <2>1, <2>3, <2>4, <2>7
  <2> QED  BY <2>1, <2>8, <2>9, <2>10 DEF p
<1>4. \A p \in 1..Len(phys') : Begins(p)' /\ p > 1 => Ends(p - 1)'
  BY <1>1 DEF AlignInv, Begins, Ends
<1> QED  BY <1>2, <1>3, <1>4 DEF AlignInv

\* A record's first cell is not after the last cell of its last fragment.
LEMMA StartBeforeEnd ==
  ASSUME WriterTypes, HistoryInv, FileInv, NEW r, Started(r),
         NEW m \in 1..Len(file), IsLast(m), Ends(file[m].p), phys[file[m].p].rec = r
  PROVE  records[r].offset \in Nat /\ records[r].offset + 1 <= m
<1> DEFINE o == records[r].offset
           p == file[o + 1].p
           q == file[m].p
<1>1. o \in 0..(Len(file) - 1) /\ p > 0 /\ file[o + 1].i = 1 /\ phys[p].rec = r
  BY DEF Started
<1>2. Len(file) \in Nat /\ o + 1 \in 1..Len(file) /\ Len(phys) \in Nat
  <2>1. Len(file) \in Nat /\ Len(phys) \in Nat
    BY WriterFacts
  <2> HIDE DEF o
  <2> QED  BY <1>1, <2>1
<1>3. p \in Nat /\ q \in Nat /\ file[m].i \in Nat /\ q > 0
  BY <1>2, WriterFacts DEF IsLast
<1>4. p \in 1..Len(phys) /\ q \in 1..Len(phys) /\ file[m].i \in 1..Span(q)
  <2>1. p <= Len(phys) /\ q <= Len(phys) /\ file[m].i \in 1..Span(q)
    BY <1>1, <1>2, <1>3 DEF FileInv
  <2> QED  BY <1>1, <1>2, <1>3, <2>1, SMTT(60)
<1>5. p <= q
  <2>1. q < p => phys[q].rec < phys[p].rec
    BY <1>4 DEF HistoryInv
  <2>2. phys[q].rec \in Nat /\ phys[q].rec = phys[p].rec
    BY <1>1, <1>4, WriterFacts
  <2>3. p \in Nat /\ q \in Nat
    BY <1>3
  <2> HIDE DEF p, q
  <2> QED  BY <2>1, <2>2, <2>3
<1>6. m < o + 1 => q < p \/ (q = p /\ (o + 1) - m = 1 - file[m].i)
  <2>1. \A j, k \in 1..Len(file) : j < k /\ file[j].p > 0 /\ file[k].p > 0 =>
          \/ file[j].p < file[k].p
          \/ file[j].p = file[k].p /\ k - j = file[k].i - file[j].i
    BY DEF FileInv
  <2> HIDE DEF o
  <2>2. m < o + 1 =>
          \/ file[m].p < file[o + 1].p
          \/ file[m].p = file[o + 1].p /\ (o + 1) - m = file[o + 1].i - file[m].i
    BY <1>1, <1>2, <1>3, <2>1
  <2> QED  BY <1>1, <2>2
<1>7. file[m].i >= 1
  BY <1>4, WriterFacts
<1>8. ~(m < o + 1)
  BY <1>2, <1>3, <1>5, <1>6, <1>7
<1> QED  BY <1>1, <1>2, <1>8

LEMMA CutAcked ==
  ASSUME WriterTypes, HistoryInv, FileInv, AckInv, failures = 0, NEW kept, Cut(kept), NEW r \in Acknowledged,
         NEW m \in 1..Len(file), m <= kept, IsLast(m), Ends(file[m].p), phys[file[m].p].rec = r
  PROVE  Started(r)' /\ m \in 1..Len(file') /\ IsLast(m)' /\ Ends(file[m].p)' /\ phys'[file'[m].p].rec = r
<1>1. r \in 1..Len(records) /\ Started(r)
  <2>1. r \in 1..Len(records)
    BY DEF Acknowledged, WriterTypes
  <2> QED  BY <2>1 DEF AckInv
<1>2. /\ Len(file) \in Nat /\ kept \in 0..Len(file) /\ Len(file') = kept /\ \A j \in 1..kept : file'[j] = file[j]
      /\ phys' = phys /\ records'[r].offset = records[r].offset
  BY <1>1, WriterFacts DEF Cut
<1>3. m \in 1..Len(file') /\ file'[m] = file[m]
  BY <1>2
<1>4. /\ IsLast(m)' /\ (Ends(file[m].p)' <=> Ends(file[m].p)) /\ phys'[file'[m].p] = phys[file[m].p]
  BY <1>2, <1>3, LastKept
<1> DEFINE o == records[r].offset
<1>5. o \in Nat /\ o + 1 <= m
  BY <1>1, StartBeforeEnd
<1>6. o + 1 \in 1..kept /\ o \in 0..(Len(file') - 1)
  BY <1>2, <1>3, <1>5
<1>7. file[o + 1].p > 0 /\ file[o + 1].i = 1 /\ Begins(file[o + 1].p) /\ phys[file[o + 1].p].rec = r
  BY <1>1 DEF Started
<1>8. file'[o + 1] = file[o + 1]
  BY <1>2, <1>6
<1> HIDE DEF o
<1>9. records'[r].offset = o
  BY <1>2 DEF o
<1>10. Started(r)'
  BY <1>2, <1>6, <1>7, <1>8, <1>9 DEF Started, Begins
<1> QED  BY <1>3, <1>4, <1>10

\* Sync and MachineStops change the status of acknowledged records.
LEMMA StatusChanged ==
  ASSUME WriterTypes, NEW status \in {"synced", "lost"},
         records' = [r \in DOMAIN records |->
                       IF records[r].status = "ok" THEN [records[r] EXCEPT !.status = status] ELSE records[r]]
  PROVE  /\ records' \in Seq(Records) /\ Len(records') = Len(records) /\ Len(records) \in Nat
         /\ \A r \in 1..Len(records) :
              /\ records'[r].size = records[r].size /\ records'[r].offset = records[r].offset
              /\ records'[r].status = IF records[r].status = "ok" THEN status ELSE records[r].status
<1>1. records \in Seq(Records) /\ DOMAIN records = 1..Len(records) /\ Len(records) \in Nat
  BY DEF WriterTypes
<1>2. ASSUME NEW r \in 1..Len(records)
      PROVE  /\ records'[r] \in Records
             /\ records'[r].size = records[r].size /\ records'[r].offset = records[r].offset
             /\ records'[r].status = IF records[r].status = "ok" THEN status ELSE records[r].status
  <2>1. records[r] \in Records
    BY <1>1
  <2>2. records'[r] = IF records[r].status = "ok" THEN [records[r] EXCEPT !.status = status] ELSE records[r]
    BY <1>1
  <2>3. CASE records[r].status = "ok"
    <3>1. records'[r] = [records[r] EXCEPT !.status = status]
      BY <2>2, <2>3
    <3> DEFINE w == records[r]
               u == [w EXCEPT !.status = status]
    <3>2. w \in Records /\ status \in {"pending", "ok", "synced", "failed", "lost"}
      BY <2>1
    <3> HIDE DEF w
    <3>3. u \in Records /\ u.size = w.size /\ u.offset = w.offset /\ u.status = status
      BY <3>2, StatusOfRecord
    <3> HIDE DEF u
    <3> QED  BY <2>3, <3>1, <3>3 DEF u, w
  <2>4. CASE records[r].status # "ok"
    BY <2>1, <2>2, <2>4
  <2> QED  BY <2>3, <2>4
<1>3. records' \in [1..Len(records) -> Records]
  <2>1. records' = [r \in 1..Len(records) |-> records'[r]]
    BY <1>1
  <2> QED  BY <1>2, <2>1
<1>4. records' \in Seq(Records) /\ Len(records') = Len(records)
  BY <1>1, <1>3, FunctionSeq
<1> QED  BY <1>1, <1>2, <1>4

LEMMA FlushFailsKeeps ==
  ASSUME WriterInv, NEW n \in Nat, FlushFails(n)
  PROVE  WriterInv'
<1>1. /\ WriterTypes /\ HistoryInv /\ AddingInv /\ FileInv /\ AckInv
  BY DEF WriterInv
<1>2. Emits(n)
  BY <1>1, FlushFailsEmits
<1>3. PICK new \in Nat : new = New
  BY <1>1, WriterFacts DEF New
<1>4. PICK off : off = Len(file) + Skip
  OBVIOUS
<1>5. /\ phase = "write" /\ phase' = "write" /\ failures' = failures + 1 /\ synced' = synced /\ adding' = None
      /\ block_offset_' = NextOffset /\ adding # None
  BY DEF FlushFails
<1>6. HistoryInv' /\ FileInv' /\ AddingInv'
  BY <1>1, <1>2, <1>5, EmitHistory, EmitFile, NotAdding
<1>7. failures \in Nat /\ failures' # 0 /\ failures' \in Nat
  <2>1. failures \in Nat
    BY <1>1, WriterFacts
  <2> QED  BY <1>5, <2>1
<1>8. AlignInv' /\ PlaceInv'
  BY <1>7 DEF AlignInv, PlaceInv
<1>9. file' \in Seq(FileCells) /\ Len(file) \in Nat /\ Len(file') = Len(file) + n
  BY <1>1, <1>2, <1>3, <1>4, EmittedFile
<1>10. phys' \in Seq(Phys)
  BY <1>1, <1>2, <1>3, EmittedPhys
<1>11. records' \in Seq(Records)
  BY <1>2 DEF Emits
<1>12. synced \in Nat /\ synced <= Len(file)
  BY <1>1, <1>5 DEF WriterTypes, AckInv
<1>13. AckInv'
  <2>1. synced' <= Len(file')
    BY <1>5, <1>9, <1>12
  <2> QED  BY <1>7, <2>1 DEF AckInv
<1>14. block_offset_' \in 0..BlockSize
  <2>1. NextOffset = StartOffset + HeaderSize + FragmentLength /\ NextOffset <= BlockSize
        /\ StartOffset \in Nat /\ FragmentLength \in Nat
    BY <1>1, <1>5, FragmentFacts
  <2> QED  BY <1>5, <2>1, Sizing
<1>15. WriterTypes'
  <2>1. None \in [left : Int, begin : BOOLEAN]
    BY DEF None
  <2> QED  BY <1>5, <1>7, <1>9, <1>10, <1>11, <1>12, <1>14, <2>1 DEF WriterTypes
<1> QED  BY <1>6, <1>8, <1>13, <1>15 DEF WriterInv

LEMMA ProcessStopsKeeps ==
  ASSUME WriterInv, NEW torn \in Nat, NEW offset, ProcessStops(torn, offset)
  PROVE  WriterInv'
<1>1. /\ WriterTypes /\ HistoryInv /\ AddingInv /\ FileInv /\ AlignInv /\ PlaceInv /\ AckInv
  BY DEF WriterInv
<1>2. /\ phase = "write" /\ phase' = "read" /\ failures' = failures /\ synced' = synced /\ adding' = None
      /\ block_offset_' = block_offset_
  BY DEF ProcessStops
<1>3. AddingInv' /\ PlaceInv'
  BY <1>2, NotAdding DEF PlaceInv
<1>4. /\ phase' \in {"write", "read"} /\ synced' \in Nat /\ block_offset_' \in 0..BlockSize /\ failures' \in Nat
      /\ adding' \in [left : Int, begin : BOOLEAN]
  <2>1. None \in [left : Int, begin : BOOLEAN]
    BY DEF None
  <2> QED  BY <1>1, <1>2, <2>1 DEF WriterTypes
<1>5. CASE torn > 0
  <2>1. Emits(torn) /\ \A r \in 1..Len(records) : records'[r].status = records[r].status
    BY <1>1, <1>5, ProcessStopsEmits
  <2>2. HistoryInv' /\ FileInv'
    BY <1>1, <2>1, EmitHistory, EmitFile
  <2>3. AlignInv'
    <3>1. CASE failures = 0
      BY <1>1, <1>2, <2>1, <3>1, EmitAlign
    <3>2. CASE failures # 0
      BY <1>2, <3>2 DEF AlignInv
    <3> QED  BY <3>1, <3>2
  <2>4. PICK new \in Nat : new = New
    BY <1>1, WriterFacts DEF New
  <2>5. PICK off : off = Len(file) + Skip
    OBVIOUS
  <2>6. file' \in Seq(FileCells)
    BY <1>1, <2>1, <2>4, <2>5, EmittedFile
  <2>7. phys' \in Seq(Phys)
    BY <1>1, <2>1, <2>4, EmittedPhys
  <2>8. records' \in Seq(Records) /\ Len(records') = Len(records)
    BY <2>1 DEF Emits
  <2>9. WriterTypes'
    BY <1>2, <1>4, <2>6, <2>7, <2>8 DEF WriterTypes
  <2>10. ASSUME failures = 0, NEW q \in Acknowledged'
         PROVE  /\ Started(q)'
                /\ \E m \in 1..Len(file') : IsLast(m)' /\ Ends(file[m].p)' /\ phys'[file'[m].p].rec = q
    <3>1. q \in Acknowledged
      BY <1>1, <2>1, <2>8, SMTT(60) DEF Acknowledged, WriterTypes
    <3> QED  BY <1>1, <1>2, <2>1, <2>10, <3>1, EmitAcked
  <2>11. AckInv'
    BY <1>2, <2>10 DEF AckInv
  <2> QED  BY <1>3, <2>2, <2>3, <2>9, <2>11 DEF WriterInv
<1>6. CASE ~(torn > 0)
  <2>1. torn = 0
    BY <1>6
  <2>2. file' = file /\ phys' = phys /\ records' = records
    <3>1. file' = file \o SubSeq(ToWrite, 1, 0)
      BY <2>1 DEF ProcessStops
    <3>2. SubSeq(ToWrite, 1, 0) = <<>>
      OBVIOUS
    <3>3. file \o <<>> = file
      BY <1>1 DEF WriterTypes
    <3>4. phys' = phys /\ records' = records
      BY <2>1 DEF ProcessStops
    <3> QED  BY <3>1, <3>2, <3>3, <3>4
  <2>3. Cut(Len(file))
    BY <1>1, <2>2, WriterFacts DEF Cut
  <2>4. HistoryInv' /\ FileInv' /\ AlignInv'
    BY <1>1, <1>2, <2>3, CutHistory, CutFile, CutAlign
  <2>5. WriterTypes'
    BY <1>1, <1>2, <1>4, <2>2 DEF WriterTypes
  <2>6. AckInv'
    BY <1>1, <1>2, <2>2, SMTT(60) DEF AckInv, Acknowledged, Started, Begins, Ends, IsLast, Span
  <2> QED  BY <1>3, <2>4, <2>5, <2>6 DEF WriterInv
<1> QED  BY <1>5, <1>6

LEMMA SyncKeeps ==
  ASSUME WriterInv, Sync
  PROVE  WriterInv'
<1>1. /\ WriterTypes /\ HistoryInv /\ AddingInv /\ FileInv /\ AlignInv /\ PlaceInv /\ AckInv
  BY DEF WriterInv
<1>2. /\ phase = "write" /\ phase' = phase /\ failures' = failures /\ synced' = Len(file) /\ file' = file /\ phys' = phys
      /\ block_offset_' = block_offset_ /\ adding' = adding /\ adding = None
  BY DEF Sync
<1>3. /\ records' \in Seq(Records) /\ Len(records') = Len(records) /\ Len(records) \in Nat
      /\ \A r \in 1..Len(records) :
           /\ records'[r].size = records[r].size /\ records'[r].offset = records[r].offset
           /\ records'[r].status = IF records[r].status = "ok" THEN "synced" ELSE records[r].status
  <2>1. records' = [r \in DOMAIN records |->
                      IF records[r].status = "ok" THEN [records[r] EXCEPT !.status = "synced"] ELSE records[r]]
    BY DEF Sync
  <2> QED  BY <1>1, <2>1, StatusChanged
<1>4. Cut(Len(file)) /\ Len(file) \in Nat
  BY <1>1, <1>2, <1>3, WriterFacts DEF Cut
<1>5. HistoryInv' /\ FileInv' /\ AlignInv' /\ AddingInv'
  BY <1>1, <1>2, <1>4, CutHistory, CutFile, CutAlign, NotAdding
<1>6. PlaceInv'
  BY <1>1, <1>2 DEF PlaceInv, Cell, Span, Ends
<1>7. WriterTypes'
  BY <1>1, <1>2, <1>3, <1>4 DEF WriterTypes
<1>8. ASSUME failures = 0, NEW q \in Acknowledged'
      PROVE  /\ Started(q)'
             /\ \E m \in 1..Len(file') :
                  /\ IsLast(m)' /\ Ends(file[m].p)' /\ phys'[file'[m].p].rec = q
                  /\ records'[q].status = "synced" => m <= synced'
  <2>1. q \in Acknowledged
    <3>1. q \in 1..Len(records) /\ records'[q].status \in {"ok", "synced"}
      BY <1>3 DEF Acknowledged
    <3>2. records[q].status \in {"ok", "synced"}
      BY <1>3, <3>1
    <3> QED  BY <1>1, <3>1, <3>2 DEF Acknowledged, WriterTypes
  <2>2. PICK m \in 1..Len(file) : IsLast(m) /\ Ends(file[m].p) /\ phys[file[m].p].rec = q
    BY <1>1, <1>8, <2>1 DEF AckInv
  <2>3. m <= Len(file)
    BY <1>4
  <2>4. Started(q)' /\ m \in 1..Len(file') /\ IsLast(m)' /\ Ends(file[m].p)' /\ phys'[file'[m].p].rec = q
    BY <1>1, <1>4, <1>8, <2>1, <2>2, <2>3, CutAcked
  <2> QED  BY <1>2, <2>3, <2>4
<1>9. AckInv'
  BY <1>2, <1>4, <1>8 DEF AckInv
<1> QED  BY <1>5, <1>6, <1>7, <1>9 DEF WriterInv

LEMMA MachineStopsKeeps ==
  ASSUME WriterInv, NEW kept \in 0..Len(file), NEW offset, MachineStops(kept, offset)
  PROVE  WriterInv'
<1>1. /\ WriterTypes /\ HistoryInv /\ AddingInv /\ FileInv /\ AlignInv /\ PlaceInv /\ AckInv
  BY DEF WriterInv
<1>2. /\ phase = "write" /\ phase' = "read" /\ failures' = failures /\ synced' = synced /\ phys' = phys
      /\ block_offset_' = block_offset_ /\ adding' = None /\ kept >= synced /\ file' = SubSeq(file, 1, kept)
  BY DEF MachineStops
<1>3. /\ records' \in Seq(Records) /\ Len(records') = Len(records) /\ Len(records) \in Nat
      /\ \A r \in 1..Len(records) :
           /\ records'[r].size = records[r].size /\ records'[r].offset = records[r].offset
           /\ records'[r].status = IF records[r].status = "ok" THEN "lost" ELSE records[r].status
  <2>1. records' = [r \in DOMAIN records |->
                      IF records[r].status = "ok" THEN [records[r] EXCEPT !.status = "lost"] ELSE records[r]]
    BY DEF MachineStops
  <2> QED  BY <1>1, <2>1, StatusChanged
<1>4. /\ file' \in Seq(FileCells) /\ Len(file') = kept /\ Len(file) \in Nat
      /\ \A j \in 1..kept : file'[j] = file[j]
  BY <1>1, <1>2, Prefix DEF WriterTypes
<1>5. Cut(kept)
  BY <1>2, <1>3, <1>4 DEF Cut
<1>6. HistoryInv' /\ FileInv' /\ AlignInv' /\ AddingInv'
  BY <1>1, <1>2, <1>5, CutHistory, CutFile, CutAlign, NotAdding
<1>7. PlaceInv'
  BY <1>2 DEF PlaceInv
<1>8. WriterTypes'
  <2>1. None \in [left : Int, begin : BOOLEAN]
    BY DEF None
  <2> QED  BY <1>1, <1>2, <1>3, <1>4, <2>1 DEF WriterTypes
<1>9. ASSUME failures = 0, NEW q \in Acknowledged'
      PROVE  /\ Started(q)'
             /\ \E m \in 1..Len(file') : IsLast(m)' /\ Ends(file[m].p)' /\ phys'[file'[m].p].rec = q
  <2>1. q \in Acknowledged /\ records[q].status = "synced"
    <3>1. q \in 1..Len(records) /\ records'[q].status \in {"ok", "synced"}
      BY <1>3 DEF Acknowledged
    <3>2. records[q].status = "synced"
      BY <1>3, <3>1
    <3> QED  BY <1>1, <3>1, <3>2 DEF Acknowledged, WriterTypes
  <2>2. PICK m \in 1..Len(file) : IsLast(m) /\ Ends(file[m].p) /\ phys[file[m].p].rec = q /\ m <= synced
    BY <1>1, <1>2, <1>9, <2>1 DEF AckInv
  <2>3. m <= kept
    <3>1. synced \in Nat
      BY <1>1 DEF WriterTypes
    <3> QED  BY <1>2, <1>4, <2>2, <3>1
  <2> QED  BY <1>1, <1>5, <1>9, <2>1, <2>2, <2>3, CutAcked
<1>10. AckInv'
  BY <1>2, <1>9 DEF AckInv
<1> QED  BY <1>6, <1>7, <1>8, <1>10 DEF WriterInv

LEMMA AddRecordKeeps ==
  ASSUME WriterInv, NEW size \in Sizes, AddRecord(size)
  PROVE  WriterInv'
<1>1. /\ WriterTypes /\ HistoryInv /\ AddingInv /\ FileInv /\ AlignInv /\ PlaceInv /\ AckInv
  BY DEF WriterInv
<1> DEFINE x == [size |-> size, offset |-> -1, status |-> "pending"]
<1>2. /\ phase = "write" /\ phase' = phase /\ failures' = failures /\ synced' = synced /\ file' = file /\ phys' = phys
      /\ block_offset_' = block_offset_ /\ adding' = [left |-> size, begin |-> TRUE] /\ adding = None
      /\ records' = Append(records, x)
  BY DEF AddRecord
<1>3. size \in Nat /\ x \in Records /\ x.status = "pending" /\ x.size = size
  BY LogFormatAssumption DEF Records
<1> HIDE DEF x
<1>4. /\ records' \in Seq(Records) /\ Len(records') = Len(records) + 1 /\ Len(records) \in Nat
      /\ \A r \in 1..Len(records) : records'[r] = records[r]
      /\ records'[Len(records) + 1] = x
  <2>1. records \in Seq(Records)
    BY <1>1 DEF WriterTypes
  <2> QED  BY <1>2, <1>3, <2>1, Appended
<1>5. Cut(Len(file)) /\ Len(file) \in Nat
  BY <1>1, <1>2, <1>4, WriterFacts DEF Cut
<1>6. HistoryInv' /\ FileInv' /\ AlignInv'
  BY <1>1, <1>2, <1>5, CutHistory, CutFile, CutAlign
<1>7. PlaceInv'
  BY <1>1, <1>2 DEF PlaceInv, Cell, Span, Ends
<1>8. WriterTypes'
  BY <1>1, <1>2, <1>3, <1>4 DEF WriterTypes, None
<1>9. AddingInv'
  <2>1. \A p \in 1..Len(phys) : phys[p].rec < Len(records) + 1
    <3>1. \A p \in 1..Len(phys) : phys[p].rec \in 1..Len(records)
      BY <1>1 DEF HistoryInv
    <3> QED  BY <1>4, <3>1
  <2>2. \A p \in 1..Len(phys) : phys[p].rec # Len(records) + 1
    <3>1. \A p \in 1..Len(phys) : phys[p].rec \in 1..Len(records)
      BY <1>1 DEF HistoryInv
    <3> QED  BY <1>4, <3>1
  <2>3. adding'.left = size /\ adding'.begin /\ records'[Len(records')].size = size /\ size <= size /\ Len(records') > 0
    BY <1>2, <1>3, <1>4
  <2> QED  BY <1>2, <1>4, <2>1, <2>2, <2>3 DEF AddingInv
<1>10. ASSUME failures = 0, NEW q \in Acknowledged'
       PROVE  /\ Started(q)'
              /\ \E m \in 1..Len(file') :
                   /\ IsLast(m)' /\ Ends(file[m].p)' /\ phys'[file'[m].p].rec = q
                   /\ records'[q].status = "synced" => m <= synced'
  <2>1. q \in Acknowledged /\ records'[q] = records[q]
    <3>1. q \in 1..(Len(records) + 1) /\ records'[q].status \in {"ok", "synced"}
      BY <1>4 DEF Acknowledged
    <3>2. q # Len(records) + 1
      BY <1>3, <1>4, <3>1
    <3>3. q \in 1..Len(records)
      BY <1>4, <3>1, <3>2
    <3> QED  BY <1>1, <1>4, <3>1, <3>3 DEF Acknowledged, WriterTypes
  <2>2. PICK m \in 1..Len(file) : /\ IsLast(m) /\ Ends(file[m].p) /\ phys[file[m].p].rec = q
                                  /\ records[q].status = "synced" => m <= synced
    BY <1>1, <1>2, <1>10, <2>1 DEF AckInv
  <2>3. m <= Len(file)
    BY <1>5
  <2>4. Started(q)' /\ m \in 1..Len(file') /\ IsLast(m)' /\ Ends(file[m].p)' /\ phys'[file'[m].p].rec = q
    BY <1>1, <1>5, <1>10, <2>1, <2>2, <2>3, CutAcked
  <2> QED  BY <1>2, <2>1, <2>2, <2>4
<1>11. AckInv'
  BY <1>1, <1>2, <1>10 DEF AckInv
<1> QED  BY <1>6, <1>7, <1>8, <1>9, <1>11 DEF WriterInv

\* The reader does not write.
LEMMA ReaderKeepsWriter ==
  ASSUME WriterInv, UNCHANGED <<phase, writerVars>>
  PROVE  WriterInv'
<1>1. /\ WriterTypes /\ HistoryInv /\ AddingInv /\ FileInv /\ AlignInv /\ PlaceInv /\ AckInv
  BY DEF WriterInv
<1>2. /\ phase' = phase /\ file' = file /\ synced' = synced /\ block_offset_' = block_offset_ /\ adding' = adding
      /\ phys' = phys /\ records' = records /\ failures' = failures
  BY DEF writerVars
<1>3. WriterTypes'
  BY <1>1, <1>2 DEF WriterTypes
<1>4. Cut(Len(file))
  BY <1>1, <1>2, WriterFacts DEF Cut
<1>5. HistoryInv' /\ FileInv' /\ AlignInv'
  BY <1>1, <1>2, <1>4, CutHistory, CutFile, CutAlign, SMTT(60)
<1>6. AddingInv'
  BY <1>1, <1>2 DEF AddingInv, Ends, Cell, Span, Started, Begins
<1>7. PlaceInv'
  BY <1>1, <1>2 DEF PlaceInv, Cell, Span, Ends
<1>8. AckInv'
  BY <1>1, <1>2 DEF AckInv, Acknowledged, Started, Begins, Ends, IsLast, Span
<1> QED  BY <1>3, <1>5, <1>6, <1>7, <1>8 DEF WriterInv

LEMMA WriterStarts == ASSUME Init PROVE WriterInv
<1>1. /\ phase = "write" /\ file = <<>> /\ synced = 0 /\ block_offset_ = 0
      /\ adding = None /\ phys = <<>> /\ records = <<>> /\ failures = 0
  BY DEF Init
<1>2. WriterTypes
  BY <1>1, Sizing DEF WriterTypes, None
<1>3. HistoryInv /\ AddingInv /\ FileInv /\ AlignInv
  BY <1>1 DEF HistoryInv, AddingInv, FileInv, AlignInv
<1>4. PlaceInv
  <2>1. 0 % BlockSize = 0
    BY Sizing
  <2> QED  BY <1>1, <2>1 DEF PlaceInv
<1>5. AckInv
  BY <1>1 DEF AckInv, Acknowledged
<1> QED  BY <1>2, <1>3, <1>4, <1>5 DEF WriterInv

-------------------------------------------------------------------------------
(* The file as the reader sees it. *)

\* Physical records lie in the order of their numbers, each in one piece.
LEMMA Order ==
  ASSUME WriterTypes, FileInv, NEW j \in 1..Len(file), NEW k \in 1..Len(file), j < k, file[j].p > 0, file[k].p > 0
  PROVE  /\ file[j].p \in 1..Len(phys) /\ file[k].p \in 1..Len(phys)
         /\ file[j].p <= file[k].p
         /\ file[j].p = file[k].p => k - j = file[k].i - file[j].i
<1>1. /\ file[j].p <= Len(phys) /\ file[k].p <= Len(phys)
      /\ \/ file[j].p < file[k].p
         \/ file[j].p = file[k].p /\ k - j = file[k].i - file[j].i
  BY DEF FileInv
<1>2. file[j].p \in Nat /\ file[k].p \in Nat /\ Len(phys) \in Nat
  BY WriterFacts
<1> QED  BY <1>1, <1>2

\* The cell of a physical record's end, and the first one.
LEMMA FirstCell ==
  ASSUME WriterTypes, FileInv, NEW m \in 1..Len(file), IsLast(m)
  PROVE  LET q == file[m].p
             k == m - Span(q) + 1
         IN  /\ q \in 1..Len(phys) /\ Span(q) \in Nat /\ Span(q) >= HeaderSize
             /\ k \in 1..m /\ k \in 1..Len(file) /\ file[k].p = q /\ file[k].i = 1
             /\ file[m] = Cell(q, Span(q)) /\ file[m].i = Span(q)
<1> DEFINE q == file[m].p
           k == m - Span(q) + 1
<1>1. q > 0 /\ file[m].i = Span(q)
  BY DEF IsLast
<1>2. q <= Len(phys) /\ Span(q) <= m /\ \A i \in 1..Span(q) : file[m - Span(q) + i] = Cell(q, i)
  BY <1>1 DEF FileInv
<1>3. q \in Nat /\ Len(phys) \in Nat /\ Len(file) \in Nat /\ file[m] = Cell(q, file[m].i)
  BY WriterFacts
<1>4. q \in 1..Len(phys)
  BY <1>1, <1>2, <1>3
<1>5. Span(q) \in Nat /\ Span(q) >= HeaderSize /\ Span(q) > 0
  BY <1>4, WriterFacts
<1>6. 1 \in 1..Span(q) /\ k \in 1..m /\ k \in 1..Len(file)
  BY <1>2, <1>3, <1>5
<1>7. file[k] = Cell(q, 1)
  BY <1>2, <1>6
<1> QED  BY <1>1, <1>3, <1>4, <1>5, <1>6, <1>7 DEF Cell

\* A physical record that ends after m is all after m.
LEMMA AllAfter ==
  ASSUME WriterTypes, FileInv, NEW m \in 1..Len(file), IsLast(m), NEW n \in 1..Len(file), IsLast(n),
         file[m].p < file[n].p
  PROVE  n - Span(file[n].p) >= m
<1> DEFINE q == file[n].p
           k == n - Span(q) + 1
<1>1. /\ q \in 1..Len(phys) /\ Span(q) \in Nat
      /\ k \in 1..n /\ k \in 1..Len(file) /\ file[k].p = q
  BY FirstCell
<1>2. file[m].p > 0 /\ file[m].p \in Nat /\ Len(phys) \in Nat /\ Len(file) \in Nat
  BY WriterFacts DEF IsLast
<1>3. ~(k < m)
  <2> SUFFICES ASSUME k < m PROVE FALSE
    OBVIOUS
  <2> HIDE DEF k
  <2>1. file[k].p <= file[m].p
    BY <1>1, <1>2, Order
  <2> QED  BY <1>1, <1>2, <2>1
<1>4. k # m
  <2> HIDE DEF k
  <2> QED  BY <1>1, <1>2
<1> QED  BY <1>1, <1>2, <1>3, <1>4

\* With the end of fragment p - 1 behind the reader, and m less than a header
\* behind it, m is that end.
LEMMA InTurn ==
  ASSUME WriterTypes, FileInv, NEW c \in Nat, c < Len(file), file[c + 1].p > 0, file[c + 1].i = 1,
         NEW m \in 1..Len(file), IsLast(m), m <= c, c < m + HeaderSize,
         NEW e \in 1..c, file[e] = Cell(file[c + 1].p - 1, Span(file[c + 1].p - 1))
  PROVE  file[m].p = file[c + 1].p - 1 /\ file[c + 1].p > 1
<1> DEFINE p == file[c + 1].p
<1>1. Len(file) \in Nat /\ c + 1 \in 1..Len(file) /\ e \in 1..Len(file) /\ Len(phys) \in Nat /\ p \in Nat
  <2>1. Len(file) \in Nat /\ c + 1 \in 1..Len(file) /\ e \in 1..Len(file) /\ Len(phys) \in Nat
    BY WriterFacts
  <2> QED  BY <2>1, WriterFacts
<1>2. /\ file[m].p \in 1..Len(phys) /\ p \in 1..Len(phys) /\ file[m].p <= p
      /\ file[m].p = p => (c + 1) - m = 1 - file[m].i
  <2>1. m < c + 1 /\ file[m].p > 0
    BY <1>1 DEF IsLast
  <2> QED  BY <1>1, <2>1, Order
<1>3. Span(file[m].p) \in Nat /\ Span(file[m].p) > 0 /\ file[m].i = Span(file[m].p)
  BY <1>2, WriterFacts DEF IsLast
<1>4. file[m].p < p
  BY <1>1, <1>2, <1>3, SMTT(60)
<1>5. p - 1 \in 1..Len(phys) /\ p - 1 > 0
  BY <1>2, <1>4, SMTT(60)
<1>6. IsLast(e) /\ file[e].p = p - 1
  BY <1>5 DEF IsLast, Cell
<1>7. Span(p - 1) \in Nat /\ Span(p - 1) >= HeaderSize
  BY <1>5, WriterFacts
<1>8. ~(file[m].p < p - 1)
  <2> SUFFICES ASSUME file[m].p < p - 1 PROVE FALSE
    OBVIOUS
  <2>1. e - Span(p - 1) >= m
    BY <1>1, <1>6, AllAfter
  <2> QED  BY <1>1, <1>7, <2>1, Sizing
<1> QED  BY <1>1, <1>2, <1>4, <1>5, <1>8

\* What continues a record after an end is continued after that end.
LEMMA NextAfterEnd ==
  ASSUME WriterTypes, HistoryInv, FileInv, NEW m \in 1..Len(file), IsLast(m), Ends(file[m].p),
         NEW k \in 1..Len(file), k > m, file[k].p > 0, ~Begins(file[k].p)
  PROVE  \E n \in (m + 1)..(k - 1) : file[n] = Cell(file[k].p - 1, Span(file[k].p - 1))
<1> DEFINE p == file[m].p
           s == file[k].p
<1>1. PICK n \in 1..(k - 1) : file[n] = Cell(s - 1, Span(s - 1))
  BY DEF FileInv
<1>2. Len(file) \in Nat /\ n \in 1..Len(file) /\ p > 0 /\ file[m].i = Span(p) /\ Len(phys) \in Nat
  BY <1>1, WriterFacts DEF IsLast
<1>3. p \in 1..Len(phys) /\ s \in 1..Len(phys) /\ p <= s /\ (p = s => k - m = file[k].i - Span(p))
  BY <1>2, Order
<1>4. Span(p) \in Nat /\ file[k].i \in Nat /\ file[k].i \in 1..Span(s)
  <2>1. file[k].i \in 1..Span(s)
    BY DEF FileInv
  <2> QED  BY <1>3, <2>1, WriterFacts
<1>5. p < s
  <2> SUFFICES ASSUME p = s PROVE FALSE
    BY <1>2, <1>3
  <2>1. k - m > 0 /\ file[k].i <= Span(p)
    BY <1>2, <1>4
  <2> QED  BY <1>2, <1>3, <1>4, <2>1
<1>6. p # s - 1
  <2> SUFFICES ASSUME p = s - 1 PROVE FALSE
    OBVIOUS
  <2>1. phys[s - 1].rec = phys[s].rec
    BY <1>3 DEF HistoryInv
  <2>2. phys[p].rec < phys[s].rec
    BY <1>3, <1>5 DEF HistoryInv
  <2>3. phys[p].rec \in Nat
    BY <1>3, WriterFacts
  <2> QED  BY <2>1, <2>2, <2>3
<1>7. p < s - 1 /\ s - 1 > 0 /\ s - 1 \in 1..Len(phys)
  BY <1>2, <1>3, <1>5, <1>6, SMTT(60)
<1>8. file[n].p = s - 1
  BY <1>1 DEF Cell
<1>9. ~(n < m)
  <2> SUFFICES ASSUME n < m PROVE FALSE
    OBVIOUS
  <2>1. file[n].p <= file[m].p
    BY <1>2, <1>7, <1>8, Order
  <2> QED  BY <1>2, <1>3, <1>7, <1>8, <2>1
<1>10. n # m
  BY <1>3, <1>7, <1>8
<1>11. n \in (m + 1)..(k - 1)
  BY <1>1, <1>2, <1>9, <1>10
<1> QED  BY <1>1, <1>11

LEMMA FieldTypes ==
  ASSUME NEW rd \in Readers
  PROVE  /\ rd.pos \in Nat /\ rd.buffer \in Seq(FileCells) /\ rd.eof \in BOOLEAN /\ rd.end_of_buffer \in Nat
         /\ rd.initial \in Nat /\ rd.last_record \in Nat /\ rd.resyncing \in BOOLEAN
         /\ rd.in_fragmented \in BOOLEAN /\ rd.scratch \in Seq(Nat \X Nat) /\ rd.prospective \in Nat
         /\ rd.started \in BOOLEAN /\ rd.done \in BOOLEAN /\ Len(rd.buffer) \in Nat /\ Place(rd) \in Int
  BY DEF Readers, Place

LEMMA PlaceFacts ==
  ASSUME WriterTypes, NEW rd \in Readers, BufferOf(rd)
  PROVE  /\ Place(rd) \in Nat /\ rd.pos = Place(rd) + Len(rd.buffer) /\ Len(rd.buffer) \in Nat /\ rd.pos \in Nat
         /\ rd.end_of_buffer = rd.pos
         /\ \A j \in 1..Len(rd.buffer) : Place(rd) + j \in 1..Len(file) /\ rd.buffer[j] = file[Place(rd) + j]
<1>1. rd.pos \in Nat /\ Len(rd.buffer) \in Nat /\ Len(file) \in Nat
  BY FieldTypes, WriterFacts
<1>2. Len(rd.buffer) <= rd.pos /\ rd.end_of_buffer = rd.pos
  BY DEF BufferOf
<1>3. Place(rd) \in Nat /\ rd.pos = Place(rd) + Len(rd.buffer)
  BY <1>1, <1>2 DEF Place
<1>4. \A j \in 1..Len(rd.buffer) : Place(rd) + j <= Len(file) /\ rd.buffer[j] = file[Place(rd) + j]
  BY DEF BufferOf
<1> QED  BY <1>1, <1>2, <1>3, <1>4

\* The boundary before an offset that is before the end of block b is not after b.
LEMMA SameBlock ==
  ASSUME NEW a \in Nat, a % BlockSize = 0, NEW b \in Nat, b % BlockSize = 0, NEW c \in Nat,
         a <= c, c < b + BlockSize
  PROVE  a <= b
<1>1. b < a => b + BlockSize <= a
  BY Boundaries
<1> QED  BY <1>1, Sizing

\* A buffer that is not the last one ends with a block; a physical record at
\* its front is all in it.
LEMMA EndOfBlock ==
  ASSUME WriterTypes, FileInv, AlignInv, failures = 0, NEW rd \in Readers, BufferOf(rd), StepOf(rd), ~rd.eof,
         Len(rd.buffer) > 0
  PROVE  /\ \E base \in Nat : base % BlockSize = 0 /\ base <= Place(rd) /\ rd.pos = base + BlockSize
         /\ file[Place(rd) + 1].p > 0 => Place(rd) + Span(file[Place(rd) + 1].p) <= rd.pos
<1> DEFINE c == Place(rd)
<1>1. /\ c \in Nat /\ rd.pos = c + Len(rd.buffer) /\ Len(rd.buffer) \in Nat /\ rd.pos \in Nat
      /\ \A j \in 1..Len(rd.buffer) : c + j \in 1..Len(file)
  BY PlaceFacts
<1>2. c + 1 \in 1..Len(file)
  BY <1>1
<1>3. rd.pos % BlockSize = 0 /\ OneBlock(c, rd.pos) /\ (file[c + 1].p > 0 => file[c + 1].i = 1)
  BY DEF StepOf
<1> HIDE DEF c
<1>4. PICK base \in 0..c : base % BlockSize = 0 /\ rd.pos <= base + BlockSize
  BY <1>3 DEF OneBlock
<1>5. base \in Nat /\ base <= c /\ base < rd.pos
  BY <1>1, <1>4
<1>6. rd.pos = base + BlockSize
  <2>1. base + BlockSize <= rd.pos
    BY <1>1, <1>3, <1>4, <1>5, Boundaries
  <2> QED  BY <1>1, <1>4, <1>5, <2>1, Sizing
<1>7. ASSUME file[c + 1].p > 0 PROVE c + Span(file[c + 1].p) <= rd.pos
  <2> DEFINE p == file[c + 1].p
  <2>1. PICK j \in 1..Len(file) : j = c + 1
    BY <1>2
  <2>2. p \in 1..Len(phys) /\ Span(p) \in Nat
    <3>1. p <= Len(phys)
      BY <1>2, <1>7 DEF FileInv
    <3>2. p \in 1..Len(phys)
      BY <1>2, <1>7, <3>1, WriterFacts
    <3> QED  BY <3>2, WriterFacts
  <2>3. OneBlock(j - file[j].i, j - file[j].i + Span(file[j].p))
    BY <1>7, <2>1 DEF AlignInv
  <2>4. PICK b \in 0..c : b % BlockSize = 0 /\ c + Span(p) <= b + BlockSize
    <3>1. PICK b \in 0..(j - file[j].i) : b % BlockSize = 0 /\ j - file[j].i + Span(file[j].p) <= b + BlockSize
      BY <2>3 DEF OneBlock
    <3>2. j - file[j].i = c
      BY <1>1, <1>3, <1>7, <2>1
    <3> QED  BY <2>1, <3>1, <3>2
  <2>5. b \in Nat /\ b <= c /\ c < base + BlockSize
    BY <1>1, <1>6, <2>4
  <2>6. b <= base
    BY <1>1, <1>4, <1>5, <2>4, <2>5, SameBlock
  <2> QED  BY <1>1, <1>5, <1>6, <2>2, <2>4, <2>5, <2>6, Sizing
<1> QED  BY <1>4, <1>5, <1>6, <1>7 DEF c

\* What is skipped to load the next block is a trailer.
LEMMA SkipZero ==
  ASSUME WriterTypes, FileInv, AlignInv, failures = 0, NEW rd \in Readers, BufferOf(rd), StepOf(rd), ~rd.eof,
         Len(rd.buffer) < HeaderSize
  PROVE  \A k \in (Place(rd) + 1)..rd.pos : file[k].p = 0
<1> DEFINE c == Place(rd)
<1>1. /\ c \in Nat /\ rd.pos = c + Len(rd.buffer) /\ Len(rd.buffer) \in Nat /\ rd.pos \in Nat
      /\ \A j \in 1..Len(rd.buffer) : c + j \in 1..Len(file)
  BY PlaceFacts
<1> HIDE DEF c
<1>2. CASE Len(rd.buffer) = 0
  BY <1>1, <1>2 DEF c
<1>3. CASE Len(rd.buffer) > 0
  <2>1. c + 1 \in 1..Len(file) /\ rd.pos \in 1..Len(file) /\ Len(file) \in Nat
    <3>1. 1 \in 1..Len(rd.buffer) /\ Len(rd.buffer) \in 1..Len(rd.buffer)
      BY <1>1, <1>3
    <3> QED  BY <1>1, <3>1, WriterFacts
  <2>2. /\ \E base \in Nat : base % BlockSize = 0 /\ base <= c /\ rd.pos = base + BlockSize
        /\ file[c + 1].p > 0 => c + Span(file[c + 1].p) <= rd.pos
    BY <1>3, EndOfBlock DEF c
  <2>3. PICK base \in Nat : base % BlockSize = 0 /\ base <= c /\ rd.pos = base + BlockSize
    BY <2>2
  <2>4. file[c + 1].p = 0
    <3> SUFFICES ASSUME file[c + 1].p # 0 PROVE FALSE
      OBVIOUS
    <3>1. file[c + 1].p \in Nat /\ file[c + 1].p > 0
      BY <2>1, WriterFacts
    <3>2. file[c + 1].p <= Len(phys) /\ Len(phys) \in Nat
      BY <2>1, <3>1, WriterFacts DEF FileInv
    <3>3. file[c + 1].p \in 1..Len(phys)
      BY <3>1, <3>2
    <3>4. Span(file[c + 1].p) \in Nat /\ Span(file[c + 1].p) >= HeaderSize
      BY <3>3, WriterFacts
    <3> QED  BY <1>1, <2>2, <3>1, <3>4, Sizing
  <2>5. PICK b \in 0..((c + 1) - 1) :
          /\ b % BlockSize = 0 /\ c + 1 <= b + BlockSize
          /\ \A k \in (c + 1)..(b + BlockSize) : k <= Len(file) => file[k].p = 0
    BY <2>1, <2>4 DEF AlignInv
  <2>6. b \in Nat /\ base <= b
    <3>1. b \in Nat /\ c < b + BlockSize
      BY <1>1, <2>5, Sizing
    <3> QED  BY <1>1, <2>3, <2>5, <3>1, SameBlock
  <2>7. \A k \in (c + 1)..rd.pos : k \in (c + 1)..(b + BlockSize) /\ k <= Len(file)
    BY <1>1, <2>1, <2>3, <2>6, Sizing
  <2> QED  BY <2>5, <2>7 DEF c
<1> QED  BY <1>1, <1>2, <1>3

\* At the front of a buffer with room for a header there is one.
LEMMA CleanHeader ==
  ASSUME WriterTypes, FileInv, AlignInv, failures = 0, NEW rd \in Readers, BufferOf(rd), StepOf(rd),
         Len(rd.buffer) >= HeaderSize
  PROVE  LET c == Place(rd)
             p == file[c + 1].p
         IN  /\ c + 1 \in 1..Len(file) /\ p \in 1..Len(phys) /\ Span(p) \in Nat /\ Span(p) >= HeaderSize
             /\ file[c + 1].i = 1
             /\ \A i \in 1..Span(p) : c + i <= Len(file) => file[c + i] = Cell(p, i)
<1> DEFINE c == Place(rd)
           p == file[c + 1].p
<1>1. /\ c \in Nat /\ rd.pos = c + Len(rd.buffer) /\ Len(rd.buffer) \in Nat /\ rd.pos \in Nat
      /\ \A j \in 1..Len(rd.buffer) : c + j \in 1..Len(file)
  BY PlaceFacts
<1>2. Len(rd.buffer) > 0 /\ c + 1 \in 1..Len(file)
  BY <1>1, Sizing
<1>3. OneBlock(c, rd.pos) /\ (file[c + 1].p > 0 => file[c + 1].i = 1)
  BY <1>2 DEF StepOf
<1> HIDE DEF c
<1>4. file[c + 1].p # 0
  <2> SUFFICES ASSUME file[c + 1].p = 0 PROVE FALSE
    OBVIOUS
  <2>1. PICK b \in 0..((c + 1) - 1) :
          /\ b % BlockSize = 0
          /\ b + BlockSize - HeaderSize < (c + 1) - 1 /\ c + 1 <= b + BlockSize
    BY <1>2 DEF AlignInv
  <2>2. PICK base \in 0..c : base % BlockSize = 0 /\ rd.pos <= base + BlockSize
    BY <1>3 DEF OneBlock
  <2>3. base \in Nat /\ b \in Nat /\ base <= c /\ c < b + BlockSize
    BY <1>1, <2>1, <2>2, Sizing
  <2>4. base <= b
    BY <1>1, <2>1, <2>2, <2>3, SameBlock
  <2> QED  BY <1>1, <2>1, <2>2, <2>3, <2>4, Sizing
<1>5. p \in Nat /\ p > 0 /\ Len(phys) \in Nat /\ Len(file) \in Nat
  BY <1>2, <1>4, WriterFacts
<1>6. p \in 1..Len(phys)
  <2>1. p <= Len(phys)
    BY <1>2, <1>5 DEF FileInv
  <2> QED  BY <1>5, <2>1
<1>7. Span(p) \in Nat /\ Span(p) >= HeaderSize
  BY <1>6, WriterFacts
<1>8. \A i \in 1..Span(p) : (c + 1) + i - 1 <= Len(file) => file[(c + 1) + i - 1] = Cell(p, i)
  BY <1>2, <1>3, <1>5 DEF AlignInv
<1>9. ASSUME NEW i \in 1..Span(p), c + i <= Len(file) PROVE file[c + i] = Cell(p, i)
  <2>1. (c + 1) + i - 1 = c + i
    BY <1>1, <1>7
  <2> QED  BY <1>8, <1>9, <2>1
<1> QED  BY <1>2, <1>3, <1>5, <1>6, <1>7, <1>9 DEF c

\* The end of an acknowledged record that was not delivered is ahead, with
\* all of its last fragment.
LEMMA Ahead ==
  ASSUME WriterInv, failures = 0, phase = "read", NEW rd \in Readers, BufferOf(rd), AssemblyOf(rd), ~rd.done,
         NEW r \in Acknowledged,
         records[r].offset >= Place(rd) \/ (rd.in_fragmented /\ records[r].offset = rd.prospective)
  PROVE  \E e \in 1..Len(file) : /\ IsLast(e) /\ Ends(file[e].p) /\ phys[file[e].p].rec = r
                                 /\ e - Span(file[e].p) >= Place(rd)
<1>1. WriterTypes /\ HistoryInv /\ FileInv /\ AckInv
  BY DEF WriterInv
<1>2. Started(r) /\ \E e \in 1..Len(file) : IsLast(e) /\ Ends(file[e].p) /\ phys[file[e].p].rec = r
  BY <1>1 DEF AckInv
<1>3. PICK e \in 1..Len(file) : IsLast(e) /\ Ends(file[e].p) /\ phys[file[e].p].rec = r
  BY <1>2
<1> DEFINE c == Place(rd)
           q == file[e].p
           k == e - Span(q) + 1
<1>4. c \in Nat /\ Len(file) \in Nat /\ Len(phys) \in Nat
  BY <1>1, PlaceFacts, WriterFacts
<1>5. /\ q \in 1..Len(phys) /\ Span(q) \in Nat /\ Span(q) >= HeaderSize
      /\ k \in 1..e /\ k \in 1..Len(file) /\ file[k].p = q /\ file[k].i = 1
  BY <1>1, <1>3, FirstCell
<1> HIDE DEF c
<1>6. CASE records[r].offset >= c
  <2> DEFINE o == records[r].offset
             p == file[o + 1].p
  <2>1. o \in 0..(Len(file) - 1) /\ p > 0 /\ file[o + 1].i = 1 /\ phys[p].rec = r
    BY <1>2 DEF Started
  <2>2. o \in Nat /\ o + 1 \in 1..Len(file)
    BY <1>4, <2>1
  <2> HIDE DEF o
  <2>3. p \in 1..Len(phys)
    <3>1. p \in Nat /\ p <= Len(phys)
      BY <1>1, <2>1, <2>2, WriterFacts DEF FileInv
    <3> QED  BY <1>4, <2>1, <3>1
  <2>4. ~(q < p)
    <3>1. q < p => phys[q].rec < phys[p].rec
      BY <1>1, <1>3, <1>5, <2>3 DEF HistoryInv
    <3>2. phys[q].rec = phys[p].rec /\ phys[p].rec \in Nat
      BY <1>1, <1>3, <2>1, <2>3, WriterFacts
    <3> QED  BY <3>1, <3>2
  <2> HIDE DEF k
  <2>5. ~(k < o + 1)
    <3> SUFFICES ASSUME k < o + 1 PROVE FALSE
      OBVIOUS
    <3>1. file[k].p > 0 /\ file[o + 1].p > 0
      BY <1>5, <2>1
    <3>2. q <= p /\ (q = p => (o + 1) - k = 1 - 1)
      BY <1>1, <1>5, <2>1, <2>2, <3>1, Order
    <3> QED  BY <1>5, <2>2, <2>3, <2>4, <3>2
  <2>6. k - 1 >= c
    BY <1>4, <1>5, <1>6, <2>2, <2>5 DEF o
  <2>7. e - Span(q) >= c
    BY <1>4, <1>5, <2>6 DEF k
  <2> QED  BY <1>3, <2>7 DEF c
<1>7. CASE rd.in_fragmented /\ records[r].offset = rd.prospective
  <2>1. PICK m \in 1..Len(file) : AssemblyAt(rd, m)
    BY <1>7 DEF AssemblyOf
  <2> DEFINE s == phys[file[m].p].rec
  <2>2. /\ IsLast(m) /\ ~Ends(file[m].p) /\ Started(s) /\ records[s].offset = rd.prospective
        /\ \A j \in (m + 1)..c : file[j].p = 0
    BY <2>1 DEF AssemblyAt, c
  <2>3. s = r
    BY <1>2, <1>7, <2>2 DEF Started
  <2>4. file[m].p \in 1..Len(phys)
    BY <1>1, <2>2, FirstCell
  <2>5. file[m].p < q
    <3>1. q < file[m].p => phys[q].rec < s
      BY <1>1, <1>3, <1>5, <2>4 DEF HistoryInv
    <3>2. phys[q].rec = s /\ s \in Nat
      BY <1>1, <1>3, <2>3, <2>4, WriterFacts
    <3>3. file[m].p # q
      BY <1>3, <2>2
    <3> QED  BY <1>4, <1>5, <2>4, <3>1, <3>2, <3>3, SMTT(60)
  <2>6. e - Span(q) >= m
    BY <1>1, <1>3, <2>2, <2>5, AllAfter
  <2>7. ~(k <= c)
    <3> SUFFICES ASSUME k <= c PROVE FALSE
      OBVIOUS
    <3>1. k \in (m + 1)..c
      BY <1>4, <1>5, <2>6
    <3> HIDE DEF k
    <3> QED  BY <1>5, <2>2, <3>1
  <2>8. e - Span(q) >= c
    BY <1>4, <1>5, <2>7
  <2> QED  BY <1>3, <2>8 DEF c
<1> QED  BY <1>6, <1>7 DEF c

-------------------------------------------------------------------------------
(* The reader's steps. *)

\* A reader as constructed, at any file.
LEMMA FreshHolds ==
  ASSUME WriterInv, NEW offset \in Nat, NEW rd, rd = NewReader(offset)
  PROVE  Holds(rd, <<>>, 0)
<1>1. WriterTypes /\ HistoryInv /\ FileInv /\ AckInv
  BY DEF WriterInv
<1>2. /\ rd \in Readers /\ rd.pos = 0 /\ rd.buffer = <<>> /\ ~rd.eof /\ rd.end_of_buffer = 0 /\ rd.initial = offset
      /\ rd.last_record = 0 /\ (rd.resyncing <=> offset > 0) /\ ~rd.in_fragmented /\ rd.scratch = <<>>
      /\ ~rd.started /\ ~rd.done
  <2>1. PICK flag \in BOOLEAN : flag = (offset > 0)
    <3>1. CASE offset > 0
      <4>1. TRUE = (offset > 0) /\ TRUE \in BOOLEAN
        BY <3>1
      <4> QED  BY <4>1, Zenon
    <3>2. CASE ~(offset > 0)
      <4>1. FALSE = (offset > 0) /\ FALSE \in BOOLEAN
        BY <3>2
      <4> QED  BY <4>1, Zenon
    <3> QED  BY <3>1, <3>2
  <2>2. rd = [pos |-> 0, buffer |-> <<>>, eof |-> FALSE, end_of_buffer |-> 0, initial |-> offset, last_record |-> 0,
              resyncing |-> flag, in_fragmented |-> FALSE, scratch |-> <<>>, prospective |-> 0, started |-> FALSE,
              done |-> FALSE]
    BY <2>1 DEF NewReader
  <2>3. <<>> \in Seq(FileCells) /\ <<>> \in Seq(Nat \X Nat) /\ 0 \in Nat /\ FALSE \in BOOLEAN
    OBVIOUS
  <2>4. rd \in Readers
    BY <2>1, <2>2, <2>3 DEF Readers
  <2>5. /\ rd.pos = 0 /\ rd.buffer = <<>> /\ rd.eof = FALSE /\ rd.end_of_buffer = 0 /\ rd.initial = offset
        /\ rd.last_record = 0 /\ rd.resyncing = flag /\ rd.in_fragmented = FALSE /\ rd.scratch = <<>>
        /\ rd.started = FALSE /\ rd.done = FALSE
    BY <2>2
  <2> QED  BY <2>1, <2>4, <2>5
<1>3. Place(rd) = 0 /\ Len(rd.buffer) = 0
  <2>1. Len(rd.buffer) = 0 /\ rd.pos = 0
    BY <1>2
  <2> QED  BY <2>1 DEF Place
<1>4. TypesOf(rd, <<>>, 0) /\ BufferOf(rd) /\ AssemblyOf(rd) /\ GenuineOf(<<>>) /\ DeliveredOf(rd, <<>>)
  <2>1. TypesOf(rd, <<>>, 0)
    BY <1>2 DEF TypesOf
  <2>2. BufferOf(rd)
    BY <1>2, <1>3 DEF BufferOf
  <2> QED  BY <1>2, <2>1, <2>2 DEF AssemblyOf, GenuineOf, DeliveredOf
<1>5. StepOf(rd)
  <2>1. 0 % BlockSize = 0
    BY Sizing
  <2> QED  BY <1>2, <1>3, <2>1 DEF StepOf
<1>6. SilentOf(rd, 0)
  <2> SUFFICES ASSUME offset = 0, NEW k \in 1..Len(file), file[k].p > 0, ~Begins(file[k].p)
               PROVE  \E m \in 1..(k - 1) : file[m] = Cell(file[k].p - 1, Span(file[k].p - 1))
    BY <1>2, <1>3 DEF SilentOf
  <2> QED  BY <1>1 DEF FileInv
<1>7. ProgressOf(rd, <<>>)
  <2> SUFFICES ASSUME failures = 0, NEW r \in Acknowledged PROVE records[r].offset >= 0
    BY <1>2, <1>3 DEF ProgressOf
  <2>1. Started(r)
    BY <1>1 DEF AckInv
  <2>2. Len(file) \in Nat
    BY <1>1, WriterFacts
  <2> QED  BY <2>1, <2>2 DEF Started
<1> QED  BY <1>4, <1>5, <1>6, <1>7 DEF Holds

\* What holds of the next reader holds of it in the next state: the reader
\* does not change the file.
LEMMA Transfer ==
  ASSUME UNCHANGED <<phase, writerVars>>, NEW rd, NEW dl, NEW rp, Holds(rd, dl, rp),
         reader' = rd, delivered' = dl, reports' = rp
  PROVE  ReaderInv'
<1>1. file' = file /\ phys' = phys /\ records' = records /\ failures' = failures
  BY DEF writerVars
<1>2. TypesOf(reader, delivered, reports)'
  BY DEF Holds, TypesOf
<1>3. BufferOf(reader)'
  BY <1>1 DEF Holds, BufferOf, Place
<1>4. AssemblyOf(reader)'
  <2>1. \A m : AssemblyAt(rd, m) => AssemblyAt(reader, m)'
    BY <1>1 DEF AssemblyAt, Place, Started, Begins, Ends, IsLast, Span, Bytes
  <2>2. AssemblyOf(rd)
    BY DEF Holds
  <2> QED  BY <1>1, <2>1, <2>2 DEF AssemblyOf
<1>5. GenuineOf(delivered)'
  <2>1. \A r : Whole(r)' = Whole(r)
    BY <1>1 DEF Whole
  <2> QED  BY <2>1 DEF Holds, GenuineOf, Whole
<1>6. DeliveredOf(reader, delivered)'
  BY <1>1 DEF Holds, DeliveredOf, Place, IsLast, Span, Ends
<1>7. StepOf(reader)'
  BY <1>1 DEF Holds, StepOf, Place, OneBlock
<1>8. SilentOf(reader, reports)'
  BY <1>1 DEF Holds, SilentOf, Place, Begins, Cell, Span
<1>9. ProgressOf(reader, delivered)'
  BY <1>1 DEF Holds, ProgressOf, Place, Acknowledged
<1> QED  BY <1>2, <1>3, <1>4, <1>5, <1>6, <1>7, <1>8, <1>9 DEF ReaderInv, Holds

\* The reader's place only advances.
LEMMA DeliveredKept ==
  ASSUME NEW old \in Readers, NEW rd \in Readers, NEW dl, DeliveredOf(old, dl), Place(rd) >= Place(old),
         rd.initial = old.initial
  PROVE  DeliveredOf(rd, dl)
<1>1. Place(rd) \in Int /\ Place(old) \in Int
  BY FieldTypes
<1> QED  BY <1>1 DEF DeliveredOf

\* SkipToInitialBlock passes no record that starts at or after the initial offset.
LEMMA SkipHolds ==
  ASSUME WriterInv, Holds(reader, delivered, reports), ~reader.started, NEW rd,
         rd = IF reader.last_record < reader.initial
              THEN [reader EXCEPT !.started = TRUE, !.pos = BlockStart(reader.initial),
                                  !.end_of_buffer = BlockStart(reader.initial)]
              ELSE [reader EXCEPT !.started = TRUE]
  PROVE  Holds(rd, delivered, reports)
<1>1. WriterTypes /\ HistoryInv /\ FileInv /\ AckInv /\ AlignInv
  BY DEF WriterInv
<1>2. /\ TypesOf(reader, delivered, reports) /\ reader \in Readers /\ BufferOf(reader) /\ GenuineOf(delivered)
      /\ DeliveredOf(reader, delivered)
      /\ StepOf(reader) /\ SilentOf(reader, reports) /\ ProgressOf(reader, delivered)
  BY DEF Holds, TypesOf
<1>3. /\ reader.pos = 0 /\ reader.buffer = <<>> /\ reader.last_record = 0
      /\ ~reader.in_fragmented /\ ~reader.done /\ ~reader.eof /\ reader.end_of_buffer = 0
  BY <1>2 DEF BufferOf
<1> DEFINE b == IF 0 < reader.initial THEN BlockStart(reader.initial) ELSE 0
           in == reader.initial % BlockSize
           floor == reader.initial - in
<1>4. reader.initial \in Nat
  BY <1>2, FieldTypes
<1>5. in \in Nat /\ floor \in Nat /\ floor <= reader.initial /\ reader.initial = floor + in /\ floor % BlockSize = 0
  <2>1. in \in Nat /\ in <= reader.initial /\ floor % BlockSize = 0
    BY <1>4, Floor
  <2> QED  BY <1>4, <2>1
<1>6. BlockStart(reader.initial) = IF in > BlockSize - (HeaderSize - 1) THEN floor + BlockSize ELSE floor
  <2>1. BlockStart(reader.initial) = floor + IF in > BlockSize - (HeaderSize - 1) THEN BlockSize ELSE 0
    BY DEF BlockStart
  <2> HIDE DEF in, floor
  <2> QED  BY <1>5, <2>1, Sizing
<1> HIDE DEF in, floor
<1>7. BlockStart(reader.initial) \in Nat /\ BlockStart(reader.initial) % BlockSize = 0
  <2>1. (floor + BlockSize) % BlockSize = 0 /\ floor + BlockSize \in Nat
    <3>1. floor \in Nat /\ floor % BlockSize = 0
      BY <1>5
    <3>2. (floor + BlockSize) % BlockSize = 0
      BY <3>1, Boundaries
    <3> QED  BY <3>1, <3>2, Sizing
  <2> QED  BY <1>5, <1>6, <2>1
<1>8. b \in Nat /\ b % BlockSize = 0
  <2>1. 0 % BlockSize = 0
    BY Sizing
  <2> QED  BY <1>7, <2>1
<1>9. /\ rd \in Readers /\ rd.pos = b /\ rd.end_of_buffer = b /\ rd.buffer = <<>> /\ rd.eof = reader.eof
      /\ rd.initial = reader.initial /\ rd.last_record = 0 /\ rd.resyncing = reader.resyncing
      /\ rd.in_fragmented = reader.in_fragmented /\ rd.started /\ rd.done = reader.done
  <2>1. CASE 0 < reader.initial
    <3>1. rd = [reader EXCEPT !.started = TRUE, !.pos = BlockStart(reader.initial),
                              !.end_of_buffer = BlockStart(reader.initial)]
      BY <1>3, <2>1
    <3> QED  BY <1>2, <1>3, <1>7, <2>1, <3>1 DEF Readers
  <2>2. CASE ~(0 < reader.initial)
    <3>1. rd = [reader EXCEPT !.started = TRUE]
      BY <1>3, <2>2
    <3> QED  BY <1>2, <1>3, <2>2, <3>1 DEF Readers
  <2> QED  BY <2>1, <2>2
<1>10. Place(rd) = b /\ Place(reader) = 0 /\ Len(rd.buffer) = 0
  <2> HIDE DEF b
  <2>1. Len(rd.buffer) = 0 /\ Len(reader.buffer) = 0 /\ reader.pos = 0 /\ rd.pos = b /\ b \in Nat
    BY <1>3, <1>8, <1>9
  <2> QED  BY <2>1 DEF Place
<1> HIDE DEF b
<1>11. TypesOf(rd, delivered, reports)
  BY <1>2, <1>9 DEF TypesOf
<1>12. BufferOf(rd)
  <2>1. Len(rd.buffer) <= rd.pos
    BY <1>8, <1>9, <1>10
  <2> QED  BY <1>2, <1>3, <1>9, <1>10, <2>1 DEF BufferOf
<1>13. AssemblyOf(rd)
  BY <1>3, <1>9 DEF AssemblyOf
<1>14. DeliveredOf(rd, delivered)
  <2>1. Place(rd) >= Place(reader)
    BY <1>8, <1>10
  <2> QED  BY <1>2, <1>9, <2>1, DeliveredKept
<1>15. StepOf(rd)
  BY <1>3, <1>8, <1>9, <1>10 DEF StepOf
<1>16. SilentOf(rd, reports)
  <2> SUFFICES ASSUME reader.initial = 0 PROVE SilentOf(rd, reports)
    BY <1>9 DEF SilentOf
  <2>1. Place(rd) = Place(reader)
    BY <1>10 DEF b
  <2> QED  BY <1>2, <1>9, <2>1 DEF SilentOf
<1>17. ProgressOf(rd, delivered)
  <2> SUFFICES ASSUME failures = 0, NEW r \in Acknowledged, ~(records[r].offset < reader.initial)
               PROVE  records[r].offset >= b
    BY <1>3, <1>9, <1>10 DEF ProgressOf
  <2> DEFINE o == records[r].offset
             p == file[o + 1].p
  <2>1. Started(r)
    BY <1>1 DEF AckInv
  <2>2. o \in 0..(Len(file) - 1) /\ p > 0 /\ file[o + 1].i = 1 /\ Len(file) \in Nat /\ Len(phys) \in Nat
    BY <1>1, <2>1, WriterFacts DEF Started
  <2>3. o \in Nat /\ o + 1 \in 1..Len(file) /\ o >= reader.initial
    BY <1>4, <2>2
  <2> HIDE DEF o
  <2>4. p \in 1..Len(phys) /\ Span(p) \in Nat /\ Span(p) >= HeaderSize
    <3>1. p \in Nat /\ p <= Len(phys)
      BY <1>1, <2>2, <2>3, WriterFacts DEF FileInv
    <3>2. p \in 1..Len(phys)
      BY <2>2, <3>1
    <3> QED  BY <1>1, <3>2, WriterFacts
  <2>5. CASE 0 < reader.initial /\ in > BlockSize - (HeaderSize - 1)
    <3>1. b = floor + BlockSize
      BY <1>6, <2>5 DEF b
    <3>2. PICK j \in 1..Len(file) : j = o + 1
      BY <2>3
    <3>3. OneBlock(j - file[j].i, j - file[j].i + Span(file[j].p))
      BY <1>1, <2>2, <3>2 DEF AlignInv
    <3>4. PICK a \in 0..o : a % BlockSize = 0 /\ o + Span(p) <= a + BlockSize
      <4>1. PICK a \in 0..(j - file[j].i) : a % BlockSize = 0 /\ j - file[j].i + Span(file[j].p) <= a + BlockSize
        BY <3>3 DEF OneBlock
      <4>2. j - file[j].i = o
        BY <2>2, <2>3, <3>2
      <4> QED  BY <3>2, <4>1, <4>2
    <3>5. a \in Nat /\ a <= o
      BY <2>3, <3>4
    <3>6. floor < a
      BY <1>5, <2>3, <2>4, <2>5, <3>4, <3>5, Sizing, SMTT(60)
    <3>7. floor + BlockSize <= a
      BY <1>5, <3>4, <3>5, <3>6, Boundaries
    <3>8. o >= b
      BY <1>5, <2>3, <3>1, <3>5, <3>7, Sizing
    <3> QED  BY <3>8 DEF o
  <2>6. CASE ~(0 < reader.initial /\ in > BlockSize - (HeaderSize - 1))
    <3>1. b <= reader.initial
      BY <1>4, <1>5, <1>6, <2>6 DEF b
    <3>2. o >= b
      BY <1>4, <1>8, <2>3, <3>1
    <3> QED  BY <3>2 DEF o
  <2> QED  BY <2>5, <2>6
<1> QED  BY <1>2, <1>11, <1>12, <1>13, <1>14, <1>15, <1>16, <1>17 DEF Holds

LEMMA Slice ==
  ASSUME NEW S, NEW s \in Seq(S), NEW a \in Nat, NEW n \in Nat, n <= Len(s)
  PROVE  LET t == SubSeq(s, a + 1, n)
         IN  /\ t \in Seq(S) /\ Len(t) = (IF n > a THEN n - a ELSE 0)
             /\ \A j \in 1..Len(t) : t[j] = s[a + j]
<1> DEFINE t == SubSeq(s, a + 1, n)
<1>1. CASE n > a
  <2>1. a + 1 \in 1..Len(s) /\ n \in 1..Len(s) /\ Len(s) \in Nat
    BY <1>1
  <2>2. t \in Seq(S) /\ Len(t) = n - a /\ \A j \in 1..(n - a) : t[j] = s[a + j]
    BY <1>1, <2>1
  <2> QED  BY <1>1, <2>2
<1>2. CASE ~(n > a)
  <2>1. t = <<>>
    BY <1>2
  <2> QED  BY <1>2, <2>1
<1> QED  BY <1>1, <1>2

\* The next block of the file.
LEMMA BlockFacts ==
  ASSUME WriterTypes, NEW pos \in Nat, NEW block, block = Block(pos)
  PROVE  /\ block \in Seq(FileCells) /\ Len(block) \in Nat /\ Len(block) <= BlockSize
         /\ \A j \in 1..Len(block) : pos + j \in 1..Len(file) /\ block[j] = file[pos + j]
         /\ Len(block) < BlockSize => pos + Len(block) >= Len(file)
<1> DEFINE n == Least(pos + BlockSize, Len(file))
<1>1. file \in Seq(FileCells) /\ Len(file) \in Nat
  BY WriterFacts DEF WriterTypes
<1>2. n \in Nat /\ n <= Len(file) /\ n <= pos + BlockSize /\ (n = Len(file) \/ n = pos + BlockSize)
  BY <1>1, Sizing DEF Least
<1>3. block = SubSeq(file, pos + 1, n)
  BY DEF Block
<1> HIDE DEF n
<1>4. /\ block \in Seq(FileCells) /\ Len(block) = (IF n > pos THEN n - pos ELSE 0)
      /\ \A j \in 1..Len(block) : block[j] = file[pos + j]
  BY <1>1, <1>2, <1>3, Slice
<1>5. Len(block) \in Nat /\ Len(block) <= BlockSize /\ (Len(block) < BlockSize => pos + Len(block) >= Len(file))
  BY <1>1, <1>2, <1>4, Sizing
<1>6. \A j \in 1..Len(block) : pos + j \in 1..Len(file)
  BY <1>1, <1>2, <1>4
<1> QED  BY <1>4, <1>5, <1>6

\* At a block boundary no physical record goes on.
LEMMA AtBoundary ==
  ASSUME WriterTypes, FileInv, AlignInv, failures = 0, NEW a \in Nat, a % BlockSize = 0, a + 1 \in 1..Len(file),
         file[a + 1].p > 0
  PROVE  file[a + 1].i = 1
<1>1. PICK j \in 1..Len(file) : j = a + 1
  OBVIOUS
<1> DEFINE p == file[j].p
           i == file[j].i
<1>2. OneBlock(j - i, j - i + Span(p))
  BY <1>1 DEF AlignInv
<1>3. p <= Len(phys) /\ i \in 1..Span(p) /\ i <= j
  BY <1>1 DEF FileInv
<1>4. p \in Nat /\ i \in Nat /\ Len(phys) \in Nat
  BY <1>1, WriterFacts
<1>5. p \in 1..Len(phys)
  BY <1>1, <1>3, <1>4
<1>6. Span(p) \in Nat /\ i >= 1 /\ i <= Span(p)
  <2>1. Span(p) \in Nat
    BY <1>5, WriterFacts
  <2> QED  BY <1>3, <1>4, <2>1
<1>7. PICK base \in 0..(j - i) : base % BlockSize = 0 /\ j - i + Span(p) <= base + BlockSize
  BY <1>2 DEF OneBlock
<1> HIDE DEF p, i
<1>8. base \in Nat /\ base <= j - i
  BY <1>1, <1>3, <1>4, <1>7
<1>9. base < a => base + BlockSize <= a
  BY <1>7, <1>8, Boundaries
<1>10. i = 1
  BY <1>1, <1>4, <1>6, <1>7, <1>8, <1>9, Sizing
<1> QED  BY <1>1, <1>10 DEF i

\* The reader gives up at the end of the file; nothing acknowledged is ahead.
LEMMA GivesUp ==
  ASSUME WriterInv, phase = "read", Holds(reader, delivered, reports), ~reader.done, NEW rd \in Readers,
         rd.pos = reader.pos, rd.buffer = <<>>, rd.eof = reader.eof, rd.end_of_buffer = reader.end_of_buffer,
         rd.initial = reader.initial, rd.resyncing = reader.resyncing, rd.in_fragmented = reader.in_fragmented,
         rd.started, reader.eof, rd.done,
         failures = 0 => \A e \in 1..Len(file) : IsLast(e) => e - Span(file[e].p) < Place(reader)
  PROVE  Holds(rd, delivered, reports)
<1>1. WriterTypes
  BY DEF WriterInv
<1>2. /\ TypesOf(reader, delivered, reports) /\ reader \in Readers /\ BufferOf(reader) /\ GenuineOf(delivered)
      /\ DeliveredOf(reader, delivered) /\ AssemblyOf(reader)
      /\ StepOf(reader) /\ SilentOf(reader, reports) /\ ProgressOf(reader, delivered)
  BY DEF Holds, TypesOf
<1>3. /\ Place(reader) \in Nat /\ reader.pos = Place(reader) + Len(reader.buffer) /\ Len(reader.buffer) \in Nat
      /\ reader.end_of_buffer = reader.pos /\ reader.pos \in Nat
  BY <1>1, <1>2, PlaceFacts
<1>4. Len(rd.buffer) = 0
  OBVIOUS
<1>5. Place(rd) = reader.pos
  BY <1>3, <1>4 DEF Place
<1>6. TypesOf(rd, delivered, reports)
  BY <1>2 DEF TypesOf
<1>7. BufferOf(rd)
  <2>1. Len(rd.buffer) <= rd.pos
    BY <1>3, <1>4
  <2> QED  BY <1>2, <1>3, <1>4, <2>1 DEF BufferOf
<1>8. AssemblyOf(rd)
  BY DEF AssemblyOf
<1>9. DeliveredOf(rd, delivered)
  <2>1. Place(rd) >= Place(reader)
    BY <1>3, <1>5
  <2> QED  BY <1>2, <2>1, DeliveredKept
<1>10. StepOf(rd)
  BY <1>2, <1>4 DEF StepOf
<1>11. SilentOf(rd, reports)
  BY <1>2 DEF SilentOf
<1>12. ProgressOf(rd, delivered)
  <2> SUFFICES ASSUME failures = 0, NEW r \in Acknowledged
               PROVE  records[r].offset < reader.initial \/ \E d \in 1..Len(delivered) : delivered[d].rec = r
    BY DEF ProgressOf
  <2> SUFFICES ASSUME records[r].offset >= Place(reader)
                      \/ (reader.in_fragmented /\ records[r].offset = reader.prospective)
               PROVE  FALSE
    BY <1>2 DEF ProgressOf
  <2>1. PICK e \in 1..Len(file) : IsLast(e) /\ e - Span(file[e].p) >= Place(reader)
    BY <1>2, Ahead
  <2>2. e - Span(file[e].p) < Place(reader)
    BY <2>1
  <2>3. Span(file[e].p) \in Nat
    BY <1>1, <2>1, FirstCell DEF WriterInv
  <2> QED  BY <1>3, <2>1, <2>2, <2>3
<1> QED  BY <1>2, <1>6, <1>7, <1>8, <1>9, <1>10, <1>11, <1>12 DEF Holds

\* LoadBlock skips a trailer, or finds the end of the file.
LEMMA LoadHolds ==
  ASSUME WriterInv, phase = "read", Holds(reader, delivered, reports), ~reader.done, reader.started,
         Len(reader.buffer) < HeaderSize, NEW block, block = Block(reader.pos), NEW rd,
         rd = IF reader.eof
              THEN [reader EXCEPT !.buffer = <<>>, !.done = TRUE]
              ELSE [reader EXCEPT !.buffer = block, !.pos = @ + Len(block),
                                  !.end_of_buffer = @ + Len(block), !.eof = Len(block) < BlockSize]
  PROVE  Holds(rd, delivered, reports)
<1>1. WriterTypes /\ HistoryInv /\ FileInv /\ AckInv /\ AlignInv
  BY DEF WriterInv
<1>2. /\ TypesOf(reader, delivered, reports) /\ reader \in Readers /\ BufferOf(reader) /\ GenuineOf(delivered)
      /\ DeliveredOf(reader, delivered) /\ AssemblyOf(reader)
      /\ StepOf(reader) /\ SilentOf(reader, reports) /\ ProgressOf(reader, delivered)
  BY DEF Holds, TypesOf
<1>3. /\ Place(reader) \in Nat /\ reader.pos = Place(reader) + Len(reader.buffer) /\ Len(reader.buffer) \in Nat
      /\ reader.end_of_buffer = reader.pos /\ reader.pos \in Nat /\ Len(file) \in Nat
  BY <1>1, <1>2, PlaceFacts, WriterFacts
<1>4. CASE reader.eof
  <2>1. rd = [reader EXCEPT !.buffer = <<>>, !.done = TRUE]
    BY <1>4
  <2>2. <<>> \in Seq(FileCells)
    OBVIOUS
  <2>3. /\ rd \in Readers /\ rd.pos = reader.pos /\ rd.buffer = <<>> /\ rd.eof = reader.eof
        /\ rd.end_of_buffer = reader.end_of_buffer
        /\ rd.initial = reader.initial /\ rd.resyncing = reader.resyncing /\ rd.in_fragmented = reader.in_fragmented
        /\ rd.started = reader.started /\ rd.done = TRUE
    BY <1>2, <2>1, <2>2 DEF Readers
  <2>4. ASSUME failures = 0, NEW e \in 1..Len(file), IsLast(e) PROVE e - Span(file[e].p) < Place(reader)
    <3>1. Span(file[e].p) \in Nat /\ Span(file[e].p) >= HeaderSize
      BY <1>1, <2>4, FirstCell
    <3>2. reader.pos >= Len(file)
      BY <1>2, <1>4, <2>4 DEF StepOf
    <3> QED  BY <1>3, <3>1, <3>2, Sizing
  <2> QED  BY <1>4, <2>3, <2>4, GivesUp
<1>5. CASE ~reader.eof
  <2>1. /\ block \in Seq(FileCells) /\ Len(block) \in Nat /\ Len(block) <= BlockSize
        /\ \A j \in 1..Len(block) : reader.pos + j \in 1..Len(file) /\ block[j] = file[reader.pos + j]
        /\ Len(block) < BlockSize => reader.pos + Len(block) >= Len(file)
    BY <1>1, <1>3, BlockFacts
  <2>2. PICK eof \in BOOLEAN : eof <=> Len(block) < BlockSize
    <3>1. CASE Len(block) < BlockSize
      BY <3>1
    <3>2. CASE ~(Len(block) < BlockSize)
      BY <3>2
    <3> QED  BY <3>1, <3>2
  <2>3. PICK n \in Nat : n = reader.pos + Len(block)
    BY <1>3, <2>1
  <2>4. rd = [reader EXCEPT !.buffer = block, !.pos = n, !.end_of_buffer = n, !.eof = eof]
    <3>1. rd = [reader EXCEPT !.buffer = block, !.pos = reader.pos + Len(block),
                              !.end_of_buffer = reader.end_of_buffer + Len(block), !.eof = Len(block) < BlockSize]
      BY <1>5
    <3>2. reader.pos + Len(block) = n /\ reader.end_of_buffer + Len(block) = n
      BY <1>3, <2>3
    <3>3. (Len(block) < BlockSize) = eof
      BY <2>2
    <3> QED  BY <3>1, <3>2, <3>3
  <2>5. /\ rd \in Readers /\ rd.pos = n /\ rd.buffer = block /\ rd.eof = eof /\ rd.end_of_buffer = n
        /\ rd.initial = reader.initial /\ rd.resyncing = reader.resyncing /\ rd.in_fragmented = reader.in_fragmented
        /\ rd.started = reader.started /\ rd.done = reader.done /\ rd.scratch = reader.scratch
        /\ rd.prospective = reader.prospective
    BY <1>2, <2>1, <2>2, <2>3, <2>4 DEF Readers
  <2> DEFINE c == reader.pos
  <2>6. Place(rd) = c /\ c >= Place(reader) /\ c < Place(reader) + HeaderSize
    <3>1. Place(rd) = n - Len(block)
      BY <2>5 DEF Place
    <3> QED  BY <1>3, <2>1, <2>3, <3>1, Sizing
  <2>7. TypesOf(rd, delivered, reports)
    BY <1>2, <2>5 DEF TypesOf
  <2>8. BufferOf(rd)
    <3>1. Len(rd.buffer) <= rd.pos /\ rd.end_of_buffer = rd.pos
      BY <1>3, <2>1, <2>3, <2>5
    <3>2. \A j \in 1..Len(rd.buffer) : Place(rd) + j <= Len(file) /\ rd.buffer[j] = file[Place(rd) + j]
      BY <1>3, <2>1, <2>5, <2>6, SMTT(60)
    <3>3. rd.resyncing => ~rd.in_fragmented
      BY <1>2, <2>5 DEF BufferOf
    <3> QED  BY <2>5, <3>1, <3>2, <3>3 DEF BufferOf
  <2>9. failures = 0 => \A k \in (Place(reader) + 1)..c : file[k].p = 0
    BY <1>1, <1>2, <1>5, SkipZero
  <2>10. AssemblyOf(rd)
    <3> SUFFICES ASSUME rd.in_fragmented PROVE \E m \in 1..Len(file) : AssemblyAt(rd, m)
      BY DEF AssemblyOf
    <3>1. PICK m \in 1..Len(file) : AssemblyAt(reader, m)
      BY <1>2, <2>5 DEF AssemblyOf
    <3>2. m = Place(reader)
      BY <1>5, <1>3, <3>1, Sizing DEF AssemblyAt
    <3>3. m <= c /\ c < m + HeaderSize /\ (c = m \/ rd.eof \/ Len(rd.buffer) >= HeaderSize)
      BY <1>3, <2>1, <2>2, <2>5, <2>6, <3>2, Sizing
    <3>4. failures = 0 => \A k \in (m + 1)..c : file[k].p = 0
      BY <2>9, <3>2
    <3>5. reader.prospective <= c
      <4>1. reader.prospective <= Place(reader) /\ reader.prospective \in Nat
        BY <1>2, <3>1, FieldTypes DEF AssemblyAt
      <4> QED  BY <1>3, <2>6, <4>1
    <3>6. AssemblyAt(rd, m)
      BY <2>5, <2>6, <3>1, <3>3, <3>4, <3>5 DEF AssemblyAt
    <3> QED  BY <3>6
  <2>11. DeliveredOf(rd, delivered)
    <3>1. Place(rd) >= Place(reader) /\ rd \in Readers /\ rd.initial = reader.initial
      BY <2>5, <2>6
    <3> QED  BY <1>2, <3>1, DeliveredKept
  <2>12. StepOf(rd)
    <3> SUFFICES ASSUME failures = 0 PROVE StepOf(rd)
      BY DEF StepOf
    <3>1. c % BlockSize = 0 /\ c \in Nat
      BY <1>2, <1>3, <1>5 DEF StepOf
    <3>2. ~rd.eof => rd.pos % BlockSize = 0
      <4> SUFFICES ASSUME ~rd.eof PROVE rd.pos % BlockSize = 0
        OBVIOUS
      <4>1. Len(block) = BlockSize
        BY <2>1, <2>2, <2>5, Sizing
      <4>2. (c + BlockSize) % BlockSize = 0
        BY <3>1, Boundaries
      <4>3. rd.pos = c + BlockSize
        BY <2>3, <2>5, <4>1
      <4> QED  BY <4>2, <4>3
    <3>3. rd.eof => rd.pos >= Len(file)
      BY <2>1, <2>2, <2>3, <2>5
    <3>4. ASSUME Len(rd.buffer) > 0
          PROVE  OneBlock(Place(rd), rd.pos) /\ (file[Place(rd) + 1].p > 0 => file[Place(rd) + 1].i = 1)
      <4>1. c + 1 \in 1..Len(file)
        <5>1. 1 \in 1..Len(block)
          BY <2>1, <2>5, <3>4
        <5> QED  BY <2>1, <5>1
      <4>2. file[c + 1].p > 0 => file[c + 1].i = 1
        BY <1>1, <3>1, <4>1, AtBoundary
      <4>3. c \in 0..c /\ rd.pos <= c + BlockSize
        BY <1>3, <2>1, <2>3, <2>5, Sizing
      <4>4. OneBlock(Place(rd), rd.pos)
        BY <2>6, <3>1, <4>3 DEF OneBlock
      <4> QED  BY <2>6, <4>2, <4>4
    <3> QED  BY <3>2, <3>3, <3>4 DEF StepOf
  <2>13. SilentOf(rd, reports)
    <3> SUFFICES ASSUME failures = 0, reader.initial = 0 PROVE SilentOf(rd, reports)
      BY <2>5 DEF SilentOf
    <3>1. ASSUME ~reader.in_fragmented, NEW k \in 1..Len(file), k > c, file[k].p > 0, ~Begins(file[k].p)
          PROVE  \E m \in (c + 1)..(k - 1) : file[m] = Cell(file[k].p - 1, Span(file[k].p - 1))
      <4>1. k > Place(reader)
        BY <1>3, <2>6, <3>1
      <4>2. PICK m \in (Place(reader) + 1)..(k - 1) : file[m] = Cell(file[k].p - 1, Span(file[k].p - 1))
        BY <1>2, <3>1, <4>1 DEF SilentOf
      <4>3. file[k].p > 1
        <5>1. file[k].p \in Nat /\ file[k].p <= Len(phys) /\ Len(phys) \in Nat
          BY <1>1, <3>1, WriterFacts DEF FileInv
        <5>2. file[k].p \in 1..Len(phys)
          BY <3>1, <5>1
        <5> QED  BY <1>1, <3>1, <5>2 DEF HistoryInv
      <4>4. file[m].p # 0
        <5>1. file[m].p = file[k].p - 1
          BY <4>2 DEF Cell
        <5>2. file[k].p \in Nat
          BY <1>1, WriterFacts
        <5> QED  BY <4>3, <5>1, <5>2
      <4>5. m \notin (Place(reader) + 1)..c
        BY <2>9, <4>4
      <4>6. m \in (c + 1)..(k - 1)
        BY <1>3, <4>2, <4>5
      <4> QED  BY <4>2, <4>6
    <3>2. reports = 0 /\ ~reader.resyncing
      BY <1>2 DEF SilentOf
    <3> QED  BY <2>5, <2>6, <3>1, <3>2 DEF SilentOf
  <2>14. ProgressOf(rd, delivered)
    <3> SUFFICES ASSUME failures = 0, NEW r \in Acknowledged, records[r].offset >= Place(reader)
                 PROVE  records[r].offset >= c
      BY <1>2, <2>5, <2>6 DEF ProgressOf
    <3>1. Started(r)
      BY <1>1 DEF AckInv
    <3>2. records[r].offset \in Nat /\ file[records[r].offset + 1].p > 0
      BY <1>3, <3>1 DEF Started
    <3>3. records[r].offset + 1 \notin (Place(reader) + 1)..c
      BY <2>9, <3>2
    <3> QED  BY <1>3, <3>2, <3>3
  <2> QED  BY <1>2, <2>7, <2>8, <2>10, <2>11, <2>12, <2>13, <2>14 DEF Holds
<1> QED  BY <1>4, <1>5

\* Without failures ReadPhysicalRecord finds a whole record, or one cut off by
\* the end of the file.
LEMMA CleanOutcomes ==
  ASSUME WriterInv, Holds(reader, delivered, reports), Len(reader.buffer) >= HeaderSize, failures = 0,
         NEW outcome \in Outcomes(reader.buffer)
  PROVE  /\ outcome \in {"record", "eof"}
         /\ outcome = "eof" => reader.eof /\ Span(file[Place(reader) + 1].p) > Len(reader.buffer)
<1> DEFINE c == Place(reader)
           p == file[c + 1].p
           b == reader.buffer
<1>1. WriterTypes /\ FileInv /\ AlignInv
  BY DEF WriterInv
<1>2. reader \in Readers /\ BufferOf(reader) /\ StepOf(reader)
  BY DEF Holds, TypesOf
<1>3. /\ c \in Nat /\ reader.pos = c + Len(b) /\ Len(b) \in Nat
      /\ \A j \in 1..Len(b) : c + j \in 1..Len(file) /\ b[j] = file[c + j]
  BY <1>1, <1>2, PlaceFacts
<1>4. /\ p \in 1..Len(phys) /\ Span(p) \in Nat /\ Span(p) >= HeaderSize
      /\ \A i \in 1..Span(p) : c + i <= Len(file) => file[c + i] = Cell(p, i)
  BY <1>1, <1>2, CleanHeader
<1> HIDE DEF c
<1>5. Len(file) \in Nat /\ Len(phys) \in Nat
  BY <1>1, WriterFacts
<1>6. ASSUME NEW i \in 1..Span(p), i <= Len(b) PROVE b[i] = Cell(p, i)
  <2>1. i \in 1..Len(b) /\ c + i \in 1..Len(file) /\ c + i <= Len(file)
    BY <1>3, <1>4, <1>5, <1>6
  <2> QED  BY <1>3, <1>4, <2>1
<1>7. HeaderOf(b) = p /\ p > 0
  <2>1. 1 \in 1..Span(p) /\ 1 <= Len(b)
    BY <1>3, <1>4, Sizing
  <2>2. b[1] = Cell(p, 1)
    BY <1>6, <2>1
  <2>3. p > 0
    BY <1>4, <1>5
  <2> QED  BY <2>2, <2>3 DEF HeaderOf, Cell
<1> HIDE DEF p, b
<1>8. IsHeader(b)
  <2>1. \A i \in 1..HeaderSize : i \in 1..Span(p) /\ i <= Len(b)
    BY <1>3, <1>4, Sizing DEF b
  <2>2. \A i \in 1..HeaderSize : b[i] = [p |-> p, i |-> i]
    BY <1>6, <2>1 DEF Cell
  <2> QED  BY <1>7, <2>2 DEF IsHeader
<1>9. ~IsTrailer(b) /\ ~Garbage(b)
  <2>1. 1 \in 1..HeaderSize
    BY Sizing
  <2>2. b[1].p > 0
    BY <1>7 DEF HeaderOf
  <2>3. b[1] # Zero
    BY <2>2 DEF Zero
  <2> QED  BY <1>8, <2>1, <2>3 DEF IsTrailer, Garbage
<1>10. TooLong(b) <=> Span(p) > Len(b)
  BY <1>7 DEF TooLong, Span
<1>11. TooLong(b) => reader.eof
  <2> SUFFICES ASSUME TooLong(b), ~reader.eof PROVE FALSE
    OBVIOUS
  <2>1. Len(reader.buffer) > 0
    BY <1>3, Sizing DEF b
  <2>2. c + Span(p) <= reader.pos
    BY <1>1, <1>2, <1>7, <2>1, EndOfBlock DEF c, p
  <2> QED  BY <1>3, <1>4, <1>10, <2>2
<1>12. ~TooLong(b) => Intact(b)
  <2> SUFFICES ASSUME ~TooLong(b) PROVE Intact(b)
    OBVIOUS
  <2>1. \A i \in 1..Span(p) : i <= Len(b)
    BY <1>3, <1>4, <1>10
  <2>2. \A i \in 1..Span(p) : b[i] = [p |-> p, i |-> i]
    BY <1>6, <2>1 DEF Cell
  <2> QED  BY <1>7, <2>2 DEF Intact, Span
<1>13. outcome \in Outcomes(b)
  BY DEF b
<1>14. CASE TooLong(b)
  <2>1. Outcomes(b) = {"eof"}
    BY <1>8, <1>9, <1>11, <1>14 DEF Outcomes
  <2> QED  BY <1>10, <1>11, <1>13, <1>14, <2>1 DEF b, c, p
<1>15. CASE ~TooLong(b)
  <2>1. Outcomes(b) = {"record"}
    BY <1>8, <1>9, <1>12, <1>15 DEF Outcomes
  <2> QED  BY <1>13, <2>1
<1> QED  BY <1>14, <1>15

\* A physical record that passed is in the file as the writer formed it.
LEMMA RecordHeader ==
  ASSUME WriterInv, Holds(reader, delivered, reports), Len(reader.buffer) >= HeaderSize,
         "record" \in Outcomes(reader.buffer)
  PROVE  LET c == Place(reader)
             p == file[c + 1].p
         IN  /\ HeaderOf(reader.buffer) = p /\ p \in 1..Len(phys)
             /\ Span(p) \in Nat /\ Span(p) >= HeaderSize /\ Span(p) <= Len(reader.buffer)
             /\ \A i \in 1..Span(p) : reader.buffer[i] = Cell(p, i) /\ file[c + i] = Cell(p, i) /\ c + i \in 1..Len(file)
<1> DEFINE c == Place(reader)
           p == file[c + 1].p
           b == reader.buffer
<1>1. WriterTypes /\ FileInv
  BY DEF WriterInv
<1>2. reader \in Readers /\ BufferOf(reader)
  BY DEF Holds, TypesOf
<1>3. /\ c \in Nat /\ Len(b) \in Nat
      /\ \A j \in 1..Len(b) : c + j \in 1..Len(file) /\ b[j] = file[c + j]
  BY <1>1, <1>2, PlaceFacts
<1>4. IsHeader(b) /\ ~TooLong(b) /\ Intact(b)
  <2> HIDE DEF b
  <2>1. "record" \in Outcomes(b)
    BY DEF b
  <2>2. ~Garbage(b) /\ ~IsTrailer(b)
    <3>1. CASE Garbage(b)
      BY <2>1, <3>1 DEF Outcomes, Garbage
    <3>2. CASE ~Garbage(b) /\ IsTrailer(b)
      <4>1. HeaderOf(b) = 0
        BY <3>2, Sizing DEF IsTrailer, HeaderOf, Zero
      <4>2. ~IsHeader(b)
        BY <4>1 DEF IsHeader
      <4> QED  BY <2>1, <3>2, <4>2 DEF Outcomes
    <3> QED  BY <3>1, <3>2
  <2>3. IsHeader(b)
    BY <2>2 DEF Garbage
  <2>4. ~TooLong(b)
    BY <2>1, <2>2, <2>3 DEF Outcomes
  <2>5. Intact(b)
    BY <2>1, <2>2, <2>3, <2>4 DEF Outcomes
  <2> QED  BY <2>3, <2>4, <2>5
<1>5. 1 \in 1..Len(b) /\ c + 1 \in 1..Len(file)
  BY <1>3, Sizing
<1>6. HeaderOf(b) = p
  BY <1>3, <1>5 DEF HeaderOf
<1> HIDE DEF b
<1>7. p > 0
  BY <1>4, <1>6 DEF IsHeader
<1> HIDE DEF c
<1>8. p \in 1..Len(phys)
  <2>1. p \in Nat /\ p <= Len(phys) /\ Len(phys) \in Nat
    BY <1>1, <1>5, <1>7, WriterFacts DEF FileInv
  <2> QED  BY <1>7, <2>1
<1>9. Span(p) \in Nat /\ Span(p) >= HeaderSize
  BY <1>1, <1>8, WriterFacts
<1>10. Span(p) <= Len(b)
  BY <1>3, <1>4, <1>6, <1>9 DEF TooLong, Span
<1>11. \A i \in 1..Span(p) : b[i] = Cell(p, i)
  BY <1>4, <1>6 DEF Intact, Span, Cell
<1>12. \A i \in 1..Span(p) : i \in 1..Len(b)
  BY <1>3, <1>9, <1>10
<1> QED  BY <1>3, <1>6, <1>8, <1>9, <1>10, <1>11, <1>12 DEF b, c

LEMMA EofOutcome == ASSUME "eof" \in Outcomes(reader.buffer) PROVE reader.eof
<1> DEFINE b == reader.buffer
<1> HIDE DEF b
<1>1. "eof" \in Outcomes(b)
  BY DEF b
<1>2. CASE Garbage(b)
  BY <1>1, <1>2 DEF Outcomes, Garbage
<1>3. CASE ~Garbage(b) /\ IsTrailer(b) /\ ~IsHeader(b)
  BY <1>1, <1>3 DEF Outcomes
<1>4. CASE IsHeader(b) /\ IsTrailer(b)
  <2>1. HeaderOf(b) = 0
    BY <1>4, Sizing DEF IsTrailer, HeaderOf, Zero
  <2> QED  BY <1>4, <2>1 DEF IsHeader
<1>5. CASE IsHeader(b) /\ ~IsTrailer(b)
  BY <1>1, <1>5 DEF Outcomes, Garbage
<1> QED  BY <1>2, <1>3, <1>4, <1>5 DEF Garbage

LEMMA EofHolds ==
  ASSUME WriterInv, phase = "read", Holds(reader, delivered, reports), ~reader.done, reader.started,
         Len(reader.buffer) >= HeaderSize, "eof" \in Outcomes(reader.buffer), NEW rd,
         rd = [reader EXCEPT !.buffer = <<>>, !.done = TRUE, !.scratch = <<>>]
  PROVE  Holds(rd, delivered, reports)
<1>1. WriterTypes /\ FileInv /\ AlignInv
  BY DEF WriterInv
<1>2. reader \in Readers /\ BufferOf(reader) /\ StepOf(reader)
  BY DEF Holds, TypesOf
<1>3. reader.eof
  BY EofOutcome
<1>4. <<>> \in Seq(FileCells) /\ <<>> \in Seq(Nat \X Nat)
  OBVIOUS
<1>5. /\ rd \in Readers /\ rd.pos = reader.pos /\ rd.buffer = <<>> /\ rd.eof = reader.eof
      /\ rd.end_of_buffer = reader.end_of_buffer
      /\ rd.initial = reader.initial /\ rd.resyncing = reader.resyncing /\ rd.in_fragmented = reader.in_fragmented
      /\ rd.started = reader.started /\ rd.done = TRUE
  BY <1>2, <1>4 DEF Readers
<1>6. ASSUME failures = 0, NEW e \in 1..Len(file), IsLast(e), ~(e - Span(file[e].p) < Place(reader)) PROVE FALSE
  <2> DEFINE c == Place(reader)
             p == file[c + 1].p
  <2>1. Span(p) > Len(reader.buffer)
    BY <1>6, CleanOutcomes
  <2>2. /\ p \in 1..Len(phys) /\ Span(p) \in Nat
        /\ \A i \in 1..Span(p) : c + i <= Len(file) => file[c + i] = Cell(p, i)
    BY <1>1, <1>2, <1>6, CleanHeader
  <2>3. c \in Nat /\ reader.pos = c + Len(reader.buffer) /\ Len(reader.buffer) \in Nat /\ Len(file) \in Nat
    BY <1>1, <1>2, PlaceFacts, WriterFacts
  <2>4. reader.pos >= Len(file)
    BY <1>2, <1>3, <1>6 DEF StepOf
  <2>5. Span(file[e].p) \in Nat /\ Span(file[e].p) >= HeaderSize /\ file[e].i = Span(file[e].p)
    BY <1>1, <1>6, FirstCell
  <2> HIDE DEF c
  <2>6. e - Span(file[e].p) >= c
    BY <1>6, <2>3, <2>5 DEF c
  <2>7. e - c \in 1..Span(p) /\ c + (e - c) = e /\ e <= Len(file) /\ e - c # Span(p)
    BY <2>1, <2>2, <2>3, <2>4, <2>5, <2>6, Sizing, SMTT(60)
  <2>8. file[e] = Cell(p, e - c)
    BY <2>2, <2>7
  <2>9. file[e].p = p /\ file[e].i = e - c
    BY <2>8 DEF Cell
  <2> QED  BY <2>5, <2>7, <2>9
<1> QED  BY <1>3, <1>5, <1>6, GivesUp

\* The rest of the buffer is dropped; only after a failed flush.
LEMMA DropHolds ==
  ASSUME WriterInv, Holds(reader, delivered, reports), failures # 0, NEW rp \in Nat, NEW rd \in Readers,
         rd.pos = reader.pos, rd.buffer = <<>>, rd.end_of_buffer = reader.end_of_buffer,
         rd.initial = reader.initial, ~rd.resyncing, ~rd.in_fragmented, rd.started
  PROVE  Holds(rd, delivered, rp)
<1>1. WriterTypes
  BY DEF WriterInv
<1>2. /\ TypesOf(reader, delivered, reports) /\ reader \in Readers /\ BufferOf(reader) /\ GenuineOf(delivered)
      /\ DeliveredOf(reader, delivered)
  BY DEF Holds, TypesOf
<1>3. /\ Place(reader) \in Nat /\ reader.pos = Place(reader) + Len(reader.buffer) /\ Len(reader.buffer) \in Nat
      /\ reader.end_of_buffer = reader.pos /\ reader.pos \in Nat
  BY <1>1, <1>2, PlaceFacts
<1>4. Len(rd.buffer) = 0
  OBVIOUS
<1>5. Place(rd) = reader.pos /\ Len(rd.buffer) <= rd.pos
  BY <1>3, <1>4 DEF Place
<1>6. TypesOf(rd, delivered, rp)
  BY <1>2 DEF TypesOf
<1>7. BufferOf(rd)
  BY <1>3, <1>4, <1>5 DEF BufferOf
<1>8. DeliveredOf(rd, delivered)
  <2>1. Place(rd) >= Place(reader)
    BY <1>3, <1>5
  <2> QED  BY <1>2, <2>1, DeliveredKept
<1> QED  BY <1>2, <1>6, <1>7, <1>8 DEF Holds, AssemblyOf, StepOf, SilentOf, ProgressOf

LEMMA BadHolds ==
  ASSUME WriterInv, Holds(reader, delivered, reports), reader.started, failures # 0, NEW rp \in Nat,
         NEW rd, rd = [Resync([reader EXCEPT !.buffer = <<>>]) EXCEPT
                         !.in_fragmented = FALSE, !.scratch = IF reader.in_fragmented THEN <<>> ELSE @]
  PROVE  Holds(rd, delivered, rp)
<1>1. reader \in Readers
  BY DEF Holds, TypesOf
<1>2. PICK s \in Seq(Nat \X Nat) : s = IF reader.in_fragmented THEN <<>> ELSE reader.scratch
  <2>1. reader.scratch \in Seq(Nat \X Nat) /\ <<>> \in Seq(Nat \X Nat)
    BY <1>1, FieldTypes
  <2>2. (IF reader.in_fragmented THEN <<>> ELSE reader.scratch) \in Seq(Nat \X Nat)
    <3>1. CASE reader.in_fragmented
      BY <2>1, <3>1
    <3>2. CASE ~reader.in_fragmented
      BY <2>1, <3>2
    <3> QED  BY <3>1, <3>2
  <2> QED  BY <2>2, Zenon
<1>3. rd = [reader EXCEPT !.buffer = <<>>, !.resyncing = FALSE, !.in_fragmented = FALSE, !.scratch = s]
  BY <1>1, <1>2 DEF Resync, Readers
<1>4. <<>> \in Seq(FileCells)
  OBVIOUS
<1>5. /\ rd \in Readers /\ rd.pos = reader.pos /\ rd.buffer = <<>> /\ rd.end_of_buffer = reader.end_of_buffer
      /\ rd.initial = reader.initial /\ rd.resyncing = FALSE /\ rd.in_fragmented = FALSE /\ rd.started = reader.started
  BY <1>1, <1>2, <1>3, <1>4 DEF Readers
<1> QED  BY <1>5, DropHolds

-------------------------------------------------------------------------------
(* A physical record that passed. *)

\* Physical record p is at the front of the buffer.
Passed(p) ==
  /\ WriterInv /\ phase = "read" /\ Holds(reader, delivered, reports) /\ ~reader.done /\ reader.started
  /\ p = file[Place(reader) + 1].p /\ p \in 1..Len(phys)
  /\ Span(p) \in Nat /\ Span(p) >= HeaderSize /\ Span(p) <= Len(reader.buffer)
  /\ \A i \in 1..Span(p) : /\ reader.buffer[i] = Cell(p, i) /\ file[Place(reader) + i] = Cell(p, i)
                           /\ Place(reader) + i \in 1..Len(file)

\* Reader rd has consumed it.
Advances(rd, p) ==
  /\ rd \in Readers /\ rd.pos = reader.pos /\ rd.buffer = SubSeq(reader.buffer, Span(p) + 1, Len(reader.buffer))
  /\ rd.eof = reader.eof /\ rd.end_of_buffer = reader.end_of_buffer /\ rd.initial = reader.initial
  /\ rd.started /\ ~rd.done /\ (rd.resyncing => ~rd.in_fragmented)

LEMMA Advanced ==
  ASSUME NEW p, Passed(p), NEW rd, Advances(rd, p)
  PROVE  /\ Place(rd) = Place(reader) + Span(p) /\ Place(reader) \in Nat /\ Place(rd) \in 1..Len(file)
         /\ Place(rd) > Place(reader)
         /\ IsLast(Place(rd)) /\ file[Place(rd)].p = p /\ p > 0
         /\ file[Place(reader) + 1] = Cell(p, 1) /\ Place(reader) + 1 \in 1..Len(file)
         /\ BufferOf(rd) /\ DeliveredOf(rd, delivered) /\ StepOf(rd)
<1> DEFINE c == Place(reader)
           n == Len(reader.buffer)
<1>1. WriterTypes /\ FileInv
  BY DEF Passed, WriterInv
<1>2. reader \in Readers /\ BufferOf(reader) /\ DeliveredOf(reader, delivered) /\ StepOf(reader)
  BY DEF Passed, Holds, TypesOf
<1>3. /\ c \in Nat /\ reader.pos = c + n /\ n \in Nat /\ reader.end_of_buffer = reader.pos /\ reader.pos \in Nat
      /\ \A j \in 1..n : c + j \in 1..Len(file) /\ reader.buffer[j] = file[c + j]
  BY <1>1, <1>2, PlaceFacts
<1>4. /\ p \in 1..Len(phys) /\ Span(p) \in Nat /\ Span(p) >= HeaderSize /\ Span(p) <= n
      /\ \A i \in 1..Span(p) : file[c + i] = Cell(p, i) /\ c + i \in 1..Len(file)
  BY DEF Passed
<1>5. /\ rd \in Readers /\ rd.pos = reader.pos /\ rd.buffer = SubSeq(reader.buffer, Span(p) + 1, n)
      /\ rd.eof = reader.eof /\ rd.end_of_buffer = reader.end_of_buffer /\ rd.initial = reader.initial
      /\ rd.started /\ (rd.resyncing => ~rd.in_fragmented)
  BY DEF Advances
<1>6. /\ Len(rd.buffer) = n - Span(p)
      /\ \A j \in 1..Len(rd.buffer) : rd.buffer[j] = reader.buffer[Span(p) + j]
  <2>1. reader.buffer \in Seq(FileCells)
    BY <1>2, FieldTypes
  <2>2. Span(p) \in Nat /\ n \in Nat /\ n <= Len(reader.buffer)
    BY <1>3, <1>4
  <2>3. PICK s : s = reader.buffer
    OBVIOUS
  <2>4. PICK a : a = Span(p)
    OBVIOUS
  <2>5. s \in Seq(FileCells) /\ a \in Nat /\ n <= Len(s)
    BY <2>1, <2>2, <2>3, <2>4
  <2>6. /\ Len(SubSeq(s, a + 1, n)) = (IF n > a THEN n - a ELSE 0)
        /\ \A j \in 1..Len(SubSeq(s, a + 1, n)) : SubSeq(s, a + 1, n)[j] = s[a + j]
    <3> HIDE DEF n
    <3> QED  BY <2>2, <2>5, Slice
  <2>7. rd.buffer = SubSeq(s, a + 1, n)
    BY <1>5, <2>3, <2>4
  <2>8. Len(rd.buffer) = (IF n > Span(p) THEN n - Span(p) ELSE 0)
        /\ \A j \in 1..Len(rd.buffer) : rd.buffer[j] = reader.buffer[Span(p) + j]
    <3> HIDE DEF n
    <3> QED  BY <2>3, <2>4, <2>6, <2>7
  <2> HIDE DEF n
  <2> QED  BY <1>3, <1>4, <2>8
<1> HIDE DEF c, n
<1>7. Place(rd) = c + Span(p)
  BY <1>3, <1>4, <1>5, <1>6 DEF Place
<1>8. Span(p) \in 1..Span(p) /\ 1 \in 1..Span(p) /\ Span(p) > 0
  BY <1>4, Sizing
<1>9. /\ Place(rd) \in 1..Len(file) /\ file[Place(rd)] = Cell(p, Span(p))
      /\ file[c + 1] = Cell(p, 1) /\ c + 1 \in 1..Len(file)
  BY <1>4, <1>7, <1>8
<1>10. p > 0 /\ Len(phys) \in Nat /\ Len(file) \in Nat
  BY <1>1, <1>4, WriterFacts
<1>11. IsLast(Place(rd)) /\ file[Place(rd)].p = p /\ file[Place(rd)].i = Span(p)
  BY <1>9, <1>10 DEF IsLast, Cell
<1>12. BufferOf(rd)
  <2>1. Len(rd.buffer) <= rd.pos /\ rd.end_of_buffer = rd.pos
    BY <1>3, <1>4, <1>5, <1>6
  <2>2. ASSUME NEW j \in 1..Len(rd.buffer)
        PROVE  Place(rd) + j <= Len(file) /\ rd.buffer[j] = file[Place(rd) + j]
    <3>1. Span(p) + j \in 1..n /\ c + (Span(p) + j) = Place(rd) + j
      BY <1>3, <1>4, <1>6, <1>7, SMTT(60)
    <3>2. c + (Span(p) + j) \in 1..Len(file) /\ reader.buffer[Span(p) + j] = file[c + (Span(p) + j)]
      BY <1>3, <3>1
    <3> QED  BY <1>6, <1>10, <3>1, <3>2
  <2> QED  BY <1>5, <2>1, <2>2 DEF BufferOf
<1>13. Place(rd) > c
  BY <1>3, <1>4, <1>7, <1>8
<1>14. DeliveredOf(rd, delivered)
  <2>1. Place(rd) >= Place(reader)
    BY <1>3, <1>4, <1>7 DEF c
  <2> QED  BY <1>2, <1>5, <2>1, DeliveredKept
<1>15. StepOf(rd)
  <2> SUFFICES ASSUME failures = 0 PROVE StepOf(rd)
    BY DEF StepOf
  <2>1. /\ ~rd.eof => rd.pos % BlockSize = 0
        /\ rd.eof => rd.pos >= Len(file)
    BY <1>2, <1>5 DEF StepOf
  <2>2. ASSUME Len(rd.buffer) > 0
        PROVE  OneBlock(Place(rd), rd.pos) /\ (file[Place(rd) + 1].p > 0 => file[Place(rd) + 1].i = 1)
    <3>1. Len(reader.buffer) > 0
      BY <1>3, <1>4, <1>8 DEF n
    <3>2. OneBlock(Place(reader), reader.pos)
      BY <1>2, <3>1 DEF StepOf
    <3>3. PICK base \in 0..c : base % BlockSize = 0 /\ reader.pos <= base + BlockSize
      BY <3>2 DEF OneBlock, c
    <3>4. base \in 0..Place(rd)
      BY <1>3, <1>4, <1>7, <3>3
    <3>5. OneBlock(Place(rd), rd.pos)
      BY <1>5, <3>3, <3>4 DEF OneBlock
    <3>6. ASSUME file[Place(rd) + 1].p > 0 PROVE file[Place(rd) + 1].i = 1
      <4> DEFINE k == Place(rd) + 1
                 s == file[k].p
                 i == file[k].i
      <4>1. k \in 1..Len(file) /\ Place(rd) < k
        <5>1. 1 \in 1..Len(rd.buffer)
          BY <1>3, <1>4, <1>6, <2>2
        <5>2. Place(rd) + 1 <= Len(file)
          BY <1>12, <5>1 DEF BufferOf
        <5> QED  BY <1>9, <1>10, <5>2
      <4>2. p <= s /\ (p = s => k - Place(rd) = i - Span(p)) /\ s \in 1..Len(phys)
        <5> HIDE DEF k
        <5> QED  BY <1>1, <1>9, <1>10, <1>11, <3>6, <4>1, Order DEF k
      <4>3. i \in 1..Span(s) /\ \A h \in 1..i : file[k - i + h] = Cell(s, h)
        BY <1>1, <3>6, <4>1 DEF FileInv
      <4>4. i \in Nat /\ Span(s) \in Nat
        BY <1>1, <4>1, <4>2, WriterFacts
      <4>5. CASE p = s
        <5>1. k - Place(rd) = 1 /\ i <= Span(p)
          BY <1>9, <1>10, <4>3, <4>4, <4>5
        <5> QED  BY <1>4, <4>2, <4>4, <4>5, <5>1
      <4>6. CASE p # s
        <5> SUFFICES ASSUME i # 1 PROVE FALSE
          OBVIOUS
        <5>1. i - 1 \in 1..i /\ k - i + (i - 1) = Place(rd)
          <6>1. i \in Nat /\ i >= 1 /\ i # 1 /\ k = Place(rd) + 1 /\ Place(rd) \in Nat
            BY <1>9, <1>10, <4>3, <4>4
          <6> HIDE DEF i, k
          <6> QED  BY <6>1
        <5>2. file[Place(rd)] = Cell(s, i - 1)
          BY <4>3, <5>1
        <5> QED  BY <1>11, <4>6, <5>2 DEF Cell
      <4> QED  BY <4>5, <4>6
    <3> QED  BY <3>5, <3>6
  <2> QED  BY <2>1, <2>2 DEF StepOf
<1> QED  BY <1>3, <1>7, <1>9, <1>10, <1>11, <1>12, <1>13, <1>14, <1>15 DEF c

\* What the writer formed, for the physical record read.
LEMMA PassedFacts ==
  ASSUME NEW p, Passed(p)
  PROVE  /\ p \in 1..Len(phys) /\ p > 0 /\ p \in Nat /\ Span(p) \in Nat /\ Span(p) > 0
         /\ phys[p].length \in Nat /\ phys[p].first \in Nat /\ phys[p].rec \in Nat
         /\ phys[p].rec \in 1..Len(records)
         /\ phys[p].type \in Types /\ Span(p) = HeaderSize + phys[p].length
         /\ records[phys[p].rec].size \in Nat /\ records[phys[p].rec].offset \in Int
         /\ Ends(p) => phys[p].first + phys[p].length = records[phys[p].rec].size
         /\ Begins(p) => phys[p].first = 0
<1>1. WriterTypes /\ HistoryInv
  BY DEF Passed, WriterInv
<1>2. p \in 1..Len(phys)
  BY DEF Passed
<1>3. phys[p] \in Phys
  BY <1>1, <1>2 DEF WriterTypes
<1>4. phys[p].type \in Types
  BY <1>3 DEF Phys
<1>5. /\ phys[p].length \in Nat /\ phys[p].first \in Nat /\ phys[p].rec \in Nat /\ Len(phys) \in Nat
      /\ Span(p) \in Nat /\ Span(p) > 0
  BY <1>1, <1>2, WriterFacts
<1>6. /\ phys[p].rec \in 1..Len(records)
      /\ Ends(p) => phys[p].first + phys[p].length = records[phys[p].rec].size
      /\ Begins(p) => phys[p].first = 0
  BY <1>1, <1>2 DEF HistoryInv
<1>7. records[phys[p].rec].size \in Nat /\ records[phys[p].rec].offset \in Int
  BY <1>1, <1>6, WriterFacts
<1>8. p > 0 /\ p \in Nat
  BY <1>2, <1>5
<1> QED  BY <1>2, <1>4, <1>5, <1>6, <1>7, <1>8 DEF Span

\* Its payload is the stretch of its record that it covers.
LEMMA PassedPayload ==
  ASSUME NEW p, Passed(p)
  PROVE  Payload(phys[p]) = [i \in 1..phys[p].length |-> <<phys[p].rec, phys[p].first + i>>]
<1>1. /\ p > 0 /\ p \in Nat /\ Span(p) = HeaderSize + phys[p].length /\ phys[p].length \in Nat
      /\ phys[p].first \in Nat /\ phys[p].rec \in Nat
  BY PassedFacts
<1>2. \A i \in 1..Span(p) : reader.buffer[i] = Cell(p, i)
  BY DEF Passed
<1>3. ASSUME NEW i \in 1..phys[p].length
      PROVE  Byte(reader.buffer[HeaderSize + i]) = <<phys[p].rec, phys[p].first + i>>
  <2>1. HeaderSize + i \in 1..Span(p) /\ HeaderSize + i - HeaderSize = i /\ i \in Nat
    BY <1>1, Sizing
  <2>2. PICK h \in Nat : h = HeaderSize + i
    BY <2>1, Sizing
  <2>3. reader.buffer[h] = [p |-> p, i |-> h]
    BY <1>2, <2>1, <2>2 DEF Cell
  <2>4. Byte([p |-> p, i |-> h]) = <<phys[p].rec, phys[p].first + h - HeaderSize>>
    <3>1. [p |-> p, i |-> h] # Zero
      BY <1>1 DEF Zero
    <3> QED  BY <3>1 DEF Byte
  <2>5. phys[p].first + h - HeaderSize = phys[p].first + i
    BY <1>1, <2>1, <2>2, Sizing
  <2> QED  BY <2>2, <2>3, <2>4, <2>5
<1> QED  BY <1>3 DEF Payload

\* The bytes of a record in turn.
LEMMA Joined ==
  ASSUME NEW r \in Nat, NEW n \in Nat, NEW l \in Nat
  PROVE  /\ Bytes(r, n) \in Seq(Nat \X Nat)
         /\ [i \in 1..l |-> <<r, n + i>>] \in Seq(Nat \X Nat)
         /\ Bytes(r, n) \o [i \in 1..l |-> <<r, n + i>>] = Bytes(r, n + l)
<1> DEFINE S == Nat \X Nat
           s == Bytes(r, n)
           t == [i \in 1..l |-> <<r, n + i>>]
           u == Bytes(r, n + l)
<1>1. s \in Seq(S) /\ Len(s) = n
  <2>1. s \in [1..n -> S]
    BY DEF Bytes
  <2> HIDE DEF s
  <2> QED  BY <2>1, FunctionSeq
<1>2. t \in Seq(S) /\ Len(t) = l
  <2>1. t \in [1..l -> S]
    OBVIOUS
  <2> HIDE DEF t
  <2> QED  BY <2>1, FunctionSeq
<1>3. u \in Seq(S) /\ Len(u) = n + l
  <2>1. u \in [1..(n + l) -> S] /\ n + l \in Nat
    BY DEF Bytes
  <2> HIDE DEF u
  <2> QED  BY <2>1, FunctionSeq
<1>4. \A j \in 1..n : s[j] = <<r, j>>
  BY DEF Bytes
<1>5. \A j \in 1..l : t[j] = <<r, n + j>>
  OBVIOUS
<1>6. \A j \in 1..(n + l) : u[j] = <<r, j>>
  BY DEF Bytes
<1> HIDE DEF s, t, u, S
<1>7. /\ s \o t \in Seq(S) /\ Len(s \o t) = n + l
      /\ \A j \in 1..n : (s \o t)[j] = s[j]
      /\ \A j \in 1..(n + l) : j > n => (s \o t)[j] = t[j - n]
  BY <1>1, <1>2, Concat
<1>8. ASSUME NEW j \in 1..(n + l) PROVE (s \o t)[j] = u[j]
  <2>1. CASE j <= n
    <3>1. j \in 1..n
      BY <2>1
    <3> QED  BY <1>4, <1>6, <1>7, <3>1
  <2>2. CASE j > n
    <3>1. j - n \in 1..l /\ n + (j - n) = j
      BY <2>2
    <3> QED  BY <1>5, <1>6, <1>7, <2>2, <3>1
  <2>3. j <= n \/ j > n
    OBVIOUS
  <2> QED  BY <2>1, <2>2, <2>3
<1>9. s \o t = u
  <2>1. PICK v : v = s \o t
    OBVIOUS
  <2>2. v \in Seq(S) /\ Len(v) = n + l /\ \A j \in 1..(n + l) : v[j] = u[j]
    BY <1>7, <1>8, <2>1
  <2>3. v = u
    BY <1>3, <2>2
  <2> QED  BY <2>1, <2>3
<1> QED  BY <1>1, <1>2, <1>9 DEF s, t, u, S

LEMMA WholeBytes == \A r : Whole(r) = Bytes(r, records[r].size)
  BY DEF Whole, Bytes

\* A fragment that continues a record, and any one if nothing failed, continues
\* the record that is being assembled.
LEMMA Assembling ==
  ASSUME NEW p, Passed(p), reader.in_fragmented, ~Begins(p) \/ failures = 0
  PROVE  \E m \in 1..Len(file) : AssemblyAt(reader, m) /\ file[m].p = p - 1 /\ p > 1
<1> DEFINE c == Place(reader)
<1>1. WriterTypes /\ FileInv /\ AlignInv
  BY DEF Passed, WriterInv
<1>2. reader \in Readers /\ BufferOf(reader) /\ AssemblyOf(reader) /\ ~reader.done
  BY DEF Passed, Holds, TypesOf
<1>3. PICK m \in 1..Len(file) : AssemblyAt(reader, m)
  BY <1>2 DEF AssemblyOf
<1>4. IsLast(m) /\ m <= c /\ c < m + HeaderSize
  BY <1>3 DEF AssemblyAt
<1>5. c \in Nat /\ Len(file) \in Nat /\ p \in Nat /\ p > 0 /\ 1 \in 1..Span(p)
  <2>1. c \in Nat /\ Len(file) \in Nat
    BY <1>1, <1>2, PlaceFacts, WriterFacts
  <2>2. p \in Nat /\ p > 0 /\ Span(p) \in Nat /\ Span(p) > 0
    BY PassedFacts
  <2> QED  BY <2>1, <2>2
<1>6. file[c + 1] = Cell(p, 1) /\ c + 1 \in 1..Len(file)
  BY <1>5 DEF Passed
<1>7. file[c + 1].p = p /\ file[c + 1].i = 1
  BY <1>6 DEF Cell
<1> HIDE DEF c
<1>8. p > 1
  <2>1. m < c + 1 /\ file[m].p > 0 /\ file[m].i = Span(file[m].p)
    BY <1>4, <1>5 DEF IsLast
  <2>2. /\ file[m].p \in 1..Len(phys) /\ file[m].p <= p
        /\ file[m].p = p => (c + 1) - m = 1 - file[m].i
    <3>1. PICK k \in 1..Len(file) : k = c + 1
      BY <1>6
    <3>2. m < k /\ file[k].p > 0 /\ file[k].p = p /\ file[k].i = 1
      BY <1>5, <1>7, <2>1, <3>1
    <3> QED  BY <1>1, <2>1, <3>1, <3>2, Order
  <2>3. Span(file[m].p) \in Nat /\ Span(file[m].p) > 0
    BY <1>1, <2>2, WriterFacts
  <2>4. file[m].p # p
    BY <1>4, <1>5, <2>1, <2>2, <2>3
  <2> QED  BY <1>1, <1>5, <2>2, <2>4, WriterFacts
<1>9. PICK e \in 1..c : file[e] = Cell(p - 1, Span(p - 1))
  <2>1. PICK j \in 1..Len(file) : j = c + 1
    BY <1>6
  <2>2. file[j].p = p /\ p > 0
    BY <1>5, <1>7, <2>1
  <2>3. \E e \in 1..(j - 1) : file[e] = Cell(p - 1, Span(p - 1))
    <3>1. CASE ~Begins(p)
      BY <1>1, <2>2, <3>1 DEF FileInv
    <3>2. CASE failures = 0
      BY <1>1, <1>8, <2>2, <3>2 DEF AlignInv
    <3> QED  BY <3>1, <3>2
  <2>4. j - 1 = c
    BY <1>5, <2>1
  <2> QED  BY <2>3, <2>4
<1>10. file[m].p = p - 1
  <2>1. c < Len(file) /\ file[c + 1].p > 0
    BY <1>5, <1>6, <1>7
  <2>2. file[e] = Cell(file[c + 1].p - 1, Span(file[c + 1].p - 1))
    BY <1>7, <1>9
  <2> QED  BY <1>1, <1>4, <1>5, <1>7, <1>9, <2>1, <2>2, InTurn
<1> QED  BY <1>3, <1>8, <1>10

\* Without failures no record starts before the one being assembled ended.
LEMMA ClearStart ==
  ASSUME NEW p, Passed(p), failures = 0, Begins(p)
  PROVE  ~reader.in_fragmented
<1> SUFFICES ASSUME reader.in_fragmented PROVE FALSE
  OBVIOUS
<1>1. PICK m \in 1..Len(file) : AssemblyAt(reader, m) /\ file[m].p = p - 1 /\ p > 1
  BY Assembling
<1>2. ~Ends(p - 1)
  BY <1>1 DEF AssemblyAt
<1>3. p \in 1..Len(phys) /\ AlignInv
  BY DEF Passed, WriterInv
<1> QED  BY <1>1, <1>2, <1>3 DEF AlignInv

\* The only start that the reader passes is the one of the fragment it reads.
LEMMA ProgressStep ==
  ASSUME NEW p, Passed(p), NEW rd, Advances(rd, p), failures = 0, NEW r \in Acknowledged,
         records[r].offset >= Place(reader)
  PROVE  \/ records[r].offset >= Place(rd)
         \/ records[r].offset = Place(reader) /\ Begins(p) /\ phys[p].rec = r
<1> DEFINE c == Place(reader)
           o == records[r].offset
<1> SUFFICES ASSUME ~(o >= Place(rd)) PROVE o = c /\ Begins(p) /\ phys[p].rec = r
  OBVIOUS
<1>1. WriterTypes /\ AckInv
  BY DEF Passed, WriterInv
<1>2. Started(r)
  BY <1>1 DEF AckInv
<1>3. /\ o \in 0..(Len(file) - 1) /\ file[o + 1].i = 1
      /\ Begins(file[o + 1].p) /\ phys[file[o + 1].p].rec = r
  BY <1>2 DEF Started
<1>4. Place(rd) = c + Span(p) /\ c \in Nat
  BY Advanced
<1>5. Span(p) \in Nat /\ \A i \in 1..Span(p) : file[c + i] = Cell(p, i)
  BY DEF Passed
<1>6. Len(file) \in Nat /\ o >= c
  BY <1>1, WriterFacts
<1> HIDE DEF c, o
<1>7. PICK i \in 1..Span(p) : i = o + 1 - c
  BY <1>3, <1>4, <1>5, <1>6
<1>8. c + i = o + 1
  BY <1>3, <1>4, <1>6, <1>7
<1>9. file[o + 1] = Cell(p, i)
  BY <1>5, <1>8
<1>10. file[o + 1].p = p /\ i = 1
  BY <1>3, <1>9 DEF Cell
<1> QED  BY <1>3, <1>4, <1>6, <1>7, <1>10 DEF c, o

\* Physical record p is the last fragment of its record, which is delivered.
Completes(p, dl) ==
  /\ Ends(p) /\ records[phys[p].rec].offset >= reader.initial
  /\ LET r == phys[p].rec
     IN  dl = Append(delivered, [rec |-> r, data |-> Bytes(r, records[r].size)])

Includes(dl, r) == \E d \in 1..Len(dl) : dl[d].rec = r

\* That record is newer than what was delivered before.
LEMMA DeliverHolds ==
  ASSUME NEW p, Passed(p), NEW rd, Advances(rd, p), NEW dl, Completes(p, dl)
  PROVE  /\ TypesOf(rd, dl, 0) /\ GenuineOf(dl) /\ DeliveredOf(rd, dl)
         /\ Includes(dl, phys[p].rec)
         /\ \A r : Includes(delivered, r) => Includes(dl, r)
<1> DEFINE n == Len(delivered)
           D == [rec : Nat, data : Seq(Nat \X Nat)]
<1>0. PICK x : x = [rec |-> phys[p].rec, data |-> Bytes(phys[p].rec, records[phys[p].rec].size)]
  OBVIOUS
<1>1. /\ WriterTypes /\ HistoryInv /\ FileInv
      /\ Ends(p) /\ records[phys[p].rec].offset >= reader.initial /\ dl = Append(delivered, x)
  <2>1. Ends(p) /\ records[phys[p].rec].offset >= reader.initial /\ dl = Append(delivered, x)
    BY <1>0 DEF Completes
  <2>2. WriterTypes /\ HistoryInv /\ FileInv
    BY DEF Passed, WriterInv
  <2> QED  BY <2>1, <2>2
<1>2. delivered \in Seq(D) /\ GenuineOf(delivered) /\ DeliveredOf(reader, delivered) /\ reader \in Readers
  BY DEF Passed, Holds, TypesOf
<1>3. /\ p \in 1..Len(phys) /\ phys[p].rec \in Nat /\ records[phys[p].rec].size \in Nat
  BY PassedFacts
<1>4. x \in D /\ x.rec = phys[p].rec /\ x.data = Whole(x.rec)
  <2>1. Bytes(phys[p].rec, records[phys[p].rec].size) \in Seq(Nat \X Nat)
    BY <1>3, Joined
  <2> QED  BY <1>0, <1>3, <2>1, WholeBytes
<1>5. /\ dl \in Seq(D) /\ Len(dl) = n + 1 /\ n \in Nat
      /\ \A j \in 1..n : dl[j] = delivered[j]
      /\ dl[n + 1] = x
  <2> HIDE DEF D
  <2> QED  BY <1>1, <1>2, <1>4, Appended
<1>6. \A d \in 1..Len(dl) : d = n + 1 \/ d \in 1..n
  BY <1>5
<1>7. n + 1 \in 1..Len(dl) /\ 1..n \subseteq 1..Len(dl)
  BY <1>5
<1>8. /\ Place(rd) = Place(reader) + Span(p) /\ Place(reader) \in Nat /\ Place(rd) \in 1..Len(file)
      /\ Place(rd) > Place(reader) /\ IsLast(Place(rd)) /\ file[Place(rd)].p = p /\ p > 0
      /\ DeliveredOf(rd, delivered)
  BY Advanced
<1>9. rd.initial = reader.initial
  BY DEF Advances
<1>10. ASSUME NEW d \in 1..n PROVE delivered[d].rec < phys[p].rec
  <2>1. PICK m \in 1..Len(file) : /\ m <= Place(reader) /\ IsLast(m) /\ Ends(file[m].p)
                                  /\ phys[file[m].p].rec = delivered[d].rec
    BY <1>2 DEF DeliveredOf
  <2>2. PICK k \in 1..Len(file) : k = Place(rd)
    BY <1>8
  <2>3. m < k /\ file[m].p > 0 /\ file[k].p > 0 /\ file[k].p = p /\ file[k].i = Span(p) /\ file[m].i = Span(file[m].p)
    BY <1>8, <2>1, <2>2 DEF IsLast
  <2>4. /\ file[m].p \in 1..Len(phys) /\ file[m].p <= p
        /\ file[m].p = p => k - m = file[k].i - file[m].i
    BY <1>1, <2>3, Order
  <2>5. file[m].p # p
    <3> SUFFICES ASSUME file[m].p = p PROVE FALSE
      OBVIOUS
    <3>1. k - m = Span(p) - Span(p) /\ Span(p) \in Nat
      BY <2>3, <2>4, PassedFacts
    <3> QED  BY <2>3, <3>1
  <2>6. file[m].p < p
    BY <1>1, <1>3, <2>4, <2>5, WriterFacts, SMTT(60)
  <2>7. phys[file[m].p].rec < phys[p].rec
    BY <1>1, <1>3, <2>1, <2>4, <2>6 DEF HistoryInv
  <2> QED  BY <2>1, <2>7
<1> HIDE DEF n, D
<1>11. GenuineOf(dl)
  <2>1. ASSUME NEW d \in 1..Len(dl) PROVE dl[d].data = Whole(dl[d].rec)
    <3>1. CASE d = n + 1
      BY <1>4, <1>5, <3>1
    <3>2. CASE d \in 1..n
      BY <1>2, <1>5, <3>2 DEF GenuineOf, n
    <3> QED  BY <1>6, <3>1, <3>2
  <2>2. ASSUME NEW d \in 1..Len(dl), NEW e \in 1..Len(dl), d < e PROVE dl[d].rec < dl[e].rec
    <3>1. d \in 1..n
      BY <1>5, <1>6, <2>2
    <3>2. CASE e = n + 1
      BY <1>4, <1>5, <1>10, <3>1, <3>2
    <3>3. CASE e \in 1..n
      BY <1>2, <1>5, <2>2, <3>1, <3>3 DEF GenuineOf, n
    <3> QED  BY <1>6, <3>2, <3>3
  <2> QED  BY <2>1, <2>2 DEF GenuineOf
<1>12. DeliveredOf(rd, dl)
  <2> SUFFICES ASSUME NEW d \in 1..Len(dl)
               PROVE  /\ \E m \in 1..Len(file) : /\ m <= Place(rd) /\ IsLast(m) /\ Ends(file[m].p)
                                                 /\ phys[file[m].p].rec = dl[d].rec
                      /\ records[dl[d].rec].offset >= rd.initial
    BY DEF DeliveredOf
  <2>1. CASE d = n + 1
    <3>1. dl[d].rec = phys[p].rec
      BY <1>4, <1>5, <2>1
    <3>2. PICK k \in 1..Len(file) : k = Place(rd)
      BY <1>8
    <3>3. k <= Place(rd) /\ IsLast(k) /\ Ends(file[k].p) /\ phys[file[k].p].rec = dl[d].rec
      BY <1>1, <1>8, <3>1, <3>2
    <3> QED  BY <1>1, <1>9, <3>1, <3>3
  <2>2. CASE d \in 1..n
    <3>1. dl[d] = delivered[d]
      BY <1>5, <2>2
    <3> QED  BY <1>8, <2>2, <3>1 DEF DeliveredOf, n
  <2> QED  BY <1>6, <2>1, <2>2
<1>13. \E d \in 1..Len(dl) : dl[d].rec = phys[p].rec
  BY <1>4, <1>5, <1>7
<1>14. \A r : (\E d \in 1..n : delivered[d].rec = r) => \E d \in 1..Len(dl) : dl[d].rec = r
  BY <1>5, <1>7
<1>15. TypesOf(rd, dl, 0)
  BY <1>5 DEF TypesOf, Advances, D
<1> QED  BY <1>11, <1>12, <1>13, <1>14, <1>15 DEF n, Includes

\* Without failures a reader from the start has met the start of every record.
LEMMA NoOrphan ==
  ASSUME NEW p, Passed(p), failures = 0, reader.initial = 0, ~Begins(p)
  PROVE  reader.in_fragmented
<1> SUFFICES ASSUME ~reader.in_fragmented PROVE FALSE
  OBVIOUS
<1> DEFINE c == Place(reader)
<1>1. WriterTypes
  BY DEF Passed, WriterInv
<1>2. reader \in Readers /\ BufferOf(reader) /\ SilentOf(reader, reports) /\ ~reader.done
  BY DEF Passed, Holds, TypesOf
<1>3. c \in Nat /\ Len(file) \in Nat
  BY <1>1, <1>2, PlaceFacts, WriterFacts
<1>4. p > 0 /\ 1 \in 1..Span(p)
  BY PassedFacts
<1>5. file[c + 1] = Cell(p, 1) /\ c + 1 \in 1..Len(file)
  BY <1>4 DEF Passed
<1>6. PICK k \in 1..Len(file) : k = c + 1
  BY <1>5
<1>7. k > c /\ file[k].p = p
  BY <1>3, <1>5, <1>6 DEF Cell
<1>8. \E m \in (c + 1)..(k - 1) : file[m] = Cell(file[k].p - 1, Span(file[k].p - 1))
  BY <1>2, <1>4, <1>7 DEF SilentOf
<1>9. (c + 1)..(k - 1) = {}
  BY <1>3, <1>6
<1> QED  BY <1>8, <1>9

\* A fragment that is passed over.
LEMMA IdleHolds ==
  ASSUME NEW p, Passed(p), NEW rd, Advances(rd, p), ~reader.in_fragmented, ~rd.in_fragmented, NEW rp \in Nat,
         ~(failures = 0 /\ reader.initial = 0), ~Begins(p) \/ Place(reader) < reader.initial
  PROVE  Holds(rd, delivered, rp)
<1>1. /\ TypesOf(reader, delivered, reports) /\ reader \in Readers /\ GenuineOf(delivered)
      /\ ProgressOf(reader, delivered)
  BY DEF Passed, Holds, TypesOf
<1>2. /\ rd \in Readers /\ rd.initial = reader.initial /\ ~rd.done
  BY DEF Advances
<1>3. BufferOf(rd) /\ DeliveredOf(rd, delivered) /\ StepOf(rd)
  BY Advanced
<1>4. TypesOf(rd, delivered, rp)
  BY <1>1, <1>2 DEF TypesOf
<1>5. AssemblyOf(rd)
  BY DEF AssemblyOf
<1>6. SilentOf(rd, rp)
  BY <1>2 DEF SilentOf
<1>7. ProgressOf(rd, delivered)
  <2> SUFFICES ASSUME failures = 0, NEW r \in Acknowledged
               PROVE  \/ records[r].offset < rd.initial
                      \/ \E d \in 1..Len(delivered) : delivered[d].rec = r
                      \/ ~rd.done /\ records[r].offset >= Place(rd)
    BY DEF ProgressOf
  <2>1. \/ records[r].offset < reader.initial
        \/ \E d \in 1..Len(delivered) : delivered[d].rec = r
        \/ records[r].offset >= Place(reader)
    BY <1>1 DEF ProgressOf
  <2>2. ASSUME records[r].offset >= Place(reader)
        PROVE  \/ records[r].offset >= Place(rd)
               \/ records[r].offset = Place(reader) /\ Begins(p)
    BY <2>2, ProgressStep
  <2> QED  BY <1>2, <2>1, <2>2
<1> QED  BY <1>1, <1>3, <1>4, <1>5, <1>6, <1>7 DEF Holds

LEMMA SameStart == ASSUME NEW r, NEW s, Started(r), Started(s), records[r].offset = records[s].offset PROVE r = s
  BY DEF Started

\* A record that is complete: it was being assembled, or starts here.
LEMMA CompleteHolds ==
  ASSUME NEW p, Passed(p), NEW rd, Advances(rd, p), NEW dl, Completes(p, dl),
         ~rd.in_fragmented, ~rd.resyncing, NEW rp \in Nat, failures = 0 /\ reader.initial = 0 => rp = 0,
         reader.in_fragmented /\ failures = 0 =>
           Started(phys[p].rec) /\ records[phys[p].rec].offset = reader.prospective
  PROVE  Holds(rd, dl, rp)
<1>1. /\ reader \in Readers /\ ProgressOf(reader, delivered) /\ WriterTypes /\ HistoryInv /\ FileInv /\ AckInv
  BY DEF Passed, Holds, TypesOf, WriterInv
<1>2. /\ rd \in Readers /\ rd.initial = reader.initial /\ ~rd.done
  BY DEF Advances
<1>3. /\ BufferOf(rd) /\ StepOf(rd) /\ Place(rd) \in 1..Len(file) /\ IsLast(Place(rd)) /\ file[Place(rd)].p = p
  BY Advanced
<1>4. /\ TypesOf(rd, dl, 0) /\ GenuineOf(dl) /\ DeliveredOf(rd, dl)
      /\ Includes(dl, phys[p].rec)
      /\ \A r : Includes(delivered, r) => Includes(dl, r)
  BY DeliverHolds
<1>5. TypesOf(rd, dl, rp)
  BY <1>2, <1>4 DEF TypesOf
<1>6. AssemblyOf(rd)
  BY DEF AssemblyOf
<1>7. SilentOf(rd, rp)
  <2>1. ASSUME NEW k \in 1..Len(file), k > Place(rd), file[k].p > 0, ~Begins(file[k].p)
        PROVE  \E m \in (Place(rd) + 1)..(k - 1) : file[m] = Cell(file[k].p - 1, Span(file[k].p - 1))
    <3>1. Ends(p)
      BY DEF Completes
    <3> QED  BY <1>1, <1>3, <2>1, <3>1, NextAfterEnd
  <2> QED  BY <1>2, <2>1 DEF SilentOf
<1>8. ProgressOf(rd, dl)
  <2> SUFFICES ASSUME failures = 0, NEW r \in Acknowledged
               PROVE  \/ records[r].offset < rd.initial
                      \/ Includes(dl, r)
                      \/ ~rd.done /\ records[r].offset >= Place(rd)
    BY DEF ProgressOf, Includes
  <2>1. \/ records[r].offset < reader.initial
        \/ Includes(delivered, r)
        \/ records[r].offset >= Place(reader)
        \/ reader.in_fragmented /\ records[r].offset = reader.prospective
    BY <1>1 DEF ProgressOf, Includes
  <2>2. ASSUME records[r].offset >= Place(reader)
        PROVE  \/ records[r].offset >= Place(rd)
               \/ phys[p].rec = r
    BY <2>2, ProgressStep
  <2>3. ASSUME reader.in_fragmented, records[r].offset = reader.prospective
        PROVE  phys[p].rec = r
    <3>1. Started(r)
      BY <1>1 DEF AckInv
    <3> QED  BY <2>3, <3>1, SameStart
  <2> QED  BY <1>2, <1>4, <2>1, <2>2, <2>3
<1> QED  BY <1>3, <1>4, <1>5, <1>6, <1>7, <1>8 DEF Holds

\* The first fragment of a record is where the writer says the record starts.
LEMMA StartsHere ==
  ASSUME NEW p, Passed(p), Begins(p)
  PROVE  Started(phys[p].rec) /\ records[phys[p].rec].offset = Place(reader)
<1> DEFINE c == Place(reader)
<1>1. WriterTypes /\ FileInv
  BY DEF Passed, WriterInv
<1>2. reader \in Readers /\ BufferOf(reader)
  BY DEF Passed, Holds, TypesOf
<1>3. c \in Nat /\ Len(file) \in Nat
  BY <1>1, <1>2, PlaceFacts, WriterFacts
<1>4. p > 0 /\ 1 \in 1..Span(p)
  BY PassedFacts
<1>5. file[c + 1] = Cell(p, 1) /\ c + 1 \in 1..Len(file)
  BY <1>4 DEF Passed
<1>6. PICK k \in 1..Len(file) : k = c + 1
  BY <1>5
<1>7. file[k].p = p /\ file[k].i = 1 /\ file[c + 1].p = p /\ file[c + 1].i = 1
  BY <1>5, <1>6 DEF Cell
<1>8. records[phys[p].rec].offset = k - 1
  BY <1>1, <1>4, <1>7 DEF FileInv
<1>9. k - 1 = c /\ c \in 0..(Len(file) - 1)
  BY <1>3, <1>5, <1>6
<1> HIDE DEF c
<1>10. Started(phys[p].rec)
  BY <1>4, <1>7, <1>8, <1>9 DEF Started
<1> QED  BY <1>8, <1>9, <1>10 DEF c

\* A record that is begun or goes on: assembled up to the reader's place.
LEMMA AssembledHolds ==
  ASSUME NEW p, Passed(p), NEW rd, Advances(rd, p), ~Ends(p), rd.in_fragmented, ~rd.resyncing,
         rd.scratch = Bytes(phys[p].rec, phys[p].first + phys[p].length),
         Started(phys[p].rec), records[phys[p].rec].offset = rd.prospective,
         reader.initial <= rd.prospective, rd.prospective <= Place(reader),
         NEW rp \in Nat, failures = 0 /\ reader.initial = 0 => rp = 0,
         reader.in_fragmented /\ failures = 0 => reader.prospective = rd.prospective
  PROVE  Holds(rd, delivered, rp)
<1>1. /\ TypesOf(reader, delivered, reports) /\ reader \in Readers /\ GenuineOf(delivered)
      /\ ProgressOf(reader, delivered)
  BY DEF Passed, Holds, TypesOf
<1>2. /\ rd \in Readers /\ rd.initial = reader.initial /\ ~rd.done
  BY DEF Advances
<1>3. /\ BufferOf(rd) /\ DeliveredOf(rd, delivered) /\ StepOf(rd)
      /\ Place(rd) \in 1..Len(file) /\ IsLast(Place(rd)) /\ file[Place(rd)].p = p
      /\ Place(rd) > Place(reader) /\ Place(reader) \in Nat
  BY Advanced
<1>4. TypesOf(rd, delivered, rp)
  BY <1>1, <1>2 DEF TypesOf
<1>5. AssemblyOf(rd)
  <2>1. PICK m \in 1..Len(file) : m = Place(rd)
    BY <1>3
  <2>2. /\ m <= Place(rd) /\ Place(rd) < m + HeaderSize /\ Place(rd) = m /\ rd.prospective <= Place(rd)
        /\ (m + 1)..Place(rd) = {}
    <3>1. rd.prospective \in Nat
      BY <1>2, FieldTypes
    <3> QED  BY <1>3, <2>1, <3>1, Sizing
  <2>3. AssemblyAt(rd, m)
    BY <1>2, <1>3, <2>1, <2>2 DEF AssemblyAt
  <2> QED  BY <2>3 DEF AssemblyOf
<1>6. SilentOf(rd, rp)
  BY <1>2 DEF SilentOf
<1>7. ProgressOf(rd, delivered)
  <2> SUFFICES ASSUME failures = 0, NEW r \in Acknowledged
               PROVE  \/ records[r].offset < rd.initial
                      \/ Includes(delivered, r)
                      \/ records[r].offset >= Place(rd)
                      \/ records[r].offset = rd.prospective
    BY <1>2 DEF ProgressOf, Includes
  <2>1. \/ records[r].offset < reader.initial
        \/ Includes(delivered, r)
        \/ records[r].offset >= Place(reader)
        \/ reader.in_fragmented /\ records[r].offset = reader.prospective
    BY <1>1 DEF ProgressOf, Includes
  <2>2. ASSUME records[r].offset >= Place(reader)
        PROVE  \/ records[r].offset >= Place(rd)
               \/ phys[p].rec = r
    BY <2>2, ProgressStep
  <2> QED  BY <1>2, <2>1, <2>2
<1> QED  BY <1>1, <1>3, <1>4, <1>5, <1>6, <1>7 DEF Holds

\* What the fragments before one that continues a record left.
LEMMA Continued ==
  ASSUME NEW p, Passed(p), reader.in_fragmented, ~Begins(p)
  PROVE  /\ Started(phys[p].rec) /\ records[phys[p].rec].offset = reader.prospective
         /\ reader.initial <= reader.prospective /\ reader.prospective <= Place(reader)
         /\ reader.scratch \o Payload(phys[p]) = Bytes(phys[p].rec, phys[p].first + phys[p].length)
<1>1. PICK m \in 1..Len(file) : AssemblyAt(reader, m) /\ file[m].p = p - 1 /\ p > 1
  BY Assembling
<1>2. p \in 1..Len(phys) /\ HistoryInv
  BY DEF Passed, WriterInv
<1>3. phys[p - 1].rec = phys[p].rec /\ phys[p].first = phys[p - 1].first + phys[p - 1].length
  BY <1>2 DEF HistoryInv
<1>4. /\ Started(phys[p].rec) /\ records[phys[p].rec].offset = reader.prospective
      /\ reader.initial <= reader.prospective /\ reader.prospective <= Place(reader)
      /\ reader.scratch = Bytes(phys[p].rec, phys[p].first)
  BY <1>1, <1>3 DEF AssemblyAt
<1>5. Payload(phys[p]) = [i \in 1..phys[p].length |-> <<phys[p].rec, phys[p].first + i>>]
  BY PassedPayload
<1>6. phys[p].length \in Nat /\ phys[p].first \in Nat /\ phys[p].rec \in Nat
  BY PassedFacts
<1>7. Bytes(phys[p].rec, phys[p].first) \o [i \in 1..phys[p].length |-> <<phys[p].rec, phys[p].first + i>>]
      = Bytes(phys[p].rec, phys[p].first + phys[p].length)
  <2>1. PICK a, b, l : a = phys[p].rec /\ b = phys[p].first /\ l = phys[p].length
    OBVIOUS
  <2>2. a \in Nat /\ b \in Nat /\ l \in Nat
    BY <1>6, <2>1
  <2>3. Bytes(a, b) \o [i \in 1..l |-> <<a, b + i>>] = Bytes(a, b + l)
    BY <2>2, Joined
  <2> QED  BY <2>1, <2>3
<1> QED  BY <1>4, <1>5, <1>7

\* The reader after buffer_.remove_prefix.
LEMMA ConsumedFacts ==
  ASSUME NEW p, Passed(p), NEW r, r = Consumed(phys[p].length)
  PROVE  /\ Advances(r, p) /\ r \in Readers
         /\ r.end_of_buffer - Len(r.buffer) - HeaderSize - phys[p].length = Place(reader)
         /\ r.initial = reader.initial /\ r.resyncing = reader.resyncing /\ r.in_fragmented = reader.in_fragmented
         /\ r.scratch = reader.scratch /\ r.prospective = reader.prospective
<1>1. /\ reader \in Readers /\ BufferOf(reader) /\ WriterTypes
      /\ ~reader.done /\ reader.started
  BY DEF Passed, Holds, TypesOf, WriterInv
<1>2. HeaderSize + phys[p].length = Span(p) /\ Span(p) \in Nat /\ phys[p].length \in Nat
  BY PassedFacts
<1>3. PICK s : s = SubSeq(reader.buffer, Span(p) + 1, Len(reader.buffer))
  OBVIOUS
<1>4. r = [reader EXCEPT !.buffer = s]
  BY <1>2, <1>3 DEF Consumed
<1>5. s \in Seq(FileCells)
  <2>1. PICK b, n, a : b = reader.buffer /\ n = Len(b) /\ a = Span(p)
    OBVIOUS
  <2>2. b \in Seq(FileCells) /\ n \in Nat /\ n <= Len(b) /\ a \in Nat
    BY <1>1, <1>2, <2>1, FieldTypes
  <2>3. SubSeq(b, a + 1, n) \in Seq(FileCells)
    BY <2>2, Slice
  <2> QED  BY <1>3, <2>1, <2>3
<1>6. /\ r \in Readers /\ r.pos = reader.pos /\ r.buffer = s
      /\ r.eof = reader.eof /\ r.end_of_buffer = reader.end_of_buffer /\ r.initial = reader.initial
      /\ r.started = reader.started /\ r.done = reader.done /\ r.resyncing = reader.resyncing
      /\ r.in_fragmented = reader.in_fragmented /\ r.scratch = reader.scratch /\ r.prospective = reader.prospective
  BY <1>1, <1>4, <1>5 DEF Readers
<1>7. reader.resyncing => ~reader.in_fragmented
  BY <1>1 DEF BufferOf
<1>8. Advances(r, p)
  BY <1>1, <1>3, <1>6, <1>7 DEF Advances
<1>9. r.end_of_buffer - Len(r.buffer) - HeaderSize - phys[p].length = Place(reader)
  <2>1. Place(r) = Place(reader) + Span(p) /\ Place(reader) \in Nat /\ BufferOf(r)
    BY <1>8, Advanced
  <2>2. r.end_of_buffer = Place(r) + Len(r.buffer) /\ Len(r.buffer) \in Nat
    BY <1>1, <1>6, <2>1, PlaceFacts
  <2>3. PICK e, n, l, c : e = r.end_of_buffer /\ n = Len(r.buffer) /\ l = phys[p].length /\ c = Place(reader)
    OBVIOUS
  <2>4. n \in Nat /\ l \in Nat /\ c \in Nat /\ e = c + (HeaderSize + l) + n
    BY <1>2, <2>1, <2>2, <2>3
  <2>5. e - n - HeaderSize - l = c
    BY <2>4, Sizing
  <2> QED  BY <2>3, <2>5
<1> QED  BY <1>6, <1>8, <1>9

\* ReadRecord changes only what it keeps of a record being assembled: it stops
\* assembling, or has s of a record that starts at q.
Stops(rd, r, s, q, l) ==
  rd = [r EXCEPT !.resyncing = FALSE, !.in_fragmented = FALSE, !.scratch = s, !.prospective = q, !.last_record = l]
Gathers(rd, r, s, q) ==
  rd = [r EXCEPT !.resyncing = FALSE, !.in_fragmented = TRUE, !.scratch = s, !.prospective = q]

LEMMA Stopped ==
  ASSUME NEW p, NEW r, Advances(r, p), NEW s \in Seq(Nat \X Nat), NEW q \in Nat, NEW l \in Nat,
         NEW rd, Stops(rd, r, s, q, l)
  PROVE  Advances(rd, p) /\ ~rd.resyncing /\ ~rd.in_fragmented
<1>1. /\ r \in Readers /\ r.pos = reader.pos /\ r.buffer = SubSeq(reader.buffer, Span(p) + 1, Len(reader.buffer))
      /\ r.eof = reader.eof /\ r.end_of_buffer = reader.end_of_buffer /\ r.initial = reader.initial
      /\ r.started /\ ~r.done
  BY DEF Advances
<1>2. /\ rd \in Readers /\ rd.pos = r.pos /\ rd.buffer = r.buffer
      /\ rd.eof = r.eof /\ rd.end_of_buffer = r.end_of_buffer /\ rd.initial = r.initial
      /\ rd.started = r.started /\ rd.done = r.done /\ rd.resyncing = FALSE /\ rd.in_fragmented = FALSE
  BY <1>1 DEF Readers, Stops
<1> QED  BY <1>1, <1>2 DEF Advances

LEMMA Gathered ==
  ASSUME NEW p, NEW r, Advances(r, p), NEW s \in Seq(Nat \X Nat), NEW q \in Nat, NEW rd, Gathers(rd, r, s, q)
  PROVE  Advances(rd, p) /\ ~rd.resyncing /\ rd.in_fragmented /\ rd.scratch = s /\ rd.prospective = q
<1>1. /\ r \in Readers /\ r.pos = reader.pos /\ r.buffer = SubSeq(reader.buffer, Span(p) + 1, Len(reader.buffer))
      /\ r.eof = reader.eof /\ r.end_of_buffer = reader.end_of_buffer /\ r.initial = reader.initial
      /\ r.started /\ ~r.done
  BY DEF Advances
<1>2. /\ rd \in Readers /\ rd.pos = r.pos /\ rd.buffer = r.buffer
      /\ rd.eof = r.eof /\ rd.end_of_buffer = r.end_of_buffer /\ rd.initial = r.initial
      /\ rd.started = r.started /\ rd.done = r.done /\ rd.resyncing = FALSE /\ rd.in_fragmented = TRUE
      /\ rd.scratch = s /\ rd.prospective = q
  BY <1>1 DEF Readers, Gathers
<1> QED  BY <1>1, <1>2 DEF Advances

\* The reader after a fragment before the initial offset, a first and a middle one.
TooEarly(rd, r) ==
  rd = [Resync(r) EXCEPT !.in_fragmented = FALSE, !.scratch = IF r.in_fragmented THEN <<>> ELSE @]
AfterFirst(rd, r, p) ==
  rd = [Resync(r) EXCEPT !.in_fragmented = TRUE, !.scratch = Payload(phys[p]), !.prospective = Place(reader)]
AfterMiddle(rd, r, p) == rd = [Resync(r) EXCEPT !.scratch = @ \o Payload(phys[p])]

\* A fragment before the initial offset; nothing is being assembled then.
LEMMA EarlyHolds ==
  ASSUME NEW p, Passed(p), NEW r, r = Consumed(phys[p].length), Place(reader) < reader.initial,
         NEW rp \in Nat, NEW rd, TooEarly(rd, r)
  PROVE  Holds(rd, delivered, rp)
<1>1. Advances(r, p) /\ r \in Readers /\ r.in_fragmented = reader.in_fragmented /\ reader \in Readers
  BY ConsumedFacts DEF Passed, Holds, TypesOf
<1>2. ~reader.in_fragmented
  <2> SUFFICES ASSUME reader.in_fragmented PROVE FALSE
    OBVIOUS
  <2>1. PICK m \in 1..Len(file) : AssemblyAt(reader, m)
    BY DEF Passed, Holds, AssemblyOf
  <2>2. reader.initial <= reader.prospective /\ reader.prospective <= Place(reader)
    BY <2>1 DEF AssemblyAt
  <2>3. reader.initial \in Nat /\ reader.prospective \in Nat /\ Place(reader) \in Int
    BY <1>1, FieldTypes
  <2> QED  BY <2>2, <2>3
<1>3. /\ r.scratch \in Seq(Nat \X Nat) /\ r.prospective \in Nat /\ r.last_record \in Nat /\ reader.initial \in Nat
      /\ Place(reader) \in Int
  BY <1>1, FieldTypes
<1>4. Stops(rd, r, r.scratch, r.prospective, r.last_record)
  BY <1>1, <1>2 DEF Resync, Readers, Stops, TooEarly
<1>5. Advances(rd, p) /\ ~rd.in_fragmented
  BY <1>1, <1>3, <1>4, Stopped
<1>6. ~(failures = 0 /\ reader.initial = 0)
  <2>1. Place(reader) \in Nat
    BY <1>5, Advanced
  <2> QED  BY <1>3, <2>1
<1> QED  BY <1>2, <1>5, <1>6, IdleHolds

\* The end of a record whose start is before the initial offset.
LEMMA SkippedHolds ==
  ASSUME NEW p, Passed(p), NEW r, r = Consumed(phys[p].length), reader.resyncing, ~Begins(p),
         NEW rd, rd = r \/ rd = Resync(r)
  PROVE  Holds(rd, delivered, reports)
<1>1. Advances(r, p) /\ r \in Readers /\ r.in_fragmented = reader.in_fragmented /\ reader \in Readers
  BY ConsumedFacts, ZenonT(60) DEF Passed, Holds, TypesOf
<1>2. BufferOf(reader) /\ SilentOf(reader, reports) /\ reports \in Nat
  BY DEF Passed, Holds, TypesOf
<1>3. ~reader.in_fragmented /\ ~(failures = 0 /\ reader.initial = 0)
  BY <1>2 DEF BufferOf, SilentOf
<1>4. /\ r.scratch \in Seq(Nat \X Nat) /\ r.prospective \in Nat /\ r.last_record \in Nat /\ r.in_fragmented \in BOOLEAN
  BY <1>1, FieldTypes
<1>5. CASE rd = r
  BY <1>1, <1>2, <1>3, <1>5, IdleHolds
<1>6. CASE rd = Resync(r)
  <2>1. r.in_fragmented = FALSE
    BY <1>1, <1>3, <1>4
  <2>2. Stops(rd, r, r.scratch, r.prospective, r.last_record)
    BY <1>1, <1>6, <2>1 DEF Resync, Readers, Stops
  <2>3. Advances(rd, p) /\ ~rd.in_fragmented
    BY <1>1, <1>4, <2>2, Stopped
  <2> QED  BY <1>2, <1>3, <2>3, IdleHolds
<1> QED  BY <1>5, <1>6

\* A fragment that continues a record the reader has not seen the start of.
LEMMA OrphanHolds ==
  ASSUME NEW p, Passed(p), NEW r, r = Consumed(phys[p].length), ~reader.in_fragmented, ~Begins(p),
         NEW rd, rd = Resync(r), NEW rp \in Nat
  PROVE  Holds(rd, delivered, rp)
<1>1. Advances(r, p) /\ r \in Readers /\ r.in_fragmented = reader.in_fragmented
  BY ConsumedFacts
<1>2. ~(failures = 0 /\ reader.initial = 0)
  BY NoOrphan
<1>3. r.scratch \in Seq(Nat \X Nat) /\ r.prospective \in Nat /\ r.last_record \in Nat /\ r.in_fragmented \in BOOLEAN
  BY <1>1, FieldTypes
<1>4. r.in_fragmented = FALSE
  BY <1>1, <1>3
<1>5. Stops(rd, r, r.scratch, r.prospective, r.last_record)
  BY <1>1, <1>4 DEF Resync, Readers, Stops
<1>6. Advances(rd, p) /\ ~rd.in_fragmented
  BY <1>1, <1>3, <1>5, Stopped
<1> QED  BY <1>2, <1>6, IdleHolds

LEMMA DeliversRecord ==
  ASSUME NEW p, Passed(p), NEW r, r = Consumed(phys[p].length), NEW l \in Nat, NEW rd,
         rd = [Resync(r) EXCEPT !.last_record = l, !.in_fragmented = FALSE, !.scratch = <<>>]
  PROVE  Advances(rd, p) /\ ~rd.resyncing /\ ~rd.in_fragmented
<1>1. Advances(r, p) /\ r \in Readers
  BY ConsumedFacts
<1>2. r.prospective \in Nat
  BY <1>1, FieldTypes
<1>3. PICK s \in Seq(Nat \X Nat) : s = <<>>
  <2>1. <<>> \in Seq(Nat \X Nat)
    OBVIOUS
  <2> QED  BY <2>1, Zenon
<1>4. Stops(rd, r, s, r.prospective, l)
  BY <1>1, <1>3 DEF Resync, Readers, Stops
<1> QED  BY <1>1, <1>2, <1>4, Stopped

LEMMA FullHolds ==
  ASSUME NEW p, Passed(p), NEW r, r = Consumed(phys[p].length), phys[p].type = "full",
         ~(Place(reader) < reader.initial), NEW l, l = Place(reader), NEW rd,
         rd = [Resync(r) EXCEPT !.last_record = l, !.in_fragmented = FALSE, !.scratch = <<>>],
         NEW dl, dl = Append(delivered, [rec |-> phys[p].rec, data |-> Payload(phys[p])]),
         NEW rp \in Nat, failures = 0 /\ reader.initial = 0 => rp = 0
  PROVE  Holds(rd, dl, rp)
<1>1. Begins(p) /\ Ends(p)
  BY DEF Begins, Ends
<1>2. /\ reader \in Readers /\ BufferOf(reader) /\ WriterTypes
  BY DEF Passed, Holds, TypesOf, WriterInv
<1>3. l \in Nat /\ reader.initial \in Nat
  BY <1>2, FieldTypes, PlaceFacts
<1>4. Advances(rd, p) /\ ~rd.resyncing /\ ~rd.in_fragmented
  BY <1>3, DeliversRecord
<1>5. /\ phys[p].first = 0 /\ phys[p].length = records[phys[p].rec].size /\ phys[p].length \in Nat /\ phys[p].rec \in Nat
  <2>1. /\ phys[p].first = 0 /\ phys[p].first + phys[p].length = records[phys[p].rec].size /\ phys[p].length \in Nat
        /\ phys[p].rec \in Nat
    BY <1>1, PassedFacts
  <2> QED  BY <2>1
<1>6. Payload(phys[p]) = Bytes(phys[p].rec, records[phys[p].rec].size)
  <2>1. Payload(phys[p]) = [i \in 1..phys[p].length |-> <<phys[p].rec, phys[p].first + i>>]
    BY PassedPayload
  <2>2. \A i \in 1..phys[p].length : phys[p].first + i = i
    BY <1>5
  <2>3. [i \in 1..phys[p].length |-> <<phys[p].rec, phys[p].first + i>>] = [i \in 1..phys[p].length |-> <<phys[p].rec, i>>]
    BY <2>2
  <2> QED  BY <1>5, <2>1, <2>3 DEF Bytes
<1>7. Started(phys[p].rec) /\ records[phys[p].rec].offset = Place(reader)
  BY <1>1, StartsHere
<1>8. Completes(p, dl)
  <2>1. records[phys[p].rec].offset >= reader.initial
    BY <1>3, <1>7
  <2> QED  BY <1>1, <1>6, <2>1 DEF Completes
<1>9. failures = 0 => ~reader.in_fragmented
  BY <1>1, ClearStart
<1> QED  BY <1>4, <1>8, <1>9, CompleteHolds

LEMMA LastHolds ==
  ASSUME NEW p, Passed(p), NEW r, r = Consumed(phys[p].length), phys[p].type = "last", reader.in_fragmented,
         NEW l, l = r.prospective, NEW rd,
         rd = [Resync(r) EXCEPT !.last_record = l, !.in_fragmented = FALSE, !.scratch = <<>>],
         NEW dl, dl = Append(delivered, [rec |-> phys[p].rec, data |-> r.scratch \o Payload(phys[p])]),
         NEW rp \in Nat, failures = 0 /\ reader.initial = 0 => rp = 0
  PROVE  Holds(rd, dl, rp)
<1>1. ~Begins(p) /\ Ends(p)
  BY DEF Begins, Ends
<1>2. /\ r \in Readers /\ r.scratch = reader.scratch /\ r.prospective = reader.prospective /\ reader \in Readers
  BY ConsumedFacts, ZenonT(60) DEF Passed, Holds, TypesOf
<1>3. l \in Nat /\ reader.initial \in Nat
  BY <1>2, FieldTypes
<1>4. Advances(rd, p) /\ ~rd.resyncing /\ ~rd.in_fragmented
  BY <1>3, DeliversRecord
<1>5. /\ Started(phys[p].rec) /\ records[phys[p].rec].offset = reader.prospective
      /\ reader.initial <= reader.prospective
      /\ reader.scratch \o Payload(phys[p]) = Bytes(phys[p].rec, phys[p].first + phys[p].length)
  BY <1>1, Continued
<1>6. phys[p].first + phys[p].length = records[phys[p].rec].size
  BY <1>1, PassedFacts
<1>7. Completes(p, dl)
  <2>1. records[phys[p].rec].offset >= reader.initial
    BY <1>2, <1>3, <1>5
  <2> QED  BY <1>1, <1>2, <1>5, <1>6, <2>1 DEF Completes
<1> QED  BY <1>4, <1>5, <1>7, CompleteHolds

LEMMA GatheredHolds ==
  ASSUME NEW p, Passed(p), NEW r, Advances(r, p), ~Ends(p), NEW s, NEW q \in Nat, NEW rd, Gathers(rd, r, s, q),
         s = Bytes(phys[p].rec, phys[p].first + phys[p].length),
         Started(phys[p].rec), records[phys[p].rec].offset = q, reader.initial <= q, q <= Place(reader),
         NEW rp \in Nat, failures = 0 /\ reader.initial = 0 => rp = 0,
         reader.in_fragmented /\ failures = 0 => reader.prospective = q
  PROVE  Holds(rd, delivered, rp)
<1>1. phys[p].first \in Nat /\ phys[p].length \in Nat /\ phys[p].rec \in Nat
  BY PassedFacts
<1>2. s \in Seq(Nat \X Nat)
  <2>1. phys[p].first + phys[p].length \in Nat
    BY <1>1
  <2> QED  BY <1>1, <2>1, Joined
<1>3. /\ Advances(rd, p) /\ ~rd.resyncing /\ rd.in_fragmented /\ rd.scratch = s /\ rd.prospective = q
  BY <1>2, Gathered
<1> QED  BY <1>3, AssembledHolds

LEMMA FirstHolds ==
  ASSUME NEW p, Passed(p), NEW r, r = Consumed(phys[p].length), phys[p].type = "first",
         ~(Place(reader) < reader.initial), NEW rd, AfterFirst(rd, r, p),
         NEW rp \in Nat, failures = 0 /\ reader.initial = 0 => rp = 0
  PROVE  Holds(rd, delivered, rp)
<1>0. PICK l : l = Place(reader)
  OBVIOUS
<1>1. Begins(p) /\ ~Ends(p)
  BY DEF Begins, Ends
<1>2. /\ reader \in Readers /\ BufferOf(reader) /\ WriterTypes /\ Advances(r, p) /\ r \in Readers
  BY ConsumedFacts DEF Passed, Holds, TypesOf, WriterInv
<1>3. l \in Nat /\ reader.initial \in Nat
  BY <1>0, <1>2, FieldTypes, PlaceFacts
<1>4. phys[p].first = 0 /\ phys[p].length \in Nat /\ phys[p].rec \in Nat
  BY <1>1, PassedFacts
<1>5. Payload(phys[p]) = Bytes(phys[p].rec, phys[p].first + phys[p].length)
  <2>1. Payload(phys[p]) = [i \in 1..phys[p].length |-> <<phys[p].rec, phys[p].first + i>>]
    BY PassedPayload
  <2>2. \A i \in 1..phys[p].length : phys[p].first + i = i
    BY <1>4
  <2>3. [i \in 1..phys[p].length |-> <<phys[p].rec, phys[p].first + i>>] = [i \in 1..phys[p].length |-> <<phys[p].rec, i>>]
    BY <2>2
  <2>4. phys[p].first + phys[p].length = phys[p].length
    BY <1>4
  <2> QED  BY <2>1, <2>3, <2>4 DEF Bytes
<1>7. Gathers(rd, r, Payload(phys[p]), l)
  <2>1. PICK s : s = Payload(phys[p])
    OBVIOUS
  <2>2. rd = [Resync(r) EXCEPT !.in_fragmented = TRUE, !.scratch = s, !.prospective = l]
    BY <1>0, <2>1 DEF AfterFirst
  <2>3. Gathers(rd, r, s, l)
    BY <1>2, <2>2 DEF Resync, Readers, Gathers
  <2> QED  BY <2>1, <2>3
<1>9. Started(phys[p].rec) /\ records[phys[p].rec].offset = Place(reader)
  BY <1>1, StartsHere
<1>10. failures = 0 => ~reader.in_fragmented
  BY <1>1, ClearStart
<1>11. reader.initial <= l /\ l <= Place(reader)
  BY <1>0, <1>3
<1> QED  BY <1>0, <1>1, <1>2, <1>3, <1>5, <1>7, <1>9, <1>10, <1>11, GatheredHolds

LEMMA MiddleHolds ==
  ASSUME NEW p, Passed(p), NEW r, r = Consumed(phys[p].length), phys[p].type = "middle", reader.in_fragmented,
         NEW rd, AfterMiddle(rd, r, p),
         NEW rp \in Nat, failures = 0 /\ reader.initial = 0 => rp = 0
  PROVE  Holds(rd, delivered, rp)
<1>1. ~Begins(p) /\ ~Ends(p)
  BY DEF Begins, Ends
<1>2. /\ reader \in Readers /\ Advances(r, p) /\ r \in Readers /\ r.in_fragmented = reader.in_fragmented
      /\ r.scratch = reader.scratch /\ r.prospective = reader.prospective
  BY ConsumedFacts, ZenonT(60) DEF Passed, Holds, TypesOf
<1>3. r.prospective \in Nat /\ r.in_fragmented \in BOOLEAN
  BY <1>2, FieldTypes
<1>5. /\ Started(phys[p].rec) /\ records[phys[p].rec].offset = reader.prospective
      /\ reader.initial <= reader.prospective /\ reader.prospective <= Place(reader)
      /\ reader.scratch \o Payload(phys[p]) = Bytes(phys[p].rec, phys[p].first + phys[p].length)
  BY <1>1, Continued
<1>7. PICK s : s = Bytes(phys[p].rec, phys[p].first + phys[p].length)
  OBVIOUS
<1>8. Gathers(rd, r, s, r.prospective)
  <2>1. r.in_fragmented = TRUE
    BY <1>2, <1>3
  <2>2. Resync(r).scratch = r.scratch
    BY <1>2 DEF Resync, Readers
  <2>3. rd = [Resync(r) EXCEPT !.scratch = s]
    BY <1>2, <1>5, <1>7, <2>2 DEF AfterMiddle
  <2>4. [Resync(r) EXCEPT !.scratch = s]
          = [r EXCEPT !.resyncing = FALSE, !.in_fragmented = TRUE, !.scratch = s, !.prospective = r.prospective]
    BY <1>2, <2>1 DEF Resync, Readers
  <2> QED  BY <2>3, <2>4 DEF Gathers
<1>9. PICK q \in Nat : q = r.prospective
  BY <1>3
<1> QED  BY <1>1, <1>2, <1>5, <1>7, <1>8, <1>9, GatheredHolds

\* ReadRecord's switch.
LEMMA FragmentHolds ==
  ASSUME NEW p, Passed(p), ReadFragment(phys[p]), NEW rd, NEW dl, NEW rp, rd = reader', dl = delivered', rp = reports'
  PROVE  Holds(rd, dl, rp)
<1>1. PICK f : f = phys[p]
  OBVIOUS
<1>2. PICK r : r = Consumed(phys[p].length)
  OBVIOUS
<1> DEFINE at == r.end_of_buffer - Len(r.buffer) - HeaderSize - f.length
           early == r.in_fragmented /\ Reported(r, Len(r.scratch))
           partial == r.in_fragmented /\ Len(r.scratch) > 0 /\ Reported(r, Len(r.scratch))
           orphan == ~r.in_fragmented /\ f.type \in {"middle", "last"} /\ Reported(r, f.length)
           cut == f.type \in {"full", "first"} /\ partial
<1>3. /\ at = Place(reader) /\ r.initial = reader.initial /\ r.resyncing = reader.resyncing
      /\ r.in_fragmented = reader.in_fragmented /\ r.scratch = reader.scratch /\ r.prospective = reader.prospective
  BY <1>1, <1>2, ConsumedFacts
<1>4. reports \in Nat /\ SilentOf(reader, reports)
  BY DEF Passed, Holds, TypesOf
<1>5. f.type \in {"full", "first", "middle", "last"}
  BY <1>1, PassedFacts DEF Types
<1>6. CASE at < r.initial
  <2>1. /\ rd = [Resync(r) EXCEPT !.in_fragmented = FALSE, !.scratch = IF r.in_fragmented THEN <<>> ELSE @]
        /\ rp = reports + (IF early THEN 1 ELSE 0) /\ dl = delivered
    BY <1>1, <1>2, <1>6 DEF ReadFragment
  <2>2. rp \in Nat
    <3> HIDE DEF early
    <3> QED  BY <1>4, <2>1
  <2> HIDE DEF at
  <2>3. TooEarly(rd, r)
    BY <2>1 DEF TooEarly
  <2> QED  BY <1>2, <1>3, <1>6, <2>1, <2>2, <2>3, EarlyHolds
<1>7. CASE ~(at < r.initial) /\ r.resyncing /\ f.type \in {"middle", "last"}
  <2>1. (rd = r \/ rd = Resync(r)) /\ rp = reports /\ dl = delivered
    BY <1>1, <1>2, <1>7 DEF ReadFragment
  <2>2. ~Begins(p)
    BY <1>1, <1>7 DEF Begins
  <2> QED  BY <1>2, <1>3, <1>7, <2>1, <2>2, SkippedHolds
<1>8. CASE ~(at < r.initial) /\ ~(r.resyncing /\ f.type \in {"middle", "last"})
  <2>1. rp = reports + (IF cut THEN 1 ELSE 0) + (IF orphan THEN 1 ELSE 0)
    BY <1>1, <1>2, <1>8 DEF ReadFragment
  <2>2. rp \in Nat
    <3> HIDE DEF cut, orphan
    <3> QED  BY <1>4, <2>1
  <2>3. failures = 0 /\ reader.initial = 0 => rp = 0
    <3> SUFFICES ASSUME failures = 0, reader.initial = 0 PROVE rp = 0
      OBVIOUS
    <3>1. reports = 0
      BY <1>4 DEF SilentOf
    <3>2. ~cut
      <4>1. ASSUME f.type \in {"full", "first"} PROVE ~reader.in_fragmented
        BY <1>1, <4>1, ClearStart DEF Begins
      <4> QED  BY <1>3, <4>1
    <3>3. ~orphan
      <4>1. ASSUME f.type \in {"middle", "last"} PROVE reader.in_fragmented
        BY <1>1, <4>1, NoOrphan DEF Begins
      <4> QED  BY <1>3, <4>1
    <3> HIDE DEF cut, orphan
    <3> QED  BY <2>1, <3>1, <3>2, <3>3
  <2>4. ~(Place(reader) < reader.initial)
    BY <1>3, <1>8
  <2>5. CASE f.type = "full"
    <3>1. /\ rd = [Resync(r) EXCEPT !.last_record = at, !.in_fragmented = FALSE, !.scratch = <<>>]
          /\ dl = Append(delivered, [rec |-> f.rec, data |-> Payload(f)])
      BY <1>1, <1>2, <1>8, <2>5 DEF ReadFragment, Deliver
    <3> HIDE DEF at
    <3>2. PICK l : l = Place(reader)
      OBVIOUS
    <3>3. /\ rd = [Resync(r) EXCEPT !.last_record = l, !.in_fragmented = FALSE, !.scratch = <<>>]
          /\ dl = Append(delivered, [rec |-> phys[p].rec, data |-> Payload(phys[p])])
          /\ phys[p].type = "full"
      BY <1>1, <1>3, <2>5, <3>1, <3>2
    <3> QED  BY <1>2, <2>2, <2>3, <2>4, <3>2, <3>3, FullHolds
  <2>6. CASE f.type = "first"
    <3>1. /\ rd = [Resync(r) EXCEPT !.in_fragmented = TRUE, !.scratch = Payload(f), !.prospective = at]
          /\ dl = delivered
      BY <1>1, <1>2, <1>8, <2>6 DEF ReadFragment
    <3> HIDE DEF at
    <3>2. AfterFirst(rd, r, p) /\ phys[p].type = "first"
      BY <1>1, <1>3, <2>6, <3>1 DEF AfterFirst
    <3> QED  BY <1>2, <2>2, <2>3, <2>4, <3>1, <3>2, FirstHolds
  <2>7. CASE f.type = "middle" /\ r.in_fragmented
    <3>1. rd = [Resync(r) EXCEPT !.scratch = @ \o Payload(f)] /\ dl = delivered
      BY <1>1, <1>2, <1>8, <2>7 DEF ReadFragment
    <3>2. AfterMiddle(rd, r, p) /\ phys[p].type = "middle" /\ reader.in_fragmented
      BY <1>1, <1>3, <2>7, <3>1 DEF AfterMiddle
    <3> QED  BY <1>2, <2>2, <2>3, <3>1, <3>2, MiddleHolds
  <2>8. CASE f.type = "last" /\ r.in_fragmented
    <3>1. /\ rd = [Resync(r) EXCEPT !.last_record = r.prospective, !.in_fragmented = FALSE, !.scratch = <<>>]
          /\ dl = Append(delivered, [rec |-> f.rec, data |-> r.scratch \o Payload(f)])
      BY <1>1, <1>2, <1>8, <2>8 DEF ReadFragment, Deliver
    <3>2. PICK l : l = r.prospective
      OBVIOUS
    <3>3. /\ rd = [Resync(r) EXCEPT !.last_record = l, !.in_fragmented = FALSE, !.scratch = <<>>]
          /\ dl = Append(delivered, [rec |-> phys[p].rec, data |-> r.scratch \o Payload(phys[p])])
          /\ phys[p].type = "last" /\ reader.in_fragmented
      BY <1>1, <1>3, <2>8, <3>1, <3>2
    <3> QED  BY <1>2, <2>2, <2>3, <3>2, <3>3, LastHolds
  <2>9. CASE f.type \in {"middle", "last"} /\ ~r.in_fragmented
    <3>1. rd = Resync(r) /\ dl = delivered
      BY <1>1, <1>2, <1>8, <2>9 DEF ReadFragment
    <3>2. ~Begins(p) /\ ~reader.in_fragmented
      BY <1>1, <1>3, <2>9 DEF Begins
    <3> QED  BY <1>2, <2>2, <3>1, <3>2, OrphanHolds
  <2> QED  BY <1>5, <2>5, <2>6, <2>7, <2>8, <2>9
<1> QED  BY <1>6, <1>7, <1>8

-------------------------------------------------------------------------------
(* The steps, and what they add up to. *)

LEMMA OutcomeKinds ==
  ASSUME NEW b, NEW outcome \in Outcomes(b)
  PROVE  outcome \in {"bad", "badSilent", "eof", "record"}
<1>1. CASE Garbage(b)
  BY <1>1 DEF Outcomes, Garbage
<1>2. CASE ~Garbage(b) /\ IsTrailer(b) /\ ~IsHeader(b)
  BY <1>2 DEF Outcomes
<1>3. CASE IsHeader(b) /\ IsTrailer(b)
  <2>1. HeaderOf(b) = 0
    BY <1>3, Sizing DEF IsTrailer, HeaderOf, Zero
  <2> QED  BY <1>3, <2>1 DEF IsHeader
<1>4. CASE IsHeader(b) /\ ~IsTrailer(b)
  BY <1>4 DEF Outcomes, Garbage
<1> QED  BY <1>1, <1>2, <1>3, <1>4 DEF Garbage

LEMMA ReadStep ==
  ASSUME WriterInv, ReaderInv, ReadPhysicalRecord
  PROVE  ReaderInv'
<1>1. /\ phase = "read" /\ ~reader.done /\ reader.started /\ Len(reader.buffer) >= HeaderSize
      /\ UNCHANGED <<phase, writerVars>> /\ Holds(reader, delivered, reports)
  BY DEF ReadPhysicalRecord, ReaderInv
<1>2. PICK rd, dl, rp : rd = reader' /\ dl = delivered' /\ rp = reports'
  OBVIOUS
<1>3. PICK outcome \in Outcomes(reader.buffer) :
          CASE outcome \in {"bad", "badSilent"} -> ReadBad(outcome)
            [] outcome = "eof"                  -> ReadEof
            [] outcome = "record"               -> ReadFragment(phys[HeaderOf(reader.buffer)])
  BY DEF ReadPhysicalRecord
<1>4. reports \in Nat
  BY <1>1 DEF Holds, TypesOf
<1>5. CASE outcome \in {"bad", "badSilent"}
  <2>1. ReadBad(outcome)
    BY <1>3, <1>5
  <2>2. failures # 0
    BY <1>1, <1>3, <1>5, CleanOutcomes
  <2> DEFINE dropped == Resync([reader EXCEPT !.buffer = <<>>])
             drop == outcome = "bad" /\ Reported(dropped, Len(reader.buffer))
             partial == reader.in_fragmented /\ Reported(dropped, Len(reader.scratch))
  <2>3. /\ rd = [dropped EXCEPT !.in_fragmented = FALSE, !.scratch = IF reader.in_fragmented THEN <<>> ELSE @]
        /\ rp = reports + (IF drop THEN 1 ELSE 0) + (IF partial THEN 1 ELSE 0) /\ dl = delivered
    BY <1>2, <2>1 DEF ReadBad
  <2>4. rp \in Nat
    <3> HIDE DEF drop, partial
    <3> QED  BY <1>4, <2>3
  <2>5. dropped.scratch = reader.scratch
    BY <1>1 DEF Resync, Holds, TypesOf, Readers
  <2>6. Holds(rd, delivered, rp)
    BY <1>1, <2>2, <2>3, <2>4, <2>5, BadHolds
  <2> QED  BY <1>1, <1>2, <2>3, <2>6, Transfer
<1>6. CASE outcome = "eof"
  <2>1. /\ rd = [reader EXCEPT !.buffer = <<>>, !.done = TRUE, !.scratch = <<>>]
        /\ dl = delivered /\ rp = reports
    BY <1>2, <1>3, <1>6 DEF ReadEof
  <2>2. Holds(rd, delivered, reports)
    BY <1>1, <1>3, <1>6, <2>1, EofHolds
  <2> QED  BY <1>1, <1>2, <2>1, <2>2, Transfer
<1>7. CASE outcome = "record"
  <2> DEFINE p == file[Place(reader) + 1].p
  <2>1. ReadFragment(phys[HeaderOf(reader.buffer)])
    BY <1>3, <1>7
  <2>2. /\ HeaderOf(reader.buffer) = p /\ p \in 1..Len(phys)
        /\ Span(p) \in Nat /\ Span(p) >= HeaderSize /\ Span(p) <= Len(reader.buffer)
        /\ \A i \in 1..Span(p) : /\ reader.buffer[i] = Cell(p, i) /\ file[Place(reader) + i] = Cell(p, i)
                                 /\ Place(reader) + i \in 1..Len(file)
    BY <1>1, <1>3, <1>7, RecordHeader
  <2>3. Passed(p)
    BY <1>1, <2>2 DEF Passed
  <2>4. ReadFragment(phys[p])
    BY <2>1, <2>2
  <2>5. PICK q : q = p
    OBVIOUS
  <2>6. Passed(q) /\ ReadFragment(phys[q])
    BY <2>3, <2>4, <2>5
  <2> HIDE DEF p
  <2>7. Holds(rd, dl, rp)
    BY <1>2, <2>6, FragmentHolds
  <2> QED  BY <1>1, <1>2, <2>7, Transfer
<1> QED  BY <1>3, <1>5, <1>6, <1>7, OutcomeKinds

LEMMA SkipStep ==
  ASSUME WriterInv, ReaderInv, SkipToInitialBlock
  PROVE  ReaderInv'
<1>1. /\ phase = "read" /\ ~reader.started /\ UNCHANGED <<phase, writerVars>> /\ Holds(reader, delivered, reports)
      /\ delivered' = delivered /\ reports' = reports
  BY DEF SkipToInitialBlock, ReaderInv
<1>2. PICK rd : rd = reader'
  OBVIOUS
<1>3. rd = IF reader.last_record < reader.initial
           THEN [reader EXCEPT !.started = TRUE, !.pos = BlockStart(reader.initial),
                               !.end_of_buffer = BlockStart(reader.initial)]
           ELSE [reader EXCEPT !.started = TRUE]
  BY <1>2 DEF SkipToInitialBlock
<1>4. Holds(rd, delivered, reports)
  BY <1>1, <1>3, SkipHolds
<1>5. PICK dl, rp : dl = delivered /\ rp = reports
  OBVIOUS
<1>6. Holds(rd, dl, rp)
  BY <1>4, <1>5
<1> QED  BY <1>1, <1>2, <1>5, <1>6, Transfer

LEMMA LoadStep ==
  ASSUME WriterInv, ReaderInv, LoadBlock
  PROVE  ReaderInv'
<1>1. /\ phase = "read" /\ ~reader.done /\ reader.started /\ Len(reader.buffer) < HeaderSize
      /\ UNCHANGED <<phase, writerVars>> /\ Holds(reader, delivered, reports)
      /\ delivered' = delivered /\ reports' = reports
  BY DEF LoadBlock, ReaderInv
<1>2. PICK rd, block : rd = reader' /\ block = Block(reader.pos)
  OBVIOUS
<1>3. rd = IF reader.eof
           THEN [reader EXCEPT !.buffer = <<>>, !.done = TRUE]
           ELSE [reader EXCEPT !.buffer = block, !.pos = @ + Len(block),
                               !.end_of_buffer = @ + Len(block), !.eof = Len(block) < BlockSize]
  BY <1>2 DEF LoadBlock
<1>4. Holds(rd, delivered, reports)
  BY <1>1, <1>2, <1>3, LoadHolds
<1>5. PICK dl, rp : dl = delivered /\ rp = reports
  OBVIOUS
<1>6. Holds(rd, dl, rp)
  BY <1>4, <1>5
<1> QED  BY <1>1, <1>2, <1>5, <1>6, Transfer

\* A reader that is opened after a crash.
Fresh ==
  /\ reader.initial \in Nat /\ reader = NewReader(reader.initial)
  /\ delivered = <<>> /\ reports = 0

LEMMA FreshReader == WriterInv /\ Fresh => ReaderInv
<1> SUFFICES ASSUME WriterInv, Fresh PROVE ReaderInv
  OBVIOUS
<1>1. PICK rd, offset : rd = reader /\ offset = reader.initial
  OBVIOUS
<1>2. offset \in Nat /\ rd = NewReader(offset)
  BY <1>1 DEF Fresh
<1>3. Holds(rd, <<>>, 0)
  BY <1>2, FreshHolds
<1> QED  BY <1>1, <1>3 DEF ReaderInv, Fresh

LEMMA OpensFresh ==
  ASSUME WaitInv, phase = "write", NEW offset \in Offsets, reader' = NewReader(offset),
         delivered' = delivered, reports' = reports
  PROVE  Fresh'
<1>1. offset \in Nat /\ delivered = <<>> /\ reports = 0
  BY LogFormatAssumption DEF WaitInv
<1>2. reader'.initial = offset
  BY DEF NewReader
<1> QED  BY <1>1, <1>2 DEF Fresh, NewReader

LEMMA LogInvHolds == Spec => []LogInv
<1>1. Init => LogInv
  <2> SUFFICES ASSUME Init PROVE LogInv
    OBVIOUS
  <2>1. WriterInv
    BY WriterStarts
  <2>2. WaitInv /\ ReaderInv
    BY DEF Init, WaitInv, ReaderInv
  <2> QED  BY <2>1, <2>2 DEF LogInv
<1>2. LogInv /\ [Next]_vars => LogInv'
  <2> SUFFICES ASSUME LogInv, [Next]_vars PROVE LogInv'
    OBVIOUS
  <2>1. WriterInv /\ WaitInv /\ ReaderInv
    BY DEF LogInv
  <2>2. ASSUME WriterInv', phase = "write", phase' = phase, UNCHANGED readerVars PROVE LogInv'
    BY <2>1, <2>2 DEF LogInv, WaitInv, ReaderInv, readerVars, NewReader
  <2>3. ASSUME UNCHANGED <<phase, writerVars>>, phase = "read", ReaderInv' PROVE LogInv'
    <3>1. WriterInv'
      BY <2>1, <2>3, ReaderKeepsWriter
    <3> QED  BY <2>3, <3>1 DEF LogInv, WaitInv
  <2>4. ASSUME NEW size \in Sizes, AddRecord(size) PROVE LogInv'
    <3>1. WriterInv'
      BY <2>1, <2>4, AddRecordKeeps
    <3> QED  BY <2>2, <2>4, <3>1 DEF AddRecord
  <2>5. CASE Flushed
    <3>1. WriterInv'
      BY <2>1, <2>5, FlushedKeeps
    <3> QED  BY <2>2, <2>5, <3>1 DEF Flushed
  <2>6. ASSUME NEW n \in 0 .. 2 * BlockSize, FlushFails(n) PROVE LogInv'
    <3>1. n \in Nat
      BY Sizing
    <3>2. WriterInv'
      BY <2>1, <2>6, <3>1, FlushFailsKeeps
    <3> QED  BY <2>2, <2>6, <3>2 DEF FlushFails
  <2>7. CASE Sync
    <3>1. WriterInv'
      BY <2>1, <2>7, SyncKeeps
    <3> QED  BY <2>2, <2>7, <3>1 DEF Sync
  <2>8. ASSUME NEW torn \in 0 .. 2 * BlockSize, NEW offset \in Offsets, ProcessStops(torn, offset) PROVE LogInv'
    <3>1. torn \in Nat
      BY Sizing
    <3>2. WriterInv'
      BY <2>1, <2>8, <3>1, ProcessStopsKeeps
    <3>3. Fresh' /\ phase' = "read"
      BY <2>1, <2>8, OpensFresh DEF ProcessStops
    <3>4. ReaderInv'
      BY <3>2, <3>3, FreshReader, PTL
    <3> QED  BY <3>2, <3>3, <3>4 DEF LogInv, WaitInv
  <2>9. ASSUME NEW kept \in 0 .. Len(file), NEW offset \in Offsets, MachineStops(kept, offset) PROVE LogInv'
    <3>1. WriterInv'
      BY <2>1, <2>9, MachineStopsKeeps
    <3>2. Fresh' /\ phase' = "read"
      BY <2>1, <2>9, OpensFresh DEF MachineStops
    <3>3. ReaderInv'
      BY <3>1, <3>2, FreshReader, PTL
    <3> QED  BY <3>1, <3>2, <3>3 DEF LogInv, WaitInv
  <2>10. CASE SkipToInitialBlock
    <3>1. ReaderInv'
      BY <2>1, <2>10, SkipStep
    <3> QED  BY <2>3, <2>10, <3>1 DEF SkipToInitialBlock
  <2>11. CASE LoadBlock
    <3>1. ReaderInv'
      BY <2>1, <2>11, LoadStep
    <3> QED  BY <2>3, <2>11, <3>1 DEF LoadBlock
  <2>12. CASE ReadPhysicalRecord
    <3>1. ReaderInv'
      BY <2>1, <2>12, ReadStep
    <3> QED  BY <2>3, <2>12, <3>1 DEF ReadPhysicalRecord
  <2>13. CASE UNCHANGED vars
    <3>1. UNCHANGED <<phase, writerVars>> /\ UNCHANGED readerVars
      BY <2>13 DEF vars, writerVars, readerVars
    <3>2. CASE phase = "write"
      <4>1. WriterInv'
        BY <2>1, <3>1, ReaderKeepsWriter
      <4> QED  BY <2>2, <3>1, <3>2, <4>1
    <3>3. CASE phase = "read"
      <4>1. PICK rd, dl, rp : rd = reader /\ dl = delivered /\ rp = reports
        OBVIOUS
      <4>2. Holds(rd, dl, rp)
        BY <2>1, <3>3, <4>1 DEF ReaderInv
      <4>3. reader' = rd /\ delivered' = dl /\ reports' = rp
        BY <3>1, <4>1 DEF readerVars
      <4>4. ReaderInv'
        BY <3>1, <4>2, <4>3, Transfer
      <4> QED  BY <2>3, <3>1, <3>3, <4>4
    <3>4. phase \in {"write", "read"}
      BY <2>1 DEF WriterInv, WriterTypes
    <3> QED  BY <3>2, <3>3, <3>4
  <2> QED  BY <2>4, <2>5, <2>6, <2>7, <2>8, <2>9, <2>10, <2>11, <2>12, <2>13 DEF Next
<1> QED  BY <1>1, <1>2, PTL DEF Spec

\* For every block size, header size, record size, initial offset, failed flush
\* and crash, log::Reader returns whole records, in the order they were added
\* and none twice: it never glues fragments of two records together.
THEOREM ReadsAreGenuine == Spec => []ReadsGenuine
<1>1. LogInv => ReadsGenuine
  <2> SUFFICES ASSUME LogInv PROVE ReadsGenuine
    OBVIOUS
  <2>1. WriterTypes /\ WaitInv /\ ReaderInv
    BY DEF LogInv, WriterInv
  <2>2. CASE phase = "write"
    <3>1. DOMAIN delivered = {}
      BY <2>1, <2>2 DEF WaitInv
    <3> QED  BY <3>1 DEF ReadsGenuine
  <2>3. CASE phase = "read"
    <3>1. GenuineOf(delivered) /\ delivered \in Seq([rec : Nat, data : Seq(Nat \X Nat)])
      BY <2>1, <2>3 DEF ReaderInv, Holds, TypesOf
    <3>2. DOMAIN delivered = 1..Len(delivered)
      BY <3>1
    <3> QED  BY <3>1, <3>2 DEF ReadsGenuine, GenuineOf
  <2> QED  BY <2>1, <2>2, <2>3 DEF WriterTypes
<1> QED  BY <1>1, LogInvHolds, PTL

\* If no flush failed, a reader that has come to the end has returned every
\* record that was acknowledged and starts at or after its initial offset, and
\* no record that starts before it, whatever a crash cut off.
THEOREM AcknowledgedAreRead == Spec => []ReadsAcknowledged
<1>1. LogInv => ReadsAcknowledged
  <2> SUFFICES ASSUME LogInv, failures = 0, reader.done
               PROVE  LET got == {delivered[d].rec : d \in DOMAIN delivered}
                      IN  /\ \A r \in Acknowledged : records[r].offset >= reader.initial => r \in got
                          /\ \A r \in got : records[r].offset >= reader.initial
    BY DEF ReadsAcknowledged
  <2>1. WriterTypes /\ WaitInv /\ ReaderInv /\ AckInv
    BY DEF LogInv, WriterInv
  <2>2. phase = "read"
    BY <2>1 DEF WaitInv, NewReader, WriterTypes
  <2>3. /\ ProgressOf(reader, delivered) /\ DeliveredOf(reader, delivered) /\ reader \in Readers
        /\ delivered \in Seq([rec : Nat, data : Seq(Nat \X Nat)])
    BY <2>1, <2>2 DEF ReaderInv, Holds, TypesOf
  <2>4. DOMAIN delivered = 1..Len(delivered)
    BY <2>3
  <2>5. ASSUME NEW r \in Acknowledged, records[r].offset >= reader.initial
        PROVE  \E d \in DOMAIN delivered : delivered[d].rec = r
    <3>1. records[r].offset \in Int /\ reader.initial \in Nat
      <4>1. r \in 1..Len(records)
        BY <2>1 DEF Acknowledged, WriterTypes
      <4> QED  BY <2>1, <2>3, <4>1, WriterFacts, FieldTypes
    <3>2. ~(records[r].offset < reader.initial)
      BY <2>5, <3>1
    <3> QED  BY <2>3, <2>4, <3>2 DEF ProgressOf
  <2>6. \A d \in DOMAIN delivered : records[delivered[d].rec].offset >= reader.initial
    BY <2>3, <2>4 DEF DeliveredOf
  <2> QED  BY <2>5, <2>6
<1> QED  BY <1>1, LogInvHolds, PTL

\* If no flush failed, a reader from the start of the log reports no corruption:
\* a tail that a crash cut off, anywhere, is taken for the end of the file.
THEOREM TornTailsAreSilent == Spec => []TornTailSilent
<1>1. LogInv => TornTailSilent
  <2> SUFFICES ASSUME LogInv PROVE TornTailSilent
    OBVIOUS
  <2>1. WriterTypes /\ WaitInv /\ ReaderInv
    BY DEF LogInv, WriterInv
  <2>2. CASE phase = "write"
    BY <2>1, <2>2 DEF WaitInv, TornTailSilent
  <2>3. CASE phase = "read"
    BY <2>1, <2>3 DEF ReaderInv, Holds, SilentOf, TornTailSilent
  <2> QED  BY <2>1, <2>2, <2>3 DEF WriterTypes
<1> QED  BY <1>1, LogInvHolds, PTL
===============================================================================
