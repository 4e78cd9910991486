----------------------------- MODULE LogFormat -----------------------------
(***************************************************************************)
(* The log file format (db/log_writer.cc, db/log_reader.cc), used for the   *)
(* write-ahead log and for the manifest.  A writer appends records, cut     *)
(* into physical records that never cross a block; each physical record is  *)
(* flushed to the operating system on its own and each flush can fail half  *)
(* way.  The process, or the machine, may stop at any point; then a reader  *)
(* reads the file from an initial offset.                                   *)
(*                                                                          *)
(* A file is a sequence of cells, one per byte: cell i of physical record p *)
(* (its first HeaderSize cells are the header) or a cell of a trailer.      *)
(* Length and type in a header are those of phys[p].  The checksum is taken *)
(* as perfect: a physical record passes if all its cells are its own.       *)
(***************************************************************************)
EXTENDS Integers, Sequences, SequencesExt

CONSTANTS BlockSize,     \* kBlockSize, 32768 in the code
          HeaderSize,    \* kHeaderSize, 7 in the code
          Sizes,         \* the sizes of records that are added
          Offsets,       \* initial offsets of readers
          MaxRecords,    \* bound: records added
          MaxFailures    \* bound: flushes that fail

ASSUME LogFormatAssumption ==
    /\ HeaderSize \in Nat \ {0, 1} /\ BlockSize \in Nat /\ BlockSize > HeaderSize
    /\ Sizes \subseteq Nat /\ Offsets \subseteq Nat /\ MaxRecords \in Nat /\ MaxFailures \in Nat

VARIABLES phase,         \* "write" or "read"
          file,          \* the cells the operating system holds
          synced,        \* how many of them are on the disk for certain
          block_offset_, \* the writer's idea of its place in the block
          adding,        \* AddRecord in progress: what is left, and begin
          phys,          \* history: physical records, as the writer formed them
          records,       \* history: records, with size, offset and outcome
          failures,      \* flushes that failed
          reader,        \* the log::Reader
          delivered,     \* what ReadRecord has returned
          reports        \* calls of reporter_->Corruption

vars == <<phase, file, synced, block_offset_, adding, phys, records, failures,
          reader, delivered, reports>>
writerVars == <<file, synced, block_offset_, adding, phys, records, failures>>
readerVars == <<reader, delivered, reports>>

None == [left |-> -1, begin |-> FALSE]
Zero == [p |-> 0, i |-> 0]                        \* a byte of a trailer

Least(a, b) == IF a < b THEN a ELSE b

(* log::Reader as constructed. *)
NewReader(offset) ==
    [pos |-> 0, buffer |-> <<>>, eof |-> FALSE, end_of_buffer |-> 0,
     initial |-> offset, last_record |-> 0, resyncing |-> offset > 0,
     in_fragmented |-> FALSE, scratch |-> <<>>, prospective |-> 0, started |-> FALSE, done |-> FALSE]

Init ==
    /\ phase = "write" /\ file = <<>> /\ synced = 0 /\ block_offset_ = 0
    /\ adding = None /\ phys = <<>> /\ records = <<>> /\ failures = 0
    /\ reader = NewReader(0) /\ delivered = <<>> /\ reports = 0

-----------------------------------------------------------------------------
(* The writer.  One step of AddRecord's loop: the trailer and the header    *)
(* and payload go to the file's buffer, and Flush writes them.              *)

Leftover == BlockSize - block_offset_
SwitchBlock == Leftover < HeaderSize
Trailer == IF SwitchBlock THEN [i \in 1..Leftover |-> Zero] ELSE <<>>
StartOffset == IF SwitchBlock THEN 0 ELSE block_offset_
FragmentLength == Least(adding.left, BlockSize - StartOffset - HeaderSize)
RecordType ==
    LET end == adding.left = FragmentLength
    IN  CASE adding.begin /\ end   -> "full"
          [] adding.begin /\ ~end  -> "first"
          [] ~adding.begin /\ end  -> "last"
          [] OTHER                 -> "middle"

(* AddRecord is called; its loop has not run yet. *)
AddRecord(size) ==
    /\ phase = "write" /\ adding = None /\ Len(records) < MaxRecords
    /\ adding' = [left |-> size, begin |-> TRUE]
    /\ records' = Append(records, [size |-> size, offset |-> -1, status |-> "pending"])
    /\ UNCHANGED <<phase, file, synced, block_offset_, phys, failures, readerVars>>

(* EmitPhysicalRecord forms the next fragment; block_offset_ advances by     *)
(* its length whether or not the flush succeeds.                            *)
Fragment ==
    LET r == Len(records)
    IN  [type |-> RecordType, length |-> FragmentLength, rec |-> r,
         first |-> records[r].size - adding.left]
\* Mutant: the header is not counted.
NextOffsetOfPayload == StartOffset + FragmentLength
NextOffset == StartOffset + HeaderSize + FragmentLength

Cells(p, length) == [i \in 1 .. HeaderSize + length |-> [p |-> p, i |-> i]]
ToWrite == Trailer \o Cells(Len(phys) + 1, FragmentLength)

(* Remember where a record starts: the offset of its first fragment. *)
WithOffset(r) ==
    IF adding.begin THEN [r EXCEPT !.offset = Len(file) + Len(Trailer)] ELSE r

Flushed ==
    /\ phase = "write" /\ adding # None
    /\ file' = file \o ToWrite
    /\ phys' = Append(phys, Fragment)
    /\ block_offset_' = NextOffset
    /\ LET left == adding.left - FragmentLength
           r == WithOffset(records[Len(records)])
       IN  /\ adding' = IF left > 0 THEN [left |-> left, begin |-> FALSE] ELSE None
           /\ records' = [records EXCEPT ![Len(records)] =
                             IF left > 0 THEN r ELSE [r EXCEPT !.status = "ok"]]
    /\ UNCHANGED <<phase, synced, failures, readerVars>>

(* The flush fails after some bytes: the rest of the buffer is dropped and   *)
(* AddRecord returns the error.  Later calls of AddRecord go on as usual.    *)
FlushFails(n) ==
    /\ phase = "write" /\ adding # None /\ failures < MaxFailures
    /\ n < Len(ToWrite)
    /\ file' = file \o SubSeq(ToWrite, 1, n)
    /\ phys' = Append(phys, Fragment)
    /\ block_offset_' = NextOffset
    /\ adding' = None
    /\ records' = [records EXCEPT ![Len(records)] =
                      [WithOffset(@) EXCEPT !.status = "failed"]]
    /\ failures' = failures + 1
    /\ UNCHANGED <<phase, synced, readerVars>>

(* WritableFile::Sync after AddRecord, by the same thread. *)
Sync ==
    /\ phase = "write" /\ adding = None /\ synced < Len(file)
    /\ synced' = Len(file)
    /\ records' = [r \in DOMAIN records |->
                      IF records[r].status = "ok" THEN [records[r] EXCEPT !.status = "synced"]
                      ELSE records[r]]
    /\ UNCHANGED <<phase, file, block_offset_, adding, phys, failures, readerVars>>

(* The process stops, perhaps inside AddRecord, even inside a write: what    *)
(* the operating system has stays.  A reader is opened at some offset.       *)
ProcessStops(torn, offset) ==
    /\ phase = "write" /\ phase' = "read"
    /\ torn > 0 => adding # None /\ torn <= Len(ToWrite)
    /\ file' = file \o SubSeq(ToWrite, 1, torn)
    /\ phys' = IF torn > 0 THEN Append(phys, Fragment) ELSE phys
    /\ records' = IF torn > 0 THEN [records EXCEPT ![Len(records)] = WithOffset(@)] ELSE records
    /\ adding' = None
    /\ reader' = NewReader(offset)
    /\ UNCHANGED <<synced, block_offset_, failures, delivered, reports>>

(* The machine stops: a suffix of what was not synced is lost as well. *)
MachineStops(kept, offset) ==
    /\ phase = "write" /\ phase' = "read"
    /\ kept >= synced /\ kept < Len(file)
    /\ file' = SubSeq(file, 1, kept)
    /\ adding' = None
    /\ records' = [r \in DOMAIN records |->
                      IF records[r].status = "ok" THEN [records[r] EXCEPT !.status = "lost"]
                      ELSE records[r]]
    /\ reader' = NewReader(offset)
    /\ UNCHANGED <<synced, block_offset_, phys, failures, delivered, reports>>

-----------------------------------------------------------------------------
(* The reader.  One step is one turn of ReadRecord's loop, that is one       *)
(* ReadPhysicalRecord, which may first load a block.                        *)

(* SkipToInitialBlock, on the first ReadRecord of a reader with an offset. *)
BlockStart(offset) ==
    LET in == offset % BlockSize
    IN  (offset - in) + IF in > BlockSize - (HeaderSize - 1) THEN BlockSize ELSE 0

SkipToInitialBlock ==
    /\ phase = "read" /\ ~reader.done /\ ~reader.started
    /\ reader' = IF reader.last_record < reader.initial
                 THEN [reader EXCEPT !.started = TRUE, !.pos = BlockStart(reader.initial),
                                     !.end_of_buffer = BlockStart(reader.initial)]
                 ELSE [reader EXCEPT !.started = TRUE]
    /\ UNCHANGED <<phase, writerVars, delivered, reports>>

(* ReadPhysicalRecord loads a block when less than a header is left. *)
Block(pos) == SubSeq(file, pos + 1, Least(pos + BlockSize, Len(file)))
LoadBlock ==
    /\ phase = "read" /\ ~reader.done /\ reader.started
    /\ Len(reader.buffer) < HeaderSize
    /\ LET block == Block(reader.pos)
       IN  reader' = IF reader.eof
                     THEN [reader EXCEPT !.buffer = <<>>, !.done = TRUE]
                     ELSE [reader EXCEPT !.buffer = block, !.pos = @ + Len(block),
                                         !.end_of_buffer = @ + Len(block),
                                         !.eof = Len(block) < BlockSize]
    /\ UNCHANGED <<phase, writerVars, delivered, reports>>

(* What the header at the front of the buffer is: a physical record's, a     *)
(* trailer's zeros, or bytes that were not written as a header.             *)
HeaderOf(buffer) == buffer[1].p
IsHeader(buffer) ==
    /\ HeaderOf(buffer) > 0
    /\ \A i \in 1..HeaderSize : buffer[i] = [p |-> HeaderOf(buffer), i |-> i]
IsTrailer(buffer) == \A i \in 1..HeaderSize : buffer[i] = Zero

\* Mutant: the payload is not checked.
IntactHeader(buffer) == IsHeader(buffer)
(* The crc covers the type and the payload. *)
Intact(buffer) ==
    LET n == HeaderSize + phys[HeaderOf(buffer)].length
    IN  \A i \in 1..n : buffer[i] = [p |-> HeaderOf(buffer), i |-> i]

(* The outcomes of ReadPhysicalRecord once a header is in the buffer.  Bytes *)
(* that were not written as a header can look like anything except a         *)
(* physical record with the right crc.                                       *)
Garbage(buffer) == ~IsHeader(buffer) /\ ~IsTrailer(buffer)
TooLong(buffer) == HeaderSize + phys[HeaderOf(buffer)].length > Len(buffer)
\* Mutant: a record cut off by the end of the file is corrupt.
OutcomesStrict(buffer) ==
    CASE Garbage(buffer)   -> {"bad", "badSilent"}
      [] IsTrailer(buffer) -> {"badSilent"}
      [] IsHeader(buffer) /\ (TooLong(buffer) \/ ~Intact(buffer)) -> {"bad"}
      [] OTHER             -> {"record"}
Outcomes(buffer) ==
    CASE Garbage(buffer)   -> {"bad", "badSilent"} \cup (IF reader.eof THEN {"eof"} ELSE {})
      [] IsTrailer(buffer) -> {"badSilent"}
      [] IsHeader(buffer) /\ TooLong(buffer) -> {IF reader.eof THEN "eof" ELSE "bad"}
      [] IsHeader(buffer) /\ ~TooLong(buffer) /\ ~Intact(buffer) -> {"bad"}
      [] OTHER             -> {"record"}

(* kBadRecord: the rest of the buffer is dropped, with a report unless it is *)
(* a zero-length record; a record being assembled is dropped with a report.  *)
(* ReportDrop is silent about what lies before the initial offset; its       *)
(* subtraction is unsigned, so a negative difference counts as a large one.  *)
Reported(r, bytes) ==
    LET start == r.end_of_buffer - Len(r.buffer) - bytes
    IN  start < 0 \/ start >= r.initial

Resync(r) == [r EXCEPT !.resyncing = FALSE]
ReadBad(outcome) ==
    /\ LET dropped == Resync([reader EXCEPT !.buffer = <<>>])
           drop == outcome = "bad" /\ Reported(dropped, Len(reader.buffer))
           partial == reader.in_fragmented /\ Reported(dropped, Len(reader.scratch))
       IN  /\ reader' = [dropped EXCEPT !.in_fragmented = FALSE,
                                        !.scratch = IF reader.in_fragmented THEN <<>> ELSE @]
           /\ reports' = reports + (IF drop THEN 1 ELSE 0) + (IF partial THEN 1 ELSE 0)
    /\ UNCHANGED delivered

(* kEof, from a header or payload cut off by the end of the file. *)
ReadEof ==
    /\ reader' = [reader EXCEPT !.buffer = <<>>, !.done = TRUE, !.scratch = <<>>]
    /\ UNCHANGED <<delivered, reports>>

(* A physical record that passed.  Consumed is the reader after              *)
(* buffer_.remove_prefix, Payload the bytes after the header in the buffer:  *)
(* which byte of which record each is.                                       *)
Consumed(length) == [reader EXCEPT !.buffer = SubSeq(@, HeaderSize + length + 1, Len(@))]
Byte(c) == IF c = Zero THEN <<0, 0>>
           ELSE <<phys[c.p].rec, phys[c.p].first + c.i - HeaderSize>>
Payload(f) == [i \in 1..f.length |-> Byte(reader.buffer[HeaderSize + i])]

(* ReadRecord's switch, for a fragment f that starts at offset at, and a    *)
(* reader r that has consumed it.  A fragment before the initial offset is  *)
(* a bad record without a report.                                           *)
Deliver(r, f, data, at) ==
    /\ reader' = [r EXCEPT !.last_record = at, !.in_fragmented = FALSE, !.scratch = <<>>]
    /\ delivered' = Append(delivered, [rec |-> f.rec, data |-> data])

ReadFragment(f) ==
    LET r == Consumed(f.length)
        at == r.end_of_buffer - Len(r.buffer) - HeaderSize - f.length
        tooEarly == at < r.initial
        skipped == r.resyncing /\ f.type \in {"middle", "last"} /\ ~tooEarly
        partial == r.in_fragmented /\ Len(r.scratch) > 0 /\ Reported(r, Len(r.scratch))
        orphan == ~r.in_fragmented /\ f.type \in {"middle", "last"} /\ Reported(r, f.length)
    IN  IF tooEarly THEN
            /\ reader' = [Resync(r) EXCEPT !.in_fragmented = FALSE,
                                           !.scratch = IF r.in_fragmented THEN <<>> ELSE @]
            /\ reports' = reports + (IF r.in_fragmented /\ Reported(r, Len(r.scratch)) THEN 1 ELSE 0)
            /\ UNCHANGED delivered
        ELSE IF skipped THEN
            /\ reader' = IF f.type = "last" THEN Resync(r) ELSE r
            /\ UNCHANGED <<delivered, reports>>
        ELSE
            /\ reports' = reports + (IF f.type \in {"full", "first"} /\ partial THEN 1 ELSE 0)
                                  + (IF orphan THEN 1 ELSE 0)
            /\ CASE f.type = "full"  -> Deliver(Resync(r), f, Payload(f), at)
                 [] f.type = "first" ->
                        /\ reader' = [Resync(r) EXCEPT !.in_fragmented = TRUE,
                                          !.scratch = Payload(f), !.prospective = at]
                        /\ UNCHANGED delivered
                 [] f.type = "middle" ->
                        /\ reader' = IF r.in_fragmented
                                     THEN [Resync(r) EXCEPT !.scratch = @ \o Payload(f)]
                                     ELSE Resync(r)
                        /\ UNCHANGED delivered
                 [] f.type = "last" ->
                        IF r.in_fragmented
                        THEN Deliver(Resync(r), f, r.scratch \o Payload(f), r.prospective)
                        ELSE reader' = Resync(r) /\ UNCHANGED delivered

ReadPhysicalRecord ==
    /\ phase = "read" /\ ~reader.done /\ reader.started
    /\ Len(reader.buffer) >= HeaderSize
    /\ \E outcome \in Outcomes(reader.buffer) :
          CASE outcome \in {"bad", "badSilent"} -> ReadBad(outcome)
            [] outcome = "eof"                  -> ReadEof
            [] outcome = "record"               -> ReadFragment(phys[HeaderOf(reader.buffer)])
    /\ UNCHANGED <<phase, writerVars>>

-----------------------------------------------------------------------------
Next ==
    \/ \E size \in Sizes : AddRecord(size)
    \/ Flushed
    \/ \E n \in 0 .. 2 * BlockSize : FlushFails(n)
    \/ Sync
    \/ \E torn \in 0 .. 2 * BlockSize, offset \in Offsets : ProcessStops(torn, offset)
    \/ \E kept \in 0 .. Len(file), offset \in Offsets : MachineStops(kept, offset)
    \/ SkipToInitialBlock
    \/ LoadBlock
    \/ ReadPhysicalRecord

Spec == Init /\ [][Next]_vars

-----------------------------------------------------------------------------
(* Log records come back whole, in order and at most once, after any write   *)
(* failure, crash or loss of a tail: log::Reader never glues fragments of    *)
(* two records together and never delivers a record twice.                   *)
Whole(r) == [i \in 1..records[r].size |-> <<r, i>>]
ReadsGenuine ==
    /\ \A d \in DOMAIN delivered : delivered[d].data = Whole(delivered[d].rec)
    /\ \A d, e \in DOMAIN delivered : d < e => delivered[d].rec < delivered[e].rec

(* If no flush failed, a reader that reaches the end has delivered every     *)
(* record AddRecord acknowledged (every synced one, if the machine stopped)  *)
(* that starts at or after its initial offset, and none before it.           *)
Acknowledged == {r \in DOMAIN records : records[r].status \in {"ok", "synced"}}
ReadsAcknowledged ==
    failures = 0 /\ reader.done =>
        LET got == {delivered[d].rec : d \in DOMAIN delivered}
        IN  /\ \A r \in Acknowledged : records[r].offset >= reader.initial => r \in got
            /\ \A r \in got : records[r].offset >= reader.initial

(* A log that a crash cut off anywhere is not corrupt: if no flush failed,   *)
(* a reader from the start reports nothing (ReadRecord's kEof and the eof_    *)
(* branches of ReadPhysicalRecord).                                           *)
TornTailSilent == failures = 0 /\ reader.initial = 0 => reports = 0

(* The manual's promise (doc/index.md): a crash of the process alone loses   *)
(* no update that was acknowledged, since it is in the operating system.     *)
(* It does not hold after a failed flush, which leaves block_offset_ and the *)
(* file out of step while AddRecord goes on acknowledging.                   *)
SurvivesProcessCrash ==
    reader.done /\ reader.initial = 0 =>
        \A r \in Acknowledged : \E d \in DOMAIN delivered : delivered[d].rec = r
=============================================================================
