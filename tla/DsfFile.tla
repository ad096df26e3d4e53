------------------------------ MODULE DsfFile ------------------------------
(***************************************************************************)
(* A DSF file on disk and one handle of libdsf on it (dsf.c, dsf_chunks.c, *)
(* dsf_io.c): creating, writing, finalizing, opening for reading or for    *)
(* modification, reading, seeking, validating, closing and removing it,    *)
(* together with the frames that the pipeline's DSF source reads from it   *)
(* (source_dsf.c).                                                         *)
(*                                                                         *)
(* A file is a sequence of cells and a position counts cells from zero.  A *)
(* cell is a chunk identifier, one integer field of the header, one audio  *)
(* byte or one unit of the ID3 tag, so the three header chunks take 3, 2   *)
(* and 2 cells.  The fields that are written once and only compared with a *)
(* constant (the fixed chunk sizes, version, format, channels, rate) are   *)
(* left out.  An audio byte knows its bit order: on disk the first sample  *)
(* is in the least significant bit, in the caller's buffers in the most.   *)
(***************************************************************************)
EXTENDS Integers, Sequences, FiniteSets, FiniteSetsExt, SequencesExt

CONSTANTS
    BLOCK,       \* DSF_BLOCK_SIZE_PER_CHANNEL
    Channels,    \* channel_count
    FrameBytes,  \* bytes_per_frame of the DSF source
    Tolerance,   \* the 4096 bytes by which a file may exceed its header
    WriteSizes,  \* bytes per channel that one call may write
    ReadSizes,   \* bytes that one call may read
    SeekOffsets, \* offsets of dsf_seek_audio_data
    TagSizes,    \* sizes of an ID3 tag
    MaxCalls,    \* bound on the calls between dsf_create and dsf_close
    MaxReads,    \* bound on the calls between another open and its close
    MaxSpoiled,  \* the same bound once something has gone wrong (see Stages)
    MaxSessions, \* bound on the opens
    MaxFaults,   \* bound on the writes that fail
    NoFile

ASSUME ConstantsAssumption ==
    /\ BLOCK \in Nat \ {0} /\ Channels \in Nat \ {0} /\ FrameBytes \in Nat \ {0}
    /\ {Tolerance, MaxCalls, MaxReads, MaxSpoiled, MaxSessions, MaxFaults} \subseteq Nat
    /\ WriteSizes \subseteq Nat \ {0} /\ ReadSizes \subseteq Nat \ {0}
    /\ SeekOffsets \subseteq Int /\ TagSizes \subseteq Nat \ {0}

VARIABLES
    file,   \* the cells on disk, or NoFile
    h,      \* the handle: mode, position, info, buffers
    src,    \* the DSF source: track selected, audio_position, bytes delivered
    log,    \* history: the audio that the calls were given, padded at a flush
    tag,    \* history: the tag the last finalize that succeeded had to save
    stage,  \* history: how far the file is (see TypeOK)
    ret,    \* history: what the last call returned
    budget  \* calls of this session, sessions and faults so far

vars == <<file, h, src, log, tag, stage, ret, budget>>

-----------------------------------------------------------------------------
(* Cells and the layout of the file.                                       *)

Cell(kind, n) == <<kind, n, FALSE>>
Zero == Cell("zero", 0)

\* ff_reverse: the other bit order.
Reversed(c) == IF c = Zero THEN Zero ELSE <<c[1], c[2], ~c[3]>>

ChunkId == [at \in {0, 3, 5} |-> IF at = 0 THEN 1 ELSE IF at = 3 THEN 2 ELSE 3]
FileSizeAt == 1
MetadataAt == 2
SampleCountAt == 4
DataSizeAt == 6
AudioOffset == 7
DataHeader == 2

Field(f, at) == f[at + 1][2]

\* uint64_t arithmetic, in a smaller word; no chunk may be as large as the
\* negative sizes become.
WORD == 65536
MAX_REASONABLE_CHUNK == 32768
U64(n) == (n + WORD) % WORD

\* A tag of n units; read as a size it is larger than any chunk.
Tag(n) == [i \in 1..n |-> Cell("tag", MAX_REASONABLE_CHUNK + n)]

GroupSize == BLOCK * Channels

\* dsf_write_block_group, n times: the columns of buf, channel after channel,
\* each channel padded to its block.
BlockGroups(buf, n) ==
    [k \in 1..(n * GroupSize) |->
        LET g == ((k - 1) \div GroupSize) * GroupSize
            r == (k - 1) % GroupSize
            at == g + (r % BLOCK) * Channels + r \div BLOCK
        IN IF at < Len(buf) THEN buf[at + 1] ELSE Zero]

\* dsf_convert_block_to_byte_interleaved, for each group of cells.
ByteInterleaved(cells) ==
    [k \in 1..Len(cells) |->
        LET g == ((k - 1) \div GroupSize) * GroupSize
            r == (k - 1) % GroupSize
        IN Reversed(cells[g + (r % Channels) * BLOCK + r \div Channels + 1])]

\* fwrite, ftruncate: a gap after the end of the file reads as zeros.
Resized(f, n) == [i \in 1..n |-> IF i <= Len(f) THEN f[i] ELSE Zero]
Written(f, at, cells) ==
    IF cells = <<>> THEN f
    ELSE [i \in 1..Max({Len(f), at + Len(cells)}) |->
            IF at < i /\ i <= at + Len(cells) THEN cells[i - at]
            ELSE IF i <= Len(f) THEN f[i] ELSE Zero]

\* dsf_calculate_audio_data_size for one bit per sample.
AudioDataSize(samples) ==
    ((((samples + 7) \div 8) + BLOCK - 1) \div BLOCK) * GroupSize

-----------------------------------------------------------------------------
Closed == [mode |-> "CLOSED", pos |-> 0, samples |-> 0, dataSize |-> 0,
           buf |-> <<>>, meta |-> <<>>, rbuf |-> <<>>]

NoSource == [track |-> FALSE, pos |-> 0, got |-> <<>>, eof |-> FALSE]

\* What a call returned; for a read, where in the audio it began and how much
\* it asked for; next: where in the audio the next read begins, -1 if it is
\* not known or does not begin a block group.
NoReturn == [op |-> "none", ok |-> TRUE, at |-> -1, n |-> 0, data |-> <<>>, next |-> -1]

\* A stage is what the calls so far allow to say of the file: it is being
\* written and every call succeeded; dsf_finalize succeeded after that; it
\* was closed then; later a modification was finalized (and closed); or
\* something else happened: a call failed, one followed dsf_finalize, or a
\* modification was finalized with the position before the audio, where the
\* data size wraps round and the file no longer opens (dsf.c:406).
Stages == {"none", "writing", "final", "saved", "changed", "modified", "spoiled"}

IsCell(c) ==
    /\ c[1] \in {"zero", "id", "num", "audio", "tag"} /\ c[2] \in Nat /\ c[3] \in BOOLEAN
    /\ c[1] = "num" => c[2] < WORD

TypeOK ==
    /\ file # NoFile => \A i \in DOMAIN file : IsCell(file[i])
    /\ h.mode \in {"CLOSED", "WRITE", "READ", "MODIFY"}
    /\ h.pos \in Nat /\ h.samples \in Nat /\ h.dataSize \in Nat
    /\ Len(h.buf) <= GroupSize /\ Len(h.rbuf) <= GroupSize
    /\ h.buf # <<>> => h.mode = "WRITE"
    /\ h.rbuf # <<>> => h.mode \in {"READ", "MODIFY"}
    /\ stage \in Stages

Init ==
    /\ file = NoFile /\ h = Closed /\ src = NoSource
    /\ log = <<>> /\ tag = <<>> /\ stage = "none" /\ ret = NoReturn
    /\ budget = [calls |-> 0, sessions |-> 0, faults |-> 0]

\* Every call in a session counts; a call that fails to write uses a fault.
Call(fault) ==
    /\ budget.calls < CASE h.mode = "WRITE" -> MaxCalls
                         [] stage = "spoiled" -> MaxSpoiled
                         [] OTHER -> MaxReads
    /\ fault => budget.faults < MaxFaults
    /\ budget' = [budget EXCEPT !.calls = @ + 1,
                                !.faults = IF fault THEN @ + 1 ELSE @]

Returns(op, ok) == ret' = [NoReturn EXCEPT !.op = op, !.ok = ok]

\* After an open or a seek that leaves the position at pos.
ReturnsAt(op, ok, pos) ==
    ret' = [NoReturn EXCEPT
              !.op = op, !.ok = ok,
              !.next = IF pos >= AudioOffset /\ (pos - AudioOffset) % GroupSize = 0
                       THEN pos - AudioOffset ELSE -1]

-----------------------------------------------------------------------------
(* Opening and closing.                                                    *)

\* The three chunks before the audio; dsf_create leaves the sizes to
\* dsf_finalize.
DsdChunk(fileSize, metadataOffset) ==
    <<Cell("id", ChunkId[0]), Cell("num", fileSize), Cell("num", metadataOffset)>>
FmtChunk(samples) == <<Cell("id", ChunkId[3]), Cell("num", samples)>>
DataChunk(size) == <<Cell("id", ChunkId[5]), Cell("num", U64(DataHeader + size))>>

Header(fileSize, metadataOffset, samples, dataSize) ==
    DsdChunk(fileSize, metadataOffset) \o FmtChunk(samples) \o DataChunk(dataSize)

NewSession == budget' = [budget EXCEPT !.calls = 0, !.sessions = @ + 1]

\* dsf_create; when a write fails what it wrote so far stays on disk.  Bound:
\* the file is created once, as creating it anew discards it.
Create ==
    /\ h.mode = "CLOSED" /\ budget.sessions = 0
    /\ \/ /\ NewSession
          /\ file' = Header(0, 0, 0, 0)
          /\ h' = [Closed EXCEPT !.mode = "WRITE", !.pos = AudioOffset]
          /\ stage' = "writing"
          /\ Returns("create", TRUE)
       \/ \E k \in 0..(AudioOffset - 1) :
             /\ budget.faults < MaxFaults
             /\ budget' = [budget EXCEPT !.sessions = @ + 1, !.faults = @ + 1]
             /\ file' = SubSeq(Header(0, 0, 0, 0), 1, k)
             /\ stage' = "spoiled"
             /\ Returns("create", FALSE)
             /\ UNCHANGED h
    /\ UNCHANGED <<src, log, tag>>

\* dsf_chunk_read_dsd_header, _fmt and _data_header: the cells that make the
\* file unreadable, and the position where reading it stops.
WrongId(f, i) == i - 1 \in DOMAIN ChunkId /\ f[i] # Cell("id", ChunkId[i - 1])
WrongSize(f, i) == i - 1 = DataSizeAt /\ f[i][2] \notin DataHeader..MAX_REASONABLE_CHUNK
BadCells(f) == {i \in 1..AudioOffset : i > Len(f) \/ WrongId(f, i) \/ WrongSize(f, i)}

StopsAt(f) == IF BadCells(f) = {} THEN AudioOffset ELSE Min({Min(BadCells(f)), Len(f)})

\* dsf_chunk_read_metadata: the tag is all that follows the pointer to it.
Metadata(f) ==
    LET at == Field(f, MetadataAt)
    IN IF 0 < at /\ at < Len(f) THEN SubSeq(f, at + 1, Len(f)) ELSE <<>>

\* dsf_read_file_structure of a readable file: the data chunk's own size wins
\* over the sample count, and reading the tag leaves the position after it.
Opened(m) ==
    LET size == Field(file, DataSizeAt) - DataHeader
        samples == Field(file, SampleCountAt)
    IN [Closed EXCEPT
          !.mode = m, !.dataSize = size, !.meta = Metadata(file),
          !.samples = IF size = AudioDataSize(samples) THEN samples
                      ELSE ((size \div Channels) \div BLOCK) * BLOCK * 8,
          !.pos = IF Metadata(file) = <<>> THEN AudioOffset ELSE Len(file)]

\* dsf_open and dsf_open_modify.  A file that cannot be read is closed again,
\* which in MODIFY mode cuts it off where reading stopped (dsf_io_close).
Open(m) ==
    LET ok == BadCells(file) = {}
    IN /\ h.mode = "CLOSED" /\ file # NoFile
       /\ budget.sessions < MaxSessions /\ NewSession
       /\ h' = IF ok THEN Opened(m) ELSE h
       /\ file' = IF ~ok /\ m = "MODIFY" THEN Resized(file, StopsAt(file)) ELSE file
       /\ src' = NoSource
       /\ ReturnsAt("open", ok, h'.pos)
       /\ UNCHANGED <<log, tag, stage>>

\* What the file is after its last call: only a finalize right before the
\* close has left the position where the file ends.
ClosedStage ==
    CASE h.mode = "READ" -> stage
      [] stage = "final" -> "saved"
      [] stage = "changed" -> "modified"
      [] OTHER -> "spoiled"

\* dsf_close: in WRITE and MODIFY mode the file is cut off at the position.
\* (Mutant: in WRITE mode only.)
TruncatesWritten == h.mode = "WRITE"
Truncates == h.mode \in {"WRITE", "MODIFY"}
Close ==
    /\ h.mode # "CLOSED"
    /\ \/ /\ file' = IF Truncates THEN Resized(file, h.pos) ELSE file
          /\ stage' = ClosedStage
          /\ Returns("close", TRUE)
          /\ UNCHANGED budget
       \/ /\ Truncates /\ budget.faults < MaxFaults
          /\ budget' = [budget EXCEPT !.faults = @ + 1]
          /\ stage' = "spoiled"
          /\ Returns("close", FALSE)
          /\ UNCHANGED file
    /\ h' = Closed /\ src' = NoSource
    /\ UNCHANGED <<log, tag>>

\* dsf_remove_file.
RemoveFile ==
    /\ h.mode # "CLOSED"
    /\ file' = NoFile /\ h' = Closed /\ src' = NoSource
    /\ log' = <<>> /\ tag' = <<>> /\ stage' = "none"
    /\ Returns("remove", TRUE)
    /\ UNCHANGED budget

-----------------------------------------------------------------------------
(* Writing.                                                                *)

\* A call that is given data after dsf_finalize is not saved by it.
WritingStage(ok) == IF ok /\ stage = "writing" THEN "writing" ELSE "spoiled"

\* dsf_write_audio_data of n bytes per channel: whole groups go to disk, the
\* rest stays buffered.  When group g cannot be written it stays buffered and
\* the rest of the data is lost; k of its bytes reached the disk.  The caller
\* writes nothing after that (the pipeline ends the run), so the buffers
\* always have room.
WriteAudioData(n) ==
    LET in == [i \in 1..(n * Channels) |-> Cell("audio", Len(log) + i)]
        all == h.buf \o [i \in DOMAIN in |-> Reversed(in[i])]
        whole == Len(all) \div GroupSize
        cells == BlockGroups(all, whole)
    IN /\ h.mode = "WRITE" /\ Len(h.buf) < GroupSize
       /\ log' = log \o in
       /\ \/ /\ Call(FALSE)
             /\ file' = Written(file, h.pos, cells)
             /\ h' = [h EXCEPT !.pos = @ + Len(cells),
                               !.buf = SubSeq(all, Len(cells) + 1, Len(all)),
                               !.samples = @ + n * 8]
             /\ stage' = WritingStage(TRUE)
             /\ Returns("write", TRUE)
          \/ \E g \in 0..(whole - 1), k \in 0..(GroupSize - 1) :
                /\ Call(TRUE)
                /\ file' = Written(file, h.pos, SubSeq(cells, 1, g * GroupSize + k))
                /\ h' = [h EXCEPT !.pos = @ + g * GroupSize + k,
                                  !.buf = SubSeq(all, g * GroupSize + 1,
                                                      (g + 1) * GroupSize)]
                /\ stage' = WritingStage(FALSE)
                /\ Returns("write", FALSE)
       /\ UNCHANGED <<src, tag>>

\* The zeros that dsf_flush_audio_data adds to what it was given.
Padding == [i \in 1..(IF h.buf = <<>> THEN 0 ELSE GroupSize - Len(h.buf)) |-> Zero]

FlushAudioData ==
    /\ h.mode = "WRITE"
    /\ \/ /\ Call(FALSE)
          /\ file' = IF h.buf = <<>> THEN file
                     ELSE Written(file, h.pos, BlockGroups(h.buf, 1))
          /\ h' = [h EXCEPT !.pos = IF h.buf = <<>> THEN @ ELSE @ + GroupSize,
                            !.buf = <<>>]
          /\ log' = log \o Padding
          /\ stage' = WritingStage(TRUE)
          /\ Returns("flush", TRUE)
       \/ \E k \in 0..(GroupSize - 1) :
             /\ h.buf # <<>> /\ Call(TRUE)
             /\ file' = Written(file, h.pos, SubSeq(BlockGroups(h.buf, 1), 1, k))
             /\ h' = [h EXCEPT !.pos = @ + k]
             /\ stage' = WritingStage(FALSE)
             /\ Returns("flush", FALSE)
             /\ UNCHANGED log
    /\ UNCHANGED <<src, tag>>

\* dsf_write_metadata keeps the tag for dsf_finalize.
WriteMetadata(n) ==
    /\ h.mode \in {"WRITE", "MODIFY"} /\ Call(FALSE)
    /\ h' = [h EXCEPT !.meta = Tag(n)]
    /\ stage' = CASE h.mode = "WRITE" -> WritingStage(TRUE)
                  [] stage = "changed" -> "spoiled"
                  [] OTHER -> stage
    /\ Returns("write_metadata", TRUE)
    /\ UNCHANGED <<file, src, log, tag>>

\* What dsf_finalize has to flush, and the end of the audio, which it takes
\* from the position after that.
Flushed == IF h.mode = "WRITE" /\ h.buf # <<>> THEN BlockGroups(h.buf, 1) ELSE <<>>

\* Mutant: the position is taken before the flush.
AudioEndUnflushed == h.pos
AudioEnd == h.pos + Len(Flushed)

\* The writes of dsf_finalize, in order: the buffered group, the size of the
\* data chunk, the sample count, the tag, the file size and the pointer to
\* the tag.  Every write to the header restores the position.
FinalWrites ==
    LET Num(n) == <<Cell("num", U64(n))>>
    IN << [at |-> h.pos, cells |-> Flushed],
          [at |-> DataSizeAt, cells |-> Num(DataHeader + (AudioEnd - AudioOffset))],
          [at |-> SampleCountAt, cells |-> Num(h.samples)],
          [at |-> AudioEnd, cells |-> h.meta],
          [at |-> FileSizeAt, cells |-> Num(AudioEnd + Len(h.meta))],
          [at |-> MetadataAt,
           cells |-> IF h.meta # <<>> /\ AudioEnd > 0 THEN Num(AudioEnd) ELSE <<>>] >>

\* The file after the first n of these writes.
AfterWrites(ws, n) ==
    LET After(f, i) == IF i <= n THEN Written(f, ws[i].at, ws[i].cells) ELSE f
    IN After(After(After(After(After(After(file, 1), 2), 3), 4), 5), 6)

\* The position after the first n writes and k cells of the next one: only the
\* flush and the tag move it.
MovedBy(ws, n, k) ==
    (IF n >= 1 THEN Len(ws[1].cells) ELSE IF n = 0 THEN k ELSE 0)
    + (IF n >= 4 THEN Len(ws[4].cells) ELSE IF n = 3 THEN k ELSE 0)

FinalStage ==
    CASE h.mode = "WRITE" /\ stage = "writing" -> "final"
      [] /\ h.mode = "MODIFY" /\ h.pos >= AudioOffset
         /\ stage \in {"saved", "modified", "changed"} -> "changed"
      [] OTHER -> "spoiled"

Finalize ==
    LET ws == FinalWrites
    IN /\ h.mode \in {"WRITE", "MODIFY"}
       /\ \/ /\ Call(FALSE)
             /\ file' = AfterWrites(ws, 6)
             /\ h' = [h EXCEPT !.pos = @ + MovedBy(ws, 6, 0), !.buf = <<>>,
                               !.dataSize = U64(AudioEnd - AudioOffset)]
             /\ log' = log \o Padding
             /\ tag' = h.meta
             /\ stage' = FinalStage
             /\ Returns("finalize", TRUE)
          \/ \E n \in 0..5 : \E k \in 0..(Len(ws[n + 1].cells) - 1) :
                /\ Call(TRUE)
                /\ file' = Written(AfterWrites(ws, n), ws[n + 1].at,
                                   SubSeq(ws[n + 1].cells, 1, k))
                /\ h' = [h EXCEPT !.pos = @ + MovedBy(ws, n, k),
                                  !.buf = IF n = 0 THEN @ ELSE <<>>,
                                  !.dataSize = IF n >= 2 THEN U64(AudioEnd - AudioOffset)
                                               ELSE @]
                /\ stage' = "spoiled"
                /\ Returns("finalize", FALSE)
                /\ UNCHANGED <<log, tag>>
       /\ UNCHANGED src

-----------------------------------------------------------------------------
(* Reading.                                                                *)

Readable == h.mode \in {"READ", "MODIFY"}

\* A call that moves the position after dsf_finalize changes where the file
\* will be cut off.
ReadingStage == IF stage = "changed" THEN "spoiled" ELSE stage

\* dsf_read_and_buffer_block_group, until n bytes are there or a group is
\* incomplete: the bytes, the handle after it and whether it succeeded.  A
\* short read leaves the position at the end of the file.
ReadAudio(n) ==
    LET need == IF n <= Len(h.rbuf) THEN 0
                ELSE (n - Len(h.rbuf) + GroupSize - 1) \div GroupSize
        there == IF h.pos > Len(file) THEN 0 ELSE (Len(file) - h.pos) \div GroupSize
        take == Min({need, there})
        data == h.rbuf \o ByteInterleaved(SubSeq(file, h.pos + 1, h.pos + take * GroupSize))
        ok == need <= there
    IN [ok |-> ok,
        data |-> IF ok THEN SubSeq(data, 1, n) ELSE data,
        h |-> [h EXCEPT !.pos = IF ok THEN @ + take * GroupSize ELSE Max({@, Len(file)}),
                        !.rbuf = IF ok THEN SubSeq(data, n + 1, Len(data)) ELSE <<>>]]

ReadAudioData(n) ==
    LET r == ReadAudio(n)
    IN /\ Readable /\ ~src.track /\ Call(FALSE)
       /\ h' = r.h
       /\ ret' = [op |-> "read", ok |-> r.ok, at |-> ret.next, n |-> n, data |-> r.data,
                   next |-> IF r.ok /\ ret.next >= 0 THEN ret.next + n ELSE -1]
       /\ stage' = ReadingStage
       /\ UNCHANGED <<file, src, log, tag>>

\* Mutant: a seek keeps the buffered bytes.
SeekToBuffered(target) ==
    /\ target \in 0..Max({AudioOffset, Len(file) + GroupSize})
    /\ h' = [h EXCEPT !.pos = target]

\* dsf_seek_audio_data and dsf_seek_to_audio_start: the buffer is dropped; the
\* target need not begin a block group.  A seek is bounded to one group past
\* the end of the file.
SeekTo(target) ==
    /\ target \in 0..Max({AudioOffset, Len(file) + GroupSize})
    /\ h' = [h EXCEPT !.pos = target, !.rbuf = <<>>]

SeekAudioData(offset, origin) ==
    /\ Readable /\ ~src.track /\ Call(FALSE)
    /\ SeekTo(offset + CASE origin = "SET" -> AudioOffset
                         [] origin = "CUR" -> h.pos
                         [] origin = "END" -> AudioOffset + h.dataSize)
    /\ stage' = ReadingStage
    /\ ReturnsAt("seek", TRUE, h'.pos)
    /\ UNCHANGED <<file, src, log, tag>>

SeekToAudioStart ==
    /\ Readable /\ ~src.track /\ Call(FALSE)
    /\ SeekTo(AudioOffset)
    /\ stage' = ReadingStage
    /\ ReturnsAt("seek", TRUE, h'.pos)
    /\ UNCHANGED <<file, src, log, tag>>

\* dsf_chunk_validate_file.  A stream opened for writing cannot be read.
Acceptable(f) ==
    LET size == Field(f, FileSizeAt)
        meta == Field(f, MetadataAt)
        data == Field(f, DataSizeAt) - DataHeader
        computed == AudioDataSize(Field(f, SampleCountAt))
    IN /\ BadCells(f) = {}
       /\ size <= Len(f) /\ Len(f) - size <= Tolerance
       /\ AudioOffset + data <= Min({Len(f), size})
       /\ meta > 0 => AudioOffset + data <= meta /\ meta < Len(f)
       /\ computed > 0
       /\ computed - data <= GroupSize /\ data - computed <= GroupSize

\* Where the checks leave the position: at the start if the file is too short
\* or cannot be read, after the first chunk if its fields are wrong.
ValidateStops(f) ==
    LET size == Field(f, FileSizeAt)
        meta == Field(f, MetadataAt)
    IN CASE h.mode = "WRITE" \/ Len(f) < AudioOffset -> 0
         [] 1 \in BadCells(f) -> 1
         [] \/ size > Len(f) \/ Len(f) - size > Tolerance
            \/ meta > 0 /\ (meta >= Len(f) \/ meta < AudioOffset) -> MetadataAt + 1
         [] OTHER -> StopsAt(f)

Validate ==
    LET ok == h.mode # "WRITE" /\ Acceptable(file)
    IN /\ h.mode # "CLOSED" /\ ~src.track /\ Call(FALSE)
       /\ h' = [h EXCEPT !.pos = ValidateStops(file)]
       /\ stage' = IF h.mode = "WRITE" THEN "spoiled" ELSE ReadingStage
       /\ Returns("validate", ok)
       /\ UNCHANGED <<file, src, log, tag>>

-----------------------------------------------------------------------------
(* The DSF source of the pipeline (source_dsf.c), on a file opened to read. *)

SourceSeekTrack ==
    /\ h.mode = "READ" /\ Call(FALSE)
    /\ SeekTo(AudioOffset)
    /\ src' = [NoSource EXCEPT !.track = TRUE]
    /\ Returns("seek_track", TRUE)
    /\ UNCHANGED <<file, log, tag, stage>>

\* dsf_source_read_frame: a frame, what is left of the audio, or the end.
SourceReadFrame ==
    LET n == Min({FrameBytes, h.dataSize - src.pos})
        r == ReadAudio(n)
    IN /\ src.track /\ ~src.eof
       /\ IF src.pos >= h.dataSize
          THEN /\ src' = [src EXCEPT !.eof = TRUE]
               /\ Returns("read_frame", TRUE)
               /\ UNCHANGED h
          ELSE /\ h' = r.h
               /\ src' = IF r.ok THEN [src EXCEPT !.pos = @ + n, !.got = @ \o r.data]
                         ELSE [src EXCEPT !.track = FALSE]
               /\ Returns("read_frame", r.ok)
       /\ UNCHANGED <<file, log, tag, stage, budget>>

-----------------------------------------------------------------------------
Next ==
    \/ Create
    \/ \E m \in {"READ", "MODIFY"} : Open(m)
    \/ Close
    \/ RemoveFile
    \/ \E n \in WriteSizes : WriteAudioData(n)
    \/ FlushAudioData
    \/ \E n \in TagSizes : WriteMetadata(n)
    \/ Finalize
    \/ \E n \in ReadSizes : ReadAudioData(n)
    \/ \E o \in SeekOffsets, origin \in {"SET", "CUR", "END"} : SeekAudioData(o, origin)
    \/ SeekToAudioStart
    \/ Validate
    \/ SourceSeekTrack
    \/ SourceReadFrame

Spec == Init /\ [][Next]_vars

-----------------------------------------------------------------------------
(* Properties.                                                             *)

\* The audio bytes stand in the file block by block, channel by channel, in
\* the bit order of the disk.
AudioInPlace ==
    \A i \in 1..Len(log) :
        LET g == ((i - 1) \div GroupSize) * GroupSize
            r == (i - 1) % GroupSize
            at == AudioOffset + g + (r % Channels) * BLOCK + r \div Channels
        IN at < Len(file) /\ file[at + 1] = Reversed(log[i])

SamplesLogged ==
    8 * (Cardinality({i \in 1..Len(log) : log[i] # Zero}) \div Channels)

\* Only the last block group was padded: every earlier flush found nothing
\* buffered.
PaddedAtEnd == \A i \in 1..(Len(log) - GroupSize) : log[i] # Zero

\* A file that was written in any number of calls, with flushes between them,
\* finalized once and closed holds all of the audio and the tag and nothing
\* else, and its header tells where they are; dsf_validate accepts it if it
\* has any audio and no padding inside (dsf_write_audio_data, dsf_finalize,
\* dsf_io_close, dsf_chunk_validate_file).  With padding inside it may refuse
\* it: the size it expects for the samples is more than a group too small.
SavedFileRight ==
    /\ TypeOK
    /\ stage = "saved" =>
          LET end == AudioOffset + Len(log)
          IN /\ Len(file) = end + Len(tag)
             /\ SubSeq(file, 1, AudioOffset) =
                    Header(Len(file), IF tag = <<>> THEN 0 ELSE end,
                           SamplesLogged, Len(log))
             /\ AudioInPlace
             /\ SubSeq(file, end + 1, Len(file)) = tag
             /\ ret.op = "validate" /\ log # <<>> /\ PaddedAtEnd => ret.ok

\* Reading such a file from any block group on, in pieces of any size, gives
\* the audio as it was written, in full as far as it goes; the DSF source
\* delivers all of it and then ends the track, with no byte of the padding
\* lost or of the tag taken for audio (dsf_read_audio_data,
\* dsf_source_read_frame).
ReadsAsWritten ==
    /\ stage = "saved" /\ ret.op = "read" /\ ret.at >= 0 =>
          /\ \A i \in DOMAIN ret.data :
                ret.at + i <= Len(log) => ret.data[i] = log[ret.at + i]
          /\ ret.at + ret.n <= Len(log) => ret.ok /\ Len(ret.data) = ret.n
    /\ stage = "saved" =>
          /\ IsPrefix(src.got, log)
          /\ src.eof => src.got = log
          /\ ret.op = "read_frame" => ret.ok

\* A finalize that succeeds saves the tag: whoever opens the file after the
\* close finds it, whether the file was created or modified and wherever in
\* or behind the audio the modification left the position.  A position before
\* the audio is exempt (see Stages and ModifiedOpens): there the finalize
\* succeeds and neither tag nor audio can be read again (dsf_finalize,
\* dsf_chunk_read_metadata).
TagFound ==
    ret.op = "open" /\ stage \in {"saved", "modified"} => ret.ok /\ h.meta = tag

\* Not true of the code: a modification that dsf_finalize reports as saved
\* leaves a file that can be opened, wherever a seek or a validation left the
\* position (dsf.c:406; dsf.h:293-294).
ModifiedOpens ==
    h.mode = "MODIFY" /\ ret.op = "finalize" /\ ret.ok => BadCells(file) = {}

\* Not true of the code: a modification leaves the audio as it was (dsf.h,
\* dsf_open_modify).
AudioKept ==
    h.mode = "CLOSED" /\ stage \in {"saved", "modified"} =>
        /\ AudioInPlace
        /\ Field(file, DataSizeAt) = DataHeader + Len(log)

=============================================================================
