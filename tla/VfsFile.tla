------------------------------ MODULE VfsFile -------------------------------
(***************************************************************************)
(* libsacdvfs/src/sacd_vfs.c: an open virtual file read by one thread      *)
(* (sacd_vfs_file_open, _seek, _read, _close with mt_enabled = 0).         *)
(*                                                                         *)
(* A call of sacd_vfs_file_read is its loop over regions (rd.pc = "region")*)
(* around the loop of _read_audio_region (rd.pc = "audio"); each turn of a *)
(* loop is an action.  A frame may fail to be read from the disc or to be  *)
(* decoded, and the tag to be fetched; another handle may replace the tag  *)
(* at any time.                                                            *)
(***************************************************************************)
EXTENDS VfsLayout, FiniteSets

CONSTANTS
    Sizes,       \* the sizes that read is called with
    TagSizes,    \* the sizes of the tags that another handle flushes
    MaxFaults,   \* bound of the model: failures in a behaviour
    MaxCalls     \* bound of the model: calls of seek and read

ASSUME FileConstants ==
    /\ Sizes \subseteq Nat \ {0} /\ TagSizes \subseteq Nat \ {0}
    /\ MaxFaults \in Nat /\ MaxCalls \in Nat

VARIABLES
    file,        \* struct sacd_vfs_file: what seek and read change
    rd,          \* the call of read in progress, or the last: its loops, its locals, its result
    out,         \* the bytes the last step copied to the caller, and their position
    tag,         \* the size of the tag in the context's cache (MetaSize when the file was opened)
    lost,        \* a frame has failed to decode since the file was opened or a seek
    faults,      \* the failures so far
    calls        \* calls of seek and read so far

vars == <<file, rd, out, tag, lost, faults, calls>>

Codes == {"OK", "DST_DECODE", "FORMAT"}
NoBytes == [at |-> 0, bytes |-> <<>>]
NoRead == [pc |-> "idle", size |-> 0, total |-> 0, chunk |-> 0, result |-> "OK"]

(***************************************************************************)
(* sacd_vfs_file_open                                                      *)
(***************************************************************************)
Init ==
    /\ file = [position |-> 0, current_frame |-> 0, channel_buffers |-> <<>>,
               transform_buffer |-> <<>>, skip |-> 0, early_eof |-> FALSE]
    /\ rd = NoRead
    /\ out = NoBytes
    /\ tag = MetaSize
    /\ lost = FALSE
    /\ faults = 0
    /\ calls = 0

Call ==
    /\ rd.pc = "idle" /\ calls < MaxCalls
    /\ calls' = calls + 1

(* Mutant: the columns waiting in channel_buffers survive a seek. *)
SeekKeepsColumns(p) ==
    /\ Call
    /\ p # file.position
    /\ LET point == SeekPoint(p)
       IN  file' = [file EXCEPT !.position = p, !.current_frame = point.frame,
                                !.transform_buffer = <<>>,
                                !.skip = point.skip, !.early_eof = FALSE]
    /\ out' = NoBytes
    /\ rd' = NoRead
    /\ lost' = FALSE
    /\ UNCHANGED <<tag, faults>>

(***************************************************************************)
(* sacd_vfs_file_seek, to a position other than the current one: at the    *)
(* current one it returns at once.                                         *)
(***************************************************************************)
Seek(p) ==
    /\ Call
    /\ p # file.position
    /\ LET point == SeekPoint(p)
       IN  file' = [position |-> p, current_frame |-> point.frame,
                    channel_buffers |-> <<>>, transform_buffer |-> <<>>,
                    skip |-> point.skip, early_eof |-> FALSE]
    /\ out' = NoBytes
    /\ rd' = NoRead
    /\ lost' = FALSE
    /\ UNCHANGED <<tag, faults>>

(***************************************************************************)
(* sacd_vfs_set_id3_overlay: another handle on the same disc image flushes *)
(* a tag of n bytes (sacd_overlay.c:974), between any two steps.  What the *)
(* last call of read returned is then forgotten.                           *)
(***************************************************************************)
Retag(n) ==
    /\ tag' = n
    /\ rd' = IF rd.pc = "idle" THEN NoRead ELSE rd
    /\ out' = NoBytes
    /\ UNCHANGED <<file, lost, faults, calls>>

(***************************************************************************)
(* sacd_vfs_file_read: the loop over the regions of the file.              *)
(***************************************************************************)
Read(size) ==
    /\ Call
    /\ file.position < total_size
    /\ rd' = [pc |-> "region", size |-> size, total |-> 0, chunk |-> 0, result |-> "OK"]
    /\ out' = NoBytes
    /\ UNCHANGED <<file, tag, lost, faults>>

Smaller(a, b) == IF a < b THEN a ELSE b
InHeader == file.position < HeaderSize
InAudio == ~InHeader /\ file.position < metadata_offset

(* Bytes are copied to the caller. *)
Copy(bytes) == out' = [at |-> file.position, bytes |-> bytes]

(* A region that is served by one copy: the header, the silence that stands *)
(* in for missing audio, and the tag.                                       *)
ServeRegion(bytes) ==
    LET n == Len(bytes)
    IN  /\ rd.pc = "region" /\ rd.size > 0
        /\ Copy(bytes)
        /\ file' = [file EXCEPT !.position = @ + n]
        /\ rd' = [rd EXCEPT !.size = @ - n, !.total = @ + n]
        /\ UNCHANGED <<tag, lost, faults, calls>>

(* What the caller wants of a region that ends at the position limit. *)
Wanted(limit) == 1 .. Smaller(rd.size, limit - file.position)

read_header_region ==
    /\ InHeader
    /\ ServeRegion([k \in Wanted(HeaderSize) |-> Header(file.position + k - 1)])

fill_gap ==
    /\ InAudio /\ file.early_eof
    /\ ServeRegion([k \in Wanted(metadata_offset) |-> Silence])

Fault == faults < MaxFaults /\ faults' = faults + 1

(* The region of the tag ends the call with what it has. *)
StopAtTag(result) ==
    /\ rd' = [rd EXCEPT !.pc = "idle", !.result = result]
    /\ out' = NoBytes
    /\ UNCHANGED <<file, tag, lost, calls>>

(* The size of the file has been fixed when it was opened; the tag ends      *)
(* where the one that the context holds now ends, or cannot be fetched.      *)
read_metadata_region ==
    /\ rd.pc = "region" /\ rd.size > 0
    /\ metadata_offset <= file.position /\ file.position < total_size
    /\ \/ /\ file.position < metadata_offset + tag
          /\ ServeRegion([k \in Wanted(metadata_offset + tag) |->
                             Tag(file.position - metadata_offset + k - 1)])
       \/ /\ metadata_offset + tag <= file.position
          /\ StopAtTag("OK") /\ UNCHANGED faults
       \/ Fault /\ StopAtTag(IF rd.total = 0 THEN "FORMAT" ELSE "OK")

EnterAudio ==
    /\ rd.pc = "region" /\ rd.size > 0
    /\ InAudio /\ ~file.early_eof
    /\ rd' = [rd EXCEPT !.pc = "audio", !.chunk = 0]
    /\ out' = NoBytes
    /\ UNCHANGED <<file, tag, lost, faults, calls>>

ReadDone ==
    /\ rd.pc = "region"
    /\ rd.size = 0 \/ file.position >= total_size
    /\ rd' = [rd EXCEPT !.pc = "idle"]
    /\ out' = NoBytes
    /\ UNCHANGED <<file, tag, lost, faults, calls>>

(* Mutant: no bytes always end the call. *)
LeaveAudioEmpty(failure, f) ==
    LET total == rd.total + rd.chunk
    IN  rd' = [rd EXCEPT !.pc = IF rd.chunk > 0 THEN "region" ELSE "idle",
                         !.total = total,
                         !.result = IF total = 0 THEN failure ELSE "OK"]

(***************************************************************************)
(* What sacd_vfs_file_read does when _read_audio_region comes back: it     *)
(* goes on after some bytes, and after none if silence is to follow;       *)
(* otherwise the call ends, with the failure only if it has no bytes.      *)
(***************************************************************************)
LeaveAudio(failure, f) ==
    LET total == rd.total + rd.chunk
        again == IF rd.chunk > 0 THEN TRUE
                 ELSE failure = "OK" /\ f.early_eof /\ f.position < metadata_offset
    IN  rd' = [rd EXCEPT !.pc = IF again THEN "region" ELSE "idle",
                         !.total = total,
                         !.result = IF total = 0 THEN failure ELSE "OK"]

-----------------------------------------------------------------------------
(***************************************************************************)
(* _read_audio_region                                                      *)
(***************************************************************************)
Audio == rd.pc = "audio" /\ rd.size > 0 /\ file.position < metadata_offset
Emptied == Audio /\ file.transform_buffer = <<>>

(* The transformed bytes not yet handed out.  The copy is limited by what  *)
(* the caller asked for and by the buffer, not by metadata_offset.         *)
CopyTransformed ==
    /\ Audio
    /\ file.transform_buffer # <<>>
    /\ LET n == Smaller(rd.size, Len(file.transform_buffer))
       IN  /\ Copy(SubSeq(file.transform_buffer, 1, n))
           /\ file' = [file EXCEPT !.position = @ + n,
                                   !.transform_buffer = SubSeq(@, n + 1, Len(@))]
           /\ rd' = [rd EXCEPT !.size = @ - n, !.chunk = @ + n]
    /\ UNCHANGED <<tag, lost, faults, calls>>

(* Mutant: the loop does not end when the frames have run out. *)
AudioDoneAtOffset ==
    /\ rd.pc = "audio"
    /\ rd.size = 0 \/ file.position >= metadata_offset
    /\ LeaveAudio("OK", file)
    /\ out' = NoBytes
    /\ UNCHANGED <<file, tag, lost, faults, calls>>

AudioDone ==
    /\ rd.pc = "audio"
    /\ \/ rd.size = 0
       \/ file.position >= metadata_offset
       \/ /\ file.transform_buffer = <<>> /\ file.current_frame >= Frames
          /\ file.channel_buffers = <<>>
    /\ LeaveAudio("OK", file)
    /\ out' = NoBytes
    /\ UNCHANGED <<file, tag, lost, faults, calls>>

(* _flush_block_buffers: the last, partial block, padded. *)
flush_block_buffers ==
    /\ Emptied
    /\ file.current_frame >= Frames /\ file.channel_buffers # <<>>
    /\ file' = [file EXCEPT !.transform_buffer = BlockGroup(file.channel_buffers),
                            !.channel_buffers = <<>>]
    /\ out' = NoBytes
    /\ UNCHANGED <<rd, tag, lost, faults, calls>>

NeedFrame == Emptied /\ file.current_frame < Frames

(* After a seek, output up to the target position is dropped. *)
SkipOutput(output) == Smaller(file.skip, Len(output))

ReadFrame ==
    /\ NeedFrame
    /\ LET cols == file.channel_buffers \o FrameColumns(file.current_frame)
           output == Blocks(cols)
           skipped == SkipOutput(output)
       IN  file' = [file EXCEPT !.current_frame = @ + 1,
                                !.channel_buffers = Rest(cols),
                                !.transform_buffer = SubSeq(output, skipped + 1, Len(output)),
                                !.skip = @ - skipped]
    /\ out' = NoBytes
    /\ UNCHANGED <<rd, tag, lost, faults, calls>>

(* sacd_get_sound_data fails: the rest of the track becomes silence. *)
ReadFails ==
    /\ NeedFrame
    /\ Fault
    /\ file' = [file EXCEPT !.early_eof = TRUE]
    /\ LeaveAudio("OK", file')
    /\ out' = NoBytes
    /\ UNCHANGED <<tag, lost, calls>>

(* dst_decoder_decode fails (or the transform buffer cannot grow): the     *)
(* frame has already been counted.                                         *)
DecodeFails ==
    /\ NeedFrame
    /\ Fault
    /\ lost' = TRUE
    /\ file' = [file EXCEPT !.current_frame = @ + 1]
    /\ LeaveAudio("DST_DECODE", file')
    /\ out' = NoBytes
    /\ UNCHANGED <<tag, calls>>

(* The turns of the loops of a call in progress. *)
Turn ==
    \/ read_header_region \/ fill_gap \/ read_metadata_region
    \/ EnterAudio \/ ReadDone
    \/ CopyTransformed \/ AudioDone \/ flush_block_buffers
    \/ ReadFrame \/ ReadFails \/ DecodeFails

Next ==
    \/ \E p \in 0..total_size : Seek(p)
    \/ \E size \in Sizes : Read(size)
    \/ \E n \in TagSizes : Retag(n)
    \/ Turn

Spec == Init /\ [][Next]_vars /\ WF_vars(Turn)

-----------------------------------------------------------------------------
(***************************************************************************)
(* Properties                                                              *)
(***************************************************************************)

(* The fields of the file and of the call stay in their ranges: a block is *)
(* never left full in channel_buffers, and a call in progress has a size.  *)
TypeOK ==
    /\ file.position \in Nat
    /\ file.current_frame \in 0..Frames
    /\ Len(file.channel_buffers) < BlockBytes
    /\ Len(file.transform_buffer) <= (FrameBytes \div BlockBytes + 1) * GroupBytes
    /\ file.skip \in 0..output_per_alignment
    /\ file.early_eof \in BOOLEAN
    /\ rd.pc \in {"idle", "region", "audio"} /\ rd.size \in Nat
    /\ rd.total \in Nat /\ rd.chunk \in Nat /\ rd.result \in Codes
    /\ tag \in TagSizes \union {MetaSize}
    /\ lost \in BOOLEAN /\ faults \in 0..MaxFaults /\ calls \in 0..MaxCalls

Right(k) ==
    \/ out.bytes[k] = FileByte(out.at + k - 1)
    \/ /\ out.bytes[k] = Silence /\ file.early_eof
       /\ HeaderSize <= out.at + k - 1 /\ out.at + k - 1 < metadata_offset

(* The state is well typed, and                                            *)
(* however the caller seeks and in whatever pieces it reads, the bytes it  *)
(* gets at a position of the header or of a block that whole frames fill   *)
(* are the bytes of the DSF file at that position, or silence once the     *)
(* disc has run out of audio: the seek to an aligned frame and the bytes   *)
(* then dropped (sacd_vfs.c:1296-1361, 2546-2554) agree with the blocks    *)
(* that reading on from the start of the track would give.  A frame that   *)
(* failed to decode spoils this, until the next seek.                      *)
WholeBlocksRight ==
    /\ TypeOK
    /\ ~lost => \A k \in DOMAIN out.bytes : InWholeBlock(out.at + k - 1) => Right(k)

(* Not true of the code: the same after a frame that failed to decode, the *)
(* audio goes on without a shift, sacd_vfs.c:166 "DSF requires continuous  *)
(* DSD data in 4096-byte blocks per channel".                              *)
ContinuousAudio ==
    \A k \in DOMAIN out.bytes : InWholeBlock(out.at + k - 1) => Right(k)

(* Not true of the code: WholeBlocksRight for every byte of the file, the  *)
(* padded last block and the tag included: sacd_vfs.c:1352 "Skip bytes     *)
(* from aligned position to target position".                              *)
EveryByteRight == ~lost => \A k \in DOMAIN out.bytes : Right(k)

(* A read that starts inside the file does not succeed with no bytes,      *)
(* which a caller takes for the end of the file (sacd_vfs.c:1228-1246),    *)
(* unless frames have been lost before, or another handle has flushed a    *)
(* shorter tag and the position is behind its end: the size of the file    *)
(* does not follow the tag (sacd_vfs.c:2694).                              *)
NoEmptySuccess ==
    ~lost /\ rd.pc = "idle" /\ rd.size > 0 /\ rd.result = "OK" =>
        rd.total > 0 \/ metadata_offset + tag <= file.position

(* Not true of the code: the same without the exception for the tag,       *)
(* sacd_vfs.c:2693 being the end of the file that total_size does not tell.*)
NoEmptySuccessInFile ==
    ~lost /\ rd.pc = "idle" /\ rd.size > 0 /\ rd.result = "OK" => rd.total > 0

(* Every call of read comes back: its two loops always make progress.      *)
ReadReturns == (rd.pc # "idle") ~> (rd.pc = "idle")
=============================================================================
