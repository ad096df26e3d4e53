----------------------------- MODULE VfsLayout ------------------------------
(***************************************************************************)
(* The DSF file that libsacdvfs shows for one track of a disc: a header,   *)
(* the audio in blocks of BlockBytes per channel (the channels one after   *)
(* the other in a block group, the last group padded), then the ID3 tag.   *)
(* On the disc the audio comes in frames of FrameBytes per channel, and    *)
(* FrameBytes is no multiple of BlockBytes (4704 and 4096): the two line   *)
(* up only every Align frames (128).                                       *)
(*                                                                         *)
(* A byte of the file is a tuple that says which byte it is, so that two   *)
(* different bytes of the track are never equal.                           *)
(***************************************************************************)
EXTENDS Integers, Sequences

CONSTANTS
    FrameBytes,   \* SACD_FRAME_SIZE_64, bytes per channel in a frame
    BlockBytes,   \* DSF_BLOCK_SIZE_PER_CHANNEL
    Align,        \* FRAME_BLOCK_ALIGNMENT
    Channels,     \* info.channel_count
    Frames,       \* end_frame - start_frame
    HeaderSize,   \* dsf_header_size
    MetaSize      \* info.metadata_size

ASSUME LayoutConstants ==
    /\ FrameBytes \in Nat \ {0} /\ BlockBytes \in Nat \ {0} /\ Align \in Nat \ {0}
    /\ Channels \in Nat \ {0} /\ Frames \in Nat /\ HeaderSize \in Nat /\ MetaSize \in Nat
    /\ (Align * FrameBytes) % BlockBytes = 0

(***************************************************************************)
(* _calculate_virtual_file_size                                            *)
(***************************************************************************)
num_blocks == (Frames * FrameBytes + BlockBytes - 1) \div BlockBytes
GroupBytes == BlockBytes * Channels
audio_data_size == num_blocks * GroupBytes
metadata_offset == HeaderSize + audio_data_size
total_size == metadata_offset + MetaSize

Header(k) == <<"header", 0, k>>
Sample(ch, i) == <<"audio", ch, i>>
Zero == <<"pad", 0, 0>>
Silence == <<"silence", 0, 0>>
Tag(k) == <<"id3", 0, k>>

(***************************************************************************)
(* The byte at position p of the file, from the DSF format alone: this is  *)
(* what a reader of the file expects, however it got to p.                 *)
(***************************************************************************)
FileByte(p) ==
    LET a == p - HeaderSize
        i == (a \div GroupBytes) * BlockBytes + (a % BlockBytes)
        ch == (a % GroupBytes) \div BlockBytes
    IN  IF p < HeaderSize THEN Header(p)
        ELSE IF p >= metadata_offset THEN Tag(p - metadata_offset)
        ELSE IF i < Frames * FrameBytes THEN Sample(ch, i)
        ELSE Zero

(* Whether the byte at position p is in a block group that whole frames fill. *)
InWholeBlock(p) ==
    p < HeaderSize + ((Frames * FrameBytes) \div BlockBytes) * GroupBytes

(***************************************************************************)
(* sacd_vfs_file_seek: the frame from which to read again to reach         *)
(* position p, and how much of the output before p to drop.                *)
(***************************************************************************)
output_per_alignment == ((Align * FrameBytes) \div BlockBytes) * GroupBytes

SeekPoint(p) ==
    LET audio_offset == p - HeaderSize
        group == audio_offset \div output_per_alignment
        aligned == group * Align
    IN  IF p < HeaderSize THEN [frame |-> 0, skip |-> 0]
        ELSE IF p >= metadata_offset THEN [frame |-> Frames, skip |-> 0]
        ELSE IF aligned > Frames
             THEN [frame |-> Frames,
                   skip |-> audio_offset - ((Frames * FrameBytes) \div BlockBytes) * GroupBytes]
             ELSE [frame |-> aligned, skip |-> audio_offset - group * output_per_alignment]

(***************************************************************************)
(* The columns (one byte of every channel) of frame f, and the bytes a     *)
(* block group holds when its columns are cols, padded to a whole block.   *)
(***************************************************************************)
FrameColumns(f) == [i \in 1..FrameBytes |-> f * FrameBytes + i - 1]

BlockGroup(cols) ==
    [k \in 1..GroupBytes |->
        LET i == ((k - 1) % BlockBytes) + 1
        IN  IF i <= Len(cols) THEN Sample((k - 1) \div BlockBytes, cols[i]) ELSE Zero]

(***************************************************************************)
(* _transform_dsd_frame: the columns waiting in channel_buffers and those  *)
(* of the new frame, cut into whole blocks and a rest.                     *)
(***************************************************************************)
Blocks(cols) ==
    [k \in 1..((Len(cols) \div BlockBytes) * GroupBytes) |->
        LET g == (k - 1) \div GroupBytes
        IN  BlockGroup(SubSeq(cols, g * BlockBytes + 1, (g + 1) * BlockBytes))
                [((k - 1) % GroupBytes) + 1]]

Rest(cols) == SubSeq(cols, (Len(cols) \div BlockBytes) * BlockBytes + 1, Len(cols))
=============================================================================
