----------------------------- MODULE VfsProofs -----------------------------
(***************************************************************************)
(* Proofs about an open virtual file.                                      *)
(*                                                                         *)
(* Read by one thread (VfsFile), for any frame and block size, any         *)
(* alignment that fits both, any number of channels and frames: the bytes  *)
(* of whole blocks are those of the DSF file, and a read inside the file   *)
(* does not come back empty.                                               *)
(*                                                                         *)
(* Read through the reader thread (VfsReader), for a track of any length,  *)
(* any set of seek targets and any size of the process queue: the frames   *)
(* taken after a seek are consecutive, and the end of the audio is not     *)
(* reported early.                                                         *)
(***************************************************************************)
EXTENDS VfsFile, VfsReader, TLAPS, SequenceTheorems

-----------------------------------------------------------------------------
(***************************************************************************)
(* VfsFile                                                                 *)
(***************************************************************************)
(* The inductive invariant of the file read by one thread.                 *)

\* A byte of the file or of the silence that stands in for it.
Byte == {"header", "audio", "pad", "silence", "id3"} \X Nat \X Nat

\* What one frame may add to the transformed bytes.
MaxTransformed == (FrameBytes \div BlockBytes + 1) * GroupBytes

FileType ==
    /\ file \in [position : Nat, current_frame : 0..Frames,
                 channel_buffers : Seq(Nat), transform_buffer : Seq(Byte),
                 skip : 0..output_per_alignment, early_eof : BOOLEAN]
    /\ Len(file.channel_buffers) < BlockBytes
    /\ Len(file.transform_buffer) <= MaxTransformed

CallType ==
    /\ rd \in [pc : {"idle", "region", "audio"}, size : Nat, total : Nat, chunk : Nat,
               result : Codes]
    /\ out.at \in Nat /\ out.bytes \in Seq(Byte)
    /\ tag \in TagSizes \union {MetaSize}
    /\ lost \in BOOLEAN /\ faults \in 0..MaxFaults /\ calls \in 0..MaxCalls

\* Where the blocks that the first f frames fill end in the file.
BlocksEnd(f) == HeaderSize + ((f * FrameBytes) \div BlockBytes) * GroupBytes

\* n columns that follow each other from block b on.
Columns(b, n) == [j \in 1..n |-> b * BlockBytes + j - 1]

\* The columns of the first f frames that fill no block.
LeftOver(f) == Columns((f * FrameBytes) \div BlockBytes, (f * FrameBytes) % BlockBytes)

\* The audio is still to be read from its start.
Untouched ==
    /\ file.position <= HeaderSize
    /\ file.current_frame = 0 /\ file.channel_buffers = <<>>
    /\ file.transform_buffer = <<>> /\ file.skip = 0

\* What is buffered continues the file at the position: the transformed bytes
\* end where the blocks of the frames read so far do, or a seek still has that
\* much to drop.
Aligned ==
    /\ HeaderSize <= file.position /\ file.position <= metadata_offset
    /\ file.channel_buffers = LeftOver(file.current_frame)
    /\ file.position + Len(file.transform_buffer) = BlocksEnd(file.current_frame) + file.skip
    /\ file.skip > 0 => file.transform_buffer = <<>> /\ file.position < metadata_offset
    /\ \A k \in 1..Len(file.transform_buffer) :
           file.transform_buffer[k] = FileByte(file.position + k - 1)

\* The whole blocks are behind the position, and what is buffered reaches the tag.
Finished ==
    /\ file.current_frame = Frames /\ file.channel_buffers = <<>>
    /\ BlocksEnd(Frames) <= file.position
    /\ metadata_offset <= file.position + Len(file.transform_buffer)

PositionInv == ~lost /\ ~file.early_eof => Untouched \/ Aligned \/ Finished

\* The call in progress has moved the position by what it counts, and has not
\* reached the end of the file without a byte.
CallInv ==
    /\ rd.pc = "audio" => HeaderSize <= file.position /\ ~file.early_eof
    /\ rd.pc = "audio" /\ rd.chunk = 0 => file.position < metadata_offset
    /\ rd.pc = "region" /\ rd.total = 0 => file.position < total_size

\* WholeBlocksRight without the types.
OutRight == ~lost => \A k \in DOMAIN out.bytes : InWholeBlock(out.at + k - 1) => Right(k)

IInv ==
    /\ FileType /\ CallType
    /\ PositionInv /\ CallInv
    /\ OutRight
    /\ NoEmptySuccess
----------------------------------------------------------------------------
(* Arithmetic.                                                             *)

LEMMA Division ==
    ASSUME NEW a \in Nat, NEW d \in Nat \ {0}
    PROVE  a \div d \in Nat /\ a % d \in 0..(d - 1) /\ a = (a \div d) * d + (a % d)
OBVIOUS

LEMMA ProductNat == \A a, b \in Nat : a * b \in Nat
OBVIOUS

LEMMA ProductOrder ==
    ASSUME NEW a \in Nat, NEW b \in Nat, NEW c \in Nat, a < b
    PROVE  a * c + c <= b * c
<1>1. PICK e \in Nat : b = a + 1 + e
  <2>1. b - a - 1 \in Nat /\ b = a + 1 + (b - a - 1)
    OBVIOUS
  <2> QED
    BY <2>1
<1>2. b * c = a * c + c + e * c
  BY <1>1
<1>3. e * c \in Nat /\ a * c \in Nat
  BY <1>1, ProductNat
<1> QED
  BY <1>2, <1>3

LEMMA Quotient ==
    ASSUME NEW a \in Nat, NEW d \in Nat \ {0}, NEW q \in Nat, NEW r \in 0..(d - 1),
           a = q * d + r
    PROVE  a \div d = q /\ a % d = r
<1> DEFINE s == a \div d
           t == a % d
<1>1. s \in Nat /\ t \in 0..(d - 1) /\ a = s * d + t
  BY Division
<1>2. s * d \in Nat /\ q * d \in Nat
  BY <1>1, ProductNat
<1> HIDE DEF s, t
<1>3. ~(s < q)
  <2> SUFFICES ASSUME s < q PROVE FALSE
    OBVIOUS
  <2>1. s * d + d <= q * d
    BY <1>1, ProductOrder
  <2> QED
    BY <1>1, <1>2, <2>1
<1>4. ~(q < s)
  <2> SUFFICES ASSUME q < s PROVE FALSE
    OBVIOUS
  <2>1. q * d + d <= s * d
    BY <1>1, ProductOrder
  <2> QED
    BY <1>1, <1>2, <2>1
<1>5. s = q
  BY <1>1, <1>3, <1>4
<1>6. t = r
  BY <1>1, <1>2, <1>5
<1> QED
  BY <1>5, <1>6 DEF s, t

LEMMA DivisionOrder ==
    ASSUME NEW a \in Nat, NEW b \in Nat, NEW d \in Nat \ {0}, a <= b
    PROVE  a \div d <= b \div d
<1> DEFINE s == a \div d
           t == b \div d
<1>1. s \in Nat /\ a % d \in 0..(d - 1) /\ a = s * d + (a % d)
  BY Division
<1>2. t \in Nat /\ b % d \in 0..(d - 1) /\ b = t * d + (b % d)
  BY Division
<1> HIDE DEF s, t
<1> SUFFICES ASSUME t < s PROVE FALSE
  BY <1>1, <1>2 DEF s, t
<1>3. t * d + d <= s * d
  BY <1>1, <1>2, ProductOrder
<1>4. s * d \in Nat /\ t * d \in Nat
  BY <1>1, <1>2, ProductNat
<1> QED
  BY <1>1, <1>2, <1>3, <1>4

\* A number and its rest by d, when e is added to it.
LEMMA QuotientOfSum ==
    ASSUME NEW a \in Nat, NEW e \in Nat, NEW d \in Nat \ {0}
    PROVE  /\ (a + e) \div d = a \div d + ((a % d) + e) \div d
           /\ (a + e) % d = ((a % d) + e) % d
<1> DEFINE q == a \div d
           r == a % d
<1>1. q \in Nat /\ r \in 0..(d - 1) /\ a = q * d + r
  BY Division
<1> HIDE DEF q, r
<1> DEFINE s == (r + e) \div d
           t == (r + e) % d
<1>2. s \in Nat /\ t \in 0..(d - 1) /\ r + e = s * d + t
  <2>1. r + e \in Nat
    BY <1>1
  <2> QED
    BY <2>1, Division
<1> HIDE DEF s, t
<1>3. (q + s) * d = q * d + s * d /\ q * d \in Nat /\ s * d \in Nat
  BY <1>1, <1>2
<1>4. a + e = (q + s) * d + t
  BY <1>1, <1>2, <1>3
<1>5. (a + e) \div d = q + s /\ (a + e) % d = t
  BY <1>1, <1>2, <1>4, Quotient
<1> QED
  BY <1>5 DEF q, r, s, t

----------------------------------------------------------------------------
(* The layout of the file.                                                 *)

LEMMA LayoutSizes ==
    /\ FrameBytes \in Nat \ {0} /\ BlockBytes \in Nat \ {0} /\ Align \in Nat \ {0}
    /\ Channels \in Nat \ {0} /\ Frames \in Nat /\ HeaderSize \in Nat /\ MetaSize \in Nat
    /\ GroupBytes \in Nat \ {0} /\ GroupBytes = BlockBytes * Channels
    /\ num_blocks \in Nat /\ metadata_offset = HeaderSize + num_blocks * GroupBytes
    /\ metadata_offset \in Nat /\ HeaderSize <= metadata_offset
    /\ total_size = metadata_offset + MetaSize
    /\ Frames * FrameBytes \in Nat
<1>1. /\ FrameBytes \in Nat \ {0} /\ BlockBytes \in Nat \ {0} /\ Align \in Nat \ {0}
      /\ Channels \in Nat \ {0} /\ Frames \in Nat /\ HeaderSize \in Nat /\ MetaSize \in Nat
  BY LayoutConstants
<1>2. Frames * FrameBytes \in Nat
  BY <1>1, ProductNat
<1>3. GroupBytes \in Nat \ {0}
  BY <1>1 DEF GroupBytes
<1>4. num_blocks \in Nat
  BY <1>1, <1>2, Division DEF num_blocks
<1>5. num_blocks * GroupBytes \in Nat
  BY <1>3, <1>4, ProductNat
<1> QED
  BY <1>1, <1>2, <1>3, <1>4, <1>5
     DEF GroupBytes, metadata_offset, audio_data_size, total_size

\* A column begins a block when the blocks before it are full.
LEMMA WholeQuotient ==
    ASSUME NEW q \in Nat, NEW d \in Nat \ {0}
    PROVE  (q * d) \div d = q /\ (q * d) % d = 0
<1>1. q * d \in Nat /\ q * d = q * d + 0
  BY ProductNat
<1> QED
  BY <1>1, Quotient

\* _calculate_virtual_file_size rounds up to whole blocks.
LEMMA BlockCount ==
    LET T == Frames * FrameBytes IN
    /\ T % BlockBytes = 0 => num_blocks = T \div BlockBytes
    /\ T % BlockBytes # 0 => num_blocks = T \div BlockBytes + 1
    /\ num_blocks * BlockBytes < T + BlockBytes
<1> DEFINE T == Frames * FrameBytes
           B == BlockBytes
           q == T \div B
           r == T % B
<1>1. T \in Nat /\ B \in Nat \ {0}
  BY LayoutSizes
<1> HIDE DEF T, B
<1>2. q \in Nat /\ r \in 0..(B - 1) /\ T = q * B + r
  BY <1>1, Division
<1>3. num_blocks = (T + (B - 1)) \div B
  BY <1>1 DEF num_blocks, T, B
<1> HIDE DEF q, r
<1>4. num_blocks = q + (r + (B - 1)) \div B
  <2>1. B - 1 \in Nat
    BY <1>1
  <2> QED
    BY <1>1, <1>3, <2>1, QuotientOfSum DEF q, r
<1>5. (q + 1) * B = q * B + B
  BY <1>1, <1>2
<1>6. CASE r = 0
  <2>1. B - 1 = 0 * B + (B - 1) /\ B - 1 \in 0..(B - 1) /\ B - 1 \in Nat
    BY <1>1
  <2>2. (B - 1) \div B = 0
    BY <1>1, <2>1, Quotient
  <2>3. r + (B - 1) = B - 1
    BY <1>1, <1>6
  <2>4. num_blocks = q
    BY <1>2, <1>4, <2>2, <2>3
  <2> QED
    BY <1>1, <1>2, <1>6, <2>4 DEF T, B, q, r
<1>7. CASE r # 0
  <2>1. r + (B - 1) = 1 * B + (r - 1) /\ r - 1 \in 0..(B - 1) /\ r + (B - 1) \in Nat
    BY <1>1, <1>2, <1>7
  <2>2. (r + (B - 1)) \div B = 1
    BY <1>1, <2>1, Quotient
  <2>3. num_blocks = q + 1
    BY <1>4, <2>2
  <2> QED
    BY <1>1, <1>2, <1>5, <1>7, <2>3 DEF T, B, q, r
<1> QED
  BY <1>6, <1>7

LEMMA Ends ==
    /\ \A f \in Nat : f * FrameBytes \in Nat /\ BlocksEnd(f) \in Nat /\ HeaderSize <= BlocksEnd(f)
    /\ \A f, g \in Nat : f <= g => BlocksEnd(f) <= BlocksEnd(g)
    /\ BlocksEnd(0) = HeaderSize
    /\ BlocksEnd(Frames) <= metadata_offset
    /\ metadata_offset <= BlocksEnd(Frames) + GroupBytes
    /\ (Frames * FrameBytes) % BlockBytes = 0 => metadata_offset = BlocksEnd(Frames)
    /\ (Frames * FrameBytes) % BlockBytes # 0 => BlocksEnd(Frames) < metadata_offset
<1>1. ASSUME NEW f \in Nat
      PROVE  /\ f * FrameBytes \in Nat /\ (f * FrameBytes) \div BlockBytes \in Nat
             /\ ((f * FrameBytes) \div BlockBytes) * GroupBytes \in Nat
             /\ BlocksEnd(f) \in Nat /\ HeaderSize <= BlocksEnd(f)
  <2>1. f * FrameBytes \in Nat
    BY LayoutSizes, ProductNat
  <2>2. (f * FrameBytes) \div BlockBytes \in Nat
    BY <2>1, LayoutSizes, Division
  <2>3. ((f * FrameBytes) \div BlockBytes) * GroupBytes \in Nat
    BY <2>2, LayoutSizes, ProductNat
  <2> QED
    BY <2>1, <2>2, <2>3, LayoutSizes DEF BlocksEnd
<1>2. ASSUME NEW f \in Nat, NEW g \in Nat, f <= g
      PROVE  BlocksEnd(f) <= BlocksEnd(g)
  <2> DEFINE a == (f * FrameBytes) \div BlockBytes
             b == (g * FrameBytes) \div BlockBytes
  <2>1. f * FrameBytes <= g * FrameBytes
    <3>1. CASE f = g
      BY <3>1, <1>1
    <3>2. CASE f < g
      BY <3>2, <1>1, ProductOrder, LayoutSizes
    <3> QED
      BY <1>2, <3>1, <3>2
  <2>2. a <= b /\ a \in Nat /\ b \in Nat
    BY <1>1, <2>1, DivisionOrder, LayoutSizes
  <2>3. BlocksEnd(f) = HeaderSize + a * GroupBytes /\ BlocksEnd(g) = HeaderSize + b * GroupBytes
    BY DEF BlocksEnd
  <2>4. a * GroupBytes \in Nat /\ b * GroupBytes \in Nat
    BY <1>1
  <2> HIDE DEF a, b
  <2>5. a * GroupBytes <= b * GroupBytes
    <3>1. CASE a = b
      BY <3>1, <2>4
    <3>2. CASE a < b
      BY <3>2, <2>2, <2>4, ProductOrder, LayoutSizes
    <3> QED
      BY <2>2, <3>1, <3>2
  <2> QED
    BY <2>3, <2>4, <2>5, LayoutSizes
<1>3. BlocksEnd(0) = HeaderSize
  <2>1. 0 * FrameBytes = 0 /\ 0 \div BlockBytes = 0 /\ 0 * GroupBytes = 0
    BY LayoutSizes
  <2> QED
    BY <2>1, LayoutSizes DEF BlocksEnd
<1>4. /\ BlocksEnd(Frames) <= metadata_offset
      /\ metadata_offset <= BlocksEnd(Frames) + GroupBytes
      /\ (Frames * FrameBytes) % BlockBytes = 0 => metadata_offset = BlocksEnd(Frames)
      /\ (Frames * FrameBytes) % BlockBytes # 0 => BlocksEnd(Frames) < metadata_offset
  <2> DEFINE q == (Frames * FrameBytes) \div BlockBytes
  <2>1. q \in Nat /\ q * GroupBytes \in Nat /\ BlocksEnd(Frames) = HeaderSize + q * GroupBytes
    BY <1>1, LayoutSizes DEF BlocksEnd
  <2>2. /\ num_blocks = q \/ num_blocks = q + 1
        /\ (Frames * FrameBytes) % BlockBytes = 0 => num_blocks = q
        /\ (Frames * FrameBytes) % BlockBytes # 0 => num_blocks = q + 1
    BY BlockCount
  <2> HIDE DEF q
  <2>3. (q + 1) * GroupBytes = q * GroupBytes + GroupBytes
    BY <2>1, LayoutSizes
  <2> QED
    BY <2>1, <2>2, <2>3, LayoutSizes
<1> QED
  BY <1>1, <1>2, <1>3, <1>4

LEMMA LeftOverIs ==
    ASSUME NEW f \in Nat
    PROVE  /\ LeftOver(f) \in Seq(Nat)
           /\ Len(LeftOver(f)) = (f * FrameBytes) % BlockBytes
           /\ Len(LeftOver(f)) < BlockBytes
           /\ LeftOver(f) = <<>> <=> (f * FrameBytes) % BlockBytes = 0
<1> DEFINE a == f * FrameBytes
           n == a % BlockBytes
           b == (a \div BlockBytes) * BlockBytes
<1>1. a \in Nat /\ n \in 0..(BlockBytes - 1) /\ a \div BlockBytes \in Nat
  BY Ends, LayoutSizes, Division
<1>2. b \in Nat
  BY <1>1, LayoutSizes, ProductNat
<1>3. LeftOver(f) = [i \in 1..n |-> b + i - 1]
  BY DEF LeftOver, Columns
<1> HIDE DEF a, n, b
<1>4. \A i \in 1..n : b + i - 1 \in Nat
  BY <1>1, <1>2
<1>5. LeftOver(f) \in Seq(Nat) /\ Len(LeftOver(f)) = n
  BY <1>1, <1>3, <1>4, LayoutSizes
<1>6. LeftOver(f) = <<>> <=> n = 0
  BY <1>5
<1> QED
  BY <1>1, <1>5, <1>6, LayoutSizes DEF n, a

\* A seek into the audio goes back to a frame at which a block begins, and
\* drops what lies between there and the target.  The frame is in the track,
\* although an aligned frame past the end would be caught.
LEMMA SeekIs ==
    ASSUME NEW p \in Nat, HeaderSize <= p, p < metadata_offset
    PROVE  /\ SeekPoint(p).frame \in 0..Frames
           /\ SeekPoint(p).skip \in 0..output_per_alignment
           /\ LeftOver(SeekPoint(p).frame) = <<>>
           /\ p = BlocksEnd(SeekPoint(p).frame) + SeekPoint(p).skip
<1> DEFINE K == (Align * FrameBytes) \div BlockBytes
           O == output_per_alignment
           ao == p - HeaderSize
           g == ao \div O
           s == ao % O
           T == Frames * FrameBytes
<1>1. /\ Align * FrameBytes \in Nat /\ K \in Nat /\ Align * FrameBytes = K * BlockBytes
      /\ Align * FrameBytes > 0
  <2>1. Align * FrameBytes \in Nat /\ Align * FrameBytes > 0
    BY LayoutSizes
  <2>2. (Align * FrameBytes) % BlockBytes = 0
    BY LayoutConstants
  <2>3. K \in Nat
    BY <2>1, LayoutSizes, Division
  <2>4. Align * FrameBytes = K * BlockBytes + ((Align * FrameBytes) % BlockBytes)
    BY <2>1, LayoutSizes, Division
  <2>5. K * BlockBytes \in Nat
    BY <2>3, LayoutSizes, ProductNat
  <2> HIDE DEF K
  <2> QED
    BY <2>1, <2>2, <2>3, <2>4, <2>5
<1>2. O = K * GroupBytes
  BY DEF output_per_alignment
<1> HIDE DEF K
<1>3. K # 0
  <2> SUFFICES ASSUME K = 0 PROVE FALSE
    OBVIOUS
  <2>1. K * BlockBytes = 0
    BY LayoutSizes
  <2> QED
    BY <1>1, <2>1
<1>4. O \in Nat \ {0}
  BY <1>1, <1>2, <1>3, LayoutSizes
<1> HIDE DEF O
<1>5. ao \in Nat /\ ao < num_blocks * GroupBytes /\ num_blocks * GroupBytes \in Nat
  BY LayoutSizes, ProductNat
<1> HIDE DEF ao
<1>6. g \in Nat /\ s \in 0..(O - 1) /\ ao = g * O + s
  BY <1>4, <1>5, Division
<1> HIDE DEF g, s
<1>7. g * O \in Nat /\ g * K \in Nat /\ g * Align \in Nat /\ T \in Nat
      /\ g * O = (g * K) * GroupBytes
      /\ (g * Align) * FrameBytes = (g * K) * BlockBytes
      /\ (g * K) * BlockBytes \in Nat
  <2>1. g * O \in Nat /\ g * K \in Nat /\ g * Align \in Nat /\ T \in Nat
    BY <1>1, <1>4, <1>6, LayoutSizes, ProductNat
  <2>2. g * O = (g * K) * GroupBytes
    BY <1>1, <1>2, <1>6, LayoutSizes
  <2>3. (g * Align) * FrameBytes = g * (Align * FrameBytes)
    BY <1>6, LayoutSizes
  <2>4. (g * Align) * FrameBytes = (g * K) * BlockBytes
    BY <1>1, <1>6, <2>3, LayoutSizes
  <2>5. (g * K) * BlockBytes \in Nat
    BY <2>1, LayoutSizes, ProductNat
  <2> QED
    BY <2>1, <2>2, <2>4, <2>5
<1>8. g * K < num_blocks
  <2> SUFFICES ASSUME num_blocks <= g * K PROVE FALSE
    BY <1>7, LayoutSizes
  <2>1. num_blocks * GroupBytes <= (g * K) * GroupBytes
    <3>1. CASE num_blocks = g * K
      BY <3>1, <1>5
    <3>2. CASE num_blocks < g * K
      <4>1. num_blocks * GroupBytes + GroupBytes <= (g * K) * GroupBytes
        BY <3>2, <1>7, LayoutSizes, ProductOrder
      <4> QED
        BY <4>1, <1>5, <1>7, LayoutSizes
    <3> QED
      BY <3>1, <3>2, <1>7, LayoutSizes
  <2> QED
    BY <1>4, <1>5, <1>6, <1>7, <2>1
<1>9. g * Align <= Frames
  <2> SUFFICES ASSUME Frames < g * Align PROVE FALSE
    BY <1>7, LayoutSizes
  <2>1. T + FrameBytes <= (g * K) * BlockBytes
    BY <1>7, LayoutSizes, ProductOrder
  <2>2. (g * K) * BlockBytes + BlockBytes <= num_blocks * BlockBytes
    BY <1>7, <1>8, LayoutSizes, ProductOrder
  <2>3. num_blocks * BlockBytes < T + BlockBytes
    BY BlockCount
  <2>4. num_blocks * BlockBytes \in Nat
    BY LayoutSizes, ProductNat
  <2> HIDE DEF T
  <2> QED
    BY <1>7, <2>1, <2>2, <2>3, <2>4, LayoutSizes
<1>10. SeekPoint(p) = [frame |-> g * Align, skip |-> ao - g * O]
  <2>1. SeekPoint(p) = IF (ao \div O) * Align > Frames
                       THEN [frame |-> Frames,
                             skip |-> ao - ((Frames * FrameBytes) \div BlockBytes) * GroupBytes]
                       ELSE [frame |-> (ao \div O) * Align, skip |-> ao - (ao \div O) * O]
    BY LayoutSizes DEF SeekPoint, ao, O
  <2>2. ~((ao \div O) * Align > Frames)
    BY <1>7, <1>9, LayoutSizes DEF g
  <2> QED
    BY <2>1, <2>2 DEF g
<1>11. ao - g * O = s
  BY <1>4, <1>6, <1>7
<1>12. ((g * Align) * FrameBytes) \div BlockBytes = g * K
       /\ ((g * Align) * FrameBytes) % BlockBytes = 0
  <2> DEFINE q == g * K
  <2>1. q \in Nat /\ (g * Align) * FrameBytes = q * BlockBytes
    BY <1>7
  <2> HIDE DEF q
  <2>2. (q * BlockBytes) \div BlockBytes = q /\ (q * BlockBytes) % BlockBytes = 0
    BY <2>1, LayoutSizes, WholeQuotient
  <2> QED
    BY <2>1, <2>2 DEF q
<1>13. LeftOver(g * Align) = <<>>
  BY <1>7, <1>12, LeftOverIs
<1>14. BlocksEnd(g * Align) = HeaderSize + g * O
  BY <1>7, <1>12 DEF BlocksEnd
<1>15. p = HeaderSize + ao
  BY LayoutSizes DEF ao
<1>16. s \in 0..O
  BY <1>4, <1>6
<1> QED
  BY <1>4, <1>6, <1>7, <1>9, <1>10, <1>11, <1>13, <1>14, <1>15, <1>16, LayoutSizes DEF O

\* A byte of a block that is full: group g, channel r \div BlockBytes.
LEMMA AudioByteIs ==
    ASSUME NEW g \in Nat, NEW r \in 0..(GroupBytes - 1),
           (g + 1) * BlockBytes <= Frames * FrameBytes
    PROVE  /\ FileByte(HeaderSize + g * GroupBytes + r)
                  = Sample(r \div BlockBytes, g * BlockBytes + (r % BlockBytes))
           /\ HeaderSize + g * GroupBytes + r < metadata_offset
           /\ r \div BlockBytes \in Nat /\ r % BlockBytes \in 0..(BlockBytes - 1)
<1> DEFINE B == BlockBytes
           G == GroupBytes
           p == HeaderSize + g * G + r
           a == p - HeaderSize
           c == r \div B
           x == r % B
<1>1. g * G \in Nat /\ g * B \in Nat /\ g * Channels \in Nat
      /\ g * G = (g * Channels) * B /\ (g * Channels) * B \in Nat
  <2>1. g * G \in Nat /\ g * B \in Nat /\ g * Channels \in Nat
    BY LayoutSizes, ProductNat
  <2>2. g * G = (g * Channels) * B
    BY LayoutSizes
  <2> QED
    BY <2>1, <2>2
<1>2. p \in Nat /\ a = g * G + r /\ a \in Nat /\ ~(p < HeaderSize)
  BY <1>1, LayoutSizes
<1>3. c \in Nat /\ x \in 0..(B - 1) /\ r = c * B + x /\ c * B \in Nat
  <2>1. r \in Nat /\ B \in Nat \ {0}
    BY LayoutSizes
  <2>2. c \in Nat /\ x \in 0..(B - 1) /\ r = c * B + x
    BY <2>1, Division
  <2> QED
    BY <2>1, <2>2, ProductNat
<1>4. FileByte(p) = LET i == (a \div G) * B + (a % B)
                        ch == (a % G) \div B
                    IN IF p < HeaderSize THEN Header(p)
                       ELSE IF p >= metadata_offset THEN Tag(p - metadata_offset)
                       ELSE IF i < Frames * FrameBytes THEN Sample(ch, i)
                       ELSE Zero
  BY DEF FileByte
<1> HIDE DEF a, c, x, p
<1>5. a \div G = g /\ a % G = r
  BY <1>2, LayoutSizes, Quotient
<1>6. a % B = x
  <2>1. (g * Channels + c) * B = (g * Channels) * B + c * B
    BY <1>1, <1>3, LayoutSizes
  <2>2. a = (g * Channels + c) * B + x /\ g * Channels + c \in Nat
    BY <1>1, <1>2, <1>3, <2>1, LayoutSizes
  <2> DEFINE h == g * Channels + c
  <2>3. h \in Nat /\ a = h * B + x
    BY <2>2
  <2> HIDE DEF h
  <2>4. a \in Nat /\ x \in 0..(B - 1) /\ B \in Nat \ {0}
    BY <1>2, <1>3, LayoutSizes
  <2>5. a \div B = h /\ a % B = x
    BY <2>3, <2>4, Quotient, Zenon
  <2> QED
    BY <2>5
<1>7. g * B + x < Frames * FrameBytes
  <2>1. (g + 1) * B = g * B + B
    BY LayoutSizes
  <2> QED
    BY <1>1, <1>3, <2>1, LayoutSizes
<1>8. p < metadata_offset
  <2> DEFINE q == (Frames * FrameBytes) \div B
  <2>1. g + 1 <= q /\ q \in Nat
    <3>1. (g + 1) * B \in Nat /\ g + 1 \in Nat
      BY LayoutSizes, ProductNat
    <3>2. ((g + 1) * B) \div B <= q
      BY <3>1, LayoutSizes, DivisionOrder
    <3>3. ((g + 1) * B) \div B = g + 1
      BY <3>1, LayoutSizes, WholeQuotient
    <3>4. q \in Nat
      BY LayoutSizes, Division
    <3> QED
      BY <3>2, <3>3, <3>4
  <2> HIDE DEF q
  <2>2. g < num_blocks
    BY <2>1, BlockCount, LayoutSizes DEF q
  <2>3. g * G + G <= num_blocks * G
    BY <2>2, LayoutSizes, ProductOrder
  <2>4. num_blocks * G \in Nat
    BY LayoutSizes, ProductNat
  <2> QED
    BY <1>1, <1>2, <2>3, <2>4, LayoutSizes DEF p
<1>9. FileByte(p) = Sample(c, g * B + x)
  <2>1. ~(p >= metadata_offset)
    BY <1>2, <1>8, LayoutSizes
  <2>2. (a \div G) * B + (a % B) = g * B + x
    BY <1>5, <1>6
  <2>3. (a % G) \div B = c
    BY <1>5 DEF c
  <2> QED
    BY <1>2, <1>4, <1>7, <2>1, <2>2, <2>3
<1> QED
  BY <1>3, <1>8, <1>9 DEF p, c, x

LEMMA Bytes ==
    /\ \A c, i \in Nat : Sample(c, i) \in Byte
    /\ \A i \in Nat : Header(i) \in Byte /\ Tag(i) \in Byte
    /\ Zero \in Byte /\ Silence \in Byte
BY DEF Byte, Sample, Header, Tag, Zero, Silence

\* A function on 1..n is a sequence.
LEMMA SeqOf ==
    ASSUME NEW S, NEW n \in Nat, NEW f, f = [i \in 1..n |-> f[i]], \A i \in 1..n : f[i] \in S
    PROVE  f \in Seq(S) /\ Len(f) = n
OBVIOUS

\* A piece of a sequence.
LEMMA PieceOf ==
    ASSUME NEW S, NEW f \in Seq(S), NEW x \in Nat, NEW n \in Nat, x + n <= Len(f)
    PROVE  /\ SubSeq(f, x + 1, x + n) \in Seq(S)
           /\ Len(SubSeq(f, x + 1, x + n)) = n
           /\ \A i \in 1..n : SubSeq(f, x + 1, x + n)[i] = f[x + i]
<1>1. \A i \in 1..n : x + i \in 1..Len(f)
  OBVIOUS
<1> QED
  BY <1>1

\* The group of a byte of m groups.
LEMMA GroupOf ==
    ASSUME NEW m \in Nat, NEW k \in 1..(m * GroupBytes)
    PROVE  (k - 1) \div GroupBytes \in Nat /\ (k - 1) \div GroupBytes < m
<1> DEFINE G == GroupBytes
           g == (k - 1) \div G
           r == (k - 1) % G
           x == m * G
           y == g * G
<1>1. G \in Nat \ {0} /\ x \in Nat
  BY LayoutSizes, ProductNat
<1>2. k - 1 \in Nat /\ k - 1 < x
  BY <1>1
<1>3. g \in Nat /\ r \in 0..(G - 1) /\ k - 1 = y + r
  BY <1>1, <1>2, Division
<1> HIDE DEF g, r
<1>4. y \in Nat
  BY <1>1, <1>3, ProductNat
<1>5. m = g => x = y
  OBVIOUS
<1>6. m < g => x + G <= y
  BY <1>1, <1>3, ProductOrder
<1> HIDE DEF x, y
<1>7. g < m
  BY <1>1, <1>2, <1>3, <1>4, <1>5, <1>6
<1> QED
  BY <1>3, <1>7 DEF g

\* A block group, full or padded.
LEMMA GroupType ==
    ASSUME NEW c \in Seq(Nat)
    PROVE  BlockGroup(c) \in Seq(Byte) /\ Len(BlockGroup(c)) = GroupBytes
<1> DEFINE f == BlockGroup(c)
<1>1. ASSUME NEW k \in 1..GroupBytes
      PROVE  f[k] \in Byte
  <2> DEFINE i == ((k - 1) % BlockBytes) + 1
  <2>1. k - 1 \in Nat /\ BlockBytes \in Nat \ {0}
    BY LayoutSizes
  <2>2. i \in Nat \ {0} /\ (k - 1) \div BlockBytes \in Nat
    <3> DEFINE z == (k - 1) % BlockBytes
    <3>1. z \in 0..(BlockBytes - 1) /\ (k - 1) \div BlockBytes \in Nat
      BY <2>1, Division
    <3> HIDE DEF z
    <3>2. z + 1 \in Nat \ {0}
      BY <2>1, <3>1
    <3> QED
      BY <3>1, <3>2 DEF z
  <2>3. f[k] = IF i <= Len(c) THEN Sample((k - 1) \div BlockBytes, c[i]) ELSE Zero
    BY DEF BlockGroup
  <2> HIDE DEF i, f
  <2>4. i <= Len(c) => c[i] \in Nat
    BY <2>2
  <2> QED
    BY <2>2, <2>3, <2>4, Bytes
<1>2. f = [k \in 1..GroupBytes |-> f[k]]
  BY DEF BlockGroup
<1> HIDE DEF f
<1>3. f \in Seq(Byte) /\ Len(f) = GroupBytes
  BY <1>1, <1>2, LayoutSizes, SeqOf
<1> QED
  BY <1>3 DEF f

\* Such columns, cut into blocks by _transform_dsd_frame.
LEMMA BlocksOf ==
    ASSUME NEW b \in Nat, NEW n \in Nat, b * BlockBytes + n <= Frames * FrameBytes
    PROVE  /\ Blocks(Columns(b, n)) \in Seq(Byte)
           /\ Len(Blocks(Columns(b, n))) = (n \div BlockBytes) * GroupBytes
           /\ \A k \in 1..Len(Blocks(Columns(b, n))) :
                  Blocks(Columns(b, n))[k] = FileByte(HeaderSize + b * GroupBytes + k - 1)
           /\ Rest(Columns(b, n)) = Columns(b + n \div BlockBytes, n % BlockBytes)
<1> DEFINE B == BlockBytes
           G == GroupBytes
           m == n \div B
           cols == Columns(b, n)
<1>1. /\ B \in Nat \ {0} /\ G \in Nat \ {0} /\ b * B \in Nat /\ b * G \in Nat
      /\ m \in Nat /\ m * B \in Nat /\ m * G \in Nat /\ n = m * B + (n % B) /\ n % B \in 0..(B - 1)
      /\ HeaderSize \in Nat
  <2>1. B \in Nat \ {0} /\ G \in Nat \ {0} /\ b * B \in Nat /\ b * G \in Nat /\ HeaderSize \in Nat
    BY LayoutSizes, ProductNat
  <2>2. m \in Nat /\ n % B \in 0..(B - 1) /\ n = m * B + (n % B)
    BY <2>1, Division
  <2> QED
    BY <2>1, <2>2, ProductNat
<1>2. cols \in Seq(Nat) /\ Len(cols) = n /\ \A j \in 1..n : cols[j] = b * B + j - 1
  <2>1. \A j \in 1..n : b * B + j - 1 \in Nat
    BY <1>1
  <2>2. cols = [j \in 1..n |-> b * B + j - 1]
    BY DEF Columns
  <2> HIDE DEF cols
  <2> QED
    BY <1>1, <2>1, <2>2
<1> HIDE DEF cols
<1>3. Blocks(cols) = [k \in 1..(m * G) |->
                        BlockGroup(SubSeq(cols, ((k - 1) \div G) * B + 1,
                                                ((k - 1) \div G + 1) * B))[((k - 1) % G) + 1]]
  BY <1>2 DEF Blocks
<1> HIDE DEF m
<1>4. ASSUME NEW k \in 1..(m * G)
      PROVE  /\ Blocks(cols)[k] = FileByte(HeaderSize + b * G + k - 1)
             /\ Blocks(cols)[k] \in Byte
  <2> DEFINE g == (k - 1) \div G
             r == (k - 1) % G
             c == SubSeq(cols, g * B + 1, (g + 1) * B)
  <2>1. g \in Nat /\ r \in 0..(G - 1) /\ k - 1 = g * G + r /\ k - 1 \in Nat /\ g * G \in Nat
        /\ g * B \in Nat
    <3>1. k - 1 \in Nat
      BY <1>1
    <3>2. g \in Nat /\ r \in 0..(G - 1) /\ k - 1 = g * G + r
      BY <1>1, <3>1, Division
    <3> QED
      BY <1>1, <3>1, <3>2, ProductNat
  <2>2. Blocks(cols)[k] = BlockGroup(c)[r + 1]
    BY <1>3
  <2> HIDE DEF g, r
  <2>3. g < m
    BY <1>1, GroupOf DEF g
  <2>4. g * B + B <= m * B /\ (g + 1) * B = g * B + B
    BY <1>1, <2>1, <2>3, ProductOrder
  <2>5. g * B + B <= n
    BY <1>1, <2>1, <2>4
  <2>6. Len(c) = B /\ \A i \in 1..B : c[i] = b * B + g * B + i - 1
    <3>1. c = SubSeq(cols, g * B + 1, g * B + B)
      BY <2>4
    <3> HIDE DEF c
    <3> DEFINE x == g * B
               y == b * B
    <3>2. x \in Nat /\ y \in Nat /\ x + B <= Len(cols) /\ B \in Nat
      BY <1>1, <1>2, <2>1, <2>5
    <3>3. c = SubSeq(cols, x + 1, x + B)
      BY <3>1
    <3>4. \A j \in 1..Len(cols) : cols[j] = y + j - 1
      BY <1>2
    <3> HIDE DEF x, y
    <3>5. Len(c) = B /\ \A i \in 1..B : c[i] = cols[x + i]
      <4>1. cols \in Seq(Nat)
        BY <1>2
      <4> QED
        BY ONLY <3>2, <3>3, <4>1, PieceOf, SMTT(40)
    <3>6. \A i \in 1..B : x + i \in 1..Len(cols)
      BY <1>2, <3>2
    <3>7. ASSUME NEW i \in 1..B
          PROVE  c[i] = y + x + i - 1
      <4>1. x + i \in 1..Len(cols) /\ c[i] = cols[x + i]
        BY <3>5, <3>6
      <4>2. cols[x + i] = y + (x + i) - 1
        BY <3>4, <4>1
      <4> QED
        BY <3>2, <4>1, <4>2
    <3> QED
      BY <3>5, <3>7 DEF x, y
  <2> HIDE DEF c
  <2>7. r \div B \in Nat /\ r % B \in 0..(B - 1)
    <3>1. r \in Nat
      BY <1>1, <2>1
    <3> QED
      BY <1>1, <3>1, Division
  <2>8. BlockGroup(c)[r + 1] = IF (r % B) + 1 <= Len(c) THEN Sample(r \div B, c[(r % B) + 1])
                               ELSE Zero
    <3>1. r + 1 \in 1..G /\ (r + 1) - 1 = r
      BY <1>1, <2>1
    <3>2. BlockGroup(c)[r + 1] = IF (((r + 1) - 1) % B) + 1 <= Len(c)
                                 THEN Sample(((r + 1) - 1) \div B, c[(((r + 1) - 1) % B) + 1])
                                 ELSE Zero
      BY <3>1 DEF BlockGroup
    <3> QED
      BY <3>1, <3>2
  <2>9. Blocks(cols)[k] = Sample(r \div B, b * B + g * B + (r % B))
    <3>1. (r % B) + 1 <= Len(c) /\ (r % B) + 1 \in 1..B
      BY <1>1, <2>6, <2>7
    <3>2. c[(r % B) + 1] = b * B + g * B + (r % B)
      BY <1>1, <2>1, <2>6, <2>7, <3>1
    <3> QED
      BY <2>2, <2>8, <3>1, <3>2
  <2>10. /\ b + g \in Nat
         /\ (b + g) * B = b * B + g * B /\ (b + g) * G = b * G + g * G
         /\ ((b + g) + 1) * B = b * B + g * B + B
    BY <1>1, <2>1
  <2>11. ((b + g) + 1) * B <= Frames * FrameBytes
    BY <1>1, <2>1, <2>5, <2>10, LayoutSizes
  <2>12. FileByte(HeaderSize + (b + g) * G + r) = Sample(r \div B, (b + g) * B + (r % B))
    BY <2>1, <2>10, <2>11, AudioByteIs, Zenon
  <2>13. HeaderSize + (b + g) * G + r = HeaderSize + b * G + k - 1
    BY <1>1, <2>1, <2>10
  <2>14. Blocks(cols)[k] = FileByte(HeaderSize + b * G + k - 1)
    BY <2>9, <2>10, <2>12, <2>13
  <2>15. b * B + g * B + (r % B) \in Nat
    BY <1>1, <2>1, <2>7
  <2>16. Blocks(cols)[k] \in Byte
    BY <2>7, <2>9, <2>15, Bytes, Zenon
  <2> QED
    BY <2>14, <2>16
<1>5. Blocks(cols) \in Seq(Byte) /\ Len(Blocks(cols)) = m * G
  <2> DEFINE x == m * G
             f == Blocks(cols)
  <2>1. f = [k \in 1..x |-> f[k]]
    BY <1>3
  <2>2. x \in Nat /\ \A k \in 1..x : f[k] \in Byte
    BY <1>1, <1>4
  <2> HIDE DEF x, f
  <2>3. f \in Seq(Byte) /\ Len(f) = x
    BY <2>1, <2>2, SeqOf
  <2> QED
    BY <2>3 DEF x, f
<1>6. Rest(cols) = [j \in 1..(n % B) |-> (b + m) * B + j - 1]
  <2>1. Rest(cols) = SubSeq(cols, m * B + 1, n)
    BY <1>2 DEF Rest, m
  <2>2. (b + m) * B = b * B + m * B
    BY <1>1
  <2> DEFINE x == n % B
             y == m * B
  <2>3. x \in Nat /\ y \in Nat /\ n = y + x
    BY <1>1
  <2> HIDE DEF x, y
  <2>4. SubSeq(cols, y + 1, y + x) = [j \in 1..x |-> cols[y + j]]
    BY <1>2, <2>3
  <2>5. \A j \in 1..x : cols[y + j] = b * B + y + j - 1
    BY <1>1, <1>2, <2>3
  <2> QED
    BY <2>1, <2>2, <2>3, <2>4, <2>5 DEF x, y
<1> QED
  BY <1>4, <1>5, <1>6 DEF m, cols, Columns

\* The next frame: the blocks that it completes, and what is left of it.
LEMMA FrameRead ==
    ASSUME NEW f \in 0..(Frames - 1)
    PROVE  LET cols == LeftOver(f) \o FrameColumns(f) IN
           /\ Blocks(cols) \in Seq(Byte)
           /\ BlocksEnd(f) + Len(Blocks(cols)) = BlocksEnd(f + 1)
           /\ \A k \in 1..Len(Blocks(cols)) : Blocks(cols)[k] = FileByte(BlocksEnd(f) + k - 1)
           /\ Rest(cols) = LeftOver(f + 1)
<1> DEFINE B == BlockBytes
           F == FrameBytes
           a == f * F
           q == a \div B
           r == a % B
           cols == LeftOver(f) \o FrameColumns(f)
           n == r + F
<1>1. f \in Nat /\ Frames \in Nat /\ B \in Nat \ {0} /\ F \in Nat \ {0} /\ a \in Nat
  BY LayoutSizes, Ends
<1>2. (f + 1) * F = a + F
  BY <1>1
<1> HIDE DEF a
<1>3. q \in Nat /\ r \in 0..(B - 1) /\ a = q * B + r /\ q * B \in Nat /\ q * GroupBytes \in Nat
  <2>1. q \in Nat /\ r \in 0..(B - 1) /\ a = q * B + r
    BY <1>1, Division
  <2> QED
    BY <1>1, <2>1, LayoutSizes, ProductNat
<1>4. LeftOver(f) = [i \in 1..r |-> q * B + i - 1] /\ FrameColumns(f) = [i \in 1..F |-> a + i - 1]
  BY DEF LeftOver, Columns, FrameColumns, a
<1>5. /\ BlocksEnd(f) = HeaderSize + q * GroupBytes
      /\ BlocksEnd(f + 1) = HeaderSize + ((a + F) \div B) * GroupBytes
      /\ LeftOver(f + 1) = Columns((a + F) \div B, (a + F) % B)
  BY <1>2 DEF BlocksEnd, LeftOver, Columns, a
<1>6. (a + F) \div B = q + n \div B /\ (a + F) % B = n % B
  BY <1>1, QuotientOfSum
<1> HIDE DEF q, r
<1>7. cols = Columns(q, n)
  <2>1. \A i \in 1..r : q * B + i - 1 \in Nat
    BY <1>1, <1>3
  <2>2. \A i \in 1..F : a + i - 1 \in Nat
    BY <1>1
  <2>3. LeftOver(f) \in Seq(Nat) /\ Len(LeftOver(f)) = r
        /\ \A i \in 1..r : LeftOver(f)[i] = q * B + i - 1
    BY <1>1, <1>3, <1>4, <2>1
  <2>4. FrameColumns(f) \in Seq(Nat) /\ Len(FrameColumns(f)) = F
        /\ \A i \in 1..F : FrameColumns(f)[i] = a + i - 1
    BY <1>1, <1>4, <2>2
  <2>5. cols \in Seq(Nat) /\ Len(cols) = n
    BY <2>3, <2>4, ConcatProperties
  <2>6. ASSUME NEW j \in 1..n
        PROVE  cols[j] = q * B + j - 1
    <3>1. CASE j <= r
      BY <1>1, <1>3, <2>3, <2>4, <3>1
    <3>2. CASE ~(j <= r)
      <4>1. j - r \in 1..F /\ cols[j] = FrameColumns(f)[j - r]
        BY <1>1, <1>3, <2>3, <2>4, <3>2, SMTT(40)
      <4> QED
        BY <1>1, <1>3, <2>4, <4>1
    <3> QED
      BY <3>1, <3>2
  <2> HIDE DEF cols
  <2>7. cols = [j \in 1..n |-> cols[j]]
    BY <2>5
  <2>8. cols = [j \in 1..n |-> q * B + j - 1]
    BY <2>6, <2>7
  <2> QED
    BY <2>8 DEF Columns
<1>8. n \in Nat /\ q * B + n <= Frames * F
  <2>1. a + F = q * B + n /\ n \in Nat
    BY <1>1, <1>3
  <2>2. a + F <= Frames * F
    <3>1. CASE f + 1 = Frames
      BY <1>2, <3>1, LayoutSizes
    <3>2. CASE f + 1 < Frames
      <4>1. (f + 1) * F + F <= Frames * F
        BY <1>1, <3>2, ProductOrder
      <4>2. Frames * F \in Nat
        BY LayoutSizes
      <4> QED
        BY <1>1, <1>2, <4>1, <4>2
    <3> QED
      BY <1>1, <3>1, <3>2
  <2> QED
    BY <2>1, <2>2
<1> HIDE DEF cols, n
<1>9. /\ Blocks(cols) \in Seq(Byte)
      /\ Len(Blocks(cols)) = (n \div B) * GroupBytes
      /\ \A k \in 1..Len(Blocks(cols)) :
             Blocks(cols)[k] = FileByte(HeaderSize + q * GroupBytes + k - 1)
      /\ Rest(cols) = Columns(q + n \div B, n % B)
  <2>1. q \in Nat /\ n \in Nat /\ q * BlockBytes + n <= Frames * FrameBytes
    BY <1>3, <1>8
  <2> QED
    BY <1>7, <2>1, BlocksOf
<1>10. BlocksEnd(f) + Len(Blocks(cols)) = BlocksEnd(f + 1)
  <2>1. n \div B \in Nat
    BY <1>1, <1>8, Division
  <2>2. (q + n \div B) * GroupBytes = q * GroupBytes + (n \div B) * GroupBytes
    BY <1>3, <2>1, LayoutSizes
  <2>3. (n \div B) * GroupBytes \in Nat
    BY <2>1, LayoutSizes, ProductNat
  <2> QED
    BY <1>3, <1>5, <1>6, <1>9, <2>2, <2>3, LayoutSizes
<1>11. Rest(cols) = LeftOver(f + 1)
  BY <1>5, <1>6, <1>9
<1>12. \A k \in 1..Len(Blocks(cols)) : Blocks(cols)[k] = FileByte(BlocksEnd(f) + k - 1)
  BY <1>5, <1>9
<1> QED
  BY <1>9, <1>10, <1>11, <1>12 DEF cols

\* The frames after which no whole block is missing and no column is left are all.
LEMMA LastFrame ==
    ASSUME NEW f \in 0..Frames, BlocksEnd(f) = BlocksEnd(Frames),
           (Frames * FrameBytes) % BlockBytes = 0
    PROVE  f = Frames
<1> DEFINE B == BlockBytes
           G == GroupBytes
           a == f * FrameBytes
           T == Frames * FrameBytes
           q == a \div B
           w == T \div B
<1>1. a \in Nat /\ T \in Nat /\ B \in Nat \ {0} /\ G \in Nat \ {0} /\ Frames \in Nat /\ f \in Nat
  BY Ends, LayoutSizes
<1>2. BlocksEnd(f) = HeaderSize + q * G /\ BlocksEnd(Frames) = HeaderSize + w * G
  BY DEF BlocksEnd
<1>3. ~(f < Frames) \/ a + FrameBytes <= T
  BY <1>1, ProductOrder, LayoutSizes
<1> HIDE DEF a, T
<1>4. /\ q \in Nat /\ w \in Nat /\ a = q * B + (a % B) /\ a % B \in 0..(B - 1)
      /\ T = w * B + (T % B)
  BY <1>1, Division
<1> HIDE DEF q, w
<1>5. q * G \in Nat /\ w * G \in Nat /\ q * B \in Nat /\ w * B \in Nat
  BY <1>1, <1>4, ProductNat
<1>6. ~(q < w)
  <2> SUFFICES ASSUME q < w PROVE FALSE
    OBVIOUS
  <2>1. q * G + G <= w * G
    BY <1>1, <1>4, ProductOrder
  <2> DEFINE x == q * G
             y == w * G
  <2>2. HeaderSize + x = HeaderSize + y /\ x \in Nat /\ y \in Nat /\ HeaderSize \in Nat
    BY <1>2, <1>5, LayoutSizes
  <2>3. x # y
    <3>1. x + G <= y \/ y + G <= x
      BY <2>1
    <3> HIDE DEF x, y
    <3> QED
      BY <1>1, <2>2, <3>1
  <2> HIDE DEF x, y
  <2> QED
    BY <2>2, <2>3
<1>7. ~(w < q)
  <2> SUFFICES ASSUME w < q PROVE FALSE
    OBVIOUS
  <2>1. w * G + G <= q * G
    BY <1>1, <1>4, ProductOrder
  <2> DEFINE x == q * G
             y == w * G
  <2>2. HeaderSize + x = HeaderSize + y /\ x \in Nat /\ y \in Nat /\ HeaderSize \in Nat
    BY <1>2, <1>5, LayoutSizes
  <2>3. x # y
    <3>1. x + G <= y \/ y + G <= x
      BY <2>1
    <3> HIDE DEF x, y
    <3> QED
      BY <1>1, <2>2, <3>1
  <2> HIDE DEF x, y
  <2> QED
    BY <2>2, <2>3
<1>8. q = w
  BY <1>4, <1>6, <1>7
<1>9. T <= a
  <2>1. T % B = 0
    BY DEF T
  <2> QED
    BY <1>4, <1>5, <1>8, <2>1
<1> QED
  BY <1>1, <1>3, <1>9, LayoutSizes

\* Any columns: the blocks they fill and the rest.
LEMMA BlocksType ==
    ASSUME NEW cols \in Seq(Nat), Len(cols) < BlockBytes + FrameBytes
    PROVE  /\ Blocks(cols) \in Seq(Byte)
           /\ Len(Blocks(cols)) <= (FrameBytes \div BlockBytes + 1) * GroupBytes
           /\ Rest(cols) \in Seq(Nat) /\ Len(Rest(cols)) < BlockBytes
<1> DEFINE B == BlockBytes
           G == GroupBytes
           n == Len(cols)
           m == n \div B
           q == FrameBytes \div B
<1>1. B \in Nat \ {0} /\ G \in Nat \ {0} /\ FrameBytes \in Nat /\ n \in Nat
  BY LayoutSizes
<1>2. /\ m \in Nat /\ m * G \in Nat /\ n % B \in 0..(B - 1) /\ n = m * B + (n % B)
      /\ m * B \in Nat /\ q \in Nat /\ FrameBytes = q * B + (FrameBytes % B)
      /\ FrameBytes % B \in 0..(B - 1)
  <2>1. /\ m \in Nat /\ n % B \in 0..(B - 1) /\ n = m * B + (n % B)
        /\ q \in Nat /\ FrameBytes = q * B + (FrameBytes % B)
        /\ FrameBytes % B \in 0..(B - 1)
    BY <1>1, Division
  <2> QED
    BY <1>1, <2>1, ProductNat
<1>3. /\ Rest(cols) = SubSeq(cols, m * B + 1, n)
      /\ Blocks(cols) = [k \in 1..(m * G) |->
                           BlockGroup(SubSeq(cols, ((k - 1) \div G) * B + 1,
                                                   ((k - 1) \div G + 1) * B))[((k - 1) % G) + 1]]
  BY DEF Rest, Blocks
<1> HIDE DEF m, q, n
<1>4. m <= q + 1
  <2> SUFFICES ASSUME q + 1 < m PROVE FALSE
    BY <1>2
  <2>1. (q + 1) * B + B <= m * B
    BY <1>1, <1>2, ProductOrder
  <2>2. (q + 1) * B = q * B + B /\ q * B \in Nat
    BY <1>1, <1>2
  <2> DEFINE x == q * B
             y == m * B
  <2>3. /\ x + B + B <= y /\ x \in Nat /\ y \in Nat /\ n = y + (n % B) /\ n % B >= 0
        /\ FrameBytes = x + (FrameBytes % B) /\ FrameBytes % B < B
        /\ n % B \in Int /\ FrameBytes % B \in Int
    BY <1>1, <1>2, <2>1, <2>2
  <2>4. n < B + FrameBytes
    BY DEF n
  <2> HIDE DEF x, y
  <2> QED
    BY <1>1, <2>3, <2>4
<1>5. m * G <= (q + 1) * G
  <2>1. CASE m = q + 1
    BY <1>2, <2>1
  <2>2. CASE m < q + 1
    <3>1. m * G + G <= (q + 1) * G
      BY <1>1, <1>2, <2>2, ProductOrder
    <3>2. (q + 1) * G \in Nat
      BY <1>1, <1>2
    <3> QED
      BY <1>1, <1>2, <3>1, <3>2
  <2> QED
    BY <1>2, <1>4, <2>1, <2>2
<1>6. Rest(cols) \in Seq(Nat) /\ Len(Rest(cols)) = n % B
  <2> DEFINE x == m * B
             y == n % B
  <2>1. x \in Nat /\ y \in Nat /\ n = x + y /\ Rest(cols) = SubSeq(cols, x + 1, x + y)
    <3>1. x \in Nat /\ y \in Nat /\ n = x + y /\ Rest(cols) = SubSeq(cols, x + 1, n)
      BY <1>2, <1>3
    <3> HIDE DEF x, y
    <3> QED
      BY <3>1
  <2>2. x + y <= Len(cols)
    BY <1>1, <2>1 DEF n
  <2> HIDE DEF x, y
  <2> QED
    BY <2>1, <2>2, PieceOf, SMTT(40) DEF y
<1>7. ASSUME NEW k \in 1..(m * G)
      PROVE  Blocks(cols)[k] \in Byte
  <2> DEFINE g == (k - 1) \div G
             r == (k - 1) % G
             c == SubSeq(cols, g * B + 1, (g + 1) * B)
  <2>1. k - 1 \in Nat
    BY <1>2
  <2>2. g \in Nat /\ r \in 0..(G - 1)
    BY <1>1, <2>1, Division
  <2>3. Blocks(cols)[k] = BlockGroup(c)[r + 1]
    BY <1>3
  <2> HIDE DEF g, r
  <2>4. g * B \in Nat /\ g * B + B <= n /\ (g + 1) * B = g * B + B
    <3>1. g < m
      BY <1>1, <1>2, GroupOf DEF g
    <3>2. g * B + B <= m * B
      BY <1>1, <1>2, <2>2, <3>1, ProductOrder
    <3>3. g * B \in Nat /\ (g + 1) * B = g * B + B
      BY <1>1, <2>2
    <3> QED
      BY <1>1, <1>2, <3>2, <3>3
  <2>5. c \in Seq(Nat)
    <3> DEFINE x == g * B
    <3>1. x \in Nat /\ x + B <= Len(cols) /\ c = SubSeq(cols, x + 1, x + B) /\ B \in Nat
      BY <1>1, <2>4 DEF n
    <3> HIDE DEF x, c
    <3> QED
      BY <3>1, PieceOf
  <2> HIDE DEF c
  <2>6. r + 1 \in 1..Len(BlockGroup(c)) /\ BlockGroup(c) \in Seq(Byte)
    BY <1>1, <2>2, <2>5, GroupType
  <2> QED
    BY <2>3, <2>6
<1>8. Blocks(cols) \in Seq(Byte) /\ Len(Blocks(cols)) = m * G
  <2> DEFINE x == m * G
             f == Blocks(cols)
  <2>1. f = [k \in 1..x |-> f[k]]
    BY <1>3
  <2>2. x \in Nat /\ \A k \in 1..x : f[k] \in Byte
    BY <1>2, <1>7
  <2> HIDE DEF x, f
  <2>3. f \in Seq(Byte) /\ Len(f) = x
    BY <2>1, <2>2, SeqOf
  <2> QED
    BY <2>3 DEF x, f
<1>9. n % B < B
  BY <1>1, <1>2
<1> QED
  BY <1>5, <1>6, <1>8, <1>9 DEF q

----------------------------------------------------------------------------
(* The states.                                                             *)

LEMMA TypesGive == FileType /\ CallType => TypeOK
BY DEF FileType, CallType, TypeOK, MaxTransformed

LEMMA Bounds ==
    /\ output_per_alignment \in Nat /\ MaxTransformed \in Nat /\ GroupBytes <= MaxTransformed
    /\ <<>> \in Seq(Byte) /\ NoBytes = [at |-> 0, bytes |-> <<>>]
<1>1. output_per_alignment \in Nat
  <2>1. Align * FrameBytes \in Nat
    BY LayoutSizes
  <2>2. (Align * FrameBytes) \div BlockBytes \in Nat
    BY <2>1, LayoutSizes, Division
  <2> QED
    BY <2>2, LayoutSizes, ProductNat DEF output_per_alignment
<1>2. MaxTransformed \in Nat /\ GroupBytes <= MaxTransformed
  <2> DEFINE q == FrameBytes \div BlockBytes
  <2>1. q \in Nat /\ MaxTransformed = (q + 1) * GroupBytes
    BY LayoutSizes, Division DEF MaxTransformed
  <2> HIDE DEF q
  <2>2. (q + 1) * GroupBytes = q * GroupBytes + GroupBytes /\ q * GroupBytes \in Nat
    BY <2>1, LayoutSizes
  <2> QED
    BY <2>1, <2>2, LayoutSizes
<1> QED
  BY <1>1, <1>2 DEF NoBytes

\* The frames fill their blocks exactly.
Whole == (Frames * FrameBytes) % BlockBytes = 0

LEMMA Offsets ==
    /\ HeaderSize \in Nat /\ Frames \in Nat /\ metadata_offset \in Nat /\ total_size \in Nat
    /\ GroupBytes \in Nat \ {0} /\ BlockBytes \in Nat \ {0} /\ FrameBytes \in Nat \ {0}
    /\ BlocksEnd(Frames) \in Nat /\ HeaderSize <= BlocksEnd(Frames)
    /\ BlocksEnd(Frames) <= metadata_offset /\ HeaderSize <= metadata_offset
    /\ metadata_offset <= BlocksEnd(Frames) + GroupBytes
    /\ metadata_offset <= total_size
    /\ Whole => metadata_offset = BlocksEnd(Frames)
    /\ ~Whole => BlocksEnd(Frames) < metadata_offset
    /\ LeftOver(Frames) = <<>> <=> Whole
    /\ \A f \in 0..Frames : BlocksEnd(f) \in Nat /\ HeaderSize <= BlocksEnd(f)
    /\ \A f \in 0..Frames : BlocksEnd(f) <= BlocksEnd(Frames)
    /\ \A p : InWholeBlock(p) <=> p < BlocksEnd(Frames)
<1>1. \A f \in 0..Frames : f \in Nat /\ f <= Frames
  BY LayoutSizes
<1>2. \A p : InWholeBlock(p) <=> p < BlocksEnd(Frames)
  BY DEF InWholeBlock, BlocksEnd
<1>3. /\ HeaderSize \in Nat /\ Frames \in Nat /\ metadata_offset \in Nat /\ MetaSize \in Nat
      /\ GroupBytes \in Nat \ {0} /\ BlockBytes \in Nat \ {0} /\ FrameBytes \in Nat \ {0}
      /\ total_size = metadata_offset + MetaSize /\ HeaderSize <= metadata_offset
  BY LayoutSizes
<1>4. /\ Whole => metadata_offset = BlocksEnd(Frames)
      /\ ~Whole => BlocksEnd(Frames) < metadata_offset
      /\ BlocksEnd(Frames) <= metadata_offset
      /\ metadata_offset <= BlocksEnd(Frames) + GroupBytes
  BY Ends DEF Whole
<1>5. LeftOver(Frames) = <<>> <=> Whole
  BY <1>3, LeftOverIs DEF Whole
<1>6. \A f \in 0..Frames : BlocksEnd(f) \in Nat /\ HeaderSize <= BlocksEnd(f)
                           /\ BlocksEnd(f) <= BlocksEnd(Frames)
  BY <1>1, <1>3, Ends
<1>7. BlocksEnd(Frames) \in Nat /\ HeaderSize <= BlocksEnd(Frames)
  BY <1>3, Ends
<1> QED
  BY <1>2, <1>3, <1>4, <1>5, <1>6, <1>7

LEMMA NothingLeft == LeftOver(0) = <<>> /\ BlocksEnd(0) = HeaderSize
<1>1. (0 * FrameBytes) % BlockBytes = 0
  BY LayoutSizes
<1> QED
  BY <1>1, LeftOverIs, Ends

\* At the end of the header the file is aligned.
LEMMA Begins == FileType /\ Untouched /\ HeaderSize <= file.position => Aligned
<1> SUFFICES ASSUME FileType, Untouched, HeaderSize <= file.position PROVE Aligned
  OBVIOUS
<1>1. file.position = HeaderSize /\ file.current_frame = 0
  BY Offsets DEF FileType, Untouched
<1> QED
  BY <1>1, NothingLeft, Offsets DEF Untouched, Aligned

\* At the tag it is finished.
LEMMA AtTag == FileType /\ Aligned /\ metadata_offset <= file.position => Finished
<1> SUFFICES ASSUME FileType, Aligned, metadata_offset <= file.position PROVE Finished
  OBVIOUS
<1> DEFINE f == file.current_frame
           n == Len(file.transform_buffer)
<1>1. /\ file.position = metadata_offset /\ file.skip = 0 /\ n \in Nat /\ f \in 0..Frames
      /\ metadata_offset + n = BlocksEnd(f) /\ file.channel_buffers = LeftOver(f)
  <2>1. n \in Nat /\ f \in 0..Frames /\ file.position \in Nat /\ file.skip \in Nat
    BY Bounds DEF FileType
  <2>2. /\ file.position = metadata_offset
        /\ file.channel_buffers = LeftOver(f)
        /\ ~(file.skip > 0)
    BY <2>1, Offsets DEF Aligned
  <2>3. file.skip = 0
    BY <2>1, <2>2
  <2>4. BlocksEnd(f) \in Nat
    BY <2>1, Offsets
  <2>5. file.position + n = BlocksEnd(f) + file.skip
    BY DEF Aligned
  <2> QED
    BY <2>1, <2>2, <2>3, <2>4, <2>5
<1>2. n = 0 /\ BlocksEnd(f) = BlocksEnd(Frames) /\ BlocksEnd(Frames) = metadata_offset
  BY <1>1, Offsets
<1>3. Whole
  BY <1>2, Offsets
<1>4. f = Frames
  BY <1>1, <1>2, <1>3, LastFrame DEF Whole
<1>5. LeftOver(Frames) = <<>>
  BY <1>3, Offsets
<1> QED
  BY <1>1, <1>2, <1>4, <1>5, Offsets DEF Finished

LEMMA InitOK == Init => IInv
<1> SUFFICES ASSUME Init PROVE IInv
  OBVIOUS
<1>3. FileType
  BY Bounds, Offsets DEF Init, FileType
<1>4. CallType
  <2>1. rd \in [pc : {"idle", "region", "audio"}, size : Nat, total : Nat, chunk : Nat,
                result : Codes]
    BY DEF Init, NoRead, Codes
  <2>2. out.at \in Nat /\ out.bytes \in Seq(Byte)
    BY Bounds DEF Init
  <2>3. faults \in 0..MaxFaults /\ calls \in 0..MaxCalls
    BY FileConstants DEF Init
  <2>4. lost \in BOOLEAN /\ tag \in TagSizes \union {MetaSize}
    BY Zenon DEF Init
  <2> QED
    BY <2>1, <2>2, <2>3, <2>4, Zenon DEF CallType
<1>5. PositionInv
  BY Offsets DEF Init, PositionInv, Untouched
<1>6. CallInv /\ OutRight /\ NoEmptySuccess
  BY DEF Init, CallInv, OutRight, NoEmptySuccess, NoRead, NoBytes
<1> QED
  BY <1>3, <1>4, <1>5, <1>6 DEF IInv

LEMMA SeekOK == ASSUME IInv, NEW p \in 0..total_size, Seek(p) PROVE IInv'
<1> DEFINE point == SeekPoint(p)
<1>0. p \in Nat
  BY Offsets
<1>1. point.frame \in 0..Frames /\ point.skip \in 0..output_per_alignment
  <2>1. CASE p < HeaderSize
    BY <2>1, Bounds, Offsets DEF SeekPoint
  <2>2. CASE p >= metadata_offset
    <3>1. ~(p < HeaderSize)
      BY <2>2, <1>0, Offsets
    <3>2. point = [frame |-> Frames, skip |-> 0]
      BY <2>2, <3>1 DEF SeekPoint
    <3> QED
      BY <3>2, Bounds, Offsets
  <2>3. CASE HeaderSize <= p /\ p < metadata_offset
    BY <1>0, <2>3, SeekIs
  <2> QED
    BY <1>0, <2>1, <2>2, <2>3, Offsets
<1>2. /\ file' = [position |-> p, current_frame |-> point.frame, channel_buffers |-> <<>>,
                  transform_buffer |-> <<>>, skip |-> point.skip, early_eof |-> FALSE]
      /\ out' = NoBytes /\ rd' = NoRead /\ lost' = FALSE /\ faults' = faults /\ tag' = tag
      /\ calls < MaxCalls /\ calls' = calls + 1
  BY DEF Seek, Call
<1>3. FileType'
  BY <1>0, <1>1, <1>2, Bounds, Offsets DEF FileType
<1>4. CallType'
  <2>1. NoRead \in [pc : {"idle", "region", "audio"}, size : Nat, total : Nat, chunk : Nat,
                    result : Codes]
    BY DEF NoRead, Codes
  <2>2. NoBytes.at \in Nat /\ NoBytes.bytes \in Seq(Byte)
    BY Bounds
  <2>3. faults' \in 0..MaxFaults /\ calls' \in 0..MaxCalls
    BY <1>2, FileConstants DEF IInv, CallType
  <2>4. lost' \in BOOLEAN /\ tag' \in TagSizes \union {MetaSize}
    BY <1>2, Zenon DEF IInv, CallType
  <2>5. rd' = NoRead /\ out'.at = NoBytes.at /\ out'.bytes = NoBytes.bytes
    BY <1>2
  <2> QED
    BY <2>1, <2>2, <2>3, <2>4, <2>5, Zenon DEF CallType
<1>5. PositionInv'
  <2>1. CASE p < HeaderSize
    <3>1. point = [frame |-> 0, skip |-> 0]
      BY <2>1 DEF SeekPoint
    <3> QED
      BY <1>2, <2>1, <3>1, Offsets DEF PositionInv, Untouched
  <2>2. CASE ~(p < HeaderSize) /\ metadata_offset <= p
    <3>1. point = [frame |-> Frames, skip |-> 0]
      BY <2>2, <1>0, Offsets DEF SeekPoint
    <3> QED
      BY <1>0, <1>2, <2>2, <3>1, Offsets DEF PositionInv, Finished
  <2>3. CASE HeaderSize <= p /\ p < metadata_offset
    <3>1. LeftOver(point.frame) = <<>> /\ p = BlocksEnd(point.frame) + point.skip
      BY <1>0, <2>3, SeekIs
    <3> QED
      BY <1>0, <1>1, <1>2, <2>3, <3>1, Offsets DEF PositionInv, Aligned
  <2> QED
    BY <1>0, <2>1, <2>2, <2>3, Offsets
<1>6. CallInv' /\ OutRight' /\ NoEmptySuccess'
  BY <1>2 DEF CallInv, OutRight, NoEmptySuccess, NoRead, NoBytes
<1> QED
  BY <1>3, <1>4, <1>5, <1>6 DEF IInv

LEMMA ReadOK == ASSUME IInv, NEW size \in Sizes, Read(size) PROVE IInv'
<1>1. /\ rd' = [pc |-> "region", size |-> size, total |-> 0, chunk |-> 0, result |-> "OK"]
      /\ out' = NoBytes /\ file' = file /\ lost' = lost /\ faults' = faults
      /\ tag' = tag
      /\ calls < MaxCalls /\ calls' = calls + 1 /\ file.position < total_size
  BY DEF Read, Call
<1>2. FileType' /\ PositionInv'
  BY <1>1 DEF IInv, FileType, PositionInv, Untouched, Aligned, Finished
<1>3. CallType'
  BY <1>1, Bounds, FileConstants DEF IInv, CallType, Codes
<1>4. CallInv' /\ OutRight' /\ NoEmptySuccess'
  BY <1>1 DEF CallInv, OutRight, NoEmptySuccess, NoBytes
<1> QED
  BY <1>2, <1>3, <1>4 DEF IInv

\* A region served by one copy of at least a byte.
LEMMA ServeOK ==
    ASSUME IInv, NEW limit \in Nat, file.position < limit, NEW bytes,
           bytes = [k \in Wanted(limit) |-> bytes[k]],
           \A k \in Wanted(limit) : bytes[k] \in Byte,
           ServeRegion(bytes)
    PROVE  /\ FileType' /\ CallType' /\ CallInv' /\ NoEmptySuccess'
           /\ file' = [file EXCEPT !.position = @ + Len(bytes)]
           /\ out' = [at |-> file.position, bytes |-> bytes] /\ lost' = lost
           /\ DOMAIN bytes = 1..Len(bytes) /\ file.position + Len(bytes) <= limit
           /\ Len(bytes) \in Nat
<1> DEFINE n == Smaller(rd.size, limit - file.position)
<1>1. file.position \in Nat /\ rd.size \in Nat /\ rd.total \in Nat
  BY DEF IInv, FileType, CallType
<1>2. /\ file' = [file EXCEPT !.position = @ + Len(bytes)]
      /\ out' = [at |-> file.position, bytes |-> bytes] /\ lost' = lost
      /\ rd' = [rd EXCEPT !.size = @ - Len(bytes), !.total = @ + Len(bytes)]
      /\ faults' = faults /\ calls' = calls /\ tag' = tag /\ rd.pc = "region" /\ rd.size > 0
  BY DEF ServeRegion, Copy
<1>3. n \in Nat /\ n > 0 /\ n <= rd.size /\ file.position + n <= limit
  BY <1>1, <1>2 DEF Smaller
<1>4. bytes \in Seq(Byte) /\ Len(bytes) = n /\ DOMAIN bytes = 1..n
  <2>1. bytes = [k \in 1..n |-> bytes[k]] /\ \A k \in 1..n : bytes[k] \in Byte
    BY DEF Wanted
  <2> HIDE DEF n
  <2> QED
    BY <1>3, <2>1, SeqOf
<1> HIDE DEF n
<1>5. FileType'
  <2>1. file.position + Len(bytes) \in Nat
    BY <1>1, <1>3, <1>4
  <2> QED
    BY <1>2, <2>1 DEF IInv, FileType
<1>6. CallType'
  <2>1. rd.size - Len(bytes) \in Nat /\ rd.total + Len(bytes) \in Nat
    BY <1>1, <1>3, <1>4
  <2>2. rd' \in [pc : {"idle", "region", "audio"}, size : Nat, total : Nat, chunk : Nat,
                 result : Codes]
    BY <1>2, <2>1 DEF IInv, CallType
  <2> QED
    BY <1>1, <1>2, <1>4, <2>2 DEF IInv, CallType
<1>7. CallInv' /\ NoEmptySuccess'
  BY <1>1, <1>2, <1>3, <1>4 DEF IInv, CallType, CallInv, NoEmptySuccess
<1> QED
  BY <1>2, <1>3, <1>4, <1>5, <1>6, <1>7

LEMMA HeaderOK == ASSUME IInv, read_header_region PROVE IInv'
<1> DEFINE bytes == [k \in Wanted(HeaderSize) |-> Header(file.position + k - 1)]
<1>1. file.position < HeaderSize /\ ServeRegion(bytes) /\ file.position \in Nat
  BY DEF read_header_region, InHeader, IInv, FileType
<1>2. \A k \in Wanted(HeaderSize) : bytes[k] \in Byte
  <2>1. \A k \in Wanted(HeaderSize) : file.position + k - 1 \in Nat
    BY <1>1 DEF Wanted
  <2> QED
    BY <2>1, Bytes
<1>3. bytes = [k \in Wanted(HeaderSize) |-> bytes[k]]
  OBVIOUS
<1>4. \A k \in DOMAIN bytes : bytes[k] = Header(file.position + k - 1)
  OBVIOUS
<1> HIDE DEF bytes
<1>5. /\ FileType' /\ CallType' /\ CallInv' /\ NoEmptySuccess'
      /\ file' = [file EXCEPT !.position = @ + Len(bytes)]
      /\ out' = [at |-> file.position, bytes |-> bytes] /\ lost' = lost
      /\ DOMAIN bytes = 1..Len(bytes) /\ file.position + Len(bytes) <= HeaderSize
      /\ Len(bytes) \in Nat
  BY <1>1, <1>2, <1>3, Offsets, ServeOK
<1>6. file' = [file EXCEPT !.position = file'.position] /\ file'.position = file.position + Len(bytes)
  BY <1>5 DEF IInv, FileType
<1>7. PositionInv'
  <2> SUFFICES ASSUME ~lost, ~file.early_eof PROVE Untouched'
    BY <1>5, <1>6 DEF PositionInv, IInv, FileType
  <2>1. Untouched
    BY <1>1, Offsets DEF IInv, PositionInv, Aligned, Finished
  <2> QED
    BY <1>5, <1>6, <2>1 DEF Untouched, IInv, FileType
<1>8. OutRight'
  <2> SUFFICES ASSUME NEW k \in 1..Len(bytes) PROVE Right(k)'
    BY <1>5 DEF OutRight
  <2>1. file.position + k - 1 < HeaderSize
    BY <1>1, <1>5, Offsets, SMTT(40)
  <2>2. bytes[k] = FileByte(file.position + k - 1)
    BY <1>4, <1>5, <2>1 DEF FileByte
  <2> QED
    BY <1>5, <2>2 DEF Right
<1> QED
  BY <1>5, <1>7, <1>8 DEF IInv

LEMMA GapOK == ASSUME IInv, fill_gap PROVE IInv'
<1> DEFINE bytes == [k \in Wanted(metadata_offset) |-> Silence]
<1>1. /\ HeaderSize <= file.position /\ file.position < metadata_offset /\ file.early_eof
      /\ ServeRegion(bytes) /\ file.position \in Nat
  BY Offsets DEF fill_gap, InAudio, InHeader, IInv, FileType
<1>2. \A k \in Wanted(metadata_offset) : bytes[k] \in Byte
  BY Bytes
<1>3. bytes = [k \in Wanted(metadata_offset) |-> bytes[k]]
  OBVIOUS
<1>4. \A k \in DOMAIN bytes : bytes[k] = Silence
  OBVIOUS
<1> HIDE DEF bytes
<1>5. /\ FileType' /\ CallType' /\ CallInv' /\ NoEmptySuccess'
      /\ file' = [file EXCEPT !.position = @ + Len(bytes)]
      /\ out' = [at |-> file.position, bytes |-> bytes] /\ lost' = lost
      /\ DOMAIN bytes = 1..Len(bytes) /\ file.position + Len(bytes) <= metadata_offset
      /\ Len(bytes) \in Nat
  BY <1>1, <1>2, <1>3, Offsets, ServeOK
<1>6. file'.early_eof
  BY <1>1, <1>5 DEF IInv, FileType
<1>7. PositionInv'
  BY <1>6 DEF PositionInv
<1>8. OutRight'
  <2> SUFFICES ASSUME NEW k \in 1..Len(bytes) PROVE Right(k)'
    BY <1>5 DEF OutRight
  <2>1. HeaderSize <= file.position + k - 1 /\ file.position + k - 1 < metadata_offset
    BY <1>1, <1>5, Offsets, SMTT(40)
  <2> QED
    BY <1>4, <1>5, <1>6, <2>1 DEF Right
<1> QED
  BY <1>5, <1>7, <1>8 DEF IInv

\* Another handle replaces the tag.
LEMMA RetagOK == ASSUME IInv, NEW size \in TagSizes, Retag(size) PROVE IInv'
<1>1. /\ tag' = size /\ rd' = (IF rd.pc = "idle" THEN NoRead ELSE rd)
      /\ out' = NoBytes /\ UNCHANGED <<file, lost, faults, calls>>
  BY DEF Retag
<1>2. rd' = rd \/ rd' = NoRead
  BY <1>1
<1>3. rd' \in [pc : {"idle", "region", "audio"}, size : Nat, total : Nat, chunk : Nat,
               result : Codes]
  <2>1. NoRead \in [pc : {"idle", "region", "audio"}, size : Nat, total : Nat, chunk : Nat,
                    result : Codes]
    BY DEF NoRead, Codes
  <2> QED
    BY <1>2, <2>1, Zenon DEF IInv, CallType
<1>4. CallType'
  BY <1>1, <1>3, Bounds DEF IInv, CallType
<1>5. FileType' /\ PositionInv'
  BY <1>1 DEF IInv, FileType, PositionInv, Untouched, Aligned, Finished
<1>6. CallInv' /\ OutRight' /\ NoEmptySuccess'
  BY <1>1 DEF IInv, CallInv, OutRight, NoEmptySuccess, NoBytes, NoRead
<1> QED
  BY <1>4, <1>5, <1>6 DEF IInv

\* The tag as it is now, up to its end.
LEMMA TagServedOK ==
    ASSUME IInv, metadata_offset <= file.position, file.position < metadata_offset + tag,
           ServeRegion([k \in Wanted(metadata_offset + tag) |->
                            Tag(file.position - metadata_offset + k - 1)])
    PROVE  IInv'
<1> DEFINE limit == metadata_offset + tag
           bytes == [k \in Wanted(limit) |-> Tag(file.position - metadata_offset + k - 1)]
<1>0. tag \in Nat /\ metadata_offset \in Nat
  BY Offsets, FileConstants, LayoutConstants DEF IInv, CallType
<1>1. /\ metadata_offset <= file.position /\ file.position < limit
      /\ ServeRegion(bytes) /\ file.position \in Nat
  BY DEF IInv, FileType
<1>4. limit \in Nat
  BY <1>0
<1> HIDE DEF limit
<1>2. \A k \in Wanted(limit) : bytes[k] \in Byte
  <2>1. \A k \in Wanted(limit) : file.position - metadata_offset + k - 1 \in Nat
    BY <1>0, <1>1, <1>4, SMTT(40) DEF Wanted
  <2> QED
    BY <2>1, Bytes
<1>3. bytes = [k \in Wanted(limit) |-> bytes[k]]
  OBVIOUS
<1> HIDE DEF bytes
<1>5. /\ FileType' /\ CallType' /\ CallInv' /\ NoEmptySuccess'
      /\ file' = [file EXCEPT !.position = @ + Len(bytes)]
      /\ out' = [at |-> file.position, bytes |-> bytes] /\ lost' = lost
      /\ DOMAIN bytes = 1..Len(bytes) /\ file.position + Len(bytes) <= limit
      /\ Len(bytes) \in Nat
  BY <1>1, <1>2, <1>3, <1>4, ServeOK
<1>6. file' = [file EXCEPT !.position = file'.position] /\ file'.position = file.position + Len(bytes)
  BY <1>5 DEF IInv, FileType
<1>7. PositionInv'
  <2> SUFFICES ASSUME ~lost, ~file.early_eof PROVE Finished'
    BY <1>5, <1>6 DEF PositionInv, IInv, FileType
  <2>1. Finished
    BY <1>1, Begins, AtTag, Offsets DEF IInv, PositionInv
  <2>2. file'.position \in Nat /\ file'.position >= file.position
    BY <1>1, <1>5, <1>6
  <2>3. /\ file'.current_frame = file.current_frame /\ file'.channel_buffers = file.channel_buffers
        /\ file'.transform_buffer = file.transform_buffer
        /\ Len(file.transform_buffer) \in Nat
    BY <1>6 DEF IInv, FileType
  <2> QED
    BY <1>1, <2>1, <2>2, <2>3, Offsets, SMTT(40) DEF Finished
<1>8. OutRight'
  <2> SUFFICES ASSUME NEW k \in 1..Len(bytes), InWholeBlock(file.position + k - 1) PROVE FALSE
    BY <1>5 DEF OutRight
  <2> QED
    BY <1>1, <1>5, Offsets, SMTT(40)
<1> QED
  BY <1>5, <1>7, <1>8 DEF IInv

\* A turn that copies nothing and leaves the file as it is.
LEMMA QuietOK ==
    ASSUME IInv, out' = NoBytes, UNCHANGED <<file, tag, lost, faults, calls>>,
           rd' \in [pc : {"idle", "region", "audio"}, size : Nat, total : Nat, chunk : Nat,
                    result : Codes]
    PROVE  FileType' /\ PositionInv' /\ CallType' /\ OutRight'
<1>1. FileType' /\ PositionInv'
  BY DEF IInv, FileType, PositionInv, Untouched, Aligned, Finished
<1>2. CallType'
  BY Bounds DEF IInv, CallType
<1>3. OutRight'
  BY DEF OutRight, NoBytes
<1> QED
  BY <1>1, <1>2, <1>3

LEMMA TagOK == ASSUME IInv, read_metadata_region PROVE IInv'
<1>1. CASE /\ file.position < metadata_offset + tag
           /\ ServeRegion([k \in Wanted(metadata_offset + tag) |->
                              Tag(file.position - metadata_offset + k - 1)])
  BY <1>1, TagServedOK DEF read_metadata_region
<1>2. CASE \/ metadata_offset + tag <= file.position /\ StopAtTag("OK") /\ UNCHANGED faults
           \/ Fault /\ StopAtTag(IF rd.total = 0 THEN "FORMAT" ELSE "OK")
  <2>1. PICK r \in Codes :
          /\ rd' = [rd EXCEPT !.pc = "idle", !.result = r] /\ out' = NoBytes
          /\ UNCHANGED <<file, tag, lost, calls>>
          /\ r = "OK" => rd.total # 0 \/ metadata_offset + tag <= file.position
          /\ faults' = faults \/ (faults < MaxFaults /\ faults' = faults + 1)
    BY <1>2 DEF StopAtTag, Fault, Codes
  <2>2. /\ rd'.pc = "idle" /\ rd'.result = r /\ rd'.total = rd.total /\ rd.total \in Nat
        /\ rd' \in [pc : {"idle", "region", "audio"}, size : Nat, total : Nat, chunk : Nat,
                    result : Codes]
    BY <2>1 DEF IInv, CallType
  <2>3. faults' \in 0..MaxFaults /\ calls' \in 0..MaxCalls
    BY <2>1, FileConstants DEF IInv, CallType
  <2>4. CallType'
    BY <2>1, <2>2, <2>3, Bounds DEF IInv, CallType
  <2>5. FileType' /\ PositionInv'
    BY <2>1 DEF IInv, FileType, PositionInv, Untouched, Aligned, Finished
  <2>6. CallInv' /\ OutRight' /\ NoEmptySuccess'
    BY <2>1, <2>2 DEF CallInv, OutRight, NoEmptySuccess, NoBytes
  <2> QED
    BY <2>4, <2>5, <2>6 DEF IInv
<1> QED
  BY <1>1, <1>2 DEF read_metadata_region

LEMMA EnterOK == ASSUME IInv, EnterAudio PROVE IInv'
<1>1. /\ rd' = [rd EXCEPT !.pc = "audio", !.chunk = 0]
      /\ HeaderSize <= file.position /\ file.position < metadata_offset /\ ~file.early_eof
      /\ out' = NoBytes /\ UNCHANGED <<file, tag, lost, faults, calls>>
  BY Offsets DEF EnterAudio, InAudio, InHeader, IInv, FileType
<1>2. rd' \in [pc : {"idle", "region", "audio"}, size : Nat, total : Nat, chunk : Nat,
               result : Codes]
  BY <1>1 DEF IInv, CallType
<1>3. CallInv' /\ NoEmptySuccess'
  BY <1>1 DEF IInv, CallType, CallInv, NoEmptySuccess
<1> QED
  BY <1>1, <1>2, <1>3, QuietOK DEF IInv

LEMMA DoneOK == ASSUME IInv, ReadDone PROVE IInv'
<1>1. /\ rd' = [rd EXCEPT !.pc = "idle"] /\ rd.pc = "region"
      /\ rd.size = 0 \/ file.position >= total_size
      /\ out' = NoBytes /\ UNCHANGED <<file, tag, lost, faults, calls>>
  BY DEF ReadDone
<1>2. rd' \in [pc : {"idle", "region", "audio"}, size : Nat, total : Nat, chunk : Nat,
               result : Codes]
  BY <1>1 DEF IInv, CallType
<1>3. file.position \in Nat /\ total_size \in Nat
  BY Offsets DEF IInv, FileType
<1>4. CallInv' /\ NoEmptySuccess'
  BY <1>1, <1>3 DEF IInv, CallType, CallInv, NoEmptySuccess
<1> QED
  BY <1>1, <1>2, <1>4, QuietOK DEF IInv

\* Before the tag, a file that is aligned or finished has something left to give.
LEMMA SomethingLeft ==
    ASSUME FileType, PositionInv, ~lost, ~file.early_eof,
           HeaderSize <= file.position, file.position < metadata_offset,
           file.transform_buffer = <<>>, file.current_frame = Frames,
           file.channel_buffers = <<>>
    PROVE  FALSE
<1>1. file.position \in Nat /\ file.skip \in Nat /\ Len(file.transform_buffer) = 0
  BY Bounds DEF FileType
<1>2. ~Finished
  BY <1>1, Offsets DEF Finished
<1>3. Aligned
  BY <1>2, Begins DEF PositionInv
<1>4. LeftOver(Frames) = <<>>
  BY <1>3 DEF Aligned
<1>5. file.position = BlocksEnd(Frames) + file.skip
  BY <1>1, <1>3 DEF Aligned
<1> QED
  BY <1>1, <1>4, <1>5, Offsets

LEMMA AudioDoneOK == ASSUME IInv, AudioDone PROVE IInv'
<1> DEFINE total == rd.total + rd.chunk
           again == IF rd.chunk > 0 THEN TRUE
                    ELSE "OK" = "OK" /\ file.early_eof /\ file.position < metadata_offset
<1>1. /\ rd.pc = "audio"
      /\ rd' = [rd EXCEPT !.pc = IF again THEN "region" ELSE "idle", !.total = total,
                          !.result = IF total = 0 THEN "OK" ELSE "OK"]
      /\ out' = NoBytes /\ UNCHANGED <<file, tag, lost, faults, calls>>
  BY DEF AudioDone, LeaveAudio
<1>2. /\ file.position \in Nat /\ rd.total \in Nat /\ rd.chunk \in Nat
      /\ HeaderSize <= file.position /\ ~file.early_eof
      /\ rd.chunk = 0 => file.position < metadata_offset
  BY <1>1 DEF IInv, FileType, CallType, CallInv
<1>3. total \in Nat /\ (rd.chunk > 0 => total > 0) /\ (again <=> rd.chunk > 0)
  BY <1>2
<1> HIDE DEF total, again
<1>4. /\ rd' \in [pc : {"idle", "region", "audio"}, size : Nat, total : Nat, chunk : Nat,
                  result : Codes]
      /\ rd'.pc = (IF again THEN "region" ELSE "idle") /\ rd'.total = total
      /\ rd'.size = rd.size
  BY <1>1, <1>3 DEF IInv, CallType, Codes
<1>5. CallInv'
  BY <1>2, <1>3, <1>4 DEF CallInv
<1>6. NoEmptySuccess'
  <2> SUFFICES ASSUME ~lost, rd.chunk = 0, rd.size > 0 PROVE FALSE
    BY <1>1, <1>2, <1>3, <1>4 DEF NoEmptySuccess
  <2>1. /\ file.transform_buffer = <<>> /\ file.current_frame >= Frames
        /\ file.channel_buffers = <<>>
    BY <1>2, Offsets DEF AudioDone, IInv, CallType
  <2>2. file.current_frame = Frames
    BY <2>1, Offsets DEF IInv, FileType
  <2> QED
    BY <1>2, <2>1, <2>2, SomethingLeft DEF IInv
<1> QED
  BY <1>1, <1>4, <1>5, <1>6, QuietOK DEF IInv

LEMMA CopyOK == ASSUME IInv, CopyTransformed PROVE IInv'
<1> DEFINE t == file.transform_buffer
           n == Smaller(rd.size, Len(t))
           given == SubSeq(t, 1, n)
           left == SubSeq(t, n + 1, Len(t))
<1>1. /\ file.position \in Nat /\ rd.size \in Nat /\ rd.chunk \in Nat
      /\ t \in Seq(Byte) /\ Len(t) \in Nat /\ Len(t) <= MaxTransformed
  BY DEF IInv, FileType, CallType
<1>2. /\ rd.pc = "audio" /\ rd.size > 0 /\ file.position < metadata_offset /\ t # <<>>
      /\ out' = [at |-> file.position, bytes |-> given]
      /\ file' = [file EXCEPT !.position = @ + n, !.transform_buffer = left]
      /\ rd' = [rd EXCEPT !.size = @ - n, !.chunk = @ + n]
      /\ UNCHANGED <<tag, lost, faults, calls>>
  BY DEF CopyTransformed, Audio, Copy
<1>3. Len(t) > 0
  BY <1>1, <1>2
<1>4. n \in Nat /\ n > 0 /\ n <= rd.size /\ n <= Len(t)
  BY <1>1, <1>2, <1>3 DEF Smaller
<1> HIDE DEF n
<1>5. given \in Seq(Byte) /\ Len(given) = n /\ \A k \in 1..n : given[k] = t[k]
  <2> HIDE DEF t
  <2>1. /\ SubSeq(t, 0 + 1, 0 + n) \in Seq(Byte) /\ Len(SubSeq(t, 0 + 1, 0 + n)) = n
        /\ \A k \in 1..n : SubSeq(t, 0 + 1, 0 + n)[k] = t[0 + k]
    BY <1>1, <1>4, PieceOf
  <2>2. given = SubSeq(t, 0 + 1, 0 + n) /\ \A k \in 1..n : 0 + k = k
    BY <1>4
  <2> QED
    BY <2>1, <2>2
<1>6. /\ left \in Seq(Byte) /\ Len(left) = Len(t) - n
      /\ \A k \in 1..(Len(t) - n) : left[k] = t[n + k]
  <2> HIDE DEF t
  <2> DEFINE m == Len(t) - n
  <2>1. m \in Nat /\ n + m = Len(t)
    BY <1>1, <1>4
  <2> HIDE DEF m
  <2>2. /\ SubSeq(t, n + 1, n + m) \in Seq(Byte) /\ Len(SubSeq(t, n + 1, n + m)) = m
        /\ \A k \in 1..m : SubSeq(t, n + 1, n + m)[k] = t[n + k]
    BY <1>1, <1>4, <2>1, PieceOf, SMTT(40)
  <2> QED
    BY <2>1, <2>2 DEF m
<1> HIDE DEF given, left
<1>7. FileType'
  <2>1. file.position + n \in Nat /\ Len(left) <= MaxTransformed
    BY <1>1, <1>4, <1>6, Bounds
  <2> QED
    BY <1>2, <1>6, <2>1 DEF IInv, FileType
<1>8. CallType'
  <2>1. rd.size - n \in Nat /\ rd.chunk + n \in Nat
    BY <1>1, <1>4
  <2>2. rd' \in [pc : {"idle", "region", "audio"}, size : Nat, total : Nat, chunk : Nat,
                 result : Codes]
    BY <1>2, <2>1 DEF IInv, CallType
  <2> QED
    BY <1>1, <1>2, <1>5, <2>2 DEF IInv, CallType
<1>9. CallInv' /\ NoEmptySuccess'
  <2>1. HeaderSize <= file.position + n /\ rd.chunk + n > 0
    <3>1. HeaderSize <= file.position /\ HeaderSize \in Nat
      BY <1>2, Offsets DEF IInv, CallInv
    <3> QED
      BY <1>1, <1>4, <3>1
  <2>2. /\ file'.position = file.position + n /\ file'.early_eof = file.early_eof
        /\ rd'.pc = "audio" /\ rd'.chunk = rd.chunk + n
    BY <1>2 DEF IInv, FileType, CallType
  <2> QED
    BY <1>2, <2>1, <2>2 DEF IInv, CallInv, NoEmptySuccess
<1>10. ~file.early_eof /\ HeaderSize <= file.position
  BY <1>2 DEF IInv, CallInv
<1>11. ~lost => Aligned \/ Finished
  BY <1>10, Begins DEF IInv, PositionInv
<1>12. /\ file'.position = file.position + n /\ file'.transform_buffer = left
       /\ file'.current_frame = file.current_frame /\ file'.skip = file.skip
       /\ file'.channel_buffers = file.channel_buffers /\ file'.early_eof = file.early_eof
  BY <1>2 DEF IInv, FileType
<1>13. ASSUME Aligned
       PROVE  /\ file.skip = 0 /\ file.position + Len(t) = BlocksEnd(file.current_frame)
              /\ BlocksEnd(file.current_frame) \in Nat
              /\ BlocksEnd(file.current_frame) <= metadata_offset
              /\ \A k \in 1..Len(t) : t[k] = FileByte(file.position + k - 1)
  <2>1. file.skip \in Nat /\ file.current_frame \in 0..Frames
    BY Bounds DEF IInv, FileType
  <2>2. file.skip = 0
    BY <1>2, <1>13, <2>1 DEF Aligned
  <2>3. file.position + Len(t) = BlocksEnd(file.current_frame) + file.skip
        /\ \A k \in 1..Len(t) : t[k] = FileByte(file.position + k - 1)
    BY <1>13 DEF Aligned
  <2> QED
    BY <2>1, <2>2, <2>3, Offsets, SMTT(40)
<1> HIDE DEF t
<1>14. ASSUME Aligned PROVE Aligned'
  <2>1. /\ HeaderSize <= file.position + n /\ file.position + n <= metadata_offset
        /\ file.position + n + Len(left) = BlocksEnd(file.current_frame) + file.skip
    <3> DEFINE e == BlocksEnd(file.current_frame)
    <3>1. e \in Nat /\ e <= metadata_offset /\ file.position + Len(t) = e /\ file.skip = 0
      BY <1>13, <1>14
    <3> HIDE DEF e
    <3>2. Len(left) = Len(t) - n
      BY <1>6
    <3>3. metadata_offset \in Nat /\ HeaderSize \in Nat
      BY Offsets
    <3>4. file.position + n + Len(left) = e
      BY <1>1, <1>4, <3>1, <3>2
    <3>5. HeaderSize <= file.position + n /\ file.position + n <= metadata_offset
      BY <1>1, <1>4, <1>10, <3>1, <3>3
    <3> QED
      BY <3>1, <3>4, <3>5 DEF e
  <2>2. \A k \in 1..Len(left) : left[k] = FileByte(file.position + n + k - 1)
    <3> SUFFICES ASSUME NEW k \in 1..Len(left)
                 PROVE  left[k] = FileByte(file.position + n + k - 1)
      OBVIOUS
    <3>1. k \in 1..(Len(t) - n) /\ n + k \in 1..Len(t)
      BY <1>1, <1>4, <1>6
    <3>2. left[k] = t[n + k] /\ t[n + k] = FileByte(file.position + (n + k) - 1)
      BY <1>6, <1>13, <1>14, <3>1
    <3>3. file.position + (n + k) - 1 = file.position + n + k - 1
      BY <1>1, <1>4, <3>1
    <3> QED
      BY <3>2, <3>3
  <2>3. file.channel_buffers = LeftOver(file.current_frame)
    BY <1>14 DEF Aligned
  <2> QED
    BY <1>12, <1>13, <1>14, <2>1, <2>2, <2>3 DEF Aligned
<1>15. ASSUME Finished PROVE Finished'
  <2>1. /\ BlocksEnd(Frames) <= file.position + n
        /\ metadata_offset <= file.position + n + Len(left)
    <3>1. BlocksEnd(Frames) <= file.position /\ metadata_offset <= file.position + Len(t)
      BY <1>15 DEF Finished, t
    <3>2. Len(left) = Len(t) - n
      BY <1>6
    <3> QED
      BY <1>1, <1>4, <3>1, <3>2, Offsets, SMTT(40)
  <2> QED
    BY <1>12, <1>15, <2>1 DEF Finished
<1>16. PositionInv'
  BY <1>2, <1>11, <1>12, <1>14, <1>15 DEF PositionInv
<1>17. OutRight'
  <2> SUFFICES ASSUME ~lost, NEW k \in 1..n, InWholeBlock(file.position + k - 1)
               PROVE  given[k] = FileByte(file.position + k - 1)
    BY <1>2, <1>5 DEF OutRight, Right
  <2>1. ~Finished
    BY <1>1, <1>4, Offsets DEF Finished
  <2>2. Aligned
    BY <1>11, <2>1
  <2>3. k \in 1..Len(t)
    BY <1>1, <1>4
  <2> QED
    BY <1>5, <1>13, <2>2, <2>3
<1> QED
  BY <1>7, <1>8, <1>9, <1>16, <1>17 DEF IInv

LEMMA FlushOK == ASSUME IInv, flush_block_buffers PROVE IInv'
<1> DEFINE cols == file.channel_buffers
           group == BlockGroup(cols)
<1>1. /\ rd.pc = "audio" /\ file.position < metadata_offset /\ file.transform_buffer = <<>>
      /\ file.current_frame >= Frames /\ cols # <<>>
      /\ file' = [file EXCEPT !.transform_buffer = group, !.channel_buffers = <<>>]
      /\ out' = NoBytes /\ UNCHANGED <<rd, tag, lost, faults, calls>>
  BY DEF flush_block_buffers, Emptied, Audio
<1>2. /\ file.position \in Nat /\ cols \in Seq(Nat) /\ file.skip \in Nat
      /\ ~file.early_eof /\ HeaderSize <= file.position
      /\ file.current_frame = Frames
  BY <1>1, Bounds, Offsets DEF IInv, FileType, CallInv
<1>3. group \in Seq(Byte) /\ Len(group) = GroupBytes
  BY <1>2, GroupType
<1> HIDE DEF group
<1>4. FileType'
  <2>1. <<>> \in Seq(Nat) /\ Len(<<>>) < BlockBytes /\ Len(group) <= MaxTransformed
    BY <1>3, Bounds, Offsets
  <2> QED
    BY <1>1, <1>3, <2>1 DEF IInv, FileType
<1>5. /\ file'.position = file.position /\ file'.transform_buffer = group
      /\ file'.current_frame = Frames /\ file'.channel_buffers = <<>>
      /\ file'.early_eof = file.early_eof
  BY <1>1, <1>2 DEF IInv, FileType
<1>6. CallType' /\ CallInv' /\ NoEmptySuccess' /\ OutRight'
  BY <1>1, <1>5, Bounds DEF IInv, CallType, CallInv, NoEmptySuccess, OutRight, NoBytes
<1>7. PositionInv'
  <2> SUFFICES ASSUME ~lost PROVE Finished'
    BY <1>1 DEF PositionInv
  <2>1. Aligned
    BY <1>1, <1>2, Begins DEF IInv, PositionInv, Finished
  <2>2. file.position + Len(<<>>) = BlocksEnd(Frames) + file.skip
    BY <1>1, <1>2, <2>1 DEF Aligned
  <2>3. BlocksEnd(Frames) <= file.position
    BY <1>2, <2>2, Offsets
  <2>4. metadata_offset <= file.position + Len(group)
    BY <1>2, <1>3, <2>3, Offsets
  <2> QED
    BY <1>5, <2>3, <2>4 DEF Finished
<1> QED
  BY <1>4, <1>6, <1>7 DEF IInv

\* A frame read while something is still to be skipped: what is kept of its
\* blocks, and what is left to skip.
LEMMA SkipIs ==
    ASSUME NEW skip \in Nat, NEW output \in Seq(Byte),
           NEW n, n = (IF skip < Len(output) THEN skip ELSE Len(output))
    PROVE  /\ n \in 0..skip /\ n \in 0..Len(output) /\ (skip - n > 0 => n = Len(output))
           /\ SubSeq(output, n + 1, Len(output)) \in Seq(Byte)
           /\ Len(SubSeq(output, n + 1, Len(output))) = Len(output) - n
           /\ \A k \in 1..(Len(output) - n) :
                  SubSeq(output, n + 1, Len(output))[k] = output[n + k]
<1>1. Len(output) \in Nat
  OBVIOUS
<1>2. n \in 0..skip /\ n \in 0..Len(output) /\ (skip - n > 0 => n = Len(output))
  BY <1>1
<1> DEFINE m == Len(output) - n
<1>3. m \in Nat /\ n \in Nat /\ n + m = Len(output)
  BY <1>1, <1>2
<1> HIDE DEF m
<1>4. /\ SubSeq(output, n + 1, n + m) \in Seq(Byte) /\ Len(SubSeq(output, n + 1, n + m)) = m
      /\ \A k \in 1..m : SubSeq(output, n + 1, n + m)[k] = output[n + k]
  BY <1>3, PieceOf
<1> QED
  BY <1>2, <1>3, <1>4 DEF m

LEMMA ReadFrameOK == ASSUME IInv, ReadFrame PROVE IInv'
<1> DEFINE f == file.current_frame
           cols == file.channel_buffers \o FrameColumns(f)
           output == Blocks(cols)
           n == Smaller(file.skip, Len(output))
           kept == SubSeq(output, n + 1, Len(output))
<1>1. /\ rd.pc = "audio" /\ file.position < metadata_offset /\ file.transform_buffer = <<>>
      /\ f < Frames
      /\ file' = [file EXCEPT !.current_frame = @ + 1, !.channel_buffers = Rest(cols),
                              !.transform_buffer = kept, !.skip = @ - n]
      /\ out' = NoBytes /\ UNCHANGED <<rd, tag, lost, faults, calls>>
  BY DEF ReadFrame, NeedFrame, Emptied, Audio, SkipOutput
<1>2. /\ file.position \in Nat /\ f \in 0..(Frames - 1)
      /\ file.skip \in 0..output_per_alignment /\ file.skip \in Nat
      /\ ~file.early_eof /\ HeaderSize <= file.position
  BY <1>1, Bounds, Offsets DEF IInv, FileType, CallInv
<1>3. cols \in Seq(Nat) /\ Len(cols) < BlockBytes + FrameBytes
  <2>1. FrameColumns(f) \in Seq(Nat) /\ Len(FrameColumns(f)) = FrameBytes
    <3> DEFINE a == f * FrameBytes
               c == FrameColumns(f)
    <3>1. a \in Nat /\ FrameBytes \in Nat
      BY <1>2, Offsets, ProductNat, SMTT(40)
    <3>2. c = [i \in 1..FrameBytes |-> a + i - 1]
      BY DEF FrameColumns
    <3> HIDE DEF a, c
    <3>3. c = [i \in 1..FrameBytes |-> c[i]] /\ \A i \in 1..FrameBytes : c[i] \in Nat
      BY <3>1, <3>2
    <3>4. c \in Seq(Nat) /\ Len(c) = FrameBytes
      BY <3>1, <3>3, SeqOf
    <3> QED
      BY <3>4 DEF c
  <2>2. file.channel_buffers \in Seq(Nat) /\ Len(file.channel_buffers) < BlockBytes
    BY DEF IInv, FileType
  <2>3. /\ Len(file.channel_buffers) \in Nat /\ cols \in Seq(Nat)
        /\ Len(cols) = Len(file.channel_buffers) + Len(FrameColumns(f))
    BY <2>1, <2>2, ConcatProperties, LenProperties
  <2> QED
    BY <2>1, <2>2, <2>3, Offsets
<1>4. /\ output \in Seq(Byte) /\ Len(output) <= MaxTransformed /\ Len(output) \in Nat
      /\ Rest(cols) \in Seq(Nat) /\ Len(Rest(cols)) < BlockBytes
  <2> HIDE DEF cols
  <2>1. /\ output \in Seq(Byte) /\ Len(output) <= MaxTransformed
        /\ Rest(cols) \in Seq(Nat) /\ Len(Rest(cols)) < BlockBytes
    BY <1>3, BlocksType DEF MaxTransformed
  <2> HIDE DEF output
  <2> QED
    BY <2>1
<1> HIDE DEF output
<1>5. /\ n \in 0..file.skip /\ n \in 0..Len(output) /\ (file.skip - n > 0 => n = Len(output))
      /\ kept \in Seq(Byte) /\ Len(kept) = Len(output) - n
      /\ \A k \in 1..(Len(output) - n) : kept[k] = output[n + k]
  BY <1>2, <1>4, SkipIs, SMTT(40) DEF Smaller
<1> HIDE DEF n, kept
<1>6. FileType'
  <2>1. f + 1 \in 0..Frames
    BY <1>2, Offsets, SMTT(40)
  <2>2. file.skip - n \in 0..output_per_alignment
    <3>1. output_per_alignment \in Nat
      BY Bounds
    <3> QED
      BY <1>2, <1>5, <3>1
  <2>3. Len(kept) <= MaxTransformed
    BY <1>4, <1>5, Bounds
  <2> HIDE DEF cols
  <2> QED
    BY <1>1, <1>4, <1>5, <2>1, <2>2, <2>3 DEF IInv, FileType
<1>7. /\ file'.position = file.position /\ file'.transform_buffer = kept
      /\ file'.current_frame = f + 1 /\ file'.channel_buffers = Rest(cols)
      /\ file'.early_eof = file.early_eof /\ file'.skip = file.skip - n
  <2> HIDE DEF cols
  <2> QED
    BY <1>1 DEF IInv, FileType
<1>8. CallType' /\ CallInv' /\ NoEmptySuccess' /\ OutRight'
  BY <1>1, <1>7, Bounds DEF IInv, CallType, CallInv, NoEmptySuccess, OutRight, NoBytes
<1>9. PositionInv'
  <2> SUFFICES ASSUME ~lost PROVE Aligned'
    BY <1>1 DEF PositionInv
  <2>1. Aligned
    BY <1>1, <1>2, Begins, Offsets DEF IInv, PositionInv, Finished
  <2>2. /\ file.channel_buffers = LeftOver(f)
        /\ file.position + Len(<<>>) = BlocksEnd(f) + file.skip
    BY <1>1, <2>1 DEF Aligned
  <2>3. /\ BlocksEnd(f) + Len(output) = BlocksEnd(f + 1)
        /\ \A k \in 1..Len(output) : output[k] = FileByte(BlocksEnd(f) + k - 1)
        /\ Rest(cols) = LeftOver(f + 1)
    BY <1>2, <2>2, FrameRead DEF output
  <2>4. BlocksEnd(f) \in Nat /\ file.position = BlocksEnd(f) + file.skip
    BY <1>2, <2>2, Offsets
  <2>5. file.position + Len(kept) = BlocksEnd(f + 1) + (file.skip - n)
    BY <1>2, <1>4, <1>5, <2>3, <2>4
  <2>6. file.skip - n > 0 => kept = <<>>
    BY <1>4, <1>5
  <2>7. \A k \in 1..Len(kept) : kept[k] = FileByte(file.position + k - 1)
    <3> SUFFICES ASSUME NEW k \in 1..Len(kept)
                 PROVE  kept[k] = FileByte(file.position + k - 1)
      OBVIOUS
    <3>1. k \in 1..(Len(output) - n) /\ n + k \in 1..Len(output)
      BY <1>4, <1>5
    <3>2. kept[k] = output[n + k] /\ output[n + k] = FileByte(BlocksEnd(f) + (n + k) - 1)
      BY <1>5, <2>3, <3>1
    <3>3. n = file.skip
      BY <1>2, <1>4, <1>5, <3>1
    <3>4. BlocksEnd(f) + (n + k) - 1 = file.position + k - 1
      BY <1>2, <2>4, <3>1, <3>3, SMTT(40)
    <3> QED
      BY <3>2, <3>4
  <2>8. HeaderSize <= file.position /\ file.position <= metadata_offset
    BY <1>1, <1>2, Offsets
  <2> QED
    BY <1>1, <1>7, <2>3, <2>5, <2>6, <2>7, <2>8 DEF Aligned
<1> QED
  BY <1>6, <1>8, <1>9 DEF IInv

LEMMA ReadFailsOK == ASSUME IInv, ReadFails PROVE IInv'
<1> DEFINE total == rd.total + rd.chunk
           again == IF rd.chunk > 0 THEN TRUE
                    ELSE "OK" = "OK" /\ file'.early_eof /\ file'.position < metadata_offset
<1>1. /\ rd.pc = "audio" /\ file.position < metadata_offset
      /\ file' = [file EXCEPT !.early_eof = TRUE]
      /\ rd' = [rd EXCEPT !.pc = IF again THEN "region" ELSE "idle", !.total = total,
                          !.result = IF total = 0 THEN "OK" ELSE "OK"]
      /\ out' = NoBytes /\ UNCHANGED <<tag, lost, calls>>
      /\ faults < MaxFaults /\ faults' = faults + 1
  BY DEF ReadFails, NeedFrame, Emptied, Audio, Fault, LeaveAudio
<1>2. /\ file.position \in Nat /\ rd.total \in Nat /\ rd.chunk \in Nat
      /\ file'.position = file.position /\ file'.early_eof
  BY <1>1 DEF IInv, FileType, CallType
<1>3. total \in Nat /\ again
  BY <1>1, <1>2
<1> HIDE DEF total, again
<1>4. FileType' /\ PositionInv'
  BY <1>1, <1>2 DEF IInv, FileType, PositionInv
<1>5. /\ rd' \in [pc : {"idle", "region", "audio"}, size : Nat, total : Nat, chunk : Nat,
                  result : Codes]
      /\ rd'.pc = "region"
  BY <1>1, <1>3 DEF IInv, CallType, Codes
<1>6. CallType'
  BY <1>1, <1>5, Bounds, FileConstants, SMTT(40) DEF IInv, CallType
<1>7. CallInv' /\ OutRight' /\ NoEmptySuccess'
  BY <1>1, <1>2, <1>5, Offsets, SMTT(40) DEF CallInv, OutRight, NoEmptySuccess, NoBytes
<1> QED
  BY <1>4, <1>6, <1>7 DEF IInv

LEMMA DecodeFailsOK == ASSUME IInv, DecodeFails PROVE IInv'
<1> DEFINE total == rd.total + rd.chunk
           again == IF rd.chunk > 0 THEN TRUE
                    ELSE "DST_DECODE" = "OK" /\ file'.early_eof /\ file'.position < metadata_offset
<1>1. /\ rd.pc = "audio" /\ file.current_frame < Frames
      /\ file' = [file EXCEPT !.current_frame = @ + 1]
      /\ rd' = [rd EXCEPT !.pc = IF again THEN "region" ELSE "idle", !.total = total,
                          !.result = IF total = 0 THEN "DST_DECODE" ELSE "OK"]
      /\ out' = NoBytes /\ lost' = TRUE /\ UNCHANGED <<tag, calls>>
      /\ faults < MaxFaults /\ faults' = faults + 1
  BY DEF DecodeFails, NeedFrame, Emptied, Audio, Fault, LeaveAudio
<1>2. rd.total \in Nat /\ rd.chunk \in Nat
  BY DEF IInv, CallType
<1>3. total \in Nat /\ (again <=> rd.chunk > 0) /\ (rd.chunk > 0 => total > 0)
  BY <1>2
<1> HIDE DEF total, again
<1>4. FileType'
  <2>1. file.current_frame + 1 \in 0..Frames
    BY <1>1, Offsets, SMTT(40) DEF IInv, FileType
  <2> QED
    BY <1>1, <2>1 DEF IInv, FileType
<1>5. /\ rd' \in [pc : {"idle", "region", "audio"}, size : Nat, total : Nat, chunk : Nat,
                  result : Codes]
      /\ rd'.pc = (IF again THEN "region" ELSE "idle") /\ rd'.total = total
  BY <1>1, <1>3 DEF IInv, CallType, Codes
<1>6. CallType'
  <2>1. faults' \in 0..MaxFaults /\ calls' \in 0..MaxCalls
    BY <1>1, FileConstants DEF IInv, CallType
  <2>2. lost' \in BOOLEAN /\ tag' \in TagSizes \union {MetaSize}
    BY <1>1, Zenon DEF IInv, CallType
  <2>3. out'.at \in Nat /\ out'.bytes \in Seq(Byte)
    BY <1>1, Bounds
  <2> QED
    BY <1>5, <2>1, <2>2, <2>3, Zenon DEF CallType
<1>7. PositionInv' /\ OutRight' /\ NoEmptySuccess'
  BY <1>1 DEF PositionInv, OutRight, NoEmptySuccess
<1>8. CallInv'
  BY <1>3, <1>5 DEF CallInv
<1> QED
  BY <1>4, <1>6, <1>7, <1>8 DEF IInv

LEMMA NextOK == IInv /\ [Next]_vars => IInv'
<1> SUFFICES ASSUME IInv, [Next]_vars PROVE IInv'
  OBVIOUS
<1>1. CASE UNCHANGED vars
  BY <1>1 DEF vars, IInv, FileType, CallType, PositionInv, Untouched, Aligned, Finished,
              CallInv, OutRight, Right, NoEmptySuccess
<1>2. ASSUME NEW p \in 0..total_size, Seek(p) PROVE IInv'
  BY <1>2, SeekOK
<1>3. ASSUME NEW size \in Sizes, Read(size) PROVE IInv'
  BY <1>3, ReadOK
<1>5. ASSUME NEW size \in TagSizes, Retag(size) PROVE IInv'
  BY <1>5, RetagOK
<1>4. CASE Turn
  BY <1>4, HeaderOK, GapOK, TagOK, EnterOK, DoneOK, CopyOK, AudioDoneOK, FlushOK,
     ReadFrameOK, ReadFailsOK, DecodeFailsOK DEF Turn
<1> QED
  BY <1>1, <1>2, <1>3, <1>4, <1>5 DEF Next

THEOREM Invariance == Spec => []IInv
BY InitOK, NextOK, PTL DEF Spec

\* WholeBlocksRight (VfsFile): in every file and for every sequence of seeks and
\* reads, with frames that may fail to be read or decoded, the bytes that
\* sacd_vfs_file_read copies from the header and from the blocks that whole frames
\* fill are the bytes of the DSF file at their position.
THEOREM BlocksRight == Spec => []WholeBlocksRight
<1>1. IInv => WholeBlocksRight
  BY TypesGive DEF IInv, OutRight, WholeBlocksRight
<1> QED
  BY <1>1, Invariance, PTL

\* NoEmptySuccess (VfsFile): a read that starts inside the file and has lost no
\* frame does not return OK with no bytes, unless it is behind the end of a tag that
\* another handle has replaced by a shorter one.
THEOREM ReadsSomething == Spec => []NoEmptySuccess
<1>1. IInv => NoEmptySuccess
  BY DEF IInv
<1> QED
  BY <1>1, Invariance, PTL

-----------------------------------------------------------------------------
(***************************************************************************)
(* VfsReader                                                               *)
(***************************************************************************)
(* The inductive invariant of the reader thread, its queue and its user.   *)

\* The command tells where the user is, and a reset happens during a seek.
CommandInv ==
    /\ user.pc \in {"idle", "next", "silence", "post"} => command = "NONE"
    /\ user.pc \in {"wake", "wait"} => command \in {"SEEK", "SEEK_DONE"}
    /\ user.pc \in {"shut", "join", "closed"} => command = "CLOSE"
    /\ reader.pc \in {"reset", "flush", "done"} => command = "SEEK"
    /\ reader.pc = "exited" => command = "CLOSE"
    /\ reader.pc = "done" => jobs = <<>>
    /\ shutdown => command = "CLOSE"

\* A seek has thrown away what was taken before, and the end with it.
SeekInv == user.pc \in {"post", "wake", "wait"} => taken = <<>> /\ ~early_eof

\* Between the test of the loop and the increment the frame is one of the
\* track, or the end that a seek has just stored.
BoundInv == reader.pc \in {"check", "read", "dispatch", "load"} => current_frame <= TrackFrames

\* The reader works on what the user is going to take: not from the moment a
\* seek stores its target until the reader has answered it, not after the end
\* of the audio, and not once the file is being closed.
Synced == /\ command \in {"NONE", "SEEK_DONE"}
          /\ user.pc # "post"
          /\ ~early_eof

\* The frame that follows those taken and those in the queue.
Following == mt_seek_frame + Len(taken) + Len(jobs)

\* The i-th job is the i-th frame after those taken, or the sentinel at the end.
InPlace(i) ==
    \/ /\ jobs[i].frame # Eof
       /\ jobs[i].frame = mt_seek_frame + Len(taken) + i - 1
    \/ /\ jobs[i].frame = Eof
       /\ i = Len(jobs) /\ reader.pc = "wait"
       /\ failures = 0 => Following > TrackFrames

\* The queue holds the frames after those taken, and at most one sentinel, at
\* its end; the reader goes on with the frame after them.
QueueInv ==
    /\ \A i \in DOMAIN jobs : InPlace(i)
    /\ \A i \in DOMAIN jobs : jobs[i].err => failures > 0
    /\ reader.pc \in {"loop", "check", "read"} => current_frame = Following
    /\ reader.pc = "dispatch" => reader.frame = Following /\ current_frame = Following
    /\ reader.pc = "load" => current_frame + 1 = Following
    /\ reader.pc = "store" => reader.reg + 1 = Following
    /\ reader.pc = "eof" /\ failures = 0 => Following >= TrackFrames

TakenInv == \A i \in DOMAIN taken : taken[i] = mt_seek_frame + i - 1

ReaderInv ==
    /\ ReaderTypeOK /\ CommandInv /\ SeekInv /\ BoundInv /\ TakenInv
    /\ Synced => QueueInv
    /\ EndsAfterLastFrame

----------------------------------------------------------------------------

(* Sequences.                                                              *)

\* What Append does.
LEMMA AppendFacts ==
    ASSUME NEW S, NEW s \in Seq(S), NEW e \in S
    PROVE  /\ Append(s, e) \in Seq(S)
           /\ Len(Append(s, e)) = Len(s) + 1
           /\ DOMAIN Append(s, e) = 1..(Len(s) + 1) /\ DOMAIN s = 1..Len(s)
           /\ \A i \in 1..Len(s) : Append(s, e)[i] = s[i]
           /\ Append(s, e)[Len(s) + 1] = e
           /\ Len(s) \in Nat
OBVIOUS

\* What Head and Tail return.
LEMMA TailFacts ==
    ASSUME NEW S, NEW s \in Seq(S), s # <<>>
    PROVE  /\ Head(s) = s[1] /\ Head(s) \in S
           /\ DOMAIN s = 1..Len(s) /\ Len(s) \in Nat /\ Len(s) > 0 /\ 1 \in DOMAIN s
           /\ Tail(s) \in Seq(S) /\ Len(Tail(s)) = Len(s) - 1
           /\ DOMAIN Tail(s) = 1..(Len(s) - 1)
           /\ \A i \in DOMAIN Tail(s) : Tail(s)[i] = s[i + 1] /\ i + 1 \in DOMAIN s
OBVIOUS

\* The test of the loop leads past the end of the track only at its end.
LEMMA RLoopOK == ReaderInv /\ RLoop => ReaderInv'
<1> SUFFICES ASSUME ReaderInv, RLoop PROVE ReaderInv'
  OBVIOUS
<1> USE ReaderConstants DEF RLoop, At, RGoto, UGoto, Failure, queue, served, consumer, counted
<1>1. ReaderTypeOK'
  BY ZenonT(60) DEF ReaderInv, ReaderTypeOK, Eof, Job, BoundInv, NewJob, Dropped
<1>2. CommandInv' /\ SeekInv' /\ BoundInv'
  BY DEF ReaderInv, ReaderTypeOK, CommandInv, SeekInv, BoundInv
<1>3. TakenInv' /\ EndsAfterLastFrame'
  BY DEF ReaderInv, ReaderTypeOK, TakenInv, SeekInv, EndsAfterLastFrame, CommandInv, Synced, QueueInv, Following
<1>4. (Synced => QueueInv)'
  BY DEF ReaderInv, ReaderTypeOK, Synced, QueueInv, InPlace, Following, CommandInv, SeekInv, BoundInv, Eof, NewJob
<1> QED
  BY <1>1, <1>2, <1>3, <1>4 DEF ReaderInv

\* The reader looks at the command before it reads.
LEMMA RCheckOK == ReaderInv /\ RCheck => ReaderInv'
<1> SUFFICES ASSUME ReaderInv, RCheck PROVE ReaderInv'
  OBVIOUS
<1> USE ReaderConstants DEF RCheck, At, RGoto, UGoto, Failure, queue, served, consumer, counted
<1>1. ReaderTypeOK'
  BY DEF ReaderInv, ReaderTypeOK, Eof, Job, BoundInv, NewJob, Dropped
<1>2. CommandInv' /\ SeekInv' /\ BoundInv'
  BY DEF ReaderInv, ReaderTypeOK, CommandInv, SeekInv, BoundInv
<1>3. TakenInv' /\ EndsAfterLastFrame'
  BY DEF ReaderInv, ReaderTypeOK, TakenInv, SeekInv, EndsAfterLastFrame, CommandInv, Synced, QueueInv, Following
<1>4. (Synced => QueueInv)'
  BY DEF ReaderInv, ReaderTypeOK, Synced, QueueInv, InPlace, Following, CommandInv, SeekInv, BoundInv, Eof, NewJob
<1> QED
  BY <1>1, <1>2, <1>3, <1>4 DEF ReaderInv

\* The frame that is read is the one that follows.
LEMMA RReadOK == ReaderInv /\ RRead => ReaderInv'
<1> SUFFICES ASSUME ReaderInv, RRead PROVE ReaderInv'
  OBVIOUS
<1> USE ReaderConstants DEF RRead, At, RGoto, UGoto, Failure, queue, served, consumer, counted
<1>1. ReaderTypeOK'
  <2>1. current_frame \in 0..TrackFrames
    BY DEF ReaderInv, ReaderTypeOK, BoundInv
  <2> QED
    BY <2>1 DEF ReaderInv, ReaderTypeOK
<1>2. CommandInv' /\ SeekInv' /\ BoundInv'
  BY DEF ReaderInv, ReaderTypeOK, CommandInv, SeekInv, BoundInv
<1>3. TakenInv' /\ EndsAfterLastFrame'
  BY DEF ReaderInv, ReaderTypeOK, TakenInv, SeekInv, EndsAfterLastFrame, CommandInv, Synced, QueueInv, Following
<1>4. (Synced => QueueInv)'
  BY DEF ReaderInv, ReaderTypeOK, Synced, QueueInv, InPlace, Following, CommandInv, SeekInv, BoundInv, Eof, NewJob
<1> QED
  BY <1>1, <1>2, <1>3, <1>4 DEF ReaderInv

\* A frame that cannot be read ends the audio, with a fault.
LEMMA RReadFailsOK == ReaderInv /\ RReadFails => ReaderInv'
<1> SUFFICES ASSUME ReaderInv, RReadFails PROVE ReaderInv'
  OBVIOUS
<1> USE ReaderConstants DEF RReadFails, At, RGoto, UGoto, Failure, queue, served, consumer, counted
<1>1. ReaderTypeOK'
  <2>1. failures' \in 0..MaxFailures /\ failures' > 0
    BY SMTT(40) DEF ReaderInv, ReaderTypeOK
  <2> QED
    BY <2>1 DEF ReaderInv, ReaderTypeOK
<1>2. CommandInv' /\ SeekInv' /\ BoundInv'
  BY DEF ReaderInv, ReaderTypeOK, CommandInv, SeekInv, BoundInv
<1>3. TakenInv' /\ EndsAfterLastFrame'
  BY DEF ReaderInv, ReaderTypeOK, TakenInv, SeekInv, EndsAfterLastFrame, CommandInv, Synced, QueueInv, Following
<1>4. (Synced => QueueInv)'
  <2>1. failures' > 0
    BY DEF ReaderInv, ReaderTypeOK
  <2> QED
    BY <2>1 DEF ReaderInv, ReaderTypeOK, Synced, QueueInv, InPlace, Following, Eof
<1> QED
  BY <1>1, <1>2, <1>3, <1>4 DEF ReaderInv

\* The frame that was read goes to the end of the queue.
LEMMA RDispatchOK == ReaderInv /\ RDispatch => ReaderInv'
<1> SUFFICES ASSUME ReaderInv, RDispatch PROVE ReaderInv'
  OBVIOUS
<1> USE ReaderConstants DEF RDispatch, At, RGoto, UGoto, Failure, queue, served, consumer, counted
<1>1. ReaderTypeOK'
  <2>1. NewJob(reader.frame) \in Job /\ jobs \in Seq(Job)
    BY DEF ReaderInv, ReaderTypeOK, NewJob, Job
  <2>2. jobs' \in Seq(Job)
    BY <2>1, AppendFacts
  <2> QED
    BY <2>2 DEF ReaderInv, ReaderTypeOK
<1>2. CommandInv' /\ SeekInv' /\ BoundInv'
  BY DEF ReaderInv, ReaderTypeOK, CommandInv, SeekInv, BoundInv
<1>3. TakenInv' /\ EndsAfterLastFrame'
  BY DEF ReaderInv, ReaderTypeOK, TakenInv, SeekInv, EndsAfterLastFrame, CommandInv, Synced, QueueInv, Following
<1>4. (Synced => QueueInv)'
  <2> SUFFICES ASSUME Synced'
               PROVE  QueueInv'
    OBVIOUS
  <2> DEFINE j == NewJob(reader.frame)
  <2>1. Synced /\ QueueInv
    BY DEF ReaderInv, Synced
  <2>2. /\ jobs \in Seq(Job) /\ Len(jobs') = Len(jobs) + 1
        /\ DOMAIN jobs' = 1..(Len(jobs) + 1) /\ DOMAIN jobs = 1..Len(jobs)
        /\ \A i \in 1..Len(jobs) : jobs'[i] = jobs[i]
        /\ jobs'[Len(jobs) + 1] = j /\ Len(jobs) \in Nat
    BY <1>1, AppendFacts DEF ReaderInv, ReaderTypeOK
  <2>3. j.frame = reader.frame /\ j.err = FALSE
    BY DEF NewJob
  <2>4. \A i \in 1..Len(jobs) : jobs[i].frame # Eof
    BY <2>1, <2>2 DEF QueueInv, InPlace
  <2> HIDE DEF j
  <2>5. reader.frame # Eof /\ reader.frame = Following /\ current_frame = Following
    BY <2>1 DEF ReaderInv, ReaderTypeOK, Eof, QueueInv
  <2>6. Following' = Following + 1
    BY <2>2, SMTT(40) DEF Following, ReaderInv, ReaderTypeOK
  <2> QED
    <3>1. mt_seek_frame \in Nat /\ Len(taken) \in Nat /\ taken' = taken /\ mt_seek_frame' = mt_seek_frame
      BY DEF ReaderInv, ReaderTypeOK
    <3>2. ASSUME NEW i \in 1..(Len(jobs) + 1)
          PROVE  InPlace(i)' /\ (jobs'[i].err => failures' > 0)
      <4>1. CASE i = Len(jobs) + 1
        BY <4>1, <3>1, <2>2, <2>3, <2>5, <2>6 DEF InPlace, Following
      <4>2. CASE i \in 1..Len(jobs)
        <5>1. jobs[i].frame # Eof /\ jobs[i].frame = mt_seek_frame + Len(taken) + i - 1
          BY <4>2, <2>1, <2>2, <2>4 DEF QueueInv, InPlace
        <5>2. jobs'[i] = jobs[i] /\ (jobs[i].err => failures > 0)
          BY <4>2, <2>1, <2>2 DEF QueueInv
        <5> QED
          BY <5>1, <5>2, <3>1 DEF InPlace
      <4> QED
        BY <4>1, <4>2, <2>2
    <3>3. reader'.pc = "load"
      BY DEF ReaderInv, ReaderTypeOK
    <3> QED
      BY <3>2, <3>3, <2>2, <2>5, <2>6 DEF QueueInv
<1> QED
  BY <1>1, <1>2, <1>3, <1>4 DEF ReaderInv

\* A dispatch fails only when the file is being closed.
LEMMA RDispatchFailsOK == ReaderInv /\ RDispatchFails => ReaderInv'
<1> SUFFICES ASSUME ReaderInv, RDispatchFails PROVE ReaderInv'
  OBVIOUS
<1> USE ReaderConstants DEF RDispatchFails, At, RGoto, UGoto, Failure, queue, served, consumer, counted
<1>1. ReaderTypeOK'
  BY DEF ReaderInv, ReaderTypeOK, Eof, Job, BoundInv, NewJob, Dropped
<1>2. CommandInv' /\ SeekInv' /\ BoundInv'
  BY DEF ReaderInv, ReaderTypeOK, CommandInv, SeekInv, BoundInv
<1>3. TakenInv' /\ EndsAfterLastFrame'
  BY DEF ReaderInv, ReaderTypeOK, TakenInv, SeekInv, EndsAfterLastFrame, CommandInv, Synced, QueueInv, Following
<1>4. (Synced => QueueInv)'
  BY DEF ReaderInv, ReaderTypeOK, Synced, QueueInv, InPlace, Following, CommandInv, SeekInv, BoundInv, Eof, NewJob
<1> QED
  BY <1>1, <1>2, <1>3, <1>4 DEF ReaderInv

\* The increment reads current_frame.
LEMMA RIncLoadOK == ReaderInv /\ RIncLoad => ReaderInv'
<1> SUFFICES ASSUME ReaderInv, RIncLoad PROVE ReaderInv'
  OBVIOUS
<1> USE ReaderConstants DEF RIncLoad, At, RGoto, UGoto, Failure, queue, served, consumer, counted
<1>1. ReaderTypeOK'
  <2>1. current_frame \in 0..TrackFrames
    BY DEF ReaderInv, ReaderTypeOK, BoundInv
  <2> QED
    BY <2>1, ZenonT(60) DEF ReaderInv, ReaderTypeOK
<1>2. CommandInv' /\ SeekInv' /\ BoundInv'
  BY DEF ReaderInv, ReaderTypeOK, CommandInv, SeekInv, BoundInv
<1>3. TakenInv' /\ EndsAfterLastFrame'
  BY DEF ReaderInv, ReaderTypeOK, TakenInv, SeekInv, EndsAfterLastFrame, CommandInv, Synced, QueueInv, Following
<1>4. (Synced => QueueInv)'
  BY DEF ReaderInv, ReaderTypeOK, Synced, QueueInv, InPlace, Following, CommandInv, SeekInv, BoundInv, Eof, NewJob
<1> QED
  BY <1>1, <1>2, <1>3, <1>4 DEF ReaderInv

\* The increment writes it, over a seek that came in between if there was one.
LEMMA RIncStoreOK == ReaderInv /\ RIncStore => ReaderInv'
<1> SUFFICES ASSUME ReaderInv, RIncStore PROVE ReaderInv'
  OBVIOUS
<1> USE ReaderConstants DEF RIncStore, At, RGoto, UGoto, Failure, queue, served, consumer, counted
<1>1. ReaderTypeOK'
  <2>1. current_frame' \in 0..(TrackFrames + 1)
    BY SMTT(40) DEF ReaderInv, ReaderTypeOK
  <2> QED
    BY <2>1, ZenonT(60) DEF ReaderInv, ReaderTypeOK
<1>2. CommandInv' /\ SeekInv' /\ BoundInv'
  BY DEF ReaderInv, ReaderTypeOK, CommandInv, SeekInv, BoundInv
<1>3. TakenInv' /\ EndsAfterLastFrame'
  BY DEF ReaderInv, ReaderTypeOK, TakenInv, SeekInv, EndsAfterLastFrame, CommandInv, Synced, QueueInv, Following
<1>4. (Synced => QueueInv)'
  BY DEF ReaderInv, ReaderTypeOK, Synced, QueueInv, InPlace, Following, CommandInv, SeekInv, BoundInv, Eof, NewJob
<1> QED
  BY <1>1, <1>2, <1>3, <1>4 DEF ReaderInv

\* The sentinel goes to the end of the queue, behind the last frame.
LEMMA REofOK == ReaderInv /\ REof => ReaderInv'
<1> SUFFICES ASSUME ReaderInv, REof PROVE ReaderInv'
  OBVIOUS
<1> USE ReaderConstants DEF REof, At, RGoto, UGoto, Failure, queue, served, consumer, counted
<1>1. ReaderTypeOK'
  <2>1. NewJob(Eof) \in Job /\ jobs \in Seq(Job)
    BY DEF ReaderInv, ReaderTypeOK, NewJob, Job
  <2>2. jobs' \in Seq(Job)
    BY <2>1, AppendFacts
  <2> QED
    BY <2>2, ZenonT(60) DEF ReaderInv, ReaderTypeOK
<1>2. CommandInv' /\ SeekInv' /\ BoundInv'
  BY DEF ReaderInv, ReaderTypeOK, CommandInv, SeekInv, BoundInv
<1>3. TakenInv' /\ EndsAfterLastFrame'
  BY DEF ReaderInv, ReaderTypeOK, TakenInv, SeekInv, EndsAfterLastFrame, CommandInv, Synced, QueueInv, Following
<1>4. (Synced => QueueInv)'
  <2> SUFFICES ASSUME Synced'
               PROVE  QueueInv'
    OBVIOUS
  <2> DEFINE j == NewJob(Eof)
  <2>1. Synced /\ QueueInv
    BY DEF ReaderInv, Synced
  <2>2. /\ jobs \in Seq(Job) /\ Len(jobs') = Len(jobs) + 1
        /\ DOMAIN jobs' = 1..(Len(jobs) + 1) /\ DOMAIN jobs = 1..Len(jobs)
        /\ \A i \in 1..Len(jobs) : jobs'[i] = jobs[i]
        /\ jobs'[Len(jobs) + 1] = j /\ Len(jobs) \in Nat
    BY <1>1, AppendFacts DEF ReaderInv, ReaderTypeOK
  <2>3. j.frame = Eof /\ j.err = FALSE
    BY DEF NewJob
  <2>4. \A i \in 1..Len(jobs) : jobs[i].frame # Eof
    BY <2>1, <2>2 DEF QueueInv, InPlace
  <2> HIDE DEF j
  <2>5. failures = 0 => Following >= TrackFrames
    BY <2>1 DEF QueueInv
  <2>6. Following' = Following + 1
    BY <2>2, SMTT(40) DEF Following, ReaderInv, ReaderTypeOK
  <2> QED
    <3>1. mt_seek_frame \in Nat /\ Len(taken) \in Nat /\ taken' = taken /\ mt_seek_frame' = mt_seek_frame
      BY DEF ReaderInv, ReaderTypeOK
    <3>2. ASSUME NEW i \in 1..(Len(jobs) + 1)
          PROVE  InPlace(i)' /\ (jobs'[i].err => failures' > 0)
      <4>1. CASE i = Len(jobs) + 1
        BY <4>1, <3>1, <2>2, <2>3, <2>5, <2>6 DEF InPlace, Following
      <4>2. CASE i \in 1..Len(jobs)
        <5>1. jobs[i].frame # Eof /\ jobs[i].frame = mt_seek_frame + Len(taken) + i - 1
          BY <4>2, <2>1, <2>2, <2>4 DEF QueueInv, InPlace
        <5>2. jobs'[i] = jobs[i] /\ (jobs[i].err => failures > 0)
          BY <4>2, <2>1, <2>2 DEF QueueInv
        <5> QED
          BY <5>1, <5>2, <3>1 DEF InPlace
      <4> QED
        BY <4>1, <4>2, <2>2
    <3>3. reader'.pc = "wait"
      BY DEF ReaderInv, ReaderTypeOK
    <3> QED
      BY <3>2, <3>3, <2>2, <2>5, <2>6 DEF QueueInv
<1> QED
  BY <1>1, <1>2, <1>3, <1>4 DEF ReaderInv

\* The reader gets a command behind the sentinel.
LEMMA RWaitOK == ReaderInv /\ RWait => ReaderInv'
<1> SUFFICES ASSUME ReaderInv, RWait PROVE ReaderInv'
  OBVIOUS
<1> USE ReaderConstants DEF RWait, At, RGoto, UGoto, Failure, queue, served, consumer, counted
<1>1. ReaderTypeOK'
  BY DEF ReaderInv, ReaderTypeOK, Eof, Job, BoundInv, NewJob, Dropped
<1>2. CommandInv' /\ SeekInv' /\ BoundInv'
  BY DEF ReaderInv, ReaderTypeOK, CommandInv, SeekInv, BoundInv
<1>3. TakenInv' /\ EndsAfterLastFrame'
  BY DEF ReaderInv, ReaderTypeOK, TakenInv, SeekInv, EndsAfterLastFrame, CommandInv, Synced, QueueInv, Following
<1>4. (Synced => QueueInv)'
  BY DEF ReaderInv, ReaderTypeOK, Synced, QueueInv, InPlace, Following, CommandInv, SeekInv, BoundInv, Eof, NewJob
<1> QED
  BY <1>1, <1>2, <1>3, <1>4 DEF ReaderInv

\* The reset drops jobs, while nobody is going to take them.
LEMMA RResetOK == ReaderInv /\ RReset => ReaderInv'
<1> SUFFICES ASSUME ReaderInv, RReset PROVE ReaderInv'
  OBVIOUS
<1> USE ReaderConstants DEF RReset, At, RGoto, UGoto, Failure, queue, served, consumer, counted
<1>1. ReaderTypeOK'
  <2>1. \A j \in Job : Dropped(j) \in Job
    BY DEF Dropped, Job
  <2>2. jobs \in Seq(Job)
    BY DEF ReaderInv, ReaderTypeOK
  <2>3. jobs' \in [1..Len(jobs) -> Job] /\ Len(jobs) \in Nat
    BY <2>1, <2>2
  <2>4. jobs' \in Seq(Job)
    BY <2>3
  <2> QED
    BY <2>4, ZenonT(60) DEF ReaderInv, ReaderTypeOK
<1>2. CommandInv' /\ SeekInv' /\ BoundInv'
  BY DEF ReaderInv, ReaderTypeOK, CommandInv, SeekInv, BoundInv
<1>3. TakenInv' /\ EndsAfterLastFrame'
  BY DEF ReaderInv, ReaderTypeOK, TakenInv, SeekInv, EndsAfterLastFrame, CommandInv, Synced, QueueInv, Following
<1>4. (Synced => QueueInv)'
  BY DEF ReaderInv, ReaderTypeOK, Synced, QueueInv, InPlace, Following, CommandInv, SeekInv, BoundInv, Eof, NewJob
<1> QED
  BY <1>1, <1>2, <1>3, <1>4 DEF ReaderInv

\* The reset has emptied the queue.
LEMMA RFlushOK == ReaderInv /\ RFlush => ReaderInv'
<1> SUFFICES ASSUME ReaderInv, RFlush PROVE ReaderInv'
  OBVIOUS
<1> USE ReaderConstants DEF RFlush, At, RGoto, UGoto, Failure, queue, served, consumer, counted
<1>1. ReaderTypeOK'
  BY SMTT(40) DEF ReaderInv, ReaderTypeOK, Eof, Job, BoundInv, NewJob, Dropped
<1>2. CommandInv' /\ SeekInv' /\ BoundInv'
  BY DEF ReaderInv, ReaderTypeOK, CommandInv, SeekInv, BoundInv
<1>3. TakenInv' /\ EndsAfterLastFrame'
  BY DEF ReaderInv, ReaderTypeOK, TakenInv, SeekInv, EndsAfterLastFrame, CommandInv, Synced, QueueInv, Following
<1>4. (Synced => QueueInv)'
  BY DEF ReaderInv, ReaderTypeOK, Synced, QueueInv, InPlace, Following, CommandInv, SeekInv, BoundInv, Eof, NewJob
<1> QED
  BY <1>1, <1>2, <1>3, <1>4 DEF ReaderInv

\* The reader starts over with an empty queue at the target of the seek.
LEMMA RSeekDoneOK == ReaderInv /\ RSeekDone => ReaderInv'
<1> SUFFICES ASSUME ReaderInv, RSeekDone PROVE ReaderInv'
  OBVIOUS
<1> USE ReaderConstants DEF RSeekDone, At, RGoto, UGoto, Failure, queue, served, consumer, counted
<1>1. ReaderTypeOK'
  BY DEF ReaderInv, ReaderTypeOK, Eof, Job, BoundInv, NewJob, Dropped
<1>2. CommandInv' /\ SeekInv' /\ BoundInv'
  BY DEF ReaderInv, ReaderTypeOK, CommandInv, SeekInv, BoundInv
<1>3. TakenInv' /\ EndsAfterLastFrame'
  BY DEF ReaderInv, ReaderTypeOK, TakenInv, SeekInv, EndsAfterLastFrame, CommandInv, Synced, QueueInv, Following
<1>4. (Synced => QueueInv)'
  BY DEF ReaderInv, ReaderTypeOK, Synced, QueueInv, InPlace, Following, CommandInv, SeekInv, BoundInv, Eof, NewJob
<1> QED
  BY <1>1, <1>2, <1>3, <1>4 DEF ReaderInv

\* The user copies what is ready.
LEMMA CopyReadyOK == ReaderInv /\ CopyReady => ReaderInv'
<1> SUFFICES ASSUME ReaderInv, CopyReady PROVE ReaderInv'
  OBVIOUS
<1> USE ReaderConstants DEF CopyReady, At, RGoto, UGoto, Failure, queue, served, consumer, counted
<1>1. ReaderTypeOK'
  <2>1. block' \in Block
    BY Zenon DEF ReaderInv, ReaderTypeOK, Block
  <2>2. user' = user \/ user' = [user EXCEPT !.pc = "idle"]
    BY Zenon
  <2> QED
    BY <2>1, <2>2 DEF ReaderInv, ReaderTypeOK
<1>2. CommandInv' /\ SeekInv' /\ BoundInv'
  BY DEF ReaderInv, ReaderTypeOK, CommandInv, SeekInv, BoundInv
<1>3. TakenInv' /\ EndsAfterLastFrame'
  <2>1. /\ block' = block \/ block' = [block EXCEPT !.ready = "none"]
        /\ block \in Block
    BY Zenon DEF ReaderInv, ReaderTypeOK
  <2>2. ~block.columns => ~block'.columns
    BY <2>1, Zenon DEF Block
  <2>3. block.ready # "frame" => block'.ready # "frame"
    BY <2>1, Zenon DEF Block
  <2> QED
    BY <2>2, <2>3 DEF ReaderInv, TakenInv, EndsAfterLastFrame
<1>4. (Synced => QueueInv)'
  BY DEF ReaderInv, ReaderTypeOK, Synced, QueueInv, InPlace, Following, CommandInv, SeekInv, BoundInv, Eof, NewJob
<1> QED
  BY <1>1, <1>2, <1>3, <1>4 DEF ReaderInv

\* The user finds that the audio has ended.
LEMMA EnterGapOK == ReaderInv /\ EnterGap => ReaderInv'
<1> SUFFICES ASSUME ReaderInv, EnterGap PROVE ReaderInv'
  OBVIOUS
<1> USE ReaderConstants DEF EnterGap, At, RGoto, UGoto, Failure, queue, served, consumer, counted
<1>1. ReaderTypeOK'
  BY DEF ReaderInv, ReaderTypeOK, Eof, Job, BoundInv, NewJob, Dropped
<1>2. CommandInv' /\ SeekInv' /\ BoundInv'
  BY DEF ReaderInv, ReaderTypeOK, CommandInv, SeekInv, BoundInv
<1>3. TakenInv' /\ EndsAfterLastFrame'
  BY DEF ReaderInv, ReaderTypeOK, TakenInv, SeekInv, EndsAfterLastFrame, CommandInv, Synced, QueueInv, Following
<1>4. (Synced => QueueInv)'
  BY DEF ReaderInv, ReaderTypeOK, Synced, QueueInv, InPlace, Following, CommandInv, SeekInv, BoundInv, Eof, NewJob
<1> QED
  BY <1>1, <1>2, <1>3, <1>4 DEF ReaderInv

\* The rest of the read is silence.
LEMMA GapFilledOK == ReaderInv /\ GapFilled => ReaderInv'
<1> SUFFICES ASSUME ReaderInv, GapFilled PROVE ReaderInv'
  OBVIOUS
<1> USE ReaderConstants DEF GapFilled, At, RGoto, UGoto, Failure, queue, served, consumer, counted
<1>1. ReaderTypeOK'
  BY DEF ReaderInv, ReaderTypeOK, Eof, Job, BoundInv, NewJob, Dropped
<1>2. CommandInv' /\ SeekInv' /\ BoundInv'
  BY DEF ReaderInv, ReaderTypeOK, CommandInv, SeekInv, BoundInv
<1>3. TakenInv' /\ EndsAfterLastFrame'
  BY DEF ReaderInv, ReaderTypeOK, TakenInv, SeekInv, EndsAfterLastFrame, CommandInv, Synced, QueueInv, Following
<1>4. (Synced => QueueInv)'
  BY DEF ReaderInv, ReaderTypeOK, Synced, QueueInv, InPlace, Following, CommandInv, SeekInv, BoundInv, Eof, NewJob
<1> QED
  BY <1>1, <1>2, <1>3, <1>4 DEF ReaderInv

\* The user takes the oldest result: the next frame, or the end of the audio.
LEMMA NextResultOK == ReaderInv /\ NextResult => ReaderInv'
<1> SUFFICES ASSUME ReaderInv, NextResult PROVE ReaderInv'
  OBVIOUS
<1> USE ReaderConstants
<1>1. /\ jobs \in Seq(Job) /\ jobs # <<>> /\ jobs' = Tail(jobs)
      /\ UNCHANGED <<current_frame, command, mt_seek_frame, locked, reader, shutdown,
                     wake_dispatch, seeks>>
      /\ block.ready = "none"
  BY DEF NextResult, ReaderInv, ReaderTypeOK
<1>2. user.pc = "next" /\ command = "NONE" /\ ~early_eof
  BY DEF NextResult, ReaderInv, ReaderTypeOK, CommandInv
<1>3. QueueInv
  BY <1>2 DEF ReaderInv, Synced
<1>4. /\ Head(jobs) = jobs[1] /\ Head(jobs) \in Job
      /\ DOMAIN jobs = 1..Len(jobs) /\ Len(jobs) \in Nat /\ Len(jobs) > 0 /\ 1 \in DOMAIN jobs
      /\ jobs' \in Seq(Job) /\ Len(jobs') = Len(jobs) - 1
      /\ DOMAIN jobs' = 1..(Len(jobs) - 1)
      /\ \A i \in DOMAIN jobs' : jobs'[i] = jobs[i + 1] /\ i + 1 \in DOMAIN jobs
  BY <1>1, TailFacts
<1>5. Head(jobs).frame # Eof => Head(jobs).frame \in 0..TrackFrames
  BY <1>4 DEF Job
<1>6. /\ mt_seek_frame \in Nat /\ taken \in Seq(0..TrackFrames) /\ Len(taken) \in Nat
      /\ failures \in Nat
  BY DEF ReaderInv, ReaderTypeOK
<1>7. /\ user' = user \/ (user'.pc = "idle" /\ user' = [user EXCEPT !.pc = "idle"])
      /\ failures' \in 0..MaxFailures /\ failures' >= failures
  <2>1. user' = user \/ user' = [user EXCEPT !.pc = "idle"]
    BY Zenon DEF NextResult, TakeSentinel, TakeFailed, TakeFrame, UGoto
  <2>2. failures' = failures \/ (failures < MaxFailures /\ failures' = failures + 1)
    BY Zenon DEF NextResult, TakeSentinel, TakeFailed, TakeFrame, Failure
  <2> QED
    BY <2>1, <2>2, SMTT(40) DEF ReaderInv, ReaderTypeOK
<1>8. CommandInv' /\ BoundInv' /\ SeekInv'
  BY <1>1, <1>2, <1>7 DEF ReaderInv, ReaderTypeOK, CommandInv, SeekInv, BoundInv
<1>9. user' \in [pc : {"idle", "next", "silence", "post", "wake", "wait", "shut", "join",
                       "closed"}, target : SeekFrames \union {0}]
  BY <1>7 DEF ReaderInv, ReaderTypeOK
<1>10. CASE Head(jobs).frame = Eof /\ TakeSentinel
  <2>1. /\ block' \in Block
        /\ ~block'.columns /\ block'.ready # "frame"
    BY <1>1, <1>10, Zenon DEF TakeSentinel, ReaderInv, ReaderTypeOK, Block
  <2>2. early_eof' = TRUE /\ taken' = taken /\ failures' = failures
    BY <1>10 DEF TakeSentinel
  <2>3. ReaderTypeOK'
    BY <1>1, <1>4, <1>9, <2>1, <2>2 DEF ReaderInv, ReaderTypeOK
  <2>4. ~Synced' /\ TakenInv'
    BY <1>1, <2>2 DEF Synced, ReaderInv, TakenInv
  <2>5. EndsAfterLastFrame'
    <3> SUFFICES ASSUME failures = 0
                 PROVE  mt_seek_frame + Len(taken) >= TrackFrames
      BY <1>1, <2>1, <2>2 DEF EndsAfterLastFrame
    <3>1. Len(jobs) = 1 /\ Following > TrackFrames
      BY <1>3, <1>4, <1>10 DEF QueueInv, InPlace
    <3> QED
      BY <3>1, <1>6 DEF Following
  <2> QED
    BY <2>3, <2>4, <2>5, <1>8 DEF ReaderInv
<1>11. CASE Head(jobs).err /\ TakeFailed
  <2>1. early_eof' = TRUE /\ taken' = taken /\ failures' = failures /\ block' = block
    BY <1>11 DEF TakeFailed
  <2>2. ReaderTypeOK'
    BY <1>1, <1>4, <1>9, <2>1 DEF ReaderInv, ReaderTypeOK
  <2>3. ~Synced' /\ TakenInv'
    BY <1>1, <2>1 DEF Synced, ReaderInv, TakenInv
  <2>4. failures > 0
    BY <1>3, <1>4, <1>11 DEF QueueInv
  <2> QED
    BY <2>1, <2>2, <2>3, <2>4, <1>6, <1>8 DEF ReaderInv, EndsAfterLastFrame
<1>12. CASE Head(jobs).frame # Eof /\ TakeFrame(Head(jobs).frame)
  <2> DEFINE e == Head(jobs).frame
  <2>1. taken' = Append(taken, e) /\ early_eof' = early_eof /\ e \in 0..TrackFrames
    BY <1>5, <1>12 DEF TakeFrame
  <2>2. e = mt_seek_frame + Len(taken)
    <3>1. InPlace(1) /\ Head(jobs) = jobs[1] /\ jobs[1].frame # Eof
      BY <1>3, <1>4, <1>12 DEF QueueInv
    <3>2. jobs[1].frame = mt_seek_frame + Len(taken) + 1 - 1
      BY <3>1 DEF InPlace
    <3> QED
      BY <3>1, <3>2, <1>6
  <2> HIDE DEF e
  <2>3. /\ taken' \in Seq(0..TrackFrames) /\ Len(taken') = Len(taken) + 1
        /\ DOMAIN taken' = 1..(Len(taken) + 1) /\ DOMAIN taken = 1..Len(taken)
        /\ \A i \in 1..Len(taken) : taken'[i] = taken[i]
        /\ taken'[Len(taken) + 1] = e
    BY <2>1, <1>6, AppendFacts
  <2>4. block' \in Block
    <3>1. block \in Block
      BY DEF ReaderInv, ReaderTypeOK
    <3>2. CASE UNCHANGED block
      BY <3>1, <3>2
    <3>3. CASE \E c \in BOOLEAN, r \in {"none", "frame"} : block' = [columns |-> c, ready |-> r]
      <4>1. PICK c \in BOOLEAN, r \in {"none", "frame"} : block' = [columns |-> c, ready |-> r]
        BY <3>3
      <4>2. r \in {"none", "frame", "tail"}
        OBVIOUS
      <4> QED
        BY <4>1, <4>2, Zenon DEF Block
    <3> QED
      BY <1>12, <3>2, <3>3, Zenon DEF TakeFrame
  <2>5. ReaderTypeOK'
    BY <1>1, <1>4, <1>7, <1>9, <2>1, <2>3, <2>4 DEF ReaderInv, ReaderTypeOK
  <2>6. TakenInv' /\ EndsAfterLastFrame'
    <3>1. ASSUME NEW i \in 1..(Len(taken) + 1)
          PROVE  taken'[i] = mt_seek_frame + i - 1
      <4>1. CASE i = Len(taken) + 1
        BY <4>1, <2>2, <2>3, <1>6
      <4>2. CASE i \in 1..Len(taken)
        BY <4>2, <2>3 DEF ReaderInv, TakenInv
      <4> QED
        BY <4>1, <4>2, <1>6
    <3>2. ~early_eof' /\ mt_seek_frame' = mt_seek_frame
      BY <1>1, <1>2, <2>1
    <3> QED
      BY <3>1, <3>2, <2>3 DEF TakenInv, EndsAfterLastFrame
  <2>7. Following' = Following
    BY <2>3, <1>1, <1>4, <1>6 DEF Following
  <2>8. failures' = 0 => failures = 0
    BY <1>6, <1>7
  <2>9. QueueInv'
    <3>1. ASSUME NEW i \in DOMAIN jobs'
          PROVE  InPlace(i)'
      <4>1. /\ jobs'[i] = jobs[i + 1] /\ i + 1 \in DOMAIN jobs /\ i \in Nat
            /\ InPlace(i + 1)
        BY <1>3, <1>4 DEF QueueInv
      <4>2. mt_seek_frame + Len(taken') + i - 1 = mt_seek_frame + Len(taken) + (i + 1) - 1
        BY <4>1, <2>3, <1>6
      <4>3. i + 1 = Len(jobs) => i = Len(jobs')
        BY <4>1, <1>4
      <4> QED
        BY <4>1, <4>2, <4>3, <2>7, <2>8, <1>1 DEF InPlace
    <3>2. \A i \in DOMAIN jobs' : jobs'[i].err => failures' > 0
      BY <1>3, <1>4, <1>6, <1>7 DEF QueueInv
    <3> QED
      BY <3>1, <3>2, <2>7, <2>8, <1>1, <1>3 DEF QueueInv
  <2> QED
    BY <2>5, <2>6, <2>9, <1>8 DEF ReaderInv
<1> QED
  BY <1>10, <1>11, <1>12 DEF NextResult

\* The seek is handed to the reader.
LEMMA SeekPostOK == ReaderInv /\ SeekPost => ReaderInv'
<1> SUFFICES ASSUME ReaderInv, SeekPost PROVE ReaderInv'
  OBVIOUS
<1> USE ReaderConstants DEF SeekPost, At, RGoto, UGoto, Failure, queue, served, consumer, counted
<1>1. ReaderTypeOK'
  BY DEF ReaderInv, ReaderTypeOK, Eof, Job, BoundInv, NewJob, Dropped
<1>2. CommandInv' /\ SeekInv' /\ BoundInv'
  BY DEF ReaderInv, ReaderTypeOK, CommandInv, SeekInv, BoundInv
<1>3. TakenInv' /\ EndsAfterLastFrame'
  BY DEF ReaderInv, ReaderTypeOK, TakenInv, SeekInv, EndsAfterLastFrame, CommandInv, Synced, QueueInv, Following
<1>4. (Synced => QueueInv)'
  BY DEF ReaderInv, ReaderTypeOK, Synced, QueueInv, InPlace, Following, CommandInv, SeekInv, BoundInv, Eof, NewJob
<1> QED
  BY <1>1, <1>2, <1>3, <1>4 DEF ReaderInv

\* The reader is woken.
LEMMA SeekWakeOK == ReaderInv /\ SeekWake => ReaderInv'
<1> SUFFICES ASSUME ReaderInv, SeekWake PROVE ReaderInv'
  OBVIOUS
<1> USE ReaderConstants DEF SeekWake, At, RGoto, UGoto, Failure, queue, served, consumer, counted
<1>1. ReaderTypeOK'
  BY DEF ReaderInv, ReaderTypeOK, Eof, Job, BoundInv, NewJob, Dropped
<1>2. CommandInv' /\ SeekInv' /\ BoundInv'
  BY DEF ReaderInv, ReaderTypeOK, CommandInv, SeekInv, BoundInv
<1>3. TakenInv' /\ EndsAfterLastFrame'
  BY DEF ReaderInv, ReaderTypeOK, TakenInv, SeekInv, EndsAfterLastFrame, CommandInv, Synced, QueueInv, Following
<1>4. (Synced => QueueInv)'
  BY DEF ReaderInv, ReaderTypeOK, Synced, QueueInv, InPlace, Following, CommandInv, SeekInv, BoundInv, Eof, NewJob
<1> QED
  BY <1>1, <1>2, <1>3, <1>4 DEF ReaderInv

\* The seek returns, answered.
LEMMA SeekReturnOK == ReaderInv /\ SeekReturn => ReaderInv'
<1> SUFFICES ASSUME ReaderInv, SeekReturn PROVE ReaderInv'
  OBVIOUS
<1> USE ReaderConstants DEF SeekReturn, At, RGoto, UGoto, Failure, queue, served, consumer, counted
<1>1. ReaderTypeOK'
  BY DEF ReaderInv, ReaderTypeOK, Eof, Job, BoundInv, NewJob, Dropped
<1>2. CommandInv' /\ SeekInv' /\ BoundInv'
  BY DEF ReaderInv, ReaderTypeOK, CommandInv, SeekInv, BoundInv
<1>3. TakenInv' /\ EndsAfterLastFrame'
  BY DEF ReaderInv, ReaderTypeOK, TakenInv, SeekInv, EndsAfterLastFrame, CommandInv, Synced, QueueInv, Following
<1>4. (Synced => QueueInv)'
  BY DEF ReaderInv, ReaderTypeOK, Synced, QueueInv, InPlace, Following, CommandInv, SeekInv, BoundInv, Eof, NewJob
<1> QED
  BY <1>1, <1>2, <1>3, <1>4 DEF ReaderInv

\* The close shuts the process queue down.
LEMMA CloseShutdownOK == ReaderInv /\ CloseShutdown => ReaderInv'
<1> SUFFICES ASSUME ReaderInv, CloseShutdown PROVE ReaderInv'
  OBVIOUS
<1> USE ReaderConstants DEF CloseShutdown, At, RGoto, UGoto, Failure, queue, served, consumer, counted
<1>1. ReaderTypeOK'
  BY DEF ReaderInv, ReaderTypeOK, Eof, Job, BoundInv, NewJob, Dropped
<1>2. CommandInv' /\ SeekInv' /\ BoundInv'
  BY DEF ReaderInv, ReaderTypeOK, CommandInv, SeekInv, BoundInv
<1>3. TakenInv' /\ EndsAfterLastFrame'
  BY DEF ReaderInv, ReaderTypeOK, TakenInv, SeekInv, EndsAfterLastFrame, CommandInv, Synced, QueueInv, Following
<1>4. (Synced => QueueInv)'
  BY DEF ReaderInv, ReaderTypeOK, Synced, QueueInv, InPlace, Following, CommandInv, SeekInv, BoundInv, Eof, NewJob
<1> QED
  BY <1>1, <1>2, <1>3, <1>4 DEF ReaderInv

\* The close joins the reader and destroys the queue.
LEMMA CloseJoinOK == ReaderInv /\ CloseJoin => ReaderInv'
<1> SUFFICES ASSUME ReaderInv, CloseJoin PROVE ReaderInv'
  OBVIOUS
<1> USE ReaderConstants DEF CloseJoin, At, RGoto, UGoto, Failure, queue, served, consumer, counted
<1>1. ReaderTypeOK'
  <2>1. jobs' \in Seq(Job)
    OBVIOUS
  <2> QED
    BY <2>1 DEF ReaderInv, ReaderTypeOK
<1>2. CommandInv' /\ SeekInv' /\ BoundInv'
  BY DEF ReaderInv, ReaderTypeOK, CommandInv, SeekInv, BoundInv
<1>3. TakenInv' /\ EndsAfterLastFrame'
  BY DEF ReaderInv, ReaderTypeOK, TakenInv, SeekInv, EndsAfterLastFrame, CommandInv, Synced, QueueInv, Following
<1>4. (Synced => QueueInv)'
  BY DEF ReaderInv, ReaderTypeOK, Synced, QueueInv, InPlace, Following, CommandInv, SeekInv, BoundInv, Eof, NewJob
<1> QED
  BY <1>1, <1>2, <1>3, <1>4 DEF ReaderInv

\* A read begins.
LEMMA ReadCallOK == ReaderInv /\ ReadCall => ReaderInv'
<1> SUFFICES ASSUME ReaderInv, ReadCall PROVE ReaderInv'
  OBVIOUS
<1> USE ReaderConstants DEF ReadCall, At, RGoto, UGoto, Failure, queue, served, consumer, counted
<1>1. ReaderTypeOK'
  BY SMTT(40) DEF ReaderInv, ReaderTypeOK, Eof, Job, BoundInv, NewJob, Dropped
<1>2. CommandInv' /\ SeekInv' /\ BoundInv'
  BY DEF ReaderInv, ReaderTypeOK, CommandInv, SeekInv, BoundInv
<1>3. TakenInv' /\ EndsAfterLastFrame'
  BY DEF ReaderInv, ReaderTypeOK, TakenInv, SeekInv, EndsAfterLastFrame, CommandInv, Synced, QueueInv, Following
<1>4. (Synced => QueueInv)'
  BY DEF ReaderInv, ReaderTypeOK, Synced, QueueInv, InPlace, Following, CommandInv, SeekInv, BoundInv, Eof, NewJob
<1> QED
  BY <1>1, <1>2, <1>3, <1>4 DEF ReaderInv

\* A close begins.
LEMMA CloseOK == ReaderInv /\ Close => ReaderInv'
<1> SUFFICES ASSUME ReaderInv, Close PROVE ReaderInv'
  OBVIOUS
<1> USE ReaderConstants DEF Close, At, RGoto, UGoto, Failure, queue, served, consumer, counted
<1>1. ReaderTypeOK'
  BY DEF ReaderInv, ReaderTypeOK, Eof, Job, BoundInv, NewJob, Dropped
<1>2. CommandInv' /\ SeekInv' /\ BoundInv'
  BY DEF ReaderInv, ReaderTypeOK, CommandInv, SeekInv, BoundInv
<1>3. TakenInv' /\ EndsAfterLastFrame'
  BY DEF ReaderInv, ReaderTypeOK, TakenInv, SeekInv, EndsAfterLastFrame, CommandInv, Synced, QueueInv, Following
<1>4. (Synced => QueueInv)'
  BY DEF ReaderInv, ReaderTypeOK, Synced, QueueInv, InPlace, Following, CommandInv, SeekInv, BoundInv, Eof, NewJob
<1> QED
  BY <1>1, <1>2, <1>3, <1>4 DEF ReaderInv

\* A worker changes the state of one job, and its error only with a fault.
LEMMA WorkerOK ==
    ASSUME ReaderInv, NEW k \in DOMAIN jobs,
           UNCHANGED <<current_frame, command, mt_seek_frame, locked, reader, shutdown,
                       wake_dispatch, user, block, early_eof, taken, seeks>>,
           failures' \in 0..MaxFailures, failures' >= failures,
           NEW j \in Job, j.frame = jobs[k].frame,
           j.err => jobs[k].err \/ failures' > 0,
           jobs' = [jobs EXCEPT ![k] = j],
           jobs # <<>>
    PROVE  ReaderInv'
<1> USE ReaderConstants
<1>1. /\ jobs \in Seq(Job) /\ jobs' \in Seq(Job) /\ Len(jobs') = Len(jobs)
      /\ DOMAIN jobs' = DOMAIN jobs /\ DOMAIN jobs = 1..Len(jobs)
      /\ failures \in Nat /\ failures' \in Nat
  BY SMTT(40) DEF ReaderInv, ReaderTypeOK
<1>2. ReaderTypeOK'
  BY <1>1 DEF ReaderInv, ReaderTypeOK
<1>3. CommandInv' /\ SeekInv' /\ BoundInv' /\ TakenInv'
  <2>1. jobs = <<>> <=> jobs' = <<>>
    BY <1>1
  <2> QED
    BY <2>1 DEF ReaderInv, CommandInv, SeekInv, BoundInv, TakenInv
<1>4. EndsAfterLastFrame'
  BY <1>1 DEF ReaderInv, EndsAfterLastFrame
<1>5. ASSUME Synced' PROVE QueueInv'
  <2>1. QueueInv
    BY <1>5 DEF ReaderInv, Synced
  <2>2. Following' = Following
    BY <1>1 DEF Following
  <2>3. ASSUME NEW i \in DOMAIN jobs
        PROVE  InPlace(i)' /\ (jobs'[i].err => failures' > 0)
    <3>1. jobs'[i].frame = jobs[i].frame /\ (jobs'[i].err => jobs[i].err \/ failures' > 0)
      BY <1>1
    <3>2. InPlace(i) /\ (jobs[i].err => failures > 0)
      BY <2>1 DEF QueueInv
    <3>3. failures' = 0 => failures = 0
      BY <1>1
    <3>4. InPlace(i)'
      BY <3>1, <3>2, <3>3, <2>2, <1>1 DEF InPlace
    <3> QED
      BY <3>1, <3>2, <3>4, <1>1
  <2>4. failures' = 0 => failures = 0
    BY <1>1
  <2> QED
    BY <2>1, <2>2, <2>3, <2>4, <1>1 DEF QueueInv
<1> QED
  BY <1>2, <1>3, <1>4, <1>5 DEF ReaderInv

\* A worker starts a job.
LEMMA StartJobOK == \A i \in DOMAIN jobs : ReaderInv /\ StartJob(i) => ReaderInv'
<1> SUFFICES ASSUME NEW k \in DOMAIN jobs, ReaderInv, StartJob(k) PROVE ReaderInv'
  OBVIOUS
<1> DEFINE j == [jobs[k] EXCEPT !.st = "run"]
<1>1. jobs \in Seq(Job) /\ jobs[k] \in Job /\ jobs # <<>> /\ failures \in 0..MaxFailures
  BY DEF ReaderInv, ReaderTypeOK
<1>2. /\ UNCHANGED <<current_frame, command, mt_seek_frame, locked, reader, shutdown,
                     wake_dispatch, user, block, early_eof, taken, seeks>>
      /\ failures' = failures
      /\ jobs' = [jobs EXCEPT ![k] = j]
  BY <1>1 DEF StartJob, served, consumer, counted
<1>3. j \in Job /\ j.frame = jobs[k].frame /\ j.err = jobs[k].err
  BY <1>1 DEF Job
<1> HIDE DEF j
<1>4. failures' \in 0..MaxFailures /\ failures' >= failures
  BY <1>1, <1>2, ReaderConstants
<1> QED
  BY <1>1, <1>2, <1>3, <1>4, WorkerOK

\* A worker finishes a job, with or without an error.
LEMMA FinishJobOK == \A i \in DOMAIN jobs : ReaderInv /\ FinishJob(i) => ReaderInv'
<1> SUFFICES ASSUME NEW k \in DOMAIN jobs, ReaderInv, FinishJob(k) PROVE ReaderInv'
  OBVIOUS
<1>1. jobs \in Seq(Job) /\ jobs[k] \in Job /\ jobs # <<>> /\ failures \in 0..MaxFailures
  BY DEF ReaderInv, ReaderTypeOK
<1>2. UNCHANGED <<current_frame, command, mt_seek_frame, locked, reader, shutdown,
                  wake_dispatch, user, block, early_eof, taken, seeks>>
  BY DEF FinishJob, served, consumer
<1>3. CASE jobs' = [jobs EXCEPT ![k].st = "out"] /\ UNCHANGED failures
  <2> DEFINE j == [jobs[k] EXCEPT !.st = "out"]
  <2>1. j \in Job /\ j.frame = jobs[k].frame /\ j.err = jobs[k].err
    BY <1>1 DEF Job
  <2>2. jobs' = [jobs EXCEPT ![k] = j]
    BY <1>1, <1>3
  <2> HIDE DEF j
  <2>3. failures' \in 0..MaxFailures /\ failures' >= failures
    BY <1>1, <1>3, ReaderConstants
  <2> QED
    BY <1>1, <1>2, <2>1, <2>2, <2>3, WorkerOK
<1>4. CASE Failure("decode") /\ jobs' = [jobs EXCEPT ![k].st = "out", ![k].err = TRUE]
  <2> DEFINE j == [jobs[k] EXCEPT !.st = "out", !.err = TRUE]
  <2>1. j \in Job /\ j.frame = jobs[k].frame
    BY <1>1 DEF Job
  <2>2. jobs' = [jobs EXCEPT ![k] = j]
    BY <1>1, <1>4
  <2> HIDE DEF j
  <2>3. failures' \in 0..MaxFailures /\ failures' >= failures /\ failures' > 0
    BY <1>1, <1>4, ReaderConstants DEF Failure
  <2> QED
    BY <1>1, <1>2, <2>1, <2>2, <2>3, WorkerOK
<1> QED
  BY <1>3, <1>4 DEF FinishJob

\* A seek begins: what was taken is forgotten, and until the reader answers,
\* what it dispatches is not going to be taken.
LEMMA SeekCallOK == \A f \in SeekFrames : ReaderInv /\ SeekCall(f) => ReaderInv'
<1> SUFFICES ASSUME NEW f \in SeekFrames, ReaderInv, SeekCall(f) PROVE ReaderInv'
  OBVIOUS
<1> USE ReaderConstants DEF SeekCall, queue
<1>1. f \in 0..TrackFrames
  OBVIOUS
<1>2. ReaderTypeOK'
  <2>1. /\ user' \in [pc : {"idle", "next", "silence", "post", "wake", "wait", "shut",
                           "join", "closed"},
                     target : SeekFrames \union {0}]
        /\ taken' \in Seq(0..TrackFrames)
        /\ block' \in Block
    BY DEF NoBlock, Block
  <2>2. current_frame' \in 0..(TrackFrames + 1) /\ seeks' \in 0..MaxSeeks
    BY <1>1 DEF ReaderInv, ReaderTypeOK
  <2> QED
    BY <2>1, <2>2 DEF ReaderInv, ReaderTypeOK
<1>3. CommandInv' /\ SeekInv' /\ BoundInv'
  BY <1>1 DEF ReaderInv, ReaderTypeOK, CommandInv, SeekInv, BoundInv
<1>4. TakenInv' /\ EndsAfterLastFrame' /\ ~Synced'
  BY DEF TakenInv, EndsAfterLastFrame, Synced
<1> QED
  BY <1>2, <1>3, <1>4 DEF ReaderInv

\* The invariant holds when the file has just been opened.
LEMMA ReaderInitOK == ReaderInit => ReaderInv
<1> SUFFICES ASSUME ReaderInit PROVE ReaderInv
  OBVIOUS
<1> USE ReaderConstants DEF ReaderInit
<1>1. ReaderTypeOK
  <2>1. /\ jobs \in Seq(Job) /\ taken \in Seq(0..TrackFrames)
        /\ block \in Block
    BY DEF NoBlock, Block
  <2>2. 0 \in 0..TrackFrames /\ 0 \in 0..(TrackFrames + 1) /\ 0 \in 0..MaxFailures /\ 0 \in 0..MaxSeeks
    OBVIOUS
  <2> QED
    BY <2>1, <2>2 DEF ReaderTypeOK
<1>2. CommandInv /\ SeekInv /\ BoundInv /\ TakenInv /\ EndsAfterLastFrame
  BY DEF CommandInv, SeekInv, BoundInv, TakenInv, EndsAfterLastFrame
<1>3. QueueInv
  BY DEF QueueInv, Following
<1> QED
  BY <1>1, <1>2, <1>3 DEF ReaderInv

\* Nothing changes.
LEMMA StutterOK == ReaderInv /\ UNCHANGED reader_vars => ReaderInv'
BY DEF reader_vars, ReaderInv, ReaderTypeOK, CommandInv, SeekInv, BoundInv, TakenInv, Synced, QueueInv,
       InPlace, Following, EndsAfterLastFrame

\* Every step of either thread or of a worker keeps the invariant.
LEMMA ReaderNextOK == ReaderInv /\ [ReaderNext]_reader_vars => ReaderInv'
<1> SUFFICES ASSUME ReaderInv, [ReaderNext]_reader_vars PROVE ReaderInv'
  OBVIOUS
<1>1. CASE ReaderStep
  BY <1>1, RLoopOK, RCheckOK, RReadOK, RReadFailsOK, RDispatchOK, RDispatchFailsOK, RIncLoadOK,
     RIncStoreOK, REofOK, RWaitOK, RResetOK, RFlushOK, RSeekDoneOK DEF ReaderStep
<1>2. CASE WorkerStep
  BY <1>2, StartJobOK, FinishJobOK DEF WorkerStep
<1>3. CASE UserStep
  BY <1>3, CopyReadyOK, NextResultOK, EnterGapOK, GapFilledOK, SeekPostOK, SeekWakeOK, SeekReturnOK, CloseShutdownOK, CloseJoinOK
     DEF UserStep
<1>4. CASE ReadCall \/ (\E f \in SeekFrames : SeekCall(f)) \/ Close
  BY <1>4, ReadCallOK, SeekCallOK, CloseOK
<1>5. CASE UNCHANGED reader_vars
  BY <1>5, StutterOK
<1> QED
  BY <1>1, <1>2, <1>3, <1>4, <1>5 DEF ReaderNext

----------------------------------------------------------------------------
(* The inductive invariant holds throughout.                               *)
THEOREM ReaderInvariance == ReaderSpec => []ReaderInv
BY ReaderInitOK, ReaderNextOK, PTL DEF ReaderSpec

(* The frames taken after a seek are those from mt_seek_frame on, one      *)
(* after the other, and nobody takes results while the queue is reset, for *)
(* every length of the track, every queue size and every interleaving of   *)
(* the reader, the workers and the user (sacd_vfs.c:1697-1716, 1763-1788). *)
THEOREM FramesConsecutive == ReaderSpec => []ConsecutiveFrames
<1>1. ReaderInv => ConsecutiveFrames
  <2> SUFFICES ASSUME ReaderInv PROVE ConsecutiveFrames
    OBVIOUS
  <2>1. reader.pc \in {"reset", "flush", "done"} =>
           command = "SEEK" /\ user.pc \in {"wake", "wait"}
    BY DEF ReaderInv, ReaderTypeOK, CommandInv
  <2> QED
    BY <2>1 DEF ReaderInv, TakenInv, ConsecutiveFrames
<1> QED
  BY <1>1, ReaderInvariance, PTL

(* Unless a frame failed, the audio is taken to have ended only when its   *)
(* last frame has been taken and all of it was copied but the padded last  *)
(* block, whatever a seek found on the way (sacd_vfs.c:1791-1804,          *)
(* 2398-2412, 2611-2629).  The last block itself may be lost: that is      *)
(* LastBlockServed, which the code does not keep.                          *)
THEOREM NotEndedEarly == ReaderSpec => []EndsAfterLastFrame
<1>1. ReaderInv => EndsAfterLastFrame
  BY DEF ReaderInv
<1> QED
  BY <1>1, ReaderInvariance, PTL
=============================================================================
