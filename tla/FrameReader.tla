----------------------------- MODULE FrameReader -----------------------------
(***************************************************************************)
(* The frame readers of libsacd: frames of a track area are read by number *)
(* in any order.  DST frames have any length (sacd_dst_reader.c): a frame  *)
(* is found with the access list of the area TOC, and the reader remembers *)
(* where the next one starts.  Plain DSD frames lie three to 14 or to 16   *)
(* sectors (sacd_dsd_reader.c).                                            *)
(*                                                                         *)
(* A sector is a sequence of packets; a packet is known by its place       *)
(* <<lsn, index>>.  An input is a file, which cuts a read at its end, a    *)
(* network server, which refuses it, or a drive, which refuses it too and  *)
(* whose sectors of the track area are encrypted.                          *)
(***************************************************************************)
EXTENDS Integers, Sequences, FiniteSets, FiniteSetsExt

CONSTANTS
    Discs,      \* the discs: see DiscOK
    MaxSectors, \* MAX_DST_SECTORS
    MaxFaults,  \* bound on the reads that fail
    None

Kinds   == {"audio", "supp"}
Formats == {"dst", "dsd14", "dsd16"}

(***************************************************************************)
(* Plain DSD: the layout tables.                                           *)
(***************************************************************************)
FrameBytes == 9408

Header == [dsd14 |-> 32, dsd16 |-> 284]

Layout14 ==
    << [mul |-> 14, add |-> 0, slices |-> <<<<32, 2016>>, <<32, 2016>>, <<32, 2016>>,
                                            <<32, 2016>>, <<32, 1344>>>>],
       [mul |-> 14, add |-> 4, slices |-> <<<<1376, 672>>, <<32, 2016>>, <<32, 2016>>,
                                            <<32, 2016>>, <<32, 2016>>, <<32, 672>>>>],
       [mul |-> 14, add |-> 9, slices |-> <<<<704, 1344>>, <<32, 2016>>, <<32, 2016>>,
                                            <<32, 2016>>, <<32, 2016>>>>] >>

Layout16 ==
    << [mul |-> 16, add |-> 0, slices |-> <<<<284, 1764>>, <<284, 1764>>, <<284, 1764>>,
                                            <<284, 1764>>, <<284, 1764>>, <<284, 588>>>>],
       [mul |-> 16, add |-> 5, slices |-> <<<<872, 1176>>, <<284, 1764>>, <<284, 1764>>,
                                            <<284, 1764>>, <<284, 1764>>, <<284, 1176>>>>],
       [mul |-> 16, add |-> 10, slices |-> <<<<1460, 588>>, <<284, 1764>>, <<284, 1764>>,
                                             <<284, 1764>>, <<284, 1764>>, <<284, 1764>>>>] >>

Layout(format, n) == (IF format = "dsd14" THEN Layout14 ELSE Layout16)[(n % 3) + 1]

(***************************************************************************)
(* The discs.                                                              *)
(***************************************************************************)
Packet == [frame : Int, start : BOOLEAN, kind : Kinds \cup {"padding"}]

\* start, end: the track area; last: the last sector of the disc; sectors:
\* the packets of each DST sector; span: sector_count of each frame; list: the
\* access list, whose entries ascend; total: the frames.
DiscType(d) ==
    /\ d.format \in Formats /\ d.input \in {"file", "network", "drive"}
    /\ {d.start, d.total, d.list.step} \subseteq Nat \ {0}
    /\ {d.end, d.last, d.list.margin} \subseteq Nat
    /\ d.start <= d.end /\ d.end <= d.last
    /\ d.list.entries \in Seq(Nat)
    /\ \A i, j \in DOMAIN d.list.entries :
          i <= j => d.list.entries[i] <= d.list.entries[j] /\ d.list.entries[j] <= d.end
    /\ d.sectors \in [d.start..d.end -> Seq(Packet)]

Before(p, q) == p[1] < q[1] \/ (p[1] = q[1] /\ p[2] < q[2])

\* The packets of a DST track area, those that start a frame, those of frames.
PacketAt(d, p) == d.sectors[p[1]][p[2]]
Packets(d) == UNION {{<<l, i>> : i \in DOMAIN d.sectors[l]} : l \in d.start..d.end}
FrameStarts(d) == {p \in Packets(d) : PacketAt(d, p).start}
FramePackets(d) == {p \in Packets(d) : PacketAt(d, p).kind \in Kinds}

StartOf(d, n) == CHOOSE p \in FrameStarts(d) : PacketAt(d, p).frame = n
SectorsOf(d, n) == StartOf(d, n)[1] .. (StartOf(d, n)[1] + d.span[n] - 1)

\* The frames of a DST area lie one after the other, each from its start, an
\* audio packet, to the start of the next, within span sectors.  MaxSectors
\* sectors from the end of a frame on hold the next one, with the padding
\* between the two.
DstArea(d) ==
    LET frames == 0..(d.total - 1) IN
    /\ \A n \in frames :
          /\ \E p \in FrameStarts(d) : PacketAt(d, p).frame = n
          /\ d.span[n] \in 1..MaxSectors
          /\ n + 1 \in frames =>
                StartOf(d, n + 1)[1] + d.span[n + 1] <= StartOf(d, n)[1] + d.span[n] + MaxSectors
    /\ \A p \in FrameStarts(d) : PacketAt(d, p).kind = "audio"
    /\ \A p \in FramePackets(d) :
          /\ PacketAt(d, p).frame \in frames
          /\ p[1] \in SectorsOf(d, PacketAt(d, p).frame)
          /\ \A q \in FrameStarts(d) : Before(p, q) <=> PacketAt(d, p).frame < PacketAt(d, q).frame

\* What it takes to read every DST frame: each sector of a frame has audio of
\* it, and an entry of the access list, if not exact, is late: the frames before
\* its own start no later than it says.
DstReadable(d) ==
    \A n \in 0..(d.total - 1) :
        /\ \A l \in SectorsOf(d, n) :
              \E p \in FramePackets(d) :
                 p[1] = l /\ PacketAt(d, p).frame = n /\ PacketAt(d, p).kind = "audio"
        /\ \A j \in DOMAIN d.list.entries :
              n < (j - 1) * d.list.step => StartOf(d, n)[1] <= d.list.entries[j]

\* The same for plain DSD: the disc has every sector of the frames.
DsdReadable(d) ==
    \A n \in 0..(d.total - 1) :
        LET y == Layout(d.format, n)
        IN  d.start + (n \div 3) * y.mul + y.add + Len(y.slices) - 1 <= d.last

DiscOK(d) ==
    /\ DiscType(d)
    /\ d.format = "dst" => DstArea(d)
    /\ d.input = "file" => IF d.format = "dst" THEN DstReadable(d) ELSE DsdReadable(d)

ASSUME DiscsAssumption ==
    /\ MaxSectors \in Nat \ {0} /\ MaxFaults \in Nat
    /\ \A d \in Discs : DiscOK(d)

\* No sector and no place.
ASSUME NoneAssumption == None \notin Nat /\ None \notin Nat \X Nat

VARIABLES
    disc,   \* the disc that is open
    cache,  \* position of the reader: num, lsn, valid, known
    cur,    \* cur_frame_num_data
    res,    \* the result of a call, until the caller takes it
    faults

read_vars == <<disc, cache, cur, res, faults>>

NoResult == [op |-> "none", n |-> 0, kind |-> "audio", status |-> "none",
             out |-> {}, raw |-> FALSE, faulty |-> FALSE]

ReadInit ==
    /\ disc \in Discs
    /\ cache = [num |-> 0, lsn |-> 0, valid |-> FALSE, known |-> FALSE]
    /\ cur = 0
    /\ res = NoResult
    /\ faults = 0

(***************************************************************************)
(* Finding a DST frame.                                                    *)
(***************************************************************************)
Starts(l) == {i \in DOMAIN disc.sectors[l] : disc.sectors[l][i].start}

EntryIndex(n, list) == Min({n \div list.step, Len(list.entries) - 1})

\* sacd_area_toc_get_access_list_range
AccessListRange(n) ==
    LET list  == disc.list
        k     == EntryIndex(n, list)
        entry == list.entries[k + 1]
        isLast == k + 1 = Len(list.entries)
        next  == IF isLast THEN disc.end ELSE list.entries[k + 2]
        parts == IF isLast THEN disc.total - k * list.step ELSE list.step
        guess == IF parts > 0
                 THEN entry + ((n % list.step) * (next - entry)) \div parts
                 ELSE entry
        from  == IF guess > list.margin THEN guess - list.margin ELSE entry
    IN  IF list.entries = <<>> THEN <<disc.start, disc.end>>
        ELSE <<Max({from, entry, disc.start}), Min({next, disc.end})>>

\* find_dst_frame: the first frame start at or after frame n in the range
\* decides.
FindDstFrame(range, n) ==
    LET hits == {l \in range[1]..range[2] :
                    \E i \in Starts(l) : disc.sectors[l][i].frame >= n}
        l    == Min(hits)
        i    == Min({j \in Starts(l) : disc.sectors[l][j].frame >= n})
    IN  IF hits # {} /\ disc.sectors[l][i].frame = n THEN l ELSE None

\* Mutant: a frame that the range does not have is not looked for again.
NoFallback(range, found) == FALSE

\* FRAME_NOT_FOUND or ACCESS_LIST_INVALID.
FallsBack(range, found) == found = None /\ range[1] # disc.start

\* dst_sector_seek
DstSectorSeek(n) ==
    LET range == AccessListRange(n)
        found == FindDstFrame(range, n)
    IN  IF FallsBack(range, found) THEN FindDstFrame(<<disc.start, disc.end>>, n)
        ELSE found

(***************************************************************************)
(* Reading a DST frame.                                                    *)
(***************************************************************************)
\* Mutant: the cached position is used for any frame.
AnyFrame(n) == cache.valid /\ cache.known

\* The reader knows where frame n starts.
Sequential(n) == cache.valid /\ cache.known /\ n = cache.num + 1

\* Sectors that a read of count sectors at lsn returns; 0 when it fails.
SectorsRead(lsn, count) ==
    IF lsn + count - 1 <= disc.last THEN count
    ELSE IF disc.input = "file" /\ lsn <= disc.last THEN disc.last - lsn + 1 ELSE 0

\* The sectors are decrypted together, or not at all.
Undecrypted(lsn, count) == disc.input = "drive" /\ lsn + count - 1 > disc.end

First(places) == CHOOSE p \in places : \A q \in places \ {p} : Before(p, q)

\* Where frame n is complete: at the next frame start, or after the last
\* sector that its sector count allows, whichever is met first.
Completion(next, ending) ==
    First({next, ending} \ {None})

\* The packets of some sectors.
Places(lsns) == UNION {{<<l, i>> : i \in DOMAIN disc.sectors[l]} : l \in lsns}

\* What the loop over the sectors lsn..lsn+count-1 collects for frame n.
Extracted(lsn, count, n, kind) ==
    LET last   == Min({lsn + count - 1, disc.end})
        here   == Places(lsn..last)
        P(p)   == disc.sectors[p[1]][p[2]]
        begin  == {p \in here : P(p).start /\ P(p).frame = n}
        b      == First(begin)
        later  == {p \in here : P(p).start /\ Before(b, p)}
        next   == IF later = {} THEN None ELSE First(later)
        wanted == {p \in here : P(p).kind = kind /\ ~Before(p, b)
                                /\ (next # None => Before(p, next))}
        lines  == {p[1] : p \in wanted}
        full   == {l \in lines : Cardinality({m \in lines : m <= l}) = disc.span[n]}
        ending == IF full = {} THEN None ELSE <<Min(full) + 1, 1>>
        done   == IF next = None /\ ending = None THEN None ELSE Completion(next, ending)
    IN  IF begin = {} THEN [out |-> {}, next |-> 0, done |-> FALSE]
        ELSE [out |-> {p \in wanted : done # None => Before(p, done)},
              next |-> IF done = None THEN 0 ELSE done[1],
              done |-> done # None]

Return(op, n, kind, status, out, raw, faulty) ==
    res' = [op |-> op, n |-> n, kind |-> kind, status |-> status, out |-> out,
            raw |-> raw, faulty |-> faulty]

\* A read of sectors fails while the frame is looked for or read.
DstReadFails(op, n, kind) ==
    /\ cache' = [cache EXCEPT !.valid = FALSE]
    /\ Return(op, n, kind, "error", {}, FALSE, TRUE)

NextKnown(next, lsn) == next > 0 /\ next > lsn

\* dst_reader_read_frame.  Sectors after the track area hold no frame: parsing
\* one may fail or find nothing.
DstReadFrame(op, n, kind) ==
    \E lsn \in {IF Sequential(n) THEN cache.lsn ELSE DstSectorSeek(n)} :
    LET count == IF Sequential(n) THEN MaxSectors ELSE Min({disc.span[n], MaxSectors})
        got   == IF lsn = None THEN 0 ELSE SectorsRead(lsn, count)
        raw   == Undecrypted(lsn, got)
        Stop(r) == /\ cache' = [cache EXCEPT !.valid = FALSE]
                   /\ Return(op, n, kind, "error", {}, r, FALSE)
        Accept(next, out) ==
            /\ cache' = [num |-> n, lsn |-> IF NextKnown(next, lsn) THEN next ELSE lsn,
                         known |-> NextKnown(next, lsn), valid |-> TRUE]
            /\ Return(op, n, kind, "ok", out, raw, FALSE)
    IN  \/ got = 0 /\ Stop(FALSE)
        \/ got > 0 /\ raw /\ (Stop(TRUE) \/ Accept(0, {}))
        \/ /\ got > 0 /\ ~raw
           /\ \E x \in {Extracted(lsn, got, n, kind)} :
                \/ ~x.done /\ lsn + got - 1 > disc.end /\ Stop(FALSE)
                \/ Accept(x.next, x.out)

(***************************************************************************)
(* Reading a frame of plain DSD.                                           *)
(***************************************************************************)
\* The byte ranges <<lsn, offset, length>> that make frame n.
FixedSlices(n) ==
    LET y == Layout(disc.format, n) IN
    [i \in DOMAIN y.slices |->
        <<disc.start + (n \div 3) * y.mul + y.add + i - 1,
          y.slices[i][1], y.slices[i][2]>>]

\* dsd_audio_fixed_read_frame: sectors are read one by one.
FixedReadFrame(op, n, kind) ==
    LET s == FixedSlices(n) IN
    /\ IF \A i \in DOMAIN s : s[i][1] <= disc.last
       THEN Return(op, n, kind, "ok", {s[i] : i \in DOMAIN s}, FALSE, FALSE)
       ELSE Return(op, n, kind, "error", {}, FALSE, FALSE)
    /\ UNCHANGED cache

(***************************************************************************)
(* The calls of the area TOC and of sacd.c.                                *)
(***************************************************************************)
Frames == 0..(disc.total - 1)

ReadFrame(op, n, kind) ==
    IF disc.format = "dst" THEN DstReadFrame(op, n, kind) ELSE FixedReadFrame(op, n, kind)

Ready == res = NoResult

\* The caller has used what it got.
TakeResult ==
    /\ ~Ready
    /\ res' = NoResult
    /\ UNCHANGED <<disc, cache, cur, faults>>

\* sacd_get_sound_data and sacd_get_supplementary_data with a frame number.
GetData(n, kind) ==
    /\ Ready
    /\ ReadFrame("read", n, kind)
    /\ UNCHANGED <<disc, cur, faults>>

\* The same at the current frame, which moves on when the read succeeds; the
\* last frame is returned with END_OF_AUDIO_DATA.
GetCurrent(kind) ==
    /\ Ready
    /\ ReadFrame(IF cur + 1 > disc.total - 1 THEN "last" ELSE "read", cur, kind)
    /\ cur' = IF res'.status # "ok" THEN cur
              ELSE IF cur + 1 > disc.total - 1 THEN 0 ELSE cur + 1
    /\ UNCHANGED <<disc, faults>>

\* sacd_area_toc_set_current_frame_num
SetCurrent(n) ==
    /\ Ready
    /\ cur' = n
    /\ UNCHANGED <<disc, cache, res, faults>>

\* sacd_get_frame_sector_range: where a frame is; the position of the reader stays.
GetSector(n) ==
    /\ Ready
    /\ IF disc.format = "dst"
       THEN IF DstSectorSeek(n) = None
            THEN Return("sector", n, "audio", "error", {}, FALSE, FALSE)
            ELSE Return("sector", n, "audio", "ok", {<<DstSectorSeek(n), disc.span[n]>>}, FALSE, FALSE)
       ELSE Return("sector", n, "audio", "ok",
                   {<<FixedSlices(n)[1][1], Len(FixedSlices(n))>>}, FALSE, FALSE)
    /\ UNCHANGED <<disc, cache, cur, faults>>

\* An I/O error.
ReadFault(n, kind) ==
    /\ Ready
    /\ faults < MaxFaults
    /\ faults' = faults + 1
    /\ IF disc.format = "dst" THEN DstReadFails("read", n, kind)
       ELSE /\ Return("read", n, kind, "error", {}, FALSE, TRUE)
            /\ UNCHANGED cache
    /\ UNCHANGED <<disc, cur>>

ReadNext ==
    \/ \E n \in Frames, kind \in Kinds : GetData(n, kind) \/ ReadFault(n, kind)
    \/ \E kind \in Kinds : GetCurrent(kind)
    \/ \E n \in Frames : SetCurrent(n) \/ GetSector(n)
    \/ TakeResult

ReadSpec == ReadInit /\ [][ReadNext]_read_vars

------------------------------------------------------------------------------
ReadTypeOK ==
    /\ DiscOK(disc)
    /\ cache \in [num : Nat, lsn : Nat, valid : BOOLEAN, known : BOOLEAN]
    /\ cur \in Frames
    /\ res.status \in {"none", "ok", "error"} /\ res.n \in Frames
    /\ faults \in 0..MaxFaults

PlacesOf(n, kind) ==
    {p \in Places(disc.start..disc.end) :
        /\ disc.sectors[p[1]][p[2]].frame = n
        /\ disc.sectors[p[1]][p[2]].kind = kind}

\* Place of a byte of a fixed layout in the audio of the track area.
AudioByte(s) ==
    (s[1] - disc.start) * (2048 - Header[disc.format]) + s[2] - Header[disc.format]

Disjoint(r, s) ==
    \/ r = s
    \/ AudioByte(r) + r[3] <= AudioByte(s)
    \/ AudioByte(s) + s[3] <= AudioByte(r)

\* The state is well typed, and whatever was read before, in whatever order,
\* and wherever frames share sectors, a read that succeeds returns the packets
\* of its frame, all of them and no others; the slices of plain DSD frames cover
\* the bytes of the frame, each once; the sector reported is where the frame starts
\* (sacd_dst_reader.c:497-508, 558-652; sacd_dsd_reader.c:152-178).
FrameExact ==
    /\ ReadTypeOK
    /\ res.status = "ok" /\ ~res.raw =>
        CASE res.op = "sector" /\ disc.format = "dst" ->
                res.out = {<<First(PlacesOf(res.n, "audio"))[1], disc.span[res.n]>>}
          [] res.op \in {"read", "last"} /\ disc.format = "dst" ->
                res.out = PlacesOf(res.n, res.kind)
          [] res.op \in {"read", "last"} /\ disc.format # "dst" ->
                /\ \E s \in res.out : AudioByte(s) = res.n * FrameBytes
                /\ \A s \in res.out :
                    \/ AudioByte(s) + s[3] = (res.n + 1) * FrameBytes
                    \/ \E r \in res.out : AudioByte(r) = AudioByte(s) + s[3]
                /\ \A r, s \in res.out : Disjoint(r, s)
          [] OTHER -> TRUE

\* Every frame of an image file can be read at any time, after failed reads
\* too: a wrong guess of the access list is made good by the search of the
\* whole area, and reading past the end of the area does no harm
\* (sacd_dst_reader.c:368-381, 518-528).
EveryFrameReadable ==
    disc.input = "file" /\ res.kind = "audio" /\ ~res.faulty => res.status # "error"

\* Not true of the code: sectors are decrypted before their packet headers are
\* parsed, as the comment at sacd_dst_reader.c:533 says.
DecryptedFirst == ~res.raw
==============================================================================
