--------------------------- MODULE DsfFileProofs ---------------------------
(***************************************************************************)
(* Proofs about DSF files, for any block size, number of channels and size *)
(* of the calls: a file that was written and finalized holds the audio and *)
(* the tag, is read back as it was written, and keeps its tag when it is   *)
(* modified and finalized in or behind the audio, as long as its sizes fit *)
(* the word they are stored in.                                            *)
(***************************************************************************)
EXTENDS DsfFile, TLAPS, SequenceTheorems, FiniteSetTheorems

----------------------------------------------------------------------------
(* Cells.                                                                  *)

Cells ==
    {Zero} \cup {c \in {"id", "num", "audio", "tag"} \X Nat \X BOOLEAN :
                    c[1] = "num" => c[2] < WORD}

\* What the calls are given: bytes of audio, or the zeros of a padding.
AudioCells == {Zero} \cup ({"audio"} \X Nat \X {FALSE})

\* Where byte k + 1 of the audio, counted in columns, is in the blocks: byte r
\* of a group, column by column, is byte Stored(r) of its blocks.
Stored(r) == (r % Channels) * BLOCK + r \div Channels
Spot(k) == (k \div GroupSize) * GroupSize + Stored(k % GroupSize)

\* What the word of a size can hold, and the reader accepts.
Fits == h.pos <= MAX_REASONABLE_CHUNK /\ h.samples < WORD

Modes == {"CLOSED", "WRITE", "READ", "MODIFY"}

TypeInv ==
    /\ h \in [mode : Modes, pos : Nat, samples : Nat, dataSize : Nat,
              buf : Seq(Cells), meta : Seq(Cells), rbuf : Seq(Cells)]
    /\ Len(h.buf) <= GroupSize /\ Len(h.rbuf) <= GroupSize
    /\ src \in [track : BOOLEAN, pos : Nat, got : Seq(Cells), eof : BOOLEAN]
    /\ log \in Seq(AudioCells) /\ tag \in Seq(Cells) /\ stage \in Stages
    /\ ret.next \in Int /\ budget \in [calls : Nat, sessions : Nat, faults : Nat]

\* The stage of the file tells whether it exists and how it is open.
StageInv ==
    /\ IF stage = "none" THEN file = NoFile /\ h.mode = "CLOSED" ELSE file \in Seq(Cells)
    /\ stage \in {"writing", "final"} => h.mode = "WRITE"
    /\ stage = "changed" => h.mode = "MODIFY"
    /\ stage \in {"saved", "modified"} => h.mode # "WRITE"
    /\ h.mode # "WRITE" => h.buf = <<>>
    /\ h.mode \in {"CLOSED", "WRITE"} => h.rbuf = <<>>
    /\ src.track => h.mode = "READ"
    /\ budget.sessions = 0 => h.mode = "CLOSED" /\ log = <<>>

\* The first n bytes of the audio l are where they belong in the file f.
InPlace(f, l, n) ==
    \A i \in 1..n : /\ AudioOffset + Spot(i - 1) < Len(f)
                    /\ f[AudioOffset + Spot(i - 1) + 1] = Reversed(l[i])

Used(l) == {i \in 1..Len(l) : l[i] # Zero}

\* The bytes of the audio l that are no padding come in columns, n of them; a
\* padding never fills a group.
Columns(l, n) ==
    /\ Cardinality(Used(l)) = n * Channels
    /\ l # <<>> => \E i \in Used(l) : i > Len(l) - GroupSize

\* While the file is written: whole groups are on disk, and the rest of the
\* audio is in the buffer.
Done == h.pos - AudioOffset
Writing ==
    /\ h.pos >= AudioOffset /\ Done % GroupSize = 0 /\ Len(file) = h.pos
    /\ Len(h.buf) < GroupSize /\ Len(log) = Done + Len(h.buf)
    /\ \A j \in 1..Len(h.buf) : h.buf[j] = Reversed(log[Done + j]) /\ log[Done + j] # Zero
    /\ \A k \in 1..AudioOffset : file[k] = Header(0, 0, 0, 0)[k]
    /\ InPlace(file, log, Done)
    /\ \E n \in Nat : h.samples = 8 * n /\ Columns(log, n)

\* A finalized file: the header, the audio l, the tag t.
Saved(f, l, t) ==
    /\ Len(l) % GroupSize = 0
    /\ Len(f) = AudioOffset + Len(l) + Len(t) /\ Len(f) <= MAX_REASONABLE_CHUNK
    /\ \E n \in Nat :
          /\ Columns(l, n)
          /\ \A k \in 1..AudioOffset :
                f[k] = Header(Len(f), IF t = <<>> THEN 0 ELSE AudioOffset + Len(l),
                              8 * n, Len(l))[k]
    /\ InPlace(f, l, Len(l))
    /\ \A k \in 1..Len(t) : f[AudioOffset + Len(l) + k] = t[k]

\* What opening the file f and finding the tag t depends on.
Sound(f) ==
    /\ Len(f) >= AudioOffset
    /\ f[1] = Cell("id", 1) /\ f[4] = Cell("id", 2) /\ f[6] = Cell("id", 3)
    /\ f[7][2] \in DataHeader..MAX_REASONABLE_CHUNK

Tagged(f, t) ==
    /\ Sound(f)
    /\ IF t = <<>> THEN Field(f, MetadataAt) = 0
       ELSE /\ 0 < Field(f, MetadataAt) /\ Field(f, MetadataAt) = Len(f) - Len(t)
            /\ \A k \in 1..Len(t) : f[Len(f) - Len(t) + k] = t[k]

FileInv ==
    /\ stage = "writing" => Writing
    /\ stage \in {"final", "saved"} => Saved(file, log, tag)
    /\ stage = "final" => h.pos = Len(file)
    /\ stage = "modified" => Tagged(file, tag)
    /\ stage = "changed" =>
          h.pos >= AudioOffset /\ h.meta = tag /\ Tagged(Resized(file, h.pos), tag)
    /\ stage \in {"saved", "modified"} /\ h.mode = "MODIFY" /\ h.meta = <<>> =>
          Field(file, MetadataAt) = 0

\* The bytes buffered in the handle g, read from the group before the position
\* on, are those of the audio from byte a + 1 on.
Buffered(g, a) ==
    /\ g.pos >= AudioOffset /\ (g.pos - AudioOffset) % GroupSize = 0
    /\ a + Len(g.rbuf) = g.pos - AudioOffset
    /\ \A i \in 1..Len(g.rbuf) : a + i <= Len(log) => g.rbuf[i] = log[a + i]
Ahead(a) == Buffered(h, a)

\* What the source has delivered.
Delivered ==
    /\ src.track /\ Ahead(src.pos) /\ Done <= Len(log)
    /\ Len(src.got) = src.pos /\ \A i \in 1..src.pos : src.got[i] = log[i]
    /\ src.eof => src.pos = Len(log)

ReadInv ==
    stage = "saved" =>
        /\ ret.next >= 0 => Ahead(ret.next)
        /\ h.mode = "READ" => h.dataSize = Len(log)
        /\ src = NoSource \/ Delivered

\* dsf_validate accepts the saved file.
Accepted ==
    stage = "saved" /\ ret.op = "validate" /\ log # <<>> /\ PaddedAtEnd => ret.ok

IInv ==
    /\ TypeInv /\ StageInv /\ FileInv
    /\ ReadInv /\ ReadsAsWritten
    /\ Accepted /\ TagFound

LEMMA CellFacts ==
    /\ Zero \in Cells /\ Zero \in AudioCells
    /\ \A c \in Cells : IsCell(c)
    /\ \A n \in Nat : Cell("audio", n) \in AudioCells /\ Cell("audio", n) # Zero
    /\ \A n \in Nat : Cell("id", n) \in Cells /\ Cell("tag", n) \in Cells
    /\ \A n \in Nat : n < WORD => Cell("num", n) \in Cells
<1>1. Zero = <<"zero", 0, FALSE>> /\ Zero \in Cells /\ Zero \in AudioCells
  BY DEF Zero, Cell, Cells, AudioCells
<1>2. IsCell(Zero)
  BY <1>1 DEF IsCell
<1>3. ASSUME NEW c \in Cells PROVE IsCell(c)
  <2>1. CASE c = Zero
    BY <1>2, <2>1
  <2>2. CASE c \in {"id", "num", "audio", "tag"} \X Nat \X BOOLEAN /\ (c[1] = "num" => c[2] < WORD)
    BY <2>2 DEF IsCell
  <2> QED
    BY <2>1, <2>2 DEF Cells
<1>4. \A n \in Nat : Cell("audio", n) \in AudioCells /\ Cell("audio", n) # Zero
  BY <1>1 DEF Cell, AudioCells
<1>5. \A n \in Nat : Cell("id", n) \in Cells /\ Cell("tag", n) \in Cells
  BY DEF Cell, Cells
<1>6. \A n \in Nat : n < WORD => Cell("num", n) \in Cells
  BY DEF Cell, Cells
<1> QED
  BY <1>1, <1>3, <1>4, <1>5, <1>6

\* ff_reverse is its own inverse.
LEMMA ReversedTwice ==
    ASSUME NEW c \in Cells
    PROVE  Reversed(c) \in Cells /\ Reversed(Reversed(c)) = c
<1>1. Zero = <<"zero", 0, FALSE>>
  BY DEF Zero, Cell
<1>2. CASE c = Zero
  BY <1>2 DEF Reversed, Cells
<1>3. ASSUME NEW k \in {"id", "num", "audio", "tag"}, NEW n \in Nat, NEW b \in BOOLEAN,
             c = <<k, n, b>>, k = "num" => n < WORD
      PROVE  Reversed(c) \in Cells /\ Reversed(Reversed(c)) = c
  <2>1. c # Zero /\ <<k, n, ~b>> # Zero
    BY <1>1, <1>3
  <2>2. Reversed(c) = <<k, n, ~b>>
    BY <1>3, <2>1 DEF Reversed
  <2>3. <<k, n, ~b>> \in Cells
    BY <1>3 DEF Cells
  <2>4. Reversed(<<k, n, ~b>>) = <<k, n, ~(~b)>>
    BY <2>1 DEF Reversed
  <2>5. ~(~b) = b
    OBVIOUS
  <2> QED
    BY <1>3, <2>2, <2>3, <2>4, <2>5
<1> QED
  BY <1>2, <1>3 DEF Cells

LEMMA AudioCellFacts ==
    /\ AudioCells \subseteq Cells
    /\ Reversed(Zero) = Zero
    /\ \A c \in AudioCells : Reversed(c) = Zero => c = Zero
<1>1. AudioCells \subseteq Cells
  BY DEF AudioCells, Cells, Zero, Cell
<1>2. Reversed(Zero) = Zero
  BY DEF Reversed
<1> QED
  BY <1>1, <1>2, ReversedTwice

----------------------------------------------------------------------------
(* Arithmetic and sequences.                                               *)

LEMMA Division ==
    ASSUME NEW a \in Nat, NEW d \in Nat \ {0}
    PROVE  a \div d \in Nat /\ a % d \in 0..(d - 1) /\ a = (a \div d) * d + (a % d)
OBVIOUS

LEMMA ProductNat == \A a, b \in Nat : a * b \in Nat
OBVIOUS

LEMMA ProductOrder ==
    ASSUME NEW a \in Nat, NEW b \in Nat, NEW c \in Nat, a < b
    PROVE  a * c + c <= b * c
<1>1. PICK e \in Nat : b = a + 1 + e
  <2>1. b - a - 1 \in Nat /\ b = a + 1 + (b - a - 1)
    OBVIOUS
  <2> QED
    BY <2>1
<1>2. b * c = a * c + c + e * c
  BY <1>1
<1>3. e * c \in Nat /\ a * c \in Nat
  BY <1>1, ProductNat
<1> QED
  BY <1>2, <1>3

LEMMA Quotient ==
    ASSUME NEW a \in Nat, NEW d \in Nat \ {0}, NEW q \in Nat, NEW r \in 0..(d - 1),
           a = q * d + r
    PROVE  a \div d = q /\ a % d = r
<1> DEFINE s == a \div d
           t == a % d
<1>1. s \in Nat /\ t \in 0..(d - 1) /\ a = s * d + t
  BY Division
<1>2. s * d \in Nat /\ q * d \in Nat
  BY <1>1, ProductNat
<1> HIDE DEF s, t
<1>3. ~(s < q)
  <2> SUFFICES ASSUME s < q PROVE FALSE
    OBVIOUS
  <2>1. s * d + d <= q * d
    BY <1>1, ProductOrder
  <2> QED
    BY <1>1, <1>2, <2>1
<1>4. ~(q < s)
  <2> SUFFICES ASSUME q < s PROVE FALSE
    OBVIOUS
  <2>1. q * d + d <= s * d
    BY <1>1, ProductOrder
  <2> QED
    BY <1>1, <1>2, <2>1
<1>5. s = q
  BY <1>1, <1>3, <1>4
<1>6. t = r
  BY <1>1, <1>2, <1>5
<1> QED
  BY <1>5, <1>6 DEF s, t

\* A function on 1..n is a sequence.
LEMMA IsSequence ==
    ASSUME NEW S, NEW n \in Nat, NEW f, f = [i \in 1..n |-> f[i]], \A i \in 1..n : f[i] \in S
    PROVE  f \in Seq(S) /\ Len(f) = n
OBVIOUS

\* A piece of a sequence.
LEMMA PieceOf ==
    ASSUME NEW S, NEW f \in Seq(S), NEW x \in Nat, NEW n \in Nat, x + n <= Len(f)
    PROVE  /\ SubSeq(f, x + 1, x + n) \in Seq(S)
           /\ Len(SubSeq(f, x + 1, x + n)) = n
           /\ \A i \in 1..n : SubSeq(f, x + 1, x + n)[i] = f[x + i]
<1>1. \A i \in 1..n : x + i \in 1..Len(f)
  OBVIOUS
<1> QED
  BY <1>1

LEMMA Concatenated ==
    ASSUME NEW S, NEW a \in Seq(S), NEW b \in Seq(S)
    PROVE  /\ a \o b \in Seq(S) /\ Len(a \o b) = Len(a) + Len(b)
           /\ Len(a) \in Nat /\ Len(b) \in Nat
           /\ \A i \in 1..Len(a) : (a \o b)[i] = a[i]
           /\ \A i \in 1..Len(b) : (a \o b)[Len(a) + i] = b[i]
<1>1. /\ a \o b \in Seq(S) /\ Len(a \o b) = Len(a) + Len(b)
      /\ Len(a) \in Nat /\ Len(b) \in Nat
      /\ \A i \in 1..(Len(a) + Len(b)) :
             (a \o b)[i] = IF i <= Len(a) THEN a[i] ELSE b[i - Len(a)]
  BY ConcatProperties, LenProperties
<1>2. ASSUME NEW i \in 1..Len(a) PROVE (a \o b)[i] = a[i]
  <2>1. i \in 1..(Len(a) + Len(b)) /\ i <= Len(a)
    BY <1>1
  <2> QED
    BY <1>1, <2>1
<1>3. ASSUME NEW i \in 1..Len(b) PROVE (a \o b)[Len(a) + i] = b[i]
  <2>1. /\ Len(a) + i \in 1..(Len(a) + Len(b)) /\ ~(Len(a) + i <= Len(a))
        /\ (Len(a) + i) - Len(a) = i
    BY <1>1
  <2> QED
    BY <1>1, <2>1
<1> QED
  BY <1>1, <1>2, <1>3

LEMMA MaxOf ==
    ASSUME NEW a \in Int, NEW b \in Int
    PROVE  Max({a, b}) = (IF a >= b THEN a ELSE b)
<1> DEFINE m == IF a >= b THEN a ELSE b
<1>1. m \in {a, b} /\ \A y \in {a, b} : m >= y
  OBVIOUS
<1>2. \A x \in {a, b} : (\A y \in {a, b} : x >= y) => x = m
  OBVIOUS
<1> HIDE DEF m
<1>3. Max({a, b}) = CHOOSE x \in {a, b} : \A y \in {a, b} : x >= y
  BY DEF Max
<1>4. Max({a, b}) \in {a, b} /\ \A y \in {a, b} : Max({a, b}) >= y
  BY <1>1, <1>3
<1> QED
  BY <1>2, <1>4 DEF m

LEMMA MinOf ==
    ASSUME NEW a \in Int, NEW b \in Int
    PROVE  Min({a, b}) = (IF a <= b THEN a ELSE b)
<1> DEFINE m == IF a <= b THEN a ELSE b
<1>1. m \in {a, b} /\ \A y \in {a, b} : m <= y
  OBVIOUS
<1>2. \A x \in {a, b} : (\A y \in {a, b} : x <= y) => x = m
  OBVIOUS
<1> HIDE DEF m
<1>3. Min({a, b}) = CHOOSE x \in {a, b} : \A y \in {a, b} : x <= y
  BY DEF Min
<1>4. Min({a, b}) \in {a, b} /\ \A y \in {a, b} : Min({a, b}) <= y
  BY <1>1, <1>3
<1> QED
  BY <1>2, <1>4 DEF m

----------------------------------------------------------------------------
(* Block groups.                                                           *)

LEMMA Sizes ==
    /\ BLOCK \in Nat \ {0} /\ Channels \in Nat \ {0} /\ FrameBytes \in Nat \ {0}
    /\ GroupSize \in Nat \ {0} /\ GroupSize = BLOCK * Channels
    /\ AudioOffset = 7
<1>1. BLOCK \in Nat \ {0} /\ Channels \in Nat \ {0} /\ FrameBytes \in Nat \ {0}
  BY ConstantsAssumption
<1>2. GroupSize \in Nat \ {0}
  BY <1>1 DEF GroupSize
<1> QED
  BY <1>1, <1>2 DEF GroupSize, AudioOffset

\* Byte r of the blocks of a group is byte Column(r) of its columns.
Column(r) == (r % BLOCK) * Channels + r \div BLOCK

LEMMA StoredOf ==
    ASSUME NEW r \in 0..(GroupSize - 1)
    PROVE  Stored(r) \in 0..(GroupSize - 1) /\ Column(Stored(r)) = r
<1> DEFINE B == BLOCK
           C == Channels
           q == r \div C
           x == r % C
<1>1. B \in Nat \ {0} /\ C \in Nat \ {0} /\ r \in Nat /\ r < B * C /\ B * C \in Nat
  BY Sizes, ProductNat
<1>2. q \in Nat /\ x \in 0..(C - 1) /\ r = q * C + x /\ q * C \in Nat
  BY <1>1, Division, ProductNat
<1>3. Stored(r) = x * B + q
  BY DEF Stored
<1>4. Column(Stored(r)) = (Stored(r) % B) * C + (Stored(r) \div B)
  BY DEF Column
<1> HIDE DEF q, x, B, C
<1>5. q < B
  <2> SUFFICES ASSUME B <= q PROVE FALSE
    BY <1>1, <1>2
  <2>1. B * C <= q * C
    <3>1. CASE B = q
      BY <1>1, <1>2, <3>1
    <3>2. CASE B < q
      <4>1. B * C + C <= q * C
        BY <1>1, <1>2, <3>2, ProductOrder
      <4> QED
        BY <1>1, <1>2, <4>1
    <3> QED
      BY <1>1, <1>2, <3>1, <3>2
  <2> QED
    BY <1>1, <1>2, <2>1
<1>6. x * B \in Nat /\ x * B + B <= C * B /\ C * B = B * C
  BY <1>1, <1>2, ProductNat, ProductOrder
<1>7. Stored(r) \in 0..(B * C - 1)
  BY <1>1, <1>2, <1>3, <1>5, <1>6
<1>8. Stored(r) \div B = x /\ Stored(r) % B = q
  <2>1. q \in 0..(B - 1) /\ Stored(r) \in Nat /\ x \in Nat
    BY <1>1, <1>2, <1>5, <1>7
  <2> QED
    BY <1>1, <1>3, <2>1, Quotient
<1> QED
  BY <1>2, <1>4, <1>7, <1>8, Sizes DEF B, C

\* A position within a sequence of groups.
LEMMA GroupAt ==
    ASSUME NEW k \in Nat
    PROVE  /\ k \div GroupSize \in Nat /\ k % GroupSize \in 0..(GroupSize - 1)
           /\ (k \div GroupSize) * GroupSize \in Nat
           /\ k = (k \div GroupSize) * GroupSize + (k % GroupSize)
BY Sizes, Division, ProductNat

\* The group of a position before the end of n groups ends before them.
LEMMA GroupEnds ==
    ASSUME NEW n \in Nat, NEW k \in Nat, k < n * GroupSize
    PROVE  (k \div GroupSize) * GroupSize + GroupSize <= n * GroupSize
<1> DEFINE G == GroupSize
           q == k \div G
<1>1. G \in Nat \ {0} /\ q \in Nat /\ q * G \in Nat /\ q * G <= k /\ n * G \in Nat
  BY Sizes, GroupAt, ProductNat
<1> HIDE DEF q, G
<1>2. q < n
  <2> SUFFICES ASSUME n <= q PROVE FALSE
    BY <1>1
  <2>1. n * G <= q * G
    <3>1. CASE n = q
      BY <1>1, <3>1
    <3>2. CASE n < q
      <4>1. n * G + G <= q * G
        BY <1>1, <3>2, ProductOrder
      <4> QED
        BY <1>1, <4>1
    <3> QED
      BY <1>1, <3>1, <3>2
  <2> QED
    BY <1>1, <2>1 DEF G
<1>3. q * G + G <= n * G
  BY <1>1, <1>2, ProductOrder
<1> QED
  BY <1>3 DEF q, G

LEMMA SpotOf ==
    ASSUME NEW k \in Nat
    PROVE  /\ Spot(k) \in Nat
           /\ Spot(k) \div GroupSize = k \div GroupSize
           /\ Spot(k) % GroupSize = Stored(k % GroupSize)
           /\ \A n \in Nat : k < n * GroupSize => Spot(k) < n * GroupSize
<1> DEFINE G == GroupSize
           q == k \div G
           r == k % G
<1>1. G \in Nat \ {0} /\ q \in Nat /\ r \in 0..(G - 1) /\ q * G \in Nat
  BY Sizes, GroupAt
<1>2. Stored(r) \in 0..(G - 1) /\ Spot(k) = q * G + Stored(r)
  BY <1>1, StoredOf DEF Spot
<1>3. \A n \in Nat : k < n * G => q * G + G <= n * G /\ n * G \in Nat
  BY <1>1, GroupEnds, ProductNat
<1> HIDE DEF q, r, G
<1>4. Spot(k) \in Nat /\ Spot(k) \div G = q /\ Spot(k) % G = Stored(r)
  <2>1. Spot(k) \in Nat
    BY <1>1, <1>2
  <2> QED
    BY <1>1, <1>2, <2>1, Quotient
<1>5. ASSUME NEW n \in Nat, k < n * G PROVE Spot(k) < n * G
  <2>1. q * G + G <= n * G /\ n * G \in Nat
    BY <1>3, <1>5
  <2> QED
    BY <1>1, <1>2, <2>1
<1> QED
  BY <1>4, <1>5 DEF q, r, G

\* A position that many groups further on.
LEMMA SpotShift ==
    ASSUME NEW a \in Nat, a % GroupSize = 0, NEW k \in Nat
    PROVE  Spot(a + k) = a + Spot(k)
<1> DEFINE G == GroupSize
           m == a \div G
           q == k \div G
           r == k % G
<1>1. /\ G \in Nat \ {0} /\ q \in Nat /\ r \in 0..(G - 1) /\ k = q * G + r /\ q * G \in Nat
      /\ m \in Nat /\ m * G \in Nat /\ a = m * G
  <2>1. /\ m \in Nat /\ m * G \in Nat /\ a = m * G + (a % G)
    BY GroupAt
  <2>2. G \in Nat \ {0} /\ q \in Nat /\ r \in 0..(G - 1) /\ k = q * G + r /\ q * G \in Nat
    BY Sizes, GroupAt
  <2>3. a % G = 0
    OBVIOUS
  <2> DEFINE x == m * G
  <2>4. a = x + 0 /\ x \in Nat
    BY <2>1, <2>3
  <2> HIDE DEF m, x
  <2>5. a = x
    BY <2>4
  <2> QED
    BY <2>1, <2>2, <2>5 DEF x
<1>2. Stored(r) \in Nat
  BY <1>1, StoredOf
<1>3. Spot(k) = q * G + Stored(r)
  BY DEF Spot
<1>4. Spot(a + k) = ((a + k) \div G) * G + Stored((a + k) % G)
  BY DEF Spot
<1> HIDE DEF m, q, r, G
<1>5. (m + q) * G = m * G + q * G
  BY <1>1
<1>6. a + k = (m + q) * G + r /\ a + k \in Nat /\ m + q \in Nat
  BY <1>1, <1>5
<1>7. (a + k) \div G = m + q /\ (a + k) % G = r
  <2> DEFINE t == a + k
             w == m + q
  <2>1. t \in Nat /\ w \in Nat /\ t = w * G + r
    BY <1>6
  <2> HIDE DEF t, w
  <2>2. t \div G = w /\ t % G = r
    BY <1>1, <2>1, Quotient
  <2> QED
    BY <2>2 DEF t, w
<1>8. Spot(a + k) = (m * G + q * G) + Stored(r)
  BY <1>4, <1>5, <1>7
<1> QED
  BY <1>1, <1>2, <1>3, <1>8

\* Where AudioInPlace looks for byte i of the audio.
LEMMA PlaceIs ==
    ASSUME NEW i \in Nat \ {0}
    PROVE  AudioOffset + ((i - 1) \div GroupSize) * GroupSize
             + (((i - 1) % GroupSize) % Channels) * BLOCK + ((i - 1) % GroupSize) \div Channels
           = AudioOffset + Spot(i - 1)
<1> DEFINE x == ((i - 1) \div GroupSize) * GroupSize
           r == (i - 1) % GroupSize
           y == (r % Channels) * BLOCK
           z == r \div Channels
<1>1. x \in Nat /\ r \in 0..(GroupSize - 1) /\ r \in Nat
  <2>1. i - 1 \in Nat
    OBVIOUS
  <2>2. x \in Nat /\ r \in 0..(GroupSize - 1)
    BY <2>1, GroupAt
  <2> HIDE DEF r
  <2> QED
    BY <2>2, Sizes
<1>2. y \in Nat /\ z \in Nat
  <2> HIDE DEF r
  <2>1. Channels \in Nat \ {0} /\ BLOCK \in Nat
    BY Sizes
  <2>2. r % Channels \in 0..(Channels - 1) /\ z \in Nat
    BY <1>1, <2>1, Division
  <2> DEFINE w == r % Channels
  <2> HIDE DEF w, z
  <2>3. w \in Nat
    BY <2>1, <2>2 DEF w
  <2> QED
    BY <2>1, <2>2, <2>3, ProductNat DEF w
<1>3. Spot(i - 1) = x + (y + z)
  BY DEF Spot, Stored
<1> HIDE DEF x, y, z
<1>4. AudioOffset + x + y + z = AudioOffset + (x + (y + z))
  BY <1>1, <1>2, Sizes
<1> QED
  BY <1>3, <1>4 DEF x, y, z

\* dsf_write_block_group: byte j + 1 of the columns is stored at its spot, and
\* the rest of the last group is zero.
LEMMA BlockGroupsOf ==
    ASSUME NEW buf \in Seq(Cells), NEW n \in Nat
    PROVE  /\ BlockGroups(buf, n) \in Seq(Cells) /\ Len(BlockGroups(buf, n)) = n * GroupSize
           /\ n * GroupSize \in Nat
           /\ \A j \in 0..(n * GroupSize - 1) :
                 /\ Spot(j) + 1 \in 1..(n * GroupSize)
                 /\ BlockGroups(buf, n)[Spot(j) + 1] = IF j < Len(buf) THEN buf[j + 1] ELSE Zero
<1> DEFINE G == GroupSize
           x == n * G
           f == BlockGroups(buf, n)
           At(k) == ((k - 1) \div G) * G + (((k - 1) % G) % BLOCK) * Channels
                      + ((k - 1) % G) \div BLOCK
<1>1. x \in Nat /\ Len(buf) \in Nat
  BY Sizes, ProductNat
<1>2. f = [k \in 1..x |-> IF At(k) < Len(buf) THEN buf[At(k) + 1] ELSE Zero]
  BY DEF BlockGroups
<1>3. ASSUME NEW k \in 1..x
      PROVE  /\ At(k) = ((k - 1) \div G) * G + Column((k - 1) % G)
             /\ At(k) \in Nat
  <2> DEFINE r == (k - 1) % G
             y == ((k - 1) \div G) * G
             c == (r % BLOCK) * Channels
             d == r \div BLOCK
  <2>1. k - 1 \in Nat
    BY <1>1
  <2>2. y \in Nat /\ r \in 0..(G - 1)
    BY <2>1, GroupAt
  <2>3. At(k) = y + c + d /\ Column(r) = c + d
    BY DEF Column
  <2>4. c \in Nat /\ d \in Nat
    <3> DEFINE w == r % BLOCK
    <3> HIDE DEF r
    <3>1. r \in Nat /\ BLOCK \in Nat \ {0} /\ Channels \in Nat
      BY <2>2, Sizes
    <3>2. w \in 0..(BLOCK - 1) /\ d \in Nat
      BY <3>1, Division
    <3> HIDE DEF w, d
    <3>3. w \in Nat
      BY <3>1, <3>2
    <3> QED
      BY <3>1, <3>2, <3>3, ProductNat DEF w
  <2> HIDE DEF At, y, c, d, r
  <2>5. At(k) = y + Column(r) /\ At(k) \in Nat
    BY <2>2, <2>3, <2>4
  <2> QED
    BY <2>5 DEF y, r
<1> HIDE DEF At
<1>4. \A k \in 1..x : f[k] \in Cells
  <2> SUFFICES ASSUME NEW k \in 1..x PROVE f[k] \in Cells
    OBVIOUS
  <2>1. f[k] = IF At(k) < Len(buf) THEN buf[At(k) + 1] ELSE Zero
    BY <1>2
  <2>2. At(k) \in Nat
    BY <1>3
  <2> HIDE DEF f
  <2> QED
    BY <1>1, <2>1, <2>2, CellFacts
<1>5. f \in Seq(Cells) /\ Len(f) = x
  <2>1. f = [k \in 1..x |-> f[k]]
    BY <1>2
  <2> HIDE DEF f, x
  <2> QED
    BY <1>1, <1>4, <2>1, IsSequence
<1>6. ASSUME NEW j \in 0..(x - 1)
      PROVE  Spot(j) + 1 \in 1..x /\ f[Spot(j) + 1] = IF j < Len(buf) THEN buf[j + 1] ELSE Zero
  <2>1. j \in Nat /\ j < x
    BY <1>1
  <2>2. /\ Spot(j) \in Nat /\ Spot(j) \div G = j \div G /\ Spot(j) % G = Stored(j % G)
        /\ Spot(j) < x
    BY <2>1, SpotOf
  <2>3. Spot(j) + 1 \in 1..x /\ (Spot(j) + 1) - 1 = Spot(j)
    <3> HIDE DEF x
    <3> QED
      BY <1>1, <2>2
  <2>4. At(Spot(j) + 1) = (j \div G) * G + Column(Stored(j % G))
    BY <1>3, <2>2, <2>3
  <2>5. Column(Stored(j % G)) = j % G /\ j = (j \div G) * G + (j % G)
    BY <2>1, GroupAt, StoredOf
  <2>6. At(Spot(j) + 1) = j
    BY <2>4, <2>5
  <2> HIDE DEF x, f
  <2> QED
    BY <1>2, <2>3, <2>6
<1> QED
  BY <1>1, <1>5, <1>6 DEF f, x

\* dsf_convert_block_to_byte_interleaved: byte k + 1 comes from its spot.
LEMMA ByteInterleavedOf ==
    ASSUME NEW cells \in Seq(Cells), NEW n \in Nat, Len(cells) = n * GroupSize
    PROVE  /\ ByteInterleaved(cells) \in Seq(Cells) /\ Len(ByteInterleaved(cells)) = Len(cells)
           /\ \A k \in 0..(Len(cells) - 1) :
                 /\ Spot(k) + 1 \in 1..Len(cells)
                 /\ ByteInterleaved(cells)[k + 1] = Reversed(cells[Spot(k) + 1])
<1> DEFINE G == GroupSize
           x == Len(cells)
           f == ByteInterleaved(cells)
           At(k) == ((k - 1) \div G) * G + (((k - 1) % G) % Channels) * BLOCK
                      + ((k - 1) % G) \div Channels
<1>1. x \in Nat
  OBVIOUS
<1>2. f = [k \in 1..x |-> Reversed(cells[At(k) + 1])]
  BY DEF ByteInterleaved
<1>3. ASSUME NEW k \in 0..(x - 1)
      PROVE  Spot(k) + 1 \in 1..x /\ f[k + 1] = Reversed(cells[Spot(k) + 1])
  <2>1. k \in Nat /\ k < n * GroupSize
    BY <1>1
  <2>2. Spot(k) \in Nat /\ Spot(k) < x
    BY <2>1, SpotOf
  <2>3. Spot(k) + 1 \in 1..x /\ k + 1 \in 1..x /\ (k + 1) - 1 = k
    <3> HIDE DEF x
    <3> QED
      BY <1>1, <2>2
  <2>4. At(k + 1) = Spot(k)
    <3> DEFINE r == k % G
               y == (k \div G) * G
               c == (r % Channels) * BLOCK
               d == r \div Channels
    <3>1. y \in Nat /\ r \in 0..(G - 1)
      BY <2>1, GroupAt
    <3>2. At(k + 1) = y + c + d /\ Spot(k) = y + (c + d)
      BY <2>3 DEF Spot, Stored
    <3>3. c \in Nat /\ d \in Nat
      <4> DEFINE w == r % Channels
      <4> HIDE DEF r
      <4>1. r \in Nat /\ Channels \in Nat \ {0} /\ BLOCK \in Nat
        BY <3>1, Sizes
      <4>2. w \in 0..(Channels - 1) /\ d \in Nat
        BY <4>1, Division
      <4> HIDE DEF w, d
      <4>3. w \in Nat
        BY <4>1, <4>2
      <4> QED
        BY <4>1, <4>2, <4>3, ProductNat DEF w
    <3> HIDE DEF At, y, c, d, r
    <3> QED
      BY <3>1, <3>2, <3>3
  <2> HIDE DEF At, x, f
  <2> QED
    BY <1>2, <2>3, <2>4
<1> HIDE DEF At
<1>4. \A k \in 1..x : f[k] \in Cells
  <2> SUFFICES ASSUME NEW k \in 1..x PROVE f[k] \in Cells
    OBVIOUS
  <2>1. k - 1 \in 0..(x - 1) /\ (k - 1) + 1 = k
    BY <1>1
  <2>2. Spot(k - 1) + 1 \in 1..x /\ f[k] = Reversed(cells[Spot(k - 1) + 1])
    BY <1>3, <2>1
  <2> HIDE DEF f
  <2> QED
    BY <2>2, ReversedTwice
<1>5. f \in Seq(Cells) /\ Len(f) = x
  <2>1. f = [k \in 1..x |-> f[k]]
    BY <1>2
  <2> HIDE DEF f, x
  <2> QED
    BY <1>1, <1>4, <2>1, IsSequence
<1> QED
  BY <1>3, <1>5 DEF f, x

----------------------------------------------------------------------------
(* The file.                                                               *)

LEMMA WrittenOf ==
    ASSUME NEW f \in Seq(Cells), NEW at \in Nat, NEW cells \in Seq(Cells)
    PROVE  /\ Written(f, at, cells) \in Seq(Cells)
           /\ Len(f) <= Len(Written(f, at, cells))
           /\ cells # <<>> /\ Len(f) <= at + Len(cells) =>
                 Len(Written(f, at, cells)) = at + Len(cells)
           /\ cells = <<>> \/ at + Len(cells) <= Len(f) =>
                 Len(Written(f, at, cells)) = Len(f)
           /\ \A i \in 1..Len(f) : ~(at < i /\ i <= at + Len(cells)) =>
                 Written(f, at, cells)[i] = f[i]
           /\ \A k \in 1..Len(cells) : Written(f, at, cells)[at + k] = cells[k]
<1>1. Len(f) \in Nat /\ Len(cells) \in Nat
  OBVIOUS
<1>2. CASE cells = <<>>
  <2>1. Written(f, at, cells) = f /\ Len(cells) = 0
    BY <1>2 DEF Written
  <2> QED
    BY <1>1, <1>2, <2>1
<1>3. CASE cells # <<>>
  <2> DEFINE w == Written(f, at, cells)
             m == IF Len(f) >= at + Len(cells) THEN Len(f) ELSE at + Len(cells)
  <2>0. Len(cells) > 0
    BY <1>1, <1>3
  <2>1. Max({Len(f), at + Len(cells)}) = m /\ m \in Nat
    BY <1>1, MaxOf
  <2>2. w = [i \in 1..m |-> IF at < i /\ i <= at + Len(cells) THEN cells[i - at]
                            ELSE IF i <= Len(f) THEN f[i] ELSE Zero]
    BY <1>3, <2>1 DEF Written
  <2>3. m >= Len(f) /\ m >= at + Len(cells) /\ (m = Len(f) \/ m = at + Len(cells))
        /\ (Len(f) <= at + Len(cells) => m = at + Len(cells))
        /\ (at + Len(cells) <= Len(f) => m = Len(f))
    BY <1>1
  <2> HIDE DEF m, w
  <2>4. ASSUME NEW i \in 1..m PROVE w[i] \in Cells
    <3>1. CASE at < i /\ i <= at + Len(cells)
      <4>1. i - at \in 1..Len(cells) /\ w[i] = cells[i - at]
        BY <1>1, <2>2, <3>1
      <4> QED
        BY <4>1
    <3>2. CASE ~(at < i /\ i <= at + Len(cells)) /\ i <= Len(f)
      <4>1. i \in 1..Len(f) /\ w[i] = f[i]
        BY <1>1, <2>1, <2>2, <3>2
      <4> QED
        BY <4>1
    <3>3. CASE ~(at < i /\ i <= at + Len(cells)) /\ ~(i <= Len(f))
      BY <2>2, <3>3, CellFacts
    <3> QED
      BY <3>1, <3>2, <3>3
  <2>5. w \in Seq(Cells) /\ Len(w) = m
    <3>1. w = [i \in 1..m |-> w[i]]
      BY <2>2
    <3> QED
      BY <2>1, <2>4, <3>1, IsSequence
  <2>6. \A i \in 1..Len(f) : ~(at < i /\ i <= at + Len(cells)) => w[i] = f[i]
    BY <1>1, <2>1, <2>2, <2>3
  <2>7. \A k \in 1..Len(cells) : w[at + k] = cells[k]
    <3> SUFFICES ASSUME NEW k \in 1..Len(cells) PROVE w[at + k] = cells[k]
      OBVIOUS
    <3>1. at + k \in 1..m /\ at < at + k /\ at + k <= at + Len(cells) /\ (at + k) - at = k
      BY <1>1, <2>1, <2>3
    <3> QED
      BY <2>2, <3>1
  <2> QED
    BY <1>3, <2>0, <2>3, <2>5, <2>6, <2>7, <1>1 DEF w
<1> QED
  BY <1>2, <1>3

LEMMA ResizedOf ==
    ASSUME NEW f \in Seq(Cells), NEW n \in Nat
    PROVE  /\ Resized(f, n) \in Seq(Cells) /\ Len(Resized(f, n)) = n
           /\ \A i \in 1..n : i <= Len(f) => Resized(f, n)[i] = f[i]
           /\ n = Len(f) => Resized(f, n) = f
<1> DEFINE w == Resized(f, n)
<1>1. Len(f) \in Nat
  OBVIOUS
<1>2. w = [i \in 1..n |-> IF i <= Len(f) THEN f[i] ELSE Zero]
  BY DEF Resized
<1> HIDE DEF w
<1>3. ASSUME NEW i \in 1..n PROVE w[i] \in Cells
  <2>1. CASE i <= Len(f)
    <3>1. i \in 1..Len(f) /\ w[i] = f[i]
      BY <1>1, <1>2, <2>1
    <3> QED
      BY <3>1
  <2>2. CASE ~(i <= Len(f))
    BY <1>2, <2>2, CellFacts
  <2> QED
    BY <2>1, <2>2
<1>4. w \in Seq(Cells) /\ Len(w) = n
  <2>1. w = [i \in 1..n |-> w[i]]
    BY <1>2
  <2> QED
    BY <1>3, <2>1, IsSequence
<1>5. \A i \in 1..n : i <= Len(f) => w[i] = f[i]
  BY <1>2
<1>6. ASSUME n = Len(f) PROVE w = f
  <2>1. \A i \in 1..n : w[i] = f[i]
    BY <1>1, <1>5, <1>6
  <2> QED
    BY <1>4, <1>6, <2>1
<1> QED
  BY <1>4, <1>5, <1>6 DEF w

----------------------------------------------------------------------------
(* The header.                                                             *)

LEMMA Words ==
    /\ WORD \in Nat \ {0} /\ MAX_REASONABLE_CHUNK \in Nat /\ DataHeader = 2
    /\ MAX_REASONABLE_CHUNK + AudioOffset < WORD
BY DEF WORD, MAX_REASONABLE_CHUNK, DataHeader, AudioOffset

LEMMA WordOf ==
    ASSUME NEW n \in Int, n + WORD \in Nat
    PROVE  U64(n) \in 0..(WORD - 1) /\ (n \in 0..(WORD - 1) => U64(n) = n)
<1>0. WORD \in Nat \ {0}
  BY Words
<1>1. n + WORD \in Nat
  OBVIOUS
<1>2. U64(n) \in 0..(WORD - 1)
  BY <1>0, <1>1, Division DEF U64
<1>3. ASSUME n \in 0..(WORD - 1) PROVE U64(n) = n
  <2> DEFINE t == n + WORD
             w == WORD
  <2>1. t \in Nat /\ 1 \in Nat /\ w \in Nat \ {0} /\ n \in 0..(w - 1) /\ t = 1 * w + n
    BY <1>0, <1>3
  <2> HIDE DEF t, w
  <2>2. t % w = n
    BY <2>1, Quotient
  <2> QED
    BY <2>2 DEF U64, t, w
<1> QED
  BY <1>2, <1>3

LEMMA HeaderOf ==
    ASSUME NEW a, NEW b, NEW c, NEW d
    PROVE  LET s == Header(a, b, c, d) IN
           /\ Len(s) = 7
           /\ s[1] = Cell("id", 1) /\ s[2] = Cell("num", a) /\ s[3] = Cell("num", b)
           /\ s[4] = Cell("id", 2) /\ s[5] = Cell("num", c)
           /\ s[6] = Cell("id", 3) /\ s[7] = Cell("num", U64(DataHeader + d))
<1>1. ChunkId[0] = 1 /\ ChunkId[3] = 2 /\ ChunkId[5] = 3
  BY DEF ChunkId
<1> DEFINE n(x) == Cell("num", x)
           i1 == Cell("id", 1)
           i2 == Cell("id", 2)
           i3 == Cell("id", 3)
           e == n(U64(DataHeader + d))
           s == Header(a, b, c, d)
<1>2. s = <<i1, n(a), n(b)>> \o <<i2, n(c)>> \o <<i3, e>>
  BY <1>1 DEF Header, DsdChunk, FmtChunk, DataChunk
<1> HIDE DEF n, i1, i2, i3, e, s
<1>3. /\ Len(s) = 7
      /\ s[1] = i1 /\ s[2] = n(a) /\ s[3] = n(b) /\ s[4] = i2 /\ s[5] = n(c)
      /\ s[6] = i3 /\ s[7] = e
  BY <1>2
<1> QED
  BY <1>3 DEF n, i1, i2, i3, e, s

\* What dsf_read_file_structure refuses.
LEMMA BadCellsOf ==
    ASSUME NEW f \in Seq(Cells)
    PROVE  BadCells(f) = {} <=> Sound(f)
<1>1. ChunkId[0] = 1 /\ ChunkId[3] = 2 /\ ChunkId[5] = 3 /\ DOMAIN ChunkId = {0, 3, 5}
  BY DEF ChunkId
<1>2. AudioOffset = 7 /\ DataSizeAt = 6 /\ Len(f) \in Nat
  BY DEF AudioOffset, DataSizeAt
<1>3. ASSUME BadCells(f) = {} PROVE Sound(f)
  <2>1. \A i \in 1..7 : ~(i > Len(f)) /\ ~WrongId(f, i) /\ ~WrongSize(f, i)
    BY <1>2, <1>3 DEF BadCells
  <2>2. Len(f) >= 7
    BY <1>2, <2>1
  <2>3. f[1] = Cell("id", 1) /\ f[4] = Cell("id", 2) /\ f[6] = Cell("id", 3)
    BY <1>1, <2>1 DEF WrongId
  <2>4. f[7][2] \in DataHeader..MAX_REASONABLE_CHUNK
    BY <1>2, <2>1 DEF WrongSize
  <2> QED
    BY <1>2, <2>2, <2>3, <2>4 DEF Sound
<1>4. ASSUME Sound(f) PROVE BadCells(f) = {}
  <2> SUFFICES ASSUME NEW i \in 1..7, i > Len(f) \/ WrongId(f, i) \/ WrongSize(f, i)
               PROVE  FALSE
    BY <1>2 DEF BadCells
  <2>1. ~(i > Len(f))
    BY <1>2, <1>4 DEF Sound
  <2>2. ~WrongId(f, i)
    BY <1>1, <1>4 DEF Sound, WrongId
  <2>3. ~WrongSize(f, i)
    BY <1>2, <1>4 DEF Sound, WrongSize
  <2> QED
    BY <2>1, <2>2, <2>3
<1> QED
  BY <1>3, <1>4

LEMMA StopsAtOf == \A f \in Seq(Cells) : StopsAt(f) \in Nat
<1> SUFFICES ASSUME NEW f \in Seq(Cells) PROVE StopsAt(f) \in Nat
  OBVIOUS
<1> DEFINE b == BadCells(f)
<1>1. b \subseteq 1..7 /\ Len(f) \in Nat
  BY DEF BadCells, AudioOffset
<1>2. StopsAt(f) = IF b = {} THEN 7 ELSE Min({Min(b), Len(f)})
  BY DEF StopsAt, AudioOffset
<1> HIDE DEF b
<1>3. CASE b = {}
  BY <1>2, <1>3
<1>4. CASE b # {}
  <2>1. \E m \in b : \A y \in b : m <= y
    <3>1. \A i \in b : i \in {1, 2, 3, 4, 5, 6, 7}
      BY <1>1
    <3>2. CASE 1 \in b
      BY <3>1, <3>2
    <3>3. CASE 2 \in b /\ b \cap {1} = {}
      BY <3>1, <3>3
    <3>4. CASE 3 \in b /\ b \cap {1, 2} = {}
      BY <3>1, <3>4
    <3>5. CASE 4 \in b /\ b \cap {1, 2, 3} = {}
      BY <3>1, <3>5
    <3>6. CASE 5 \in b /\ b \cap {1, 2, 3, 4} = {}
      BY <3>1, <3>6
    <3>7. CASE 6 \in b /\ b \cap {1, 2, 3, 4, 5} = {}
      BY <3>1, <3>7
    <3>8. CASE 7 \in b /\ b \cap {1, 2, 3, 4, 5, 6} = {}
      BY <3>1, <3>8
    <3> QED
      BY <1>4, <3>1, <3>2, <3>3, <3>4, <3>5, <3>6, <3>7, <3>8
  <2>2. Min(b) \in b
    <3>1. Min(b) = CHOOSE x \in b : \A y \in b : x <= y
      BY DEF Min
    <3> QED
      BY <2>1, <3>1
  <2> DEFINE m == Min(b)
  <2> HIDE DEF m
  <2>5. m \in b
    BY <2>2 DEF m
  <2>3. m \in Nat
    BY <1>1, <2>5
  <2>4. Min({Min(b), Len(f)}) \in Nat
    BY <1>1, <2>3, MinOf DEF m
  <2> QED
    BY <1>2, <1>4, <2>4
<1> QED
  BY <1>3, <1>4

----------------------------------------------------------------------------
(* Whole groups, and the audio counted in columns.                         *)

LEMMA ProductMonotone ==
    ASSUME NEW a \in Nat, NEW b \in Nat, NEW c \in Nat
    PROVE  /\ a <= b => a * c <= b * c
           /\ a * c < b * c => a < b
<1>1. a < b => a * c + c <= b * c
  BY ProductOrder
<1>2. b < a => b * c + c <= a * c
  BY ProductOrder
<1> DEFINE x == a * c
           y == b * c
<1>3. x \in Nat /\ y \in Nat /\ (a = b => x = y)
  BY ProductNat
<1> HIDE DEF x, y
<1>4. (a < b => x + c <= y) /\ (b < a => y + c <= x)
  BY <1>1, <1>2 DEF x, y
<1>5. (a <= b => x <= y) /\ (x < y => a < b)
  BY <1>3, <1>4
<1> QED
  BY <1>5 DEF x, y

\* The number of groups that hold x bytes, and the number of whole groups
\* that x bytes hold.
LEMMA CeilingOf ==
    ASSUME NEW x \in Nat, NEW d \in Nat \ {0}, NEW q \in Nat,
           q * d < x + d, x <= q * d
    PROVE  (x + d - 1) \div d = q
<1> DEFINE y == q * d
           r == x + d - 1 - y
           t == x + d - 1
<1>1. y \in Nat
  BY ProductNat
<1> HIDE DEF y
<1>2. y < x + d /\ x <= y
  BY DEF y
<1>3. r \in 0..(d - 1) /\ t \in Nat /\ t = y + r
  BY <1>1, <1>2
<1> HIDE DEF r, t
<1>4. t = q * d + r
  BY <1>3 DEF y
<1>5. t \div d = q
  BY <1>3, <1>4, Quotient
<1> QED
  BY <1>5 DEF t

LEMMA CeilingFacts ==
    ASSUME NEW x \in Nat, NEW d \in Nat \ {0}
    PROVE  /\ (x + d - 1) \div d \in Nat
           /\ x <= ((x + d - 1) \div d) * d
           /\ ((x + d - 1) \div d) * d < x + d
           /\ \A k \in Nat : x <= k * d => (x + d - 1) \div d <= k
<1> DEFINE t == x + d - 1
           q == t \div d
           r == t % d
           y == q * d
<1>1. t \in Nat
  OBVIOUS
<1> HIDE DEF t
<1>2. q \in Nat /\ r \in 0..(d - 1) /\ t = y + r /\ y \in Nat
  BY <1>1, Division, ProductNat
<1> HIDE DEF q, r, y
<1>3. x <= y /\ y < x + d
  BY <1>2 DEF t
<1>4. ASSUME NEW k \in Nat, x <= k * d PROVE q <= k
  <2> SUFFICES ASSUME k < q PROVE FALSE
    BY <1>2
  <2>1. k * d + d <= y /\ k * d \in Nat
    BY <1>2, ProductOrder, ProductNat DEF y
  <2> DEFINE z == k * d
  <2>2. z \in Nat /\ x <= z /\ z + d <= y
    BY <1>4, <2>1
  <2> HIDE DEF z
  <2> QED
    BY <1>2, <1>3, <2>2
<1> QED
  BY <1>2, <1>3, <1>4 DEF t, q, y

LEMMA FloorFacts ==
    ASSUME NEW x \in Nat, NEW d \in Nat \ {0}
    PROVE  /\ x \div d \in Nat /\ (x \div d) * d \in Nat
           /\ (x \div d) * d <= x /\ x < (x \div d) * d + d
           /\ \A k \in Nat : k * d <= x => k <= x \div d
<1> DEFINE q == x \div d
           r == x % d
           y == q * d
<1>1. q \in Nat /\ r \in 0..(d - 1) /\ x = y + r /\ y \in Nat
  BY Division, ProductNat
<1> HIDE DEF q, r, y
<1>2. y <= x /\ x < y + d
  BY <1>1
<1>3. ASSUME NEW k \in Nat, k * d <= x PROVE k <= q
  <2> SUFFICES ASSUME q < k PROVE FALSE
    BY <1>1
  <2>1. y + d <= k * d /\ k * d \in Nat
    BY <1>1, ProductOrder, ProductNat DEF y
  <2> DEFINE z == k * d
  <2>2. z \in Nat /\ z <= x /\ y + d <= z
    BY <1>3, <2>1
  <2> HIDE DEF z
  <2> QED
    BY <1>1, <1>2, <2>2
<1> QED
  BY <1>1, <1>2, <1>3 DEF q, y

\* Whole groups after whole groups.
LEMMA WholeGroups ==
    ASSUME NEW a \in Nat, a % GroupSize = 0, NEW n \in Nat
    PROVE  /\ a = (a \div GroupSize) * GroupSize
           /\ n * GroupSize \in Nat
           /\ (a + n * GroupSize) % GroupSize = 0
<1> DEFINE G == GroupSize
           m == a \div G
           x == m * G
           y == n * G
<1>1. G \in Nat \ {0} /\ m \in Nat /\ x \in Nat /\ y \in Nat /\ a = x + (a % G)
  <2>1. m \in Nat /\ x \in Nat /\ a = x + (a % G)
    BY GroupAt
  <2>2. G \in Nat \ {0} /\ y \in Nat
    BY Sizes, ProductNat
  <2> QED
    BY <2>1, <2>2
<1>2. a % G = 0
  OBVIOUS
<1>3. (m + n) * G = x + y
  BY <1>1
<1> DEFINE t == a + y
           w == m + n
<1> HIDE DEF m, x, y, G
<1>4. a = x
  BY <1>1, <1>2
<1>5. t \in Nat /\ w \in Nat /\ 0 \in 0..(G - 1) /\ t = w * G + 0
  <2>1. t \in Nat /\ w \in Nat /\ 0 \in 0..(G - 1) /\ t = x + y
    BY <1>1, <1>4
  <2> DEFINE v == w * G
  <2>2. v = x + y
    BY <1>3
  <2> HIDE DEF v, t
  <2>3. t = v + 0
    BY <2>1, <2>2, <1>1
  <2> QED
    BY <2>1, <2>3 DEF v
<1>6. t % G = 0
  <2> HIDE DEF t, w
  <2> QED
    BY <1>1, <1>5, Quotient
<1> QED
  BY <1>1, <1>4, <1>6 DEF m, x, y, G, t

LEMMA CountTo ==
    ASSUME NEW n \in Nat
    PROVE  IsFiniteSet(1..n) /\ Cardinality(1..n) = n
<1>1. 1 \in Int /\ n \in Int /\ (IF 1 > n THEN 0 ELSE n - 1 + 1) = n
  OBVIOUS
<1>2. IsFiniteSet(1..n) /\ Cardinality(1..n) = IF 1 > n THEN 0 ELSE n - 1 + 1
  BY <1>1, FS_Interval
<1> QED
  BY <1>1, <1>2

LEMMA ColumnsAppend ==
    ASSUME NEW l \in Seq(AudioCells), NEW x \in Seq(AudioCells), NEW n \in Nat,
           NEW m \in Nat \ {0}, Columns(l, n), Len(x) = m * Channels,
           \A i \in 1..Len(x) : x[i] # Zero
    PROVE  Columns(l \o x, n + m)
<1> DEFINE y == l \o x
           I == (Len(l) + 1)..(Len(l) + Len(x))
<1>1. /\ Len(y) = Len(l) + Len(x) /\ Len(l) \in Nat /\ Len(x) \in Nat
      /\ \A i \in 1..Len(l) : y[i] = l[i]
      /\ \A i \in 1..Len(x) : y[Len(l) + i] = x[i]
  BY ONLY l \in Seq(AudioCells), x \in Seq(AudioCells), Concatenated
<1> HIDE DEF y
<1>2. Len(x) > 0
  <2>1. Channels \in Nat \ {0}
    BY Sizes
  <2>2. 0 * Channels + Channels <= m * Channels
    BY <2>1, ProductOrder
  <2> QED
    BY <1>1, <2>1, <2>2
<1>3. \A i \in I : y[i] # Zero
  <2> SUFFICES ASSUME NEW i \in I PROVE y[i] # Zero
    OBVIOUS
  <2>1. i - Len(l) \in 1..Len(x) /\ Len(l) + (i - Len(l)) = i
    BY <1>1
  <2> QED
    BY <1>1, <2>1
<1>4. Used(y) = Used(l) \cup I
  <2>1. \A i \in 1..Len(y) : i \in 1..Len(l) \/ i \in I
    BY <1>1
  <2>2. 1..Len(l) \subseteq 1..Len(y) /\ I \subseteq 1..Len(y) /\ (1..Len(l)) \cap I = {}
    BY <1>1
  <2>3. \A i : i \in Used(y) <=> i \in 1..Len(y) /\ y[i] # Zero
    BY DEF Used
  <2>4. \A i : i \in Used(l) <=> i \in 1..Len(l) /\ l[i] # Zero
    BY DEF Used
  <2> HIDE DEF I
  <2> QED
    BY <1>1, <1>3, <2>1, <2>2, <2>3, <2>4, ZenonT(60)
<1>5. /\ IsFiniteSet(Used(l)) /\ IsFiniteSet(I) /\ Used(l) \cap I = {}
      /\ Cardinality(I) = Len(x) /\ Cardinality(Used(l)) \in Nat
  <2>1. IsFiniteSet(1..Len(l)) /\ IsFiniteSet(I) /\ Cardinality(I) = Len(x)
    <3>1. IsFiniteSet(1..Len(l))
      BY <1>1, FS_Interval
    <3> DEFINE a == Len(l) + 1
               b == Len(l) + Len(x)
    <3>2. a \in Int /\ b \in Int /\ I = a..b
      BY <1>1
    <3> HIDE DEF a, b, I
    <3>3. IsFiniteSet(a..b) /\ Cardinality(a..b) = IF a > b THEN 0 ELSE b - a + 1
      BY ONLY <3>2, FS_Interval
    <3>4. IsFiniteSet(I) /\ Cardinality(I) = IF a > b THEN 0 ELSE b - a + 1
      BY <3>2, <3>3
    <3> QED
      BY <1>1, <1>2, <3>1, <3>4 DEF a, b
  <2>2. Used(l) \subseteq 1..Len(l)
    BY DEF Used
  <2>3. Used(l) \cap I = {}
    BY <1>1, <2>2
  <2>4. IsFiniteSet(Used(l))
    BY <2>1, <2>2, FS_Subset
  <2> QED
    BY <2>1, <2>3, <2>4, FS_CardinalityType
<1>6. Cardinality(Used(y)) = Cardinality(Used(l)) + Len(x)
  <2>1. Cardinality(Used(l) \cup I)
          = Cardinality(Used(l)) + Cardinality(I) - Cardinality(Used(l) \cap I)
    BY <1>5, FS_Union
  <2>2. Cardinality(Used(l) \cap I) = 0
    BY <1>5, FS_EmptySet
  <2> HIDE DEF I
  <2> QED
    BY <1>1, <1>4, <1>5, <2>1, <2>2
<1>7. Cardinality(Used(l)) = n * Channels
  BY DEF Columns
<1>8. n * Channels + m * Channels = (n + m) * Channels
  BY Sizes
<1>9. Len(y) \in Used(y) /\ Len(y) > Len(y) - GroupSize
  <2>1. Len(y) \in I
    BY <1>1, <1>2
  <2> QED
    BY <1>1, <1>4, <2>1, Sizes
<1> QED
  BY <1>6, <1>7, <1>8, <1>9 DEF Columns, y

LEMMA ColumnsPad ==
    ASSUME NEW l \in Seq(AudioCells), NEW x \in Seq(AudioCells), NEW n \in Nat,
           Columns(l, n), l # <<>>, l[Len(l)] # Zero, Len(x) < GroupSize,
           \A i \in 1..Len(x) : x[i] = Zero
    PROVE  Columns(l \o x, n)
<1> DEFINE y == l \o x
<1>1. /\ Len(y) = Len(l) + Len(x) /\ Len(l) \in Nat /\ Len(x) \in Nat
      /\ \A i \in 1..Len(l) : y[i] = l[i]
      /\ \A i \in 1..Len(x) : y[Len(l) + i] = x[i]
  BY Concatenated
<1> HIDE DEF y
<1>2. \A i \in 1..Len(y) : i \in 1..Len(l) \/ (i \notin 1..Len(l) /\ y[i] = Zero)
  <2> SUFFICES ASSUME NEW i \in 1..Len(y), i \notin 1..Len(l) PROVE y[i] = Zero
    OBVIOUS
  <2>1. i - Len(l) \in 1..Len(x) /\ Len(l) + (i - Len(l)) = i
    BY <1>1
  <2> QED
    BY <1>1, <2>1
<1>3. 1..Len(l) \subseteq 1..Len(y)
  BY <1>1
<1>4. Used(y) = Used(l)
  <2>3. \A i : i \in Used(y) <=> i \in 1..Len(y) /\ y[i] # Zero
    BY DEF Used
  <2>4. \A i : i \in Used(l) <=> i \in 1..Len(l) /\ l[i] # Zero
    BY DEF Used
  <2>5. ASSUME NEW i \in Used(y) PROVE i \in Used(l)
    <3>1. i \in 1..Len(y) /\ y[i] # Zero
      BY <2>3
    <3>2. i \in 1..Len(l) /\ y[i] = l[i]
      BY <1>1, <1>2, <3>1
    <3> QED
      BY <2>4, <3>1, <3>2
  <2>6. ASSUME NEW i \in Used(l) PROVE i \in Used(y)
    <3>1. i \in 1..Len(l) /\ l[i] # Zero
      BY <2>4
    <3>2. i \in 1..Len(y) /\ y[i] = l[i]
      BY <1>1, <1>3, <3>1
    <3> QED
      BY <2>3, <3>1, <3>2
  <2> QED
    BY <2>5, <2>6
<1>5. Len(l) \in Used(y) /\ Len(l) > Len(y) - GroupSize
  <2>1. Len(l) \in 1..Len(l)
    BY <1>1
  <2> QED
    BY <1>1, <1>4, <2>1, Sizes DEF Used
<1>6. Cardinality(Used(l)) = n * Channels
  BY DEF Columns
<1> QED
  BY <1>4, <1>5, <1>6 DEF Columns, y

\* dsf_calculate_audio_data_size of the samples is the audio that was written,
\* if only its last group was padded.
LEMMA ExpectedSize ==
    ASSUME NEW l \in Seq(AudioCells), NEW n \in Nat, Columns(l, n),
           Len(l) % GroupSize = 0, l # <<>>,
           \A i \in 1..(Len(l) - GroupSize) : l[i] # Zero
    PROVE  AudioDataSize(8 * n) = Len(l)
<1> DEFINE B == BLOCK
           C == Channels
           k == Len(l) \div GroupSize
           c == Cardinality(Used(l))
<1>1. /\ B \in Nat \ {0} /\ C \in Nat \ {0} /\ GroupSize \in Nat \ {0} /\ Len(l) \in Nat \ {0}
      /\ k \in Nat /\ Len(l) = k * GroupSize
  <2>1. /\ B \in Nat \ {0} /\ C \in Nat \ {0} /\ GroupSize \in Nat \ {0}
        /\ Len(l) \in Nat \ {0}
    BY Sizes
  <2>2. k \in Nat
    BY GroupAt
  <2>3. Len(l) = k * GroupSize
    <3>1. 0 \in Nat /\ Len(l) \in Nat /\ Len(l) % GroupSize = 0
      BY <2>1
    <3> QED
      BY <3>1, WholeGroups
  <2> QED
    BY <2>1, <2>2, <2>3
<1>2. k \in Nat \ {0}
  <2>1. 0 * GroupSize = 0
    BY <1>1
  <2> QED
    BY <1>1, <2>1
<1>3. (8 * n + 7) \div 8 = n
  <2> DEFINE t == 8 * n + 7
  <2>1. t \in Nat /\ 7 \in 0..(8 - 1) /\ t = n * 8 + 7 /\ 8 \in Nat \ {0}
    OBVIOUS
  <2> HIDE DEF t
  <2>2. t \div 8 = n
    BY <2>1, Quotient
  <2> QED
    BY <2>2 DEF t
<1>4. PICK e \in Nat : k = e + 1
  <2>1. k - 1 \in Nat /\ k = (k - 1) + 1
    BY <1>2
  <2> QED
    BY <2>1
<1>5. Len(l) - GroupSize = e * GroupSize /\ e * GroupSize \in Nat
  <2>1. (e + 1) * GroupSize = e * GroupSize + GroupSize
    BY <1>1
  <2> DEFINE x == e * GroupSize
             y == k * GroupSize
  <2>2. x \in Nat /\ y = x + GroupSize
    BY <1>1, <1>4, <2>1, ProductNat
  <2>3. Len(l) = y
    BY <1>1
  <2> HIDE DEF x, y
  <2>4. Len(l) - GroupSize = x
    BY <1>1, <2>2, <2>3
  <2> QED
    BY <2>2, <2>4 DEF x
\* The bytes before the last group, one of the last group, none after it.
<1>6. c <= k * GroupSize /\ e * GroupSize < c /\ c \in Nat
  <2> DEFINE x == e * GroupSize
  <2>1. PICK i \in Used(l) : i > Len(l) - GroupSize
    BY <1>1 DEF Columns
  <2>2. Used(l) \subseteq 1..Len(l) /\ IsFiniteSet(1..Len(l)) /\ Cardinality(1..Len(l)) = Len(l)
    <3>1. Used(l) \subseteq 1..Len(l)
      BY DEF Used
    <3> QED
      BY <1>1, <3>1, CountTo
  <2>3. IsFiniteSet(Used(l)) /\ c <= Len(l) /\ c \in Nat
    BY <2>2, FS_Subset, FS_CardinalityType
  <2>4. (1..x) \cup {i} \subseteq Used(l)
    <3>1. Len(l) - GroupSize = x /\ x \in Nat
      BY <1>5
    <3> HIDE DEF x
    <3>2. ASSUME NEW j \in 1..x PROVE j \in Used(l)
      <4>1. j \in 1..Len(l) /\ j \in 1..(Len(l) - GroupSize)
        BY <1>1, <3>1, SMTT(40)
      <4> QED
        BY <4>1 DEF Used
    <3> QED
      BY <2>1, <3>2
  <2>5. i \notin 1..x
    <3>1. Len(l) - GroupSize = x /\ x \in Nat
      BY <1>5
    <3> HIDE DEF x
    <3> QED
      BY <2>1, <3>1
  <2>6. IsFiniteSet(1..x) /\ Cardinality(1..x) = x /\ x \in Nat
    <3>1. x \in Nat
      BY <1>5
    <3> HIDE DEF x
    <3> QED
      BY <3>1, CountTo
  <2> HIDE DEF x, c
  <2>7. Cardinality((1..x) \cup {i}) = x + 1
    BY <2>5, <2>6, FS_AddElement, ZenonT(60)
  <2>8. x + 1 <= c
    BY <2>3, <2>4, <2>7, FS_Subset DEF c
  <2>9. x < c
    BY <2>3, <2>6, <2>8
  <2> QED
    BY <1>1, <2>3, <2>9 DEF x
<1>7. c = n * C
  BY DEF Columns
<1>8. n <= k * B /\ e * B < n
  <2>1. k * GroupSize = (k * B) * C /\ e * GroupSize = (e * B) * C
    <3>1. \A x, y, z \in Nat : x * (y * z) = (x * y) * z
      OBVIOUS
    <3>2. GroupSize = B * C /\ B \in Nat /\ C \in Nat /\ k \in Nat /\ e \in Nat
      BY <1>1, <1>4 DEF GroupSize
    <3> HIDE DEF k, B, C
    <3> QED
      BY <3>1, <3>2
  <2> DEFINE x == k * B
             y == e * B
  <2>2. x \in Nat /\ y \in Nat
    BY <1>1, <1>4, ProductNat
  <2>3. x * C \in Nat /\ y * C \in Nat /\ n * C \in Nat
    BY <1>1, <2>2, ProductNat
  <2> HIDE DEF x, y, k, B, C, c
  <2>4. n * C <= x * C /\ y * C < n * C
    BY <1>6, <1>7, <2>1 DEF x, y
  <2>5. C \in Nat
    BY <1>1
  <2>6. y < n
    BY <2>2, <2>4, <2>5, ProductMonotone
  <2>7. ~(x < n)
    <3> SUFFICES ASSUME x < n PROVE FALSE
      OBVIOUS
    <3>1. x * C + C <= n * C
      BY <2>2, <2>5, ProductOrder
    <3> DEFINE u == x * C
               v == n * C
    <3>2. u \in Nat /\ v \in Nat /\ u + C <= v /\ v <= u
      BY <2>3, <2>4, <3>1
    <3> HIDE DEF u, v
    <3> QED
      BY <1>1, <3>2
  <2> QED
    BY <2>2, <2>6, <2>7 DEF x, y
<1>9. (n + B - 1) \div B = k
  <2> DEFINE x == k * B
             y == e * B
  <2>1. (e + 1) * B = e * B + B
    BY <1>1
  <2>2. x \in Nat /\ y \in Nat /\ x = y + B
    BY <1>1, <1>4, <2>1, ProductNat
  <2> HIDE DEF y
  <2>3. y < n /\ n <= x
    BY <1>8 DEF y
  <2>4. k * B < n + B /\ n <= k * B
    <3> HIDE DEF x, B
    <3>1. x < n + B
      BY <1>1, <2>2, <2>3
    <3> QED
      BY <2>3, <3>1 DEF x
  <2> HIDE DEF x, k, B
  <2> QED
    BY <1>1, <2>4, CeilingOf
<1>10. AudioDataSize(8 * n) = k * GroupSize
  <2>1. AudioDataSize(8 * n) = ((((8 * n + 7) \div 8) + B - 1) \div B) * GroupSize
    BY DEF AudioDataSize
  <2> HIDE DEF k, B
  <2> QED
    BY <1>3, <1>9, <2>1
<1> QED
  BY <1>1, <1>10

----------------------------------------------------------------------------
(* The file that is written.                                               *)

LEMMA InPlaceExtends ==
    ASSUME NEW f, NEW l \in Seq(AudioCells), NEW x \in Seq(AudioCells), NEW d \in Nat,
           d <= Len(l), InPlace(f, l, d)
    PROVE  InPlace(f, l \o x, d)
<1>1. \A i \in 1..d : i \in 1..Len(l)
  OBVIOUS
<1>2. \A i \in 1..Len(l) : (l \o x)[i] = l[i]
  BY ONLY l \in Seq(AudioCells), x \in Seq(AudioCells), Concatenated
<1>3. \A i \in 1..d : (l \o x)[i] = l[i]
  BY <1>1, <1>2
<1> QED
  BY <1>3 DEF InPlace

\* Whole groups written at the end of the file.
LEMMA GroupsWritten ==
    ASSUME NEW f \in Seq(Cells), NEW l \in Seq(AudioCells), NEW d \in Nat, NEW w \in Nat,
           NEW all \in Seq(Cells), d % GroupSize = 0, Len(f) = AudioOffset + d,
           InPlace(f, l, d),
           \A j \in 1..(w * GroupSize) :
              Reversed(l[d + j]) = IF j <= Len(all) THEN all[j] ELSE Zero
    PROVE  LET F == Written(f, AudioOffset + d, BlockGroups(all, w)) IN
           /\ F \in Seq(Cells) /\ Len(F) = AudioOffset + d + w * GroupSize
           /\ w * GroupSize \in Nat
           /\ \A i \in 1..Len(f) : F[i] = f[i]
           /\ InPlace(F, l, d + w * GroupSize)
           /\ (d + w * GroupSize) % GroupSize = 0
<1> DEFINE x == w * GroupSize
           cells == BlockGroups(all, w)
           at == AudioOffset + d
           F == Written(f, at, cells)
<1>1. /\ cells \in Seq(Cells) /\ Len(cells) = x /\ x \in Nat
      /\ \A j \in 0..(x - 1) :
            /\ Spot(j) + 1 \in 1..x
            /\ cells[Spot(j) + 1] = IF j < Len(all) THEN all[j + 1] ELSE Zero
  BY BlockGroupsOf
<1>2. at \in Nat /\ Len(all) \in Nat /\ AudioOffset \in Nat
  BY Sizes
<1>3. (d + x) % GroupSize = 0
  BY WholeGroups
<1>4. Spot(d + 0) = d + Spot(0) /\ \A k \in Nat : Spot(d + k) = d + Spot(k)
  BY SpotShift
<1> HIDE DEF x, cells, at
<1>5. /\ F \in Seq(Cells)
      /\ Len(f) <= Len(F)
      /\ cells # <<>> /\ Len(f) <= at + Len(cells) => Len(F) = at + Len(cells)
      /\ cells = <<>> \/ at + Len(cells) <= Len(f) => Len(F) = Len(f)
      /\ \A i \in 1..Len(f) : ~(at < i /\ i <= at + Len(cells)) => F[i] = f[i]
      /\ \A k \in 1..Len(cells) : F[at + k] = cells[k]
  BY <1>1, <1>2, WrittenOf, ZenonT(60)
<1> HIDE DEF F
<1>6. Len(f) = at /\ Len(F) = at + x
  <2>1. Len(f) = at
    BY DEF at
  <2>2. CASE cells = <<>>
    <3>1. x = 0 /\ Len(F) = Len(f)
      BY <1>1, <1>5, <2>2
    <3> QED
      BY <1>2, <2>1, <3>1
  <2>3. CASE cells # <<>>
    <3>1. Len(f) <= at + Len(cells)
      BY <1>1, <1>2, <2>1
    <3>2. Len(F) = at + Len(cells)
      BY <1>5, <2>3, <3>1
    <3> QED
      BY <1>1, <2>1, <3>2
  <2> QED
    BY <2>2, <2>3
<1>7. \A i \in 1..Len(f) : F[i] = f[i]
  BY <1>2, <1>5, <1>6
<1>8. InPlace(F, l, d + x)
  <2> SUFFICES ASSUME NEW i \in 1..(d + x)
               PROVE  /\ AudioOffset + Spot(i - 1) < Len(F)
                      /\ F[AudioOffset + Spot(i - 1) + 1] = Reversed(l[i])
    BY DEF InPlace
  <2>1. CASE i <= d
    <3>1. i \in 1..d
      BY <2>1
    <3>2. /\ AudioOffset + Spot(i - 1) < Len(f)
          /\ f[AudioOffset + Spot(i - 1) + 1] = Reversed(l[i])
      BY <3>1 DEF InPlace
    <3>3. Spot(i - 1) \in Nat
      <4>1. i - 1 \in Nat
        BY <3>1
      <4> QED
        BY <4>1, SpotOf
    <3>4. AudioOffset + Spot(i - 1) + 1 \in 1..Len(f)
      BY <1>2, <3>2, <3>3
    <3> QED
      BY <1>1, <1>2, <1>6, <1>7, <3>2, <3>3, <3>4
  <2>2. CASE ~(i <= d)
    <3> DEFINE j == i - 1 - d
               s == Spot(j)
    <3>1. j \in 0..(x - 1) /\ j \in Nat /\ i = d + (j + 1) /\ j + 1 \in 1..x /\ i - 1 = d + j
      BY <1>1, <2>2
    <3>2. Spot(i - 1) = d + s
      BY <1>4, <3>1
    <3>3. s + 1 \in 1..x /\ cells[s + 1] = IF j < Len(all) THEN all[j + 1] ELSE Zero
      BY <1>1, <3>1
    <3> HIDE DEF j, s
    <3>4. s \in Nat
      BY <3>1, SpotOf DEF s
    <3>5. F[at + (s + 1)] = cells[s + 1]
      BY <1>1, <1>5, <3>3
    <3>6. Reversed(l[d + (j + 1)]) = IF j + 1 <= Len(all) THEN all[j + 1] ELSE Zero
      BY <3>1 DEF x
    <3>7. j < Len(all) <=> j + 1 <= Len(all)
      BY <1>2, <3>1
    <3>8. F[at + (s + 1)] = Reversed(l[i])
      BY <3>1, <3>3, <3>5, <3>6, <3>7
    <3>9. AudioOffset + Spot(i - 1) + 1 = at + (s + 1)
      BY <1>2, <3>2, <3>4 DEF at
    <3>10. AudioOffset + Spot(i - 1) < Len(F)
      BY <1>1, <1>2, <1>6, <3>2, <3>3, <3>4 DEF at
    <3> QED
      BY <3>8, <3>9, <3>10
  <2> QED
    BY <2>1, <2>2
<1>9. Len(F) = AudioOffset + d + x
  BY <1>6 DEF at
<1> QED
  BY <1>1, <1>3, <1>5, <1>7, <1>8, <1>9 DEF x, cells, at, F

----------------------------------------------------------------------------
(* A file that was saved.                                                  *)

LEMMA FieldPlaces ==
    /\ FileSizeAt + 1 = 2 /\ MetadataAt + 1 = 3 /\ SampleCountAt + 1 = 5
    /\ DataSizeAt + 1 = 7 /\ AudioOffset = 7
BY DEF FileSizeAt, MetadataAt, SampleCountAt, DataSizeAt, AudioOffset

LEMMA SavedFields ==
    ASSUME NEW f \in Seq(Cells), NEW l \in Seq(AudioCells), NEW t \in Seq(Cells),
           Saved(f, l, t)
    PROVE  /\ Len(f) = 7 + Len(l) + Len(t) /\ Len(f) <= MAX_REASONABLE_CHUNK
           /\ Field(f, FileSizeAt) = Len(f)
           /\ Field(f, MetadataAt) = IF t = <<>> THEN 0 ELSE 7 + Len(l)
           /\ Field(f, DataSizeAt) = 2 + Len(l)
           /\ \E n \in Nat : Columns(l, n) /\ Field(f, SampleCountAt) = 8 * n
           /\ Sound(f) /\ Tagged(f, t)
<1> DEFINE m == IF t = <<>> THEN 0 ELSE AudioOffset + Len(l)
<1>1. PICK n \in Nat :
         /\ Columns(l, n)
         /\ \A k \in 1..AudioOffset : f[k] = Header(Len(f), m, 8 * n, Len(l))[k]
  BY DEF Saved
<1>2. /\ Len(f) = 7 + Len(l) + Len(t) /\ Len(f) <= MAX_REASONABLE_CHUNK /\ Len(f) \in Nat
      /\ Len(l) \in Nat /\ Len(t) \in Nat /\ (t # <<>> => Len(t) > 0) /\ (t = <<>> => Len(t) = 0)
  BY FieldPlaces, Words DEF Saved
<1> HIDE DEF m
<1>3. /\ f[1] = Cell("id", 1) /\ f[2] = Cell("num", Len(f)) /\ f[3] = Cell("num", m)
      /\ f[4] = Cell("id", 2) /\ f[5] = Cell("num", 8 * n)
      /\ f[6] = Cell("id", 3) /\ f[7] = Cell("num", U64(DataHeader + Len(l)))
  <2> DEFINE s == Header(Len(f), m, 8 * n, Len(l))
  <2>1. /\ s[1] = Cell("id", 1) /\ s[2] = Cell("num", Len(f)) /\ s[3] = Cell("num", m)
        /\ s[4] = Cell("id", 2) /\ s[5] = Cell("num", 8 * n)
        /\ s[6] = Cell("id", 3) /\ s[7] = Cell("num", U64(DataHeader + Len(l)))
    BY HeaderOf
  <2> HIDE DEF s
  <2>2. \A k \in 1..7 : f[k] = s[k]
    BY <1>1, FieldPlaces DEF s
  <2> QED
    BY <2>1, <2>2
<1>4. U64(DataHeader + Len(l)) = 2 + Len(l) /\ 2 + Len(l) <= MAX_REASONABLE_CHUNK
  <2>1. /\ WORD \in Nat /\ MAX_REASONABLE_CHUNK \in Nat /\ MAX_REASONABLE_CHUNK < WORD
        /\ DataHeader = 2
    BY Words, FieldPlaces
  <2> DEFINE x == DataHeader + Len(l)
  <2>2. x \in Int /\ x + WORD \in Nat /\ x \in 0..(WORD - 1)
    BY <1>2, <2>1
  <2> HIDE DEF x
  <2>3. U64(x) = x
    BY <2>2, WordOf
  <2> QED
    BY <1>2, <2>1, <2>3 DEF x
<1>5. /\ Field(f, FileSizeAt) = Len(f) /\ Field(f, MetadataAt) = m
      /\ Field(f, DataSizeAt) = 2 + Len(l) /\ Field(f, SampleCountAt) = 8 * n
  BY <1>3, <1>4, FieldPlaces, SMTT(40) DEF Field, Cell
<1>6. m = IF t = <<>> THEN 0 ELSE 7 + Len(l)
  BY FieldPlaces DEF m
<1>7. Sound(f)
  <2>1. f[7][2] = 2 + Len(l)
    BY <1>3, <1>4 DEF Cell
  <2> DEFINE v == f[7][2]
  <2> HIDE DEF v
  <2>3. v = 2 + Len(l)
    BY <2>1 DEF v
  <2>4. v \in DataHeader..MAX_REASONABLE_CHUNK
    BY <1>2, <1>4, <2>3, Words
  <2>2. f[7][2] \in DataHeader..MAX_REASONABLE_CHUNK
    BY <2>4 DEF v
  <2> QED
    BY <1>2, <1>3, <2>2, FieldPlaces DEF Sound
<1>8. Tagged(f, t)
  <2>1. CASE t = <<>>
    BY <1>5, <1>6, <1>7, <2>1 DEF Tagged
  <2>2. CASE t # <<>>
    <3>1. Len(f) - Len(t) = 7 + Len(l) /\ 0 < 7 + Len(l)
      BY <1>2
    <3>2. \A k \in 1..Len(t) : f[Len(f) - Len(t) + k] = t[k]
      BY <3>1, FieldPlaces DEF Saved
    <3> QED
      BY <1>5, <1>6, <1>7, <2>2, <3>1, <3>2 DEF Tagged
  <2> QED
    BY <2>1, <2>2
<1> QED
  BY <1>1, <1>2, <1>5, <1>6, <1>7, <1>8

\* dsf_chunk_read_metadata finds the tag.
LEMMA MetadataOf ==
    ASSUME NEW f \in Seq(Cells), NEW t \in Seq(Cells), Tagged(f, t)
    PROVE  Metadata(f) = t
<1> DEFINE at == Field(f, MetadataAt)
<1>1. Metadata(f) = IF 0 < at /\ at < Len(f) THEN SubSeq(f, at + 1, Len(f)) ELSE <<>>
  BY DEF Metadata
<1>2. Len(f) \in Nat /\ Len(t) \in Nat
  OBVIOUS
<1>3. CASE t = <<>>
  <2>1. at = 0
    BY <1>3 DEF Tagged
  <2> HIDE DEF at
  <2> QED
    BY <1>1, <1>3, <2>1
<1>4. CASE t # <<>>
  <2>1. 0 < at /\ at = Len(f) - Len(t) /\ \A k \in 1..Len(t) : f[Len(f) - Len(t) + k] = t[k]
    BY <1>4 DEF Tagged
  <2>2. Len(t) > 0
    BY <1>4
  <2> HIDE DEF at
  <2>3. at \in Nat /\ at < Len(f) /\ at + Len(t) <= Len(f) /\ Len(f) = at + Len(t)
    BY <1>2, <2>1, <2>2
  <2>4. Metadata(f) = SubSeq(f, at + 1, at + Len(t))
    BY <1>1, <2>1, <2>3
  <2>5. /\ SubSeq(f, at + 1, at + Len(t)) \in Seq(Cells)
        /\ Len(SubSeq(f, at + 1, at + Len(t))) = Len(t)
        /\ \A i \in 1..Len(t) : SubSeq(f, at + 1, at + Len(t))[i] = f[at + i]
    BY <1>2, <2>3, PieceOf, SMTT(40)
  <2> DEFINE s == SubSeq(f, at + 1, at + Len(t))
  <2> HIDE DEF s
  <2>6. s \in Seq(Cells) /\ Len(s) = Len(t) /\ \A i \in 1..Len(t) : s[i] = t[i]
    BY <2>1, <2>5 DEF s
  <2>7. s = t
    BY <2>6
  <2> QED
    BY <2>4, <2>7 DEF s
<1> QED
  BY <1>3, <1>4

\* dsf_chunk_validate_file accepts it.
LEMMA SavedAcceptable ==
    ASSUME NEW f \in Seq(Cells), NEW l \in Seq(AudioCells), NEW t \in Seq(Cells),
           Saved(f, l, t), l # <<>>, \A i \in 1..(Len(l) - GroupSize) : l[i] # Zero
    PROVE  Acceptable(f)
<1> DEFINE size == Field(f, FileSizeAt)
           meta == Field(f, MetadataAt)
           data == Field(f, DataSizeAt) - DataHeader
           computed == AudioDataSize(Field(f, SampleCountAt))
<1>1. PICK n \in Nat : Columns(l, n) /\ Field(f, SampleCountAt) = 8 * n
  BY SavedFields
<1>2. /\ Len(f) = 7 + Len(l) + Len(t) /\ size = Len(f)
      /\ meta = (IF t = <<>> THEN 0 ELSE 7 + Len(l)) /\ data = Len(l)
      /\ Sound(f)
  <2>1. /\ Len(f) = 7 + Len(l) + Len(t) /\ Field(f, FileSizeAt) = Len(f)
        /\ Field(f, MetadataAt) = IF t = <<>> THEN 0 ELSE 7 + Len(l)
        /\ Field(f, DataSizeAt) = 2 + Len(l)
        /\ Sound(f)
    BY SavedFields
  <2>4. Field(f, DataSizeAt) = 2 + Len(l)
    BY <2>1
  <2>5. Len(l) \in Nat /\ DataHeader = 2
    BY Words
  <2> DEFINE x == Field(f, DataSizeAt)
  <2> HIDE DEF x
  <2>6. x - DataHeader = Len(l)
    BY <2>4, <2>5 DEF x
  <2>2. Field(f, DataSizeAt) - DataHeader = Len(l)
    BY <2>6 DEF x
  <2>3. data = Len(l)
    BY <2>2
  <2> QED
    BY <2>1, <2>3, Zenon
<1>3. Len(l) % GroupSize = 0
  BY DEF Saved
<1>4. computed = Len(l)
  BY <1>1, <1>3, ExpectedSize
<1>5. BadCells(f) = {}
  BY <1>2, BadCellsOf
<1> HIDE DEF size, meta, data, computed
<1>6. Len(l) \in Nat /\ Len(l) > 0 /\ Len(t) \in Nat /\ (t # <<>> => Len(t) > 0)
      /\ GroupSize \in Nat /\ Tolerance \in Nat /\ DataHeader = 2 /\ AudioOffset = 7
  BY Sizes, ConstantsAssumption, Words
<1>7. Min({Len(f), size}) = Len(f) /\ Len(f) \in Nat
  BY <1>2, <1>6, MinOf
<1>8. /\ size <= Len(f) /\ Len(f) - size <= Tolerance
      /\ AudioOffset + data <= Min({Len(f), size})
      /\ computed > 0 /\ computed - data <= GroupSize /\ data - computed <= GroupSize
  BY <1>2, <1>4, <1>6, <1>7
<1>9. meta > 0 => AudioOffset + data <= meta /\ meta < Len(f)
  BY <1>2, <1>6
<1> QED
  BY <1>5, <1>8, <1>9 DEF Acceptable, size, meta, data, computed

LEMMA HeaderSequence ==
    ASSUME NEW a, NEW b, NEW c, NEW d, NEW S, \A k \in 1..7 : Header(a, b, c, d)[k] \in S
    PROVE  Header(a, b, c, d) \in Seq(S)
<1> DEFINE s == Header(a, b, c, d)
           p == DsdChunk(a, b)
           q == FmtChunk(c)
           r == DataChunk(d)
<1>1. s = p \o q \o r
  BY DEF Header
<1>2. Len(p) = 3 /\ Len(q) = 2 /\ Len(r) = 2
  BY DEF DsdChunk, FmtChunk, DataChunk
<1>3. /\ p = <<s[1], s[2], s[3]>> /\ q = <<s[4], s[5]>> /\ r = <<s[6], s[7]>>
  <2>1. ChunkId[0] = 1 /\ ChunkId[3] = 2 /\ ChunkId[5] = 3
    BY DEF ChunkId
  <2>2. /\ s[1] = Cell("id", 1) /\ s[2] = Cell("num", a) /\ s[3] = Cell("num", b)
        /\ s[4] = Cell("id", 2) /\ s[5] = Cell("num", c)
        /\ s[6] = Cell("id", 3) /\ s[7] = Cell("num", U64(DataHeader + d))
    BY HeaderOf
  <2> HIDE DEF s
  <2> QED
    BY <2>1, <2>2, Zenon DEF DsdChunk, FmtChunk, DataChunk
<1> HIDE DEF s, p, q, r
<1>4. \A k \in 1..7 : s[k] \in S
  BY DEF s
<1>5. p \in Seq(S) /\ q \in Seq(S) /\ r \in Seq(S)
  BY <1>3, <1>4
<1>6. p \o q \in Seq(S)
  BY <1>5, Concatenated
<1>7. (p \o q) \o r \in Seq(S)
  BY <1>5, <1>6, Concatenated
<1> QED
  BY <1>1, <1>7 DEF s

\* What dsf_create writes.
LEMMA EmptyHeader ==
    LET f == Header(0, 0, 0, 0) IN
    /\ f \in Seq(Cells) /\ Len(f) = AudioOffset
    /\ f[1] = Cell("id", 1) /\ f[4] = Cell("id", 2) /\ f[6] = Cell("id", 3)
<1> DEFINE f == Header(0, 0, 0, 0)
<1>1. /\ Len(f) = 7
      /\ f[1] = Cell("id", 1) /\ f[2] = Cell("num", 0) /\ f[3] = Cell("num", 0)
      /\ f[4] = Cell("id", 2) /\ f[5] = Cell("num", 0)
      /\ f[6] = Cell("id", 3) /\ f[7] = Cell("num", U64(DataHeader + 0))
  BY HeaderOf
<1>2. 0 < WORD /\ U64(DataHeader + 0) \in Nat /\ U64(DataHeader + 0) < WORD
  <2> DEFINE x == DataHeader + 0
  <2>1. x \in Int /\ x + WORD \in Nat /\ WORD \in Nat \ {0}
    BY Words
  <2> HIDE DEF x
  <2>2. U64(x) \in 0..(WORD - 1)
    BY <2>1, WordOf
  <2> QED
    BY <2>1, <2>2 DEF x
<1>3. /\ Cell("id", 1) \in Cells /\ Cell("id", 2) \in Cells /\ Cell("id", 3) \in Cells
      /\ Cell("num", 0) \in Cells /\ Cell("num", U64(DataHeader + 0)) \in Cells
  BY <1>2, CellFacts
<1>4. \A k \in 1..7 : f[k] \in Cells
  <2> HIDE DEF f
  <2> SUFFICES ASSUME NEW k \in 1..7 PROVE f[k] \in Cells
    OBVIOUS
  <2>1. k = 1 \/ k = 2 \/ k = 3 \/ k = 4 \/ k = 5 \/ k = 6 \/ k = 7
    OBVIOUS
  <2> QED
    BY <1>1, <1>3, <2>1
<1>5. f \in Seq(Cells)
  BY <1>4, HeaderSequence
<1> HIDE DEF f
<1>6. f \in Seq(Cells) /\ Len(f) = AudioOffset
  BY <1>1, <1>5, FieldPlaces
<1> QED
  BY <1>1, <1>6 DEF f

LEMMA FieldNat ==
    ASSUME NEW f \in Seq(Cells), NEW at \in Nat, at + 1 <= Len(f)
    PROVE  Field(f, at) \in Nat
<1>1. f[at + 1] \in Cells
  OBVIOUS
<1>2. IsCell(f[at + 1])
  BY <1>1, CellFacts
<1> QED
  BY <1>2 DEF IsCell, Field

LEMMA NoPiece ==
    ASSUME NEW f \in Seq(Cells), NEW x \in Nat
    PROVE  SubSeq(f, x + 1, x) = <<>>
OBVIOUS

\* dsf_read_file_structure.
LEMMA OpenedOf ==
    ASSUME file \in Seq(Cells), Sound(file), NEW m \in Modes
    PROVE  LET o == Opened(m) IN
           /\ o \in [mode : Modes, pos : Nat, samples : Nat, dataSize : Nat,
                     buf : Seq(Cells), meta : Seq(Cells), rbuf : Seq(Cells)]
           /\ o.mode = m /\ o.buf = <<>> /\ o.rbuf = <<>> /\ o.meta = Metadata(file)
           /\ o.dataSize = Field(file, DataSizeAt) - DataHeader
<1> DEFINE size == Field(file, DataSizeAt) - DataHeader
           samples == Field(file, SampleCountAt)
           at == Field(file, MetadataAt)
           s == IF size = AudioDataSize(samples) THEN samples
                ELSE ((size \div Channels) \div BLOCK) * BLOCK * 8
           p == IF Metadata(file) = <<>> THEN AudioOffset ELSE Len(file)
<1>1. Len(file) \in Nat /\ Len(file) >= 7
  BY FieldPlaces DEF Sound
<1>2. size \in Nat /\ samples \in Nat /\ at \in Nat
  <2>1. samples \in Nat /\ at \in Nat
    BY <1>1, FieldNat DEF SampleCountAt, MetadataAt
  <2> DEFINE v == Field(file, DataSizeAt)
  <2>2. v \in DataHeader..MAX_REASONABLE_CHUNK
    BY FieldPlaces DEF Sound, Field
  <2> HIDE DEF v
  <2>3. v - DataHeader \in Nat
    BY <2>2, Words
  <2> QED
    BY <2>1, <2>3 DEF v
<1> HIDE DEF size, samples, at
<1>3. s \in Nat
  <2> DEFINE x == size \div Channels
  <2>1. x \in Nat
    BY <1>2, Sizes, Division
  <2> DEFINE y == x \div BLOCK
  <2> HIDE DEF x
  <2>2. y \in Nat
    BY <2>1, Sizes, Division
  <2> DEFINE z == y * BLOCK
  <2> HIDE DEF y
  <2>3. z \in Nat
    BY <2>2, Sizes, ProductNat
  <2> HIDE DEF z
  <2>4. z * 8 \in Nat
    BY <2>3
  <2> QED
    BY <1>2, <2>4 DEF x, y, z
<1>4. Metadata(file) \in Seq(Cells)
  <2>1. Metadata(file) = IF 0 < at /\ at < Len(file) THEN SubSeq(file, at + 1, Len(file)) ELSE <<>>
    BY DEF Metadata, at
  <2>2. CASE 0 < at /\ at < Len(file)
    <3>1. at + (Len(file) - at) = Len(file) /\ Len(file) - at \in Nat
      BY <1>1, <1>2, <2>2
    <3>2. SubSeq(file, at + 1, at + (Len(file) - at)) \in Seq(Cells)
      BY <1>1, <1>2, <3>1, PieceOf
    <3> QED
      BY <2>1, <2>2, <3>1, <3>2
  <2>3. CASE ~(0 < at /\ at < Len(file))
    BY <2>1, <2>3
  <2> QED
    BY <2>2, <2>3
<1>5. p \in Nat
  BY <1>1, Sizes
<1>6. Opened(m) = [mode |-> m, pos |-> p, samples |-> s, dataSize |-> size,
                   buf |-> <<>>, meta |-> Metadata(file), rbuf |-> <<>>]
  <2>1. Opened(m) = [Closed EXCEPT !.mode = m, !.dataSize = size, !.meta = Metadata(file),
                                   !.samples = s, !.pos = p]
    BY DEF Opened, size, samples
  <2> HIDE DEF s, p
  <2> QED
    BY <2>1 DEF Closed
<1> HIDE DEF s, p
<1>7. <<>> \in Seq(Cells)
  OBVIOUS
<1> QED
  BY <1>2, <1>3, <1>4, <1>5, <1>6, <1>7 DEF size

----------------------------------------------------------------------------
(* Reading.                                                                *)

\* How many groups a read of n bytes needs, how many the file still has, and
\* the bytes at hand once k groups were read.
Needed(n) ==
    IF n <= Len(h.rbuf) THEN 0 ELSE (n - Len(h.rbuf) + GroupSize - 1) \div GroupSize
There == IF h.pos > Len(file) THEN 0 ELSE (Len(file) - h.pos) \div GroupSize
Gathered(k) == h.rbuf \o ByteInterleaved(SubSeq(file, h.pos + 1, h.pos + k * GroupSize))

LEMMA NeededOf ==
    ASSUME TypeInv, NEW n \in Nat
    PROVE  /\ Needed(n) \in Nat /\ Needed(n) * GroupSize \in Nat
           /\ Len(h.rbuf) \in Nat /\ n <= Len(h.rbuf) + Needed(n) * GroupSize
           /\ Len(h.rbuf) + Needed(n) * GroupSize <= n + GroupSize
           /\ \A k \in Nat : n <= Len(h.rbuf) + k * GroupSize => Needed(n) <= k
<1> DEFINE b == Len(h.rbuf)
<1>1. b \in Nat /\ b <= GroupSize /\ GroupSize \in Nat \ {0}
  BY Sizes DEF TypeInv
<1>2. CASE n <= b
  <2>1. Needed(n) = 0
    BY <1>2 DEF Needed
  <2>2. 0 * GroupSize = 0
    BY <1>1
  <2> HIDE DEF b
  <2>3. Needed(n) \in Nat /\ Needed(n) * GroupSize = 0
    BY <2>1, <2>2
  <2>4. n <= b + Needed(n) * GroupSize /\ b + Needed(n) * GroupSize <= n + GroupSize
    BY <1>1, <1>2, <2>3
  <2>5. \A k \in Nat : Needed(n) <= k
    BY <2>1
  <2>6. Needed(n) * GroupSize \in Nat
    BY <2>3
  <2> QED
    BY <1>1, <2>3, <2>4, <2>5, <2>6, Zenon DEF b
<1>3. CASE ~(n <= b)
  <2> DEFINE x == n - b
             q == (x + GroupSize - 1) \div GroupSize
             y == q * GroupSize
  <2>1. x \in Nat
    BY <1>1, <1>3
  <2>2. Needed(n) = q
    BY <1>3 DEF Needed
  <2> HIDE DEF x
  <2>3. /\ q \in Nat /\ x <= y /\ y < x + GroupSize
        /\ \A k \in Nat : x <= k * GroupSize => q <= k
    BY <1>1, <2>1, CeilingFacts
  <2>4. y \in Nat
    BY <1>1, <2>3, ProductNat
  <2> HIDE DEF q, y, b
  <2>5. n <= b + y /\ b + y <= n + GroupSize
    BY <1>1, <1>3, <2>1, <2>3, <2>4 DEF x
  <2>6. ASSUME NEW k \in Nat, n <= b + k * GroupSize PROVE q <= k
    <3> DEFINE z == k * GroupSize
    <3>1. z \in Nat
      BY <1>1, ProductNat
    <3>2. n <= b + z
      BY <2>6
    <3> HIDE DEF z
    <3>3. x <= z
      BY <1>1, <3>1, <3>2 DEF x
    <3> QED
      BY <2>3, <3>3 DEF z
  <2> QED
    BY <1>1, <2>2, <2>3, <2>4, <2>5, <2>6 DEF b, y
<1> QED
  BY <1>2, <1>3

LEMMA ThereOf ==
    ASSUME TypeInv, file \in Seq(Cells)
    PROVE  /\ There \in Nat /\ There * GroupSize \in Nat
           /\ h.pos <= Len(file) => h.pos + There * GroupSize <= Len(file)
           /\ h.pos > Len(file) => There = 0
           /\ \A k \in Nat : h.pos + k * GroupSize <= Len(file) => k <= There
<1> DEFINE p == h.pos
           n == Len(file)
<1>1. p \in Nat /\ n \in Nat /\ GroupSize \in Nat \ {0}
  BY Sizes DEF TypeInv
<1>2. CASE p > n
  <2>1. There = 0 /\ 0 * GroupSize = 0
    BY <1>1, <1>2 DEF There
  <2>2. \A k \in Nat : k * GroupSize \in Nat
    BY <1>1, ProductNat
  <2>3. \A k \in Nat : ~(p + k * GroupSize <= n)
    <3> SUFFICES ASSUME NEW k \in Nat PROVE ~(p + k * GroupSize <= n)
      OBVIOUS
    <3> DEFINE z == k * GroupSize
    <3>1. z \in Nat
      BY <2>2
    <3> HIDE DEF z, p, n
    <3>2. ~(p + z <= n)
      BY <1>1, <1>2, <3>1
    <3> QED
      BY <3>2 DEF z
  <2> HIDE DEF p, n
  <2> QED
    BY <1>1, <1>2, <2>1, <2>3 DEF p, n
<1>3. CASE ~(p > n)
  <2> DEFINE x == n - p
             q == x \div GroupSize
             y == q * GroupSize
  <2>1. x \in Nat
    BY <1>1, <1>3
  <2>2. There = q
    BY <1>3 DEF There
  <2> HIDE DEF x
  <2>3. q \in Nat /\ y \in Nat /\ y <= x /\ \A k \in Nat : k * GroupSize <= x => k <= q
    BY <1>1, <2>1, FloorFacts
  <2> HIDE DEF q, y, p, n
  <2>4. p + y <= n
    BY <1>1, <1>3, <2>1, <2>3 DEF x
  <2>5. ASSUME NEW k \in Nat, p + k * GroupSize <= n PROVE k <= q
    <3> DEFINE z == k * GroupSize
    <3>1. z \in Nat
      BY <1>1, ProductNat
    <3>2. p + z <= n
      BY <2>5
    <3> HIDE DEF z
    <3>3. z <= x
      BY <1>1, <3>1, <3>2 DEF x
    <3> QED
      BY <2>3, <3>3 DEF z
  <2> QED
    BY <1>1, <1>3, <2>2, <2>3, <2>4, <2>5 DEF p, n, y
<1> QED
  BY <1>2, <1>3

LEMMA GatheredOf ==
    ASSUME TypeInv, file \in Seq(Cells), NEW k \in Nat, k <= There
    PROVE  /\ Gathered(k) \in Seq(Cells) /\ k * GroupSize \in Nat
           /\ Len(Gathered(k)) = Len(h.rbuf) + k * GroupSize
           /\ k # 0 => h.pos + k * GroupSize <= Len(file)
           /\ \A i \in 1..Len(h.rbuf) : Gathered(k)[i] = h.rbuf[i]
           /\ \A j \in 0..(k * GroupSize - 1) :
                 /\ h.pos + (Spot(j) + 1) \in 1..Len(file)
                 /\ Gathered(k)[Len(h.rbuf) + (j + 1)] = Reversed(file[h.pos + (Spot(j) + 1)])
<1> DEFINE p == h.pos
           x == k * GroupSize
           cells == SubSeq(file, p + 1, p + x)
           bytes == ByteInterleaved(cells)
<1>1. p \in Nat /\ x \in Nat /\ Len(file) \in Nat /\ h.rbuf \in Seq(Cells)
  BY Sizes, ProductNat DEF TypeInv
<1>2. k # 0 => p + x <= Len(file)
  <2> SUFFICES ASSUME k # 0 PROVE p + x <= Len(file)
    OBVIOUS
  <2> DEFINE y == There * GroupSize
  <2>1. There \in Nat /\ y \in Nat /\ There # 0
    BY ThereOf
  <2>2. p + y <= Len(file)
    BY <1>1, <2>1, ThereOf
  <2>3. x <= y
    BY <2>1, Sizes, ProductMonotone
  <2> HIDE DEF x, y, p
  <2> QED
    BY <1>1, <2>1, <2>2, <2>3
<1>3. /\ cells \in Seq(Cells) /\ Len(cells) = x
      /\ \A i \in 1..x : cells[i] = file[p + i]
  <2>1. CASE k = 0
    <3>1. x = 0
      BY <2>1, Sizes
    <3>2. cells = <<>>
      <4> HIDE DEF p, x
      <4>1. p + x = p
        BY <1>1, <3>1
      <4> QED
        BY <1>1, <4>1, NoPiece
    <3> HIDE DEF x, cells
    <3> QED
      BY <3>1, <3>2
  <2>2. CASE k # 0
    <3> HIDE DEF p, x
    <3> QED
      BY <1>1, <1>2, <2>2, PieceOf
  <2> QED
    BY <2>1, <2>2
<1>4. Gathered(k) = h.rbuf \o bytes
  BY DEF Gathered
<1> HIDE DEF cells
<1>5. /\ bytes \in Seq(Cells) /\ Len(bytes) = x
      /\ \A j \in 0..(x - 1) : Spot(j) + 1 \in 1..x /\ bytes[j + 1] = Reversed(cells[Spot(j) + 1])
  <2>1. Len(cells) = k * GroupSize
    BY <1>3
  <2> QED
    BY <1>3, <2>1, ByteInterleavedOf
<1> DEFINE g == Gathered(k)
           b == Len(h.rbuf)
<1> HIDE DEF bytes, g
<1>6. /\ g \in Seq(Cells) /\ Len(g) = b + Len(bytes) /\ b \in Nat
      /\ \A i \in 1..b : g[i] = h.rbuf[i]
      /\ \A i \in 1..Len(bytes) : g[b + i] = bytes[i]
  <2> DEFINE u == h.rbuf
  <2>1. g = u \o bytes
    BY <1>4 DEF g
  <2>2. u \in Seq(Cells) /\ bytes \in Seq(Cells) /\ b = Len(u)
    BY <1>1, <1>5
  <2> HIDE DEF u, b
  <2>3. /\ g \in Seq(Cells) /\ Len(g) = b + Len(bytes) /\ b \in Nat
        /\ \A i \in 1..b : g[i] = u[i]
        /\ \A i \in 1..Len(bytes) : g[b + i] = bytes[i]
    BY ONLY <2>1, <2>2, Concatenated
  <2> QED
    BY <2>3 DEF u
<1>7. ASSUME NEW j \in 0..(x - 1)
      PROVE  /\ p + (Spot(j) + 1) \in 1..Len(file)
             /\ g[b + (j + 1)] = Reversed(file[p + (Spot(j) + 1)])
  <2> DEFINE i == Spot(j) + 1
  <2>1. i \in 1..x /\ bytes[j + 1] = Reversed(cells[i])
    BY <1>5
  <2> HIDE DEF i, x, p, b
  <2>2. j + 1 \in 1..x
    BY <1>1
  <2>3. g[b + (j + 1)] = bytes[j + 1]
    BY <1>5, <1>6, <2>2
  <2>4. cells[i] = file[p + i]
    BY <1>3, <2>1
  <2>5. k # 0
    <3>1. k = 0 => x = 0
      BY Sizes DEF x
    <3> QED
      BY <1>1, <2>2, <3>1
  <2>6. p + i \in 1..Len(file)
    BY <1>1, <1>2, <2>1, <2>5
  <2> QED
    BY <2>1, <2>3, <2>4, <2>6 DEF i
<1>8. Len(g) = b + x
  BY <1>5, <1>6
<1> QED
  BY <1>1, <1>2, <1>6, <1>7, <1>8 DEF g, p, x, b

\* dsf_read_audio_data, whatever the file is.
LEMMA ReadTyped ==
    ASSUME TypeInv, file \in Seq(Cells), NEW n \in Nat
    PROVE  LET r == ReadAudio(n)
               k == Needed(n)
           IN /\ r.ok = (k <= There)
              /\ r.data \in Seq(Cells)
              /\ \E p \in Nat, b \in Seq(Cells) :
                    r.h = [h EXCEPT !.pos = p, !.rbuf = b] /\ Len(b) <= GroupSize
              /\ k <= There =>
                    /\ r.data = SubSeq(Gathered(k), 1, n) /\ Len(r.data) = n
                    /\ \A i \in 1..n : r.data[i] = Gathered(k)[i]
                    /\ r.h = [h EXCEPT !.pos = @ + k * GroupSize,
                                       !.rbuf = SubSeq(Gathered(k), n + 1, Len(Gathered(k)))]
              /\ ~(k <= There) => r.data = Gathered(There)
<1> DEFINE r == ReadAudio(n)
           k == Needed(n)
           take == Min({k, There})
           ok == k <= There
           data == Gathered(take)
<1>1. k \in Nat /\ There \in Nat
  BY NeededOf, ThereOf
<1>2. take = IF ok THEN k ELSE There
  <2> HIDE DEF k
  <2>1. k \in Int /\ There \in Int
    BY <1>1
  <2> QED
    BY <2>1, MinOf
<1>3. r = [ok |-> ok, data |-> IF ok THEN SubSeq(data, 1, n) ELSE data,
           h |-> [h EXCEPT !.pos = IF ok THEN @ + take * GroupSize ELSE Max({@, Len(file)}),
                           !.rbuf = IF ok THEN SubSeq(data, n + 1, Len(data)) ELSE <<>>]]
  BY DEF ReadAudio, Needed, There, Gathered
<1> HIDE DEF r, take, data
<1>4. h.pos \in Nat /\ Len(file) \in Nat /\ h.rbuf \in Seq(Cells) /\ GroupSize \in Nat \ {0}
  BY Sizes DEF TypeInv
<1>5. CASE ok
  <2> DEFINE g == Gathered(k)
             x == k * GroupSize
  <2>1. take = k /\ data = g
    BY <1>2, <1>5 DEF data
  <2>2. g \in Seq(Cells) /\ x \in Nat /\ Len(g) = Len(h.rbuf) + x
    BY <1>1, <1>5, GatheredOf
  <2>3. /\ Len(h.rbuf) \in Nat /\ n <= Len(h.rbuf) + x
        /\ Len(h.rbuf) + x <= n + GroupSize
    BY NeededOf
  <2>4. /\ r.ok = ok /\ r.data = SubSeq(g, 1, n)
        /\ r.h = [h EXCEPT !.pos = @ + x, !.rbuf = SubSeq(g, n + 1, Len(g))]
    BY <1>3, <1>5, <2>1
  <2> HIDE DEF g, x, k
  <2>5. /\ SubSeq(g, 0 + 1, 0 + n) \in Seq(Cells) /\ Len(SubSeq(g, 0 + 1, 0 + n)) = n
        /\ \A i \in 1..n : SubSeq(g, 0 + 1, 0 + n)[i] = g[0 + i]
    <3>1. 0 \in Nat /\ 0 + n <= Len(g)
      BY <2>2, <2>3
    <3> QED
      BY ONLY <2>2, <3>1, n \in Nat, PieceOf
  <2>6. 0 + 1 = 1 /\ 0 + n = n /\ \A i \in 1..n : 0 + i = i
    OBVIOUS
  <2>7. /\ SubSeq(g, 1, n) \in Seq(Cells) /\ Len(SubSeq(g, 1, n)) = n
        /\ \A i \in 1..n : SubSeq(g, 1, n)[i] = g[i]
    BY <2>5, <2>6
  <2>8. SubSeq(g, n + 1, Len(g)) \in Seq(Cells) /\ Len(SubSeq(g, n + 1, Len(g))) <= GroupSize
    <3> DEFINE y == Len(g) - n
    <3>1. y \in Nat /\ n + y = Len(g) /\ n + y <= Len(g) /\ y <= GroupSize
      BY <1>4, <2>2, <2>3
    <3> HIDE DEF y
    <3>2. SubSeq(g, n + 1, n + y) \in Seq(Cells) /\ Len(SubSeq(g, n + 1, n + y)) = y
      BY ONLY <2>2, <3>1, n \in Nat, PieceOf
    <3> QED
      BY <3>1, <3>2
  <2>9. r.h = [h EXCEPT !.pos = h.pos + x, !.rbuf = SubSeq(g, n + 1, Len(g))] /\ h.pos + x \in Nat
    BY <1>4, <2>2, <2>4
  <2>10. \E p \in Nat, b \in Seq(Cells) :
            r.h = [h EXCEPT !.pos = p, !.rbuf = b] /\ Len(b) <= GroupSize
    BY <2>8, <2>9
  <2> QED
    BY <1>5, <2>4, <2>7, <2>10 DEF g, x, k, r
<1>6. CASE ~ok
  <2>1. take = There /\ data = Gathered(There)
    BY <1>2, <1>6 DEF data
  <2>2. Gathered(There) \in Seq(Cells)
    <3>1. There <= There
      BY <1>1
    <3> QED
      BY <1>1, <3>1, GatheredOf
  <2>3. Max({h.pos, Len(file)}) \in Nat
    BY <1>4, MaxOf
  <2>4. /\ r.ok = ok /\ r.data = Gathered(There)
        /\ r.h = [h EXCEPT !.pos = Max({h.pos, Len(file)}), !.rbuf = <<>>]
    BY <1>3, <1>6, <2>1
  <2>5. <<>> \in Seq(Cells) /\ Len(<<>>) <= GroupSize
    BY <1>4
  <2>6. \E p \in Nat, b \in Seq(Cells) :
            r.h = [h EXCEPT !.pos = p, !.rbuf = b] /\ Len(b) <= GroupSize
    BY <2>3, <2>4, <2>5
  <2> HIDE DEF k
  <2> QED
    BY <1>6, <2>2, <2>4, <2>6 DEF r, k
<1> QED
  BY <1>5, <1>6

LEMMA GatheredRight ==
    ASSUME TypeInv, file \in Seq(Cells), Saved(file, log, tag), NEW a \in Nat, Ahead(a),
           NEW k \in Nat, k <= There, NEW i \in 1..Len(Gathered(k)), a + i <= Len(log)
    PROVE  Gathered(k)[i] = log[a + i]
<1> DEFINE b == Len(h.rbuf)
           x == k * GroupSize
           g == Gathered(k)
           d == h.pos - AudioOffset
<1>1. /\ Len(g) = b + x /\ x \in Nat /\ b \in Nat
      /\ \A e \in 1..b : g[e] = h.rbuf[e]
      /\ \A j \in 0..(x - 1) :
            /\ h.pos + (Spot(j) + 1) \in 1..Len(file)
            /\ g[b + (j + 1)] = Reversed(file[h.pos + (Spot(j) + 1)])
  <2>1. b \in Nat
    BY DEF TypeInv
  <2> QED
    BY <2>1, GatheredOf
<1>2. /\ h.pos \in Nat /\ AudioOffset \in Nat /\ d \in Nat /\ d % GroupSize = 0 /\ a + b = d
      /\ h.pos = AudioOffset + d /\ log \in Seq(AudioCells) /\ Len(log) \in Nat
      /\ \A e \in 1..b : a + e <= Len(log) => h.rbuf[e] = log[a + e]
  <2>1. h.pos \in Nat /\ log \in Seq(AudioCells) /\ AudioOffset \in Nat
    BY Sizes DEF TypeInv
  <2>2. h.pos >= AudioOffset /\ d % GroupSize = 0 /\ a + b = d
    BY DEF Ahead, Buffered
  <2>3. \A e \in 1..b : a + e <= Len(log) => h.rbuf[e] = log[a + e]
    BY DEF Ahead, Buffered
  <2>4. d \in Nat /\ h.pos = AudioOffset + d /\ Len(log) \in Nat
    BY <2>1, <2>2, SMTT(40)
  <2> HIDE DEF d, b
  <2> QED
    BY <2>1, <2>2, <2>3, <2>4
<1> HIDE DEF g, x, b, d
<1>3. CASE i <= b
  <2>1. i \in 1..b
    BY <1>1, <1>3 DEF g
  <2> QED
    BY <1>1, <1>2, <2>1 DEF g
<1>4. CASE ~(i <= b)
  <2> DEFINE j == i - b - 1
             s == Spot(j)
             e == a + i
  <2>1. i \in 1..(b + x)
    BY <1>1 DEF g
  <2>2. j \in 0..(x - 1) /\ j \in Nat /\ i = b + (j + 1) /\ e = d + (j + 1)
    BY <1>1, <1>2, <1>4, <2>1
  <2>10. e <= Len(log)
    OBVIOUS
  <2> HIDE DEF j, e
  <2>3. e \in 1..Len(log) /\ e - 1 = d + j
    <3>1. d \in Nat /\ Len(log) \in Nat
      BY <1>2
    <3> QED
      BY <2>2, <2>10, <3>1
  <2>4. Spot(e - 1) = d + s /\ s \in Nat
    BY <1>2, <2>2, <2>3, SpotShift, SpotOf
  <2>5. g[i] = Reversed(file[h.pos + (s + 1)])
    BY <1>1, <2>2
  <2>6. file[AudioOffset + Spot(e - 1) + 1] = Reversed(log[e])
    BY <2>3 DEF Saved, InPlace
  <2> HIDE DEF s
  <2>7. AudioOffset + Spot(e - 1) + 1 = h.pos + (s + 1)
    BY <1>2, <2>4
  <2>8. log[e] \in Cells
    BY <1>2, <2>3, AudioCellFacts
  <2>9. g[i] = log[e]
    BY <2>5, <2>6, <2>7, <2>8, ReversedTwice
  <2> QED
    BY <2>9 DEF g, e
<1> QED
  BY <1>3, <1>4

\* dsf_read_audio_data of a saved file, from byte a + 1 of the audio on.
LEMMA ReadRight ==
    ASSUME TypeInv, file \in Seq(Cells), Saved(file, log, tag), NEW a \in Nat, Ahead(a),
           NEW n \in Nat
    PROVE  LET r == ReadAudio(n) IN
           /\ \A i \in DOMAIN r.data : a + i <= Len(log) => r.data[i] = log[a + i]
           /\ r.ok => Len(r.data) = n /\ Buffered(r.h, a + n)
           /\ a + n <= Len(log) => r.ok
           /\ a + n <= Len(log) /\ h.pos - AudioOffset <= Len(log) =>
                 r.h.pos - AudioOffset <= Len(log)
<1> DEFINE r == ReadAudio(n)
           k == Needed(n)
           g == Gathered(k)
           x == k * GroupSize
           b == Len(h.rbuf)
           d == h.pos - AudioOffset
<1>1. /\ h.pos \in Nat /\ AudioOffset \in Nat /\ d \in Nat /\ d % GroupSize = 0 /\ a + b = d
      /\ log \in Seq(AudioCells) /\ Len(log) \in Nat /\ b \in Nat /\ h.rbuf \in Seq(Cells)
      /\ GroupSize \in Nat \ {0} /\ h.pos = AudioOffset + d /\ Len(file) \in Nat
  <2>1. /\ h.pos \in Nat /\ log \in Seq(AudioCells) /\ AudioOffset \in Nat
        /\ GroupSize \in Nat \ {0} /\ h.rbuf \in Seq(Cells)
    BY Sizes DEF TypeInv
  <2>2. h.pos >= AudioOffset /\ d % GroupSize = 0 /\ a + b = d
    BY DEF Ahead, Buffered
  <2>3. d \in Nat /\ h.pos = AudioOffset + d /\ Len(log) \in Nat /\ b \in Nat
        /\ Len(file) \in Nat
    <3>1. Len(log) \in Nat /\ b \in Nat /\ Len(file) \in Nat
      BY <2>1
    <3>2. d \in Nat /\ h.pos = AudioOffset + d
      <4>1. h.pos >= AudioOffset /\ h.pos \in Nat /\ AudioOffset \in Nat
        BY <2>1, <2>2
      <4> QED
        BY <4>1
    <3> QED
      BY <3>1, <3>2
  <2> HIDE DEF d, b
  <2> QED
    BY <2>1, <2>2, <2>3
<1>2. /\ k \in Nat /\ x \in Nat /\ n <= b + x
      /\ \A c \in Nat : n <= b + c * GroupSize => k <= c
  BY NeededOf
<1>3. /\ r.ok = (k <= There) /\ r.data \in Seq(Cells)
      /\ k <= There =>
            /\ Len(r.data) = n
            /\ \A i \in 1..n : r.data[i] = g[i]
            /\ r.h = [h EXCEPT !.pos = @ + x, !.rbuf = SubSeq(g, n + 1, Len(g))]
      /\ ~(k <= There) => r.data = Gathered(There)
  BY ReadTyped
<1>4. There \in Nat
  BY ThereOf
<1>5. ASSUME k <= There
      PROVE  /\ g \in Seq(Cells) /\ Len(g) = b + x
             /\ \A i \in 1..Len(g) : a + i <= Len(log) => g[i] = log[a + i]
  BY <1>2, <1>5, GatheredOf, GatheredRight
<1> HIDE DEF r, g
\* The bytes are those of the audio.
<1>6. ASSUME NEW i \in DOMAIN r.data, a + i <= Len(log) PROVE r.data[i] = log[a + i]
  <2>1. CASE k <= There
    <3>1. i \in 1..n /\ Len(g) \in Nat
      BY <1>3, <1>5, <2>1
    <3>2. i \in 1..Len(g)
      <4> HIDE DEF x, b
      <4> QED
        BY <1>1, <1>2, <1>5, <2>1, <3>1
    <3>3. g[i] = log[a + i]
      BY <1>5, <1>6, <2>1, <3>2
    <3> QED
      BY <1>3, <2>1, <3>1, <3>3
  <2>2. CASE ~(k <= There)
    <3>1. r.data = Gathered(There) /\ There <= There
      BY <1>3, <1>4, <2>2
    <3>2. i \in 1..Len(Gathered(There))
      BY <1>3, <3>1
    <3> QED
      BY <1>4, <1>6, <3>1, <3>2, GatheredRight
  <2> QED
    BY <2>1, <2>2
\* What stays buffered follows them.
<1>7. ASSUME r.ok PROVE Len(r.data) = n /\ Buffered(r.h, a + n)
  <2>1. k <= There
    BY <1>3, <1>7
  <2> DEFINE y == Len(g) - n
             u == SubSeq(g, n + 1, Len(g))
  <2>2. /\ g \in Seq(Cells) /\ Len(g) = b + x
        /\ \A i \in 1..Len(g) : a + i <= Len(log) => g[i] = log[a + i]
    BY <1>5, <2>1
  <2>3. y \in Nat /\ n + y = Len(g) /\ n + y <= Len(g)
    <3> HIDE DEF b, x
    <3> QED
      BY <1>1, <1>2, <2>2
  <2> HIDE DEF y
  <2>4. /\ u \in Seq(Cells) /\ Len(u) = y
        /\ \A i \in 1..y : u[i] = g[n + i]
    <3>1. /\ SubSeq(g, n + 1, n + y) \in Seq(Cells) /\ Len(SubSeq(g, n + 1, n + y)) = y
          /\ \A i \in 1..y : SubSeq(g, n + 1, n + y)[i] = g[n + i]
      BY ONLY <2>2, <2>3, n \in Nat, PieceOf
    <3> QED
      BY <2>3, <3>1
  <2> HIDE DEF u
  <2>5. r.h = [h EXCEPT !.pos = h.pos + x, !.rbuf = u]
    BY <1>3, <2>1 DEF u
  <2>6. r.h.pos = h.pos + x /\ r.h.rbuf = u
    BY <2>5 DEF TypeInv
  <2>7. (d + x) % GroupSize = 0
    <3> HIDE DEF d, k
    <3> QED
      BY <1>1, <1>2, WholeGroups
  <2>8. r.h.pos - AudioOffset = d + x /\ r.h.pos >= AudioOffset
    <3> HIDE DEF d, x
    <3> QED
      BY <1>1, <1>2, <2>6
  <2>9. (a + n) + y = d + x
    <3> HIDE DEF b, x, d
    <3> QED
      BY <1>1, <1>2, <2>2, <2>3
  <2>10. ASSUME NEW i \in 1..y, (a + n) + i <= Len(log) PROVE u[i] = log[(a + n) + i]
    <3>1. n + i \in 1..Len(g) /\ a + (n + i) = (a + n) + i
      <4>1. Len(g) \in Nat
        BY <2>2
      <4> QED
        BY <2>3, <4>1
    <3>2. g[n + i] = log[a + (n + i)]
      BY <2>2, <2>10, <3>1
    <3> QED
      BY <2>4, <3>1, <3>2
  <2>11. Len(r.data) = n
    BY <1>3, <2>1
  <2> HIDE DEF d, x
  <2> QED
    BY <2>4, <2>6, <2>7, <2>8, <2>9, <2>10, <2>11 DEF Buffered
\* All of the audio is in the file.
<1>8. ASSUME a + n <= Len(log)
      PROVE  r.ok /\ (d <= Len(log) => r.h.pos - AudioOffset <= Len(log))
  <2> DEFINE m == (Len(log) - d) \div GroupSize
             z == m * GroupSize
  <2>1. CASE d <= Len(log)
    <3>1. Len(log) - d \in Nat
      BY <1>1, <2>1, SMTT(40)
    <3>2. z = Len(log) - d /\ m \in Nat /\ z \in Nat
      <4> DEFINE p == d \div GroupSize
                 q == Len(log) \div GroupSize
                 v == p * GroupSize
                 w == q * GroupSize
      <4>1. p \in Nat /\ q \in Nat /\ v \in Nat /\ w \in Nat
        BY <1>1, GroupAt
      <4>2. d = v /\ Len(log) = w
        <5>1. Len(log) % GroupSize = 0 /\ 0 \in Nat
          BY DEF Saved
        <5> HIDE DEF d
        <5> QED
          BY <1>1, <5>1, WholeGroups
      <4> HIDE DEF p, q, d
      <4>3. v <= w
        BY <2>1, <4>2
      <4>4. p <= q
        <5> SUFFICES ASSUME q < p PROVE FALSE
          BY <4>1
        <5>1. w + GroupSize <= v
          BY <1>1, <4>1, ProductOrder
        <5> HIDE DEF v, w
        <5> QED
          BY <1>1, <4>1, <4>3, <5>1
      <4>5. PICK c \in Nat : q = p + c
        <5>1. q - p \in Nat /\ q = p + (q - p)
          BY <4>1, <4>4
        <5> QED
          BY <5>1
      <4> DEFINE o == c * GroupSize
      <4>6. w = v + o /\ o \in Nat
        <5>1. (p + c) * GroupSize = p * GroupSize + c * GroupSize
          BY <1>1, <4>1
        <5> QED
          BY <1>1, <4>5, <5>1, ProductNat
      <4> HIDE DEF v, w, o
      <4>7. Len(log) - d = o + 0 /\ Len(log) - d = o
        BY <4>1, <4>2, <4>6
      <4> DEFINE t == Len(log) - d
      <4>8. t \in Nat /\ t = c * GroupSize + 0 /\ 0 \in 0..(GroupSize - 1)
        BY <1>1, <3>1, <4>7 DEF o
      <4> HIDE DEF t
      <4>9. t \div GroupSize = c
        BY <1>1, <4>5, <4>8, Quotient
      <4>10. m = c
        BY <4>9 DEF t
      <4> QED
        BY <4>5, <4>6, <4>7, <4>10 DEF o
    <3> HIDE DEF m, d, z
    <3>3. n <= b + z
      <4> HIDE DEF b
      <4> QED
        BY <1>1, <1>8, <2>1, <3>2
    <3>4. k <= m
      BY <1>2, <3>2, <3>3 DEF z
    <3>5. h.pos + z <= Len(file)
      <4>1. Len(file) = AudioOffset + Len(log) + Len(tag) /\ Len(tag) \in Nat
        BY DEF Saved, TypeInv
      <4> QED
        BY <1>1, <2>1, <3>2, <4>1
    <3>6. m <= There
      BY <3>2, <3>5, ThereOf DEF z
    <3>7. k <= There
      <4> HIDE DEF k
      <4> QED
        BY <1>2, <1>4, <3>2, <3>4, <3>6
    <3>8. r.ok /\ r.h = [h EXCEPT !.pos = h.pos + x, !.rbuf = SubSeq(g, n + 1, Len(g))]
      BY <1>3, <3>7
    <3>9. x <= z
      BY <1>1, <1>2, <3>2, <3>4, ProductMonotone DEF z
    <3>10. r.h.pos = h.pos + x
      BY <3>8 DEF TypeInv
    <3>11. h.pos + x - AudioOffset <= Len(log)
      <4> HIDE DEF x
      <4> QED
        BY <1>1, <1>2, <2>1, <3>2, <3>9
    <3> HIDE DEF x, r
    <3>12. r.h.pos - AudioOffset <= Len(log)
      BY <1>1, <1>2, <3>10, <3>11
    <3> QED
      BY <3>8, <3>12
  <2>2. CASE ~(d <= Len(log))
    <3>1. n <= b + 0 * GroupSize
      <4>1. 0 * GroupSize = 0
        BY <1>1
      <4> HIDE DEF b, d
      <4>2. n <= b
        BY <1>1, <1>8, <2>2
      <4> QED
        BY <1>1, <4>1, <4>2
    <3>2. k <= 0
      BY <1>2, <3>1
    <3>3. k <= There
      BY <1>2, <1>4, <3>2
    <3> QED
      BY <1>3, <2>2, <3>3
  <2> QED
    BY <2>1, <2>2
<1> QED
  BY <1>6, <1>7, <1>8 DEF r, d

----------------------------------------------------------------------------
(* The initial state, and creating the file.                               *)

LEMMA Initially == Init => IInv
<1> SUFFICES ASSUME Init PROVE IInv
  OBVIOUS
<1>1. TypeInv
  BY Sizes DEF Init, TypeInv, Closed, NoSource, NoReturn, Modes, Stages
<1>2. StageInv
  BY DEF Init, StageInv, Closed, NoSource
<1>3. stage = "none" /\ ret.op = "none"
  BY DEF Init, NoReturn
<1>4. FileInv /\ ReadInv /\ Accepted /\ TagFound
  BY <1>3 DEF FileInv, ReadInv, Accepted, TagFound
<1>5. ReadsAsWritten
  BY <1>3 DEF ReadsAsWritten
<1> QED
  BY <1>1, <1>2, <1>4, <1>5 DEF IInv

\* The stages in which nothing is said of what is read.
LEMMA Assembled ==
    ASSUME TypeInv', StageInv', FileInv', stage' \notin {"saved", "modified"}
    PROVE  IInv'
<1>1. ReadInv' /\ Accepted' /\ TagFound'
  BY DEF ReadInv, Accepted, TagFound
<1>2. ReadsAsWritten'
  BY DEF ReadsAsWritten
<1> QED
  BY <1>1, <1>2 DEF IInv

LEMMA Spoiled ==
    ASSUME TypeInv', StageInv', stage' = "spoiled"
    PROVE  IInv'
<1>1. FileInv'
  BY DEF FileInv
<1> QED
  BY <1>1, Assembled

LEMMA CallFacts ==
    ASSUME TypeInv, NEW b \in BOOLEAN, Call(b)
    PROVE  /\ budget' \in [calls : Nat, sessions : Nat, faults : Nat]
           /\ budget'.sessions = budget.sessions
<1>1. budget \in [calls : Nat, sessions : Nat, faults : Nat]
  BY DEF TypeInv
<1>2. budget.calls + 1 \in Nat /\ (IF b THEN budget.faults + 1 ELSE budget.faults) \in Nat
  BY <1>1
<1>3. budget' = [budget EXCEPT !.calls = budget.calls + 1,
                               !.faults = IF b THEN budget.faults + 1 ELSE budget.faults]
  BY DEF Call
<1> DEFINE x == budget.calls + 1
           y == IF b THEN budget.faults + 1 ELSE budget.faults
<1> HIDE DEF x, y
<1>4. x \in Nat /\ y \in Nat /\ budget' = [budget EXCEPT !.calls = x, !.faults = y]
  BY <1>2, <1>3 DEF x, y
<1> QED
  BY <1>1, <1>4

LEMMA SessionFacts ==
    ASSUME TypeInv, NewSession
    PROVE  /\ budget' \in [calls : Nat, sessions : Nat, faults : Nat]
           /\ budget'.sessions # 0
<1>1. budget \in [calls : Nat, sessions : Nat, faults : Nat]
  BY DEF TypeInv
<1>2. budget.sessions + 1 \in Nat /\ budget.sessions + 1 # 0
  BY <1>1
<1> DEFINE x == budget.sessions + 1
<1>3. budget' = [budget EXCEPT !.calls = 0, !.sessions = x]
  BY DEF NewSession
<1> HIDE DEF x
<1>4. x \in Nat /\ x # 0
  BY <1>2 DEF x
<1> QED
  BY <1>1, <1>3, <1>4

LEMMA FaultFacts ==
    ASSUME TypeInv, budget' = [budget EXCEPT !.faults = @ + 1]
    PROVE  /\ budget' \in [calls : Nat, sessions : Nat, faults : Nat]
           /\ budget'.sessions = budget.sessions
<1>1. budget \in [calls : Nat, sessions : Nat, faults : Nat]
  BY DEF TypeInv
<1> QED
  BY <1>1

LEMMA ReturnFacts ==
    ASSUME NEW op, NEW ok, Returns(op, ok)
    PROVE  ret'.next = -1 /\ ret'.next \in Int /\ ret'.op = op /\ ret'.ok = ok /\ ret'.at = -1
BY DEF Returns, NoReturn

LEMMA ReturnAtFacts ==
    ASSUME NEW op, NEW ok, NEW pos \in Nat, ReturnsAt(op, ok, pos)
    PROVE  /\ ret'.op = op /\ ret'.ok = ok /\ ret'.at = -1 /\ ret'.next \in Int
           /\ ret'.next >= 0 =>
                 /\ pos >= AudioOffset /\ (pos - AudioOffset) % GroupSize = 0
                 /\ ret'.next = pos - AudioOffset
<1> DEFINE c == pos >= AudioOffset /\ (pos - AudioOffset) % GroupSize = 0
<1>1. ret' = [NoReturn EXCEPT !.op = op, !.ok = ok,
                              !.next = IF c THEN pos - AudioOffset ELSE -1]
  BY DEF ReturnsAt
<1> HIDE DEF c
<1>2. /\ ret'.op = op /\ ret'.ok = ok /\ ret'.at = -1
      /\ ret'.next = IF c THEN pos - AudioOffset ELSE -1
  BY <1>1 DEF NoReturn
<1>3. pos - AudioOffset \in Int
  BY Sizes
<1>4. CASE c
  BY <1>2, <1>3, <1>4 DEF c
<1>5. CASE ~c
  BY <1>2, <1>5
<1> QED
  BY <1>4, <1>5

LEMMA CreateKeeps == ASSUME IInv, Create PROVE IInv'
<1>1. /\ TypeInv /\ StageInv
  BY DEF IInv
<1>2. /\ h.mode = "CLOSED" /\ budget.sessions = 0 /\ log = <<>> /\ ~src.track
      /\ UNCHANGED <<src, log, tag>>
  BY <1>1 DEF Create, StageInv
<1>3. Header(0, 0, 0, 0) \in Seq(Cells) /\ Len(Header(0, 0, 0, 0)) = AudioOffset
  BY EmptyHeader
<1>4. CASE /\ NewSession
           /\ file' = Header(0, 0, 0, 0)
           /\ h' = [Closed EXCEPT !.mode = "WRITE", !.pos = AudioOffset]
           /\ stage' = "writing"
           /\ Returns("create", TRUE)
  <2>1. h' = [mode |-> "WRITE", pos |-> AudioOffset, samples |-> 0, dataSize |-> 0,
              buf |-> <<>>, meta |-> <<>>, rbuf |-> <<>>]
    BY <1>4 DEF Closed
  <2>2. ret'.next \in Int
    BY <1>4, ReturnFacts
  <2>3. TypeInv'
    <3>1. h' \in [mode : Modes, pos : Nat, samples : Nat, dataSize : Nat,
                  buf : Seq(Cells), meta : Seq(Cells), rbuf : Seq(Cells)]
      BY <2>1, Sizes DEF Modes
    <3>2. Len(h'.buf) <= GroupSize /\ Len(h'.rbuf) <= GroupSize
      BY <2>1, Sizes
    <3>3. stage' \in Stages
      BY <1>4 DEF Stages
    <3>4. budget' \in [calls : Nat, sessions : Nat, faults : Nat]
      BY <1>1, <1>4, SessionFacts
    <3> QED
      BY <1>1, <1>2, <2>2, <3>1, <3>2, <3>3, <3>4 DEF TypeInv
  <2>4. StageInv'
    <3>1. budget'.sessions # 0
      BY <1>1, <1>4, SessionFacts
    <3>2. h'.mode = "WRITE" /\ h'.buf = <<>> /\ h'.rbuf = <<>>
      BY <2>1
    <3>3. file' \in Seq(Cells) /\ stage' = "writing" /\ ~src'.track
      BY <1>2, <1>3, <1>4
    <3> QED
      BY <3>1, <3>2, <3>3 DEF StageInv
  <2>5. Writing'
    <3>1. Done' = 0 /\ 0 % GroupSize = 0 /\ 0 \in Nat
      <4>1. 0 % GroupSize = 0
        <5>1. 0 = 0 * GroupSize + 0 /\ 0 \in 0..(GroupSize - 1) /\ GroupSize \in Nat \ {0}
          BY Sizes
        <5> QED
          BY <5>1, Quotient
      <4> QED
        BY <2>1, <4>1, Sizes DEF Done
    <3>2. h'.pos >= AudioOffset /\ Len(file') = h'.pos /\ Len(h'.buf) < GroupSize
      <4>1. h'.pos = AudioOffset /\ Len(h'.buf) = 0
        BY <2>1
      <4>2. Len(file') = AudioOffset
        BY <1>3, <1>4
      <4> QED
        BY <4>1, <4>2, Sizes
    <3>3. Len(log') = Done' + Len(h'.buf) /\ Len(h'.buf) = 0
      BY <1>2, <2>1, <3>1
    <3>4. \A k \in 1..AudioOffset : file'[k] = Header(0, 0, 0, 0)[k]
      BY <1>4
    <3>5. InPlace(file', log', 0)
      BY DEF InPlace
    <3>6. Columns(log', 0)
      <4>1. log' = <<>> /\ Used(log') = {}
        BY <1>2 DEF Used
      <4>2. Cardinality(Used(log')) = 0 /\ 0 * Channels = 0
        BY <4>1, FS_EmptySet, Sizes
      <4> QED
        BY <4>1, <4>2 DEF Columns
    <3>7. \E n \in Nat : h'.samples = 8 * n /\ Columns(log', n)
      <4>1. h'.samples = 8 * 0
        BY <2>1
      <4> QED
        BY <3>1, <3>6, <4>1
    <3>8. \A j \in 1..Len(h'.buf) :
             h'.buf[j] = Reversed(log'[Done' + j]) /\ log'[Done' + j] # Zero
      BY <3>3
    <3>9. Done' % GroupSize = 0 /\ InPlace(file', log', Done')
      BY <3>1, <3>5
    <3> QED
      BY <3>2, <3>3, <3>4, <3>7, <3>8, <3>9 DEF Writing
  <2>6. FileInv'
    BY <1>4, <2>5 DEF FileInv
  <2> QED
    BY <1>4, <2>3, <2>4, <2>6, Assembled
<1>5. ASSUME NEW k \in 0..(AudioOffset - 1),
             budget' = [budget EXCEPT !.sessions = @ + 1, !.faults = @ + 1],
             file' = SubSeq(Header(0, 0, 0, 0), 1, k),
             stage' = "spoiled", Returns("create", FALSE), UNCHANGED h
      PROVE  IInv'
  <2>1. file' \in Seq(Cells)
    <3>1. k \in Nat /\ 0 + k <= Len(Header(0, 0, 0, 0)) /\ 0 + 1 = 1 /\ 0 + k = k /\ 0 \in Nat
      <4>1. k \in 0..6 /\ Len(Header(0, 0, 0, 0)) = 7
        BY <1>3, Sizes
      <4> QED
        BY <4>1
    <3>2. SubSeq(Header(0, 0, 0, 0), 0 + 1, 0 + k) \in Seq(Cells)
      BY <1>3, <3>1, PieceOf
    <3> QED
      BY <1>5, <3>1, <3>2
  <2>2. budget' \in [calls : Nat, sessions : Nat, faults : Nat] /\ budget'.sessions # 0
    <3>1. budget \in [calls : Nat, sessions : Nat, faults : Nat]
      BY <1>1 DEF TypeInv
    <3>2. budget.sessions + 1 \in Nat /\ budget.sessions + 1 # 0 /\ budget.faults + 1 \in Nat
      BY <3>1
    <3> DEFINE x == budget.sessions + 1
               y == budget.faults + 1
    <3>3. budget' = [budget EXCEPT !.sessions = x, !.faults = y]
      BY <1>5
    <3> HIDE DEF x, y
    <3>4. x \in Nat /\ x # 0 /\ y \in Nat
      BY <3>2 DEF x, y
    <3> QED
      BY <3>1, <3>3, <3>4
  <2>3. ret'.next \in Int
    BY <1>5, ReturnFacts
  <2>4. TypeInv'
    BY <1>1, <1>2, <1>5, <2>2, <2>3 DEF TypeInv, Stages
  <2>5. StageInv'
    BY <1>1, <1>2, <1>5, <2>1, <2>2 DEF StageInv
  <2> QED
    BY <1>5, <2>4, <2>5, Spoiled
<1> QED
  BY <1>4, <1>5 DEF Create

----------------------------------------------------------------------------
(* Closing and removing the file.                                          *)

\* What the source has delivered begins the audio.
LEMMA SourceRight ==
    ASSUME NEW l \in Seq(Cells), NEW g \in Seq(Cells), Len(g) <= Len(l),
           \A i \in 1..Len(g) : g[i] = l[i]
    PROVE  IsPrefix(g, l) /\ (Len(g) = Len(l) => g = l)
<1>1. Len(g) \in Nat /\ Len(l) \in Nat
  OBVIOUS
<1>2. SubSeq(l, 1, Len(g)) = g
  <2> DEFINE n == Len(g)
             s == SubSeq(l, 0 + 1, 0 + n)
  <2> HIDE DEF n
  <2>1. n \in Nat /\ 0 \in Nat /\ 0 + n <= Len(l)
    BY <1>1 DEF n
  <2>2. s \in Seq(Cells) /\ Len(s) = n /\ \A i \in 1..n : s[i] = l[0 + i]
    BY <2>1, PieceOf
  <2>3. s = SubSeq(l, 1, n)
    BY <2>1
  <2> HIDE DEF s
  <2>4. \A i \in 1..n : s[i] = g[i]
    BY <2>2 DEF n
  <2>5. s = g
    BY <2>2, <2>4 DEF n
  <2> QED
    BY <2>3, <2>5 DEF n
<1>3. IsPrefix(g, l)
  BY <1>1, <1>2 DEF IsPrefix
<1>4. ASSUME Len(g) = Len(l) PROVE g = l
  BY <1>4
<1> QED
  BY <1>3, <1>4

LEMMA DeliveredRight ==
    ASSUME TypeInv', src' = NoSource \/ Delivered'
    PROVE  IsPrefix(src'.got, log') /\ (src'.eof => src'.got = log')
<1>1. log' \in Seq(Cells) /\ src'.got \in Seq(Cells) /\ Len(log') \in Nat
  <2>1. log' \in Seq(AudioCells)
    BY DEF TypeInv
  <2>2. log' \in Seq(Cells) /\ Len(log') \in Nat
    BY <2>1, AudioCellFacts
  <2> QED
    BY <2>2 DEF TypeInv
<1>2. CASE src' = NoSource
  <2>1. src'.got = <<>> /\ ~src'.eof
    BY <1>2 DEF NoSource
  <2>3. Len(src'.got) = 0 /\ Len(src'.got) <= Len(log')
    BY <1>1, <2>1
  <2>4. \A i \in 1..Len(src'.got) : src'.got[i] = log'[i]
    BY <2>3
  <2>2. IsPrefix(src'.got, log')
    BY <1>1, <2>3, <2>4, SourceRight
  <2> QED
    BY <2>1, <2>2
<1>3. CASE Delivered'
  <2>1. /\ Len(src'.got) = src'.pos /\ \A i \in 1..src'.pos : src'.got[i] = log'[i]
        /\ src'.eof => src'.pos = Len(log')
    BY <1>3 DEF Delivered
  <2>2. src'.pos <= Len(log')
    <3>1. src'.pos + Len(h'.rbuf) = h'.pos - AudioOffset /\ h'.pos - AudioOffset <= Len(log')
      BY <1>3 DEF Delivered, Ahead, Buffered, Done
    <3>2. src'.pos \in Nat /\ h'.pos \in Nat /\ Len(h'.rbuf) \in Nat /\ AudioOffset \in Nat
      BY Sizes DEF TypeInv
    <3> QED
      BY <1>1, <3>1, <3>2
  <2> QED
    BY <1>1, <2>1, <2>2, SourceRight
<1> QED
  BY <1>2, <1>3

LEMMA ReadsRight ==
    ASSUME TypeInv', stage' = "saved" => src' = NoSource \/ Delivered', ret'.op # "read",
           stage' = "saved" /\ ret'.op = "read_frame" => ret'.ok
    PROVE  ReadsAsWritten'
<1>1. stage' = "saved" => IsPrefix(src'.got, log') /\ (src'.eof => src'.got = log')
  BY DeliveredRight
<1> QED
  BY <1>1 DEF ReadsAsWritten

LEMMA Kept ==
    ASSUME TypeInv', StageInv', FileInv', ReadInv',
           ret'.op \notin {"read", "read_frame", "validate", "open"}
    PROVE  IInv'
<1>1. Accepted' /\ TagFound'
  BY DEF Accepted, TagFound
<1>2. ReadsAsWritten'
  BY ReadsRight DEF ReadInv
<1> QED
  BY <1>1, <1>2 DEF IInv

LEMMA CloseKeeps == ASSUME IInv, Close PROVE IInv'
<1>1. TypeInv /\ StageInv /\ FileInv
  BY DEF IInv
<1>2. h.mode # "CLOSED" /\ h' = Closed /\ src' = NoSource /\ UNCHANGED <<log, tag>>
  BY DEF Close
<1>3. stage # "none" /\ file \in Seq(Cells) /\ budget.sessions # 0
  BY <1>1, <1>2 DEF StageInv
<1>4. /\ h' \in [mode : Modes, pos : Nat, samples : Nat, dataSize : Nat,
                 buf : Seq(Cells), meta : Seq(Cells), rbuf : Seq(Cells)]
      /\ Len(h'.buf) <= GroupSize /\ Len(h'.rbuf) <= GroupSize
      /\ h'.mode = "CLOSED" /\ h'.buf = <<>> /\ h'.rbuf = <<>>
  BY <1>2, Sizes DEF Closed, Modes
<1>5. src' \in [track : BOOLEAN, pos : Nat, got : Seq(Cells), eof : BOOLEAN] /\ ~src'.track
  BY <1>2 DEF NoSource
<1>6. ASSUME file' = IF Truncates THEN Resized(file, h.pos) ELSE file,
             stage' = ClosedStage, Returns("close", TRUE), UNCHANGED budget
      PROVE  IInv'
  <2>1. ret'.next = -1 /\ ret'.next \in Int /\ ret'.op = "close"
    BY <1>6, ReturnFacts
  <2>2. h.pos \in Nat
    BY <1>1 DEF TypeInv
  <2>3. Resized(file, h.pos) \in Seq(Cells) /\ (h.pos = Len(file) => Resized(file, h.pos) = file)
    BY <1>3, <2>2, ResizedOf
  <2>4. file' \in Seq(Cells)
    BY <1>3, <1>6, <2>3
  <2>5. stage' \in Stages /\ stage' \notin {"none", "writing", "final", "changed"}
    BY <1>1, <1>2, <1>3, <1>6 DEF ClosedStage, Stages, StageInv, TypeInv, Modes
  <2>6. TypeInv'
    BY <1>1, <1>2, <1>4, <1>5, <1>6, <2>1, <2>5 DEF TypeInv
  <2>7. StageInv'
    BY <1>3, <1>4, <1>5, <1>6, <2>4, <2>5 DEF StageInv
  <2>8. ReadInv'
    BY <1>2, <1>4, <2>1 DEF ReadInv
  <2>9. FileInv'
    <3>1. CASE h.mode = "READ"
      <4>0. ~Truncates /\ ClosedStage = stage
        <5>1. stage # "final" /\ stage # "changed"
          BY <1>1, <3>1 DEF StageInv
        <5> QED
          BY <3>1, <5>1 DEF Truncates, ClosedStage
      <4>1. file' = file /\ stage' = stage /\ log' = log /\ tag' = tag
        BY <1>2, <1>6, <4>0
      <4>2. stage \in {"final", "saved"} => Saved(file, log, tag)
        BY <1>1 DEF FileInv
      <4>3. stage = "modified" => Tagged(file, tag)
        BY <1>1 DEF FileInv
      <4> QED
        BY <1>4, <2>5, <4>1, <4>2, <4>3 DEF FileInv
    <3>2. CASE h.mode # "READ" /\ stage = "final"
      <4>1. stage' = "saved"
        BY <1>6, <3>2 DEF ClosedStage
      <4>2. h.pos = Len(file) /\ Saved(file, log, tag)
        BY <1>1, <3>2 DEF FileInv
      <4>3. file' = file
        BY <1>6, <2>3, <4>2
      <4>4. Saved(file', log', tag')
        BY <1>2, <4>2, <4>3
      <4> QED
        BY <1>4, <4>1, <4>4 DEF FileInv
    <3>3. CASE h.mode # "READ" /\ stage = "changed"
      <4>1. stage' = "modified"
        BY <1>6, <3>3 DEF ClosedStage
      <4>2. Truncates
        BY <1>1, <3>3 DEF StageInv, Truncates
      <4>3. Tagged(Resized(file, h.pos), tag)
        BY <1>1, <3>3 DEF FileInv
      <4>4. Tagged(file', tag')
        BY <1>2, <1>6, <4>2, <4>3
      <4> QED
        BY <1>4, <4>1, <4>4 DEF FileInv
    <3>4. CASE h.mode # "READ" /\ stage \notin {"final", "changed"}
      <4>1. stage' = "spoiled"
        BY <1>6, <3>4 DEF ClosedStage
      <4> QED
        BY <4>1 DEF FileInv
    <3> QED
      BY <3>1, <3>2, <3>3, <3>4
  <2> QED
    BY <2>1, <2>6, <2>7, <2>8, <2>9, Kept
<1>7. ASSUME budget' = [budget EXCEPT !.faults = @ + 1], stage' = "spoiled",
             Returns("close", FALSE), UNCHANGED file
      PROVE  IInv'
  <2>1. ret'.next \in Int
    BY <1>7, ReturnFacts
  <2>2. budget' \in [calls : Nat, sessions : Nat, faults : Nat] /\ budget'.sessions # 0
    BY <1>1, <1>3, <1>7, FaultFacts
  <2>3. TypeInv'
    BY <1>1, <1>2, <1>4, <1>5, <1>7, <2>1, <2>2 DEF TypeInv, Stages
  <2>4. StageInv'
    BY <1>3, <1>4, <1>5, <1>7, <2>2 DEF StageInv
  <2> QED
    BY <1>7, <2>3, <2>4, Spoiled
<1> QED
  BY <1>6, <1>7 DEF Close

LEMMA RemoveFileKeeps == ASSUME IInv, RemoveFile PROVE IInv'
<1>1. TypeInv /\ StageInv
  BY DEF IInv
<1>2. /\ h.mode # "CLOSED" /\ file' = NoFile /\ h' = Closed /\ src' = NoSource
      /\ log' = <<>> /\ tag' = <<>> /\ stage' = "none" /\ UNCHANGED budget
      /\ Returns("remove", TRUE)
  BY DEF RemoveFile
<1>3. ret'.next \in Int
  BY <1>2, ReturnFacts
<1>4. /\ h' \in [mode : Modes, pos : Nat, samples : Nat, dataSize : Nat,
                 buf : Seq(Cells), meta : Seq(Cells), rbuf : Seq(Cells)]
      /\ Len(h'.buf) <= GroupSize /\ Len(h'.rbuf) <= GroupSize
      /\ h'.mode = "CLOSED" /\ h'.buf = <<>> /\ h'.rbuf = <<>>
  BY <1>2, Sizes DEF Closed, Modes
<1>5. src' \in [track : BOOLEAN, pos : Nat, got : Seq(Cells), eof : BOOLEAN] /\ ~src'.track
  BY <1>2 DEF NoSource
<1>6. TypeInv'
  BY <1>1, <1>2, <1>3, <1>4, <1>5 DEF TypeInv, Stages
<1>7. StageInv'
  BY <1>2, <1>4, <1>5 DEF StageInv
<1>8. FileInv'
  BY <1>2 DEF FileInv
<1> QED
  BY <1>2, <1>6, <1>7, <1>8, Assembled

----------------------------------------------------------------------------
(* Opening the file.                                                       *)

LEMMA OpenKeeps ==
    ASSUME IInv, NEW m \in {"READ", "MODIFY"}, Open(m)
    PROVE  IInv'
<1>1. TypeInv /\ StageInv /\ FileInv /\ ReadInv
  BY DEF IInv
<1> DEFINE ok == BadCells(file) = {}
<1>2. /\ h.mode = "CLOSED" /\ file # NoFile /\ NewSession /\ src' = NoSource
      /\ h' = IF ok THEN Opened(m) ELSE h
      /\ file' = IF ~ok /\ m = "MODIFY" THEN Resized(file, StopsAt(file)) ELSE file
      /\ ReturnsAt("open", ok, h'.pos) /\ UNCHANGED <<log, tag, stage>>
  BY DEF Open
<1>3. file \in Seq(Cells) /\ stage \notin {"none", "writing", "final", "changed"}
  BY <1>1, <1>2 DEF StageInv
<1>4. budget' \in [calls : Nat, sessions : Nat, faults : Nat] /\ budget'.sessions # 0
  BY <1>1, <1>2, SessionFacts
<1>5. src' \in [track : BOOLEAN, pos : Nat, got : Seq(Cells), eof : BOOLEAN] /\ ~src'.track
  BY <1>2 DEF NoSource
<1>6. ok <=> Sound(file)
  BY <1>3, BadCellsOf
<1>7. m \in Modes
  BY DEF Modes
<1> HIDE DEF ok
<1>8. /\ h' \in [mode : Modes, pos : Nat, samples : Nat, dataSize : Nat,
                 buf : Seq(Cells), meta : Seq(Cells), rbuf : Seq(Cells)]
      /\ h'.buf = <<>> /\ h'.rbuf = <<>> /\ h'.mode \in {"CLOSED", m}
      /\ ok => h'.mode = m /\ h'.meta = Metadata(file)
               /\ h'.dataSize = Field(file, DataSizeAt) - DataHeader
      /\ ~ok => h'.mode = "CLOSED"
  <2>1. CASE ok
    BY <1>2, <1>3, <1>6, <1>7, <2>1, OpenedOf
  <2>2. CASE ~ok
    <3>1. h' = h
      BY <1>2, <2>2
    <3> QED
      BY <1>1, <1>2, <2>2, <3>1 DEF TypeInv, StageInv
  <2> QED
    BY <2>1, <2>2
<1>9. h'.pos \in Nat
  BY <1>8
<1>10. /\ ret'.op = "open" /\ ret'.ok = ok /\ ret'.next \in Int
       /\ ret'.next >= 0 => /\ h'.pos >= AudioOffset /\ (h'.pos - AudioOffset) % GroupSize = 0
                            /\ ret'.next = h'.pos - AudioOffset
  <2>1. ReturnsAt("open", ok, h'.pos)
    BY <1>2
  <2> QED
    BY <1>9, <2>1, ReturnAtFacts
<1>11. file' \in Seq(Cells) /\ (ok => file' = file)
  <2>1. StopsAt(file) \in Nat
    BY <1>3, StopsAtOf
  <2>2. Resized(file, StopsAt(file)) \in Seq(Cells)
    BY <1>3, <2>1, ResizedOf
  <2> QED
    BY <1>2, <1>3, <2>2
<1>12. TypeInv'
  <2>1. Len(h'.buf) <= GroupSize /\ Len(h'.rbuf) <= GroupSize
    <3>1. Len(h'.buf) = 0 /\ Len(h'.rbuf) = 0
      BY <1>8
    <3> QED
      BY <3>1, Sizes
  <2> QED
    BY <1>1, <1>2, <1>4, <1>5, <1>8, <1>10, <2>1 DEF TypeInv
<1>13. StageInv'
  BY <1>2, <1>3, <1>4, <1>5, <1>8, <1>11 DEF StageInv
<1>14. ASSUME stage = "saved"
       PROVE  /\ Saved(file, log, tag) /\ ok /\ Field(file, DataSizeAt) = 2 + Len(log)
              /\ Tagged(file, tag)
  <2>1. Saved(file, log, tag)
    BY <1>1, <1>14 DEF FileInv
  <2>2. log \in Seq(AudioCells) /\ tag \in Seq(Cells)
    BY <1>1 DEF TypeInv
  <2> QED
    BY <1>3, <1>6, <2>1, <2>2, SavedFields
<1>15. ASSUME stage = "modified"
       PROVE  ok /\ Tagged(file, tag)
  <2>1. Tagged(file, tag)
    BY <1>1, <1>15 DEF FileInv
  <2> QED
    BY <1>6, <2>1 DEF Tagged
<1>16. ASSUME stage \in {"saved", "modified"}
       PROVE  ok /\ h'.meta = tag /\ Tagged(file, tag)
  <2>1. ok /\ Tagged(file, tag) /\ tag \in Seq(Cells)
    BY <1>1, <1>14, <1>15, <1>16 DEF TypeInv
  <2>2. Metadata(file) = tag
    BY <1>3, <2>1, MetadataOf
  <2> QED
    BY <1>8, <2>1, <2>2
<1>17. FileInv'
  <2>1. stage' = stage /\ log' = log /\ tag' = tag
    BY <1>2
  <2>2. stage' = "saved" => Saved(file', log', tag')
    BY <1>11, <1>14, <2>1
  <2>3. stage' = "modified" => Tagged(file', tag')
    BY <1>11, <1>15, <2>1
  <2>4. stage' \in {"saved", "modified"} /\ h'.mode = "MODIFY" /\ h'.meta = <<>> =>
           Field(file', MetadataAt) = 0
    BY <1>11, <1>16, <2>1 DEF Tagged
  <2> QED
    BY <1>3, <2>1, <2>2, <2>3, <2>4 DEF FileInv
<1>18. ReadInv'
  <2> SUFFICES ASSUME stage = "saved"
               PROVE  /\ ret'.next >= 0 => Ahead(ret.next)'
                      /\ h'.mode = "READ" => h'.dataSize = Len(log')
                      /\ src' = NoSource
    BY <1>2 DEF ReadInv
  <2>1. ASSUME ret'.next >= 0 PROVE Ahead(ret.next)'
    <3>1. Len(h'.rbuf) = 0
      BY <1>8
    <3> DEFINE n == ret'.next
    <3>2. /\ h'.pos >= AudioOffset /\ (h'.pos - AudioOffset) % GroupSize = 0
          /\ n = h'.pos - AudioOffset /\ n \in Int
      BY <1>10, <2>1
    <3>3. n + 0 = h'.pos - AudioOffset
      BY <3>2
    <3> QED
      BY <3>1, <3>2, <3>3 DEF Ahead, Buffered, Done
  <2>2. h'.dataSize = Len(log')
    <3>1. ok /\ Field(file, DataSizeAt) = 2 + Len(log) /\ log \in Seq(AudioCells)
      BY <1>1, <1>14 DEF TypeInv
    <3> DEFINE v == Field(file, DataSizeAt)
    <3>2. v = 2 + Len(log) /\ Len(log) \in Nat /\ DataHeader = 2 /\ log' = log
      BY <1>2, <3>1, Words
    <3>3. h'.dataSize = v - DataHeader
      BY <1>8, <3>1
    <3> HIDE DEF v
    <3> QED
      BY <3>2, <3>3
  <2> QED
    BY <1>2, <2>1, <2>2
<1>19. ReadsAsWritten'
  <2>1. stage' = "saved" => src' = NoSource
    BY <1>2
  <2> QED
    BY <1>10, <1>12, <2>1, ReadsRight
<1>20. Accepted' /\ TagFound'
  BY <1>2, <1>10, <1>16 DEF Accepted, TagFound
<1> QED
  BY <1>12, <1>13, <1>17, <1>18, <1>19, <1>20 DEF IInv

----------------------------------------------------------------------------
(* Seeking and reading.                                                    *)

LEMMA FileKept ==
    ASSUME FileInv, UNCHANGED <<file, log, tag>>, h'.mode = h.mode,
           h'.meta = h.meta \/ h'.meta # <<>>, stage' \in {stage, "spoiled"},
           stage' \notin {"writing", "final", "changed"}
    PROVE  FileInv'
<1>1. stage' = "saved" => Saved(file', log', tag')
  BY DEF FileInv
<1>2. stage' = "modified" => Tagged(file', tag')
  BY DEF FileInv
<1>3. stage' \in {"saved", "modified"} /\ h'.mode = "MODIFY" /\ h'.meta = <<>> =>
         Field(file', MetadataAt) = 0
  BY DEF FileInv
<1> QED
  BY <1>1, <1>2, <1>3 DEF FileInv

LEMMA ReadingStages ==
    ASSUME TypeInv, StageInv, Readable
    PROVE  /\ ReadingStage \in {stage, "spoiled"}
           /\ ReadingStage \in Stages \ {"none", "writing", "final", "changed"}
           /\ file \in Seq(Cells) /\ budget.sessions # 0 /\ h.buf = <<>>
BY DEF TypeInv, StageInv, Readable, ReadingStage, Stages

\* A handle that was moved, with nothing buffered.
LEMMA Moved ==
    ASSUME TypeInv, NEW p \in Nat, h' = [h EXCEPT !.pos = p, !.rbuf = <<>>]
    PROVE  /\ h' \in [mode : Modes, pos : Nat, samples : Nat, dataSize : Nat,
                      buf : Seq(Cells), meta : Seq(Cells), rbuf : Seq(Cells)]
           /\ h'.mode = h.mode /\ h'.pos = p /\ h'.meta = h.meta /\ h'.rbuf = <<>>
           /\ h'.dataSize = h.dataSize /\ h'.buf = h.buf
           /\ Len(h'.buf) <= GroupSize /\ Len(h'.rbuf) <= GroupSize
<1>1. /\ h \in [mode : Modes, pos : Nat, samples : Nat, dataSize : Nat,
                buf : Seq(Cells), meta : Seq(Cells), rbuf : Seq(Cells)]
      /\ Len(h.buf) <= GroupSize /\ <<>> \in Seq(Cells) /\ Len(<<>>) <= GroupSize
  BY Sizes DEF TypeInv
<1> QED
  BY <1>1

LEMMA AheadAt ==
    ASSUME h'.rbuf = <<>>, h'.pos \in Nat, h'.pos >= AudioOffset,
           (h'.pos - AudioOffset) % GroupSize = 0, ret'.next = h'.pos - AudioOffset
    PROVE  Ahead(ret.next)'
<1>1. Len(h'.rbuf) = 0
  OBVIOUS
<1>2. ret'.next + 0 = h'.pos - AudioOffset
  BY Sizes
<1> QED
  BY <1>1, <1>2 DEF Ahead, Buffered

LEMMA NoSourceOpen ==
    ASSUME ReadInv, ~src.track, stage = "saved"
    PROVE  src = NoSource
BY DEF ReadInv, Delivered

LEMMA SeekKeeps ==
    ASSUME IInv, Readable, ~src.track, Call(FALSE), NEW target, SeekTo(target),
           stage' = ReadingStage, ReturnsAt("seek", TRUE, h'.pos),
           UNCHANGED <<file, src, log, tag>>
    PROVE  IInv'
<1>1. TypeInv /\ StageInv /\ FileInv /\ ReadInv
  BY DEF IInv
<1>2. target \in Nat /\ h' = [h EXCEPT !.pos = target, !.rbuf = <<>>]
  <2> DEFINE x == Max({AudioOffset, Len(file) + GroupSize})
  <2>1. target \in 0..x
    BY DEF SeekTo
  <2> HIDE DEF x
  <2>2. target \in Nat
    BY <2>1
  <2> QED
    BY <2>2 DEF SeekTo
<1>3. /\ h' \in [mode : Modes, pos : Nat, samples : Nat, dataSize : Nat,
                 buf : Seq(Cells), meta : Seq(Cells), rbuf : Seq(Cells)]
      /\ h'.mode = h.mode /\ h'.pos = target /\ h'.meta = h.meta /\ h'.rbuf = <<>>
      /\ h'.dataSize = h.dataSize /\ h'.buf = h.buf
      /\ Len(h'.buf) <= GroupSize /\ Len(h'.rbuf) <= GroupSize
  BY <1>1, <1>2, Moved
<1>4. /\ ReadingStage \in {stage, "spoiled"}
      /\ ReadingStage \in Stages \ {"none", "writing", "final", "changed"}
      /\ file \in Seq(Cells) /\ budget.sessions # 0 /\ h.buf = <<>>
  BY <1>1, ReadingStages
<1>5. budget' \in [calls : Nat, sessions : Nat, faults : Nat] /\ budget'.sessions = budget.sessions
  BY <1>1, CallFacts
<1>6. /\ ret'.op = "seek" /\ ret'.next \in Int
      /\ ret'.next >= 0 => /\ h'.pos >= AudioOffset /\ (h'.pos - AudioOffset) % GroupSize = 0
                           /\ ret'.next = h'.pos - AudioOffset
  <2>1. h'.pos \in Nat
    BY <1>2, <1>3
  <2> QED
    BY <2>1, ReturnAtFacts
<1>7. TypeInv'
  BY <1>1, <1>3, <1>4, <1>5, <1>6 DEF TypeInv
<1>8. StageInv'
  <2>1. h.mode \in {"READ", "MODIFY"}
    BY DEF Readable
  <2> QED
    BY <1>3, <1>4, <1>5, <2>1 DEF StageInv
<1>9. FileInv'
  BY <1>1, <1>3, <1>4, FileKept
<1>10. ReadInv'
  <2> SUFFICES ASSUME stage = "saved"
               PROVE  /\ ret'.next >= 0 => Ahead(ret.next)'
                      /\ h'.mode = "READ" => h'.dataSize = Len(log')
                      /\ src' = NoSource
    BY <1>4 DEF ReadInv
  <2>1. ret'.next >= 0 => Ahead(ret.next)'
    BY <1>2, <1>3, <1>6, AheadAt
  <2>2. h.mode = "READ" => h.dataSize = Len(log)
    BY <1>1 DEF ReadInv
  <2>3. src' = NoSource
    BY <1>1, NoSourceOpen
  <2> QED
    BY <1>3, <2>1, <2>2, <2>3
<1> QED
  BY <1>6, <1>7, <1>8, <1>9, <1>10, Kept

LEMMA ReadAudioDataKeeps ==
    ASSUME IInv, NEW n \in ReadSizes, ReadAudioData(n)
    PROVE  IInv'
<1>1. TypeInv /\ StageInv /\ FileInv /\ ReadInv
  BY DEF IInv
<1> DEFINE r == ReadAudio(n)
<1>2. /\ Readable /\ ~src.track /\ Call(FALSE) /\ h' = r.h
      /\ ret' = [op |-> "read", ok |-> r.ok, at |-> ret.next, n |-> n, data |-> r.data,
                 next |-> IF r.ok /\ ret.next >= 0 THEN ret.next + n ELSE -1]
      /\ stage' = ReadingStage /\ UNCHANGED <<file, src, log, tag>>
  BY DEF ReadAudioData
<1>3. n \in Nat
  BY ConstantsAssumption
<1>4. /\ ReadingStage \in {stage, "spoiled"}
      /\ ReadingStage \in Stages \ {"none", "writing", "final", "changed"}
      /\ file \in Seq(Cells) /\ budget.sessions # 0 /\ h.buf = <<>>
  BY <1>1, <1>2, ReadingStages
<1>5. budget' \in [calls : Nat, sessions : Nat, faults : Nat] /\ budget'.sessions = budget.sessions
  BY <1>1, <1>2, CallFacts
<1>6. PICK p \in Nat, b \in Seq(Cells) : r.h = [h EXCEPT !.pos = p, !.rbuf = b] /\ Len(b) <= GroupSize
  BY <1>1, <1>3, <1>4, ReadTyped
<1> HIDE DEF r
<1>7. /\ h' \in [mode : Modes, pos : Nat, samples : Nat, dataSize : Nat,
                 buf : Seq(Cells), meta : Seq(Cells), rbuf : Seq(Cells)]
      /\ h'.mode = h.mode /\ h'.meta = h.meta /\ h'.rbuf = b /\ h'.dataSize = h.dataSize
      /\ h'.buf = h.buf
  <2>1. h \in [mode : Modes, pos : Nat, samples : Nat, dataSize : Nat,
               buf : Seq(Cells), meta : Seq(Cells), rbuf : Seq(Cells)]
    BY <1>1 DEF TypeInv
  <2>2. h' = [h EXCEPT !.pos = p, !.rbuf = b]
    BY <1>2, <1>6
  <2> QED
    BY <2>1, <2>2
<1>8. /\ ret'.op = "read" /\ ret'.at = ret.next /\ ret'.n = n /\ ret'.data = r.data /\ ret'.ok = r.ok
      /\ ret'.next = IF r.ok /\ ret.next >= 0 THEN ret.next + n ELSE -1
  BY <1>2
<1>9. ret.next \in Int /\ ret'.next \in Int /\ (ret'.next >= 0 => r.ok /\ ret.next >= 0 /\ ret'.next = ret.next + n)
  <2>1. ret.next \in Int
    BY <1>1 DEF TypeInv
  <2> QED
    BY <1>3, <1>8, <2>1
<1>10. TypeInv'
  <2>1. Len(h'.buf) <= GroupSize /\ Len(h'.rbuf) <= GroupSize
    BY <1>1, <1>6, <1>7 DEF TypeInv
  <2> QED
    BY <1>1, <1>2, <1>4, <1>5, <1>7, <1>9, <2>1 DEF TypeInv
<1>11. StageInv'
  <2>1. h.mode \in {"READ", "MODIFY"}
    BY <1>2 DEF Readable
  <2> QED
    BY <1>2, <1>4, <1>5, <1>7, <2>1 DEF StageInv
<1>12. FileInv'
  BY <1>1, <1>2, <1>4, <1>7, FileKept
<1>13. ASSUME stage = "saved", ret.next >= 0
       PROVE  /\ \A i \in DOMAIN r.data : ret.next + i <= Len(log) => r.data[i] = log[ret.next + i]
              /\ r.ok => Len(r.data) = n /\ Buffered(r.h, ret.next + n)
              /\ ret.next + n <= Len(log) => r.ok
  <2>1. Saved(file, log, tag)
    BY <1>1, <1>13 DEF FileInv
  <2>2. Ahead(ret.next)
    BY <1>1, <1>13 DEF ReadInv
  <2>3. ret.next \in Nat
    BY <1>9, <1>13
  <2> QED
    BY <1>1, <1>3, <1>4, <2>1, <2>2, <2>3, ReadRight DEF r
<1>14. ASSUME stage = "saved" PROVE src' = NoSource
  BY <1>1, <1>2, <1>14, NoSourceOpen
<1>15. ReadInv'
  <2> SUFFICES ASSUME stage = "saved"
               PROVE  /\ ret'.next >= 0 => Ahead(ret.next)'
                      /\ h'.mode = "READ" => h'.dataSize = Len(log')
                      /\ src' = NoSource
    BY <1>2, <1>4 DEF ReadInv
  <2>1. ASSUME ret'.next >= 0 PROVE Ahead(ret.next)'
    <3>1. Buffered(r.h, ret.next + n) /\ ret'.next = ret.next + n
      BY <1>9, <1>13, <2>1
    <3>2. h' = r.h /\ log' = log
      BY <1>2
    <3> QED
      BY <3>1, <3>2 DEF Ahead, Buffered
  <2>2. h.mode = "READ" => h.dataSize = Len(log)
    BY <1>1 DEF ReadInv
  <2> QED
    BY <1>2, <1>7, <1>14, <2>1, <2>2
<1>16. ReadsAsWritten'
  <2>1. stage' = "saved" => IsPrefix(src'.got, log') /\ (src'.eof => src'.got = log')
    BY <1>2, <1>4, <1>10, <1>14, DeliveredRight
  <2>2. ASSUME stage' = "saved", ret'.at >= 0
        PROVE  /\ \A i \in DOMAIN ret'.data :
                     ret'.at + i <= Len(log') => ret'.data[i] = log'[ret'.at + i]
               /\ ret'.at + ret'.n <= Len(log') => ret'.ok /\ Len(ret'.data) = ret'.n
    BY <1>2, <1>4, <1>8, <1>13, <2>2
  <2> QED
    BY <1>8, <2>1, <2>2 DEF ReadsAsWritten
<1>17. Accepted' /\ TagFound'
  BY <1>8 DEF Accepted, TagFound
<1> QED
  BY <1>10, <1>11, <1>12, <1>15, <1>16, <1>17 DEF IInv

----------------------------------------------------------------------------
(* Validating, keeping a tag, and the DSF source.                          *)

LEMMA ValidateStopsOf ==
    ASSUME file \in Seq(Cells)
    PROVE  ValidateStops(file) \in Nat
<1> DEFINE size == Field(file, FileSizeAt)
           meta == Field(file, MetadataAt)
           c1 == h.mode = "WRITE" \/ Len(file) < AudioOffset
           c2 == 1 \in BadCells(file)
           c3 == \/ size > Len(file) \/ Len(file) - size > Tolerance
                 \/ meta > 0 /\ (meta >= Len(file) \/ meta < AudioOffset)
<1>1. ValidateStops(file) = CASE c1 -> 0 [] c2 -> 1 [] c3 -> MetadataAt + 1
                              [] OTHER -> StopsAt(file)
  BY DEF ValidateStops
<1>2. StopsAt(file) \in Nat /\ MetadataAt + 1 \in Nat
  BY StopsAtOf, FieldPlaces
<1> HIDE DEF c1, c2, c3
<1> QED
  BY <1>1, <1>2

LEMMA ValidateKeeps == ASSUME IInv, Validate PROVE IInv'
<1>1. TypeInv /\ StageInv /\ FileInv /\ ReadInv
  BY DEF IInv
<1>2. /\ h.mode # "CLOSED" /\ ~src.track /\ Call(FALSE)
      /\ h' = [h EXCEPT !.pos = ValidateStops(file)]
      /\ stage' = IF h.mode = "WRITE" THEN "spoiled" ELSE ReadingStage
      /\ Returns("validate", h.mode # "WRITE" /\ Acceptable(file))
      /\ UNCHANGED <<file, src, log, tag>>
  BY DEF Validate
<1>3. /\ stage' \in {stage, "spoiled"}
      /\ stage' \in Stages \ {"none", "writing", "final", "changed"}
      /\ file \in Seq(Cells) /\ budget.sessions # 0
  <2>1. CASE h.mode = "WRITE"
    BY <1>1, <1>2, <2>1 DEF StageInv, Stages
  <2>2. CASE h.mode # "WRITE"
    <3>1. Readable
      BY <1>1, <1>2, <2>2 DEF Readable, TypeInv, Modes
    <3> QED
      BY <1>1, <1>2, <2>2, <3>1, ReadingStages
  <2> QED
    BY <2>1, <2>2
<1>4. budget' \in [calls : Nat, sessions : Nat, faults : Nat] /\ budget'.sessions = budget.sessions
  BY <1>1, <1>2, CallFacts
<1>5. /\ ret'.op = "validate" /\ ret'.next = -1 /\ ret'.next \in Int
      /\ ret'.ok = (h.mode # "WRITE" /\ Acceptable(file))
  BY <1>2, ReturnFacts
<1>6. /\ h' \in [mode : Modes, pos : Nat, samples : Nat, dataSize : Nat,
                 buf : Seq(Cells), meta : Seq(Cells), rbuf : Seq(Cells)]
      /\ h'.mode = h.mode /\ h'.meta = h.meta /\ h'.rbuf = h.rbuf /\ h'.dataSize = h.dataSize
      /\ h'.buf = h.buf
  <2>1. h \in [mode : Modes, pos : Nat, samples : Nat, dataSize : Nat,
               buf : Seq(Cells), meta : Seq(Cells), rbuf : Seq(Cells)]
    BY <1>1 DEF TypeInv
  <2>2. ValidateStops(file) \in Nat
    BY <1>3, ValidateStopsOf
  <2> QED
    BY <1>2, <2>1, <2>2
<1>7. TypeInv'
  BY <1>1, <1>2, <1>3, <1>4, <1>5, <1>6 DEF TypeInv
<1>8. StageInv'
  BY <1>1, <1>2, <1>3, <1>4, <1>6 DEF StageInv
<1>9. FileInv'
  BY <1>1, <1>2, <1>3, <1>6, FileKept
<1>10. stage' = "saved" => src' = NoSource /\ stage = "saved"
  BY <1>1, <1>2, <1>3, NoSourceOpen
<1>11. ReadInv'
  <2>1. stage = "saved" /\ h.mode = "READ" => h.dataSize = Len(log)
    BY <1>1 DEF ReadInv
  <2> QED
    BY <1>2, <1>5, <1>6, <1>10, <2>1 DEF ReadInv
<1>12. ReadsAsWritten'
  BY <1>5, <1>7, <1>10, ReadsRight
<1>13. Accepted'
  <2> SUFFICES ASSUME stage = "saved", log # <<>>, \A i \in 1..(Len(log) - GroupSize) : log[i] # Zero
               PROVE  ret'.ok
    BY <1>2, <1>10 DEF Accepted, PaddedAtEnd
  <2>1. h.mode # "WRITE"
    BY <1>1 DEF StageInv
  <2>2. Saved(file, log, tag) /\ log \in Seq(AudioCells) /\ tag \in Seq(Cells)
    BY <1>1 DEF FileInv, TypeInv
  <2>3. Acceptable(file)
    BY <1>3, <2>2, SavedAcceptable
  <2> QED
    BY <1>5, <2>1, <2>3
<1>14. TagFound'
  BY <1>5 DEF TagFound
<1> QED
  BY <1>7, <1>8, <1>9, <1>11, <1>12, <1>13, <1>14 DEF IInv

LEMMA TagOf ==
    ASSUME NEW n \in Nat \ {0}
    PROVE  Tag(n) \in Seq(Cells) /\ Len(Tag(n)) = n /\ Tag(n) # <<>>
<1>1. Tag(n) = [i \in 1..n |-> Cell("tag", MAX_REASONABLE_CHUNK + n)]
  BY DEF Tag
<1>2. MAX_REASONABLE_CHUNK + n \in Nat
  BY Words
<1>3. Cell("tag", MAX_REASONABLE_CHUNK + n) \in Cells
  BY <1>2, CellFacts
<1> DEFINE f == Tag(n)
<1> HIDE DEF f
<1>4. f = [i \in 1..n |-> f[i]] /\ \A i \in 1..n : f[i] \in Cells
  BY <1>1, <1>3 DEF f
<1>5. f \in Seq(Cells) /\ Len(f) = n
  BY <1>4, IsSequence
<1>6. f # <<>>
  BY <1>5
<1> QED
  BY <1>5, <1>6 DEF f

LEMMA WriteMetadataKeeps ==
    ASSUME IInv, NEW n \in TagSizes, WriteMetadata(n)
    PROVE  IInv'
<1>1. TypeInv /\ StageInv /\ FileInv /\ ReadInv
  BY DEF IInv
<1>2. /\ h.mode \in {"WRITE", "MODIFY"} /\ Call(FALSE) /\ h' = [h EXCEPT !.meta = Tag(n)]
      /\ stage' = CASE h.mode = "WRITE" -> WritingStage(TRUE)
                    [] stage = "changed" -> "spoiled"
                    [] OTHER -> stage
      /\ Returns("write_metadata", TRUE) /\ UNCHANGED <<file, src, log, tag>>
  BY DEF WriteMetadata
<1>3. Tag(n) \in Seq(Cells) /\ Tag(n) # <<>>
  BY ConstantsAssumption, TagOf
<1>4. /\ h' \in [mode : Modes, pos : Nat, samples : Nat, dataSize : Nat,
                 buf : Seq(Cells), meta : Seq(Cells), rbuf : Seq(Cells)]
      /\ h'.mode = h.mode /\ h'.meta = Tag(n) /\ h'.rbuf = h.rbuf /\ h'.dataSize = h.dataSize
      /\ h'.buf = h.buf /\ h'.pos = h.pos /\ h'.samples = h.samples
  <2>1. h \in [mode : Modes, pos : Nat, samples : Nat, dataSize : Nat,
               buf : Seq(Cells), meta : Seq(Cells), rbuf : Seq(Cells)]
    BY <1>1 DEF TypeInv
  <2> QED
    BY <1>2, <1>3, <2>1
<1>5. budget' \in [calls : Nat, sessions : Nat, faults : Nat] /\ budget'.sessions = budget.sessions
  BY <1>1, <1>2, CallFacts
<1>6. ret'.op = "write_metadata" /\ ret'.next = -1 /\ ret'.next \in Int
  BY <1>2, ReturnFacts
<1>7. /\ stage' \in {stage, "spoiled"} /\ stage' \notin {"none", "final", "changed"}
      /\ stage' \in Stages /\ file \in Seq(Cells) /\ budget.sessions # 0
      /\ stage' = "writing" => stage = "writing"
  <2>1. stage \in Stages /\ stage # "none" /\ file \in Seq(Cells) /\ budget.sessions # 0
    BY <1>1, <1>2 DEF StageInv, TypeInv
  <2>2. CASE h.mode = "WRITE"
    <3>1. stage' = WritingStage(TRUE)
      <4>1. stage # "changed"
        BY <1>1, <2>2 DEF StageInv
      <4> QED
        BY <1>2, <2>2, <4>1
    <3> QED
      BY <2>1, <3>1 DEF WritingStage, Stages
  <2>3. CASE h.mode # "WRITE" /\ stage = "changed"
    <3>1. stage' = "spoiled"
      BY <1>2, <2>3
    <3> QED
      BY <2>1, <3>1 DEF Stages
  <2>4. CASE h.mode # "WRITE" /\ stage # "changed"
    <3>1. stage' = stage /\ stage # "final"
      BY <1>1, <1>2, <2>4 DEF StageInv
    <3> QED
      BY <2>1, <2>4, <3>1
  <2> QED
    BY <2>2, <2>3, <2>4
<1>8. TypeInv'
  BY <1>1, <1>2, <1>4, <1>5, <1>6, <1>7 DEF TypeInv
<1>9. StageInv'
  BY <1>1, <1>2, <1>4, <1>5, <1>7 DEF StageInv
<1>10. CASE stage' = "writing"
  <2>1. Writing
    BY <1>1, <1>7, <1>10 DEF FileInv
  <2>2. Writing'
    BY <1>2, <1>4, <2>1 DEF Writing, Done, InPlace
  <2>3. FileInv'
    BY <1>10, <2>2 DEF FileInv
  <2> QED
    BY <1>8, <1>9, <1>10, <2>3, Assembled
<1>11. CASE stage' # "writing"
  <2>1. FileInv'
    BY <1>1, <1>2, <1>3, <1>4, <1>7, <1>11, FileKept
  <2>2. ReadInv'
    <3> SUFFICES ASSUME stage = "saved"
                 PROVE  (h'.mode = "READ" => h'.dataSize = Len(log')) /\ src' = NoSource
      BY <1>6, <1>7 DEF ReadInv
    <3>1. ~src.track
      BY <1>1, <1>2 DEF StageInv
    <3>2. src = NoSource
      BY <1>1, <3>1, NoSourceOpen
    <3> QED
      BY <1>2, <1>4, <3>2
  <2> QED
    BY <1>6, <1>8, <1>9, <2>1, <2>2, Kept
<1> QED
  BY <1>10, <1>11

LEMMA SourceSeekTrackKeeps == ASSUME IInv, SourceSeekTrack PROVE IInv'
<1>1. TypeInv /\ StageInv /\ FileInv /\ ReadInv
  BY DEF IInv
<1>2. /\ h.mode = "READ" /\ Call(FALSE) /\ h' = [h EXCEPT !.pos = AudioOffset, !.rbuf = <<>>]
      /\ src' = [NoSource EXCEPT !.track = TRUE] /\ Returns("seek_track", TRUE)
      /\ UNCHANGED <<file, log, tag, stage>>
  BY DEF SourceSeekTrack, SeekTo
<1>3. /\ h' \in [mode : Modes, pos : Nat, samples : Nat, dataSize : Nat,
                 buf : Seq(Cells), meta : Seq(Cells), rbuf : Seq(Cells)]
      /\ h'.mode = h.mode /\ h'.pos = AudioOffset /\ h'.meta = h.meta /\ h'.rbuf = <<>>
      /\ h'.dataSize = h.dataSize /\ h'.buf = h.buf
      /\ Len(h'.buf) <= GroupSize /\ Len(h'.rbuf) <= GroupSize
  <2>1. AudioOffset \in Nat
    BY Sizes
  <2> QED
    BY <1>1, <1>2, <2>1, Moved
<1>4. budget' \in [calls : Nat, sessions : Nat, faults : Nat] /\ budget'.sessions = budget.sessions
  BY <1>1, <1>2, CallFacts
<1>5. ret'.op = "seek_track" /\ ret'.next = -1 /\ ret'.next \in Int
  BY <1>2, ReturnFacts
<1>6. src' = [track |-> TRUE, pos |-> 0, got |-> <<>>, eof |-> FALSE]
  BY <1>2 DEF NoSource
<1>7. src' \in [track : BOOLEAN, pos : Nat, got : Seq(Cells), eof : BOOLEAN]
  <2>1. <<>> \in Seq(Cells) /\ 0 \in Nat
    OBVIOUS
  <2> QED
    BY <1>6, <2>1
<1>8. stage \notin {"none", "writing", "final", "changed"}
  BY <1>1, <1>2 DEF StageInv
<1>9. TypeInv'
  BY <1>1, <1>2, <1>3, <1>4, <1>5, <1>7 DEF TypeInv
<1>10. StageInv'
  BY <1>1, <1>2, <1>3, <1>4 DEF StageInv
<1>11. FileInv'
  BY <1>1, <1>2, <1>3, <1>8, FileKept
<1>12. ReadInv'
  <2> SUFFICES ASSUME stage = "saved"
               PROVE  (h'.mode = "READ" => h'.dataSize = Len(log')) /\ Delivered'
    BY <1>2, <1>5 DEF ReadInv
  <2>1. h'.pos - AudioOffset = 0 /\ 0 % GroupSize = 0 /\ Len(h'.rbuf) = 0 /\ AudioOffset \in Nat
    <3>1. 0 = 0 * GroupSize + 0 /\ 0 \in 0..(GroupSize - 1) /\ GroupSize \in Nat \ {0} /\ 0 \in Nat
      BY Sizes
    <3>2. 0 % GroupSize = 0
      BY <3>1, Quotient
    <3> QED
      BY <1>3, <3>2, Sizes
  <2>2. /\ src'.track /\ src'.pos = 0 /\ src'.got = <<>> /\ Len(src'.got) = 0 /\ ~src'.eof
    BY <1>6
  <2>3. Ahead(src.pos)'
    BY <1>3, <2>1, <2>2 DEF Ahead, Buffered
  <2>4. Done' = 0 /\ Len(log') \in Nat
    BY <1>9, <2>1 DEF Done, TypeInv
  <2>5. Delivered'
    BY <2>2, <2>3, <2>4 DEF Delivered
  <2>6. h'.dataSize = Len(log')
    BY <1>1, <1>2, <1>3 DEF ReadInv
  <2> QED
    BY <2>5, <2>6
<1> QED
  BY <1>5, <1>9, <1>10, <1>11, <1>12, Kept

LEMMA SourceReadFrameKeeps == ASSUME IInv, SourceReadFrame PROVE IInv'
<1>1. TypeInv /\ StageInv /\ FileInv /\ ReadInv
  BY DEF IInv
<1> DEFINE n == Min({FrameBytes, h.dataSize - src.pos})
           r == ReadAudio(n)
<1>2. /\ src.track /\ ~src.eof /\ UNCHANGED <<file, log, tag, stage, budget>>
      /\ IF src.pos >= h.dataSize
         THEN /\ src' = [src EXCEPT !.eof = TRUE]
              /\ Returns("read_frame", TRUE)
              /\ UNCHANGED h
         ELSE /\ h' = r.h
              /\ src' = IF r.ok THEN [src EXCEPT !.pos = @ + n, !.got = @ \o r.data]
                        ELSE [src EXCEPT !.track = FALSE]
              /\ Returns("read_frame", r.ok)
  BY DEF SourceReadFrame
<1>3. h.mode = "READ" /\ stage \notin {"none", "writing", "final", "changed"}
      /\ file \in Seq(Cells) /\ budget.sessions # 0
  BY <1>1, <1>2 DEF StageInv
<1>4. /\ h \in [mode : Modes, pos : Nat, samples : Nat, dataSize : Nat,
                buf : Seq(Cells), meta : Seq(Cells), rbuf : Seq(Cells)]
      /\ src \in [track : BOOLEAN, pos : Nat, got : Seq(Cells), eof : BOOLEAN]
      /\ log \in Seq(AudioCells) /\ Len(log) \in Nat
  BY <1>1 DEF TypeInv
<1>5. stage = "saved" => h.dataSize = Len(log) /\ Delivered
  <2>1. src # NoSource
    BY <1>2 DEF NoSource
  <2> QED
    BY <1>1, <1>3, <2>1 DEF ReadInv
<1>6. CASE src.pos >= h.dataSize
  <2>1. src' = [src EXCEPT !.eof = TRUE] /\ h' = h /\ Returns("read_frame", TRUE)
    BY <1>2, <1>6
  <2>2. ret'.op = "read_frame" /\ ret'.ok /\ ret'.next = -1 /\ ret'.next \in Int
    BY <2>1, ReturnFacts
  <2>3. /\ src' \in [track : BOOLEAN, pos : Nat, got : Seq(Cells), eof : BOOLEAN]
        /\ src'.track = src.track /\ src'.pos = src.pos /\ src'.got = src.got
    BY <1>4, <2>1
  <2>4. TypeInv'
    BY <1>1, <1>2, <2>1, <2>2, <2>3 DEF TypeInv
  <2>5. StageInv'
    BY <1>1, <1>2, <1>3, <2>1 DEF StageInv
  <2>6. FileInv'
    BY <1>1, <1>2, <1>3, <2>1, FileKept
  <2>7. ASSUME stage = "saved" PROVE Delivered'
    <3>1. Delivered /\ h.dataSize = Len(log)
      BY <1>5, <2>7
    <3>2. src.pos = Len(log)
      <4>1. src.pos + Len(h.rbuf) = h.pos - AudioOffset /\ h.pos - AudioOffset <= Len(log)
        BY <3>1 DEF Delivered, Ahead, Buffered, Done
      <4>2. src.pos \in Nat /\ Len(h.rbuf) \in Nat /\ h.pos \in Nat /\ AudioOffset \in Nat
            /\ src.pos >= Len(log)
        BY <1>4, <1>6, <3>1, Sizes
      <4> QED
        BY <1>4, <4>1, <4>2
    <3>3. Ahead(src.pos)'
      BY <1>2, <2>1, <2>3, <3>1 DEF Delivered, Ahead, Buffered
    <3>4. Done' = Done
      BY <2>1 DEF Done
    <3>5. /\ src'.track /\ Done' <= Len(log') /\ Len(src'.got) = src'.pos
          /\ \A i \in 1..src'.pos : src'.got[i] = log'[i]
          /\ src'.pos = Len(log')
      BY <1>2, <2>3, <3>1, <3>2, <3>4 DEF Delivered
    <3> QED
      BY <3>3, <3>5 DEF Delivered
  <2>8. ReadInv'
    BY <1>2, <1>5, <2>1, <2>2, <2>7 DEF ReadInv
  <2>9. ReadsAsWritten'
    BY <1>2, <2>2, <2>4, <2>7, ReadsRight
  <2>10. Accepted' /\ TagFound'
    BY <2>2 DEF Accepted, TagFound
  <2> QED
    BY <2>4, <2>5, <2>6, <2>8, <2>9, <2>10 DEF IInv
<1>7. CASE ~(src.pos >= h.dataSize)
  <2>1. /\ h' = r.h /\ Returns("read_frame", r.ok)
        /\ src' = IF r.ok THEN [src EXCEPT !.pos = @ + n, !.got = @ \o r.data]
                  ELSE [src EXCEPT !.track = FALSE]
    BY <1>2, <1>7
  <2>2. n \in Nat /\ src.pos + n <= h.dataSize
    <3> DEFINE x == h.dataSize - src.pos
    <3>1. x \in Nat /\ FrameBytes \in Nat /\ src.pos \in Nat /\ h.dataSize \in Nat
          /\ src.pos + x = h.dataSize
      <4>1. src.pos \in Nat /\ h.dataSize \in Nat
        BY <1>4
      <4> QED
        BY <1>7, <4>1, Sizes
    <3> HIDE DEF x
    <3>2. n = IF FrameBytes <= x THEN FrameBytes ELSE x
      BY <3>1, MinOf DEF x
    <3> HIDE DEF n
    <3> QED
      BY <3>1, <3>2
  <2> HIDE DEF n
  <2>3. /\ r.ok \in BOOLEAN /\ r.data \in Seq(Cells)
        /\ r.ok => Len(r.data) = n
    <3>1. /\ r.ok = (Needed(n) <= There) /\ r.data \in Seq(Cells)
          /\ Needed(n) <= There => Len(r.data) = n
      BY <1>1, <1>3, <2>2, ReadTyped
    <3> HIDE DEF r
    <3>2. (Needed(n) <= There) \in BOOLEAN
      OBVIOUS
    <3>3. r.ok \in BOOLEAN
      BY <3>1, <3>2, Zenon
    <3> QED
      BY <3>1, <3>3, Zenon
  <2>4. PICK p \in Nat, b \in Seq(Cells) : r.h = [h EXCEPT !.pos = p, !.rbuf = b] /\ Len(b) <= GroupSize
    BY <1>1, <1>3, <2>2, ReadTyped
  <2>5. ASSUME stage = "saved"
        PROVE  /\ \A i \in DOMAIN r.data : src.pos + i <= Len(log) => r.data[i] = log[src.pos + i]
               /\ r.ok /\ Buffered(r.h, src.pos + n)
               /\ src.pos + n <= Len(log) /\ r.h.pos - AudioOffset <= Len(log)
    <3>1. Delivered /\ h.dataSize = Len(log) /\ Saved(file, log, tag)
      BY <1>1, <1>5, <2>5 DEF FileInv
    <3>2. Ahead(src.pos) /\ h.pos - AudioOffset <= Len(log) /\ src.pos \in Nat
      BY <1>4, <3>1 DEF Delivered, Done
    <3>3. src.pos + n <= Len(log)
      BY <2>2, <3>1
    <3> QED
      BY <1>1, <1>3, <2>2, <3>1, <3>2, <3>3, ReadRight
  <2> HIDE DEF r
  <2>6. ret'.op = "read_frame" /\ ret'.ok = r.ok /\ ret'.next = -1 /\ ret'.next \in Int
    BY <2>1, ReturnFacts
  <2>7. /\ h' \in [mode : Modes, pos : Nat, samples : Nat, dataSize : Nat,
                   buf : Seq(Cells), meta : Seq(Cells), rbuf : Seq(Cells)]
        /\ h'.mode = h.mode /\ h'.meta = h.meta /\ h'.rbuf = b /\ h'.dataSize = h.dataSize
        /\ h'.buf = h.buf
    <3>1. h' = [h EXCEPT !.pos = p, !.rbuf = b]
      BY <2>1, <2>4
    <3> QED
      BY <1>4, <3>1
  <2> DEFINE g == src.got \o r.data
             q == src.pos + n
  <2>8. /\ g \in Seq(Cells) /\ Len(g) = Len(src.got) + Len(r.data)
        /\ Len(src.got) \in Nat /\ Len(r.data) \in Nat
        /\ \A i \in 1..Len(src.got) : g[i] = src.got[i]
        /\ \A i \in 1..Len(r.data) : g[Len(src.got) + i] = r.data[i]
    <3> DEFINE u == src.got
               v == r.data
    <3>1. u \in Seq(Cells) /\ v \in Seq(Cells)
      BY <1>4, <2>3
    <3> HIDE DEF u, v
    <3>2. /\ u \o v \in Seq(Cells) /\ Len(u \o v) = Len(u) + Len(v)
          /\ Len(u) \in Nat /\ Len(v) \in Nat
          /\ \A i \in 1..Len(u) : (u \o v)[i] = u[i]
          /\ \A i \in 1..Len(v) : (u \o v)[Len(u) + i] = v[i]
      BY ONLY <3>1, Concatenated
    <3> QED
      BY <3>2 DEF u, v
  <2>9. q \in Nat
    BY <1>4, <2>2
  <2>10. src' = IF r.ok THEN [src EXCEPT !.pos = q, !.got = g] ELSE [src EXCEPT !.track = FALSE]
    BY <2>1
  <2> HIDE DEF g, q
  <2>11. src' \in [track : BOOLEAN, pos : Nat, got : Seq(Cells), eof : BOOLEAN]
    <3>1. CASE r.ok
      BY <1>4, <2>8, <2>9, <2>10, <3>1
    <3>2. CASE ~r.ok
      BY <1>4, <2>10, <3>2
    <3> QED
      BY <3>1, <3>2
  <2>12. TypeInv'
    <3>1. Len(h'.buf) <= GroupSize /\ Len(h'.rbuf) <= GroupSize
      BY <1>1, <2>4, <2>7 DEF TypeInv
    <3> QED
      BY <1>1, <1>2, <2>6, <2>7, <2>11, <3>1 DEF TypeInv
  <2>13. StageInv'
    BY <1>1, <1>2, <1>3, <2>7 DEF StageInv
  <2>14. FileInv'
    BY <1>1, <1>2, <1>3, <2>7, FileKept
  <2>15. ASSUME stage = "saved" PROVE Delivered'
    <3>1. r.ok /\ src' = [src EXCEPT !.pos = q, !.got = g]
      BY <2>5, <2>10, <2>15
    <3>2. src'.track = src.track /\ src'.pos = q /\ src'.got = g /\ src'.eof = src.eof
      BY <1>4, <3>1
    <3>3. Ahead(src.pos)'
      <4>1. Buffered(r.h, q)
        BY <2>5, <2>15 DEF q
      <4>2. h' = r.h /\ log' = log
        BY <1>2, <2>1
      <4> QED
        BY <3>2, <4>1, <4>2 DEF Ahead, Buffered
    <3>4. Done' <= Len(log')
      BY <1>2, <2>1, <2>5, <2>15 DEF Done
    <3>5. Len(src.got) = src.pos /\ \A i \in 1..src.pos : src.got[i] = log[i]
      BY <1>5, <2>15 DEF Delivered
    <3>6. Len(r.data) = n /\ q = src.pos + n /\ q <= Len(log)
      BY <2>3, <2>5, <2>15, <3>1 DEF q
    <3>7. Len(g) = q
      BY <2>8, <3>5, <3>6
    <3>8. ASSUME NEW i \in 1..q PROVE g[i] = log[i]
      <4>1. src.pos \in Nat /\ n \in Nat
        BY <1>4, <2>2
      <4>2. CASE i <= src.pos
        <5>1. i \in 1..src.pos
          BY <2>9, <4>1, <4>2
        <5> QED
          BY <2>8, <3>5, <5>1
      <4>3. CASE ~(i <= src.pos)
        <5> DEFINE j == i - src.pos
        <5>1. j \in 1..n /\ src.pos + j = i /\ i <= Len(log)
          BY <1>4, <2>9, <3>6, <4>1, <4>3, SMTT(40)
        <5> HIDE DEF j
        <5>2. j \in DOMAIN r.data
          BY <2>3, <3>6, <5>1
        <5>3. g[src.pos + j] = r.data[j]
          BY <2>8, <3>5, <3>6, <5>1
        <5>4. r.data[j] = log[src.pos + j]
          BY <2>5, <2>15, <5>1, <5>2
        <5> QED
          BY <5>1, <5>3, <5>4
      <4> QED
        BY <4>2, <4>3
    <3> QED
      BY <1>2, <3>2, <3>3, <3>4, <3>7, <3>8 DEF Delivered
  <2>16. ReadInv'
    BY <1>2, <1>5, <2>6, <2>7, <2>15 DEF ReadInv
  <2>17. ReadsAsWritten'
    BY <1>2, <2>5, <2>6, <2>12, <2>15, ReadsRight
  <2>18. Accepted' /\ TagFound'
    BY <2>6 DEF Accepted, TagFound
  <2> QED
    BY <2>12, <2>13, <2>14, <2>16, <2>17, <2>18 DEF IInv
<1> QED
  BY <1>6, <1>7

LEMMA StutterKeeps == ASSUME IInv, UNCHANGED vars PROVE IInv'
<1>1. TypeInv /\ StageInv /\ FileInv /\ ReadInv /\ ReadsAsWritten /\ Accepted /\ TagFound
  BY DEF IInv
<1>2. UNCHANGED <<file, h, src, log, tag, stage, ret, budget>>
  BY DEF vars
<1>3. TypeInv'
  BY <1>1, <1>2 DEF TypeInv
<1>4. StageInv'
  BY <1>1, <1>2 DEF StageInv
<1>5. FileInv'
  BY <1>1, <1>2 DEF FileInv, Writing, Done, InPlace
<1>6. ReadInv'
  BY <1>1, <1>2 DEF ReadInv, Ahead, Buffered, Delivered, Done
<1>7. ReadsAsWritten'
  BY <1>1, <1>2 DEF ReadsAsWritten
<1>8. Accepted' /\ TagFound'
  BY <1>1, <1>2 DEF Accepted, TagFound, PaddedAtEnd
<1> QED
  BY <1>3, <1>4, <1>5, <1>6, <1>7, <1>8 DEF IInv

----------------------------------------------------------------------------
(* The calls that write.                                                   *)

\* What a call that succeeds adds to the file and leaves in the buffer.
LEMMA GroupsAppended ==
    ASSUME TypeInv, file \in Seq(Cells), Writing,
           NEW in \in Seq(AudioCells), NEW all \in Seq(Cells), NEW w \in Nat,
           NEW x \in Nat, x = w * GroupSize,
           Len(all) = Len(h.buf) + Len(in), x <= Len(all), Len(all) < x + GroupSize,
           \A i \in 1..Len(h.buf) : all[i] = h.buf[i],
           \A i \in 1..Len(in) : all[Len(h.buf) + i] = Reversed(in[i]) /\ in[i] # Zero,
           file' = Written(file, h.pos, BlockGroups(all, w)),
           h'.pos = h.pos + x, \E n \in Nat : h'.samples = 8 * n /\ Columns(log', n),
           h'.buf = SubSeq(all, x + 1, Len(all)), log' = log \o in
    PROVE  Writing'
<1> DEFINE d == Done
           left == Len(all) - x
           l == log \o in
<1>1. /\ h.pos \in Nat /\ h.pos = 7 + d /\ d \in Nat /\ d % GroupSize = 0
      /\ Len(file) = AudioOffset + d /\ AudioOffset + d = h.pos
  <2>1. h.pos \in Nat /\ h.pos >= 7
    BY Sizes DEF TypeInv, Writing
  <2>2. Done = h.pos - 7 /\ AudioOffset = 7 /\ Done % GroupSize = 0 /\ Len(file) = h.pos
    BY Sizes DEF Writing, Done
  <2> DEFINE e == Done
  <2> HIDE DEF e
  <2>3. e = h.pos - 7 /\ AudioOffset = 7 /\ e % GroupSize = 0 /\ Len(file) = h.pos
    BY <2>2 DEF e
  <2>4. e \in Nat /\ h.pos = 7 + e /\ Len(file) = 7 + e
    BY ONLY <2>1, <2>3
  <2> QED
    BY <2>1, <2>3, <2>4 DEF e
<1>2. /\ Len(h.buf) < GroupSize /\ Len(log) = d + Len(h.buf)
      /\ \A j \in 1..Len(h.buf) : h.buf[j] = Reversed(log[d + j]) /\ log[d + j] # Zero
      /\ \A k \in 1..AudioOffset : file[k] = Header(0, 0, 0, 0)[k]
      /\ InPlace(file, log, d)
  BY DEF Writing
<1>3. h.buf \in Seq(Cells) /\ log \in Seq(AudioCells) /\ h.samples \in Nat
  BY DEF TypeInv
<1>4. Len(h.buf) \in Nat /\ Len(in) \in Nat /\ Len(all) \in Nat /\ Len(log) \in Nat
  BY <1>3, LenProperties
<1>5. GroupSize \in Nat
  BY Sizes
<1>6. /\ l \in Seq(AudioCells) /\ Len(l) = Len(log) + Len(in)
      /\ \A i \in 1..Len(log) : l[i] = log[i]
      /\ \A i \in 1..Len(in) : l[Len(log) + i] = in[i]
  <2>1. log \in Seq(AudioCells) /\ in \in Seq(AudioCells)
    BY <1>3
  <2> QED
    BY ONLY <2>1, Concatenated
<1>7. InPlace(file, l, d)
  BY ONLY <1>1, <1>2, <1>3, <1>4, in \in Seq(AudioCells), InPlaceExtends
<1> HIDE DEF d, l
<1>8. x <= Len(all) /\ Len(all) < x + GroupSize /\ x \in Nat
  OBVIOUS
<1>9. left \in Nat /\ x + left = Len(all) /\ left < GroupSize
  BY ONLY <1>4, <1>5, <1>8
<1>10. ASSUME NEW j \in 1..Len(all) PROVE all[j] = Reversed(l[d + j]) /\ l[d + j] # Zero
  <2>1. CASE j <= Len(h.buf)
    <3>1. j \in 1..Len(h.buf) /\ d + j \in 1..Len(log)
      BY ONLY j \in 1..Len(all), <1>1, <1>2, <1>4, <2>1
    <3> QED
      BY <1>2, <1>6, <3>1
  <2>2. CASE ~(j <= Len(h.buf))
    <3> DEFINE i == j - Len(h.buf)
    <3>1. i \in 1..Len(in) /\ Len(h.buf) + i = j /\ Len(log) + i = d + j
      <4> DEFINE b == Len(h.buf)
                 c == Len(in)
      <4>1. j \in 1..(b + c) /\ d \in Nat /\ Len(log) = d + b /\ b \in Nat /\ c \in Nat
            /\ ~(j <= b)
        BY <1>1, <1>2, <1>4, <2>2
      <4> HIDE DEF b, c
      <4>2. i = j - b
        BY DEF b
      <4> HIDE DEF i
      <4>3. i \in 1..c /\ b + i = j /\ (d + b) + i = d + j
        BY ONLY <4>1, <4>2
      <4> QED
        BY <4>1, <4>3 DEF b, c
    <3> HIDE DEF i
    <3>2. all[Len(h.buf) + i] = Reversed(in[i]) /\ in[i] # Zero /\ l[Len(log) + i] = in[i]
      BY <1>6, <3>1
    <3> QED
      BY <3>1, <3>2
  <2> QED
    BY <2>1, <2>2
<1>11. ASSUME NEW j \in 1..x
       PROVE  Reversed(l[d + j]) = IF j <= Len(all) THEN all[j] ELSE Zero
  <2>1. j \in 1..Len(all) /\ j <= Len(all)
    BY <1>4, <1>5, <1>8
  <2> QED
    BY <1>10, <2>1
<1>12. file' = Written(file, AudioOffset + d, BlockGroups(all, w))
  BY <1>1
<1>13. /\ file' \in Seq(Cells) /\ Len(file') = AudioOffset + d + x
       /\ \A i \in 1..Len(file) : file'[i] = file[i]
       /\ InPlace(file', l, d + x)
       /\ (d + x) % GroupSize = 0
  <2>1. file \in Seq(Cells) /\ x = w * GroupSize
    OBVIOUS
  <2>2. \A j \in 1..(w * GroupSize) : Reversed(l[d + j]) = IF j <= Len(all) THEN all[j] ELSE Zero
    BY <1>11, <2>1
  <2>3. d % GroupSize = 0 /\ d \in Nat /\ Len(file) = AudioOffset + d
    BY <1>1
  <2> DEFINE F == Written(file, AudioOffset + d, BlockGroups(all, w))
  <2> HIDE DEF F
  <2>4. /\ F \in Seq(Cells) /\ Len(F) = AudioOffset + d + w * GroupSize
        /\ \A i \in 1..Len(file) : F[i] = file[i]
        /\ InPlace(F, l, d + w * GroupSize)
        /\ (d + w * GroupSize) % GroupSize = 0
    <3>1. l \in Seq(AudioCells)
      BY <1>6
    <3> QED
      BY ONLY <1>7, <2>1, <2>2, <2>3, <3>1, w \in Nat, all \in Seq(Cells), GroupsWritten, SMTT(40) DEF F
  <2> QED
    BY <1>12, <2>1, <2>4 DEF F
<1>14. /\ SubSeq(all, x + 1, x + left) \in Seq(Cells) /\ Len(SubSeq(all, x + 1, x + left)) = left
       /\ \A i \in 1..left : SubSeq(all, x + 1, x + left)[i] = all[x + i]
  <2> HIDE DEF left
  <2>1. x + left <= Len(all) /\ x \in Nat /\ left \in Nat
    BY <1>4, <1>5, <1>9
  <2> QED
    BY ONLY <2>1, all \in Seq(Cells), PieceOf
<1>15. h'.buf = SubSeq(all, x + 1, x + left)
  BY <1>9
<1>16. Done' = d + x /\ h'.pos >= AudioOffset /\ h'.pos = AudioOffset + d + x
  <2>1. h'.pos = h.pos + x
    OBVIOUS
  <2> QED
    BY <1>1, <1>5, <2>1, Sizes DEF Done
<1>17. Len(log') = Done' + Len(h'.buf)
  <2>1. Len(log') = Len(log) + Len(in) /\ Len(h'.buf) = left
    BY <1>6, <1>14, <1>15 DEF l
  <2> HIDE DEF left
  <2>2. Len(all) = Len(h.buf) + Len(in)
    OBVIOUS
  <2>3. d \in Nat /\ x \in Nat
    BY <1>1
  <2> QED
    <3> DEFINE b == Len(h.buf)
               c == Len(in)
               e == Len(all)
    <3>1. /\ Len(log') = (d + b) + c /\ e = b + c /\ x + left = e /\ b \in Nat /\ c \in Nat
          /\ Done' + Len(h'.buf) = (d + x) + left
      BY <1>2, <1>4, <1>9, <1>16, <2>1, <2>2
    <3> HIDE DEF b, c, e
    <3>2. (d + b) + c = (d + x) + left
      BY ONLY <1>9, <2>3, <3>1
    <3> QED
      BY <3>1, <3>2
<1>18. ASSUME NEW j \in 1..Len(h'.buf)
       PROVE  h'.buf[j] = Reversed(log'[Done' + j]) /\ log'[Done' + j] # Zero
  <2>1. j \in 1..left
    BY <1>14, <1>15
  <2>2. x + j \in 1..Len(all) /\ d + (x + j) = (d + x) + j
    <3> HIDE DEF left
    <3> QED
      BY ONLY <1>1, <1>4, <1>5, <1>9, <2>1, x \in Nat
  <2>3. h'.buf[j] = all[x + j]
    BY <1>14, <1>15, <2>1
  <2>4. all[x + j] = Reversed(l[d + (x + j)]) /\ l[d + (x + j)] # Zero
    BY <1>10, <2>2
  <2>5. log' = l
    BY DEF l
  <2> QED
    BY <1>16, <2>2, <2>3, <2>4, <2>5
<1>19. \A k \in 1..AudioOffset : file'[k] = Header(0, 0, 0, 0)[k]
  <2>1. \A k \in 1..AudioOffset : k \in 1..Len(file)
    BY ONLY <1>1, Sizes
  <2> QED
    BY ONLY <1>2, <1>13, <2>1
<1>20. InPlace(file', log', Done')
  <2>1. log' = l /\ Done' = d + x
    BY <1>16 DEF l
  <2> QED
    BY <1>13, <2>1
<1>21. Done' % GroupSize = 0 /\ Len(file') = h'.pos
  BY <1>13, <1>16
<1>22. Len(h'.buf) < GroupSize
  BY <1>9, <1>14, <1>15
<1> QED
  BY <1>16, <1>17, <1>18, <1>19, <1>20, <1>21, <1>22 DEF Writing

\* A call that writes whole groups, or a part of them, leaves a well-formed
\* file and buffer.
LEMMA WriteTyped ==
    ASSUME TypeInv, StageInv, file \in Seq(Cells), h.mode = "WRITE",
           NEW cells \in Seq(Cells), file' = Written(file, h.pos, cells),
           NEW p \in Nat, NEW b \in Seq(Cells), NEW s \in Nat, NEW z \in Nat,
           Len(b) <= GroupSize,
           h' = [h EXCEPT !.pos = p, !.buf = b, !.samples = s, !.dataSize = z],
           log' \in Seq(AudioCells), tag' \in Seq(Cells), src' = src,
           budget' \in [calls : Nat, sessions : Nat, faults : Nat],
           budget'.sessions = budget.sessions,
           ret'.next \in Int, stage' \in {"writing", "final", "spoiled"}
    PROVE  /\ TypeInv' /\ StageInv'
           /\ h'.pos = p /\ h'.buf = b /\ h'.samples = s /\ h'.dataSize = z
           /\ h'.mode = h.mode /\ h'.meta = h.meta
<1>1. /\ h \in [mode : Modes, pos : Nat, samples : Nat, dataSize : Nat,
                buf : Seq(Cells), meta : Seq(Cells), rbuf : Seq(Cells)]
      /\ Len(h.rbuf) <= GroupSize
  BY DEF TypeInv
<1>2. src \in [track : BOOLEAN, pos : Nat, got : Seq(Cells), eof : BOOLEAN]
  BY DEF TypeInv
<1>3. /\ h' \in [mode : Modes, pos : Nat, samples : Nat, dataSize : Nat,
                 buf : Seq(Cells), meta : Seq(Cells), rbuf : Seq(Cells)]
      /\ h'.pos = p /\ h'.buf = b /\ h'.samples = s /\ h'.dataSize = z
      /\ h'.mode = h.mode /\ h'.meta = h.meta /\ h'.rbuf = h.rbuf
  BY <1>1
<1>4. TypeInv'
  BY <1>1, <1>2, <1>3 DEF TypeInv, Stages
<1>5. file' \in Seq(Cells)
  BY <1>1, WrittenOf
<1>6. h.rbuf = <<>> /\ ~src.track /\ budget.sessions # 0
  BY DEF StageInv
<1>7. StageInv'
  BY <1>3, <1>5, <1>6 DEF StageInv
<1> QED
  BY <1>3, <1>4, <1>7

LEMMA WriteAudioDataKeeps ==
    ASSUME IInv, NEW n \in WriteSizes, WriteAudioData(n)
    PROVE  IInv'
<1>1. TypeInv /\ StageInv /\ FileInv
  BY DEF IInv
<1> DEFINE in == [i \in 1..(n * Channels) |-> Cell("audio", Len(log) + i)]
           rev == [i \in DOMAIN in |-> Reversed(in[i])]
           all == h.buf \o rev
           w == Len(all) \div GroupSize
           cells == BlockGroups(all, w)
<1>2. /\ h.mode = "WRITE" /\ log' = log \o in /\ UNCHANGED <<src, tag>>
      /\ \/ /\ Call(FALSE) /\ file' = Written(file, h.pos, cells)
            /\ h' = [h EXCEPT !.pos = @ + Len(cells),
                              !.buf = SubSeq(all, Len(cells) + 1, Len(all)),
                              !.samples = @ + n * 8]
            /\ stage' = WritingStage(TRUE) /\ Returns("write", TRUE)
         \/ \E g \in 0..(w - 1), k \in 0..(GroupSize - 1) :
               /\ Call(TRUE)
               /\ file' = Written(file, h.pos, SubSeq(cells, 1, g * GroupSize + k))
               /\ h' = [h EXCEPT !.pos = @ + g * GroupSize + k,
                                 !.buf = SubSeq(all, g * GroupSize + 1, (g + 1) * GroupSize)]
               /\ stage' = WritingStage(FALSE) /\ Returns("write", FALSE)
  BY DEF WriteAudioData
<1>3. /\ h \in [mode : Modes, pos : Nat, samples : Nat, dataSize : Nat,
                buf : Seq(Cells), meta : Seq(Cells), rbuf : Seq(Cells)]
      /\ log \in Seq(AudioCells) /\ tag \in Seq(Cells)
  BY <1>1 DEF TypeInv
<1>4. n \in Nat \ {0} /\ n * Channels \in Nat /\ Len(log) \in Nat
  <2>1. n \in Nat \ {0} /\ Channels \in Nat
    BY ConstantsAssumption
  <2> QED
    BY <1>3, <2>1, ProductNat, LenProperties
<1>5. /\ in \in Seq(AudioCells) /\ Len(in) = n * Channels /\ \A i \in 1..Len(in) : in[i] # Zero
      /\ rev \in Seq(Cells) /\ Len(rev) = Len(in)
      /\ \A i \in 1..Len(in) : rev[i] = Reversed(in[i])
  <2> DEFINE m == n * Channels
             k == Len(log)
  <2>1. m \in Nat /\ k \in Nat
    BY <1>4
  <2> HIDE DEF m, k
  <2>2. in = [i \in 1..m |-> Cell("audio", k + i)]
    BY DEF m, k
  <2>3. rev = [i \in DOMAIN in |-> Reversed(in[i])]
    OBVIOUS
  <2> HIDE DEF in, rev
  <2>4. \A i \in 1..m : in[i] \in AudioCells /\ in[i] # Zero
    BY <2>1, <2>2, CellFacts
  <2>5. in = [i \in 1..m |-> in[i]] /\ DOMAIN in = 1..m
    BY <2>2
  <2>6. in \in Seq(AudioCells) /\ Len(in) = m
    BY ONLY <2>1, <2>4, <2>5, IsSequence
  <2>7. rev = [i \in 1..m |-> rev[i]] /\ \A i \in 1..m : rev[i] = Reversed(in[i])
    BY <2>3, <2>5
  <2>8. \A i \in 1..m : rev[i] \in Cells
    BY <2>4, <2>7, AudioCellFacts, ReversedTwice
  <2>9. rev \in Seq(Cells) /\ Len(rev) = m
    BY ONLY <2>1, <2>7, <2>8, IsSequence
  <2> QED
    BY <2>4, <2>6, <2>7, <2>9 DEF m
<1> HIDE DEF in, rev
<1>6. /\ all \in Seq(Cells) /\ Len(all) = Len(h.buf) + Len(in) /\ Len(h.buf) \in Nat
      /\ \A i \in 1..Len(h.buf) : all[i] = h.buf[i]
      /\ \A i \in 1..Len(in) : all[Len(h.buf) + i] = Reversed(in[i])
      /\ Len(all) \in Nat
  <2> DEFINE u == h.buf
  <2>1. u \in Seq(Cells) /\ rev \in Seq(Cells)
    BY <1>3, <1>5
  <2> HIDE DEF u
  <2>2. /\ u \o rev \in Seq(Cells) /\ Len(u \o rev) = Len(u) + Len(rev)
        /\ Len(u) \in Nat /\ Len(rev) \in Nat
        /\ \A i \in 1..Len(u) : (u \o rev)[i] = u[i]
        /\ \A i \in 1..Len(rev) : (u \o rev)[Len(u) + i] = rev[i]
    BY ONLY <2>1, Concatenated
  <2>3. Len(u \o rev) \in Nat
    BY <2>2
  <2> QED
    BY <1>5, <2>2, <2>3 DEF u
<1>7. /\ log \o in \in Seq(AudioCells)
  BY <1>3, <1>5, ConcatProperties
<1> HIDE DEF all
<1> DEFINE x == w * GroupSize
<1>8. w \in Nat /\ x \in Nat /\ x <= Len(all) /\ Len(all) < x + GroupSize /\ GroupSize \in Nat
  BY <1>6, Sizes, FloorFacts
<1> HIDE DEF w
<1>9. cells \in Seq(Cells) /\ Len(cells) = x
  BY <1>6, <1>8, BlockGroupsOf
<1> HIDE DEF x, cells
<1>10. file \in Seq(Cells) /\ (stage = "writing" => Writing)
  BY <1>1, <1>2 DEF StageInv, FileInv
<1>11. h.pos \in Nat /\ h.samples \in Nat /\ h.dataSize \in Nat
  BY <1>3
<1>12. ASSUME NEW b \in BOOLEAN
       PROVE  WritingStage(b) \in {"writing", "spoiled"}
              /\ (WritingStage(b) = "writing" => stage = "writing")
  BY DEF WritingStage
<1>13. CASE /\ Call(FALSE) /\ file' = Written(file, h.pos, cells)
            /\ h' = [h EXCEPT !.pos = @ + Len(cells),
                              !.buf = SubSeq(all, Len(cells) + 1, Len(all)),
                              !.samples = @ + n * 8]
            /\ stage' = WritingStage(TRUE) /\ Returns("write", TRUE)
  <2> DEFINE left == Len(all) - x
             p == h.pos + x
             b == SubSeq(all, x + 1, Len(all))
             s == h.samples + n * 8
             z == h.dataSize
  <2>1. left \in Nat /\ x + left = Len(all) /\ left <= GroupSize /\ p \in Nat /\ s \in Nat
        /\ x + left <= Len(all)
    <3>1. s \in Nat
      <4> DEFINE e == n * 8
      <4>1. e \in Nat
        BY <1>4
      <4> HIDE DEF e
      <4>2. h.samples + e \in Nat
        BY <1>11, <4>1
      <4> QED
        BY <4>2 DEF e
    <3>2. p \in Nat
      BY <1>8, <1>11
    <3>3. left \in Nat /\ x + left = Len(all) /\ left <= GroupSize
      <4> DEFINE e == Len(all)
      <4>1. e \in Nat /\ x \in Nat /\ x <= e /\ e < x + GroupSize /\ GroupSize \in Nat
        BY <1>6, <1>8
      <4> HIDE DEF e
      <4>2. left = e - x
        BY DEF e
      <4> HIDE DEF left
      <4>3. left \in Nat /\ x + left = e /\ left <= GroupSize
        BY ONLY <4>1, <4>2
      <4> QED
        BY <4>3 DEF e
    <3>4. x + left <= Len(all)
      BY <1>6, <3>3
    <3> QED
      BY <3>1, <3>2, <3>3, <3>4
  <2>2. b \in Seq(Cells) /\ Len(b) <= GroupSize
    <3> HIDE DEF left
    <3>1. SubSeq(all, x + 1, x + left) \in Seq(Cells) /\ Len(SubSeq(all, x + 1, x + left)) = left
      BY <1>6, <1>8, <2>1, PieceOf, SMTT(40)
    <3> QED
      BY <2>1, <3>1
  <2>3. h' = [h EXCEPT !.pos = p, !.buf = b, !.samples = s, !.dataSize = z]
    <3>1. h' = [h EXCEPT !.pos = p, !.buf = b, !.samples = s]
      BY <1>9, <1>13
    <3> HIDE DEF p, b, s
    <3> QED
      BY <1>3, <3>1
  <2> HIDE DEF p, b, s, z, left
  <2>4. z \in Nat
    BY <1>11 DEF z
  <2>5. budget' \in [calls : Nat, sessions : Nat, faults : Nat] /\ budget'.sessions = budget.sessions
    BY <1>1, <1>13, CallFacts
  <2>6. ret'.next \in Int /\ stage' \in {"writing", "final", "spoiled"}
    BY <1>12, <1>13, ReturnFacts
  <2>7. log' \in Seq(AudioCells) /\ tag' \in Seq(Cells) /\ src' = src
        /\ file' = Written(file, h.pos, cells)
    BY <1>2, <1>3, <1>7, <1>13
  <2>8. TypeInv' /\ StageInv' /\ h'.pos = p /\ h'.buf = b /\ h'.samples = s
    <3>1. h.mode = "WRITE" /\ file \in Seq(Cells) /\ cells \in Seq(Cells) /\ p \in Nat /\ s \in Nat
      BY <1>2, <1>9, <1>10, <2>1
    <3> QED
      BY ONLY <1>1, <2>2, <2>3, <2>4, <2>5, <2>6, <2>7, <3>1, WriteTyped, ZenonT(60)
  <2>9. CASE stage' = "spoiled"
    BY <2>8, <2>9, Spoiled
  <2>10. CASE stage' = "writing"
    <3>1. Writing
      BY <1>10, <1>12, <1>13, <2>10
    <3>2. \E c \in Nat : h'.samples = 8 * c /\ Columns(log', c)
      <4>1. PICK c \in Nat : h.samples = 8 * c /\ Columns(log, c)
        BY <3>1 DEF Writing
      <4>2. Columns(log \o in, c + n)
        BY <1>3, <1>4, <1>5, <4>1, ColumnsAppend
      <4>3. s = 8 * (c + n) /\ c + n \in Nat
        BY <1>4, <4>1 DEF s
      <4> QED
        BY <1>2, <2>8, <4>2, <4>3
    <3>3. /\ x = w * GroupSize /\ file' = Written(file, h.pos, BlockGroups(all, w))
          /\ h'.pos = h.pos + x /\ h'.buf = SubSeq(all, x + 1, Len(all))
      BY <2>7, <2>8 DEF x, cells, p, b
    <3>4. \A i \in 1..Len(in) : all[Len(h.buf) + i] = Reversed(in[i]) /\ in[i] # Zero
      BY <1>5, <1>6
    <3>5. Writing'
      BY <1>1, <1>2, <1>5, <1>6, <1>8, <1>10, <3>1, <3>2, <3>3, <3>4, GroupsAppended
    <3>6. FileInv'
      BY <2>10, <3>5 DEF FileInv
    <3> QED
      BY <2>8, <2>10, <3>6, Assembled
  <2> QED
    BY <1>12, <1>13, <2>9, <2>10
<1>14. ASSUME NEW g \in 0..(w - 1), NEW k \in 0..(GroupSize - 1),
              Call(TRUE), file' = Written(file, h.pos, SubSeq(cells, 1, g * GroupSize + k)),
              h' = [h EXCEPT !.pos = @ + g * GroupSize + k,
                             !.buf = SubSeq(all, g * GroupSize + 1, (g + 1) * GroupSize)],
              stage' = WritingStage(FALSE), Returns("write", FALSE)
       PROVE  IInv'
  <2> DEFINE y == g * GroupSize
             p == h.pos + y + k
             b == SubSeq(all, y + 1, (g + 1) * GroupSize)
             part == SubSeq(cells, 1, y + k)
             s == h.samples
             z == h.dataSize
  <2>1. y \in Nat /\ k \in Nat /\ y + GroupSize <= x /\ (g + 1) * GroupSize = y + GroupSize
        /\ k <= GroupSize
    <3>1. g \in Nat /\ g < w /\ k \in Nat /\ k <= GroupSize
      BY <1>8
    <3>2. y \in Nat /\ y + GroupSize <= w * GroupSize /\ (g + 1) * GroupSize = y + GroupSize
      BY <1>8, <3>1, Sizes, ProductNat, ProductOrder
    <3> QED
      BY <3>1, <3>2 DEF x
  <2>2. b \in Seq(Cells) /\ Len(b) <= GroupSize
    <3> HIDE DEF y
    <3>1. y + GroupSize <= Len(all)
      BY <1>6, <1>8, <2>1
    <3>2. SubSeq(all, y + 1, y + GroupSize) \in Seq(Cells)
          /\ Len(SubSeq(all, y + 1, y + GroupSize)) = GroupSize
      BY <1>6, <1>8, <2>1, <3>1, PieceOf
    <3> QED
      BY <1>8, <2>1, <3>2
  <2>3. part \in Seq(Cells)
    <3> HIDE DEF y
    <3>1. y + k \in Nat /\ 0 + (y + k) <= Len(cells) /\ 0 + 1 = 1 /\ 0 + (y + k) = y + k
      BY <1>8, <1>9, <2>1
    <3> DEFINE e == y + k
    <3> HIDE DEF e
    <3>2. e \in Nat /\ 0 + e <= Len(cells) /\ 0 + e = e
      BY <3>1 DEF e
    <3>3. SubSeq(cells, 0 + 1, 0 + e) \in Seq(Cells)
      BY <1>9, <3>2, PieceOf
    <3> QED
      BY <3>1, <3>2, <3>3 DEF e
  <2>4. p \in Nat /\ s \in Nat /\ z \in Nat
    <3> HIDE DEF y
    <3> QED
      BY <1>11, <2>1
  <2>5. h' = [h EXCEPT !.pos = p, !.buf = b, !.samples = s, !.dataSize = z]
    <3>1. h' = [h EXCEPT !.pos = p, !.buf = b]
      BY <1>14
    <3> HIDE DEF p, b
    <3> QED
      BY <1>3, <3>1
  <2>6. file' = Written(file, h.pos, part)
    BY <1>14
  <2> HIDE DEF y, p, b, part, s, z
  <2>7. budget' \in [calls : Nat, sessions : Nat, faults : Nat] /\ budget'.sessions = budget.sessions
    BY <1>1, <1>14, CallFacts
  <2>8. ret'.next \in Int /\ stage' = "spoiled"
    BY <1>14, ReturnFacts DEF WritingStage
  <2>9. log' \in Seq(AudioCells) /\ tag' \in Seq(Cells) /\ src' = src
    BY <1>2, <1>3, <1>7
  <2>10. TypeInv' /\ StageInv'
    BY <1>1, <1>2, <1>10, <2>2, <2>3, <2>4, <2>5, <2>6, <2>7, <2>8, <2>9, WriteTyped
  <2> QED
    BY <2>8, <2>10, Spoiled
<1> QED
  BY <1>2, <1>13, <1>14

LEMMA PaddingOf ==
    ASSUME TypeInv
    PROVE  /\ Padding \in Seq(AudioCells) /\ \A i \in 1..Len(Padding) : Padding[i] = Zero
           /\ Len(Padding) = IF h.buf = <<>> THEN 0 ELSE GroupSize - Len(h.buf)
           /\ log \o Padding \in Seq(AudioCells) /\ (h.buf = <<>> => log \o Padding = log)
<1> DEFINE b == Len(h.buf)
           m == IF h.buf = <<>> THEN 0 ELSE GroupSize - b
<1>1. h.buf \in Seq(Cells) /\ b <= GroupSize /\ log \in Seq(AudioCells)
  BY DEF TypeInv
<1>2. m \in Nat
  <2>1. b \in Nat /\ GroupSize \in Nat
    BY <1>1, LenProperties, Sizes
  <2> HIDE DEF b
  <2> QED
    BY <1>1, <2>1
<1>3. Padding = [i \in 1..m |-> Zero]
  BY DEF Padding
<1> HIDE DEF m
<1>4. Padding = [i \in 1..m |-> Padding[i]] /\ \A i \in 1..m : Padding[i] = Zero
  BY <1>3
<1>5. \A i \in 1..m : Padding[i] \in AudioCells
  BY <1>4, CellFacts
<1>6. Padding \in Seq(AudioCells) /\ Len(Padding) = m
  BY ONLY <1>2, <1>4, <1>5, IsSequence
<1>7. log \o Padding \in Seq(AudioCells)
  BY <1>1, <1>6, ConcatProperties
<1>8. h.buf = <<>> => log \o Padding = log
  <2> SUFFICES ASSUME h.buf = <<>> PROVE log \o Padding = log
    OBVIOUS
  <2>1. Len(Padding) = 0
    BY <1>6 DEF m
  <2>2. Padding = <<>>
    BY <1>6, <2>1, EmptySeq
  <2> QED
    BY <1>1, <2>2, ConcatEmptySeq
<1> QED
  BY <1>4, <1>6, <1>7, <1>8 DEF m

\* What the file is once the buffer is flushed, and the audio in it.
LEMMA FlushedOf ==
    ASSUME TypeInv, file \in Seq(Cells), Writing, h.mode = "WRITE",
           NEW F, F = Written(file, h.pos, Flushed),
           NEW l, l = log \o Padding
    PROVE  /\ Flushed \in Seq(Cells) /\ F \in Seq(Cells) /\ l \in Seq(AudioCells)
           /\ Len(l) % GroupSize = 0 /\ Len(F) = AudioOffset + Len(l)
           /\ Len(F) = h.pos + Len(Flushed)
           /\ \A k \in 1..AudioOffset : F[k] = Header(0, 0, 0, 0)[k]
           /\ InPlace(F, l, Len(l))
           /\ \E n \in Nat : h.samples = 8 * n /\ Columns(l, n)
<1> DEFINE d == Done
<1>1. h.pos \in Nat /\ h.buf \in Seq(Cells) /\ log \in Seq(AudioCells)
  BY DEF TypeInv
<1>2. /\ h.pos >= AudioOffset /\ d = h.pos - AudioOffset /\ d % GroupSize = 0
      /\ Len(file) = h.pos /\ Len(h.buf) < GroupSize /\ Len(log) = d + Len(h.buf)
      /\ \A j \in 1..Len(h.buf) : h.buf[j] = Reversed(log[d + j]) /\ log[d + j] # Zero
      /\ \A k \in 1..AudioOffset : file[k] = Header(0, 0, 0, 0)[k]
      /\ InPlace(file, log, d)
  BY DEF Writing, Done
<1>3. PICK n \in Nat : h.samples = 8 * n /\ Columns(log, n)
  BY DEF Writing
<1> HIDE DEF d
<1>4. d \in Nat /\ h.pos = AudioOffset + d /\ GroupSize \in Nat \ {0}
  <2>1. h.pos \in Nat /\ h.pos >= AudioOffset /\ d = h.pos - AudioOffset /\ AudioOffset = 7
    BY <1>1, <1>2, Sizes
  <2>2. d \in Nat /\ h.pos = AudioOffset + d
    BY ONLY <2>1
  <2> QED
    BY <2>2, Sizes
<1>5. /\ Padding \in Seq(AudioCells) /\ \A i \in 1..Len(Padding) : Padding[i] = Zero
      /\ Len(Padding) = IF h.buf = <<>> THEN 0 ELSE GroupSize - Len(h.buf)
      /\ l \in Seq(AudioCells) /\ (h.buf = <<>> => l = log)
  BY PaddingOf
<1>6. CASE h.buf = <<>>
  <2>1. l = log /\ Flushed = <<>> /\ F = file
    BY <1>5, <1>6 DEF Flushed, Written
  <2>2. Len(h.buf) = 0 /\ Len(Flushed) = 0 /\ Flushed \in Seq(Cells)
    BY <1>6, <2>1
  <2>3. Len(l) = d
    BY <1>2, <1>4, <2>1, <2>2
  <2>4. Len(F) = AudioOffset + Len(l) /\ Len(F) = h.pos + Len(Flushed)
    <3>1. Len(F) = h.pos /\ Len(Flushed) = 0 /\ h.pos \in Nat /\ h.pos + 0 = h.pos
      BY <1>1, <1>2, <2>1, <2>2
    <3> QED
      BY <1>4, <2>3, <3>1
  <2> QED
    BY <1>2, <1>3, <1>5, <2>1, <2>2, <2>3, <2>4
<1>7. CASE h.buf # <<>>
  <2> DEFINE b == Len(h.buf)
             e == Len(Padding)
  <2>1. Flushed = BlockGroups(h.buf, 1) /\ 1 * GroupSize = GroupSize
    BY <1>4, <1>7 DEF Flushed
  <2>2. Flushed \in Seq(Cells) /\ Len(Flushed) = GroupSize
    BY <1>1, <2>1, BlockGroupsOf
  <2>3. /\ Len(l) = Len(log) + Len(Padding) /\ Len(log) \in Nat
        /\ \A i \in 1..Len(log) : l[i] = log[i]
        /\ \A i \in 1..Len(Padding) : l[Len(log) + i] = Padding[i]
    <3>1. log \in Seq(AudioCells) /\ Padding \in Seq(AudioCells) /\ l = log \o Padding
      BY <1>1, <1>5
    <3> QED
      BY ONLY <3>1, Concatenated
  <2>4. b \in Nat /\ b # 0 /\ e \in Nat /\ b + e = GroupSize /\ e < GroupSize
        /\ Len(log) = d + b /\ Len(l) = d + GroupSize
    <3>1. b \in Nat /\ b # 0 /\ b < GroupSize /\ e = GroupSize - b /\ Len(log) = d + b
          /\ Len(l) = Len(log) + e
      BY <1>1, <1>2, <1>5, <1>7, <2>3, EmptySeq
    <3> HIDE DEF b, e
    <3> QED
      BY <1>4, <3>1
  <2>5. InPlace(file, l, d)
    <3>1. d <= Len(log)
      <4> HIDE DEF b, e
      <4> QED
        BY <1>4, <2>4
    <3>2. InPlace(file, log, d)
      BY <1>2
    <3> QED
      BY <1>1, <1>4, <1>5, <3>1, <3>2, InPlaceExtends
  <2>6. ASSUME NEW j \in 1..(1 * GroupSize)
        PROVE  Reversed(l[d + j]) = IF j <= Len(h.buf) THEN h.buf[j] ELSE Zero
    <3>1. CASE j <= b
      <4>1. j \in 1..Len(h.buf) /\ d + j \in 1..Len(log)
        <5> HIDE DEF b, e
        <5>1. j \in 1..b /\ d + j \in 1..(d + b)
          BY <1>4, <2>1, <2>4, <3>1
        <5> QED
          BY <2>4, <5>1 DEF b
      <4> QED
        BY <1>2, <2>3, <4>1
    <3>2. CASE ~(j <= b)
      <4>1. j - b \in 1..e /\ Len(log) + (j - b) = d + j
        <5> HIDE DEF b, e
        <5> QED
          BY <1>4, <2>1, <2>4, <3>2
      <4>2. l[d + j] = Zero
        BY <1>5, <2>3, <4>1
      <4> QED
        BY <3>2, <4>2, AudioCellFacts
    <3> QED
      BY <3>1, <3>2
  <2>7. F = Written(file, AudioOffset + d, BlockGroups(h.buf, 1))
    BY <1>4, <2>1
  <2>8. /\ F \in Seq(Cells) /\ Len(F) = AudioOffset + d + 1 * GroupSize
        /\ \A i \in 1..Len(file) : F[i] = file[i]
        /\ InPlace(F, l, d + 1 * GroupSize)
        /\ (d + 1 * GroupSize) % GroupSize = 0
    <3>1. d % GroupSize = 0 /\ Len(file) = AudioOffset + d /\ 1 \in Nat
      BY <1>2, <1>4
    <3> DEFINE all == h.buf
               w == 1
               g == Written(file, AudioOffset + d, BlockGroups(all, w))
    <3>2. l \in Seq(AudioCells) /\ all \in Seq(Cells) /\ file \in Seq(Cells) /\ w \in Nat
      BY <1>1, <1>5
    <3>3. /\ \A j \in 1..(w * GroupSize) :
                Reversed(l[d + j]) = IF j <= Len(all) THEN all[j] ELSE Zero
          /\ F = g
      BY <2>6, <2>7
    <3> HIDE DEF all, w, g
    <3>4. /\ g \in Seq(Cells) /\ Len(g) = AudioOffset + d + w * GroupSize
          /\ \A i \in 1..Len(file) : g[i] = file[i]
          /\ InPlace(g, l, d + w * GroupSize)
          /\ (d + w * GroupSize) % GroupSize = 0
      BY ONLY <1>4, <2>5, <3>1, <3>2, <3>3, GroupsWritten DEF g
    <3> QED
      BY <3>3, <3>4 DEF w
  <2>9. /\ Len(F) = AudioOffset + Len(l) /\ Len(F) = h.pos + Len(Flushed)
        /\ InPlace(F, l, Len(l)) /\ Len(l) % GroupSize = 0
    <3>1. Len(l) = d + 1 * GroupSize /\ Len(F) = h.pos + GroupSize
      BY <1>4, <2>1, <2>4, <2>8
    <3>2. Len(F) = AudioOffset + Len(l)
      BY <1>4, <2>1, <2>4, <2>8, Sizes
    <3> QED
      BY <2>2, <2>8, <3>1, <3>2
  <2>10. \A k \in 1..AudioOffset : F[k] = Header(0, 0, 0, 0)[k]
    <3>1. \A k \in 1..AudioOffset : k \in 1..Len(file)
      BY <1>2, <1>4, Sizes, SMTT(40)
    <3> QED
      BY <1>2, <2>8, <3>1
  <2>11. Columns(l, n)
    <3>1. log # <<>> /\ log[Len(log)] # Zero
      <4>1. b \in 1..b /\ d + b = Len(log) /\ Len(log) # 0
        <5> HIDE DEF b, e
        <5> QED
          BY <1>4, <2>4
      <4> QED
        BY <1>2, <4>1
    <3>2. Columns(log, n) /\ Len(Padding) < GroupSize /\ l = log \o Padding
      BY <1>3, <2>4
    <3> QED
      BY <1>1, <1>5, <3>1, <3>2, ColumnsPad
  <2> QED
    BY <1>3, <1>5, <2>2, <2>8, <2>9, <2>10, <2>11
<1> QED
  BY <1>6, <1>7

LEMMA FlushedTyped ==
    ASSUME TypeInv
    PROVE  /\ Flushed \in Seq(Cells)
           /\ Len(Flushed) = IF h.mode = "WRITE" /\ h.buf # <<>> THEN GroupSize ELSE 0
           /\ BlockGroups(h.buf, 1) \in Seq(Cells) /\ Len(BlockGroups(h.buf, 1)) = GroupSize
<1>1. h.buf \in Seq(Cells)
  BY DEF TypeInv
<1>2. 1 * GroupSize = GroupSize
  BY Sizes
<1>3. BlockGroups(h.buf, 1) \in Seq(Cells) /\ Len(BlockGroups(h.buf, 1)) = GroupSize
  BY <1>1, <1>2, BlockGroupsOf
<1> QED
  BY <1>3 DEF Flushed

\* The first part of what a call writes.
LEMMA PartOf ==
    ASSUME NEW cells \in Seq(Cells), NEW k \in Nat, k <= Len(cells)
    PROVE  SubSeq(cells, 1, k) \in Seq(Cells) /\ Len(SubSeq(cells, 1, k)) = k
<1>1. 0 + k <= Len(cells) /\ 0 + k = k /\ 0 + 1 = 1
  OBVIOUS
<1>2. SubSeq(cells, 0 + 1, 0 + k) \in Seq(Cells) /\ Len(SubSeq(cells, 0 + 1, 0 + k)) = k
  BY <1>1, PieceOf
<1> QED
  BY <1>1, <1>2

LEMMA FlushAudioDataKeeps == ASSUME IInv, FlushAudioData PROVE IInv'
<1>1. TypeInv /\ StageInv /\ FileInv
  BY DEF IInv
<1> DEFINE cells == BlockGroups(h.buf, 1)
<1>2. /\ h.mode = "WRITE" /\ UNCHANGED <<src, tag>>
      /\ \/ /\ Call(FALSE)
            /\ file' = IF h.buf = <<>> THEN file ELSE Written(file, h.pos, cells)
            /\ h' = [h EXCEPT !.pos = IF h.buf = <<>> THEN @ ELSE @ + GroupSize, !.buf = <<>>]
            /\ log' = log \o Padding
            /\ stage' = WritingStage(TRUE) /\ Returns("flush", TRUE)
         \/ \E k \in 0..(GroupSize - 1) :
               /\ Call(TRUE) /\ file' = Written(file, h.pos, SubSeq(cells, 1, k))
               /\ h' = [h EXCEPT !.pos = @ + k]
               /\ stage' = WritingStage(FALSE) /\ Returns("flush", FALSE) /\ UNCHANGED log
  BY DEF FlushAudioData
<1>3. /\ h \in [mode : Modes, pos : Nat, samples : Nat, dataSize : Nat,
                buf : Seq(Cells), meta : Seq(Cells), rbuf : Seq(Cells)]
      /\ log \in Seq(AudioCells) /\ tag \in Seq(Cells) /\ Len(h.buf) <= GroupSize
  BY <1>1 DEF TypeInv
<1>4. /\ Flushed \in Seq(Cells) /\ Len(Flushed) = IF h.buf # <<>> THEN GroupSize ELSE 0
      /\ cells \in Seq(Cells) /\ Len(cells) = GroupSize
      /\ GroupSize \in Nat /\ log \o Padding \in Seq(AudioCells)
  BY <1>1, <1>2, FlushedTyped, PaddingOf, Sizes
<1>5. file \in Seq(Cells) /\ (stage = "writing" => Writing)
  BY <1>1, <1>2 DEF StageInv, FileInv
<1>6. h.pos \in Nat /\ h.samples \in Nat /\ h.dataSize \in Nat /\ h.buf \in Seq(Cells)
  BY <1>3
<1> DEFINE s == h.samples
           z == h.dataSize
           b == h.buf
<1>7. CASE /\ Call(FALSE)
           /\ file' = IF h.buf = <<>> THEN file ELSE Written(file, h.pos, cells)
           /\ h' = [h EXCEPT !.pos = IF h.buf = <<>> THEN @ ELSE @ + GroupSize, !.buf = <<>>]
           /\ log' = log \o Padding
           /\ stage' = WritingStage(TRUE) /\ Returns("flush", TRUE)
  <2> DEFINE p == h.pos + Len(Flushed)
  <2>1. file' = Written(file, h.pos, Flushed)
    BY <1>2, <1>7 DEF Flushed, Written
  <2>2. p \in Nat /\ p = IF h.buf = <<>> THEN h.pos ELSE h.pos + GroupSize
    <3>1. h.pos + 0 = h.pos /\ h.pos + GroupSize \in Nat
      BY <1>4, <1>6
    <3> QED
      BY <1>4, <1>6, <3>1
  <2>3. h' = [h EXCEPT !.pos = p, !.buf = <<>>, !.samples = s, !.dataSize = z]
    <3>1. h' = [h EXCEPT !.pos = p, !.buf = <<>>]
      BY <1>7, <2>2
    <3> HIDE DEF p
    <3> QED
      BY <1>3, <3>1
  <2> HIDE DEF p, s, z
  <2>4. s \in Nat /\ z \in Nat /\ <<>> \in Seq(Cells) /\ Len(<<>>) <= GroupSize
    BY <1>4, <1>6 DEF s, z
  <2>5. budget' \in [calls : Nat, sessions : Nat, faults : Nat] /\ budget'.sessions = budget.sessions
    BY <1>1, <1>7, CallFacts
  <2>6. /\ ret'.next \in Int /\ stage' \in {"writing", "final", "spoiled"}
        /\ stage' = "writing" => stage = "writing"
        /\ stage' \in {"writing", "spoiled"}
    BY <1>7, ReturnFacts DEF WritingStage
  <2>7. log' \in Seq(AudioCells) /\ tag' \in Seq(Cells) /\ src' = src
    BY <1>2, <1>3, <1>4, <1>7
  <2>8. TypeInv' /\ StageInv' /\ h'.pos = p /\ h'.buf = <<>> /\ h'.samples = s
    <3> DEFINE none == <<>>
    <3>1. none \in Seq(Cells) /\ Len(none) <= GroupSize
      BY <2>4
    <3>2. h' = [h EXCEPT !.pos = p, !.buf = none, !.samples = s, !.dataSize = z]
      BY <2>3
    <3> HIDE DEF none
    <3>3. TypeInv' /\ StageInv' /\ h'.pos = p /\ h'.buf = none /\ h'.samples = s
      <4>1. /\ h.mode = "WRITE" /\ Flushed \in Seq(Cells) /\ file \in Seq(Cells)
            /\ p \in Nat /\ s \in Nat /\ z \in Nat
            /\ ret'.next \in Int /\ stage' \in {"writing", "final", "spoiled"}
        BY <1>2, <1>4, <1>5, <2>2, <2>4, <2>6
      <4> QED
        BY ONLY <1>1, <2>1, <2>5, <2>7, <3>1, <3>2, <4>1, WriteTyped, ZenonT(60)
    <3> QED
      BY <3>3 DEF none
  <2>9. CASE stage' = "spoiled"
    BY <2>8, <2>9, Spoiled
  <2>10. CASE stage' = "writing"
    <3> DEFINE l == log \o Padding
    <3>1. Writing
      BY <1>5, <2>6, <2>10
    <3>2. file' = Written(file, h.pos, Flushed) /\ log' = l
      BY <1>7, <2>1
    <3> HIDE DEF l
    <3>3. /\ l \in Seq(AudioCells) /\ Len(l) % GroupSize = 0 /\ Len(file') = AudioOffset + Len(l)
          /\ Len(file') = h.pos + Len(Flushed)
          /\ \A k \in 1..AudioOffset : file'[k] = Header(0, 0, 0, 0)[k]
          /\ InPlace(file', l, Len(l))
          /\ \E n \in Nat : h.samples = 8 * n /\ Columns(l, n)
      BY <1>1, <1>2, <1>5, <2>1, <3>1, FlushedOf DEF l
    <3>4. h'.pos = AudioOffset + Len(l) /\ Len(file') = h'.pos
      BY <2>8, <3>3 DEF p
    <3>5. Done' = Len(l) /\ h'.pos >= AudioOffset
      <4>1. Len(l) \in Nat /\ AudioOffset = 7 /\ Done' = h'.pos - AudioOffset
        BY <3>3, LenProperties, Sizes DEF Done
      <4> DEFINE e == Len(l)
      <4> HIDE DEF e
      <4>2. e \in Nat /\ AudioOffset = 7 /\ Done' = h'.pos - AudioOffset /\ h'.pos = AudioOffset + e
        BY <3>4, <4>1 DEF e
      <4>3. Done' = e /\ h'.pos >= AudioOffset
        BY ONLY <4>2
      <4> QED
        BY <4>3 DEF e
    <3>6. Len(h'.buf) = 0 /\ Len(log') = Done' + Len(h'.buf) /\ 0 < GroupSize
      BY <2>8, <3>2, <3>3, <3>5, Sizes
    <3>7. \A j \in 1..Len(h'.buf) :
             h'.buf[j] = Reversed(log'[Done' + j]) /\ log'[Done' + j] # Zero
      BY <3>6
    <3>8. Writing'
      BY <2>8, <3>2, <3>3, <3>4, <3>5, <3>6, <3>7 DEF Writing, s
    <3>9. FileInv'
      BY <2>10, <3>8 DEF FileInv
    <3> QED
      BY <2>8, <2>10, <3>9, Assembled
  <2> QED
    BY <2>6, <2>9, <2>10
<1>8. ASSUME NEW k \in 0..(GroupSize - 1), Call(TRUE),
             file' = Written(file, h.pos, SubSeq(cells, 1, k)), h' = [h EXCEPT !.pos = @ + k],
             stage' = WritingStage(FALSE), Returns("flush", FALSE), UNCHANGED log
      PROVE  IInv'
  <2> DEFINE p == h.pos + k
             part == SubSeq(cells, 1, k)
  <2>1. p \in Nat /\ k \in Nat /\ k <= Len(cells)
    BY <1>4, <1>6
  <2>2. part \in Seq(Cells)
    BY <1>4, <2>1, PartOf
  <2>3. h' = [h EXCEPT !.pos = p, !.buf = b, !.samples = s, !.dataSize = z]
    BY <1>3, <1>8
  <2>4. file' = Written(file, h.pos, part)
    BY <1>8
  <2>5. b \in Seq(Cells) /\ Len(b) <= GroupSize /\ s \in Nat /\ z \in Nat
    BY <1>3
  <2> HIDE DEF p, part, b, s, z
  <2>6. budget' \in [calls : Nat, sessions : Nat, faults : Nat] /\ budget'.sessions = budget.sessions
    BY <1>1, <1>8, CallFacts
  <2>7. ret'.next \in Int /\ stage' = "spoiled"
    BY <1>8, ReturnFacts DEF WritingStage
  <2>8. log' \in Seq(AudioCells) /\ tag' \in Seq(Cells) /\ src' = src
    BY <1>2, <1>3, <1>8
  <2>9. TypeInv' /\ StageInv'
    BY <1>1, <1>2, <1>5, <2>1, <2>2, <2>3, <2>4, <2>5, <2>6, <2>7, <2>8, WriteTyped
  <2> QED
    BY <2>7, <2>9, Spoiled
<1> QED
  BY <1>2, <1>7, <1>8

----------------------------------------------------------------------------
(* dsf_finalize.                                                           *)

Number(n) == <<Cell("num", U64(n))>>

LEMMA NumberOf ==
    ASSUME NEW n \in Int, n + WORD \in Nat
    PROVE  /\ Number(n) \in Seq(Cells) /\ Len(Number(n)) = 1 /\ U64(n) \in Nat
           /\ Number(n)[1] = Cell("num", U64(n)) /\ Number(n) # <<>>
<1>1. U64(n) \in Nat /\ U64(n) < WORD
  BY WordOf, Words
<1>2. Cell("num", U64(n)) \in Cells
  BY <1>1, CellFacts
<1> DEFINE c == Cell("num", U64(n))
<1> HIDE DEF c
<1>3. <<c>> \in Seq(Cells) /\ Len(<<c>>) = 1 /\ <<c>>[1] = c /\ <<c>> # <<>>
  BY <1>2 DEF c
<1> QED
  BY <1>1, <1>3 DEF Number, c

\* The six writes.
LEMMA FinalWritesOf ==
    LET ws == FinalWrites IN
    /\ ws[1].at = h.pos /\ ws[1].cells = Flushed
    /\ ws[2].at = DataSizeAt /\ ws[2].cells = Number(DataHeader + (AudioEnd - AudioOffset))
    /\ ws[3].at = SampleCountAt /\ ws[3].cells = Number(h.samples)
    /\ ws[4].at = AudioEnd /\ ws[4].cells = h.meta
    /\ ws[5].at = FileSizeAt /\ ws[5].cells = Number(AudioEnd + Len(h.meta))
    /\ ws[6].at = MetadataAt
    /\ ws[6].cells = IF h.meta # <<>> /\ AudioEnd > 0 THEN Number(AudioEnd) ELSE <<>>
BY DEF FinalWrites, Number

LEMMA AudioEndOf ==
    ASSUME TypeInv
    PROVE  /\ AudioEnd \in Nat /\ AudioEnd = h.pos + Len(Flushed) /\ Len(Flushed) \in Nat
           /\ h.pos \in Nat /\ h.samples \in Nat /\ h.meta \in Seq(Cells) /\ Len(h.meta) \in Nat
           /\ DataHeader + (AudioEnd - AudioOffset) \in Int
           /\ DataHeader + (AudioEnd - AudioOffset) + WORD \in Nat
           /\ AudioEnd - AudioOffset \in Int /\ AudioEnd - AudioOffset + WORD \in Nat
<1> DEFINE c == Len(Flushed)
           e == AudioEnd
<1>1. c \in Nat
  <2>1. Flushed \in Seq(Cells)
    BY FlushedTyped
  <2> QED
    BY <2>1, LenProperties
<1>2. h.pos \in Nat /\ h.samples \in Nat /\ h.meta \in Seq(Cells)
  BY DEF TypeInv
<1>3. Len(h.meta) \in Nat
  BY <1>2, LenProperties
<1>4. e = h.pos + c
  BY DEF AudioEnd
<1> HIDE DEF c, e
<1>5. e \in Nat
  BY <1>1, <1>2, <1>4
<1>6. WORD \in Nat /\ 7 < WORD /\ AudioOffset = 7 /\ DataHeader = 2
  <2>1. WORD \in Nat /\ MAX_REASONABLE_CHUNK \in Nat /\ DataHeader = 2
        /\ MAX_REASONABLE_CHUNK + AudioOffset < WORD /\ AudioOffset = 7
    BY Words, Sizes
  <2> QED
    BY ONLY <2>1
<1>7. /\ DataHeader + (e - AudioOffset) \in Int /\ DataHeader + (e - AudioOffset) + WORD \in Nat
      /\ e - AudioOffset \in Int /\ e - AudioOffset + WORD \in Nat
  BY ONLY <1>5, <1>6
<1> QED
  BY <1>1, <1>2, <1>3, <1>4, <1>5, <1>7 DEF c, e

LEMMA FinalWritesTyped ==
    ASSUME TypeInv, NEW i \in 1..6
    PROVE  FinalWrites[i].at \in Nat /\ FinalWrites[i].cells \in Seq(Cells)
<1>1. /\ AudioEnd \in Nat /\ h.pos \in Nat /\ h.samples \in Nat /\ h.meta \in Seq(Cells)
      /\ Flushed \in Seq(Cells) /\ Len(h.meta) \in Nat
  BY AudioEndOf, FlushedTyped
<1>2. Number(DataHeader + (AudioEnd - AudioOffset)) \in Seq(Cells)
  BY AudioEndOf, NumberOf
<1>3. \A n \in Nat : Number(n) \in Seq(Cells)
  <2> SUFFICES ASSUME NEW n \in Nat PROVE Number(n) \in Seq(Cells)
    OBVIOUS
  <2>1. n \in Int /\ n + WORD \in Nat
    BY Words
  <2> QED
    BY <2>1, NumberOf
<1>4. AudioEnd + Len(h.meta) \in Nat
  BY <1>1
<1>5. /\ DataSizeAt \in Nat /\ SampleCountAt \in Nat /\ FileSizeAt \in Nat /\ MetadataAt \in Nat
      /\ <<>> \in Seq(Cells)
  BY DEF DataSizeAt, SampleCountAt, FileSizeAt, MetadataAt
<1>6. /\ FinalWrites[1].at = h.pos /\ FinalWrites[1].cells = Flushed
      /\ FinalWrites[2].at = DataSizeAt /\ FinalWrites[2].cells = Number(DataHeader + (AudioEnd - AudioOffset))
      /\ FinalWrites[3].at = SampleCountAt /\ FinalWrites[3].cells = Number(h.samples)
      /\ FinalWrites[4].at = AudioEnd /\ FinalWrites[4].cells = h.meta
      /\ FinalWrites[5].at = FileSizeAt /\ FinalWrites[5].cells = Number(AudioEnd + Len(h.meta))
      /\ FinalWrites[6].at = MetadataAt
      /\ FinalWrites[6].cells = IF h.meta # <<>> /\ AudioEnd > 0 THEN Number(AudioEnd) ELSE <<>>
  BY FinalWritesOf
<1>7. CASE i = 1
  BY <1>1, <1>6, <1>7
<1>8. CASE i = 2
  BY <1>2, <1>5, <1>6, <1>8
<1>9. CASE i = 3
  BY <1>1, <1>3, <1>5, <1>6, <1>9
<1>10. CASE i = 4
  BY <1>1, <1>6, <1>10
<1>11. CASE i = 5
  BY <1>3, <1>4, <1>5, <1>6, <1>11
<1>12. CASE i = 6
  BY <1>1, <1>3, <1>5, <1>6, <1>12
<1>13. i \in {1, 2, 3, 4, 5, 6}
  OBVIOUS
<1> QED
  BY <1>7, <1>8, <1>9, <1>10, <1>11, <1>12, <1>13

LEMMA AfterWritesTyped ==
    ASSUME file \in Seq(Cells), NEW n, NEW ws,
           \A i \in 1..6 : ws[i].at \in Nat /\ ws[i].cells \in Seq(Cells)
    PROVE  AfterWrites(ws, n) \in Seq(Cells)
<1> DEFINE On(f, i) == IF i <= n THEN Written(f, ws[i].at, ws[i].cells) ELSE f
<1>1. ASSUME NEW f \in Seq(Cells), NEW i \in 1..6 PROVE On(f, i) \in Seq(Cells)
  BY WrittenOf
<1>2. AfterWrites(ws, n) = On(On(On(On(On(On(file, 1), 2), 3), 4), 5), 6)
  BY DEF AfterWrites
<1> HIDE DEF On
<1>3. On(file, 1) \in Seq(Cells)
  BY <1>1
<1>4. On(On(file, 1), 2) \in Seq(Cells)
  BY <1>1, <1>3
<1>5. On(On(On(file, 1), 2), 3) \in Seq(Cells)
  BY <1>1, <1>4
<1>6. On(On(On(On(file, 1), 2), 3), 4) \in Seq(Cells)
  BY <1>1, <1>5
<1>7. On(On(On(On(On(file, 1), 2), 3), 4), 5) \in Seq(Cells)
  BY <1>1, <1>6
<1> QED
  BY <1>1, <1>2, <1>7

\* One cell of the header is rewritten.
Rewrites(w, f, p, x) ==
    /\ w \in Seq(Cells) /\ Len(w) = Len(f) /\ w[p] = x
    /\ \A i \in 1..Len(f) : i # p => w[i] = f[i]

LEMMA HeaderWritten ==
    ASSUME NEW f \in Seq(Cells), Len(f) >= 7, NEW c \in Seq(Cells), Len(c) = 1
    PROVE  /\ Rewrites(Written(f, 6, c), f, 7, c[1]) /\ Rewrites(Written(f, 4, c), f, 5, c[1])
           /\ Rewrites(Written(f, 1, c), f, 2, c[1]) /\ Rewrites(Written(f, 2, c), f, 3, c[1])
<1>1. ASSUME NEW at \in Nat, NEW p \in 1..7, p = at + 1
      PROVE  Rewrites(Written(f, at, c), f, p, c[1])
  <2>1. at \in Nat /\ at + Len(c) <= Len(f) /\ 1 \in 1..Len(c)
        /\ \A i \in Nat : i # p => ~(at < i /\ i <= at + Len(c))
    BY <1>1
  <2> DEFINE g == Written(f, at, c)
  <2> HIDE DEF g
  <2>2. /\ g \in Seq(Cells)
        /\ at + Len(c) <= Len(f) => Len(g) = Len(f)
        /\ \A i \in 1..Len(f) : ~(at < i /\ i <= at + Len(c)) => g[i] = f[i]
        /\ \A k \in 1..Len(c) : g[at + k] = c[k]
    BY <2>1, WrittenOf DEF g
  <2>3. /\ Len(g) = Len(f) /\ g[p] = c[1] /\ \A i \in 1..Len(f) : i # p => g[i] = f[i]
    BY <1>1, <2>1, <2>2
  <2> QED
    BY <2>2, <2>3 DEF g, Rewrites
<1>2. /\ 6 \in Nat /\ 4 \in Nat /\ 1 \in Nat /\ 2 \in Nat
      /\ 7 \in 1..7 /\ 5 \in 1..7 /\ 2 \in 1..7 /\ 3 \in 1..7
      /\ 7 = 6 + 1 /\ 5 = 4 + 1 /\ 2 = 1 + 1 /\ 3 = 2 + 1
  OBVIOUS
<1>3. Rewrites(Written(f, 6, c), f, 7, c[1])
  BY ONLY <1>1, <1>2
<1>4. Rewrites(Written(f, 4, c), f, 5, c[1])
  BY ONLY <1>1, <1>2
<1>5. Rewrites(Written(f, 1, c), f, 2, c[1])
  BY ONLY <1>1, <1>2
<1>6. Rewrites(Written(f, 2, c), f, 3, c[1])
  BY ONLY <1>1, <1>2
<1> QED
  BY <1>3, <1>4, <1>5, <1>6

\* The file after all of them.
LEMMA AllWrites ==
    ASSUME NEW ws
    PROVE  AfterWrites(ws, 6) =
             Written(Written(Written(Written(Written(Written(
               file, ws[1].at, ws[1].cells), ws[2].at, ws[2].cells), ws[3].at, ws[3].cells),
               ws[4].at, ws[4].cells), ws[5].at, ws[5].cells), ws[6].at, ws[6].cells)
<1> DEFINE On(f, i) == IF i <= 6 THEN Written(f, ws[i].at, ws[i].cells) ELSE f
<1>1. AfterWrites(ws, 6) = On(On(On(On(On(On(file, 1), 2), 3), 4), 5), 6)
  BY DEF AfterWrites
<1>2. \A f : \A i \in 1..6 : On(f, i) = Written(f, ws[i].at, ws[i].cells)
  OBVIOUS
<1> HIDE DEF On
<1> QED
  BY <1>1, <1>2

LEMMA FinalFile ==
    ASSUME TypeInv, file \in Seq(Cells), h.pos >= AudioOffset,
           NEW g \in Seq(Cells), g = Written(file, h.pos, Flushed), Len(g) >= 7
    PROVE  LET F == AfterWrites(FinalWrites, 6) IN
           /\ F \in Seq(Cells) /\ Len(g) <= Len(F)
           /\ Len(g) = AudioEnd => Len(F) = AudioEnd + Len(h.meta)
           /\ F[2] = Cell("num", U64(AudioEnd + Len(h.meta)))
           /\ F[5] = Cell("num", U64(h.samples))
           /\ F[7] = Cell("num", U64(DataHeader + (AudioEnd - AudioOffset)))
           /\ F[3] = IF h.meta = <<>> THEN g[3] ELSE Cell("num", U64(AudioEnd))
           /\ \A i \in 1..Len(g) : i \notin {2, 3, 5, 7} /\ i <= AudioEnd => F[i] = g[i]
           /\ \A k \in 1..Len(h.meta) : AudioEnd + k <= Len(F) /\ F[AudioEnd + k] = h.meta[k]
<1> DEFINE e == AudioEnd
           t == h.meta
           n2 == Number(DataHeader + (e - AudioOffset))
           n3 == Number(h.samples)
           n5 == Number(e + Len(t))
           n6 == Number(e)
           g2 == Written(g, 6, n2)
           g3 == Written(g2, 4, n3)
           g4 == Written(g3, e, t)
           g5 == Written(g4, 1, n5)
           g6 == Written(g5, 2, IF t # <<>> THEN n6 ELSE <<>>)
           F == AfterWrites(FinalWrites, 6)
<1>1. e \in Nat /\ 7 <= e /\ t \in Seq(Cells) /\ Len(t) \in Nat /\ h.samples \in Nat
  <2>1. /\ e \in Nat /\ t \in Seq(Cells) /\ Len(t) \in Nat /\ h.samples \in Nat
        /\ e = h.pos + Len(Flushed) /\ Len(Flushed) \in Nat /\ h.pos \in Nat
    BY AudioEndOf
  <2>2. h.pos >= 7
    BY Sizes
  <2> HIDE DEF e, t
  <2>3. 7 <= e
    BY ONLY <2>1, <2>2
  <2> QED
    BY <2>1, <2>3
<1>2. e > 0
  <2> HIDE DEF e
  <2> QED
    BY ONLY <1>1
<1>3. F = g6
  <2> DEFINE ws == FinalWrites
  <2>1. /\ ws[1].at = h.pos /\ ws[1].cells = Flushed /\ ws[2].at = 6 /\ ws[2].cells = n2
        /\ ws[3].at = 4 /\ ws[3].cells = n3 /\ ws[4].at = e /\ ws[4].cells = t
        /\ ws[5].at = 1 /\ ws[5].cells = n5 /\ ws[6].at = 2
        /\ ws[6].cells = IF t # <<>> THEN n6 ELSE <<>>
    BY <1>2, FinalWritesOf DEF DataSizeAt, SampleCountAt, FileSizeAt, MetadataAt
  <2> HIDE DEF n2, n3, n5, n6, e, t, ws
  <2>2. AfterWrites(ws, 6) =
             Written(Written(Written(Written(Written(Written(
               file, ws[1].at, ws[1].cells), ws[2].at, ws[2].cells), ws[3].at, ws[3].cells),
               ws[4].at, ws[4].cells), ws[5].at, ws[5].cells), ws[6].at, ws[6].cells)
    BY AllWrites
  <2> QED
    BY <2>1, <2>2 DEF ws
<1>4. /\ n2 \in Seq(Cells) /\ Len(n2) = 1
      /\ n2[1] = Cell("num", U64(DataHeader + (e - AudioOffset)))
  BY AudioEndOf, NumberOf
<1>5. \A n \in Nat : /\ Number(n) \in Seq(Cells) /\ Len(Number(n)) = 1
                     /\ Number(n)[1] = Cell("num", U64(n))
  <2> SUFFICES ASSUME NEW n \in Nat
               PROVE  /\ Number(n) \in Seq(Cells) /\ Len(Number(n)) = 1
                      /\ Number(n)[1] = Cell("num", U64(n))
    OBVIOUS
  <2>1. n \in Int /\ n + WORD \in Nat
    BY Words
  <2> QED
    BY <2>1, NumberOf
<1>6. /\ n3 \in Seq(Cells) /\ Len(n3) = 1 /\ n3[1] = Cell("num", U64(h.samples))
      /\ n5 \in Seq(Cells) /\ Len(n5) = 1 /\ n5[1] = Cell("num", U64(e + Len(t)))
      /\ n6 \in Seq(Cells) /\ Len(n6) = 1 /\ n6[1] = Cell("num", U64(e))
  <2>1. e + Len(t) \in Nat
    <3> HIDE DEF e
    <3> QED
      BY <1>1
  <2> QED
    BY <1>1, <1>5, <2>1
<1> DEFINE c2 == n2[1]
           c3 == n3[1]
           c5 == n5[1]
           c6 == n6[1]
<1> HIDE DEF n2, n3, n5, n6, F
<1>7. /\ g2 \in Seq(Cells) /\ Len(g2) = Len(g) /\ g2[7] = c2
      /\ \A i \in 1..Len(g) : i # 7 => g2[i] = g[i]
  <2>1. Rewrites(g2, g, 7, c2)
    BY ONLY <1>4, g \in Seq(Cells), Len(g) >= 7, HeaderWritten
  <2> HIDE DEF g2
  <2> QED
    BY <2>1 DEF Rewrites
<1> HIDE DEF g2
<1>8. /\ g3 \in Seq(Cells) /\ Len(g3) = Len(g) /\ g3[5] = c3 /\ Len(g3) \in Nat
      /\ \A i \in 1..Len(g) : i # 5 => g3[i] = g2[i]
  <2>1. Len(g2) >= 7 /\ g2 \in Seq(Cells) /\ n3 \in Seq(Cells) /\ Len(n3) = 1
    BY <1>6, <1>7
  <2> DEFINE x == n3[1]
  <2>2. Rewrites(g3, g2, 5, x)
    BY ONLY <2>1, HeaderWritten
  <2> HIDE DEF g3
  <2>4. /\ g3 \in Seq(Cells) /\ Len(g3) = Len(g2) /\ g3[5] = c3
        /\ \A i \in 1..Len(g2) : i # 5 => g3[i] = g2[i]
    BY <2>2 DEF Rewrites
  <2>3. Len(g3) \in Nat
    BY <2>4, LenProperties
  <2> QED
    BY <1>7, <2>3, <2>4
<1> HIDE DEF g3, e, t
<1>9. /\ g4 \in Seq(Cells) /\ Len(g) <= Len(g4)
      /\ \A i \in 1..Len(g) : i <= e => g4[i] = g3[i]
      /\ \A k \in 1..Len(t) : g4[e + k] = t[k]
      /\ Len(g) = e => Len(g4) = e + Len(t)
  <2>1. /\ g4 \in Seq(Cells) /\ Len(g3) <= Len(g4)
        /\ t # <<>> /\ Len(g3) <= e + Len(t) => Len(g4) = e + Len(t)
        /\ t = <<>> => Len(g4) = Len(g3)
        /\ \A i \in 1..Len(g3) : ~(e < i /\ i <= e + Len(t)) => g4[i] = g3[i]
        /\ \A k \in 1..Len(t) : g4[e + k] = t[k]
    BY ONLY <1>1, <1>8, WrittenOf
  <2>2. \A i \in 1..Len(g3) : i <= e => ~(e < i /\ i <= e + Len(t))
    BY ONLY <1>1, <1>8
  <2>3. ASSUME Len(g) = e PROVE Len(g4) = e + Len(t)
    <3>1. CASE t = <<>>
      <4>1. Len(t) = 0 /\ Len(g4) = e
        BY <1>8, <2>1, <2>3, <3>1
      <4> QED
        BY <1>1, <4>1
    <3>2. CASE t # <<>>
      <4>1. e <= e + Len(t)
        BY ONLY <1>1
      <4> QED
        BY <1>8, <2>1, <2>3, <3>2, <4>1
    <3> QED
      BY <3>1, <3>2
  <2> QED
    BY <1>8, <2>1, <2>2, <2>3
<1> HIDE DEF g4
<1>10. Len(g4) \in Nat /\ Len(g4) >= 7 /\ Len(g) \in Nat
  <2>1. Len(g4) \in Nat /\ Len(g) \in Nat /\ Len(g) <= Len(g4) /\ Len(g) >= 7
    BY <1>9, LenProperties
  <2> QED
    BY ONLY <2>1
<1>11. /\ g5 \in Seq(Cells) /\ Len(g5) = Len(g4) /\ g5[2] = c5
       /\ \A i \in 1..Len(g4) : i # 2 => g5[i] = g4[i]
  <2>1. g4 \in Seq(Cells) /\ n5 \in Seq(Cells) /\ Len(n5) = 1
    BY <1>6, <1>9
  <2>2. Rewrites(g5, g4, 2, c5)
    BY ONLY <1>10, <2>1, HeaderWritten
  <2> HIDE DEF g5
  <2> QED
    BY <2>2 DEF Rewrites
<1> HIDE DEF g5
<1>12. /\ g6 \in Seq(Cells) /\ Len(g6) = Len(g4) /\ g6[3] = IF t # <<>> THEN c6 ELSE g5[3]
       /\ \A i \in 1..Len(g4) : i # 3 => g6[i] = g5[i]
  <2>1. CASE t = <<>>
    <3>1. g6 = g5
      BY <2>1 DEF Written
    <3> HIDE DEF g6
    <3> QED
      BY <1>11, <2>1, <3>1
  <2>2. CASE t # <<>>
    <3>1. g5 \in Seq(Cells) /\ Len(g5) >= 7 /\ n6 \in Seq(Cells) /\ Len(n6) = 1
      BY <1>6, <1>10, <1>11
    <3>2. g6 = Written(g5, 2, n6)
      BY <2>2
    <3> HIDE DEF g6
    <3>3. Rewrites(g6, g5, 3, c6)
      BY ONLY <3>1, <3>2, HeaderWritten
    <3> QED
      BY <1>11, <2>2, <3>3 DEF Rewrites
  <2> QED
    BY <2>1, <2>2
<1> HIDE DEF g6, c2, c3, c5, c6
<1>13. ASSUME NEW i \in 1..Len(g) PROVE i \in 1..Len(g4)
  BY ONLY <1>9, <1>10, i \in 1..Len(g)
<1>14. {2, 3, 5, 7} \subseteq 1..Len(g)
  BY <1>10
<1>15. F[2] = c5 /\ F[5] = c3 /\ F[7] = c2 /\ F[3] = IF t = <<>> THEN g[3] ELSE c6
  <2>1. F[2] = c5
    BY <1>3, <1>11, <1>12, <1>13, <1>14
  <2>2. F[5] = c3 /\ F[7] = c2
    <3>1. 5 \in 1..Len(g) /\ 7 \in 1..Len(g) /\ 5 <= e /\ 7 <= e /\ 5 \in 1..Len(g4) /\ 7 \in 1..Len(g4)
      <4>1. 5 <= e /\ 7 <= e
        BY ONLY <1>1
      <4> QED
        BY <1>13, <1>14, <4>1
    <3>2. F[5] = g4[5] /\ F[7] = g4[7]
      BY <1>3, <1>11, <1>12, <3>1
    <3>3. g4[5] = g3[5] /\ g4[7] = g3[7]
      BY <1>9, <3>1
    <3>4. g3[7] = g2[7]
      BY <1>8, <3>1
    <3> QED
      BY <1>7, <1>8, <3>2, <3>3, <3>4
  <2>3. g5[3] = g[3]
    <3>1. 3 \in 1..Len(g) /\ 3 <= e /\ 3 \in 1..Len(g4)
      <4>1. 3 <= e
        BY ONLY <1>1
      <4> QED
        BY <1>13, <1>14, <4>1
    <3> QED
      BY <1>7, <1>8, <1>9, <1>11, <3>1
  <2> QED
    BY <1>3, <1>12, <2>1, <2>2, <2>3
<1>16. ASSUME NEW i \in 1..Len(g), i \notin {2, 3, 5, 7}, i <= e PROVE F[i] = g[i]
  <2>1. i \in 1..Len(g4)
    BY <1>13
  <2> QED
    BY <1>3, <1>7, <1>8, <1>9, <1>11, <1>12, <1>16, <2>1
<1>17. ASSUME NEW k \in 1..Len(t) PROVE e + k <= Len(F) /\ F[e + k] = t[k]
  <2>1. e + k \in 1..Len(g4) /\ e + k # 2 /\ e + k # 3
    <3>1. k \in Nat /\ k >= 1 /\ e \in Nat /\ 7 <= e
      BY <1>1
    <3>2. e + k <= Len(g4)
      <4>1. e + Len(t) <= Len(g4)
        <5>1. t # <<>>
          BY <1>17
        <5> DEFINE m == Len(t)
        <5>2. g4 = Written(g3, e, t) /\ g3 \in Seq(Cells) /\ t \in Seq(Cells) /\ e \in Nat
          BY <1>1, <1>8 DEF g4
        <5>3. /\ Len(g3) <= e + Len(t) => Len(g4) = e + Len(t)
              /\ Len(g3) <= Len(g4)
          BY ONLY <5>1, <5>2, WrittenOf
        <5>4. m \in Nat /\ Len(g3) \in Nat /\ Len(g4) \in Nat
          BY <1>1, <1>8, <1>10
        <5> HIDE DEF m
        <5>5. e + m <= Len(g4)
          BY ONLY <1>1, <5>3, <5>4 DEF m
        <5> QED
          BY <5>5 DEF m
      <4>2. k <= Len(t)
        BY <1>1
      <4> QED
        BY ONLY <1>1, <1>10, <3>1, <4>1, <4>2
    <3> QED
      BY ONLY <1>10, <3>1, <3>2
  <2>2. F[e + k] = g4[e + k] /\ Len(F) = Len(g4)
    BY <1>3, <1>11, <1>12, <2>1
  <2>3. e + k <= Len(g4)
    BY <1>10, <2>1
  <2> QED
    BY <1>9, <2>2, <2>3
<1>18. F \in Seq(Cells) /\ Len(g) <= Len(F) /\ (Len(g) = e => Len(F) = e + Len(t))
  BY <1>3, <1>9, <1>12
<1>19. /\ c2 = Cell("num", U64(DataHeader + (AudioEnd - AudioOffset)))
       /\ c3 = Cell("num", U64(h.samples))
       /\ c5 = Cell("num", U64(AudioEnd + Len(h.meta))) /\ c6 = Cell("num", U64(AudioEnd))
  BY <1>4, <1>6 DEF c2, c3, c5, c6, e, t
<1> QED
  BY <1>15, <1>16, <1>17, <1>18, <1>19 DEF F, e, t

\* The file that dsf_finalize saves at the end of the writing.
LEMMA FinalSaved ==
    ASSUME TypeInv, file \in Seq(Cells), Writing, h.mode = "WRITE",
           NEW F, F = AfterWrites(FinalWrites, 6), NEW l, l = log \o Padding,
           AudioEnd + Len(h.meta) <= MAX_REASONABLE_CHUNK, h.samples < WORD
    PROVE  Saved(F, l, h.meta) /\ Len(F) = AudioEnd + Len(h.meta)
<1> DEFINE g == Written(file, h.pos, Flushed)
           t == h.meta
           e == AudioEnd
           m == Len(l)
           k == Len(t)
<1>1. /\ g \in Seq(Cells) /\ l \in Seq(AudioCells)
      /\ Len(l) % GroupSize = 0 /\ Len(g) = AudioOffset + m /\ Len(g) = h.pos + Len(Flushed)
      /\ \A i \in 1..AudioOffset : g[i] = Header(0, 0, 0, 0)[i]
      /\ InPlace(g, l, Len(l))
      /\ \E n \in Nat : h.samples = 8 * n /\ Columns(l, n)
  BY FlushedOf
<1>2. PICK n \in Nat : h.samples = 8 * n /\ Columns(l, n)
  BY <1>1
<1>3. m \in Nat /\ e = Len(g) /\ e \in Nat /\ t \in Seq(Cells) /\ k \in Nat /\ h.samples \in Nat
  BY <1>1, AudioEndOf, LenProperties
<1>4. e = 7 + m /\ AudioOffset = 7 /\ h.pos >= AudioOffset /\ Len(g) >= 7
  <2>1. AudioOffset = 7 /\ h.pos >= AudioOffset
    BY Sizes DEF Writing
  <2>2. e = AudioOffset + m
    BY <1>1, <1>3
  <2> HIDE DEF e, m, g
  <2> QED
    BY <1>3, <2>1, <2>2
<1>5. /\ F \in Seq(Cells)
      /\ Len(g) = e => Len(F) = e + Len(t)
      /\ F[2] = Cell("num", U64(e + Len(t)))
      /\ F[5] = Cell("num", U64(h.samples))
      /\ F[7] = Cell("num", U64(DataHeader + (e - AudioOffset)))
      /\ F[3] = IF t = <<>> THEN g[3] ELSE Cell("num", U64(e))
      /\ \A i \in 1..Len(g) : i \notin {2, 3, 5, 7} /\ i <= e => F[i] = g[i]
      /\ \A i \in 1..Len(t) : F[e + i] = t[i]
  BY <1>1, <1>4, FinalFile, ZenonT(60)
<1> HIDE DEF g, t, e
<1>6. Len(F) = e + k
  BY <1>3, <1>5
<1>7. e + k <= MAX_REASONABLE_CHUNK
  BY DEF e, t
<1>8. /\ U64(e + k) = e + k /\ U64(e) = e /\ U64(h.samples) = h.samples
      /\ e + k \in Nat /\ e - AudioOffset = m
  <2>1. WORD \in Nat /\ MAX_REASONABLE_CHUNK \in Nat /\ MAX_REASONABLE_CHUNK + 7 < WORD
    BY <1>4, Words
  <2> HIDE DEF m, k
  <2>2. e + k \in 0..(WORD - 1) /\ e \in 0..(WORD - 1) /\ h.samples \in 0..(WORD - 1)
        /\ e + k \in Nat /\ e - AudioOffset = m
    BY <1>3, <1>4, <1>7, <2>1
  <2>3. \A x \in 0..(WORD - 1) : U64(x) = x
    <3> SUFFICES ASSUME NEW x \in 0..(WORD - 1) PROVE U64(x) = x
      OBVIOUS
    <3>1. x \in Int /\ x + WORD \in Nat
      BY <2>1
    <3> QED
      BY <3>1, WordOf
  <2> QED
    BY <2>2, <2>3
<1> HIDE DEF m, k
<1>9. /\ F[1] = g[1] /\ F[4] = g[4] /\ F[6] = g[6]
      /\ F[3] = IF t = <<>> THEN g[3] ELSE Cell("num", e)
  <2>1. \A i \in {1, 4, 6} : i \in 1..Len(g) /\ i \notin {2, 3, 5, 7} /\ i <= e
    BY <1>3, <1>4
  <2> QED
    BY <1>5, <1>8, <2>1
<1>10. /\ g[1] = Cell("id", 1) /\ g[3] = Cell("num", 0) /\ g[4] = Cell("id", 2)
       /\ g[6] = Cell("id", 3)
  <2> DEFINE s == Header(0, 0, 0, 0)
  <2>1. s[1] = Cell("id", 1) /\ s[3] = Cell("num", 0) /\ s[4] = Cell("id", 2) /\ s[6] = Cell("id", 3)
    BY HeaderOf
  <2>2. g[1] = s[1] /\ g[3] = s[3] /\ g[4] = s[4] /\ g[6] = s[6]
    BY <1>1, <1>4
  <2> HIDE DEF s
  <2> QED
    BY <2>1, <2>2
<1>11. \A i \in 1..AudioOffset :
          F[i] = Header(Len(F), IF t = <<>> THEN 0 ELSE AudioOffset + Len(l), 8 * n, Len(l))[i]
  <2> DEFINE x == IF t = <<>> THEN 0 ELSE AudioOffset + Len(l)
             y == 8 * n
             s == Header(Len(F), x, y, Len(l))
  <2>1. x = IF t = <<>> THEN 0 ELSE e
    BY <1>4 DEF m
  <2>2. /\ s[1] = Cell("id", 1) /\ s[2] = Cell("num", Len(F)) /\ s[3] = Cell("num", x)
        /\ s[4] = Cell("id", 2) /\ s[5] = Cell("num", y)
        /\ s[6] = Cell("id", 3) /\ s[7] = Cell("num", U64(DataHeader + Len(l)))
    BY HeaderOf
  <2>3. F[2] = Cell("num", Len(F)) /\ F[5] = Cell("num", y) /\ F[7] = Cell("num", U64(DataHeader + Len(l)))
    BY <1>2, <1>5, <1>6, <1>8 DEF m, k
  <2> HIDE DEF x, y, s
  <2>4. F[3] = Cell("num", x)
    BY <1>9, <1>10, <2>1
  <2>5. \A i \in 1..AudioOffset : i \in {1, 2, 3, 4, 5, 6, 7}
    BY <1>4
  <2>6. \A i \in {1, 2, 3, 4, 5, 6, 7} : F[i] = s[i]
    BY <1>9, <1>10, <2>2, <2>3, <2>4
  <2> QED
    BY <2>5, <2>6 DEF x, y, s
<1>12. InPlace(F, l, Len(l))
  <2> SUFFICES ASSUME NEW i \in 1..Len(l)
               PROVE  /\ AudioOffset + Spot(i - 1) < Len(F)
                      /\ F[AudioOffset + Spot(i - 1) + 1] = Reversed(l[i])
    BY DEF InPlace
  <2> DEFINE x == Spot(i - 1)
  <2>1. x \in Nat
    <3>1. i - 1 \in Nat
      BY <1>3 DEF m
    <3> QED
      BY <3>1, SpotOf
  <2>2. AudioOffset + x < Len(g) /\ g[AudioOffset + x + 1] = Reversed(l[i])
    BY <1>1 DEF InPlace
  <2> HIDE DEF x
  <2>3. /\ AudioOffset + x + 1 \in 1..Len(g) /\ AudioOffset + x + 1 \notin {2, 3, 5, 7}
        /\ AudioOffset + x + 1 <= e /\ AudioOffset + x < e + k
    BY <1>3, <1>4, <2>1, <2>2
  <2>4. F[AudioOffset + x + 1] = g[AudioOffset + x + 1]
    BY <1>5, <2>3
  <2> QED
    BY <1>6, <2>2, <2>3, <2>4 DEF x
<1>13. \A i \in 1..Len(t) : F[AudioOffset + Len(l) + i] = t[i]
  <2>1. AudioOffset + Len(l) = e
    BY <1>4 DEF m
  <2> QED
    BY <1>5, <2>1
<1>14. Len(F) = AudioOffset + Len(l) + Len(t) /\ Len(F) <= MAX_REASONABLE_CHUNK
  <2>1. AudioOffset + Len(l) = e
    BY <1>4 DEF m
  <2> QED
    BY <1>6, <1>7, <2>1 DEF k
<1>15. Saved(F, l, t)
  BY <1>1, <1>2, <1>11, <1>12, <1>13, <1>14 DEF Saved
<1> QED
  BY <1>6, <1>15 DEF e, t, k

\* The file that dsf_finalize saves after a modification, once it is cut off.
LEMMA FinalTagged ==
    ASSUME TypeInv, file \in Seq(Cells), h.mode = "MODIFY", h.pos >= AudioOffset,
           Len(file) >= 7, file[1] = Cell("id", 1), file[4] = Cell("id", 2),
           file[6] = Cell("id", 3), h.meta = <<>> => Field(file, MetadataAt) = 0,
           NEW F, F = AfterWrites(FinalWrites, 6),
           AudioEnd + Len(h.meta) <= MAX_REASONABLE_CHUNK
    PROVE  Tagged(Resized(F, AudioEnd + Len(h.meta)), h.meta)
<1> DEFINE t == h.meta
           e == AudioEnd
           k == Len(t)
           r == Resized(F, e + k)
<1>1. Flushed = <<>> /\ file = Written(file, h.pos, Flushed)
  BY DEF Flushed, Written
<1>2. /\ e \in Nat /\ t \in Seq(Cells) /\ k \in Nat /\ h.samples \in Nat
      /\ h.pos \in Nat /\ e = h.pos /\ AudioOffset = 7 /\ e >= 7
  <2>1. /\ e \in Nat /\ t \in Seq(Cells) /\ k \in Nat /\ h.samples \in Nat
        /\ h.pos \in Nat /\ e = h.pos + Len(Flushed) /\ AudioOffset = 7
    BY AudioEndOf, Sizes
  <2>2. Len(Flushed) = 0
    BY <1>1
  <2> HIDE DEF e, t, k
  <2> QED
    BY <2>1, <2>2
<1>3. /\ F \in Seq(Cells) /\ Len(file) <= Len(F)
      /\ F[7] = Cell("num", U64(DataHeader + (e - AudioOffset)))
      /\ F[3] = IF t = <<>> THEN file[3] ELSE Cell("num", U64(e))
      /\ \A i \in 1..Len(file) : i \notin {2, 3, 5, 7} /\ i <= e => F[i] = file[i]
      /\ \A i \in 1..Len(t) : e + i <= Len(F) /\ F[e + i] = t[i]
  BY <1>1, FinalFile
<1> HIDE DEF t, e
<1>4. e + k <= MAX_REASONABLE_CHUNK
  BY DEF e, t
<1>5. /\ U64(DataHeader + (e - AudioOffset)) \in DataHeader..MAX_REASONABLE_CHUNK
      /\ U64(e) = e /\ e + k \in Nat
  <2>1. WORD \in Nat /\ MAX_REASONABLE_CHUNK \in Nat /\ MAX_REASONABLE_CHUNK + 7 < WORD
        /\ DataHeader = 2
    BY <1>2, Words
  <2> DEFINE x == DataHeader + (e - AudioOffset)
  <2>2. x = e - 5
    BY <1>2, <2>1
  <2> HIDE DEF k, x
  <2>3. /\ x \in 0..(WORD - 1) /\ e \in 0..(WORD - 1) /\ e + k \in Nat
        /\ x \in DataHeader..MAX_REASONABLE_CHUNK
    <3>1. e \in Nat /\ k \in Nat /\ e >= 7 /\ e <= MAX_REASONABLE_CHUNK
      BY <1>2, <1>4, <2>1
    <3> DEFINE top == MAX_REASONABLE_CHUNK
    <3> HIDE DEF top
    <3>2. e \in Nat /\ e >= 7 /\ e <= top /\ top \in Nat /\ WORD \in Nat /\ top + 7 < WORD
          /\ x = e - 5
      BY <2>1, <2>2, <3>1 DEF top
    <3>3. x \in 0..(WORD - 1) /\ e \in 0..(WORD - 1) /\ x \in 2..top
      BY ONLY <3>2
    <3> QED
      BY <2>1, <3>1, <3>3 DEF top
  <2>4. \A y \in 0..(WORD - 1) : U64(y) = y
    <3> SUFFICES ASSUME NEW y \in 0..(WORD - 1) PROVE U64(y) = y
      OBVIOUS
    <3>1. y \in Int /\ y + WORD \in Nat
      BY <2>1
    <3> QED
      BY <3>1, WordOf
  <2> QED
    BY <2>3, <2>4 DEF x
<1>6. /\ r \in Seq(Cells) /\ Len(r) = e + k
      /\ \A i \in 1..(e + k) : i <= Len(F) => r[i] = F[i]
  BY <1>3, <1>5, ResizedOf
<1> HIDE DEF r
<1>7. \A i \in {1, 3, 4, 6, 7} : i \in 1..(e + k) /\ i <= Len(F) /\ i \in 1..Len(file) /\ i <= e
  <2>1. Len(file) \in Nat /\ Len(F) \in Nat
    BY <1>3, LenProperties
  <2> HIDE DEF k
  <2> QED
    BY <1>2, <1>3, <2>1, SMTT(40)
<1>8. /\ r[1] = Cell("id", 1) /\ r[4] = Cell("id", 2) /\ r[6] = Cell("id", 3)
      /\ r[7] = F[7] /\ r[3] = F[3]
  <2>1. r[1] = F[1] /\ r[4] = F[4] /\ r[6] = F[6] /\ r[7] = F[7] /\ r[3] = F[3]
    BY <1>6, <1>7
  <2>2. F[1] = file[1] /\ F[4] = file[4] /\ F[6] = file[6]
    BY <1>3, <1>7
  <2> QED
    BY <2>1, <2>2
<1>9. Sound(r)
  <2>1. r[7][2] \in DataHeader..MAX_REASONABLE_CHUNK
    BY <1>3, <1>5, <1>8 DEF Cell
  <2>2. Len(r) >= AudioOffset
    <3> HIDE DEF k
    <3> QED
      BY <1>2, <1>6
  <2> QED
    BY <1>8, <2>1, <2>2 DEF Sound
<1>10. CASE t = <<>>
  <2>1. Field(r, MetadataAt) = Field(file, MetadataAt)
    BY <1>3, <1>8, <1>10, FieldPlaces DEF Field
  <2>2. Field(file, MetadataAt) = 0
    BY <1>10 DEF t
  <2>3. Tagged(r, t)
    BY <1>9, <1>10, <2>1, <2>2 DEF Tagged
  <2> QED
    BY <2>3 DEF r, t, e, k
<1>11. CASE t # <<>>
  <2>1. Field(r, MetadataAt) = e
    BY <1>3, <1>5, <1>8, <1>11, FieldPlaces DEF Field, Cell
  <2>2. 0 < e /\ e = Len(r) - Len(t)
    <3>1. Len(r) = e + k /\ k = Len(t)
      BY <1>6
    <3> HIDE DEF k
    <3> QED
      BY <1>2, <3>1
  <2>3. ASSUME NEW i \in 1..Len(t) PROVE r[Len(r) - Len(t) + i] = t[i]
    <3>1. e + i \in 1..(e + k)
      BY <1>2, SMTT(40)
    <3>2. e + i <= Len(F)
      BY <1>3
    <3> QED
      BY <1>3, <1>6, <2>2, <3>1, <3>2
  <2>4. Tagged(r, t)
    BY <1>9, <1>11, <2>1, <2>2, <2>3 DEF Tagged
  <2> QED
    BY <2>4 DEF r, t, e, k
<1> QED
  BY <1>10, <1>11

\* A finalize leaves a well-formed handle and buffer.
LEMMA FinalTyped ==
    ASSUME TypeInv, StageInv, h.mode \in {"WRITE", "MODIFY"}, file' \in Seq(Cells),
           NEW p \in Nat, NEW b \in Seq(Cells), NEW z \in Nat,
           b = <<>> \/ b = h.buf, h' = [h EXCEPT !.pos = p, !.buf = b, !.dataSize = z],
           log' \in Seq(AudioCells), tag' \in Seq(Cells), src' = src,
           budget' \in [calls : Nat, sessions : Nat, faults : Nat],
           budget'.sessions = budget.sessions,
           ret'.next \in Int, stage' \in {"final", "changed", "spoiled"},
           stage' = "final" => h.mode = "WRITE", stage' = "changed" => h.mode = "MODIFY"
    PROVE  /\ TypeInv' /\ StageInv'
           /\ h'.pos = p /\ h'.mode = h.mode /\ h'.meta = h.meta
<1>1. /\ h \in [mode : Modes, pos : Nat, samples : Nat, dataSize : Nat,
                buf : Seq(Cells), meta : Seq(Cells), rbuf : Seq(Cells)]
      /\ Len(h.rbuf) <= GroupSize /\ Len(h.buf) <= GroupSize
      /\ src \in [track : BOOLEAN, pos : Nat, got : Seq(Cells), eof : BOOLEAN]
  BY DEF TypeInv
<1>2. /\ h' \in [mode : Modes, pos : Nat, samples : Nat, dataSize : Nat,
                 buf : Seq(Cells), meta : Seq(Cells), rbuf : Seq(Cells)]
      /\ h'.pos = p /\ h'.buf = b /\ h'.mode = h.mode /\ h'.meta = h.meta /\ h'.rbuf = h.rbuf
  BY <1>1
<1>3. Len(b) <= GroupSize
  <2>1. Len(<<>>) = 0 /\ 0 <= GroupSize
    BY Sizes
  <2> QED
    BY <1>1, <2>1
<1>4. TypeInv'
  BY <1>1, <1>2, <1>3 DEF TypeInv, Stages
<1>5. /\ ~src.track /\ budget.sessions # 0 /\ (h.mode # "WRITE" => b = <<>>)
      /\ (h.mode = "WRITE" => h.rbuf = <<>>)
  BY DEF StageInv
<1>6. StageInv'
  BY <1>2, <1>5 DEF StageInv
<1> QED
  BY <1>2, <1>4, <1>6

\* Only the flush and the tag move the position.
LEMMA MovedByOf ==
    ASSUME TypeInv, NEW n \in Nat, NEW k \in Nat
    PROVE  /\ MovedBy(FinalWrites, n, k) \in Nat
           /\ MovedBy(FinalWrites, 6, 0) = Len(Flushed) + Len(h.meta)
<1>1. Len(FinalWrites[1].cells) \in Nat /\ Len(FinalWrites[4].cells) \in Nat
  <2>1. FinalWrites[1].cells \in Seq(Cells) /\ FinalWrites[4].cells \in Seq(Cells)
    BY FinalWritesTyped
  <2> QED
    BY <2>1, LenProperties
<1> DEFINE ws == FinalWrites
           a == Len(ws[1].cells)
           b == Len(ws[4].cells)
<1>2. a = Len(Flushed) /\ b = Len(h.meta)
  BY FinalWritesOf
<1>3. MovedBy(ws, n, k) = (IF n >= 1 THEN a ELSE IF n = 0 THEN k ELSE 0)
                          + (IF n >= 4 THEN b ELSE IF n = 3 THEN k ELSE 0)
  BY DEF MovedBy
<1>4. MovedBy(ws, 6, 0) = a + b
  BY DEF MovedBy
<1>5. MovedBy(ws, n, k) \in Nat
  <2> DEFINE x == IF n >= 1 THEN a ELSE IF n = 0 THEN k ELSE 0
             y == IF n >= 4 THEN b ELSE IF n = 3 THEN k ELSE 0
  <2>1. a \in Nat /\ b \in Nat
    BY <1>1
  <2> HIDE DEF a, b
  <2>2. x \in Nat /\ y \in Nat
    BY <2>1
  <2>3. MovedBy(ws, n, k) = x + y
    BY <1>3
  <2> HIDE DEF x, y
  <2> QED
    BY <2>2, <2>3
<1> QED
  BY <1>2, <1>4, <1>5

\* The file that dsf_open_modify found, or an earlier finalize left.
LEMMA ModifiedSound ==
    ASSUME TypeInv, StageInv, FileInv, h.mode = "MODIFY", h.pos >= AudioOffset,
           stage \in {"saved", "modified", "changed"}
    PROVE  /\ file \in Seq(Cells) /\ Len(file) >= 7
           /\ file[1] = Cell("id", 1) /\ file[4] = Cell("id", 2) /\ file[6] = Cell("id", 3)
           /\ h.meta = <<>> => Field(file, MetadataAt) = 0
<1>1. file \in Seq(Cells) /\ AudioOffset = 7 /\ h.pos \in Nat
  BY Sizes DEF StageInv, TypeInv
<1>2. CASE stage \in {"saved", "modified"}
  <2>1. Sound(file)
    <3>1. CASE stage = "saved"
      <4>1. Saved(file, log, tag) /\ log \in Seq(AudioCells) /\ tag \in Seq(Cells)
        BY <3>1 DEF FileInv, TypeInv
      <4> QED
        BY <1>1, <4>1, SavedFields
    <3>2. CASE stage = "modified"
      BY <3>2 DEF FileInv, Tagged
    <3> QED
      BY <1>2, <3>1, <3>2
  <2>2. h.meta = <<>> => Field(file, MetadataAt) = 0
    BY <1>2 DEF FileInv
  <2> QED
    BY <1>1, <2>1, <2>2 DEF Sound
<1>3. CASE stage = "changed"
  <2> DEFINE r == Resized(file, h.pos)
  <2>1. Tagged(r, tag) /\ h.meta = tag
    BY <1>3 DEF FileInv
  <2>2. Sound(r)
    BY <2>1 DEF Tagged
  <2>3. r = [i \in 1..h.pos |-> IF i <= Len(file) THEN file[i] ELSE Zero]
    BY DEF Resized
  <2>4. \A i \in 1..7 : i \in 1..h.pos
    BY <1>1
  <2>5. \A i \in 1..7 : r[i] = IF i <= Len(file) THEN file[i] ELSE Zero
    BY <2>3, <2>4
  <2> HIDE DEF r
  <2>6. Len(file) >= 7 /\ Len(file) \in Nat
    <3>1. Len(file) \in Nat
      BY <1>1, LenProperties
    <3> SUFFICES ASSUME ~(7 <= Len(file)) PROVE FALSE
      BY <3>1
    <3>2. r[7] = Zero
      BY <2>5
    <3>3. Zero[2] = 0
      BY DEF Zero, Cell
    <3>4. r[7][2] \in DataHeader..MAX_REASONABLE_CHUNK /\ DataHeader = 2
          /\ MAX_REASONABLE_CHUNK \in Nat
      BY <2>2, Words DEF Sound
    <3> QED
      BY <3>2, <3>3, <3>4
  <2>7. \A i \in 1..7 : r[i] = file[i]
    BY <2>5, <2>6
  <2>8. file[1] = Cell("id", 1) /\ file[4] = Cell("id", 2) /\ file[6] = Cell("id", 3)
    BY <2>2, <2>7 DEF Sound
  <2>9. h.meta = <<>> => Field(file, MetadataAt) = 0
    BY <2>1, <2>7, FieldPlaces DEF Tagged, Field
  <2> QED
    BY <1>1, <2>6, <2>8, <2>9
<1> QED
  BY <1>2, <1>3

LEMMA FinalizeKeeps == ASSUME IInv, Fits, Finalize, Fits' PROVE IInv'
<1>1. TypeInv /\ StageInv /\ FileInv
  BY DEF IInv
<1> DEFINE ws == FinalWrites
           z == U64(AudioEnd - AudioOffset)
<1>2. /\ h.mode \in {"WRITE", "MODIFY"} /\ UNCHANGED src
      /\ \/ /\ Call(FALSE) /\ file' = AfterWrites(ws, 6)
            /\ h' = [h EXCEPT !.pos = @ + MovedBy(ws, 6, 0), !.buf = <<>>, !.dataSize = z]
            /\ log' = log \o Padding /\ tag' = h.meta
            /\ stage' = FinalStage /\ Returns("finalize", TRUE)
         \/ \E n \in 0..5 : \E k \in 0..(Len(ws[n + 1].cells) - 1) :
               /\ Call(TRUE)
               /\ file' = Written(AfterWrites(ws, n), ws[n + 1].at, SubSeq(ws[n + 1].cells, 1, k))
               /\ h' = [h EXCEPT !.pos = @ + MovedBy(ws, n, k),
                                 !.buf = IF n = 0 THEN @ ELSE <<>>,
                                 !.dataSize = IF n >= 2 THEN z ELSE @]
               /\ stage' = "spoiled" /\ Returns("finalize", FALSE) /\ UNCHANGED <<log, tag>>
  BY DEF Finalize
<1>3. /\ h \in [mode : Modes, pos : Nat, samples : Nat, dataSize : Nat,
                buf : Seq(Cells), meta : Seq(Cells), rbuf : Seq(Cells)]
      /\ log \in Seq(AudioCells) /\ tag \in Seq(Cells) /\ file \in Seq(Cells)
  BY <1>1, <1>2 DEF TypeInv, StageInv
<1>4. /\ h.pos \in Nat /\ h.dataSize \in Nat /\ h.buf \in Seq(Cells) /\ h.meta \in Seq(Cells)
      /\ z \in Nat /\ log \o Padding \in Seq(AudioCells)
  <2>1. z \in Nat
    BY <1>1, AudioEndOf, NumberOf
  <2> QED
    BY <1>1, <1>3, <2>1, PaddingOf
<1>5. \A i \in 1..6 : ws[i].at \in Nat /\ ws[i].cells \in Seq(Cells)
  BY <1>1, FinalWritesTyped
<1>6. \A n : AfterWrites(ws, n) \in Seq(Cells)
  BY <1>3, <1>5, AfterWritesTyped
<1> HIDE DEF z
<1>7. CASE /\ Call(FALSE) /\ file' = AfterWrites(ws, 6)
           /\ h' = [h EXCEPT !.pos = @ + MovedBy(ws, 6, 0), !.buf = <<>>, !.dataSize = z]
           /\ log' = log \o Padding /\ tag' = h.meta
           /\ stage' = FinalStage /\ Returns("finalize", TRUE)
  <2> DEFINE p == h.pos + MovedBy(ws, 6, 0)
             b == <<>>
  <2>1. /\ p \in Nat /\ p = AudioEnd + Len(h.meta) /\ AudioEnd \in Nat
    <3>1. /\ MovedBy(ws, 6, 0) = Len(Flushed) + Len(h.meta) /\ Len(Flushed) \in Nat
          /\ Len(h.meta) \in Nat /\ AudioEnd = h.pos + Len(Flushed) /\ AudioEnd \in Nat
      BY <1>1, MovedByOf, AudioEndOf
    <3> DEFINE c == Len(Flushed)
               m == Len(h.meta)
    <3> HIDE DEF c, m
    <3>2. c \in Nat /\ m \in Nat /\ p = h.pos + (c + m) /\ AudioEnd = h.pos + c
      BY <3>1 DEF c, m
    <3>3. p \in Nat /\ p = AudioEnd + m
      BY <1>4, <3>2
    <3> QED
      BY <3>1, <3>3 DEF m
  <2>2. h' = [h EXCEPT !.pos = p, !.buf = b, !.dataSize = z]
    BY <1>7
  <2>3. b \in Seq(Cells) /\ b = <<>>
    OBVIOUS
  <2> HIDE DEF p, b
  <2>4. budget' \in [calls : Nat, sessions : Nat, faults : Nat] /\ budget'.sessions = budget.sessions
    BY <1>1, <1>7, CallFacts
  <2>5. /\ stage' \in {"final", "changed", "spoiled"}
        /\ stage' = "final" => h.mode = "WRITE" /\ stage = "writing"
        /\ stage' = "changed" => /\ h.mode = "MODIFY" /\ h.pos >= AudioOffset
                                 /\ stage \in {"saved", "modified", "changed"}
    <3> DEFINE c1 == h.mode = "WRITE" /\ stage = "writing"
               c2 == /\ h.mode = "MODIFY" /\ h.pos >= AudioOffset
                     /\ stage \in {"saved", "modified", "changed"}
    <3>1. stage' = CASE c1 -> "final" [] c2 -> "changed" [] OTHER -> "spoiled"
      BY <1>7 DEF FinalStage
    <3>2. ~(c1 /\ c2)
      OBVIOUS
    <3> HIDE DEF c1, c2
    <3>3. /\ stage' \in {"final", "changed", "spoiled"}
          /\ stage' = "final" => c1
          /\ stage' = "changed" => c2
      BY <3>1, <3>2
    <3> QED
      BY <3>3 DEF c1, c2
  <2>6. ret'.next \in Int
    BY <1>7, ReturnFacts
  <2>7. log' \in Seq(AudioCells) /\ tag' \in Seq(Cells) /\ src' = src /\ file' \in Seq(Cells)
    BY <1>2, <1>4, <1>6, <1>7
  <2>8. TypeInv' /\ StageInv' /\ h'.pos = p /\ h'.mode = h.mode /\ h'.meta = h.meta
    <3>1. /\ h.mode \in {"WRITE", "MODIFY"} /\ p \in Nat /\ z \in Nat
          /\ stage' = "final" => h.mode = "WRITE"
          /\ stage' = "changed" => h.mode = "MODIFY"
          /\ stage' \in {"final", "changed", "spoiled"}
          /\ b = <<>> \/ b = h.buf
      BY <1>2, <1>4, <2>1, <2>3, <2>5
    <3> QED
      BY ONLY <1>1, <2>2, <2>3, <2>4, <2>6, <2>7, <3>1, FinalTyped
  <2>9. AudioEnd + Len(h.meta) <= MAX_REASONABLE_CHUNK /\ h.samples < WORD
    BY <2>1, <2>8 DEF Fits
  <2>10. CASE stage' = "spoiled"
    BY <2>8, <2>10, Spoiled
  <2>11. CASE stage' = "final"
    <3>1. Writing /\ h.mode = "WRITE"
      BY <1>1, <2>5, <2>11 DEF FileInv
    <3>2. Saved(file', log', h.meta) /\ Len(file') = AudioEnd + Len(h.meta)
      BY <1>1, <1>3, <1>7, <2>9, <3>1, FinalSaved
    <3>3. h'.pos = Len(file')
      BY <2>1, <2>8, <3>2
    <3>4. FileInv'
      BY <1>7, <2>11, <3>2, <3>3 DEF FileInv
    <3> QED
      BY <2>8, <2>11, <3>4, Assembled
  <2>12. CASE stage' = "changed"
    <3>1. /\ h.mode = "MODIFY" /\ h.pos >= AudioOffset
          /\ stage \in {"saved", "modified", "changed"}
      BY <2>5, <2>12
    <3>2. /\ Len(file) >= 7
          /\ file[1] = Cell("id", 1) /\ file[4] = Cell("id", 2) /\ file[6] = Cell("id", 3)
          /\ h.meta = <<>> => Field(file, MetadataAt) = 0
      BY <1>1, <3>1, ModifiedSound
    <3>3. Tagged(Resized(file', AudioEnd + Len(h.meta)), h.meta)
      BY <1>1, <1>3, <1>7, <2>9, <3>1, <3>2, FinalTagged
    <3>4. h'.pos >= AudioOffset
      <4>1. AudioEnd = h.pos + Len(Flushed) /\ Len(Flushed) \in Nat /\ Len(h.meta) \in Nat
        BY <1>1, AudioEndOf
      <4> DEFINE c == Len(Flushed)
                 m == Len(h.meta)
      <4> HIDE DEF c, m
      <4>2. c \in Nat /\ m \in Nat /\ h'.pos = (h.pos + c) + m /\ AudioOffset = 7
        BY <2>1, <2>8, <4>1, Sizes DEF c, m
      <4> QED
        BY ONLY <1>4, <3>1, <4>2
    <3>5. Tagged(Resized(file', h'.pos), tag') /\ h'.meta = tag'
      BY <1>7, <2>1, <2>8, <3>3
    <3>6. FileInv'
      BY <2>12, <3>4, <3>5 DEF FileInv
    <3> QED
      BY <2>8, <2>12, <3>6, Assembled
  <2> QED
    BY <2>5, <2>10, <2>11, <2>12
<1>8. ASSUME NEW n \in 0..5, NEW k \in 0..(Len(ws[n + 1].cells) - 1), Call(TRUE),
             file' = Written(AfterWrites(ws, n), ws[n + 1].at, SubSeq(ws[n + 1].cells, 1, k)),
             h' = [h EXCEPT !.pos = @ + MovedBy(ws, n, k), !.buf = IF n = 0 THEN @ ELSE <<>>,
                            !.dataSize = IF n >= 2 THEN z ELSE @],
             stage' = "spoiled", Returns("finalize", FALSE), UNCHANGED <<log, tag>>
      PROVE  IInv'
  <2> DEFINE p == h.pos + MovedBy(ws, n, k)
             b == IF n = 0 THEN h.buf ELSE <<>>
             y == IF n >= 2 THEN z ELSE h.dataSize
             cells == ws[n + 1].cells
             part == SubSeq(cells, 1, k)
  <2>1. cells \in Seq(Cells) /\ ws[n + 1].at \in Nat
    <3>1. n + 1 \in 1..6
      OBVIOUS
    <3> QED
      BY <1>5, <3>1
  <2>2. k \in Nat /\ k <= Len(cells) /\ n \in Nat
    <3> DEFINE c == Len(cells)
    <3>1. c \in Nat /\ k \in 0..(c - 1)
      BY <2>1, LenProperties
    <3> HIDE DEF c
    <3>2. k \in Nat /\ k <= c
      BY <3>1
    <3> QED
      BY <3>2 DEF c
  <2>3. part \in Seq(Cells)
    <3> HIDE DEF cells
    <3> QED
      BY <2>1, <2>2, PartOf
  <2>4. file' \in Seq(Cells)
    <3>1. file' = Written(AfterWrites(ws, n), ws[n + 1].at, part)
      BY <1>8
    <3> HIDE DEF part
    <3> QED
      BY <1>6, <2>1, <2>3, <3>1, WrittenOf
  <2>5. p \in Nat /\ b \in Seq(Cells) /\ y \in Nat /\ (b = <<>> \/ b = h.buf)
    <3>1. MovedBy(ws, n, k) \in Nat
      BY <1>1, <2>2, MovedByOf
    <3>2. b \in Seq(Cells) /\ (b = <<>> \/ b = h.buf)
      BY <1>4
    <3> QED
      BY <1>4, <3>1, <3>2
  <2>6. h' = [h EXCEPT !.pos = p, !.buf = b, !.dataSize = y]
    BY <1>8
  <2> HIDE DEF p, b, y, cells, part
  <2>7. budget' \in [calls : Nat, sessions : Nat, faults : Nat] /\ budget'.sessions = budget.sessions
    BY <1>1, <1>8, CallFacts
  <2>8. /\ ret'.next \in Int /\ stage' = "spoiled" /\ stage' \in {"final", "changed", "spoiled"}
        /\ stage' = "final" => h.mode = "WRITE"
        /\ stage' = "changed" => h.mode = "MODIFY"
    BY <1>8, ReturnFacts
  <2>9. log' \in Seq(AudioCells) /\ tag' \in Seq(Cells) /\ src' = src
    BY <1>2, <1>3, <1>8
  <2>10. TypeInv' /\ StageInv'
    <3>1. h.mode \in {"WRITE", "MODIFY"}
      BY <1>2
    <3> QED
      BY ONLY <1>1, <2>4, <2>5, <2>6, <2>7, <2>8, <2>9, <3>1, FinalTyped
  <2> QED
    BY <2>8, <2>10, Spoiled
<1> QED
  BY <1>2, <1>7, <1>8

----------------------------------------------------------------------------
(* The theorems.                                                           *)

LEMMA NextKeeps == ASSUME IInv, Fits, [Next]_vars, Fits' PROVE IInv'
<1>1. CASE Create
  BY <1>1, CreateKeeps
<1>2. ASSUME NEW m \in {"READ", "MODIFY"}, Open(m) PROVE IInv'
  BY <1>2, OpenKeeps
<1>3. CASE Close
  BY <1>3, CloseKeeps
<1>4. CASE RemoveFile
  BY <1>4, RemoveFileKeeps
<1>5. ASSUME NEW n \in WriteSizes, WriteAudioData(n) PROVE IInv'
  BY <1>5, WriteAudioDataKeeps
<1>6. CASE FlushAudioData
  BY <1>6, FlushAudioDataKeeps
<1>7. ASSUME NEW n \in TagSizes, WriteMetadata(n) PROVE IInv'
  BY <1>7, WriteMetadataKeeps
<1>8. CASE Finalize
  BY <1>8, FinalizeKeeps
<1>9. ASSUME NEW n \in ReadSizes, ReadAudioData(n) PROVE IInv'
  BY <1>9, ReadAudioDataKeeps
<1>10. ASSUME NEW o \in SeekOffsets, NEW origin \in {"SET", "CUR", "END"},
              SeekAudioData(o, origin)
       PROVE  IInv'
  <2> DEFINE target == o + CASE origin = "SET" -> AudioOffset
                             [] origin = "CUR" -> h.pos
                             [] origin = "END" -> AudioOffset + h.dataSize
  <2>1. /\ Readable /\ ~src.track /\ Call(FALSE) /\ SeekTo(target) /\ stage' = ReadingStage
        /\ ReturnsAt("seek", TRUE, h'.pos) /\ UNCHANGED <<file, src, log, tag>>
    BY <1>10 DEF SeekAudioData
  <2> HIDE DEF target
  <2> QED
    BY <2>1, SeekKeeps
<1>11. CASE SeekToAudioStart
  <2>1. /\ Readable /\ ~src.track /\ Call(FALSE) /\ SeekTo(AudioOffset) /\ stage' = ReadingStage
        /\ ReturnsAt("seek", TRUE, h'.pos) /\ UNCHANGED <<file, src, log, tag>>
    BY <1>11 DEF SeekToAudioStart
  <2> QED
    BY <2>1, SeekKeeps
<1>12. CASE Validate
  BY <1>12, ValidateKeeps
<1>13. CASE SourceSeekTrack
  BY <1>13, SourceSeekTrackKeeps
<1>14. CASE SourceReadFrame
  BY <1>14, SourceReadFrameKeeps
<1>15. CASE UNCHANGED vars
  BY <1>15, StutterKeeps
<1> QED
  BY <1>1, <1>2, <1>3, <1>4, <1>5, <1>6, <1>7, <1>8, <1>9, <1>10, <1>11, <1>12, <1>13, <1>14,
     <1>15 DEF Next

LEMMA TypesGive == ASSUME TypeInv, StageInv PROVE TypeOK
<1>1. /\ h \in [mode : Modes, pos : Nat, samples : Nat, dataSize : Nat,
                buf : Seq(Cells), meta : Seq(Cells), rbuf : Seq(Cells)]
      /\ Len(h.buf) <= GroupSize /\ Len(h.rbuf) <= GroupSize /\ stage \in Stages
  BY DEF TypeInv
<1>2. file # NoFile => \A i \in DOMAIN file : IsCell(file[i])
  <2> SUFFICES ASSUME file # NoFile, NEW i \in DOMAIN file PROVE IsCell(file[i])
    OBVIOUS
  <2>1. file \in Seq(Cells)
    BY DEF StageInv
  <2>2. file[i] \in Cells
    BY <2>1
  <2> QED
    BY <2>2, CellFacts
<1>3. h.buf # <<>> => h.mode = "WRITE"
  BY DEF StageInv
<1>4. h.rbuf # <<>> => h.mode \in {"READ", "MODIFY"}
  BY <1>1 DEF StageInv, Modes
<1> QED
  BY <1>1, <1>2, <1>3, <1>4 DEF TypeOK, Modes

LEMMA SavedRight ==
    ASSUME TypeInv, StageInv, Saved(file, log, tag), stage = "saved"
    PROVE  LET end == AudioOffset + Len(log)
           IN /\ Len(file) = end + Len(tag)
              /\ SubSeq(file, 1, AudioOffset) =
                    Header(Len(file), IF tag = <<>> THEN 0 ELSE end, SamplesLogged, Len(log))
              /\ AudioInPlace
              /\ SubSeq(file, end + 1, Len(file)) = tag
<1> DEFINE end == AudioOffset + Len(log)
<1>1. /\ file \in Seq(Cells) /\ log \in Seq(AudioCells) /\ tag \in Seq(Cells) /\ AudioOffset = 7
      /\ Len(log) \in Nat /\ Len(tag) \in Nat /\ Len(file) \in Nat
  <2>1. file \in Seq(Cells) /\ log \in Seq(AudioCells) /\ tag \in Seq(Cells)
    BY DEF TypeInv, StageInv
  <2> QED
    BY <2>1, Sizes, LenProperties
<1>2. /\ Len(file) = end + Len(tag) /\ InPlace(file, log, Len(log))
      /\ \A k \in 1..Len(tag) : file[end + k] = tag[k]
  BY DEF Saved
<1>3. PICK n \in Nat :
         /\ Columns(log, n)
         /\ \A k \in 1..AudioOffset :
               file[k] = Header(Len(file), IF tag = <<>> THEN 0 ELSE end, 8 * n, Len(log))[k]
  BY DEF Saved
<1>4. SamplesLogged = 8 * n
  <2>1. Cardinality({i \in 1..Len(log) : log[i] # Zero}) = n * Channels
    BY <1>3 DEF Columns, Used
  <2> DEFINE x == n * Channels
  <2>2. x \in Nat /\ 0 \in 0..(Channels - 1) /\ x = n * Channels + 0 /\ Channels \in Nat \ {0}
    <3>1. x \in Nat /\ Channels \in Nat \ {0}
      BY Sizes, ProductNat
    <3> HIDE DEF x
    <3>2. x = x + 0 /\ 0 \in 0..(Channels - 1)
      BY <3>1
    <3> QED
      BY <3>1, <3>2 DEF x
  <2> HIDE DEF x
  <2>3. x \div Channels = n
    BY <2>2, Quotient
  <2> QED
    BY <2>1, <2>3 DEF SamplesLogged, x
<1>5. SubSeq(file, 1, AudioOffset) =
         Header(Len(file), IF tag = <<>> THEN 0 ELSE end, SamplesLogged, Len(log))
  <2> DEFINE a == Len(file)
             b == IF tag = <<>> THEN 0 ELSE end
             c == 8 * n
             d == Len(log)
             s == Header(a, b, c, d)
             f == SubSeq(file, 1, 7)
  <2>1. \A k \in 1..7 : file[k] = s[k]
    BY <1>1, <1>3
  <2>2. 7 <= Len(file)
    <3> DEFINE m == Len(log)
    <3>1. Len(file) = (7 + m) + Len(tag) /\ m \in Nat
      BY <1>1, <1>2
    <3> HIDE DEF m
    <3> QED
      BY <1>1, <3>1
  <2> HIDE DEF a, b, c, d, f
  <2>3. \A k \in 1..7 : s[k] \in Cells
    <3> HIDE DEF s
    <3>1. \A k \in 1..7 : k \in 1..Len(file)
      BY <1>1, <2>2
    <3> QED
      BY <1>1, <2>1, <3>1
  <2>4. s \in Seq(Cells) /\ Len(s) = 7
    BY <2>3, HeaderSequence, HeaderOf
  <2> HIDE DEF s
  <2>5. f \in Seq(Cells) /\ Len(f) = 7 /\ \A k \in 1..7 : f[k] = file[k]
    <3> DEFINE m == 7
               g == SubSeq(file, 0 + 1, 0 + m)
    <3>1. 0 \in Nat /\ m \in Nat /\ 0 + m <= Len(file) /\ 0 + m = m
      BY <2>2
    <3> HIDE DEF m, g
    <3>2. g \in Seq(Cells) /\ Len(g) = m /\ \A i \in 1..m : g[i] = file[0 + i]
      BY <1>1, <3>1, PieceOf DEF g
    <3>3. g = f
      BY <3>1 DEF f, g, m
    <3> QED
      BY <3>2, <3>3 DEF m
  <2>6. f = s
    BY <2>1, <2>4, <2>5
  <2> QED
    BY <1>1, <1>4, <2>6 DEF a, b, c, d, f, s
<1>6. AudioInPlace
  <2> SUFFICES ASSUME NEW i \in 1..Len(log)
               PROVE  LET g == ((i - 1) \div GroupSize) * GroupSize
                          r == (i - 1) % GroupSize
                          at == AudioOffset + g + (r % Channels) * BLOCK + r \div Channels
                      IN at < Len(file) /\ file[at + 1] = Reversed(log[i])
    BY DEF AudioInPlace
  <2> DEFINE at == AudioOffset + ((i - 1) \div GroupSize) * GroupSize
                     + (((i - 1) % GroupSize) % Channels) * BLOCK
                     + ((i - 1) % GroupSize) \div Channels
  <2>1. i \in Nat \ {0}
    BY <1>1
  <2>2. at = AudioOffset + Spot(i - 1)
    BY <2>1, PlaceIs
  <2>3. /\ AudioOffset + Spot(i - 1) < Len(file)
        /\ file[AudioOffset + Spot(i - 1) + 1] = Reversed(log[i])
    BY <1>2 DEF InPlace
  <2> HIDE DEF at
  <2>4. at < Len(file) /\ file[at + 1] = Reversed(log[i])
    BY <2>2, <2>3
  <2> QED
    BY <2>4 DEF at
<1>7. SubSeq(file, end + 1, Len(file)) = tag
  <2> DEFINE n1 == Len(tag)
             g == SubSeq(file, end + 1, end + n1)
  <2>1. end \in Nat /\ n1 \in Nat /\ end + n1 <= Len(file) /\ Len(file) = end + n1
    <3>1. end \in Nat
      BY <1>1
    <3>2. Len(file) = end + n1 /\ n1 \in Nat /\ Len(file) \in Nat
      BY <1>1, <1>2
    <3> HIDE DEF end, n1
    <3> QED
      BY <3>1, <3>2
  <2> HIDE DEF end, n1, g
  <2>2. g \in Seq(Cells) /\ Len(g) = n1 /\ \A i \in 1..n1 : g[i] = file[end + i]
    BY <1>1, <2>1, PieceOf DEF g
  <2>3. \A i \in 1..n1 : g[i] = tag[i]
    BY <1>2, <2>2 DEF n1
  <2>4. g = tag
    BY <1>1, <2>2, <2>3 DEF n1
  <2> QED
    BY <2>1, <2>4 DEF g
<1> QED
  BY <1>2, <1>5, <1>6, <1>7

\* The inductive invariant of the file and its handle, while its sizes fit.
THEOREM Invariance == Spec /\ []Fits => []IInv
BY Initially, NextKeeps, PTL DEF Spec

\* SavedFileRight (DsfFile): for every block size, number of channels, and sizes
\* and order of the writes and flushes, a file that dsf_finalize completed and
\* dsf_close closed holds all of the audio and the tag and nothing else, its header
\* tells where they are, and dsf_validate accepts it unless a flush padded inside.
THEOREM FileSaved == Spec /\ []Fits => []SavedFileRight
<1>1. IInv => SavedFileRight
  <2> SUFFICES ASSUME IInv PROVE SavedFileRight
    OBVIOUS
  <2>1. TypeInv /\ StageInv /\ FileInv /\ Accepted
    BY DEF IInv
  <2>2. TypeOK
    BY <2>1, TypesGive
  <2>3. ASSUME stage = "saved"
        PROVE  LET end == AudioOffset + Len(log)
               IN /\ Len(file) = end + Len(tag)
                  /\ SubSeq(file, 1, AudioOffset) =
                        Header(Len(file), IF tag = <<>> THEN 0 ELSE end, SamplesLogged, Len(log))
                  /\ AudioInPlace
                  /\ SubSeq(file, end + 1, Len(file)) = tag
    <3>1. Saved(file, log, tag)
      BY <2>1, <2>3 DEF FileInv
    <3> QED
      BY <2>1, <2>3, <3>1, SavedRight
  <2>4. stage = "saved" /\ ret.op = "validate" /\ log # <<>> /\ PaddedAtEnd => ret.ok
    BY <2>1 DEF Accepted
  <2> QED
    BY <2>2, <2>3, <2>4, Zenon DEF SavedFileRight
<1> QED
  BY <1>1, Invariance, PTL

\* ReadsAsWritten (DsfFile): reading that file from any block group on, in pieces
\* of any size, gives the audio as it was written, and the pipeline's source
\* delivers all of it and then ends the track.
THEOREM AudioReadBack == Spec /\ []Fits => []ReadsAsWritten
<1>1. IInv => ReadsAsWritten
  BY DEF IInv
<1> QED
  BY <1>1, Invariance, PTL

\* TagFound (DsfFile): whoever opens a file that was finalized and closed finds the
\* tag that the last dsf_finalize had to save, after a modification too, if that
\* one was finalized with the position in or behind the audio.  From a position
\* before the audio dsf_finalize computes a data size that wraps round (dsf.c:406)
\* and reports a file as saved that no longer opens: ModifiedOpens.
THEOREM TagSaved == Spec /\ []Fits => []TagFound
<1>1. IInv => TagFound
  BY DEF IInv
<1> QED
  BY <1>1, Invariance, PTL
=============================================================================
