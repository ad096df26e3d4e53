---------------------------- MODULE FrameProofs ----------------------------
(***************************************************************************)
(* Proofs about frames on their way from the disc and through the pipeline.*)
(*                                                                         *)
(* The frame queue (FrameQueue), for every capacity, batch size and number *)
(* of frames: no frame is lost or handed out twice, and the ring buffer    *)
(* takes only steps of the bounded FIFO of FrameFifo.                      *)
(*                                                                         *)
(* The frame readers (FrameReader), for every set of discs whose track     *)
(* areas are well formed (DiscOK): a read that succeeds returns the        *)
(* packets or the bytes of its frame, and every frame of an image file can *)
(* be read.                                                                *)
(***************************************************************************)
EXTENDS FrameQueue, FrameReader, FiniteSetTheorems, SequenceTheorems,
        WellFoundedInduction, TLAPS

(***************************************************************************)
(* THE FRAME QUEUE                                                         *)
(***************************************************************************)

----------------------------------------------------------------------------
(* The ring buffer.                                                        *)

Ring == [slot : [Slots -> Frame \union {NULL}], head : Slots, tail : Slots,
         count : 0..Capacity, eof : BOOLEAN, cancelled : BOOLEAN, open : BOOLEAN]

\* head is where the frame after the newest goes, and every slot between
\* tail and head holds a frame.
Closed(q) ==
    /\ q \in Ring
    /\ q.head = (q.tail + q.count) % Capacity
    /\ Contents(q) \in Seq(Frame)

\* The slot a number of places behind another, around the end of the array.
Around(a, b) == IF a + b < Capacity THEN a + b ELSE a + b - Capacity

\* The remainder finds the place in the array.
LEMMA AroundIs ==
    ASSUME NEW a \in Slots, NEW b \in 0..Capacity
    PROVE  /\ (a + b) % Capacity = Around(a, b)
           /\ Around(a, b) \in Slots
<1> USE QueueConstants DEF Slots, Around
<1>1. CASE a + b < Capacity
  BY <1>1
<1>2. CASE a + b >= Capacity
  <2>1. a + b < 2 * Capacity /\ a + b - Capacity < Capacity /\ a + b - Capacity \in Nat
    BY <1>2
  <2>2. (a + b) % Capacity = a + b - Capacity
    BY <1>2, <2>1
  <2> QED
    BY <1>2, <2>1, <2>2
<1> QED
  BY <1>1, <1>2

\* Two walks around the array, one after the other.
LEMMA AroundTwice ==
    ASSUME NEW a \in Slots, NEW b \in Nat, NEW c \in Nat, b + c <= Capacity
    PROVE  Around(Around(a, b), c) = Around(a, b + c)
BY QueueConstants DEF Around, Slots

\* Walks of different lengths end in different places.
LEMMA AroundApart ==
    ASSUME NEW a \in Slots, NEW b \in Slots, NEW c \in Slots, b # c
    PROVE  Around(a, b) # Around(a, c)
BY QueueConstants DEF Around, Slots

\* The i-th frame of the queue.
LEMMA ContentsAt ==
    ASSUME NEW q \in Ring
    PROVE  /\ DOMAIN Contents(q) = 1..q.count
           /\ Len(Contents(q)) = q.count
           /\ q.count \in Nat /\ q.tail \in Slots
           /\ Contents(q) \in Seq(Frame \union {NULL})
           /\ \A i \in 1..q.count :
                /\ (q.tail + i - 1) % Capacity = Around(q.tail, i - 1)
                /\ Around(q.tail, i - 1) \in Slots
                /\ Contents(q)[i] = q.slot[Around(q.tail, i - 1)]
<1> USE QueueConstants
<1>1. q.count \in 0..Capacity /\ q.tail \in Slots /\ q.slot \in [Slots -> Frame \union {NULL}]
  BY DEF Ring
<1>2. ASSUME NEW i \in 1..q.count
      PROVE  /\ (q.tail + i - 1) % Capacity = Around(q.tail, i - 1)
             /\ Around(q.tail, i - 1) \in Slots
  <2>1. i - 1 \in 0..Capacity /\ q.tail + i - 1 = q.tail + (i - 1)
    BY <1>1 DEF Slots
  <2> QED
    BY <2>1, <1>1, AroundIs
<1>3. DOMAIN Contents(q) = 1..q.count
  BY DEF Contents
<1>4. \A i \in 1..q.count : Contents(q)[i] = q.slot[Around(q.tail, i - 1)]
  BY <1>2 DEF Contents
<1>5. Contents(q) \in [1..q.count -> Frame \union {NULL}]
  BY <1>1, <1>2 DEF Contents
<1>6. Contents(q) \in Seq(Frame \union {NULL}) /\ Len(Contents(q)) = q.count
  BY <1>1, <1>3, <1>5
<1> QED
  BY <1>1, <1>2, <1>3, <1>4, <1>6

\* A push appends its frame.
LEMMA PushedOK ==
    ASSUME NEW q, Closed(q), ~Full(q), NEW f \in Frame
    PROVE  /\ Closed(Pushed(q, f))
           /\ Contents(Pushed(q, f)) = Append(Contents(q), f)
           /\ Pushed(q, f).count = q.count + 1
           /\ Pushed(q, f).eof = q.eof /\ Pushed(q, f).cancelled = q.cancelled
           /\ Pushed(q, f).open = q.open
<1> DEFINE p == Pushed(q, f)
           n == q.count
<1> USE QueueConstants
<1>1. /\ q \in Ring /\ n \in Nat /\ n < Capacity /\ q.tail \in Slots
      /\ q.head = Around(q.tail, n) /\ q.head \in Slots
  BY ContentsAt, AroundIs DEF Closed, Full, Ring
<1>2. /\ p \in Ring /\ p.tail = q.tail /\ p.count = n + 1
      /\ p.head = (q.head + 1) % Capacity
      /\ p.slot = [q.slot EXCEPT ![q.head] = f]
      /\ p.eof = q.eof /\ p.cancelled = q.cancelled /\ p.open = q.open
  <2>1. (q.head + 1) % Capacity \in Slots
    BY <1>1, AroundIs
  <2>2. [q.slot EXCEPT ![q.head] = f] \in [Slots -> Frame \union {NULL}]
    BY <1>1 DEF Ring
  <2>3. p = [q EXCEPT !.slot = [q.slot EXCEPT ![q.head] = f],
                      !.head = (q.head + 1) % Capacity, !.count = n + 1]
    BY <1>1 DEF Pushed, Ring
  <2>4. n + 1 \in 0..Capacity
    BY <1>1
  <2> HIDE DEF p
  <2> QED
    BY <1>1, <2>1, <2>2, <2>3, <2>4 DEF Ring
<1> HIDE DEF p
<1>3. p.head = (p.tail + p.count) % Capacity
  <2>1. p.head = Around(q.head, 1)
    BY <1>1, <1>2, AroundIs
  <2>2. (p.tail + p.count) % Capacity = Around(q.tail, n + 1)
    BY <1>1, <1>2, AroundIs
  <2> QED
    BY <2>1, <2>2, <1>1, AroundTwice
<1>4. /\ Contents(q) \in Seq(Frame) /\ Len(Contents(q)) = n /\ DOMAIN Contents(q) = 1..n
      /\ DOMAIN Contents(p) = 1..(n + 1)
  BY <1>1, <1>2, ContentsAt DEF Closed
<1>5. ASSUME NEW i \in 1..(n + 1)
      PROVE  Contents(p)[i] = Append(Contents(q), f)[i]
  <2>1. Contents(p)[i] = p.slot[Around(q.tail, i - 1)] /\ Around(q.tail, i - 1) \in Slots
    BY <1>2, ContentsAt
  <2>2. CASE i = n + 1
    BY <2>1, <2>2, <1>1, <1>2, <1>4 DEF Ring
  <2>3. CASE i \in 1..n
    <3>1. Around(q.tail, i - 1) # Around(q.tail, n)
      BY <2>3, <1>1, AroundApart DEF Slots
    <3>2. Contents(q)[i] = q.slot[Around(q.tail, i - 1)]
      BY <2>3, <1>1, ContentsAt
    <3>3. p.slot[Around(q.tail, i - 1)] = q.slot[Around(q.tail, i - 1)]
      BY <3>1, <2>1, <1>1, <1>2 DEF Ring
    <3>4. Append(Contents(q), f)[i] = Contents(q)[i]
      BY <2>3, <1>4
    <3> QED
      BY <2>1, <3>2, <3>3, <3>4
  <2>4. i = n + 1 \/ i \in 1..n
    BY <1>1
  <2> QED
    BY <2>2, <2>3, <2>4
<1>6. Contents(p) = Append(Contents(q), f)
  <2>1. /\ Append(Contents(q), f) \in Seq(Frame)
        /\ DOMAIN Append(Contents(q), f) = 1..(n + 1)
    BY <1>1, <1>4
  <2>2. Contents(p) \in Seq(Frame \union {NULL})
    BY <1>2, ContentsAt
  <2> QED
    BY <2>1, <2>2, <1>4, <1>5
<1>7. Contents(p) \in Seq(Frame)
  BY <1>4, <1>6
<1> QED
  BY <1>2, <1>3, <1>6, <1>7 DEF Closed, p

\* Emptying the n oldest slots leaves the frames behind them.
LEMMA EmptiedOK ==
    ASSUME NEW q, Closed(q), NEW n \in 0..q.count
    PROVE  /\ Closed(Emptied(q, n))
           /\ Contents(Emptied(q, n)) = SubSeq(Contents(q), n + 1, Len(Contents(q)))
           /\ Emptied(q, n).count = q.count - n
           /\ Emptied(q, n).eof = q.eof /\ Emptied(q, n).cancelled = q.cancelled
           /\ Emptied(q, n).open = q.open
<1> DEFINE taken == {(q.tail + i) % Capacity : i \in 0..(n - 1)}
           e == Emptied(q, n)
           m == q.count - n
           rest == SubSeq(Contents(q), n + 1, Len(Contents(q)))
<1> USE QueueConstants
<1>1. /\ q \in Ring /\ q.count \in Nat /\ q.count <= Capacity /\ q.tail \in Slots
      /\ q.slot \in [Slots -> Frame \union {NULL}]
      /\ n \in 0..Capacity /\ m \in 0..Capacity /\ n <= q.count
      /\ q.head = Around(q.tail, q.count)
  BY ContentsAt, AroundIs DEF Closed, Ring
<1>2. /\ e \in Ring /\ e.tail = Around(q.tail, n) /\ e.count = m /\ e.head = q.head
      /\ \A s \in Slots : e.slot[s] = IF s \in taken THEN NULL ELSE q.slot[s]
      /\ e.eof = q.eof /\ e.cancelled = q.cancelled /\ e.open = q.open
  <2>1. (q.tail + n) % Capacity = Around(q.tail, n) /\ Around(q.tail, n) \in Slots
    BY <1>1, AroundIs
  <2>2. [s \in Slots |-> IF s \in taken THEN NULL ELSE q.slot[s]] \in [Slots -> Frame \union {NULL}]
    BY <1>1
  <2>3. e = [q EXCEPT !.slot = [s \in Slots |-> IF s \in taken THEN NULL ELSE q.slot[s]],
                      !.tail = (q.tail + n) % Capacity,
                      !.count = q.count - n]
    BY <1>1 DEF Emptied, Ring
  <2> HIDE DEF taken, e
  <2> QED
    BY <1>1, <2>1, <2>2, <2>3 DEF Ring
<1> HIDE DEF e
<1>3. e.head = (e.tail + e.count) % Capacity
  <2>1. (e.tail + e.count) % Capacity = Around(e.tail, m)
    BY <1>1, <1>2, AroundIs DEF Ring
  <2>2. Around(Around(q.tail, n), m) = Around(q.tail, n + m)
    BY <1>1, AroundTwice
  <2>3. n + m = q.count
    BY <1>1
  <2> QED
    BY <2>1, <2>2, <2>3, <1>1, <1>2
<1>4. /\ Contents(q) \in Seq(Frame) /\ Len(Contents(q)) = q.count
      /\ DOMAIN Contents(e) = 1..m /\ Contents(e) \in Seq(Frame \union {NULL})
  BY <1>1, <1>2, ContentsAt DEF Closed
<1>5. /\ rest \in Seq(Frame) /\ DOMAIN rest = 1..m /\ Len(rest) = m
      /\ \A i \in 1..m : rest[i] = Contents(q)[n + i]
  <2> DEFINE k == q.count
  <2>1. n + 1 \in Int /\ k \in Int /\ \A i \in (n + 1)..k : Contents(q)[i] \in Frame
    BY <1>1, <1>4
  <2>2. rest = SubSeq(Contents(q), n + 1, k)
    BY <1>4
  <2> HIDE DEF rest, k
  <2>3. /\ rest \in Seq(Frame) /\ Len(rest) = IF n + 1 <= k THEN k - (n + 1) + 1 ELSE 0
        /\ \A i \in 1..(k - (n + 1) + 1) : rest[i] = Contents(q)[(n + 1) + i - 1]
    BY <2>1, <2>2, SubSeqProperties
  <2>4. Len(rest) = m /\ k - (n + 1) + 1 = m /\ \A i \in 1..m : (n + 1) + i - 1 = n + i
    BY <2>3, <1>1 DEF k
  <2> QED
    BY <2>3, <2>4
<1>6. ASSUME NEW i \in 1..m
      PROVE  Contents(e)[i] = rest[i]
  <2>1. /\ Contents(e)[i] = e.slot[Around(e.tail, i - 1)]
        /\ Around(e.tail, i - 1) \in Slots
    BY <1>2, ContentsAt
  <2>2. n + i \in 1..q.count
    BY <1>1
  <2>3. Contents(q)[n + i] = q.slot[Around(q.tail, n + i - 1)]
    BY <2>2, <1>1, ContentsAt
  <2>4. Around(e.tail, i - 1) = Around(q.tail, n + i - 1)
    <3>1. i - 1 \in Nat /\ n + (i - 1) <= Capacity /\ n + (i - 1) = n + i - 1
      BY <2>2, <1>1
    <3> QED
      BY <3>1, <1>1, <1>2, AroundTwice
  <2>5. Around(q.tail, n + i - 1) \notin taken
    <3> SUFFICES ASSUME NEW k \in 0..(n - 1)
                 PROVE  (q.tail + k) % Capacity # Around(q.tail, n + i - 1)
      OBVIOUS
    <3>1. (q.tail + k) % Capacity = Around(q.tail, k)
      BY <1>1, AroundIs
    <3>2. k \in Slots /\ n + i - 1 \in Slots /\ k # n + i - 1
      BY <2>2, <1>1 DEF Slots
    <3> QED
      BY <3>1, <3>2, <1>1, AroundApart
  <2> HIDE DEF taken
  <2> QED
    BY <2>1, <2>3, <2>4, <2>5, <1>2, <1>5
<1>7. Contents(e) = rest
  <2> HIDE DEF rest
  <2> QED
    BY <1>4, <1>5, <1>6
<1>8. Contents(e) \in Seq(Frame)
  BY <1>5, <1>7
<1> QED
  BY <1>2, <1>3, <1>7, <1>8 DEF Closed, e

\* A set of naturals that is not empty has a least element.
LEMMA MinIs ==
    ASSUME NEW B \in SUBSET Nat, NEW b \in B
    PROVE  Fifo!Min(B) \in B /\ \A y \in B : Fifo!Min(B) <= y
<1> DEFINE R == OpToRel(<, Nat)
<1>1. IsWellFoundedOn(R, Nat)
  BY NatLessThanWellFounded
<1>2. \A x, y \in Nat : x < y => <<x, y>> \in R
  BY DEF OpToRel
<1> HIDE DEF R
<1>3. \E x \in B : \A y \in B : ~(<<y, x>> \in R)
  BY <1>1, WFMin
<1>4. \E x \in B : \A y \in B : x <= y
  <2>1. PICK x \in B : \A y \in B : ~(<<y, x>> \in R)
    BY <1>3
  <2>2. \A y \in B : ~(y < x)
    BY <2>1, <1>2
  <2>3. \A y \in B : x <= y
    BY <2>2
  <2> QED
    BY <2>3
<1> QED
  BY <1>4 DEF Fifo!Min

\* A batch is what the FIFO's definition of a batch says: the loop of
\* pop_batch counts to the first of max_count, the end and a last frame.
LEMMA PoppedOK ==
    ASSUME NEW q, Closed(q)
    PROVE  /\ Popped(q) = Fifo!BatchLen(Contents(q), MaxBatch)
           /\ Popped(q) \in 0..q.count
           /\ q.count > 0 => Popped(q) > 0
<1> DEFINE c == Contents(q)
           lasts == {i \in 1..Len(c) : c[i].last}
           B == {Len(c), MaxBatch} \union lasts
           m == Fifo!Min(B)
<1> USE QueueConstants
<1>1. q \in Ring /\ Len(c) = q.count /\ q.count \in Nat
  BY ContentsAt DEF Closed
<1>2. B \in SUBSET Nat /\ MaxBatch \in B
  BY <1>1
<1>3. m \in B /\ \A y \in B : m <= y
  BY <1>2, MinIs
<1>4. m \in 0..q.count /\ m <= MaxBatch /\ (q.count > 0 => m > 0)
  <2> HIDE DEF m
  <2> QED
    BY <1>1, <1>2, <1>3
<1>5. ASSUME NEW n \in 1..q.count
      PROVE  Reaches(q, n) <=> n <= m
  <2>1. Reaches(q, n) <=> n <= MaxBatch /\ n <= q.count /\ \A i \in 1..(n - 1) : ~c[i].last
    <3>1. \A i \in 1..(n - 1) : i \in 1..q.count
      BY <1>1
    <3>2. \A i \in 1..(n - 1) : q.slot[(q.tail + i - 1) % Capacity].last <=> c[i].last
      BY <3>1, <1>1 DEF Contents
    <3> HIDE DEF c
    <3> QED
      BY <3>2 DEF Reaches
  <2> HIDE DEF c, m
  <2>2. ASSUME n <= m, NEW i \in 1..(n - 1), c[i].last PROVE FALSE
    BY <2>2, <1>1, <1>3, <1>4
  <2>3. ASSUME n > m, n <= MaxBatch, n <= q.count, \A i \in 1..(n - 1) : ~c[i].last
        PROVE  FALSE
    BY <2>3, <1>1, <1>3, <1>4
  <2> QED
    BY <2>1, <2>2, <2>3, <1>4
<1>6. {n \in 1..q.count : Reaches(q, n)} = 1..m
  <2> HIDE DEF m
  <2>1. \A n \in 1..q.count : Reaches(q, n) <=> n \in 1..m
    BY <1>4, <1>5
  <2>2. 1..m \subseteq 1..q.count
    BY <1>1, <1>4
  <2> QED
    BY <2>1, <2>2
<1>7. Cardinality(1..m) = m
  <2> HIDE DEF m
  <2>1. m \in Int /\ 1 \in Int
    BY <1>4
  <2>2. Cardinality(1..m) = IF 1 > m THEN 0 ELSE m - 1 + 1
    BY <2>1, FS_Interval
  <2> QED
    BY <2>2, <1>4
<1>8. Fifo!BatchLen(c, MaxBatch) = m
  BY DEF Fifo!BatchLen
<1> QED
  BY <1>4, <1>6, <1>7, <1>8 DEF Popped

----------------------------------------------------------------------------
(* The accounts: where the frames are.                                     *)

\* No frame is in the sequence twice.
Distinct(c) == \A i, j \in DOMAIN c : i # j => c[i].id # c[j].id

\* The n frames made so far are the one held, those queued in c, those seen
\* and those given back, and no two of these places share one.
Balanced(held, c, s, u, n) ==
    /\ Distinct(c)
    /\ Ids(c) \cap u = {} /\ held \cap Ids(c) = {} /\ held \cap u = {}
    /\ held \union Ids(c) \union Ids(s) \union u = 1..n
    /\ Cardinality(held) + Len(c) + Len(s) + Cardinality(u) = n

\* The frames of two sequences, one behind the other.
LEMMA IdsConcat ==
    ASSUME NEW s \in Seq(Frame), NEW t \in Seq(Frame)
    PROVE  Ids(s \o t) = Ids(s) \union Ids(t)
<1>1. /\ DOMAIN s = 1..Len(s) /\ DOMAIN t = 1..Len(t) /\ Len(s) \in Nat /\ Len(t) \in Nat
      /\ DOMAIN (s \o t) = 1..(Len(s) + Len(t))
      /\ \A i \in 1..Len(s) : (s \o t)[i] = s[i]
      /\ \A i \in 1..Len(t) : (s \o t)[Len(s) + i] = t[i]
  OBVIOUS
<1>2. \A i \in 1..(Len(s) + Len(t)) :
         i \in 1..Len(s) \/ \E k \in 1..Len(t) : i = Len(s) + k
  <2> TAKE i \in 1..(Len(s) + Len(t))
  <2>1. CASE i > Len(s)
    <3>1. i - Len(s) \in 1..Len(t) /\ i = Len(s) + (i - Len(s))
      BY <2>1, <1>1
    <3> QED
      BY <3>1
  <2> QED
    BY <2>1, <1>1
<1>3. /\ \A i \in 1..Len(s) : i \in 1..(Len(s) + Len(t))
      /\ \A k \in 1..Len(t) : Len(s) + k \in 1..(Len(s) + Len(t))
  BY <1>1
<1>4. Ids(s \o t) \subseteq Ids(s) \union Ids(t)
  <2>1. SUFFICES ASSUME NEW i \in 1..(Len(s) + Len(t))
                 PROVE  (s \o t)[i].id \in Ids(s) \union Ids(t)
    BY <1>1 DEF Ids
  <2>2. CASE i \in 1..Len(s)
    BY <2>2, <1>1 DEF Ids
  <2>3. ASSUME NEW k \in 1..Len(t), i = Len(s) + k
        PROVE  (s \o t)[i].id \in Ids(s) \union Ids(t)
    BY <2>3, <1>1 DEF Ids
  <2> QED
    BY <2>2, <2>3, <1>2
<1>5. Ids(s) \subseteq Ids(s \o t)
  BY <1>1, <1>3 DEF Ids
<1>6. Ids(t) \subseteq Ids(s \o t)
  <2> SUFFICES ASSUME NEW k \in 1..Len(t)
               PROVE  t[k].id \in Ids(s \o t)
    BY <1>1 DEF Ids
  <2>1. Len(s) + k \in DOMAIN (s \o t) /\ (s \o t)[Len(s) + k] = t[k]
    BY <1>1, <1>3
  <2> QED
    BY <2>1 DEF Ids
<1> QED
  BY <1>4, <1>5, <1>6

\* A frame is appended.
LEMMA IdsAppend ==
    ASSUME NEW c \in Seq(Frame), NEW f \in Frame
    PROVE  /\ Ids(Append(c, f)) = Ids(c) \union {f.id}
           /\ Distinct(c) /\ f.id \notin Ids(c) => Distinct(Append(c, f))
<1> DEFINE a == Append(c, f)
<1>1. /\ DOMAIN a = 1..(Len(c) + 1) /\ Len(c) \in Nat /\ DOMAIN c = 1..Len(c)
      /\ \A i \in DOMAIN c : a[i] = c[i]
      /\ a[Len(c) + 1] = f
  OBVIOUS
<1> HIDE DEF a
<1>2. \A i \in 1..(Len(c) + 1) : i \in DOMAIN c \/ i = Len(c) + 1
  BY <1>1
<1>3. DOMAIN c \subseteq DOMAIN a /\ Len(c) + 1 \in DOMAIN a
  BY <1>1
<1>4. Ids(a) = Ids(c) \union {f.id}
  <2>1. Ids(a) \subseteq Ids(c) \union {f.id}
    BY <1>1, <1>2 DEF Ids
  <2>2. Ids(c) \subseteq Ids(a)
    BY <1>1, <1>3 DEF Ids
  <2>3. f.id \in Ids(a)
    BY <1>1, <1>3 DEF Ids
  <2> QED
    BY <2>1, <2>2, <2>3
<1>5. ASSUME Distinct(c), f.id \notin Ids(c), NEW i \in DOMAIN a, NEW j \in DOMAIN a, i # j
      PROVE  a[i].id # a[j].id
  <2>1. \A k \in DOMAIN c : c[k].id # f.id
    BY <1>5 DEF Ids
  <2>2. CASE i = Len(c) + 1
    BY <2>1, <2>2, <1>1, <1>2, <1>5
  <2>3. CASE j = Len(c) + 1
    BY <2>1, <2>3, <1>1, <1>2, <1>5
  <2>4. CASE i \in DOMAIN c /\ j \in DOMAIN c
    BY <2>4, <1>1, <1>5 DEF Distinct
  <2> QED
    BY <2>2, <2>3, <2>4, <1>1, <1>2
<1> QED
  BY <1>4, <1>5 DEF Distinct, a

\* The frames of a queue that is cut in two.
LEMMA IdsSplit ==
    ASSUME NEW c \in Seq(Frame), NEW k \in 0..Len(c)
    PROVE  LET front == SubSeq(c, 1, k)
               rest == SubSeq(c, k + 1, Len(c))
           IN  /\ front \in Seq(Frame) /\ rest \in Seq(Frame)
               /\ Len(front) = k /\ Len(rest) = Len(c) - k
               /\ Ids(c) = Ids(front) \union Ids(rest)
               /\ Distinct(c) => Distinct(rest)
<1> DEFINE front == SubSeq(c, 1, k)
           rest == SubSeq(c, k + 1, Len(c))
           L == Len(c)
<1>1. /\ L \in Nat /\ k \in Nat /\ k <= L /\ 1 \in 1..(L + 1) /\ k \in (1 - 1)..L /\ L \in k..L
      /\ \A i \in 1..L : c[i] \in Frame
  OBVIOUS
<1>2. front \in Seq(Frame) /\ Len(front) = k
  <2>1. \A i \in 1..k : c[i] \in Frame
    BY <1>1
  <2>2. front \in Seq(Frame) /\ Len(front) = IF 1 <= k THEN k - 1 + 1 ELSE 0
    BY <2>1, <1>1, SubSeqProperties
  <2> QED
    BY <2>2, <1>1
<1>3. /\ rest \in Seq(Frame) /\ Len(rest) = L - k
      /\ \A i \in 1..(L - k) : rest[i] = c[k + i]
  <2>1. \A i \in (k + 1)..L : c[i] \in Frame
    BY <1>1
  <2>2. k + 1 \in Int /\ L \in Int
    BY <1>1
  <2> HIDE DEF L
  <2>3. /\ SubSeq(c, k + 1, L) \in Seq(Frame)
        /\ Len(SubSeq(c, k + 1, L)) = IF k + 1 <= L THEN L - (k + 1) + 1 ELSE 0
        /\ \A i \in 1..(L - (k + 1) + 1) : SubSeq(c, k + 1, L)[i] = c[(k + 1) + i - 1]
    BY <2>1, <2>2, SubSeqProperties
  <2>4. L - (k + 1) + 1 = L - k /\ \A i \in 1..(L - k) : (k + 1) + i - 1 = k + i
    BY <1>1
  <2>5. Len(SubSeq(c, k + 1, L)) = L - k
    BY <2>3, <1>1
  <2> QED
    BY <2>3, <2>4, <2>5 DEF L
<1>4. front \o rest = c
  BY <1>1, ConcatAdjacentSubSeq, SubSeqFull
<1> HIDE DEF front, rest
<1>5. Ids(c) = Ids(front) \union Ids(rest)
  BY <1>2, <1>3, <1>4, IdsConcat
<1>6. Distinct(c) => Distinct(rest)
  <2> SUFFICES ASSUME Distinct(c), NEW i \in DOMAIN rest, NEW j \in DOMAIN rest, i # j
               PROVE  rest[i].id # rest[j].id
    BY DEF Distinct
  <2>1. i \in 1..(L - k) /\ j \in 1..(L - k)
    BY <1>3
  <2>2. k + i \in DOMAIN c /\ k + j \in DOMAIN c /\ k + i # k + j
    BY <2>1, <1>1
  <2> QED
    BY <2>1, <2>2, <1>3 DEF Distinct
<1> QED
  BY <1>2, <1>3, <1>5, <1>6 DEF front, rest

\* A queue without repetitions holds as many frames as it is long.
LEMMA IdsCount ==
    ASSUME NEW c \in Seq(Frame), Distinct(c)
    PROVE  Cardinality(Ids(c)) = Len(c) /\ IsFiniteSet(Ids(c))
<1> DEFINE b == [i \in 1..Len(c) |-> c[i].id]
<1>1. Len(c) \in Nat /\ DOMAIN c = 1..Len(c)
  OBVIOUS
<1>2. b \in [1..Len(c) -> Ids(c)]
  BY <1>1 DEF Ids
<1>3. \A i, j \in 1..Len(c) : b[i] = b[j] => i = j
  BY <1>1 DEF Distinct
<1>4. \A x \in Ids(c) : \E i \in 1..Len(c) : b[i] = x
  BY <1>1 DEF Ids
<1>5. b \in Bijection(1..Len(c), Ids(c))
  BY <1>2, <1>3, <1>4 DEF Bijection, Injection, Surjection, IsInjective
<1>6. ExistsBijection(1..Len(c), Ids(c))
  BY <1>5 DEF ExistsBijection
<1> QED
  BY <1>1, <1>6, FS_CountingElements, FS_NatBijection

\* A set of frame numbers is finite.
LEMMA BackFinite ==
    ASSUME NEW u \in SUBSET (1..MaxFrames)
    PROVE  IsFiniteSet(u) /\ Cardinality(u) \in Nat
<1>1. IsFiniteSet(1..MaxFrames)
  BY QueueConstants, FS_Interval
<1>2. IsFiniteSet(u)
  BY <1>1, FS_Subset
<1> QED
  BY <1>2, FS_CardinalityType

\* A frame is made.
LEMMA Makes ==
    ASSUME NEW c \in Seq(Frame), NEW s \in Seq(Frame), NEW u \in SUBSET (1..MaxFrames),
           NEW n \in Nat, Balanced({}, c, s, u, n)
    PROVE  Balanced({n + 1}, c, s, u, n + 1)
<1>1. Cardinality({}) = 0 /\ Cardinality({n + 1}) = 1
  BY FS_EmptySet, FS_Singleton
<1>2. Cardinality(u) \in Nat /\ Len(c) \in Nat /\ Len(s) \in Nat
  BY BackFinite
<1>3. Ids(c) \union Ids(s) \union u = 1..n /\ n + 1 \notin 1..n /\ 1..(n + 1) = (1..n) \union {n + 1}
  BY DEF Balanced
<1>4. {n + 1} \cap Ids(c) = {} /\ {n + 1} \cap u = {}
  BY <1>3
<1>5. {n + 1} \union Ids(c) \union Ids(s) \union u = 1..(n + 1)
  BY <1>3
<1>6. Cardinality({n + 1}) + Len(c) + Len(s) + Cardinality(u) = n + 1
  <2>1. Cardinality({}) + Len(c) + Len(s) + Cardinality(u) = n
    BY DEF Balanced
  <2> QED
    BY <2>1, <1>1, <1>2
<1> QED
  BY <1>4, <1>5, <1>6 DEF Balanced

\* A frame is pushed.
LEMMA Queues ==
    ASSUME NEW c \in Seq(Frame), NEW s \in Seq(Frame), NEW u \in SUBSET (1..MaxFrames),
           NEW f \in Frame, NEW n \in Nat, Balanced({f.id}, c, s, u, n)
    PROVE  Balanced({}, Append(c, f), s, u, n)
<1>1. Cardinality({}) = 0 /\ Cardinality({f.id}) = 1
  BY FS_EmptySet, FS_Singleton
<1>2. Cardinality(u) \in Nat /\ Len(c) \in Nat /\ Len(s) \in Nat
      /\ Len(Append(c, f)) = Len(c) + 1
  BY BackFinite
<1>3. Ids(Append(c, f)) = Ids(c) \union {f.id} /\ Distinct(Append(c, f))
  BY IdsAppend DEF Balanced
<1>4. Cardinality({}) + Len(Append(c, f)) + Len(s) + Cardinality(u) = n
  BY <1>1, <1>2 DEF Balanced
<1> QED
  BY <1>3, <1>4 DEF Balanced

\* A frame is given back.
LEMMA GivesBack ==
    ASSUME NEW c \in Seq(Frame), NEW s \in Seq(Frame), NEW u \in SUBSET (1..MaxFrames),
           NEW x, NEW n \in Nat, Balanced({x}, c, s, u, n)
    PROVE  Balanced({}, c, s, u \union {x}, n)
<1>1. Cardinality({}) = 0 /\ Cardinality({x}) = 1
  BY FS_EmptySet, FS_Singleton
<1>2. Cardinality(u) \in Nat /\ Len(c) \in Nat /\ Len(s) \in Nat
  BY BackFinite
<1>3. x \notin u /\ x \notin Ids(c)
  BY DEF Balanced
<1>4. Cardinality(u \union {x}) = Cardinality(u) + 1
  BY <1>3, BackFinite, FS_AddElement
<1>5. Cardinality({}) + Len(c) + Len(s) + Cardinality(u \union {x}) = n
  BY <1>1, <1>2, <1>4 DEF Balanced
<1> QED
  BY <1>3, <1>5 DEF Balanced

\* A batch goes from the queue to the consumer.
LEMMA Takes ==
    ASSUME NEW h, NEW c \in Seq(Frame), NEW s \in Seq(Frame), NEW u \in SUBSET (1..MaxFrames),
           Cardinality(h) \in Nat, NEW n \in Nat, Balanced(h, c, s, u, n), NEW k \in 0..Len(c)
    PROVE  Balanced(h, SubSeq(c, k + 1, Len(c)), s \o SubSeq(c, 1, k), u, n)
<1> DEFINE front == SubSeq(c, 1, k)
           rest == SubSeq(c, k + 1, Len(c))
<1>1. /\ front \in Seq(Frame) /\ rest \in Seq(Frame)
      /\ Len(front) = k /\ Len(rest) = Len(c) - k
      /\ Ids(c) = Ids(front) \union Ids(rest)
      /\ Distinct(rest)
  BY IdsSplit DEF Balanced
<1> HIDE DEF front, rest
<1>2. Ids(s \o front) = Ids(s) \union Ids(front) /\ Len(s \o front) = Len(s) + k
  <2>1. front \in Seq(Frame) /\ Len(front) = k
    BY <1>1
  <2>2. Ids(s \o front) = Ids(s) \union Ids(front)
    BY <2>1, IdsConcat
  <2>3. Len(s \o front) = Len(s) + k
    BY <2>1
  <2> QED
    BY <2>2, <2>3
<1>3. Cardinality(u) \in Nat /\ Len(c) \in Nat /\ Len(s) \in Nat
  BY BackFinite
<1>4. Cardinality(h) + Len(rest) + Len(s \o front) + Cardinality(u) = n
  BY <1>1, <1>2, <1>3 DEF Balanced
<1>5. h \union Ids(rest) \union Ids(s \o front) \union u = 1..n
  BY <1>1, <1>2 DEF Balanced
<1>6. Ids(rest) \cap u = {} /\ h \cap Ids(rest) = {} /\ h \cap u = {}
  BY <1>1 DEF Balanced
<1>7. Balanced(h, rest, s \o front, u, n)
  BY <1>1, <1>4, <1>5, <1>6 DEF Balanced
<1> QED
  BY <1>7 DEF front, rest

\* The queue is drained.
LEMMA Drains ==
    ASSUME NEW h, NEW c \in Seq(Frame), NEW s \in Seq(Frame), NEW u \in SUBSET (1..MaxFrames),
           Cardinality(h) \in Nat, NEW n \in Nat, Balanced(h, c, s, u, n)
    PROVE  Balanced(h, <<>>, s, u \union Ids(c), n)
<1>1. Cardinality(Ids(c)) = Len(c) /\ IsFiniteSet(Ids(c)) /\ Ids(c) \cap u = {}
  BY IdsCount DEF Balanced
<1>2. IsFiniteSet(u) /\ Cardinality(u) \in Nat /\ Len(c) \in Nat /\ Len(s) \in Nat
  BY BackFinite
<1>3. Cardinality(u \union Ids(c)) = Cardinality(u) + Cardinality(Ids(c)) - Cardinality(u \cap Ids(c))
  BY <1>1, <1>2, FS_Union
<1>4. u \cap Ids(c) = {} /\ Cardinality(u \cap Ids(c)) = 0
  BY <1>1, FS_EmptySet
<1>5. Cardinality(u \union Ids(c)) = Cardinality(u) + Len(c)
  BY <1>1, <1>2, <1>3, <1>4
<1>6. Ids(<<>>) = {} /\ Len(<<>>) = 0 /\ Distinct(<<>>)
  BY DEF Ids, Distinct
<1>7. Cardinality(h) + Len(<<>>) + Len(s) + Cardinality(u \union Ids(c)) = n
  BY <1>2, <1>5, <1>6 DEF Balanced
<1> QED
  BY <1>6, <1>7 DEF Balanced

----------------------------------------------------------------------------
(* The inductive invariant.                                                *)

Producer == [pc : {"idle", "lock", "wait"}, frame : Frame \union {NULL}, rc : {0, -1}]
Consumer == [pc : {"idle", "lock", "wait"}, got : Seq(Frame), rc : {0, -1}]

\* A thread inside push has a frame; a queue that is gone is empty and nobody
\* is inside it.
ThreadInv ==
    /\ prod.pc # "idle" => prod.frame \in Frame
    /\ ~queue.open => queue.count = 0 /\ prod.pc = "idle" /\ cons.pc = "idle"

AccountInv == Balanced(Held, Contents(queue), seen, unref, prod.frame.id)

IInv == TypeOK /\ Closed(queue) /\ ThreadInv /\ AccountInv

\* What the invariant says of the arguments of the accounts.
LEMMA Accounts ==
    ASSUME IInv
    PROVE  /\ Contents(queue) \in Seq(Frame) /\ Len(Contents(queue)) = queue.count
           /\ queue.count \in Nat /\ queue \in Ring
           /\ seen \in Seq(Frame) /\ unref \in SUBSET (1..MaxFrames)
           /\ prod.frame.id \in Nat /\ Cardinality(Held) \in Nat
           /\ prod \in Producer /\ cons \in Consumer
<1>1. Contents(queue) \in Seq(Frame) /\ queue \in Ring
  BY DEF IInv, Closed
<1>2. Len(Contents(queue)) = queue.count /\ queue.count \in Nat
  BY <1>1, ContentsAt
<1>3. /\ prod \in Producer /\ cons \in Consumer
      /\ seen \in Seq(Frame) /\ unref \in SUBSET (1..MaxFrames)
  BY DEF IInv, TypeOK, Producer, Consumer
<1>4. prod.frame.id \in Nat
  BY <1>3, QueueConstants DEF Frame, NULL, Producer
<1>5. Cardinality(Held) \in Nat
  <2>1. Cardinality({}) = 0 /\ Cardinality({prod.frame.id}) = 1
    BY FS_EmptySet, FS_Singleton
  <2>2. Held = {} \/ Held = {prod.frame.id}
    BY DEF Held
  <2> QED
    BY <2>1, <2>2
<1> QED
  BY <1>1, <1>2, <1>3, <1>4, <1>5

\* The flags of the queue say nothing about its frames.
LEMMA FlagsOK ==
    ASSUME NEW q, Closed(q), NEW r \in Ring,
           r.slot = q.slot, r.head = q.head, r.tail = q.tail, r.count = q.count
    PROVE  Closed(r) /\ Contents(r) = Contents(q)
BY DEF Closed, Contents

----------------------------------------------------------------------------
(* Every action keeps the invariant and is a step of the FIFO.             *)

FifoStep == [Fifo!FifoNext]_(Fifo!fifoVars)

\* The invariant after a step, from its parts.
LEMMA InvFrom ==
    ASSUME queue' \in Ring, prod' \in Producer, cons' \in Consumer,
           unref' \subseteq 1..MaxFrames, seen' \in Seq(Frame), control' \in 0..MaxControl,
           Closed(queue'), ThreadInv', AccountInv'
    PROVE  IInv'
BY DEF IInv, TypeOK, Ring, Producer, Consumer, Closed

\* A step that moves no frame: the threads enter, sleep, wake or leave, and
\* flags are set.
LEMMA QuietOK ==
    ASSUME IInv, Closed(queue'), Contents(queue') = Contents(queue),
           prod' \in Producer, cons' \in Consumer, control' \in 0..MaxControl,
           prod'.frame = prod.frame, (prod'.pc = "idle") <=> (prod.pc = "idle"),
           (cons'.pc = "idle") \/ (cons.pc # "idle") \/ queue.open,
           queue'.open = queue.open, queue'.count = queue.count,
           seen' = seen, unref' = unref
    PROVE  IInv'
<1>1. Held' = Held
  BY DEF Held
<1>2. AccountInv'
  BY <1>1 DEF IInv, AccountInv
<1>3. ThreadInv'
  BY DEF IInv, ThreadInv
<1>4. queue' \in Ring /\ seen' \in Seq(Frame) /\ unref' \subseteq 1..MaxFrames
  BY Accounts DEF Closed
<1> QED
  BY <1>2, <1>3, <1>4, InvFrom

\* The producer enters with a new frame.
LEMMA CallPushOK == IInv /\ CallPush => IInv' /\ FifoStep
<1> SUFFICES ASSUME IInv, CallPush PROVE IInv' /\ FifoStep
  OBVIOUS
<1> DEFINE n == prod.frame.id
<1>1. /\ prod.pc = "idle" /\ queue.open /\ n < MaxFrames /\ n \in Nat
      /\ UNCHANGED <<queue, cons, unref, seen, control>>
      /\ prod \in Producer /\ cons \in Consumer /\ control \in 0..MaxControl
  BY Accounts DEF CallPush, IInv, TypeOK
<1>2. PICK last \in BOOLEAN :
         prod' = [prod EXCEPT !.pc = "lock", !.frame = [id |-> n + 1, last |-> last]]
  BY DEF CallPush
<1>3. [id |-> n + 1, last |-> last] \in Frame
  BY <1>1, QueueConstants DEF Frame
<1>4. /\ prod' \in Producer /\ prod'.pc = "lock" /\ prod'.frame \in Frame
      /\ prod'.frame.id = n + 1 /\ prod'.rc = prod.rc
      /\ prod'.frame = [id |-> n + 1, last |-> last]
  BY <1>1, <1>2, <1>3 DEF Producer
<1>5. Held = {} /\ Held' = {n + 1}
  BY <1>1, <1>4 DEF Held
<1>6. AccountInv'
  <2>1. Balanced({}, Contents(queue), seen, unref, n)
    BY <1>5 DEF IInv, AccountInv
  <2>2. Balanced({n + 1}, Contents(queue), seen, unref, n + 1)
    BY <2>1, <1>1, Accounts, Makes
  <2> QED
    BY <2>2, <1>1, <1>4, <1>5 DEF AccountInv
<1>7. ThreadInv'
  BY <1>1, <1>4 DEF ThreadInv
<1>8. IInv'
  BY <1>1, <1>4, <1>6, <1>7, Accounts, InvFrom DEF IInv
<1>9. Fifo!CallPush
  BY <1>1, <1>4 DEF Fifo!CallPush, Place
<1> QED
  BY <1>8, <1>9 DEF FifoStep, Fifo!FifoNext

\* The producer sleeps until there is room.
LEMMA PushWaitOK == IInv /\ PushWait => IInv' /\ FifoStep
<1> SUFFICES ASSUME IInv, PushWait PROVE IInv' /\ FifoStep
  OBVIOUS
<1>1. /\ prod.pc = "lock" /\ UNCHANGED <<queue, cons, unref, seen, control>>
      /\ prod \in Producer /\ cons \in Consumer /\ control \in 0..MaxControl
      /\ Closed(queue)
  BY Accounts DEF PushWait, IInv, TypeOK
<1>2. prod' \in Producer /\ prod'.pc = "wait" /\ prod'.frame = prod.frame /\ prod'.rc = prod.rc
  BY <1>1 DEF PushWait, Producer
<1>3. IInv'
  BY <1>1, <1>2, QuietOK
<1>4. UNCHANGED Fifo!fifoVars
  BY <1>1, <1>2 DEF Fifo!fifoVars, Place
<1> QED
  BY <1>3, <1>4 DEF FifoStep

\* The frame goes into the ring, and the consumer is woken.
LEMMA PushDoneOK == IInv /\ PushDone => IInv' /\ FifoStep
<1> SUFFICES ASSUME IInv, PushDone PROVE IInv' /\ FifoStep
  OBVIOUS
<1> DEFINE f == prod.frame
<1>1. /\ prod.pc = "lock" /\ ~Full(queue) /\ ~queue.cancelled
      /\ UNCHANGED <<unref, seen, control>> /\ queue' = Pushed(queue, f) /\ cons' = Woken(cons)
      /\ prod \in Producer /\ cons \in Consumer /\ control \in 0..MaxControl
      /\ Closed(queue) /\ f \in Frame /\ queue.open
  BY Accounts DEF PushDone, IInv, TypeOK, ThreadInv
<1>2. /\ Closed(queue') /\ Contents(queue') = Append(Contents(queue), f)
      /\ queue'.count = queue.count + 1 /\ queue'.eof = queue.eof
      /\ queue'.cancelled = queue.cancelled /\ queue'.open = queue.open
  BY <1>1, PushedOK
<1>3. prod' \in Producer /\ prod'.pc = "idle" /\ prod'.frame = f /\ prod'.rc = 0
  BY <1>1 DEF PushDone, Producer
<1>4. /\ cons' \in Consumer /\ cons'.got = cons.got /\ cons'.rc = cons.rc
      /\ (cons'.pc = "idle") <=> (cons.pc = "idle")
  BY <1>1 DEF Woken, Consumer
<1>5. Held = {f.id} /\ Held' = {}
  BY <1>1, <1>3 DEF Held
<1>6. AccountInv'
  <2>1. Balanced({f.id}, Contents(queue), seen, unref, f.id)
    BY <1>5 DEF IInv, AccountInv
  <2>2. Balanced({}, Append(Contents(queue), f), seen, unref, f.id)
    BY <2>1, <1>1, Accounts, Queues
  <2> QED
    BY <2>2, <1>1, <1>2, <1>3, <1>5 DEF AccountInv
<1>7. ThreadInv'
  BY <1>1, <1>2, <1>3 DEF ThreadInv
<1>8. IInv'
  BY <1>1, <1>2, <1>3, <1>4, <1>6, <1>7, Accounts, InvFrom DEF Closed
<1>9. Fifo!PushDone
  <2>1. Len(Contents(queue)) < Capacity
    BY <1>1, Accounts, QueueConstants DEF Full
  <2> QED
    BY <2>1, <1>1, <1>2, <1>3, <1>4 DEF Fifo!PushDone, Place
<1> QED
  BY <1>8, <1>9 DEF FifoStep, Fifo!FifoNext

\* The push is refused, and the frame given back.
LEMMA PushRefusedOK == IInv /\ PushRefused => IInv' /\ FifoStep
<1> SUFFICES ASSUME IInv, PushRefused PROVE IInv' /\ FifoStep
  OBVIOUS
<1> DEFINE f == prod.frame
<1>1. /\ prod.pc = "lock" /\ queue.cancelled
      /\ UNCHANGED <<queue, cons, seen, control>> /\ unref' = unref \union {f.id}
      /\ prod \in Producer /\ cons \in Consumer /\ control \in 0..MaxControl
      /\ Closed(queue) /\ f \in Frame /\ queue.open
  BY Accounts DEF PushRefused, IInv, TypeOK, ThreadInv
<1>2. prod' \in Producer /\ prod'.pc = "idle" /\ prod'.frame = f /\ prod'.rc = -1
  BY <1>1 DEF PushRefused, Producer
<1>3. Held = {f.id} /\ Held' = {}
  BY <1>1, <1>2 DEF Held
<1>4. AccountInv'
  <2>1. Balanced({f.id}, Contents(queue), seen, unref, f.id)
    BY <1>3 DEF IInv, AccountInv
  <2>2. Balanced({}, Contents(queue), seen, unref \union {f.id}, f.id)
    BY <2>1, Accounts, GivesBack
  <2> QED
    BY <2>2, <1>1, <1>2, <1>3 DEF AccountInv
<1>5. ThreadInv'
  BY <1>1, <1>2 DEF ThreadInv
<1>6. unref' \subseteq 1..MaxFrames
  BY <1>1, Accounts DEF Frame
<1>7. IInv'
  BY <1>1, <1>2, <1>4, <1>5, <1>6, Accounts, InvFrom DEF Closed
<1>8. Fifo!PushRefused
  BY <1>1, <1>2 DEF Fifo!PushRefused, Place
<1> QED
  BY <1>7, <1>8 DEF FifoStep, Fifo!FifoNext

\* The consumer enters.
LEMMA CallPopOK == IInv /\ CallPop => IInv' /\ FifoStep
<1> SUFFICES ASSUME IInv, CallPop PROVE IInv' /\ FifoStep
  OBVIOUS
<1>1. /\ cons.pc = "idle" /\ queue.open /\ UNCHANGED <<queue, prod, unref, seen, control>>
      /\ prod \in Producer /\ cons \in Consumer /\ control \in 0..MaxControl
      /\ Closed(queue)
  BY Accounts DEF CallPop, IInv, TypeOK
<1>2. cons' \in Consumer /\ cons'.pc = "lock" /\ cons'.got = <<>> /\ cons'.rc = cons.rc
  <2>1. <<>> \in Seq(Frame)
    OBVIOUS
  <2> QED
    BY <2>1, <1>1 DEF CallPop, Consumer
<1>3. IInv'
  BY <1>1, <1>2, QuietOK
<1>4. Fifo!CallPop
  BY <1>1, <1>2 DEF Fifo!CallPop, Place
<1> QED
  BY <1>3, <1>4 DEF FifoStep, Fifo!FifoNext

\* The consumer sleeps until there is a frame, or the end.
LEMMA PopWaitOK == IInv /\ PopWait => IInv' /\ FifoStep
<1> SUFFICES ASSUME IInv, PopWait PROVE IInv' /\ FifoStep
  OBVIOUS
<1>1. /\ cons.pc = "lock" /\ UNCHANGED <<queue, prod, unref, seen, control>>
      /\ prod \in Producer /\ cons \in Consumer /\ control \in 0..MaxControl
      /\ Closed(queue)
  BY Accounts DEF PopWait, IInv, TypeOK
<1>2. cons' \in Consumer /\ cons'.pc = "wait" /\ cons'.got = cons.got /\ cons'.rc = cons.rc
  BY <1>1 DEF PopWait, Consumer
<1>3. IInv'
  BY <1>1, <1>2, QuietOK
<1>4. UNCHANGED Fifo!fifoVars
  BY <1>1, <1>2 DEF Fifo!fifoVars, Place
<1> QED
  BY <1>3, <1>4 DEF FifoStep

\* A batch leaves the ring, and the producer is woken if there is one.
LEMMA PopDoneOK == IInv /\ PopDone => IInv' /\ FifoStep
<1> SUFFICES ASSUME IInv, PopDone PROVE IInv' /\ FifoStep
  OBVIOUS
<1> DEFINE n == Popped(queue)
           c == Contents(queue)
           got == SubSeq(c, 1, n)
<1>1. /\ cons.pc = "lock" /\ ~MustWait(queue) /\ ~queue.cancelled
      /\ UNCHANGED <<unref, control>> /\ queue' = Emptied(queue, n)
      /\ cons' = [pc |-> "idle", got |-> got, rc |-> 0]
      /\ seen' = seen \o got
      /\ prod' = prod \/ prod' = Woken(prod)
      /\ prod \in Producer /\ cons \in Consumer /\ control \in 0..MaxControl
      /\ Closed(queue) /\ queue.open
  BY Accounts DEF PopDone, IInv, TypeOK, ThreadInv
<1>2. /\ n = Fifo!BatchLen(c, MaxBatch) /\ n \in 0..queue.count
      /\ c \in Seq(Frame) /\ Len(c) = queue.count
  BY <1>1, PoppedOK, Accounts
<1>3. /\ Closed(queue') /\ Contents(queue') = SubSeq(c, n + 1, Len(c))
      /\ queue'.count = queue.count - n /\ queue'.eof = queue.eof
      /\ queue'.cancelled = queue.cancelled /\ queue'.open = queue.open
  <2> HIDE DEF n
  <2> QED
    BY <1>1, <1>2, EmptiedOK
<1>4. /\ prod' \in Producer /\ prod'.frame = prod.frame /\ prod'.rc = prod.rc
      /\ (prod'.pc = "idle") <=> (prod.pc = "idle")
  BY <1>1 DEF Woken, Producer
<1>5. got \in Seq(Frame) /\ seen' \in Seq(Frame)
  <2>1. got \in Seq(Frame)
    BY <1>2, IdsSplit
  <2> HIDE DEF got
  <2> QED
    BY <2>1, <1>1, Accounts
<1>6. cons' \in Consumer /\ cons'.pc = "idle"
  BY <1>1, <1>5 DEF Consumer
<1>7. AccountInv'
  <2>1. Held' = Held
    BY <1>4 DEF Held
  <2>2. Balanced(Held, c, seen, unref, prod.frame.id)
    BY DEF IInv, AccountInv
  <2>3. Balanced(Held, SubSeq(c, n + 1, Len(c)), seen \o got, unref, prod.frame.id)
    <3> HIDE DEF n, c
    <3> QED
      BY <2>2, <1>2, Accounts, Takes
  <2> QED
    BY <2>1, <2>3, <1>1, <1>3, <1>4 DEF AccountInv
<1>8. ThreadInv'
  BY <1>1, <1>3, <1>4 DEF ThreadInv, IInv
<1>9. IInv'
  BY <1>1, <1>3, <1>4, <1>5, <1>6, <1>7, <1>8, Accounts, InvFrom DEF Closed
<1>10. Fifo!PopDone
  <2>1. c # <<>> \/ queue.eof
    BY <1>1, <1>2 DEF MustWait
  <2>2. cons'.got = got /\ cons'.rc = 0 /\ Place(cons') = "out" /\ Place(cons) = "in"
        /\ Place(prod') = Place(prod)
    BY <1>1, <1>4, <1>6 DEF Place
  <2> HIDE DEF n, c
  <2> QED
    BY <2>1, <2>2, <1>1, <1>2, <1>3, <1>4 DEF Fifo!PopDone, c
<1> QED
  BY <1>9, <1>10 DEF FifoStep, Fifo!FifoNext

\* The pop is refused.
LEMMA PopRefusedOK == IInv /\ PopRefused => IInv' /\ FifoStep
<1> SUFFICES ASSUME IInv, PopRefused PROVE IInv' /\ FifoStep
  OBVIOUS
<1>1. /\ cons.pc = "lock" /\ queue.cancelled /\ UNCHANGED <<queue, prod, unref, seen, control>>
      /\ prod \in Producer /\ cons \in Consumer /\ control \in 0..MaxControl
      /\ Closed(queue)
  BY Accounts DEF PopRefused, IInv, TypeOK
<1>2. cons' \in Consumer /\ cons'.pc = "idle" /\ cons'.got = <<>> /\ cons'.rc = -1
  BY DEF PopRefused, Consumer
<1>3. IInv'
  BY <1>1, <1>2, QuietOK
<1>4. Fifo!PopRefused
  BY <1>1, <1>2 DEF Fifo!PopRefused, Place
<1> QED
  BY <1>3, <1>4 DEF FifoStep, Fifo!FifoNext

\* The end of the track is recorded, and the consumer woken.
LEMMA SignalEofOK == IInv /\ SignalEof => IInv' /\ FifoStep
<1> SUFFICES ASSUME IInv, SignalEof PROVE IInv' /\ FifoStep
  OBVIOUS
<1>1. /\ prod.pc = "idle" /\ queue.open /\ UNCHANGED <<prod, unref, seen>>
      /\ control' = control + 1 /\ control < MaxControl /\ cons' = Woken(cons)
      /\ prod \in Producer /\ cons \in Consumer /\ control \in 0..MaxControl
      /\ Closed(queue) /\ queue \in Ring /\ queue' = [queue EXCEPT !.eof = TRUE]
  BY Accounts DEF SignalEof, Called, IInv, TypeOK
<1>2. /\ cons' \in Consumer /\ cons'.got = cons.got /\ cons'.rc = cons.rc
      /\ (cons'.pc = "idle") <=> (cons.pc = "idle")
  BY <1>1 DEF Woken, Consumer
<1>3. /\ queue' \in Ring /\ queue'.slot = queue.slot /\ queue'.head = queue.head
      /\ queue'.tail = queue.tail /\ queue'.count = queue.count
      /\ queue'.eof = TRUE /\ queue'.cancelled = queue.cancelled /\ queue'.open = queue.open
  BY <1>1 DEF Ring
<1>4. Closed(queue') /\ Contents(queue') = Contents(queue)
  BY <1>1, <1>3, FlagsOK
<1>5. control' \in 0..MaxControl
  BY <1>1, QueueConstants
<1>6. IInv'
  BY <1>1, <1>2, <1>3, <1>4, <1>5, QuietOK
<1>7. Fifo!SignalEof
  BY <1>1, <1>2, <1>3, <1>4 DEF Fifo!SignalEof, Place
<1> QED
  BY <1>6, <1>7 DEF FifoStep, Fifo!FifoNext

\* Both threads are told to give up.
LEMMA CancelOK == IInv /\ Cancel => IInv' /\ FifoStep
<1> SUFFICES ASSUME IInv, Cancel PROVE IInv' /\ FifoStep
  OBVIOUS
<1>1. /\ prod.pc = "idle" \/ cons.pc = "idle"
      /\ UNCHANGED <<unref, seen>>
      /\ control' = control + 1 /\ control < MaxControl /\ cons' = Woken(cons) /\ prod' = Woken(prod)
      /\ prod \in Producer /\ cons \in Consumer /\ control \in 0..MaxControl
      /\ Closed(queue) /\ queue \in Ring /\ queue' = [queue EXCEPT !.cancelled = TRUE]
  BY Accounts DEF Cancel, Called, IInv, TypeOK
<1>2. /\ cons' \in Consumer /\ cons'.got = cons.got /\ cons'.rc = cons.rc
      /\ (cons'.pc = "idle") <=> (cons.pc = "idle")
  BY <1>1 DEF Woken, Consumer
<1>3. /\ prod' \in Producer /\ prod'.frame = prod.frame /\ prod'.rc = prod.rc
      /\ (prod'.pc = "idle") <=> (prod.pc = "idle")
  BY <1>1 DEF Woken, Producer
<1>4. /\ queue' \in Ring /\ queue'.slot = queue.slot /\ queue'.head = queue.head
      /\ queue'.tail = queue.tail /\ queue'.count = queue.count
      /\ queue'.eof = queue.eof /\ queue'.cancelled = TRUE /\ queue'.open = queue.open
  BY <1>1 DEF Ring
<1>5. Closed(queue') /\ Contents(queue') = Contents(queue)
  BY <1>1, <1>4, FlagsOK
<1>6. control' \in 0..MaxControl
  BY <1>1, QueueConstants
<1>7. IInv'
  BY <1>1, <1>2, <1>3, <1>4, <1>5, <1>6, QuietOK
<1>8. Fifo!Cancel
  BY <1>1, <1>2, <1>3, <1>4, <1>5 DEF Fifo!Cancel, Place
<1> QED
  BY <1>7, <1>8 DEF FifoStep, Fifo!FifoNext

\* A ring without frames.
LEMMA EmptyOK ==
    ASSUME NEW r \in Ring, r.count = 0, r.head = r.tail
    PROVE  Closed(r) /\ Contents(r) = <<>>
<1>1. Contents(r) = <<>>
  BY DEF Contents
<1>2. (r.tail + 0) % Capacity = Around(r.tail, 0) /\ Around(r.tail, 0) = r.tail
      /\ r.tail + r.count = r.tail + 0
  <2>1. r.tail \in Slots /\ 0 \in 0..Capacity
    BY QueueConstants DEF Ring
  <2>2. r.tail + 0 = r.tail /\ r.tail < Capacity
    BY <2>1, QueueConstants DEF Slots
  <2> QED
    BY <2>1, <2>2, AroundIs DEF Around
<1> QED
  BY <1>1, <1>2 DEF Closed

\* What is left in the queue is given back by the drain of reset and destroy.
LEMMA DrainOK ==
    ASSUME IInv, queue' \in Ring, queue'.count = 0, queue'.head = queue'.tail,
           queue'.open = TRUE \/ (prod.pc = "idle" /\ cons.pc = "idle"),
           prod' = prod, cons' = cons, seen' = seen, control' \in 0..MaxControl,
           unref' = unref \union Ids(Contents(queue))
    PROVE  IInv' /\ Contents(queue') = <<>>
<1> DEFINE c == Contents(queue)
<1>1. Closed(queue') /\ Contents(queue') = <<>>
  BY EmptyOK
<1>2. c \in Seq(Frame) /\ seen \in Seq(Frame) /\ unref \in SUBSET (1..MaxFrames)
      /\ Cardinality(Held) \in Nat /\ prod.frame.id \in Nat
  BY Accounts
<1>3. Balanced(Held, c, seen, unref, prod.frame.id)
  BY DEF IInv, AccountInv
<1>4. Ids(c) \subseteq 1..MaxFrames
  <2>1. \A i \in DOMAIN c : c[i] \in Frame
    BY <1>2
  <2>2. \A f \in Frame : f.id \in 1..MaxFrames
    BY DEF Frame
  <2> QED
    BY <2>1, <2>2 DEF Ids
<1> HIDE DEF c
<1>5. Balanced(Held, <<>>, seen, unref \union Ids(c), prod.frame.id)
  BY <1>2, <1>3, Drains
<1>6. Held' = Held
  BY DEF Held
<1>7. AccountInv'
  BY <1>1, <1>5, <1>6 DEF AccountInv, c
<1>8. ThreadInv'
  BY DEF ThreadInv, IInv
<1>9. unref' \subseteq 1..MaxFrames
  BY <1>2, <1>4 DEF c
<1> QED
  BY <1>1, <1>7, <1>8, <1>9, Accounts, InvFrom

\* The queue is emptied for the next track.
LEMMA ResetOK == IInv /\ Reset => IInv' /\ FifoStep
<1> SUFFICES ASSUME IInv, Reset PROVE IInv' /\ FifoStep
  OBVIOUS
<1> DEFINE e == Emptied(queue, queue.count)
<1>1. /\ prod.pc = "idle" /\ queue.open /\ UNCHANGED <<prod, cons, seen>>
      /\ control' = control + 1 /\ control < MaxControl /\ control \in 0..MaxControl
      /\ unref' = unref \union Ids(Contents(queue))
      /\ Closed(queue) /\ queue \in Ring /\ queue.count \in Nat
      /\ queue' = [e EXCEPT !.head = 0, !.tail = 0, !.eof = FALSE, !.cancelled = FALSE]
  BY Accounts DEF Reset, Called, IInv, TypeOK
<1>2. e \in Ring /\ e.count = 0 /\ e.open = queue.open
  <2>1. queue.count \in 0..queue.count /\ queue.count - queue.count = 0
    BY <1>1
  <2>2. Closed(e) /\ e.count = queue.count - queue.count /\ e.open = queue.open
    BY <2>1, <1>1, EmptiedOK
  <2> QED
    BY <2>1, <2>2 DEF Closed
<1> HIDE DEF e
<1>3. /\ queue' \in Ring /\ queue'.count = 0 /\ queue'.head = 0 /\ queue'.tail = 0
      /\ queue'.eof = FALSE /\ queue'.cancelled = FALSE /\ queue'.open = TRUE
  <2>1. 0 \in Slots
    BY QueueConstants DEF Slots
  <2> QED
    BY <2>1, <1>1, <1>2 DEF Ring
<1>4. control' \in 0..MaxControl
  BY <1>1, QueueConstants
<1>5. IInv' /\ Contents(queue') = <<>>
  <2>1. queue'.head = queue'.tail /\ prod' = prod /\ cons' = cons /\ seen' = seen
    BY <1>1, <1>3
  <2> QED
    BY <2>1, <1>1, <1>3, <1>4, DrainOK
<1>6. Fifo!Reset
  BY <1>1, <1>3, <1>5 DEF Fifo!Reset, Place
<1> QED
  BY <1>5, <1>6 DEF FifoStep, Fifo!FifoNext

\* The queue is destroyed.
LEMMA DestroyOK == IInv /\ Destroy => IInv' /\ FifoStep
<1> SUFFICES ASSUME IInv, Destroy PROVE IInv' /\ FifoStep
  OBVIOUS
<1>1. /\ prod.pc = "idle" /\ cons.pc = "idle" /\ UNCHANGED <<prod, cons, seen, control>>
      /\ unref' = unref \union Ids(Contents(queue)) /\ control \in 0..MaxControl
      /\ queue \in Ring /\ queue.count \in 0..Capacity /\ queue.tail \in Slots
      /\ queue.head = (queue.tail + queue.count) % Capacity
      /\ queue' = [queue EXCEPT !.tail = (queue.tail + queue.count) % Capacity,
                               !.count = 0, !.open = FALSE]
  BY DEF Destroy, IInv, TypeOK, Closed, Ring
<1>2. /\ queue' \in Ring /\ queue'.count = 0 /\ queue'.head = queue.head
      /\ queue'.tail = queue.head /\ queue'.eof = queue.eof
      /\ queue'.cancelled = queue.cancelled
  <2>1. (queue.tail + queue.count) % Capacity \in Slots /\ 0 \in 0..Capacity
    BY <1>1, AroundIs, QueueConstants
  <2> QED
    BY <2>1, <1>1 DEF Ring
<1>3. IInv' /\ Contents(queue') = <<>>
  BY <1>1, <1>2, DrainOK
<1>4. Fifo!Destroy
  BY <1>1, <1>2, <1>3 DEF Fifo!Destroy, Place
<1> QED
  BY <1>3, <1>4 DEF FifoStep, Fifo!FifoNext

\* A thread wakes without a signal.
LEMMA SpuriousOK == IInv /\ Spurious => IInv' /\ FifoStep
<1> SUFFICES ASSUME IInv, Spurious PROVE IInv' /\ FifoStep
  OBVIOUS
<1>1. /\ UNCHANGED <<queue, unref, seen, control>> /\ Closed(queue)
      /\ prod \in Producer /\ cons \in Consumer /\ control \in 0..MaxControl
      /\ prod' = prod \/ prod' = Woken(prod)
      /\ cons' = cons \/ cons' = Woken(cons)
  BY Accounts DEF Spurious, IInv, TypeOK
<1>2. /\ cons' \in Consumer /\ cons'.got = cons.got /\ cons'.rc = cons.rc
      /\ (cons'.pc = "idle") <=> (cons.pc = "idle")
  BY <1>1 DEF Woken, Consumer
<1>3. /\ prod' \in Producer /\ prod'.frame = prod.frame /\ prod'.rc = prod.rc
      /\ (prod'.pc = "idle") <=> (prod.pc = "idle")
  BY <1>1 DEF Woken, Producer
<1>4. IInv'
  BY <1>1, <1>2, <1>3, QuietOK
<1>5. UNCHANGED Fifo!fifoVars
  BY <1>1, <1>2, <1>3 DEF Fifo!fifoVars, Place
<1> QED
  BY <1>4, <1>5 DEF FifoStep

\* Nothing changes.
LEMMA StutterOK == IInv /\ UNCHANGED vars => IInv' /\ FifoStep
<1> SUFFICES ASSUME IInv, UNCHANGED vars PROVE IInv' /\ FifoStep
  OBVIOUS
<1>1. /\ UNCHANGED <<queue, prod, cons, unref, seen, control>> /\ Closed(queue)
      /\ prod \in Producer /\ cons \in Consumer /\ control \in 0..MaxControl
  BY Accounts DEF vars, IInv, TypeOK
<1>2. IInv'
  BY <1>1, QuietOK
<1>3. UNCHANGED Fifo!fifoVars
  BY <1>1 DEF Fifo!fifoVars, Place
<1> QED
  BY <1>2, <1>3 DEF FifoStep

\* Every step keeps the invariant and is a step of the FIFO.
LEMMA NextOK == IInv /\ [Next]_vars => IInv' /\ FifoStep
BY CallPushOK, PushWaitOK, PushDoneOK, PushRefusedOK, CallPopOK, PopWaitOK, PopDoneOK,
   PopRefusedOK, SignalEofOK, CancelOK, ResetOK, DestroyOK, SpuriousOK, StutterOK
   DEF Next, ProducerStep, ConsumerStep

\* A queue that has just been created is an empty FIFO.
LEMMA InitOK == Init => IInv /\ Fifo!FifoInit
<1> SUFFICES ASSUME Init PROVE IInv /\ Fifo!FifoInit
  OBVIOUS
<1> USE QueueConstants
<1>1. /\ queue \in Ring /\ queue.count = 0 /\ queue.head = 0 /\ queue.tail = 0
      /\ queue.eof = FALSE /\ queue.cancelled = FALSE /\ queue.open
  <2>1. 0 \in Slots /\ 0 \in 0..Capacity
    BY DEF Slots
  <2> QED
    BY <2>1 DEF Init, Ring
<1>2. Closed(queue) /\ Contents(queue) = <<>>
  BY <1>1, EmptyOK
<1>3. prod.pc = "idle" /\ prod.frame = NULL /\ prod.frame.id = 0 /\ Held = {}
  BY DEF Init, NULL, Held
<1>4. TypeOK
  <2>1. <<>> \in Seq(Frame) /\ 0 \in 0..MaxControl
    OBVIOUS
  <2> QED
    BY <2>1, <1>1 DEF TypeOK, Init, Ring
<1>5. AccountInv
  <2>1. Ids(<<>>) = {} /\ Len(<<>>) = 0 /\ Distinct(<<>>)
    BY DEF Ids, Distinct
  <2>2. Cardinality({}) = 0
    BY FS_EmptySet
  <2>3. 1..0 = {}
    OBVIOUS
  <2>4. Balanced({}, <<>>, <<>>, {}, 0)
    BY <2>1, <2>2, <2>3 DEF Balanced
  <2> QED
    BY <2>4, <1>2, <1>3 DEF AccountInv, Init
<1>6. ThreadInv
  BY <1>1, <1>3 DEF ThreadInv
<1>7. Fifo!FifoInit
  BY <1>1, <1>2 DEF Init, Fifo!FifoInit, Place, NULL, Fifo!NoFrame
<1> QED
  BY <1>2, <1>4, <1>5, <1>6, <1>7 DEF IInv

----------------------------------------------------------------------------
(* The inductive invariant holds throughout.                               *)
THEOREM Invariance == Spec => []IInv
BY InitOK, NextOK, PTL DEF Spec

(* Every frame the producer made is in exactly one place, for every        *)
(* capacity, batch size and number of frames, through every wrap-around,   *)
(* refusal and reset, and none is left in a queue that is destroyed        *)
(* (frame_queue.c:173, 243, 306).                                          *)
THEOREM NoFrameLost == Spec => []FramesAccounted
<1>1. IInv => FramesAccounted
  <2> SUFFICES ASSUME IInv PROVE FramesAccounted
    OBVIOUS
  <2>1. Len(Contents(queue)) = queue.count
    BY Accounts
  <2>2. ~queue.open => Ids(Contents(queue)) = {}
    <3> SUFFICES ASSUME ~queue.open PROVE Ids(Contents(queue)) = {}
      OBVIOUS
    <3>1. queue.count = 0 /\ queue \in Ring
      BY Accounts DEF IInv, ThreadInv
    <3>2. DOMAIN Contents(queue) = {}
      BY <3>1, ContentsAt
    <3> QED
      BY <3>2 DEF Ids
  <2> QED
    BY <2>1, <2>2 DEF IInv, AccountInv, Balanced, FramesAccounted
<1> QED
  BY <1>1, Invariance, PTL

(* Every behaviour of the ring buffer starts as the FIFO of FrameFifo does *)
(* and takes only its steps: what leaves is what went in, in that order,   *)
(* in batches that end at a last frame.  This is the safety part of        *)
(* ImplementsFifo (frame_queue.c:144-236).                                 *)
THEOREM FifoSafety == Spec => Fifo!FifoInit /\ [][Fifo!FifoNext]_(Fifo!fifoVars)
<1>1. Init => Fifo!FifoInit
  BY InitOK
<1>2. IInv /\ [Next]_vars => [Fifo!FifoNext]_(Fifo!fifoVars)
  BY NextOK DEF FifoStep
<1> QED
  BY <1>1, <1>2, Invariance, PTL DEF Spec

(***************************************************************************)
(* THE FRAME READERS                                                       *)
(***************************************************************************)

----------------------------------------------------------------------------
(* The inductive invariant.                                                *)

\* The sector in which frame n starts.
Sector(n) == StartOf(disc, n)[1]

TypeInv ==
    /\ disc \in Discs
    /\ cache \in [num : Nat, lsn : Nat, valid : BOOLEAN, known : BOOLEAN]
    /\ cur \in Frames
    /\ res.status \in {"none", "ok", "error"} /\ res.n \in Frames
    /\ faults \in 0..MaxFaults

\* MaxSectors sectors from lsn on hold frame n.
Holds(lsn, n) ==
    /\ disc.start <= lsn /\ lsn <= Sector(n)
    /\ Sector(n) + disc.span[n] <= lsn + MaxSectors

\* The position that the reader remembers leads to the next frame.
CacheInv ==
    disc.format = "dst" /\ cache.valid /\ cache.known /\ cache.num + 1 \in Frames =>
        Holds(cache.lsn, cache.num + 1)

ReadIInv == TypeInv /\ CacheInv /\ FrameExact /\ EveryFrameReadable

----------------------------------------------------------------------------
(* The least of some numbers.                                              *)

LEMMA LeastOf ==
    ASSUME NEW B \in SUBSET Nat, NEW b \in B
    PROVE  Min(B) \in B /\ \A y \in B : Min(B) <= y
<1> DEFINE R == OpToRel(<, Nat)
<1>1. IsWellFoundedOn(R, Nat)
  BY NatLessThanWellFounded
<1>2. \A x, y \in Nat : x < y => <<x, y>> \in R
  BY DEF OpToRel
<1> HIDE DEF R
<1>3. PICK x \in B : \A y \in B : ~(<<y, x>> \in R)
  BY <1>1, WFMin
<1>4. \A y \in B : ~(y < x)
  BY <1>2, <1>3
<1>5. \A y \in B : x <= y
  BY <1>4
<1> QED
  BY <1>5 DEF Min

\* The least of two numbers, and of some numbers with a known least one.
LEMMA LeastOfTwo ==
    ASSUME NEW a \in Int, NEW b \in Int
    PROVE  Min({a, b}) = IF a <= b THEN a ELSE b
BY DEF Min

LEMMA LeastKnown ==
    ASSUME NEW B \in SUBSET Int, NEW b \in B, \A y \in B : b <= y
    PROVE  Min(B) = b
<1> DEFINE m == Min(B)
<1>1. m \in B /\ \A y \in B : m <= y
  BY Zenon DEF Min
<1> HIDE DEF m
<1>2. m <= b /\ b <= m /\ m \in Int
  BY <1>1
<1> QED
  BY <1>2 DEF m

LEMMA GreatestOfThree ==
    ASSUME NEW a \in Int, NEW b \in Int, NEW c \in Int
    PROVE  /\ Max({a, b, c}) \in {a, b, c}
           /\ Max({a, b, c}) >= a /\ Max({a, b, c}) >= b /\ Max({a, b, c}) >= c
<1>1. \E x \in {a, b, c} : \A y \in {a, b, c} : x >= y
  OBVIOUS
<1>2. Max({a, b, c}) \in {a, b, c} /\ \A y \in {a, b, c} : Max({a, b, c}) >= y
  BY <1>1, Zenon DEF Max
<1> QED
  BY <1>2

----------------------------------------------------------------------------
(* Places, in the order of the disc.                                       *)

LEMMA Order ==
    ASSUME NEW p \in Nat \X Nat, NEW q \in Nat \X Nat
    PROVE  /\ ~Before(p, p)
           /\ Before(p, q) \/ p = q \/ Before(q, p)
           /\ ~(Before(p, q) /\ Before(q, p))
<1>1. /\ p = <<p[1], p[2]>> /\ q = <<q[1], q[2]>>
      /\ p[1] \in Nat /\ p[2] \in Nat /\ q[1] \in Nat /\ q[2] \in Nat
  OBVIOUS
<1> QED
  BY <1>1 DEF Before

LEMMA FirstIs ==
    ASSUME NEW S \in SUBSET (Nat \X Nat), NEW p \in S, \A q \in S \ {p} : Before(p, q)
    PROVE  First(S) = p
<1> DEFINE f == First(S)
<1>1. f \in S /\ \A q \in S \ {f} : Before(f, q)
  BY Zenon DEF First
<1> HIDE DEF f
<1>2. ~(Before(p, f) /\ Before(f, p))
  BY <1>1, Order
<1> QED
  BY <1>1, <1>2 DEF f

----------------------------------------------------------------------------
(* The discs.                                                              *)

LEMMA DiscFacts ==
    ASSUME disc \in Discs
    PROVE  /\ disc.start \in Nat \ {0} /\ disc.end \in Nat /\ disc.last \in Nat
           /\ disc.start <= disc.end /\ disc.end <= disc.last
           /\ disc.total \in Nat \ {0} /\ disc.list.step \in Nat \ {0}
           /\ disc.list.margin \in Nat /\ disc.list.entries \in Seq(Nat)
           /\ disc.sectors \in [disc.start..disc.end -> Seq(Packet)]
           /\ MaxSectors \in Nat \ {0} /\ disc.format \in Formats
BY DiscsAssumption DEF DiscOK, DiscType

LEMMA PlaceFacts ==
    ASSUME disc \in Discs, NEW p \in Packets(disc)
    PROVE  /\ p = <<p[1], p[2]>> /\ p \in Nat \X Nat
           /\ p[1] \in disc.start..disc.end /\ p[2] \in DOMAIN disc.sectors[p[1]]
           /\ p[2] \in Nat \ {0}
           /\ PacketAt(disc, p).frame \in Int
           /\ PacketAt(disc, p).start \in BOOLEAN
<1>1. PICK l \in disc.start..disc.end : p \in {<<l, i>> : i \in DOMAIN disc.sectors[l]}
  BY DEF Packets
<1>2. PICK i \in DOMAIN disc.sectors[l] : p = <<l, i>>
  BY <1>1
<1>3. l \in Nat /\ disc.sectors[l] \in Seq(Packet)
  BY DiscFacts
<1> DEFINE s == disc.sectors[l]
<1> HIDE DEF s
<1>a. s \in Seq(Packet) /\ i \in DOMAIN s
  BY <1>2, <1>3 DEF s
<1>4. i \in Nat \ {0} /\ s[i] \in Packet
  BY <1>a
<1>5. PacketAt(disc, p).frame \in Int /\ PacketAt(disc, p).start \in BOOLEAN
  BY <1>2, <1>4 DEF PacketAt, Packet, s
<1> QED
  BY <1>1, <1>2, <1>3, <1>4, <1>5

\* The other way round.
LEMMA PlaceIs ==
    ASSUME NEW l \in disc.start..disc.end, NEW i \in DOMAIN disc.sectors[l]
    PROVE  <<l, i>> \in Packets(disc) /\ PacketAt(disc, <<l, i>>) = disc.sectors[l][i]
BY DEF Packets, PacketAt

LEMMA Area ==
    ASSUME disc \in Discs, disc.format = "dst"
    PROVE  DstArea(disc) /\ (disc.input = "file" => DstReadable(disc))
BY DiscsAssumption DEF DiscOK

\* Where a frame starts.
LEMMA StartIs ==
    ASSUME disc \in Discs, disc.format = "dst", NEW n \in Frames
    PROVE  /\ StartOf(disc, n) \in FrameStarts(disc) /\ StartOf(disc, n) \in FramePackets(disc)
           /\ StartOf(disc, n) \in Packets(disc)
           /\ PacketAt(disc, StartOf(disc, n)).start
           /\ PacketAt(disc, StartOf(disc, n)).frame = n
           /\ PacketAt(disc, StartOf(disc, n)).kind = "audio"
           /\ Sector(n) \in disc.start..disc.end /\ Sector(n) \in Nat
           /\ disc.span[n] \in 1..MaxSectors /\ disc.span[n] \in Nat
<1> DEFINE p == StartOf(disc, n)
<1>1. \E q \in FrameStarts(disc) : PacketAt(disc, q).frame = n
  BY Area DEF DstArea, Frames
<1>2. p \in FrameStarts(disc) /\ PacketAt(disc, p).frame = n
  BY <1>1, Zenon DEF StartOf
<1> HIDE DEF p
<1>3. p \in Packets(disc) /\ PacketAt(disc, p).start /\ PacketAt(disc, p).kind = "audio"
  BY <1>2, Area DEF DstArea, FrameStarts
<1>4. p \in FramePackets(disc)
  BY <1>3 DEF FramePackets, Kinds
<1>5. p[1] \in disc.start..disc.end /\ p[1] \in Nat
  BY <1>3, PlaceFacts, DiscFacts
<1>6. disc.span[n] \in 1..MaxSectors /\ disc.span[n] \in Nat
  BY Area, DiscFacts DEF DstArea, Frames
<1> QED
  BY <1>2, <1>3, <1>4, <1>5, <1>6 DEF p, Sector

\* Packets of frames lie in the order of the frames, within their sectors.
LEMMA PacketIs ==
    ASSUME disc \in Discs, disc.format = "dst", NEW p \in FramePackets(disc)
    PROVE  /\ p \in Packets(disc) /\ PacketAt(disc, p).frame \in Frames
           /\ p[1] \in Sector(PacketAt(disc, p).frame) ..
                       (Sector(PacketAt(disc, p).frame) + disc.span[PacketAt(disc, p).frame] - 1)
           /\ \A q \in FrameStarts(disc) :
                 Before(p, q) <=> PacketAt(disc, p).frame < PacketAt(disc, q).frame
BY Area DEF DstArea, Frames, FramePackets, SectorsOf, Sector

\* Where a packet that starts a frame is.
LEMMA StartUnique ==
    ASSUME disc \in Discs, disc.format = "dst", NEW p \in FrameStarts(disc)
    PROVE  /\ PacketAt(disc, p).frame \in Frames
           /\ p = StartOf(disc, PacketAt(disc, p).frame)
<1> DEFINE n == PacketAt(disc, p).frame
           q == StartOf(disc, n)
<1>1. p \in FramePackets(disc) /\ p \in Packets(disc)
  BY Area DEF DstArea, FrameStarts, FramePackets, Kinds
<1>2. n \in Frames
  BY <1>1, PacketIs
<1>3. q \in FrameStarts(disc) /\ q \in FramePackets(disc) /\ q \in Packets(disc)
      /\ PacketAt(disc, q).frame = n
  BY <1>2, StartIs
<1>4. n \in Int
  BY <1>1, PlaceFacts
<1>5. ~Before(p, q) /\ ~Before(q, p)
  BY <1>1, <1>3, <1>4, PacketIs
<1>6. p \in Nat \X Nat /\ q \in Nat \X Nat
  BY <1>1, <1>3, PlaceFacts
<1> HIDE DEF n, q
<1> QED
  BY <1>2, <1>5, <1>6, Order DEF n, q

LEMMA OfFrame ==
    ASSUME disc \in Discs, disc.format = "dst", NEW p \in FramePackets(disc), NEW n \in Frames
    PROVE  /\ Before(p, StartOf(disc, n)) <=> PacketAt(disc, p).frame < n
           /\ PacketAt(disc, p).frame \in Int /\ n \in Int
<1>1. p \in Packets(disc)
  BY PacketIs
<1>2. StartOf(disc, n) \in FrameStarts(disc) /\ PacketAt(disc, StartOf(disc, n)).frame = n
  BY StartIs
<1>3. n \in Int
  BY DiscFacts DEF Frames
<1> QED
  BY <1>1, <1>2, <1>3, PacketIs, PlaceFacts

----------------------------------------------------------------------------
(* Finding a frame.                                                        *)

LEMMA Division ==
    ASSUME NEW a \in Nat, NEW d \in Nat \ {0}
    PROVE  a \div d \in Nat /\ a % d \in 0..(d - 1) /\ a = (a \div d) * d + (a % d)
OBVIOUS

LEMMA NextMultiple ==
    ASSUME NEW a \in Nat, NEW d \in Nat \ {0}
    PROVE  a \div d \in Nat /\ a % d \in Nat /\ a < (a \div d + 1) * d
<1> DEFINE q == a \div d
           r == a % d
<1>1. q \in Nat /\ r \in 0..(d - 1) /\ a = q * d + r
  BY Division
<1> HIDE DEF q, r
<1>2. (q + 1) * d = q * d + d
  BY <1>1
<1> DEFINE x == q * d
<1>3. x \in Int /\ a = x + r /\ (q + 1) * d = x + d
  BY <1>1, <1>2
<1> HIDE DEF x
<1>4. r \in Nat /\ r < d
  BY <1>1
<1> QED
  BY <1>1, <1>3, <1>4 DEF q, r

\* The range of the access list lies in the area; a range from its start on
\* has the frame, if the entries are exact or late.
LEMMA RangeIs ==
    ASSUME disc \in Discs, disc.format = "dst", NEW n \in Frames
    PROVE  LET range == AccessListRange(n)
           IN  /\ range[1] \in Int /\ range[2] \in Int
               /\ disc.start <= range[1] /\ range[2] <= disc.end
               /\ disc.input = "file" /\ range[1] = disc.start => Sector(n) <= range[2]
<1> DEFINE list == disc.list
           len == Len(list.entries)
           k == EntryIndex(n, list)
           entry == list.entries[k + 1]
           isLast == k + 1 = len
           next == IF isLast THEN disc.end ELSE list.entries[k + 2]
           parts == IF isLast THEN disc.total - k * list.step ELSE list.step
           guess == IF parts > 0
                    THEN entry + ((n % list.step) * (next - entry)) \div parts
                    ELSE entry
           from == IF guess > list.margin THEN guess - list.margin ELSE entry
<1>1. /\ disc.start \in Nat /\ disc.end \in Nat /\ disc.start <= disc.end
      /\ list.step \in Nat \ {0} /\ list.margin \in Nat /\ list.entries \in Seq(Nat)
      /\ disc.total \in Nat /\ n \in Nat /\ n < disc.total
      /\ Sector(n) \in Nat /\ disc.start <= Sector(n) /\ Sector(n) <= disc.end
  <2>1. Sector(n) \in Nat /\ Sector(n) \in disc.start..disc.end
    BY StartIs
  <2>2. n \in 0..(disc.total - 1)
    BY DEF Frames
  <2> QED
    BY <2>1, <2>2, DiscFacts
<1>2. AccessListRange(n) = IF list.entries = <<>> THEN <<disc.start, disc.end>>
                           ELSE <<Max({from, entry, disc.start}), Min({next, disc.end})>>
  BY DEF AccessListRange
<1>3. CASE list.entries = <<>>
  BY <1>1, <1>2, <1>3
<1>4. CASE list.entries # <<>>
  <2> HIDE DEF list
  <2>1. len \in Nat \ {0} /\ \A j \in 1..len : list.entries[j] \in Nat
    <3> DEFINE e == list.entries
    <3>1. e \in Seq(Nat) /\ e # <<>>
      BY <1>1, <1>4
    <3> HIDE DEF e
    <3>2. Len(e) \in Nat \ {0} /\ \A j \in 1..Len(e) : e[j] \in Nat
      BY ONLY <3>1
    <3> QED
      BY <3>2 DEF e
  <2>2. n \div list.step \in Nat /\ n % list.step \in Nat
        /\ n < (n \div list.step + 1) * list.step
    BY <1>1, NextMultiple
  <2>3. k \in Nat /\ k <= len - 1 /\ (k # len - 1 => k = n \div list.step)
    BY <2>1, <2>2, LeastOfTwo DEF EntryIndex
  <2> HIDE DEF k, len
  <2>4. entry \in Nat /\ next \in Nat
    BY <1>1, <2>1, <2>3
  <2> HIDE DEF entry, next
  <2>5. parts \in Int
    BY <1>1, <2>3
  <2> HIDE DEF parts
  <2>6. guess \in Int
    <3>1. (n % list.step) * (next - entry) \in Int
      BY <2>2, <2>4
    <3> DEFINE x == (n % list.step) * (next - entry)
    <3> HIDE DEF x
    <3>2. x \in Int
      BY <3>1 DEF x
    <3>3. parts > 0 => x \div parts \in Int
      BY <2>5, <3>2
    <3> QED
      BY <2>4, <3>3 DEF x
  <2> HIDE DEF guess
  <2>7. from \in Int
    BY <1>1, <2>4, <2>6
  <2> HIDE DEF from
  <2> DEFINE lo == Max({from, entry, disc.start})
             hi == Min({next, disc.end})
  <2>8. lo \in Int /\ disc.start <= lo
    <3>1. from \in Int /\ entry \in Int /\ disc.start \in Int
      BY <1>1, <2>4, <2>7
    <3>2. lo \in {from, entry, disc.start} /\ lo >= disc.start
      BY ONLY <3>1, GreatestOfThree
    <3> HIDE DEF lo
    <3> QED
      BY <3>1, <3>2
  <2>9. hi = IF next <= disc.end THEN next ELSE disc.end
    <3>1. next \in Int /\ disc.end \in Int
      BY <1>1, <2>4
    <3> QED
      BY ONLY <3>1, LeastOfTwo
  <2>10. AccessListRange(n) = <<lo, hi>>
    BY <1>2, <1>4
  <2> HIDE DEF lo, hi
  <2>11. ASSUME disc.input = "file" PROVE Sector(n) <= next
    <3>1. CASE isLast
      BY <1>1, <3>1 DEF next
    <3>2. CASE ~isLast
      <4>1. k + 2 \in 1..len /\ next = list.entries[k + 2] /\ k = n \div list.step
        BY <2>1, <2>3, <3>2 DEF next
      <4>2. n < ((k + 2) - 1) * list.step
        <5>1. (k + 2) - 1 = n \div list.step + 1
          BY <2>3, <4>1
        <5> QED
          BY <2>2, <5>1
      <4>3. \A j \in DOMAIN list.entries :
               n < (j - 1) * list.step => Sector(n) <= list.entries[j]
        BY <2>11, Area DEF DstReadable, Frames, Sector, list
      <4>4. k + 2 \in DOMAIN list.entries
        BY <1>1, <4>1 DEF len
      <4> QED
        BY <4>1, <4>2, <4>3, <4>4
    <3> QED
      BY <3>1, <3>2
  <2> QED
    BY <1>1, <2>4, <2>8, <2>9, <2>10, <2>11
<1> QED
  BY <1>3, <1>4

\* find_dst_frame reports the start of the frame or nothing, and reports it if
\* it is in the range.
LEMMA FindIs ==
    ASSUME disc \in Discs, disc.format = "dst", NEW n \in Frames, NEW range,
           range[1] \in Int, range[2] \in Int,
           disc.start <= range[1], range[2] <= disc.end
    PROVE  /\ FindDstFrame(range, n) \in {None, Sector(n)}
           /\ range[1] <= Sector(n) /\ Sector(n) <= range[2] =>
                 FindDstFrame(range, n) = Sector(n)
<1> DEFINE later(l) == {j \in Starts(l) : disc.sectors[l][j].frame >= n}
           hits == {l \in range[1]..range[2] :
                       \E i \in Starts(l) : disc.sectors[l][i].frame >= n}
           m == Min(hits)
           i == Min(later(m))
           p == StartOf(disc, n)
<1>1. FindDstFrame(range, n) =
         IF hits # {} /\ disc.sectors[m][i].frame = n THEN m ELSE None
  BY DEF FindDstFrame
<1>2. /\ disc.start \in Nat /\ disc.end \in Nat
      /\ \A l \in range[1]..range[2] : l \in disc.start..disc.end /\ l \in Nat
  BY DiscFacts
<1>3. \A l \in disc.start..disc.end : \A j \in later(l) :
         /\ j \in DOMAIN disc.sectors[l] /\ <<l, j>> \in FrameStarts(disc)
         /\ PacketAt(disc, <<l, j>>) = disc.sectors[l][j] /\ disc.sectors[l][j].frame >= n
  BY PlaceIs DEF Starts, FrameStarts
<1>4. \A l \in disc.start..disc.end : \A j \in later(l) : j \in Nat
  BY <1>3, PlaceFacts DEF FrameStarts
<1>5. \A l \in hits : l \in disc.start..disc.end /\ l \in Nat /\ later(l) # {}
  BY <1>2
<1>6. ASSUME hits # {}
      PROVE  m \in hits /\ (\A l \in hits : m <= l) /\ i \in later(m) /\ \A j \in later(m) : i <= j
  <2>1. m \in hits /\ \A l \in hits : m <= l
    <3>1. hits \in SUBSET Nat
      BY <1>5
    <3> HIDE DEF hits
    <3> QED
      BY <1>6, <3>1, LeastOf
  <2>2. later(m) # {} /\ later(m) \in SUBSET Nat
    BY <1>4, <1>5, <2>1
  <2> HIDE DEF later, m
  <2>3. i \in later(m) /\ \A j \in later(m) : i <= j
    BY <2>2, LeastOf
  <2> QED
    BY <2>1, <2>3
<1>7. p \in FrameStarts(disc) /\ p \in FramePackets(disc) /\ p \in Packets(disc)
      /\ PacketAt(disc, p).frame = n /\ Sector(n) = p[1]
  BY StartIs DEF Sector
<1>8. FindDstFrame(range, n) \in {None, Sector(n)}
  <2> SUFFICES ASSUME hits # {}, disc.sectors[m][i].frame = n PROVE m = Sector(n)
    BY <1>1
  <2>1. m \in disc.start..disc.end /\ i \in later(m)
    BY <1>5, <1>6
  <2>2. <<m, i>> \in FrameStarts(disc) /\ PacketAt(disc, <<m, i>>).frame = n
    BY <1>3, <2>1
  <2> HIDE DEF m, i
  <2>3. <<m, i>> = p
    BY <2>2, StartUnique
  <2> QED
    BY <1>7, <2>3
<1>9. ASSUME range[1] <= Sector(n), Sector(n) <= range[2]
      PROVE  FindDstFrame(range, n) = Sector(n)
  <2>1. /\ p = <<p[1], p[2]>> /\ p[2] \in DOMAIN disc.sectors[p[1]] /\ p[1] \in Nat
        /\ p[2] \in Nat /\ p[1] \in disc.start..disc.end
    BY <1>7, PlaceFacts, DiscFacts
  <2>2. disc.sectors[p[1]][p[2]].frame = n /\ disc.sectors[p[1]][p[2]].start
    BY <1>7 DEF PacketAt, FrameStarts
  <2>3. p[2] \in later(p[1]) /\ n \in Int
    <3>1. n \in Int
      BY DiscFacts DEF Frames
    <3>2. p[2] \in Starts(p[1])
      BY <2>1, <2>2 DEF Starts
    <3> QED
      BY <2>2, <3>1, <3>2
  <2>4. p[1] \in hits
    BY <1>7, <1>9, <2>1, <2>3
  <2>5. ASSUME NEW l \in hits, NEW j \in later(l)
        PROVE  p[1] < l \/ (p[1] = l /\ p[2] <= j)
    <3>1. l \in disc.start..disc.end /\ l \in Nat /\ j \in Nat
      BY <1>4, <1>5
    <3>2. <<l, j>> \in FrameStarts(disc) /\ PacketAt(disc, <<l, j>>).frame >= n
      BY <1>3, <3>1
    <3>3. <<l, j>> \in FramePackets(disc)
      BY <3>2, Area DEF DstArea, FrameStarts, FramePackets, Kinds
    <3>4. ~Before(<<l, j>>, p)
      <4> DEFINE r == <<l, j>>
                 f == PacketAt(disc, r).frame
      <4>1. r \in FramePackets(disc) /\ f >= n
        BY <3>2, <3>3
      <4> HIDE DEF r
      <4>2. Before(r, StartOf(disc, n)) <=> f < n
        BY <4>1, OfFrame
      <4>3. f \in Int /\ n \in Int
        BY <4>1, OfFrame
      <4> QED
        BY <4>1, <4>2, <4>3 DEF r
    <3>5. ~(l < p[1]) /\ ~(l = p[1] /\ j < p[2])
      BY <3>4 DEF Before
    <3>6. l \in Nat /\ j \in Nat /\ p[1] \in Nat /\ p[2] \in Nat
      BY <2>1, <3>1
    <3> HIDE DEF p
    <3> QED
      BY ONLY <3>5, <3>6
  <2>6. m = p[1]
    <3>1. m \in hits /\ m <= p[1] /\ m \in Nat
      BY <1>5, <1>6, <2>4
    <3>2. i \in later(m)
      BY <1>6, <2>4
    <3>3. p[1] < m \/ p[1] = m
      BY <2>5, <3>1, <3>2
    <3> HIDE DEF m, p
    <3> QED
      BY <2>1, <3>1, <3>3
  <2>7. i = p[2]
    <3>1. i \in later(p[1]) /\ i <= p[2] /\ i \in Nat
      BY <1>4, <1>6, <2>1, <2>3, <2>4, <2>6
    <3>2. p[1] < p[1] \/ (p[1] = p[1] /\ p[2] <= i)
      BY <2>4, <2>5, <3>1
    <3> HIDE DEF i, p
    <3> QED
      BY <2>1, <3>1, <3>2
  <2> HIDE DEF m, i, hits
  <2> QED
    BY <1>1, <1>7, <2>2, <2>4, <2>6, <2>7
<1> QED
  BY <1>8, <1>9

\* dst_sector_seek
LEMMA SeekIs ==
    ASSUME disc \in Discs, disc.format = "dst", NEW n \in Frames
    PROVE  /\ DstSectorSeek(n) \in {None, Sector(n)}
           /\ disc.input = "file" => DstSectorSeek(n) = Sector(n)
<1> DEFINE range == AccessListRange(n)
           all == <<disc.start, disc.end>>
<1>1. /\ range[1] \in Int /\ range[2] \in Int
      /\ disc.start <= range[1] /\ range[2] <= disc.end
      /\ disc.input = "file" /\ range[1] = disc.start => Sector(n) <= range[2]
  BY RangeIs
<1>2. /\ all[1] = disc.start /\ all[2] = disc.end
      /\ disc.start \in Nat /\ disc.end \in Nat
      /\ disc.start <= Sector(n) /\ Sector(n) <= disc.end
      /\ Sector(n) \in Nat /\ Sector(n) # None
  BY DiscFacts, StartIs, NoneAssumption
<1> HIDE DEF range, all
<1>3. /\ FindDstFrame(range, n) \in {None, Sector(n)}
      /\ range[1] <= Sector(n) /\ Sector(n) <= range[2] =>
            FindDstFrame(range, n) = Sector(n)
  BY <1>1, FindIs
<1>4. FindDstFrame(all, n) = Sector(n)
  BY <1>2, FindIs
<1>5. DstSectorSeek(n) = IF FallsBack(range, FindDstFrame(range, n)) THEN FindDstFrame(all, n)
                         ELSE FindDstFrame(range, n)
  BY DEF DstSectorSeek, range, all
<1> QED
  BY <1>1, <1>2, <1>3, <1>4, <1>5 DEF FallsBack

----------------------------------------------------------------------------
(* Reading a frame: got sectors from lsn on have all of frame n.           *)

Covers(lsn, got, n) ==
    /\ disc.start <= lsn /\ lsn <= Sector(n)
    /\ Sector(n) + disc.span[n] <= lsn + got \/ disc.end < lsn + got

Upto(lsn, got) == Min({lsn + got - 1, disc.end})
Here(lsn, got) == Places(lsn .. Upto(lsn, got))

\* The frames that start after frame n in the sectors read.
Later(lsn, got, n) ==
    {p \in Here(lsn, got) : PacketAt(disc, p).start /\ Before(StartOf(disc, n), p)}

LEMMA HereIs ==
    ASSUME disc \in Discs, disc.format = "dst", NEW n \in Frames,
           NEW lsn \in Nat, NEW got \in Nat \ {0}, Covers(lsn, got, n)
    PROVE  /\ Upto(lsn, got) \in Nat /\ Upto(lsn, got) <= disc.end
           /\ Sector(n) <= Upto(lsn, got)
           /\ \A l \in Nat : l < Sector(n) + disc.span[n] /\ l <= disc.end => l <= Upto(lsn, got)
           /\ Here(lsn, got) =
                 {p \in Packets(disc) : lsn <= p[1] /\ p[1] <= Upto(lsn, got)}
<1> DEFINE u == Upto(lsn, got)
<1>1. /\ disc.start \in Nat /\ disc.end \in Nat /\ Sector(n) \in Nat /\ Sector(n) <= disc.end
      /\ disc.span[n] \in Nat /\ disc.span[n] >= 1
  <2>1. Sector(n) \in disc.start..disc.end /\ disc.span[n] \in 1..MaxSectors
    BY StartIs
  <2> QED
    BY <2>1, DiscFacts
<1>2. u = IF lsn + got - 1 <= disc.end THEN lsn + got - 1 ELSE disc.end
  BY <1>1, LeastOfTwo DEF Upto
<1> HIDE DEF u
<1>3. disc.start <= lsn /\ lsn <= Sector(n)
      /\ (Sector(n) + disc.span[n] <= lsn + got \/ disc.end < lsn + got)
  BY DEF Covers
<1> DEFINE s == Sector(n)
           k == disc.span[n]
           e == disc.end
<1>4. /\ u \in Nat /\ u <= e /\ s <= u
      /\ \A l \in Nat : l < s + k /\ l <= e => l <= u
  <2> HIDE DEF s, k, e
  <2> QED
    BY <1>1, <1>2, <1>3 DEF s, k, e
<1>5. Here(lsn, got) = {p \in Packets(disc) : lsn <= p[1] /\ p[1] <= u}
  <2>1. Here(lsn, got) = UNION {{<<l, i>> : i \in DOMAIN disc.sectors[l]} : l \in lsn..u}
    BY DEF Here, Places, u
  <2>2. \A l \in lsn..u : l \in disc.start..disc.end /\ l \in Nat
    BY <1>1, <1>3, <1>4
  <2>3. ASSUME NEW p \in Here(lsn, got)
        PROVE  p \in Packets(disc) /\ lsn <= p[1] /\ p[1] <= u
    <3>1. PICK l \in lsn..u : p \in {<<l, i>> : i \in DOMAIN disc.sectors[l]}
      BY <2>1, <2>3
    <3>2. PICK i \in DOMAIN disc.sectors[l] : p = <<l, i>>
      BY <3>1
    <3>3. p[1] = l /\ l \in disc.start..disc.end
      BY <2>2, <3>2
    <3> QED
      BY <3>2, <3>3, PlaceIs
  <2>4. ASSUME NEW p \in Packets(disc), lsn <= p[1], p[1] <= u
        PROVE  p \in Here(lsn, got)
    <3>1. p = <<p[1], p[2]>> /\ p[1] \in Nat /\ p[2] \in DOMAIN disc.sectors[p[1]]
      BY PlaceFacts
    <3>2. p[1] \in lsn..u
      BY <1>4, <2>4, <3>1
    <3>3. p \in {<<p[1], i>> : i \in DOMAIN disc.sectors[p[1]]}
      BY <3>1
    <3> QED
      BY <2>1, <3>2, <3>3
  <2> QED
    BY <2>3, <2>4
<1> QED
  BY <1>4, <1>5 DEF u

\* A frame after frame n that starts in the sectors read.
LEMMA StartLater ==
    ASSUME disc \in Discs, disc.format = "dst", NEW n \in Frames,
           NEW lsn \in Nat, NEW got \in Nat \ {0}, Covers(lsn, got, n),
           NEW m \in Frames, n < m, Sector(m) <= Upto(lsn, got)
    PROVE  StartOf(disc, m) \in Later(lsn, got, n)
<1> DEFINE b == StartOf(disc, n)
           s == StartOf(disc, m)
<1>1. /\ b \in FramePackets(disc) /\ b \in Packets(disc) /\ PacketAt(disc, b).frame = n
      /\ b[1] = Sector(n)
  BY StartIs DEF Sector
<1>2. /\ s \in FrameStarts(disc) /\ s \in Packets(disc) /\ PacketAt(disc, s).start
      /\ s[1] = Sector(m)
  BY StartIs DEF Sector
<1>3. Before(b, s)
  BY <1>1, OfFrame
<1> HIDE DEF b, s
<1>4. b[1] \in Nat /\ s[1] \in Nat
  BY <1>1, <1>2, PlaceFacts
<1>5. b[1] <= s[1]
  BY <1>3, <1>4 DEF Before
<1>6. lsn <= s[1] /\ s[1] <= Upto(lsn, got)
  BY <1>1, <1>2, <1>4, <1>5 DEF Covers
<1>7. s \in Here(lsn, got)
  BY <1>2, <1>6, HereIs
<1> QED
  BY <1>2, <1>3, <1>7 DEF Later, b, s

LEMMA LaterIs ==
    ASSUME disc \in Discs, disc.format = "dst", NEW n \in Frames,
           NEW lsn \in Nat, NEW got \in Nat \ {0}, Covers(lsn, got, n)
    PROVE  /\ Later(lsn, got, n) # {} =>
                 /\ n + 1 \in Frames
                 /\ StartOf(disc, n + 1) \in Later(lsn, got, n)
                 /\ First(Later(lsn, got, n)) = StartOf(disc, n + 1)
                 /\ StartOf(disc, n + 1) \in Nat \X Nat
           /\ n + 1 \in Frames /\ Later(lsn, got, n) = {} => Upto(lsn, got) < Sector(n + 1)
<1> DEFINE S == Later(lsn, got, n)
           b == StartOf(disc, n)
           s == StartOf(disc, n + 1)
           u == Upto(lsn, got)
<1>1. n \in Nat /\ n < n + 1 /\ u \in Nat
  BY DiscFacts, HereIs DEF Frames
<1>2. \A p \in S : /\ p \in Packets(disc) /\ p[1] <= u /\ p \in FrameStarts(disc)
                   /\ Before(b, p)
  BY HereIs DEF Later, FrameStarts
<1>3. ASSUME NEW p \in S
      PROVE  /\ PacketAt(disc, p).frame \in Frames /\ PacketAt(disc, p).frame >= n + 1
             /\ p \in FramePackets(disc)
  <2>1. PacketAt(disc, p).frame \in Frames /\ p \in FramePackets(disc)
    BY <1>2, StartUnique, Area DEF DstArea, FrameStarts, FramePackets, Kinds
  <2>2. b \in FramePackets(disc) /\ PacketAt(disc, b).frame = n
    BY StartIs
  <2>3. n < PacketAt(disc, p).frame
    BY <1>2, <2>2, PacketIs
  <2>4. PacketAt(disc, p).frame \in Int
    BY <1>2, PlaceFacts
  <2> QED
    BY <1>1, <2>1, <2>3, <2>4
<1>4. ASSUME S # {}
      PROVE  n + 1 \in Frames /\ s \in S /\ First(S) = s /\ s \in Nat \X Nat
  <2>1. PICK p \in S : TRUE
    BY <1>4
  <2>2. n + 1 \in Frames
    <3> DEFINE f == PacketAt(disc, p).frame
    <3>1. f \in Frames /\ f >= n + 1
      BY <1>3
    <3> HIDE DEF f
    <3>2. f \in Int /\ f <= disc.total - 1 /\ disc.total \in Nat
      BY <3>1, DiscFacts DEF Frames
    <3>3. n + 1 \in 0..(disc.total - 1)
      BY <1>1, <3>1, <3>2
    <3> QED
      BY <3>3 DEF Frames
  <2>3. s \in Packets(disc) /\ s \in Nat \X Nat /\ s[1] = Sector(n + 1)
    BY <2>2, StartIs, PlaceFacts DEF Sector
  <2>4. ASSUME NEW q \in S PROVE q = s \/ Before(s, q)
    <3>1. q \in FramePackets(disc) /\ PacketAt(disc, q).frame >= n + 1
      BY <1>3
    <3>2. ~Before(q, s)
      <4>1. Before(q, s) <=> PacketAt(disc, q).frame < n + 1
        BY <2>2, <3>1, OfFrame
      <4>2. PacketAt(disc, q).frame \in Int
        BY <1>2, PlaceFacts
      <4> QED
        BY <1>1, <3>1, <4>1, <4>2
    <3>3. q \in Nat \X Nat
      BY <1>2, PlaceFacts
    <3> QED
      BY <2>3, <3>2, <3>3, Order
  <2>5. s \in S
    <3>1. s[1] <= p[1]
      <4>1. p = s \/ Before(s, p)
        BY <2>4
      <4>2. p[1] \in Nat /\ s[1] \in Nat
        BY <1>2, <2>3, PlaceFacts
      <4> HIDE DEF s
      <4> QED
        BY <4>1, <4>2 DEF Before
    <3>2. p[1] <= u /\ p[1] \in Nat /\ s[1] \in Nat
      BY <1>2, <2>3, PlaceFacts
    <3>3. Sector(n + 1) <= u
      <4> HIDE DEF s, u
      <4> QED
        BY <1>1, <2>3, <3>1, <3>2
    <3> QED
      BY <1>1, <2>2, <3>3, StartLater
  <2>6. S \in SUBSET (Nat \X Nat)
    BY <1>2, PlaceFacts
  <2> HIDE DEF S, s
  <2>7. First(S) = s
    BY <2>4, <2>5, <2>6, FirstIs
  <2> QED
    BY <2>2, <2>3, <2>5, <2>7
<1>5. ASSUME n + 1 \in Frames, S = {} PROVE u < Sector(n + 1)
  <2>1. Sector(n + 1) \in Nat
    BY <1>5, StartIs
  <2>2. ~(Sector(n + 1) <= u)
    BY <1>1, <1>5, StartLater
  <2> HIDE DEF u
  <2> QED
    BY <1>1, <2>1, <2>2
<1> QED
  BY <1>4, <1>5

\* The packets of a kind that the loop takes: those of the frame.
Wanted(lsn, got, n, kind) ==
    {p \in Here(lsn, got) :
        /\ PacketAt(disc, p).kind = kind /\ ~Before(p, StartOf(disc, n))
        /\ Later(lsn, got, n) # {} => Before(p, StartOf(disc, n + 1))}

LEMMA PlacesAre ==
    ASSUME NEW n, NEW kind
    PROVE  PlacesOf(n, kind) =
              {p \in Packets(disc) : PacketAt(disc, p).frame = n /\ PacketAt(disc, p).kind = kind}
<1>1. Places(disc.start..disc.end) = Packets(disc)
  BY DEF Places, Packets
<1> QED
  BY <1>1 DEF PlacesOf, PacketAt

LEMMA WantedIs ==
    ASSUME disc \in Discs, disc.format = "dst", NEW n \in Frames, NEW kind \in Kinds,
           NEW lsn \in Nat, NEW got \in Nat \ {0}, Covers(lsn, got, n)
    PROVE  Wanted(lsn, got, n, kind) = PlacesOf(n, kind)
<1> DEFINE b == StartOf(disc, n)
           L == Later(lsn, got, n)
           u == Upto(lsn, got)
<1>1. n \in Nat /\ u \in Nat /\ \A p \in Here(lsn, got) : p \in Packets(disc) /\ lsn <= p[1] /\ p[1] <= u
  BY DiscFacts, HereIs DEF Frames
<1>2. ASSUME NEW p \in Wanted(lsn, got, n, kind) PROVE p \in PlacesOf(n, kind)
  <2> DEFINE m == PacketAt(disc, p).frame
  <2>1. /\ p \in Here(lsn, got) /\ p \in Packets(disc) /\ p[1] <= u
        /\ PacketAt(disc, p).kind = kind /\ ~Before(p, b)
        /\ L # {} => Before(p, StartOf(disc, n + 1))
    BY <1>1 DEF Wanted
  <2>2. p \in FramePackets(disc)
    BY <2>1 DEF FramePackets
  <2>3. m \in Frames /\ m \in Int
    BY <2>1, <2>2, PacketIs, PlaceFacts
  <2>4. ~(m < n)
    BY <2>1, <2>2, OfFrame
  <2>5. ASSUME n < m PROVE FALSE
    <3>1. CASE L # {}
      <4>1. n + 1 \in Frames
        BY <3>1, LaterIs
      <4>2. m < n + 1
        BY <2>1, <2>2, <3>1, <4>1, OfFrame
      <4> HIDE DEF m
      <4> QED
        BY <1>1, <2>3, <2>5, <4>2
    <3>2. CASE L = {}
      <4>1. Sector(m) <= p[1] /\ Sector(m) \in Nat /\ p[1] \in Nat
        <5>1. p[1] \in Sector(m) .. (Sector(m) + disc.span[m] - 1)
          BY <2>2, PacketIs
        <5>2. Sector(m) \in Nat /\ disc.span[m] \in Nat /\ p[1] \in Nat
          BY <2>1, <2>3, StartIs, PlaceFacts
        <5> QED
          BY <5>1, <5>2
      <4>2. Sector(m) <= u
        <5> HIDE DEF m, u
        <5> QED
          BY <1>1, <2>1, <4>1
      <4> QED
        BY <2>3, <2>5, <3>2, <4>2, StartLater
    <3> QED
      BY <3>1, <3>2
  <2>6. m = n
    <3> HIDE DEF m
    <3> QED
      BY <1>1, <2>3, <2>4, <2>5
  <2> QED
    BY <2>1, <2>6, PlacesAre
<1>3. ASSUME NEW p \in PlacesOf(n, kind) PROVE p \in Wanted(lsn, got, n, kind)
  <2>1. p \in Packets(disc) /\ PacketAt(disc, p).frame = n /\ PacketAt(disc, p).kind = kind
    BY PlacesAre
  <2>2. p \in FramePackets(disc)
    BY <2>1 DEF FramePackets
  <2>3. p[1] \in Sector(n) .. (Sector(n) + disc.span[n] - 1)
    BY <2>1, <2>2, PacketIs
  <2>4. /\ Sector(n) \in Nat /\ disc.span[n] \in Nat /\ p[1] \in Nat
        /\ p[1] \in disc.start..disc.end /\ disc.start \in Nat /\ disc.end \in Nat
    BY <2>1, StartIs, PlaceFacts, DiscFacts
  <2>5. lsn <= Sector(n)
    BY DEF Covers
  <2>6. lsn <= p[1] /\ p[1] < Sector(n) + disc.span[n] /\ p[1] <= disc.end
    BY <2>3, <2>4, <2>5
  <2>7. p \in Here(lsn, got)
    BY <2>1, <2>4, <2>6, HereIs
  <2>8. ~Before(p, b)
    BY <1>1, <2>1, <2>2, OfFrame
  <2>9. L # {} => Before(p, StartOf(disc, n + 1))
    <3> SUFFICES ASSUME L # {} PROVE Before(p, StartOf(disc, n + 1))
      OBVIOUS
    <3>1. n + 1 \in Frames
      BY LaterIs
    <3>2. n < n + 1
      BY <1>1
    <3> QED
      BY <2>1, <2>2, <3>1, <3>2, OfFrame
  <2> QED
    BY <2>1, <2>7, <2>8, <2>9 DEF Wanted
<1> QED
  BY <1>2, <1>3

\* The sectors with packets of a kind of the frame, and the one that completes it.
LinesOf(n, kind) == {p[1] : p \in PlacesOf(n, kind)}
FullLines(n, kind) ==
    {l \in LinesOf(n, kind) :
        Cardinality({m \in LinesOf(n, kind) : m <= l}) = disc.span[n]}
LastSector(n) == Sector(n) + disc.span[n] - 1

LEMMA LinesAre ==
    ASSUME disc \in Discs, disc.format = "dst", NEW n \in Frames, NEW kind \in Kinds
    PROVE  /\ LinesOf(n, kind) \subseteq Sector(n)..LastSector(n)
           /\ LastSector(n) \in Nat
           /\ LastSector(n) + 1 = Sector(n) + disc.span[n]
           /\ FullLines(n, kind) \subseteq {LastSector(n)}
           /\ disc.input = "file" /\ kind = "audio" => FullLines(n, kind) # {}
<1> DEFINE s == Sector(n)
           k == disc.span[n]
           e == LastSector(n)
           L == LinesOf(n, kind)
<1>1. s \in Nat /\ k \in Nat /\ k >= 1
  BY StartIs
<1>2. e = s + k - 1 /\ e \in Nat /\ e + 1 = s + k /\ e - s + 1 = k /\ s <= e
  BY <1>1 DEF LastSector
<1>3. L \subseteq s..e
  <2> SUFFICES ASSUME NEW p \in PlacesOf(n, kind) PROVE p[1] \in s..e
    BY DEF LinesOf
  <2>1. p \in Packets(disc) /\ PacketAt(disc, p).frame = n /\ PacketAt(disc, p).kind = kind
    BY PlacesAre
  <2>2. p \in FramePackets(disc)
    BY <2>1 DEF FramePackets
  <2> QED
    BY <2>1, <2>2, PacketIs DEF LastSector
<1> HIDE DEF s, k, e, L
<1>4. IsFiniteSet(s..e) /\ Cardinality(s..e) = k
  <2>1. s \in Int /\ e \in Int /\ ~(s > e)
    BY <1>1, <1>2
  <2> QED
    BY <1>2, <2>1, FS_Interval
<1>5. ASSUME NEW l \in L, Cardinality({m \in L : m <= l}) = k PROVE l = e
  <2> DEFINE M == {m \in L : m <= l}
  <2>1. M \subseteq s..e
    BY <1>3
  <2>2. M = s..e
    <3> HIDE DEF M
    <3> QED
      BY <1>4, <1>5, <2>1, FS_Subset DEF M
  <2>3. e \in M /\ l \in s..e
    BY <1>1, <1>2, <1>3, <2>2
  <2>4. e <= l /\ l <= e /\ l \in Nat
    BY <1>1, <1>2, <2>3
  <2> QED
    BY <1>2, <2>4
<1>6. FullLines(n, kind) = {l \in L : Cardinality({m \in L : m <= l}) = k}
  BY DEF FullLines, L, k
<1>7. ASSUME disc.input = "file", kind = "audio" PROVE FullLines(n, kind) # {}
  <2>1. s..e \subseteq L
    <3> SUFFICES ASSUME NEW l \in s..e PROVE l \in L
      OBVIOUS
    <3>1. l \in SectorsOf(disc, n)
      BY DEF SectorsOf, s, e, LastSector, Sector
    <3>2. PICK p \in FramePackets(disc) :
             p[1] = l /\ PacketAt(disc, p).frame = n /\ PacketAt(disc, p).kind = "audio"
      BY <1>7, <3>1, Area DEF DstReadable, Frames
    <3>3. p \in PlacesOf(n, kind)
      BY <1>7, <3>2, PlacesAre DEF FramePackets
    <3> QED
      BY <3>2, <3>3 DEF L, LinesOf
  <2>2. L = s..e
    BY <1>3, <2>1
  <2>3. {m \in L : m <= e} = s..e
    BY <1>1, <1>2, <2>2
  <2>4. e \in L
    BY <1>1, <1>2, <2>2
  <2> QED
    BY <1>4, <1>6, <2>3, <2>4
<1> QED
  BY <1>2, <1>3, <1>5, <1>6, <1>7 DEF s, e, k, L

\* The first of one or two places.
LEMMA FirstOfTwo ==
    ASSUME NEW p \in Nat \X Nat, NEW q \in Nat \X Nat
    PROVE  /\ First({p}) = p
           /\ First({p, q}) \in {p, q}
           /\ First({p, q})[1] <= p[1] /\ First({p, q})[1] <= q[1]
<1>1. First({p}) = p
  BY FirstIs
<1>2. /\ p[1] \in Nat /\ q[1] \in Nat
      /\ Before(p, q) => p[1] <= q[1]
      /\ Before(q, p) => q[1] <= p[1]
  BY DEF Before
<1>3. CASE p = q
  <2>1. {p, q} = {p}
    BY <1>3
  <2> QED
    BY <1>1, <1>2, <1>3, <2>1
<1>4. CASE p # q /\ Before(p, q)
  <2>1. First({p, q}) = p
    <3> DEFINE S == {p, q}
    <3>1. S \in SUBSET (Nat \X Nat) /\ p \in S /\ \A r \in S \ {p} : Before(p, r)
      BY <1>4
    <3> HIDE DEF S
    <3>2. First(S) = p
      BY <3>1, FirstIs
    <3> QED
      BY <3>2 DEF S
  <2>2. p[1] \in Nat /\ p[1] <= p[1] /\ p[1] <= q[1]
    BY <1>2, <1>4
  <2> QED
    BY <1>1, <2>1, <2>2, Zenon
<1>5. CASE p # q /\ Before(q, p)
  <2>1. First({p, q}) = q
    <3> DEFINE S == {p, q}
    <3>1. S \in SUBSET (Nat \X Nat) /\ q \in S /\ \A r \in S \ {q} : Before(q, r)
      BY <1>5
    <3> HIDE DEF S
    <3>2. First(S) = q
      BY <3>1, FirstIs
    <3> QED
      BY <3>2 DEF S
  <2>2. q[1] \in Nat /\ q[1] <= p[1] /\ q[1] <= q[1]
    BY <1>2, <1>5
  <2> QED
    BY <1>1, <2>1, <2>2, Zenon
<1> QED
  BY <1>1, <1>3, <1>4, <1>5, Order

\* Where frame n is complete, given the sectors read, is in the order of the
\* disc after its packets and no later than the next frame.
NextStart(lsn, got, n) ==
    IF Later(lsn, got, n) = {} THEN None ELSE StartOf(disc, n + 1)
Ending(n, kind) ==
    IF FullLines(n, kind) = {} THEN None ELSE <<LastSector(n) + 1, 1>>
Done(lsn, got, n, kind) ==
    IF NextStart(lsn, got, n) = None /\ Ending(n, kind) = None THEN None
    ELSE Completion(NextStart(lsn, got, n), Ending(n, kind))

\* What the loop collects, in terms of the frame.
LEMMA ExtractedAs ==
    ASSUME disc \in Discs, disc.format = "dst", NEW n \in Frames, NEW kind \in Kinds,
           NEW lsn \in Nat, NEW got \in Nat \ {0}, Covers(lsn, got, n)
    PROVE  Extracted(lsn, got, n, kind) =
              [out |-> {p \in PlacesOf(n, kind) :
                           Done(lsn, got, n, kind) # None => Before(p, Done(lsn, got, n, kind))},
               next |-> IF Done(lsn, got, n, kind) = None THEN 0
                        ELSE Done(lsn, got, n, kind)[1],
               done |-> Done(lsn, got, n, kind) # None]
<1> DEFINE here == Here(lsn, got)
           begin == {p \in here : PacketAt(disc, p).start /\ PacketAt(disc, p).frame = n}
           b == First(begin)
           later == {p \in here : PacketAt(disc, p).start /\ Before(b, p)}
           next == IF later = {} THEN None ELSE First(later)
           wanted == {p \in here : /\ PacketAt(disc, p).kind = kind /\ ~Before(p, b)
                                   /\ (next # None => Before(p, next))}
           lines == {p[1] : p \in wanted}
           full == {l \in lines : Cardinality({m \in lines : m <= l}) = disc.span[n]}
           ending == IF full = {} THEN None ELSE <<Min(full) + 1, 1>>
           done == IF next = None /\ ending = None THEN None ELSE Completion(next, ending)
<1>1. Extracted(lsn, got, n, kind) =
         IF begin = {} THEN [out |-> {}, next |-> 0, done |-> FALSE]
         ELSE [out |-> {p \in wanted : done # None => Before(p, done)},
               next |-> IF done = None THEN 0 ELSE done[1],
               done |-> done # None]
  BY DEF Extracted, Here, Upto, PacketAt
<1>2. begin = {StartOf(disc, n)}
  <2>1. StartOf(disc, n) \in here
    BY StartIs, HereIs DEF Sector, Covers
  <2>2. ASSUME NEW p \in begin PROVE p = StartOf(disc, n)
    <3>1. p \in FrameStarts(disc) /\ PacketAt(disc, p).frame = n
      BY HereIs DEF FrameStarts
    <3> QED
      BY <3>1, StartUnique
  <2> QED
    BY <2>1, <2>2, StartIs
<1>3. b = StartOf(disc, n)
  <2>1. StartOf(disc, n) \in Nat \X Nat
    BY StartIs, PlaceFacts
  <2> HIDE DEF begin
  <2> QED
    BY <1>2, <2>1, FirstOfTwo
<1>4. begin # {}
  BY <1>2
<1> HIDE DEF begin, b
<1>5. later = Later(lsn, got, n)
  BY <1>3 DEF Later
<1>6. next = NextStart(lsn, got, n) /\ (next # None <=> later # {})
  <2>1. next = NextStart(lsn, got, n)
    <3> HIDE DEF later
    <3> QED
      BY <1>5, LaterIs DEF NextStart
  <2>2. later # {} => next # None
    <3>1. later # {} => StartOf(disc, n + 1) \in Nat \X Nat
      BY <1>5, LaterIs
    <3> HIDE DEF later
    <3> QED
      BY <1>5, <2>1, <3>1, NoneAssumption DEF NextStart
  <2> QED
    BY <2>1, <2>2
<1> HIDE DEF later, next
<1>7. wanted = PlacesOf(n, kind)
  <2>1. wanted = Wanted(lsn, got, n, kind)
    BY <1>3, <1>5, <1>6 DEF Wanted, NextStart
  <2> QED
    BY <2>1, WantedIs
<1> HIDE DEF wanted
<1>8. lines = LinesOf(n, kind)
  BY <1>7 DEF LinesOf
<1> HIDE DEF lines
<1>9. full = FullLines(n, kind)
  BY <1>8 DEF FullLines
<1> HIDE DEF full
<1>10. ending = Ending(n, kind)
  <2>1. full # {} => Min(full) = LastSector(n)
    <3> SUFFICES ASSUME full # {} PROVE Min(full) = LastSector(n)
      OBVIOUS
    <3>1. full = {LastSector(n)} /\ LastSector(n) \in Int
      BY <1>9, LinesAre
    <3> QED
      BY <3>1, LeastKnown
  <2> QED
    BY <1>9, <2>1 DEF Ending
<1> HIDE DEF ending
<1>11. done = Done(lsn, got, n, kind)
  BY <1>6, <1>10 DEF Done
<1> HIDE DEF done, here
<1> QED
  BY <1>1, <1>4, <1>7, <1>11

\* Where frame n is complete: after its packets, and where the next read starts.
LEMMA DoneIs ==
    ASSUME disc \in Discs, disc.format = "dst", NEW n \in Frames, NEW kind \in Kinds,
           NEW lsn \in Nat, NEW got \in Nat \ {0}, Covers(lsn, got, n),
           Done(lsn, got, n, kind) # None
    PROVE  /\ \A p \in PlacesOf(n, kind) : Before(p, Done(lsn, got, n, kind))
           /\ Done(lsn, got, n, kind)[1] \in Nat
           /\ n + 1 \in Frames => Holds(Done(lsn, got, n, kind)[1], n + 1)
<1> DEFINE s == StartOf(disc, n + 1)
           e == <<LastSector(n) + 1, 1>>
           d == Done(lsn, got, n, kind)
           next == Later(lsn, got, n) # {}
           full == FullLines(n, kind) # {}
<1>1. next => n + 1 \in Frames /\ s \in Nat \X Nat /\ s # None /\ s[1] = Sector(n + 1)
  BY LaterIs, NoneAssumption DEF Sector
<1>2. e \in Nat \X Nat /\ e # None /\ e[1] = LastSector(n) + 1 /\ e[2] = 1
  <2>1. LastSector(n) + 1 \in Nat
    BY LinesAre
  <2> QED
    BY <2>1, NoneAssumption
<1>3. \/ next /\ d = s
      \/ full /\ d = e /\ ~next
      \/ full /\ next /\ d \in {s, e} /\ d[1] <= s[1]
  <2>1. CASE ~next /\ ~full
    BY <2>1 DEF Done, NextStart, Ending
  <2>2. CASE ~next /\ full
    <3>1. d = First({None, e} \ {None})
      BY <1>2, <2>2 DEF Done, NextStart, Ending, Completion
    <3>2. {None, e} \ {None} = {e}
      BY <1>2
    <3>3. d = e
      BY <1>2, <3>1, <3>2, FirstOfTwo
    <3> QED
      BY <2>2, <3>3
  <2>3. CASE next /\ ~full
    <3>1. d = First({s, None} \ {None})
      BY <1>1, <2>3 DEF Done, NextStart, Ending, Completion
    <3>2. {s, None} \ {None} = {s}
      BY <1>1, <2>3
    <3>3. d = s
      BY <1>1, <2>3, <3>1, <3>2, FirstOfTwo
    <3> QED
      BY <2>3, <3>3
  <2>4. CASE next /\ full
    <3>1. d = First({s, e} \ {None})
      BY <1>1, <2>4 DEF Done, NextStart, Ending, Completion
    <3>2. {s, e} \ {None} = {s, e}
      BY <1>1, <1>2, <2>4
    <3> HIDE DEF s, e, d
    <3>3. d \in {s, e} /\ d[1] <= s[1]
      BY <1>1, <1>2, <2>4, <3>1, <3>2, FirstOfTwo
    <3> QED
      BY <2>4, <3>3
  <2> QED
    BY <2>1, <2>2, <2>3, <2>4
<1>4. ASSUME NEW p \in PlacesOf(n, kind)
      PROVE  /\ next => Before(p, s)
             /\ Before(p, e)
  <2>1. p \in Wanted(lsn, got, n, kind)
    BY WantedIs
  <2>2. next => Before(p, s)
    BY <2>1 DEF Wanted
  <2>3. p[1] \in Sector(n)..LastSector(n)
    BY LinesAre DEF LinesOf
  <2>4. Sector(n) \in Nat /\ LastSector(n) \in Nat
    BY StartIs, LinesAre
  <2>5. p[1] < LastSector(n) + 1
    BY <2>3, <2>4
  <2> QED
    BY <1>2, <2>2, <2>5 DEF Before
<1>5. ASSUME n + 1 \in Frames PROVE Holds(d[1], n + 1)
  <2> DEFINE a == Sector(n)
             k == disc.span[n]
             b == Sector(n + 1)
             c == disc.span[n + 1]
  <2>1. /\ a \in Nat /\ k \in Nat /\ b \in Nat /\ c \in Nat /\ c <= MaxSectors
        /\ disc.start <= a /\ disc.start <= b /\ k >= 1
    <3>1. a \in disc.start..disc.end /\ a \in Nat /\ k \in 1..MaxSectors /\ k \in Nat
      BY StartIs
    <3>2. b \in disc.start..disc.end /\ b \in Nat /\ c \in 1..MaxSectors /\ c \in Nat
      BY <1>5, StartIs
    <3> HIDE DEF a, b, c, k
    <3> QED
      BY <3>1, <3>2, DiscFacts
  <2>2. b + c <= a + k + MaxSectors
    BY <1>5, Area DEF DstArea, Frames, Sector
  <2>3. LastSector(n) + 1 = a + k
    BY LinesAre
  <2>4. MaxSectors \in Nat /\ disc.start \in Nat /\ s[1] = b
    BY DiscFacts DEF Sector
  <2>5. full /\ ~next => a + k <= b
    <3> SUFFICES ASSUME full, ~next PROVE a + k <= b
      OBVIOUS
    <3>1. Upto(lsn, got) < b /\ Upto(lsn, got) \in Nat
      BY <1>5, LaterIs, HereIs
    <3>2. LastSector(n) \in LinesOf(n, kind)
      BY LinesAre DEF FullLines
    <3>3. PICK p \in PlacesOf(n, kind) : p[1] = LastSector(n)
      BY <3>2 DEF LinesOf
    <3>4. p \in Here(lsn, got)
      BY WantedIs DEF Wanted
    <3>5. LastSector(n) <= Upto(lsn, got) /\ LastSector(n) \in Nat
      BY <3>3, <3>4, HereIs, LinesAre
    <3> HIDE DEF a, b, k
    <3> QED
      BY <2>1, <2>3, <3>1, <3>5
  <2>6. d[1] = b \/ (d[1] = a + k /\ a + k <= b)
    <3>1. e[1] = a + k
      BY <1>2, <2>3
    <3> HIDE DEF a, k, b, d, e, s, next, full
    <3> QED
      BY <1>3, <2>4, <2>5, <3>1
  <2>7. /\ disc.start <= d[1] /\ d[1] <= b /\ b + c <= d[1] + MaxSectors
    <3> HIDE DEF a, k, b, c, d
    <3> QED
      BY <2>1, <2>2, <2>4, <2>6
  <2> QED
    BY <2>7 DEF Holds
<1>6. d[1] \in Nat
  <2> HIDE DEF s, e, d, next, full
  <2> QED
    BY <1>1, <1>2, <1>3
<1>7. \A p \in PlacesOf(n, kind) : Before(p, d)
  <2> HIDE DEF s, e, d, next, full
  <2> QED
    BY <1>3, <1>4
<1> QED
  BY <1>5, <1>6, <1>7

\* What the loop collects from sectors that hold the frame, and where the next
\* read starts; with audio in each sector of a frame it knows the frame's end.
LEMMA ExtractedIs ==
    ASSUME disc \in Discs, disc.format = "dst", NEW n \in Frames, NEW kind \in Kinds,
           NEW lsn \in Nat, NEW got \in Nat \ {0}, Covers(lsn, got, n)
    PROVE  LET x == Extracted(lsn, got, n, kind)
           IN  /\ x.out = PlacesOf(n, kind)
               /\ x.next \in Nat
               /\ x.next > 0 /\ n + 1 \in Frames => Holds(x.next, n + 1)
               /\ disc.input = "file" /\ kind = "audio" => x.done
<1> DEFINE d == Done(lsn, got, n, kind)
           x == Extracted(lsn, got, n, kind)
<1>1. /\ x.out = {p \in PlacesOf(n, kind) : d # None => Before(p, d)}
      /\ x.next = IF d = None THEN 0 ELSE d[1]
      /\ x.done = (d # None)
  BY ExtractedAs
<1>2. d # None => /\ \A p \in PlacesOf(n, kind) : Before(p, d)
                  /\ d[1] \in Nat
                  /\ n + 1 \in Frames => Holds(d[1], n + 1)
  BY DoneIs
<1>3. disc.input = "file" /\ kind = "audio" => d # None
  <2> SUFFICES ASSUME disc.input = "file", kind = "audio" PROVE d # None
    OBVIOUS
  <2> DEFINE e == <<LastSector(n) + 1, 1>>
             s == NextStart(lsn, got, n)
  <2>1. Ending(n, kind) = e
    BY LinesAre DEF Ending
  <2>2. e \in Nat \X Nat /\ e # None
    BY LinesAre, NoneAssumption
  <2>3. s = None \/ s \in Nat \X Nat
    BY LaterIs DEF NextStart
  <2>4. d = First({s, e} \ {None})
    BY <2>1, <2>2 DEF Done, Completion
  <2> HIDE DEF e, s, d
  <2>5. CASE s = None
    <3>1. {s, e} \ {None} = {e}
      BY <2>2, <2>5
    <3> QED
      BY <2>2, <2>4, <3>1, FirstOfTwo
  <2>6. CASE s # None
    <3>1. {s, e} \ {None} = {s, e}
      BY <2>2, <2>6
    <3> QED
      BY <2>2, <2>3, <2>4, <2>6, <3>1, FirstOfTwo
  <2> QED
    BY <2>5, <2>6
<1> HIDE DEF d, x
<1>4. x.out = PlacesOf(n, kind)
  BY <1>1, <1>2
<1>5. x.next \in Nat /\ (x.next > 0 /\ n + 1 \in Frames => Holds(x.next, n + 1))
  BY <1>1, <1>2
<1> QED
  BY <1>1, <1>3, <1>4, <1>5 DEF x

----------------------------------------------------------------------------
(* A read of a DST frame.                                                  *)

\* Where the read starts, and how many sectors it asks for.
ReadAt(n) == IF Sequential(n) THEN cache.lsn ELSE DstSectorSeek(n)
ReadCount(n) == IF Sequential(n) THEN MaxSectors ELSE Min({disc.span[n], MaxSectors})

LEMMA ReadHolds ==
    ASSUME TypeInv, CacheInv, disc.format = "dst", NEW n \in Frames
    PROVE  /\ ReadAt(n) = None \/ ReadAt(n) \in Nat
           /\ ReadCount(n) \in Nat \ {0}
           /\ ReadAt(n) # None =>
                 /\ disc.start <= ReadAt(n) /\ ReadAt(n) <= Sector(n)
                 /\ Sector(n) + disc.span[n] <= ReadAt(n) + ReadCount(n)
           /\ disc.input = "file" => ReadAt(n) # None
<1> USE DEF TypeInv
<1> DEFINE s == Sector(n)
           k == disc.span[n]
<1>1. /\ s \in Nat /\ s # None /\ k \in Nat /\ 1 <= k /\ k <= MaxSectors
      /\ MaxSectors \in Nat \ {0} /\ disc.start <= s /\ disc.start \in Nat
  <2>1. s \in disc.start..disc.end /\ s \in Nat /\ k \in 1..MaxSectors /\ k \in Nat
    BY StartIs
  <2> HIDE DEF s, k
  <2> QED
    BY <2>1, DiscFacts, NoneAssumption
<1>2. CASE Sequential(n)
  <2>1. ReadAt(n) = cache.lsn /\ ReadCount(n) = MaxSectors /\ cache.lsn \in Nat
    BY <1>2 DEF ReadAt, ReadCount
  <2>2. Holds(cache.lsn, n)
    BY <1>2 DEF CacheInv, Sequential
  <2>3. cache.lsn # None
    BY <2>1, NoneAssumption
  <2> QED
    BY <1>1, <2>1, <2>2, <2>3 DEF Holds
<1>3. CASE ~Sequential(n)
  <2>1. ReadAt(n) = DstSectorSeek(n) /\ ReadCount(n) = Min({k, MaxSectors})
    BY <1>3 DEF ReadAt, ReadCount
  <2>2. ReadAt(n) \in {None, s} /\ (disc.input = "file" => ReadAt(n) = s)
    BY <2>1, SeekIs
  <2> HIDE DEF s, k
  <2>3. ReadCount(n) = k
    BY <1>1, <2>1, LeastOfTwo
  <2> QED
    BY <1>1, <2>2, <2>3 DEF s, k
<1> QED
  BY <1>2, <1>3

\* The sectors that the read returns hold the frame.
LEMMA ReadCovers ==
    ASSUME TypeInv, CacheInv, disc.format = "dst", NEW n \in Frames, ReadAt(n) # None
    PROVE  LET got == SectorsRead(ReadAt(n), ReadCount(n))
           IN  /\ got \in Nat
               /\ got # 0 => Covers(ReadAt(n), got, n)
               /\ disc.input = "file" => got # 0
<1> DEFINE a == ReadAt(n)
           c == ReadCount(n)
           s == Sector(n)
           k == disc.span[n]
           got == SectorsRead(a, c)
           last == disc.last
           end == disc.end
<1>1. /\ a \in Nat /\ c \in Nat \ {0} /\ disc.start <= a /\ a <= s /\ s + k <= a + c
  BY ReadHolds
<1>2. s \in Nat /\ k \in Nat /\ s <= end /\ end \in Nat /\ last \in Nat /\ end <= last
  <2>1. s \in disc.start..disc.end /\ s \in Nat /\ k \in Nat
    BY StartIs DEF TypeInv
  <2> HIDE DEF s, k
  <2> QED
    BY <2>1, DiscFacts DEF TypeInv
<1>3. got = IF a + c - 1 <= last THEN c
            ELSE IF disc.input = "file" /\ a <= last THEN last - a + 1 ELSE 0
  BY DEF SectorsRead
<1> HIDE DEF a, c, s, k, got, last, end
<1>4. got \in Nat
  BY <1>1, <1>2, <1>3
<1>5. got # 0 => s + k <= a + got \/ end < a + got
  BY <1>1, <1>2, <1>3
<1>6. disc.input = "file" => got # 0
  BY <1>1, <1>2, <1>3
<1> QED
  BY <1>1, <1>4, <1>5, <1>6 DEF Covers, a, c, s, k, got, end

\* A read of frame n that succeeds returns the packets of the frame, and leaves
\* a position that leads to the next one.
LEMMA DstRead ==
    ASSUME TypeInv, CacheInv, disc.format = "dst", NEW n \in Frames, NEW kind \in Kinds,
           NEW op, DstReadFrame(op, n, kind)
    PROVE  /\ cache' \in [num : Nat, lsn : Nat, valid : BOOLEAN, known : BOOLEAN]
           /\ cache'.valid /\ cache'.known /\ cache'.num + 1 \in Frames =>
                 Holds(cache'.lsn, cache'.num + 1)
           /\ res'.op = op /\ res'.n = n /\ res'.kind = kind
           /\ res'.status \in {"ok", "error"}
           /\ res'.status = "ok" /\ ~res'.raw => res'.out = PlacesOf(n, kind)
           /\ disc.input = "file" /\ kind = "audio" => res'.status # "error"
<1> DEFINE lsn == ReadAt(n)
           got == IF lsn = None THEN 0 ELSE SectorsRead(lsn, ReadCount(n))
           raw == Undecrypted(lsn, got)
           Stop(r) == /\ cache' = [cache EXCEPT !.valid = FALSE]
                      /\ Return(op, n, kind, "error", {}, r, FALSE)
           Accept(next, out) ==
               /\ cache' = [num |-> n, lsn |-> IF NextKnown(next, lsn) THEN next ELSE lsn,
                            known |-> NextKnown(next, lsn), valid |-> TRUE]
               /\ Return(op, n, kind, "ok", out, raw, FALSE)
           x == Extracted(lsn, got, n, kind)
<1>1. \/ got = 0 /\ Stop(FALSE)
      \/ got > 0 /\ raw /\ (Stop(TRUE) \/ Accept(0, {}))
      \/ /\ got > 0 /\ ~raw
         /\ \/ ~x.done /\ lsn + got - 1 > disc.end /\ Stop(FALSE)
            \/ Accept(x.next, x.out)
  <2> DEFINE G(l) == IF l = None THEN 0 ELSE SectorsRead(l, ReadCount(n))
             R(l) == Undecrypted(l, G(l))
             A(l, next, out) ==
                 /\ cache' = [num |-> n, lsn |-> IF NextKnown(next, l) THEN next ELSE l,
                              known |-> NextKnown(next, l), valid |-> TRUE]
                 /\ Return(op, n, kind, "ok", out, R(l), FALSE)
             E(l) == \E y \in {Extracted(l, G(l), n, kind)} :
                        \/ ~y.done /\ l + G(l) - 1 > disc.end /\ Stop(FALSE)
                        \/ A(l, y.next, y.out)
             B(l) == \/ G(l) = 0 /\ Stop(FALSE)
                     \/ G(l) > 0 /\ R(l) /\ (Stop(TRUE) \/ A(l, 0, {}))
                     \/ G(l) > 0 /\ ~R(l) /\ E(l)
  <2>1. \E l \in {ReadAt(n)} : B(l)
    BY DEF DstReadFrame, ReadAt, ReadCount
  <2>2. G(lsn) = got /\ R(lsn) = raw /\ \A next, out : A(lsn, next, out) <=> Accept(next, out)
    OBVIOUS
  <2>3. E(lsn) <=> \/ ~x.done /\ lsn + got - 1 > disc.end /\ Stop(FALSE)
                   \/ Accept(x.next, x.out)
    OBVIOUS
  <2> HIDE DEF E, A, Accept, Stop, G, R, got, raw, x
  <2>4. B(lsn)
    BY <2>1
  <2> QED
    BY <2>2, <2>3, <2>4
<1>2. /\ got \in Nat /\ (disc.input = "file" => got # 0)
      /\ got # 0 => lsn \in Nat /\ Covers(lsn, got, n)
  <2>1. CASE lsn = None
    BY <2>1, ReadHolds
  <2>2. CASE lsn # None
    BY <2>2, ReadHolds, ReadCovers
  <2> QED
    BY <2>1, <2>2
<1>3. n \in Nat /\ cache \in [num : Nat, lsn : Nat, valid : BOOLEAN, known : BOOLEAN]
  BY DiscFacts DEF TypeInv, Frames
<1>4. got # 0 => /\ x.out = PlacesOf(n, kind)
                 /\ x.next \in Nat
                 /\ x.next > 0 /\ n + 1 \in Frames => Holds(x.next, n + 1)
                 /\ disc.input = "file" /\ kind = "audio" => x.done
  <2> HIDE DEF lsn, got
  <2> QED
    BY <1>2, ExtractedIs DEF TypeInv
<1>5. disc.input = "file" => raw = FALSE
  BY DEF Undecrypted
<1>6. raw \in BOOLEAN
  BY DEF Undecrypted
<1> HIDE DEF lsn, got, raw, x
<1>7. ASSUME NEW r, Stop(r), ~(disc.input = "file" /\ kind = "audio")
      PROVE  /\ cache' \in [num : Nat, lsn : Nat, valid : BOOLEAN, known : BOOLEAN]
             /\ cache'.valid /\ cache'.known /\ cache'.num + 1 \in Frames =>
                   Holds(cache'.lsn, cache'.num + 1)
             /\ res'.op = op /\ res'.n = n /\ res'.kind = kind
             /\ res'.status \in {"ok", "error"}
             /\ res'.status = "ok" /\ ~res'.raw => res'.out = PlacesOf(n, kind)
             /\ disc.input = "file" /\ kind = "audio" => res'.status # "error"
  <2>1. cache' = [cache EXCEPT !.valid = FALSE]
    BY <1>7
  <2>2. /\ cache' \in [num : Nat, lsn : Nat, valid : BOOLEAN, known : BOOLEAN]
        /\ cache'.valid = FALSE
    BY <1>3, <2>1
  <2>3. res'.op = op /\ res'.n = n /\ res'.kind = kind /\ res'.status = "error"
    BY <1>7 DEF Return
  <2> QED
    BY <1>7, <2>2, <2>3
<1>8. ASSUME NEW next \in Nat, NEW out, Accept(next, out), got # 0,
             next > 0 /\ n + 1 \in Frames => Holds(next, n + 1),
             ~raw => out = PlacesOf(n, kind)
      PROVE  /\ cache' \in [num : Nat, lsn : Nat, valid : BOOLEAN, known : BOOLEAN]
             /\ cache'.valid /\ cache'.known /\ cache'.num + 1 \in Frames =>
                   Holds(cache'.lsn, cache'.num + 1)
             /\ res'.op = op /\ res'.n = n /\ res'.kind = kind
             /\ res'.status \in {"ok", "error"}
             /\ res'.status = "ok" /\ ~res'.raw => res'.out = PlacesOf(n, kind)
             /\ disc.input = "file" /\ kind = "audio" => res'.status # "error"
  <2>1. cache' = [num |-> n, lsn |-> IF NextKnown(next, lsn) THEN next ELSE lsn,
                  known |-> NextKnown(next, lsn), valid |-> TRUE]
    BY <1>8
  <2>2. lsn \in Nat /\ NextKnown(next, lsn) \in BOOLEAN
    BY <1>2, <1>8 DEF NextKnown
  <2>3. /\ cache' \in [num : Nat, lsn : Nat, valid : BOOLEAN, known : BOOLEAN]
        /\ cache'.num = n /\ cache'.known = NextKnown(next, lsn)
        /\ NextKnown(next, lsn) => cache'.lsn = next
    BY <1>3, <2>1, <2>2
  <2>4. NextKnown(next, lsn) => next > 0
    BY DEF NextKnown
  <2>5. /\ res'.op = op /\ res'.n = n /\ res'.kind = kind /\ res'.status = "ok"
        /\ res'.raw = raw /\ res'.out = out
    BY <1>8 DEF Return
  <2> QED
    BY <1>8, <2>3, <2>4, <2>5
<1> HIDE DEF Stop, Accept
<1>9. CASE got = 0 /\ Stop(FALSE)
  BY <1>2, <1>7, <1>9
<1>10. CASE got > 0 /\ raw /\ Stop(TRUE)
  BY <1>5, <1>7, <1>10
<1>11. CASE got > 0 /\ raw /\ Accept(0, {})
  <2>1. got # 0 /\ 0 \in Nat /\ ~(0 > 0)
    BY <1>2, <1>11
  <2> QED
    BY <1>8, <1>11, <2>1
<1>12. CASE got > 0 /\ ~raw /\ ~x.done /\ Stop(FALSE)
  <2>1. got # 0
    BY <1>2, <1>12
  <2> QED
    BY <1>4, <1>7, <1>12, <2>1
<1>13. CASE got > 0 /\ ~raw /\ Accept(x.next, x.out)
  <2>1. got # 0
    BY <1>2, <1>13
  <2> QED
    BY <1>4, <1>8, <1>13, <2>1
<1> QED
  BY <1>1, <1>9, <1>10, <1>11, <1>12, <1>13

----------------------------------------------------------------------------
(* The layout tables of plain DSD: in a group of three frames, the slices  *)
(* of each follow one another from its first byte to its last.             *)

AudioBytes(format) == 2048 - Header[format]

\* Place of a slice in its group.
Offset(format, y, i) == (y.add + i - 1) * AudioBytes(format) + y.slices[i][1] - Header[format]

TableOK(format, r, y) ==
    /\ y.mul \in Nat /\ y.mul * AudioBytes(format) = 3 * FrameBytes
    /\ y.add \in Nat /\ AudioBytes(format) \in Nat /\ Header[format] \in Nat
    /\ Len(y.slices) \in Nat /\ DOMAIN y.slices = 1..Len(y.slices) /\ 1 \in DOMAIN y.slices
    /\ \A i \in DOMAIN y.slices :
          /\ Offset(format, y, i) \in Nat
          /\ y.slices[i][1] \in Nat /\ y.slices[i][2] \in Nat
    /\ Offset(format, y, 1) = r * FrameBytes
    /\ \A i \in DOMAIN y.slices :
          \/ Offset(format, y, i) + y.slices[i][2] = (r + 1) * FrameBytes
          \/ /\ i + 1 \in DOMAIN y.slices
             /\ Offset(format, y, i + 1) = Offset(format, y, i) + y.slices[i][2]
    /\ \A i, j \in DOMAIN y.slices :
          i < j => Offset(format, y, i) + y.slices[i][2] <= Offset(format, y, j)

LEMMA Tables14 ==
    /\ TableOK("dsd14", 0, Layout14[1])
    /\ TableOK("dsd14", 1, Layout14[2])
    /\ TableOK("dsd14", 2, Layout14[3])
<1>1. TableOK("dsd14", 0, Layout14[1])
  <2> DEFINE y == Layout14[1]
             o(i) == Offset("dsd14", y, i)
             k(i) == y.slices[i][2]
  <2>1. /\ y.mul = 14 /\ y.add = 0 /\ Len(y.slices) = 5 /\ DOMAIN y.slices = 1..5
        /\ \A i \in 1..5 : y.slices[i][1] = 32 /\ k(i) = IF i < 5 THEN 2016 ELSE 1344
    BY DEF Layout14
  <2>2. AudioBytes("dsd14") = 2016 /\ Header["dsd14"] = 32 /\ FrameBytes = 9408
    BY DEF AudioBytes, Header, FrameBytes
  <2>3. \A i \in 1..5 : o(i) = (i - 1) * 2016
    BY <2>1, <2>2 DEF Offset
  <2> HIDE DEF y, o, k
  <2>4. \A i \in 1..5 : o(i) \in Nat /\ k(i) \in Nat
    BY <2>1, <2>3
  <2>5. \A i \in 1..5 : o(i) + k(i) = 9408 \/ (i + 1 \in 1..5 /\ o(i + 1) = o(i) + k(i))
    BY <2>1, <2>3
  <2>6. \A i, j \in 1..5 : i < j => o(i) + k(i) <= o(j)
    BY <2>1, <2>3
  <2>7. o(1) = 0
    BY <2>3
  <2>8. TableOK("dsd14", 0, y)
    BY <2>1, <2>2, <2>4, <2>5, <2>6, <2>7 DEF TableOK, o, k
  <2> QED
    BY <2>8 DEF y
<1>2. TableOK("dsd14", 1, Layout14[2])
  <2> DEFINE y == Layout14[2]
             o(i) == Offset("dsd14", y, i)
             k(i) == y.slices[i][2]
  <2>1. /\ y.mul = 14 /\ y.add = 4 /\ Len(y.slices) = 6 /\ DOMAIN y.slices = 1..6
        /\ \A i \in 1..6 : /\ y.slices[i][1] = IF i = 1 THEN 1376 ELSE 32
                           /\ k(i) = IF i = 1 THEN 672 ELSE IF i < 6 THEN 2016 ELSE 672
    BY DEF Layout14
  <2>2. AudioBytes("dsd14") = 2016 /\ Header["dsd14"] = 32 /\ FrameBytes = 9408
    BY DEF AudioBytes, Header, FrameBytes
  <2>3. \A i \in 1..6 : o(i) = IF i = 1 THEN 9408 ELSE 10080 + (i - 2) * 2016
    BY <2>1, <2>2 DEF Offset
  <2> HIDE DEF y, o, k
  <2>4. \A i \in 1..6 : o(i) \in Nat /\ k(i) \in Nat
    BY <2>1, <2>3
  <2>5. \A i \in 1..6 : o(i) + k(i) = 18816 \/ (i + 1 \in 1..6 /\ o(i + 1) = o(i) + k(i))
    BY <2>1, <2>3
  <2>6. \A i, j \in 1..6 : i < j => o(i) + k(i) <= o(j)
    BY <2>1, <2>3
  <2>7. o(1) = 9408
    BY <2>3
  <2>8. TableOK("dsd14", 1, y)
    BY <2>1, <2>2, <2>4, <2>5, <2>6, <2>7 DEF TableOK, o, k
  <2> QED
    BY <2>8 DEF y
<1>3. TableOK("dsd14", 2, Layout14[3])
  <2> DEFINE y == Layout14[3]
             o(i) == Offset("dsd14", y, i)
             k(i) == y.slices[i][2]
  <2>1. /\ y.mul = 14 /\ y.add = 9 /\ Len(y.slices) = 5 /\ DOMAIN y.slices = 1..5
        /\ \A i \in 1..5 : /\ y.slices[i][1] = IF i = 1 THEN 704 ELSE 32
                           /\ k(i) = IF i = 1 THEN 1344 ELSE 2016
    BY DEF Layout14
  <2>2. AudioBytes("dsd14") = 2016 /\ Header["dsd14"] = 32 /\ FrameBytes = 9408
    BY DEF AudioBytes, Header, FrameBytes
  <2>3. \A i \in 1..5 : o(i) = IF i = 1 THEN 18816 ELSE 20160 + (i - 2) * 2016
    BY <2>1, <2>2 DEF Offset
  <2> HIDE DEF y, o, k
  <2>4. \A i \in 1..5 : o(i) \in Nat /\ k(i) \in Nat
    BY <2>1, <2>3
  <2>5. \A i \in 1..5 : o(i) + k(i) = 28224 \/ (i + 1 \in 1..5 /\ o(i + 1) = o(i) + k(i))
    BY <2>1, <2>3
  <2>6. \A i, j \in 1..5 : i < j => o(i) + k(i) <= o(j)
    BY <2>1, <2>3
  <2>7. o(1) = 18816
    BY <2>3
  <2>8. TableOK("dsd14", 2, y)
    BY <2>1, <2>2, <2>4, <2>5, <2>6, <2>7 DEF TableOK, o, k
  <2> QED
    BY <2>8 DEF y
<1> QED
  BY <1>1, <1>2, <1>3

LEMMA Tables16 ==
    /\ TableOK("dsd16", 0, Layout16[1])
    /\ TableOK("dsd16", 1, Layout16[2])
    /\ TableOK("dsd16", 2, Layout16[3])
<1>1. TableOK("dsd16", 0, Layout16[1])
  <2> DEFINE y == Layout16[1]
             o(i) == Offset("dsd16", y, i)
             k(i) == y.slices[i][2]
  <2>1. /\ y.mul = 16 /\ y.add = 0 /\ Len(y.slices) = 6 /\ DOMAIN y.slices = 1..6
        /\ \A i \in 1..6 : y.slices[i][1] = 284 /\ k(i) = IF i < 6 THEN 1764 ELSE 588
    BY DEF Layout16
  <2>2. AudioBytes("dsd16") = 1764 /\ Header["dsd16"] = 284 /\ FrameBytes = 9408
    BY DEF AudioBytes, Header, FrameBytes
  <2>3. \A i \in 1..6 : o(i) = (i - 1) * 1764
    BY <2>1, <2>2 DEF Offset
  <2> HIDE DEF y, o, k
  <2>4. \A i \in 1..6 : o(i) \in Nat /\ k(i) \in Nat
    BY <2>1, <2>3
  <2>5. \A i \in 1..6 : o(i) + k(i) = 9408 \/ (i + 1 \in 1..6 /\ o(i + 1) = o(i) + k(i))
    BY <2>1, <2>3
  <2>6. \A i, j \in 1..6 : i < j => o(i) + k(i) <= o(j)
    BY <2>1, <2>3
  <2>7. o(1) = 0
    BY <2>3
  <2>8. TableOK("dsd16", 0, y)
    BY <2>1, <2>2, <2>4, <2>5, <2>6, <2>7 DEF TableOK, o, k
  <2> QED
    BY <2>8 DEF y
<1>2. TableOK("dsd16", 1, Layout16[2])
  <2> DEFINE y == Layout16[2]
             o(i) == Offset("dsd16", y, i)
             k(i) == y.slices[i][2]
  <2>1. /\ y.mul = 16 /\ y.add = 5 /\ Len(y.slices) = 6 /\ DOMAIN y.slices = 1..6
        /\ \A i \in 1..6 : /\ y.slices[i][1] = IF i = 1 THEN 872 ELSE 284
                           /\ k(i) = IF i = 1 THEN 1176 ELSE IF i < 6 THEN 1764 ELSE 1176
    BY DEF Layout16
  <2>2. AudioBytes("dsd16") = 1764 /\ Header["dsd16"] = 284 /\ FrameBytes = 9408
    BY DEF AudioBytes, Header, FrameBytes
  <2>3. \A i \in 1..6 : o(i) = IF i = 1 THEN 9408 ELSE 10584 + (i - 2) * 1764
    BY <2>1, <2>2 DEF Offset
  <2> HIDE DEF y, o, k
  <2>4. \A i \in 1..6 : o(i) \in Nat /\ k(i) \in Nat
    BY <2>1, <2>3
  <2>5. \A i \in 1..6 : o(i) + k(i) = 18816 \/ (i + 1 \in 1..6 /\ o(i + 1) = o(i) + k(i))
    BY <2>1, <2>3
  <2>6. \A i, j \in 1..6 : i < j => o(i) + k(i) <= o(j)
    BY <2>1, <2>3
  <2>7. o(1) = 9408
    BY <2>3
  <2>8. TableOK("dsd16", 1, y)
    BY <2>1, <2>2, <2>4, <2>5, <2>6, <2>7 DEF TableOK, o, k
  <2> QED
    BY <2>8 DEF y
<1>3. TableOK("dsd16", 2, Layout16[3])
  <2> DEFINE y == Layout16[3]
             o(i) == Offset("dsd16", y, i)
             k(i) == y.slices[i][2]
  <2>1. /\ y.mul = 16 /\ y.add = 10 /\ Len(y.slices) = 6 /\ DOMAIN y.slices = 1..6
        /\ \A i \in 1..6 : /\ y.slices[i][1] = IF i = 1 THEN 1460 ELSE 284
                           /\ k(i) = IF i = 1 THEN 588 ELSE 1764
    BY DEF Layout16
  <2>2. AudioBytes("dsd16") = 1764 /\ Header["dsd16"] = 284 /\ FrameBytes = 9408
    BY DEF AudioBytes, Header, FrameBytes
  <2>3. \A i \in 1..6 : o(i) = IF i = 1 THEN 18816 ELSE 19404 + (i - 2) * 1764
    BY <2>1, <2>2 DEF Offset
  <2> HIDE DEF y, o, k
  <2>4. \A i \in 1..6 : o(i) \in Nat /\ k(i) \in Nat
    BY <2>1, <2>3
  <2>5. \A i \in 1..6 : o(i) + k(i) = 28224 \/ (i + 1 \in 1..6 /\ o(i + 1) = o(i) + k(i))
    BY <2>1, <2>3
  <2>6. \A i, j \in 1..6 : i < j => o(i) + k(i) <= o(j)
    BY <2>1, <2>3
  <2>7. o(1) = 18816
    BY <2>3
  <2>8. TableOK("dsd16", 2, y)
    BY <2>1, <2>2, <2>4, <2>5, <2>6, <2>7 DEF TableOK, o, k
  <2> QED
    BY <2>8 DEF y
<1> QED
  BY <1>1, <1>2, <1>3

LEMMA Tables ==
    ASSUME NEW format \in {"dsd14", "dsd16"}, NEW n \in Nat
    PROVE  TableOK(format, n % 3, Layout(format, n))
<1> DEFINE r == n % 3
<1>1. r \in {0, 1, 2}
  OBVIOUS
<1>2. Layout(format, n) = IF format = "dsd14" THEN Layout14[r + 1] ELSE Layout16[r + 1]
  BY DEF Layout
<1> HIDE DEF r
<1>3. CASE format = "dsd14"
  BY <1>1, <1>2, <1>3, Tables14 DEF r
<1>4. CASE format = "dsd16"
  BY <1>1, <1>2, <1>4, Tables16 DEF r
<1> QED
  BY <1>3, <1>4

LEMMA Bytes ==
    ASSUME NEW s \in Int, NEW z \in Int, NEW a \in Int, NEW i \in Int,
           NEW c \in Int, NEW o \in Int, NEW h \in Int
    PROVE  ((s + z + a + i - 1) - s) * c + o - h = z * c + ((a + i - 1) * c + o - h)
<1>1. ((s + z + a + i - 1) - s) * c = z * c + (a + i - 1) * c
  OBVIOUS
<1> DEFINE x == ((s + z + a + i - 1) - s) * c
           y == z * c
           w == (a + i - 1) * c
<1>2. x \in Int /\ y \in Int /\ w \in Int /\ x = y + w
  BY <1>1
<1> HIDE DEF x, y, w
<1>3. x + o - h = y + (w + o - h)
  BY <1>2
<1> QED
  BY <1>3 DEF x, y, w

\* The slices of a frame cover its bytes, each once.
LEMMA SlicesExact ==
    ASSUME disc \in Discs, disc.format # "dst", NEW n \in Frames, NEW out,
           out = {FixedSlices(n)[i] : i \in DOMAIN FixedSlices(n)}
    PROVE  /\ \E s \in out : AudioByte(s) = n * FrameBytes
           /\ \A s \in out :
                 \/ AudioByte(s) + s[3] = (n + 1) * FrameBytes
                 \/ \E r \in out : AudioByte(r) = AudioByte(s) + s[3]
           /\ \A r, s \in out : Disjoint(r, s)
<1> DEFINE f == disc.format
           y == Layout(f, n)
           q == n \div 3
           r == n % 3
           g == FixedSlices(n)
           o(i) == Offset(f, y, i)
           k(i) == y.slices[i][2]
           I == DOMAIN y.slices
           base == (q * y.mul) * AudioBytes(f)
<1>1. f \in {"dsd14", "dsd16"} /\ n \in Nat /\ disc.start \in Nat
  BY DiscFacts DEF Formats, Frames
<1>2. TableOK(f, r, y)
  BY <1>1, Tables
<1>3. q \in Nat /\ r \in Nat /\ n = 3 * q + r
  BY <1>1
<1>4. g = [i \in I |-> <<disc.start + q * y.mul + y.add + i - 1, y.slices[i][1], y.slices[i][2]>>]
  BY DEF FixedSlices
<1> HIDE DEF f, y, q, r, g, I
<1>5. ASSUME NEW i \in I
      PROVE  /\ AudioByte(g[i]) = base + o(i) /\ g[i][3] = k(i)
             /\ o(i) \in Nat /\ k(i) \in Nat /\ i \in Nat
  <2>1. /\ y.mul \in Nat /\ y.add \in Nat /\ i \in Nat /\ y.slices[i][1] \in Nat
        /\ AudioBytes(f) \in Nat /\ Header[f] \in Nat /\ o(i) \in Nat /\ k(i) \in Nat
    BY <1>2 DEF TableOK, I
  <2>2. /\ g[i][1] = disc.start + q * y.mul + y.add + i - 1
        /\ g[i][2] = y.slices[i][1] /\ g[i][3] = k(i)
    BY <1>4
  <2>3. AudioByte(g[i]) = ((disc.start + q * y.mul + y.add + i - 1) - disc.start) * AudioBytes(f)
                          + y.slices[i][1] - Header[f]
    BY <2>2 DEF AudioByte, AudioBytes, f
  <2> DEFINE z == q * y.mul
             c == AudioBytes(f)
             a == y.add
             d == y.slices[i][1]
             h == Header[f]
             t == disc.start
  <2>4. z \in Int
    BY <1>3, <2>1
  <2> HIDE DEF z, c, a, d, h, t
  <2>5. t \in Int /\ a \in Int /\ i \in Int /\ c \in Int /\ d \in Int /\ h \in Int
    BY <1>1, <2>1 DEF a, c, d, h, t
  <2>6. ((t + z + a + i - 1) - t) * c + d - h = z * c + ((a + i - 1) * c + d - h)
    BY ONLY <2>4, <2>5, Bytes
  <2> QED
    BY <2>1, <2>2, <2>3, <2>6 DEF Offset, z, c, a, d, h, t
<1>6. base = 3 * (q * FrameBytes) /\ FrameBytes \in Nat
  <2>1. y.mul * AudioBytes(f) = 3 * FrameBytes /\ y.mul \in Nat /\ AudioBytes(f) \in Nat
    BY <1>2 DEF TableOK
  <2>2. base = q * (y.mul * AudioBytes(f))
    BY <1>3, <2>1
  <2>3. FrameBytes \in Nat
    BY DEF FrameBytes
  <2> QED
    BY <1>3, <2>1, <2>2, <2>3
<1>7. n * FrameBytes = base + r * FrameBytes /\ (n + 1) * FrameBytes = base + (r + 1) * FrameBytes
      /\ base \in Nat
  BY <1>3, <1>6
<1>8. out = {g[i] : i \in I} /\ \A i \in I : g[i] \in out
  <2>1. DOMAIN g = I
    BY <1>4
  <2> QED
    BY <2>1 DEF g
<1> HIDE DEF base
<1>9. /\ 1 \in I /\ o(1) = r * FrameBytes
      /\ \A i \in I : o(i) + k(i) = (r + 1) * FrameBytes
                      \/ (i + 1 \in I /\ o(i + 1) = o(i) + k(i))
      /\ \A i, j \in I : i < j => o(i) + k(i) <= o(j)
  BY <1>2 DEF TableOK, I
<1> DEFINE F == (r + 1) * FrameBytes
<1>10. F \in Nat
  BY <1>3, <1>6
<1> HIDE DEF o, k, F
<1>11. \E s \in out : AudioByte(s) = n * FrameBytes
  BY <1>5, <1>7, <1>8, <1>9
<1>12. ASSUME NEW s \in out
       PROVE  \/ AudioByte(s) + s[3] = (n + 1) * FrameBytes
              \/ \E t \in out : AudioByte(t) = AudioByte(s) + s[3]
  <2>1. PICK i \in I : s = g[i]
    BY <1>8
  <2>2. AudioByte(s) = base + o(i) /\ s[3] = k(i) /\ o(i) \in Nat /\ k(i) \in Nat
    BY <1>5, <2>1
  <2>3. CASE o(i) + k(i) = F
    <3>1. AudioByte(s) + s[3] = base + F
      BY <1>7, <1>10, <2>2, <2>3
    <3> QED
      BY <1>7, <3>1 DEF F
  <2>4. CASE i + 1 \in I /\ o(i + 1) = o(i) + k(i)
    <3>1. AudioByte(g[i + 1]) = base + o(i + 1) /\ g[i + 1] \in out
      BY <1>5, <1>8, <2>4
    <3>2. AudioByte(g[i + 1]) = AudioByte(s) + s[3]
      BY <1>7, <2>2, <2>4, <3>1
    <3> QED
      BY <3>1, <3>2
  <2> QED
    BY <1>9, <2>3, <2>4 DEF F
<1>13. ASSUME NEW t \in out, NEW s \in out PROVE Disjoint(t, s)
  <2>1. PICK i \in I : t = g[i]
    BY <1>8
  <2>2. PICK j \in I : s = g[j]
    BY <1>8
  <2>3. /\ AudioByte(t) = base + o(i) /\ t[3] = k(i) /\ o(i) \in Nat /\ k(i) \in Nat
        /\ AudioByte(s) = base + o(j) /\ s[3] = k(j) /\ o(j) \in Nat /\ k(j) \in Nat
        /\ i \in Nat /\ j \in Nat
    BY <1>5, <2>1, <2>2
  <2>4. CASE i = j
    BY <2>1, <2>2, <2>4 DEF Disjoint
  <2>5. CASE i < j
    <3>1. o(i) + k(i) <= o(j)
      BY <1>9, <2>5
    <3>2. AudioByte(t) + t[3] <= AudioByte(s)
      BY <1>7, <2>3, <3>1
    <3> QED
      BY <3>2 DEF Disjoint
  <2>6. CASE j < i
    <3>1. o(j) + k(j) <= o(i)
      BY <1>9, <2>6
    <3>2. AudioByte(s) + s[3] <= AudioByte(t)
      BY <1>7, <2>3, <3>1
    <3> QED
      BY <3>2 DEF Disjoint
  <2> QED
    BY <2>3, <2>4, <2>5, <2>6
<1> QED
  BY <1>11, <1>12, <1>13

----------------------------------------------------------------------------
(* The steps.                                                              *)

\* FrameExact without the types.
ResultExact ==
    res.status = "ok" /\ ~res.raw =>
        CASE res.op = "sector" /\ disc.format = "dst" ->
                res.out = {<<First(PlacesOf(res.n, "audio"))[1], disc.span[res.n]>>}
          [] res.op \in {"read", "last"} /\ disc.format = "dst" ->
                res.out = PlacesOf(res.n, res.kind)
          [] res.op \in {"read", "last"} /\ disc.format # "dst" ->
                /\ \E s \in res.out : AudioByte(s) = res.n * FrameBytes
                /\ \A s \in res.out :
                    \/ AudioByte(s) + s[3] = (res.n + 1) * FrameBytes
                    \/ \E r \in res.out : AudioByte(r) = AudioByte(s) + s[3]
                /\ \A r, s \in res.out : Disjoint(r, s)
          [] OTHER -> TRUE

LEMMA Exactness == TypeInv => (FrameExact <=> ResultExact)
<1> SUFFICES ASSUME TypeInv PROVE ReadTypeOK
  BY DEF FrameExact, ResultExact
<1> QED
  BY DiscsAssumption DEF TypeInv, ReadTypeOK

\* What a step that keeps the disc has to show of the result and the position.
Kept ==
    /\ disc' = disc
    /\ cache' \in [num : Nat, lsn : Nat, valid : BOOLEAN, known : BOOLEAN]
    /\ disc.format = "dst" /\ cache'.valid /\ cache'.known /\ cache'.num + 1 \in Frames =>
          Holds(cache'.lsn, cache'.num + 1)

LEMMA KeptCache ==
    ASSUME Kept
    PROVE  CacheInv'
BY DEF Kept, CacheInv, Holds, Sector, Frames

LEMMA SameCache ==
    ASSUME TypeInv, CacheInv, disc' = disc, cache' = cache
    PROVE  Kept
BY DEF TypeInv, CacheInv, Kept

\* A call that fails, or takes the result.
LEMMA NoOutput ==
    ASSUME res'.status # "ok", res'.status # "error" \/ res'.faulty
    PROVE  ResultExact' /\ EveryFrameReadable'
BY DEF ResultExact, EveryFrameReadable

\* The sector of a DST frame.
LEMMA FirstPlace ==
    ASSUME disc \in Discs, disc.format = "dst", NEW n \in Frames
    PROVE  First(PlacesOf(n, "audio")) = StartOf(disc, n)
<1> DEFINE S == PlacesOf(n, "audio")
           b == StartOf(disc, n)
<1>1. b \in S /\ b \in Nat \X Nat /\ n \in Int
  BY StartIs, PlaceFacts, PlacesAre, OfFrame
<1>2. S \in SUBSET (Nat \X Nat)
  BY PlacesAre, PlaceFacts
<1>3. ASSUME NEW q \in S \ {b} PROVE Before(b, q)
  <2>1. q \in FramePackets(disc) /\ PacketAt(disc, q).frame = n /\ q \in Nat \X Nat
    BY PlacesAre, PlaceFacts DEF FramePackets, Kinds
  <2>2. ~Before(q, b)
    BY <1>1, <2>1, OfFrame
  <2> HIDE DEF b
  <2> QED
    BY <1>1, <1>3, <2>1, <2>2, Order
<1> HIDE DEF S, b
<1> QED
  BY <1>1, <1>2, <1>3, FirstIs DEF S, b

\* A read of a frame.
LEMMA ReadStep ==
    ASSUME TypeInv, CacheInv, NEW n \in Frames, NEW kind \in Kinds,
           NEW op \in {"read", "last"}, ReadFrame(op, n, kind), disc' = disc
    PROVE  /\ Kept /\ ResultExact' /\ EveryFrameReadable'
           /\ res'.n = n /\ res'.status \in {"ok", "error"}
<1>1. CASE disc.format = "dst"
  <2>1. DstReadFrame(op, n, kind)
    BY <1>1 DEF ReadFrame
  <2>2. /\ cache' \in [num : Nat, lsn : Nat, valid : BOOLEAN, known : BOOLEAN]
        /\ cache'.valid /\ cache'.known /\ cache'.num + 1 \in Frames =>
              Holds(cache'.lsn, cache'.num + 1)
        /\ res'.op = op /\ res'.n = n /\ res'.kind = kind
        /\ res'.status \in {"ok", "error"}
        /\ res'.status = "ok" /\ ~res'.raw => res'.out = PlacesOf(n, kind)
        /\ disc.input = "file" /\ kind = "audio" => res'.status # "error"
    BY <1>1, <2>1, DstRead
  <2>3. PlacesOf(n, kind)' = PlacesOf(n, kind)
    BY DEF PlacesOf, Places
  <2>4. ResultExact'
    BY <1>1, <2>2, <2>3 DEF ResultExact, PlacesOf, Places
  <2> QED
    BY <2>2, <2>4 DEF Kept, EveryFrameReadable
<1>2. CASE disc.format # "dst"
  <2> DEFINE s == FixedSlices(n)
             out == {s[i] : i \in DOMAIN s}
  <2>1. /\ cache' = cache
        /\ IF \A i \in DOMAIN s : s[i][1] <= disc.last
           THEN Return(op, n, kind, "ok", out, FALSE, FALSE)
           ELSE Return(op, n, kind, "error", {}, FALSE, FALSE)
    BY <1>2 DEF ReadFrame, FixedReadFrame
  <2>2. /\ \E r \in out : AudioByte(r) = n * FrameBytes
        /\ \A r \in out :
              \/ AudioByte(r) + r[3] = (n + 1) * FrameBytes
              \/ \E t \in out : AudioByte(t) = AudioByte(r) + r[3]
        /\ \A r, t \in out : Disjoint(r, t)
    BY <1>2, SlicesExact DEF TypeInv
  <2>3. disc.input = "file" => \A i \in DOMAIN s : s[i][1] <= disc.last
    <3> SUFFICES ASSUME disc.input = "file", NEW i \in DOMAIN s PROVE s[i][1] <= disc.last
      OBVIOUS
    <3> DEFINE y == Layout(disc.format, n)
               t == disc.start
               g == (n \div 3) * y.mul
               a == y.add
    <3>1. t + g + a + Len(y.slices) - 1 <= disc.last
      BY <1>2, DiscsAssumption DEF TypeInv, DiscOK, DsdReadable, Frames
    <3>2. i \in DOMAIN y.slices /\ s[i][1] = t + g + a + i - 1
      BY DEF FixedSlices
    <3>3. t \in Nat /\ g \in Nat /\ a \in Nat /\ disc.last \in Nat
      <4>1. n \in Nat /\ disc.format \in {"dsd14", "dsd16"} /\ t \in Nat /\ disc.last \in Nat
        BY <1>2, DiscFacts DEF TypeInv, Frames, Formats
      <4>2. y.mul \in Nat /\ y.add \in Nat
        BY <4>1, Tables DEF TableOK
      <4>3. n \div 3 \in Nat
        BY <4>1
      <4> QED
        BY <4>1, <4>2, <4>3
    <3>4. i \in Nat /\ Len(y.slices) \in Nat /\ i <= Len(y.slices)
      <4>1. n \in Nat /\ disc.format \in {"dsd14", "dsd16"}
        BY <1>2, DiscFacts DEF TypeInv, Frames, Formats
      <4>2. Len(y.slices) \in Nat /\ DOMAIN y.slices = 1..Len(y.slices)
        BY <4>1, Tables DEF TableOK
      <4> QED
        BY <3>2, <4>2
    <3> DEFINE len == Len(y.slices)
    <3> HIDE DEF t, g, a, s, len
    <3>5. t + g + a + len - 1 <= disc.last /\ len \in Nat /\ i <= len
      BY <3>1, <3>4 DEF len
    <3> QED
      BY <3>2, <3>3, <3>4, <3>5
  <2> HIDE DEF s, out
  <2>4. /\ res'.op = op /\ res'.n = n /\ res'.kind = kind
        /\ res'.status \in {"ok", "error"}
        /\ res'.status = "ok" => res'.out = out
        /\ disc.input = "file" => res'.status # "error"
    BY <2>1, <2>3 DEF Return
  <2>5. \A r : AudioByte(r)' = AudioByte(r)
    BY DEF AudioByte
  <2>6. \A r, t : Disjoint(r, t)' = Disjoint(r, t)
    BY DEF Disjoint, AudioByte
  <2>7. ResultExact'
    BY <1>2, <2>2, <2>4, <2>5, <2>6 DEF ResultExact
  <2>8. Kept
    BY <2>1, SameCache
  <2> QED
    BY <2>4, <2>7, <2>8 DEF EveryFrameReadable
<1> QED
  BY <1>1, <1>2

LEMMA ReadInitIInv == ReadInit => ReadIInv
<1> SUFFICES ASSUME ReadInit PROVE ReadIInv
  OBVIOUS
<1>1. disc.total \in Nat \ {0} /\ MaxFaults \in Nat
  BY DiscFacts, DiscsAssumption DEF ReadInit
<1>2. 0 \in Frames
  BY <1>1 DEF Frames
<1>3. TypeInv
  BY <1>1, <1>2 DEF ReadInit, TypeInv, NoResult
<1>4. CacheInv
  BY DEF ReadInit, CacheInv
<1>5. FrameExact
  BY <1>3, Exactness DEF ReadInit, NoResult, ResultExact
<1>6. EveryFrameReadable
  BY DEF ReadInit, NoResult, EveryFrameReadable
<1> QED
  BY <1>3, <1>4, <1>5, <1>6 DEF ReadIInv

\* The invariant from its parts.
LEMMA Together ==
    ASSUME TypeInv', CacheInv', ResultExact', EveryFrameReadable'
    PROVE  ReadIInv'
BY Exactness, PTL DEF ReadIInv

LEMMA NextTypes ==
    ASSUME TypeInv, Kept, cur' \in Frames, faults' \in 0..MaxFaults,
           res'.status \in {"none", "ok", "error"}, res'.n \in Frames
    PROVE  TypeInv' /\ CacheInv'
BY KeptCache DEF TypeInv, Kept, Frames

LEMMA GetDataIInv ==
    ASSUME ReadIInv, NEW n \in Frames, NEW kind \in Kinds, GetData(n, kind)
    PROVE  ReadIInv'
<1>1. ReadFrame("read", n, kind) /\ disc' = disc /\ cur' = cur /\ faults' = faults
  BY DEF GetData
<1>2. Kept /\ ResultExact' /\ EveryFrameReadable' /\ res'.n = n /\ res'.status \in {"ok", "error"}
  BY <1>1, ReadStep DEF ReadIInv
<1>3. TypeInv' /\ CacheInv'
  BY <1>1, <1>2, NextTypes DEF ReadIInv, TypeInv
<1> QED
  BY <1>2, <1>3, Together

LEMMA GetCurrentIInv ==
    ASSUME ReadIInv, NEW kind \in Kinds, GetCurrent(kind)
    PROVE  ReadIInv'
<1> DEFINE op == IF cur + 1 > disc.total - 1 THEN "last" ELSE "read"
<1>1. /\ ReadFrame(op, cur, kind) /\ disc' = disc /\ faults' = faults
      /\ cur' = IF res'.status # "ok" THEN cur
                ELSE IF cur + 1 > disc.total - 1 THEN 0 ELSE cur + 1
  BY DEF GetCurrent
<1>2. cur \in Frames /\ op \in {"read", "last"}
  BY DEF ReadIInv, TypeInv
<1> HIDE DEF op
<1>3. /\ Kept /\ ResultExact' /\ EveryFrameReadable'
      /\ res'.n = cur /\ res'.status \in {"ok", "error"}
  BY <1>1, <1>2, ReadStep DEF ReadIInv
<1>4. cur' \in Frames
  <2>1. disc.total \in Nat \ {0}
    BY DiscFacts DEF ReadIInv, TypeInv
  <2> QED
    BY <1>1, <1>2, <2>1 DEF Frames
<1>5. TypeInv' /\ CacheInv'
  BY <1>1, <1>2, <1>3, <1>4, NextTypes DEF ReadIInv, TypeInv
<1> QED
  BY <1>3, <1>5, Together

LEMMA SetCurrentIInv ==
    ASSUME ReadIInv, NEW n \in Frames, SetCurrent(n)
    PROVE  ReadIInv'
<1>1. cur' = n /\ disc' = disc /\ cache' = cache /\ res' = res /\ faults' = faults
  BY DEF SetCurrent
<1>2. ResultExact /\ EveryFrameReadable
  BY Exactness DEF ReadIInv
<1>3. TypeInv' /\ CacheInv'
  BY <1>1, SameCache, NextTypes DEF ReadIInv, TypeInv
<1>4. ResultExact' /\ EveryFrameReadable'
  <2>1. \A m, kind : PlacesOf(m, kind)' = PlacesOf(m, kind)
    BY <1>1 DEF PlacesOf, Places
  <2>2. \A r, t : AudioByte(r)' = AudioByte(r) /\ Disjoint(r, t)' = Disjoint(r, t)
    BY <1>1 DEF AudioByte, Disjoint
  <2> QED
    BY <1>1, <1>2, <2>1, <2>2 DEF ResultExact, EveryFrameReadable
<1> QED
  BY <1>3, <1>4, Together

LEMMA TakeResultIInv ==
    ASSUME ReadIInv, TakeResult
    PROVE  ReadIInv'
<1>1. cur' = cur /\ disc' = disc /\ cache' = cache /\ res' = NoResult /\ faults' = faults
  BY DEF TakeResult
<1>2. res'.status = "none" /\ res'.n = 0
  BY <1>1 DEF NoResult
<1>3. 0 \in Frames
  BY DiscFacts DEF ReadIInv, TypeInv, Frames
<1>4. TypeInv' /\ CacheInv'
  BY <1>1, <1>2, <1>3, SameCache, NextTypes DEF ReadIInv, TypeInv
<1> QED
  BY <1>2, <1>4, NoOutput, Together

LEMMA ReadFaultIInv ==
    ASSUME ReadIInv, NEW n \in Frames, NEW kind \in Kinds, ReadFault(n, kind)
    PROVE  ReadIInv'
<1>1. /\ cur' = cur /\ disc' = disc /\ faults < MaxFaults /\ faults' = faults + 1
      /\ Return("read", n, kind, "error", {}, FALSE, TRUE)
      /\ cache' = cache \/ cache' = [cache EXCEPT !.valid = FALSE]
  BY DEF ReadFault, DstReadFails
<1>2. res'.status = "error" /\ res'.n = n /\ res'.faulty
  BY <1>1 DEF Return
<1>3. Kept
  <2>1. CASE cache' = cache
    BY <1>1, <2>1, SameCache DEF ReadIInv
  <2>2. CASE cache' = [cache EXCEPT !.valid = FALSE]
    <3>1. /\ cache' \in [num : Nat, lsn : Nat, valid : BOOLEAN, known : BOOLEAN]
          /\ cache'.valid = FALSE
      BY <2>2 DEF ReadIInv, TypeInv
    <3> QED
      BY <1>1, <3>1 DEF Kept
  <2> QED
    BY <1>1, <2>1, <2>2
<1>4. faults' \in 0..MaxFaults
  BY <1>1, DiscsAssumption DEF ReadIInv, TypeInv
<1>5. TypeInv' /\ CacheInv'
  BY <1>1, <1>2, <1>3, <1>4, NextTypes DEF ReadIInv, TypeInv
<1> QED
  BY <1>2, <1>5, NoOutput, Together

LEMMA GetSectorIInv ==
    ASSUME ReadIInv, NEW n \in Frames, GetSector(n)
    PROVE  ReadIInv'
<1>1. cur' = cur /\ disc' = disc /\ cache' = cache /\ faults' = faults /\ disc \in Discs
  BY DEF GetSector, ReadIInv, TypeInv
<1>2. /\ res'.op = "sector" /\ res'.n = n /\ res'.status \in {"ok", "error"}
      /\ disc.format = "dst" /\ res'.status = "ok" =>
            res'.out = {<<Sector(n), disc.span[n]>>}
      /\ disc.input = "file" => res'.status = "ok"
  <2>1. CASE disc.format = "dst" /\ DstSectorSeek(n) = None
    <3>1. Return("sector", n, "audio", "error", {}, FALSE, FALSE)
      BY <2>1 DEF GetSector
    <3>2. disc.input # "file"
      <4>1. Sector(n) # None
        BY <1>1, <2>1, StartIs, NoneAssumption
      <4> QED
        BY <1>1, <2>1, <4>1, SeekIs
    <3> QED
      BY <3>1, <3>2 DEF Return
  <2>2. CASE disc.format = "dst" /\ DstSectorSeek(n) # None
    <3>1. Return("sector", n, "audio", "ok", {<<DstSectorSeek(n), disc.span[n]>>}, FALSE, FALSE)
      BY <2>2 DEF GetSector
    <3>2. DstSectorSeek(n) = Sector(n)
      BY <1>1, <2>2, SeekIs
    <3> QED
      BY <3>1, <3>2 DEF Return
  <2>3. CASE disc.format # "dst"
    <3>1. Return("sector", n, "audio", "ok",
                 {<<FixedSlices(n)[1][1], Len(FixedSlices(n))>>}, FALSE, FALSE)
      BY <2>3 DEF GetSector
    <3> QED
      BY <2>3, <3>1 DEF Return
  <2> QED
    BY <2>1, <2>2, <2>3
<1>3. TypeInv' /\ CacheInv'
  BY <1>1, <1>2, SameCache, NextTypes DEF ReadIInv, TypeInv
<1>4. ResultExact'
  <2>1. PlacesOf(n, "audio")' = PlacesOf(n, "audio")
    BY <1>1 DEF PlacesOf, Places
  <2>2. disc.format = "dst" => First(PlacesOf(n, "audio"))[1] = Sector(n)
    BY <1>1, FirstPlace DEF Sector
  <2>3. disc.format = "dst" /\ res'.status = "ok" =>
           res'.out = {<<First(PlacesOf(n, "audio")')[1], disc.span[n]>>}
    BY <1>2, <2>1, <2>2
  <2> QED
    BY <1>1, <1>2, <2>3 DEF ResultExact, PlacesOf, Places
<1>5. EveryFrameReadable'
  BY <1>1, <1>2 DEF EveryFrameReadable
<1> QED
  BY <1>3, <1>4, <1>5, Together

LEMMA ReadStutterIInv ==
    ASSUME ReadIInv, UNCHANGED read_vars
    PROVE  ReadIInv'
<1>1. cur' = cur /\ disc' = disc /\ cache' = cache /\ res' = res /\ faults' = faults
  BY DEF read_vars
<1>2. ResultExact /\ EveryFrameReadable
  BY Exactness DEF ReadIInv
<1>3. TypeInv' /\ CacheInv'
  BY <1>1, SameCache, NextTypes DEF ReadIInv, TypeInv
<1>4. ResultExact' /\ EveryFrameReadable'
  <2>1. \A m, kind : PlacesOf(m, kind)' = PlacesOf(m, kind)
    BY <1>1 DEF PlacesOf, Places
  <2>2. \A r, t : AudioByte(r)' = AudioByte(r) /\ Disjoint(r, t)' = Disjoint(r, t)
    BY <1>1 DEF AudioByte, Disjoint
  <2> QED
    BY <1>1, <1>2, <2>1, <2>2 DEF ResultExact, EveryFrameReadable
<1> QED
  BY <1>3, <1>4, Together

LEMMA ReadStepIInv == ReadIInv /\ [ReadNext]_read_vars => ReadIInv'
<1> SUFFICES ASSUME ReadIInv, [ReadNext]_read_vars PROVE ReadIInv'
  OBVIOUS
<1>1. CASE \E n \in Frames, kind \in Kinds : GetData(n, kind) \/ ReadFault(n, kind)
  BY <1>1, GetDataIInv, ReadFaultIInv
<1>2. CASE \E kind \in Kinds : GetCurrent(kind)
  BY <1>2, GetCurrentIInv
<1>3. CASE \E n \in Frames : SetCurrent(n) \/ GetSector(n)
  BY <1>3, SetCurrentIInv, GetSectorIInv
<1>4. CASE TakeResult
  BY <1>4, TakeResultIInv
<1>5. CASE UNCHANGED read_vars
  BY <1>5, ReadStutterIInv
<1> QED
  BY <1>1, <1>2, <1>3, <1>4, <1>5 DEF ReadNext

\* The state is well typed, the position that the reader remembers leads to the
\* next frame, and results are right, whatever was read before
\* (sacd_dst_reader.c:497-652).
THEOREM ReadInvariance == ReadSpec => []ReadIInv
<1>1. ReadInit => ReadIInv
  BY ReadInitIInv
<1>2. ReadIInv /\ [ReadNext]_read_vars => ReadIInv'
  BY ReadStepIInv
<1> QED
  BY <1>1, <1>2, PTL DEF ReadSpec

\* A read that succeeds returns the packets of its frame, all of them and no
\* others; the slices of a plain DSD frame cover its bytes, each once; the
\* sector reported is where the frame starts (sacd_dst_reader.c:497-508,
\* 558-652; sacd_dsd_reader.c:152-178).
THEOREM FramesExact == ReadSpec => []FrameExact
<1>1. ReadIInv => FrameExact
  BY DEF ReadIInv
<1> QED
  BY <1>1, ReadInvariance, PTL

\* Every frame of an image file can be read at any time, after failed reads and
\* after wrong guesses of the access list too (sacd_dst_reader.c:368-381, 518-528).
THEOREM FramesReadable == ReadSpec => []EveryFrameReadable
<1>1. ReadIInv => EveryFrameReadable
  BY DEF ReadIInv
<1> QED
  BY <1>1, ReadInvariance, PTL
============================================================================
