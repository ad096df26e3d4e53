--------------------------- MODULE PipelineProofs ---------------------------
(***************************************************************************)
(* Proofs about a run of the pipeline, for any number of tracks, frames    *)
(* and sinks and any size of the queue and the batches: what the sinks get *)
(* and in which order, that a success is complete and a failure reported,  *)
(* that buffers go back to their pools, and what a cancelled run still     *)
(* does.                                                                   *)
(***************************************************************************)
EXTENDS Pipeline, SequenceTheorems, WellFoundedInduction, NaturalsInduction, TLAPS

----------------------------------------------------------------------------
(* Types, and where the main thread is.                                    *)

Busy == {"decode", "dsd", "convert", "pcm", "release"}
Looping == {"loop", "pop", "empty"} \union Busy
Closing == {"clean", "cancel", "cancelqueue", "wait", "shutdown", "join"}

\* The main thread has a frame queue and a reader thread.
Active == Looping \union Closing

\* Nothing has gone wrong in the main thread so far.
Before == {"start", "open", "track", "tstart"}

MainPcs == Before \union Active \union {"trackend", "final", "returned"}
ReaderPcs == {"wait", "reset", "seek", "check", "read", "push", "finish", "eof",
              "seekeof", "stop", "stopqueue", "exited"}

Frame == [n : 0..Length, last : BOOLEAN]
PipeType == [state : {"CONFIGURED", "RUNNING", "FINISHED", "ERROR"}, cancelled : BOOLEAN,
             decoder : BOOLEAN, dsd2pcm : BOOLEAN]
MainType == [pc : MainPcs, track : 0..(Tracks + 1), k : Nat, j : 1..(MaxBatch + 1),
             batch : Seq(0..Length), complete : BOOLEAN, result : Codes,
             noend : BOOLEAN]
SinkType == [open : BOOLEAN, track : 0..Tracks, log : Seq((1..Tracks) \X (1..Length))]
QueueType == [fifo : Seq(Frame), eof : BOOLEAN, cancelled : BOOLEAN, open : BOOLEAN]
ReaderType == [pc : ReaderPcs, pending : BOOLEAN, finished : BOOLEAN, error : Codes,
               cancelled : BOOLEAN, shutdown : BOOLEAN, pos : 0..Length, frame : Frame]

Types ==
    /\ setup \in Setups
    /\ pipe \in PipeType
    /\ main \in MainType /\ main.k \in 1..(Len(setup.caps) + 1) /\ N <= MaxBatch
    /\ sinks \in [Sinks -> SinkType]
    /\ queue \in QueueType /\ Len(queue.fifo) <= QCapacity
    /\ reader \in ReaderType
    /\ bufs \in [dsd : Int, pcm : Int]
    /\ given \in Seq((1..Tracks) \X (1..Length))
    /\ hit \subseteq Kinds /\ late \in Nat

----------------------------------------------------------------------------
(* Control: which states of the two threads go together.                   *)

\* The main thread's own variables.
MainInv ==
    /\ main.pc = "track" => main.track # 0
    /\ main.pc \in Active \union {"tstart", "trackend"} => main.track \in 1..Tracks
    /\ main.pc \in Before \union Looping => main.result = "OK"
    /\ main.pc \in {"cancel", "cancelqueue"} => main.result # "OK" \/ pipe.cancelled
    /\ main.noend => main.result # "OK" /\ "alloc" \in hit
    /\ main.pc \in {"tstart", "pop", "empty"} => ~main.complete
    /\ main.pc \notin {"start", "returned"} =>
         /\ pipe.dsd2pcm = needs_pcm /\ pipe.decoder = needs_decoder
         /\ needs_pcm /\ setup.src = "DST" => needs_decoder

\* The queue and the reader exist while a track is processed; the flags that
\* stop the reader are set by the main thread, the queue's after the reader's.
ThreadsInv ==
    /\ queue.open <=> main.pc \in Active
    /\ main.pc \notin Active => reader.pc = "exited" /\ queue.fifo = <<>>
    /\ reader.pc = "exited" /\ main.pc \in Active => reader.shutdown
    /\ reader.shutdown => reader.cancelled
    /\ main.pc \in Active /\ queue.cancelled => reader.cancelled
    /\ main.pc \in Looping \union {"clean", "cancel"} => ~reader.cancelled
    /\ main.pc \in {"cancelqueue", "shutdown"} \/ reader.pc = "stopqueue" => reader.cancelled
    /\ main.pc \in Active /\ reader.shutdown => main.pc \in {"shutdown", "join"}

\* The reader still has frames to read.
Reading == reader.pending \/ reader.pc \in {"reset", "seek", "check", "read", "push"}

\* The reader: it stops at the last frame of the track, where it has marked
\* the frame as the last, at the early end of the track, or at an error.
ReaderInv ==
    /\ reader.pending => reader.pc = "wait" /\ ~reader.finished /\ ~reader.shutdown
    /\ reader.pending \/ reader.pc \in {"reset", "seek"} =>
         reader.pos = 0 /\ queue.fifo = <<>>
    /\ Reading => reader.error = "OK" /\ ~queue.eof
    /\ reader.pc \in {"check", "read"} => reader.pos < Length
    /\ reader.pc = "push" =>
         \/ reader.frame.n = 0 /\ reader.frame.last /\ "short" \in hit
         \/ /\ reader.frame.n = reader.pos /\ reader.pos # 0
            /\ reader.frame.last <=> reader.pos = Length

\* What the queue says of the end of the track.
LastInv ==
    /\ \A i \in DOMAIN queue.fifo : queue.fifo[i].last => i = Len(queue.fifo)
    /\ main.pc \in Active /\ (Reading \/ reader.error # "OK") =>
         ~main.complete /\ \A i \in DOMAIN queue.fifo : ~queue.fifo[i].last
    /\ main.pc \in Active /\ ~Reading /\ reader.error = "OK" /\ ~reader.cancelled =>
         /\ main.complete \/ (queue.fifo # <<>> /\ queue.fifo[Len(queue.fifo)].last)
         /\ reader.pos = Length \/ "short" \in hit
    /\ main.pc \in Active /\ main.complete =>
         queue.fifo = <<>> /\ (reader.pos = Length \/ "short" \in hit)
    /\ main.pc = "empty" => reader.error # "OK"

ControlInv == Types /\ MainInv /\ ThreadsInv /\ ReaderInv /\ LastInv

----------------------------------------------------------------------------
(* Faults, the ends of tracks, cancellation and buffers.                   *)

\* A failure is on its way to the result of the run: in the result already,
\* in the reader's error, or behind the cancellation that takes its place.
FaultInv ==
    /\ hit \ {"short", "end", "finalize"} # {} =>
         \/ main.result # "OK"
         \/ main.pc \in Active /\ reader.error # "OK"
         \/ main.pc = "trackend" /\ pipe.cancelled
    /\ main.pc \in Closing \union {"trackend"} /\ main.result = "OK" /\ ~pipe.cancelled =>
         main.complete

\* Between two tracks no sink is in a track.
SinkInv ==
    /\ main.pc \in {"start", "open", "track"} => \A k \in Sinks : sinks[k].track = 0
    /\ TrackEndsFirst

\* Frames of the current batch that the sinks of each kind may have been
\* given since the pipeline was cancelled.
Feeds(p) == IF p THEN 1 ELSE 0
LateInv ==
    /\ main.pc \in {"start", "open", "track", "tstart", "pop", "empty", "decode"}
           \/ ~pipe.cancelled => late = 0
    /\ main.pc = "dsd" => late < main.j /\ (~needs_dsd => late = 0)
    /\ main.pc \in {"dsd", "pcm"} => main.j <= N + 1
    /\ main.pc \in {"convert", "pcm"} => needs_pcm
    /\ main.pc = "convert" => late <= N * Feeds(needs_dsd)
    /\ main.pc = "pcm" => late < N * Feeds(needs_dsd) + main.j
    /\ CancelBounded

\* The buffers of the DSD pool that are in use: those of the queue, the one
\* the reader is filling, and those of the batch.
HeldByReader == IF reader.pc \in {"read", "push"} THEN 1 ELSE 0
HeldByMain == IF main.pc = "decode" THEN N
              ELSE IF main.pc \in Busy THEN PerFrame * N ELSE 0

BufInv ==
    /\ bufs.dsd >= Len(queue.fifo) + HeldByReader + HeldByMain
    /\ "writedsd" \notin hit => bufs.dsd = Len(queue.fifo) + HeldByReader + HeldByMain
    /\ bufs.pcm = IF main.pc = "pcm" THEN N - main.j + 1 ELSE 0

\* After a failed DSD write, the buffers of the frames written before it are
\* in use as well, and nothing gives them back.
LeftInv ==
    "writedsd" \in hit =>
      /\ main.result # "OK"
      /\ bufs.dsd = Len(queue.fifo) + HeldByReader + PerFrame * (main.j - 1)

----------------------------------------------------------------------------
(* The way of the frames from the source to the sinks.                     *)

\* The tracks of the frames of g are before track t.
Earlier(g, t) == \A i \in 1..Len(g) : g[i][1] < t

\* After frames of earlier tracks come the first p frames of track t.
Handed(g, p, t) ==
    /\ p <= Len(g)
    /\ \A i \in 1..(Len(g) - p) : g[i][1] < t
    /\ \A i \in 1..p : g[Len(g) - p + i] = <<t, i>>

\* The source handed out the frames of the current track last.
GivenInv ==
    /\ TrackByTrack(given)
    /\ main.pc \in {"start", "open"} => given = <<>>
    /\ main.pc \in {"track", "tstart"} => Earlier(given, main.track)
    /\ main.pc = "trackend" => Earlier(given, main.track + 1)
    /\ main.pc \in Active => Handed(given, reader.pos, main.track)

\* The frames among the first i of the batch, or of the queue: the empty
\* buffer that reports an early end is none.
InBatch(i) == IF i > 0 /\ main.batch[i] = 0 THEN i - 1 ELSE i
InQueue == IF queue.fifo # <<>> /\ queue.fifo[Len(queue.fifo)].n = 0
           THEN Len(queue.fifo) - 1 ELSE Len(queue.fifo)

\* The frames of the batch at hand, and of them those written already to the
\* sinks that take the format of the batch, and to those that take PCM.
Batch == IF main.pc \in Busy THEN N ELSE 0
WrittenDsd == IF main.pc = "dsd" THEN InBatch(main.j - 1)
              ELSE IF main.pc \in {"convert", "pcm", "release"} THEN InBatch(N) ELSE 0
WrittenPcm == IF main.pc = "pcm" THEN InBatch(main.j - 1)
              ELSE IF main.pc = "release" THEN InBatch(N) ELSE 0

\* The frames handed out before the current track, and the frame that the
\* reader is about to push.
Base == Len(given) - reader.pos
Pushing == IF reader.pc = "push" /\ reader.frame.n # 0 THEN 1 ELSE 0

\* The batch, and the queue, hold the frames after the first c of the track.
BatchAfter(c) ==
    \A i \in 1..Batch : \/ main.batch[i] = c + i
                        \/ main.batch[i] = 0 /\ i = N /\ main.complete
QueueAfter(c) ==
    \A i \in 1..Len(queue.fifo) : \/ queue.fifo[i].n = c + i
                                  \/ queue.fifo[i].n = 0 /\ queue.fifo[i].last

\* With the batches before this one the first c frames of the track have gone
\* to the sinks; then come the frames of the batch, those of the queue and the
\* one the reader is about to push.
Flow(c) ==
    /\ BatchAfter(c) /\ QueueAfter(c + Batch)
    /\ reader.pos = c + InBatch(Batch) + InQueue + Pushing
    /\ \A k \in Accepting(Format) : Len(sinks[k].log) = Base + c + WrittenDsd
    /\ \A k \in Accepting("PCM") : Len(sinks[k].log) = Base + c + WrittenPcm

InSourceOrder == \A k \in Sinks : IsPrefix(sinks[k].log, given)

\* The sinks that are fed have all that the source handed out.
AllWritten ==
    \A k \in Accepting(Format) \union Accepting("PCM") : sinks[k].log = given

\* The source handed out the whole track, unless it ended early.
Whole(t) == <<t, Length>> \in Range(given) \/ "short" \in hit

FlowInv ==
    /\ InSourceOrder
    /\ main.pc \in Looping => \E c \in 0..Length : Flow(c)
    /\ main.pc \in Closing \union {"trackend"} /\ main.result = "OK" /\ main.complete =>
         AllWritten
    /\ main.pc \in {"track", "tstart"} => AllWritten
    /\ main.pc \in {"final", "returned"} /\ main.result = "OK" => AllWritten

WholeInv ==
    /\ main.pc # "start" => pipe.decoder = needs_decoder
    /\ main.pc \in Active \union {"track", "tstart", "trackend"} =>
         \A t \in 1..(main.track - 1) : Whole(t)
    /\ main.pc = "trackend" /\ main.complete => Whole(main.track)
    /\ main.pc \in {"final", "returned"} /\ main.result = "OK" =>
         \A t \in 1..Tracks : Whole(t)

----------------------------------------------------------------------------
(* Lemmas.                                                                 *)

\* A set of naturals that is not empty has a least element.
LEMMA LeastIs ==
    ASSUME NEW B \in SUBSET Nat, NEW b \in B
    PROVE  Min(B) \in B /\ \A y \in B : Min(B) <= y
<1> DEFINE R == OpToRel(<, Nat)
<1>1. IsWellFoundedOn(R, Nat)
  BY NatLessThanWellFounded
<1>2. \A x, y \in Nat : x < y => <<x, y>> \in R
  BY DEF OpToRel
<1> HIDE DEF R
<1>3. PICK x \in B : \A y \in B : <<y, x>> \notin R
  BY <1>1, WFMin
<1>4. \A y \in B : x <= y
  <2>1. \A y \in B : ~(y < x)
    BY <1>2, <1>3
  <2> QED
    BY <2>1
<1> QED
  BY <1>4 DEF Min

\* A batch ends with the first last frame of the queue, if it gets that far.
LEMMA BatchIs ==
    ASSUME NEW q \in Seq(Frame)
    PROVE  /\ BatchLen(q, MaxBatch) \in 0..Len(q) /\ BatchLen(q, MaxBatch) <= MaxBatch
           /\ q # <<>> => BatchLen(q, MaxBatch) > 0
           /\ \A i \in 1..(BatchLen(q, MaxBatch) - 1) : ~q[i].last
<1> DEFINE B == {Len(q), MaxBatch} \union {i \in 1..Len(q) : q[i].last}
           m == Min(B)
<1> USE PipelineConstants
<1>1. B \in SUBSET Nat /\ MaxBatch \in B /\ Len(q) \in Nat
  OBVIOUS
<1>2. m \in B /\ \A y \in B : m <= y
  BY <1>1, LeastIs
<1>3. BatchLen(q, MaxBatch) = m
  BY DEF BatchLen
<1> HIDE DEF m
<1>4. m \in 0..Len(q) /\ m <= MaxBatch /\ (q # <<>> => m > 0)
  BY <1>1, <1>2
<1>5. ASSUME NEW i \in 1..(m - 1), q[i].last PROVE FALSE
  BY <1>1, <1>2, <1>4, <1>5
<1> QED
  BY <1>3, <1>4, <1>5

\* The sinks are numbered, and what each of them takes is one of Capabilities.
LEMMA SetupFacts ==
    ASSUME setup \in Setups
    PROVE  /\ setup.src \in {"DSD", "DST"} /\ setup.caps \in Seq(Capabilities)
           /\ Sinks = 1..Len(setup.caps) /\ Len(setup.caps) \in Nat
           /\ \A k \in Sinks : setup.caps[k] \in Capabilities
BY PipelineConstants DEF Sinks

\* The sizes and places of what the records hold.
LEMMA Sizes ==
    ASSUME Types
    PROVE  /\ setup \in Setups /\ Sinks = 1..Len(setup.caps) /\ Len(setup.caps) \in Nat
           /\ main.track \in 0..(Tracks + 1) /\ main.k \in 1..(Len(setup.caps) + 1)
           /\ main.j \in 1..(MaxBatch + 1) /\ main.batch \in Seq(0..Length)
           /\ N = Len(main.batch) /\ N \in 0..MaxBatch
           /\ queue.fifo \in Seq(Frame) /\ Len(queue.fifo) \in 0..QCapacity
           /\ DOMAIN queue.fifo = 1..Len(queue.fifo)
           /\ reader.pos \in 0..Length /\ reader.frame \in Frame
           /\ bufs.dsd \in Int /\ bufs.pcm \in Int /\ PerFrame \in 1..2
           /\ late \in Nat /\ given \in Seq((1..Tracks) \X (1..Length))
<1> USE PipelineConstants
<1>1. /\ setup \in Setups /\ main \in MainType /\ queue \in QueueType
      /\ reader \in ReaderType /\ late \in Nat
      /\ bufs \in [dsd : Int, pcm : Int]
      /\ main.k \in 1..(Len(setup.caps) + 1) /\ N <= MaxBatch
      /\ Len(queue.fifo) <= QCapacity /\ given \in Seq((1..Tracks) \X (1..Length))
  BY Zenon DEF Types
<1>2. Sinks = 1..Len(setup.caps) /\ Len(setup.caps) \in Nat
  BY <1>1, SetupFacts
<1>3. /\ main.track \in 0..(Tracks + 1) /\ main.j \in 1..(MaxBatch + 1)
      /\ main.batch \in Seq(0..Length)
  BY <1>1, Zenon DEF MainType
<1>4. N = Len(main.batch) /\ Len(main.batch) \in 0..MaxBatch
  BY <1>1, <1>3 DEF N
<1>5. queue.fifo \in Seq(Frame)
  BY <1>1, Zenon DEF QueueType
<1>6. Len(queue.fifo) \in 0..QCapacity /\ DOMAIN queue.fifo = 1..Len(queue.fifo)
  BY <1>1, <1>5
<1>7. reader.pos \in 0..Length /\ reader.frame \in Frame
  BY <1>1, Zenon DEF ReaderType
<1>8. bufs.dsd \in Int /\ bufs.pcm \in Int /\ PerFrame \in 1..2
  BY <1>1 DEF PerFrame
<1> QED
  BY <1>1, <1>2, <1>3, <1>4, <1>5, <1>6, <1>7, <1>8

\* The codes and flags of the records.
LEMMA Flags ==
    ASSUME Types
    PROVE  /\ main.pc \in MainPcs /\ main.result \in Codes
           /\ main.complete \in BOOLEAN /\ main.noend \in BOOLEAN
           /\ queue.eof \in BOOLEAN /\ queue.cancelled \in BOOLEAN /\ queue.open \in BOOLEAN
           /\ reader.pc \in ReaderPcs /\ reader.error \in Codes
           /\ reader.pending \in BOOLEAN /\ reader.cancelled \in BOOLEAN
           /\ reader.shutdown \in BOOLEAN
           /\ pipe.cancelled \in BOOLEAN /\ pipe.decoder \in BOOLEAN
           /\ pipe.dsd2pcm \in BOOLEAN
BY Zenon DEF Types, MainType, QueueType, ReaderType, PipeType

\* Values that the actions start from.
LEMMA Consts ==
    /\ 1 \in Nat /\ 1 \in 0..(Tracks + 1) /\ 1 \in 1..(MaxBatch + 1)
    /\ 0 \in 0..Length /\ 0 \in Int /\ 0 \in 0..Tracks
    /\ <<>> \in Seq(Frame) /\ Len(<<>>) = 0 /\ Len(<<>>) <= QCapacity
BY PipelineConstants

\* A new queue and a new reader.
LEMMA NewIs ==
    /\ NewQueue \in QueueType /\ NewReader \in ReaderType
    /\ NewQueue.fifo = <<>> /\ ~NewQueue.eof /\ ~NewQueue.cancelled /\ NewQueue.open
    /\ NewReader.pc = "wait" /\ NewReader.pending /\ ~NewReader.finished
    /\ NewReader.error = "OK" /\ ~NewReader.cancelled /\ ~NewReader.shutdown
    /\ NewReader.pos = 0
<1>1. /\ NewQueue.fifo = <<>> /\ ~NewQueue.eof /\ ~NewQueue.cancelled /\ NewQueue.open
      /\ NewReader.pc = "wait" /\ NewReader.pending /\ ~NewReader.finished
      /\ NewReader.error = "OK" /\ ~NewReader.cancelled /\ ~NewReader.shutdown
      /\ NewReader.pos = 0
  BY DEF NewQueue, NewReader
<1>2. NewQueue \in QueueType
  BY Consts, Zenon DEF NewQueue, QueueType
<1>3. [n |-> 0, last |-> FALSE] \in Frame
  BY Consts, Zenon DEF Frame
<1>4. NewReader \in ReaderType
  BY <1>3, Consts, Zenon DEF NewReader, ReaderType, ReaderPcs, Codes
<1> QED
  BY <1>1, <1>2, <1>4

\* The setup of the pipeline does not change, so neither do the sinks' needs.
LEMMA NeedsSame ==
    ASSUME setup' = setup
    PROVE  /\ Sinks' = Sinks /\ needs_pcm' = needs_pcm /\ needs_dsd' = needs_dsd
           /\ needs_decoder' = needs_decoder
           /\ \A f : Accepting(f)' = Accepting(f)
BY Zenon DEF Sinks, needs_pcm, needs_dsd, needs_decoder, can_accept_dst, Accepting

\* One sink is opened, or told of the start of a track.
SinkOpened(k) == [sinks EXCEPT ![k].open = TRUE]
SinkStarted(k) == [sinks EXCEPT ![k].track = main.track]

LEMMA SinkSet ==
    ASSUME Types, NEW k \in Sinks
    PROVE  /\ SinkOpened(k) \in [Sinks -> SinkType]
           /\ \A i \in Sinks : /\ SinkOpened(k)[i].log = sinks[i].log
                               /\ SinkOpened(k)[i].track = sinks[i].track
           /\ main.track \in 0..Tracks => SinkStarted(k) \in [Sinks -> SinkType]
           /\ \A i \in Sinks : SinkStarted(k)[i].log = sinks[i].log
<1>1. sinks \in [Sinks -> SinkType] /\ sinks[k] \in SinkType
  BY DEF Types
<1>2. PICK r : r = [sinks[k] EXCEPT !.open = TRUE]
  OBVIOUS
<1>3. r \in SinkType /\ r.log = sinks[k].log /\ r.track = sinks[k].track
  BY <1>1, <1>2, Zenon DEF SinkType
<1>4. PICK s : s = [sinks[k] EXCEPT !.track = main.track]
  OBVIOUS
<1>5. (main.track \in 0..Tracks => s \in SinkType) /\ s.log = sinks[k].log
  BY <1>1, <1>4, Zenon DEF SinkType
<1>6. SinkOpened(k) = [sinks EXCEPT ![k] = r] /\ SinkStarted(k) = [sinks EXCEPT ![k] = s]
  BY <1>2, <1>4, Zenon DEF SinkOpened, SinkStarted
<1>7. /\ [sinks EXCEPT ![k] = r] \in [Sinks -> SinkType]
      /\ \A i \in Sinks : [sinks EXCEPT ![k] = r][i] = IF i = k THEN r ELSE sinks[i]
  BY <1>1, <1>3
<1>8. /\ main.track \in 0..Tracks => [sinks EXCEPT ![k] = s] \in [Sinks -> SinkType]
      /\ \A i \in Sinks : [sinks EXCEPT ![k] = s][i] = IF i = k THEN s ELSE sinks[i]
  BY <1>1, <1>5
<1> QED
  BY <1>3, <1>5, <1>6, <1>7, <1>8, Zenon

\* What a sink has after a frame was written to some of the sinks.
LEMMA WrittenIs ==
    ASSUME Types, main.track \in 1..Tracks, NEW S, NEW n \in 0..Length
    PROVE  /\ Written(S, n) \in [Sinks -> SinkType]
           /\ \A k \in Sinks :
                /\ Written(S, n)[k].track = sinks[k].track
                /\ k \in S /\ n # 0 =>
                     Written(S, n)[k].log = Append(sinks[k].log, <<main.track, n>>)
                /\ ~(k \in S /\ n # 0) => Written(S, n)[k].log = sinks[k].log
<1>1. sinks \in [Sinks -> SinkType]
  BY DEF Types
<1>2. ASSUME NEW k \in Sinks
      PROVE  /\ Written(S, n)[k] \in SinkType
             /\ Written(S, n)[k].track = sinks[k].track
             /\ k \in S /\ n # 0 =>
                  Written(S, n)[k].log = Append(sinks[k].log, <<main.track, n>>)
             /\ ~(k \in S /\ n # 0) => Written(S, n)[k].log = sinks[k].log
  <2>1. sinks[k] \in SinkType
    BY <1>1
  <2>2. PICK l : l = Append(sinks[k].log, <<main.track, n>>)
    OBVIOUS
  <2>3. CASE k \in S /\ n # 0
    <3>1. sinks[k].log \in Seq((1..Tracks) \X (1..Length))
      BY <2>1, Zenon DEF SinkType
    <3>2. n \in 1..Length
      BY <2>3
    <3>3. l \in Seq((1..Tracks) \X (1..Length))
      BY <2>2, <3>1, <3>2
    <3>4. Written(S, n)[k] = [sinks[k] EXCEPT !.log = l]
      BY <2>2, <2>3, Zenon DEF Written
    <3> QED
      BY <2>1, <2>2, <2>3, <3>3, <3>4, Zenon DEF SinkType
  <2>4. CASE ~(k \in S /\ n # 0)
    <3>1. Written(S, n)[k] = sinks[k]
      BY <2>4, Zenon DEF Written
    <3> QED
      BY <2>1, <2>4, <3>1, Zenon
  <2> QED
    BY <2>3, <2>4
<1>3. Written(S, n) \in [Sinks -> SinkType]
  <2>1. Written(S, n) = [k \in Sinks |-> Written(S, n)[k]]
    BY Zenon DEF Written
  <2> QED
    BY <2>1, <1>2, Zenon
<1> QED
  BY <1>2, <1>3, Zenon

\* What a write does: to all the sinks that accept the format, or to the ones
\* before the sink that fails.
LEMMA WriteIs ==
    ASSUME Types, main.track \in 1..Tracks, main.j <= N,
           NEW f, NEW kind, WriteOK(f) \/ WriteFails(f, kind)
    PROVE  /\ main.batch[main.j] \in 0..Length
           /\ sinks' \in [Sinks -> SinkType]
           /\ \A k \in Sinks :
                /\ sinks'[k].track = sinks[k].track
                /\ \/ sinks'[k].log = sinks[k].log
                   \/ /\ k \in Accepting(f) /\ main.batch[main.j] # 0
                      /\ sinks'[k].log = Append(sinks[k].log, <<main.track, main.batch[main.j]>>)
                /\ ~(k \in Accepting(f) /\ main.batch[main.j] # 0) =>
                     sinks'[k].log = sinks[k].log
           /\ late' \in {late, late + 1} /\ late' \in Nat
           /\ hit' \in {hit, hit \union {kind}} /\ hit' \subseteq Kinds
           /\ WriteOK(f) =>
                /\ hit' = hit /\ (~pipe.cancelled => late' = late)
                /\ \A k \in Sinks : k \in Accepting(f) /\ main.batch[main.j] # 0 =>
                     sinks'[k].log = Append(sinks[k].log, <<main.track, main.batch[main.j]>>)
           /\ ~WriteOK(f) => late' = late /\ hit' = hit \union {kind}
<1> DEFINE n == main.batch[main.j]
<1>1. n \in 0..Length
  <2>1. /\ main.j \in 1..(MaxBatch + 1) /\ main.batch \in Seq(0..Length)
        /\ N = Len(main.batch) /\ N \in 0..MaxBatch
    BY Sizes
  <2> QED
    BY <2>1, PipelineConstants, SMTT(40)
<1> HIDE DEF n
<1>2. PICK S : /\ S \subseteq Accepting(f) /\ sinks' = Written(S, n)
               /\ WriteOK(f) => S = Accepting(f)
  BY Zenon DEF WriteOK, WriteFails, n
<1>3. /\ Written(S, n) \in [Sinks -> SinkType]
      /\ \A k \in Sinks :
           /\ Written(S, n)[k].track = sinks[k].track
           /\ k \in S /\ n # 0 =>
                Written(S, n)[k].log = Append(sinks[k].log, <<main.track, n>>)
           /\ ~(k \in S /\ n # 0) => Written(S, n)[k].log = sinks[k].log
  BY <1>1, WrittenIs
<1>4. /\ late' \in {late, late + 1} /\ hit' \in {hit, hit \union {kind}}
      /\ WriteOK(f) => hit' = hit /\ (~pipe.cancelled => late' = late)
      /\ ~WriteOK(f) => /\ late' = late /\ hit' = hit \union {kind}
                        /\ kind \in Faults
  BY Zenon DEF WriteOK, WriteFails, Fault
<1>5. late' \in Nat
  BY <1>4, Sizes
<1>6. hit' \subseteq Kinds
  BY <1>4, PipelineConstants DEF Types
<1>7. \A k \in Sinks :
        /\ sinks'[k].track = sinks[k].track
        /\ \/ sinks'[k].log = sinks[k].log
           \/ /\ k \in Accepting(f) /\ n # 0
              /\ sinks'[k].log = Append(sinks[k].log, <<main.track, n>>)
        /\ ~(k \in Accepting(f) /\ n # 0) => sinks'[k].log = sinks[k].log
        /\ WriteOK(f) /\ k \in Accepting(f) /\ n # 0 =>
             sinks'[k].log = Append(sinks[k].log, <<main.track, n>>)
  BY <1>2, <1>3, Zenon
<1> QED
  BY <1>1, <1>2, <1>3, <1>4, <1>5, <1>6, <1>7, Zenon DEF n

\* What Append does.
LEMMA AppendIs ==
    ASSUME NEW S, NEW s \in Seq(S), NEW e \in S
    PROVE  /\ Append(s, e) \in Seq(S)
           /\ Len(Append(s, e)) = Len(s) + 1 /\ Len(s) \in Nat
           /\ DOMAIN Append(s, e) = 1..(Len(s) + 1) /\ DOMAIN s = 1..Len(s)
           /\ \A i \in 1..Len(s) : Append(s, e)[i] = s[i]
           /\ Append(s, e)[Len(s) + 1] = e
OBVIOUS

\* Setting up the transforms.
LEMMA RunIs ==
    ASSUME Types, Run
    PROVE  /\ main.pc = "start"
           /\ main'.track = main.track /\ main'.k = main.k /\ main'.j = main.j
           /\ main'.batch = main.batch /\ main'.complete = main.complete
           /\ main'.noend = main.noend
           /\ pipe'.state = pipe.state /\ pipe'.cancelled = pipe.cancelled
           /\ pipe'.decoder = needs_decoder /\ pipe'.dsd2pcm = needs_pcm
           /\ \/ /\ needs_pcm /\ setup.src = "DST" /\ ~needs_decoder /\ hit' = hit
                 /\ main'.pc = "returned" /\ main'.result = "PCM_CONVERT"
              \/ /\ ~(needs_pcm /\ setup.src = "DST" /\ ~needs_decoder)
                 /\ hit' = hit /\ main'.pc = "open" /\ main'.result = main.result
              \/ /\ "setup" \in Faults /\ hit' = hit \union {"setup"}
                 /\ main'.pc = "returned" /\ main'.result = "OUT_OF_MEMORY"
           /\ UNCHANGED <<setup, sinks, queue, reader, bufs, given, late>>
<1>1. main \in MainType /\ pipe \in PipeType
  BY Zenon DEF Types
<1> QED
  BY <1>1, Zenon DEF Run, Goto, Stop, Fault, MainType, PipeType

\* Opening one sink.
LEMMA OpenSinkIs ==
    ASSUME Types, OpenSink
    PROVE  /\ main.pc = "open" /\ main.k \in Sinks
           /\ main'.track = main.track /\ main'.j = main.j
           /\ main'.batch = main.batch /\ main'.complete = main.complete
           /\ main'.noend = main.noend
           /\ \/ /\ hit' = hit
                 /\ \A k \in Sinks : /\ sinks'[k].log = sinks[k].log
                                      /\ sinks'[k].track = sinks[k].track
                 /\ main'.pc = main.pc /\ main'.k = main.k + 1
                 /\ main'.result = main.result
              \/ /\ "open" \in Faults /\ hit' = hit \union {"open"}
                 /\ sinks' = sinks /\ main'.pc = "returned" /\ main'.k = main.k
                 /\ main'.result = "SINK_OPEN"
           /\ sinks' \in [Sinks -> SinkType]
           /\ UNCHANGED <<setup, pipe, queue, reader, bufs, given, late>>
<1>1. main \in MainType
  BY Zenon DEF Types
<1>2. main.k \in Sinks
  BY Zenon DEF OpenSink
<1>3. \A k \in Sinks : SinkOpened(main.k)[k].log = sinks[k].log /\ SinkOpened(main.k)[k].track = sinks[k].track
  BY <1>2, SinkSet
<1>4. SinkOpened(main.k) \in [Sinks -> SinkType]
  BY <1>2, SinkSet
<1>5. CASE /\ sinks' = SinkOpened(main.k) /\ hit' = hit
           /\ main' = [main EXCEPT !.k = @ + 1]
  <2>1. /\ \A k \in Sinks : sinks'[k].log = sinks[k].log /\ sinks'[k].track = sinks[k].track
        /\ sinks' \in [Sinks -> SinkType]
    BY <1>3, <1>4, <1>5, Zenon
  <2> QED
    BY <1>1, <1>2, <1>5, <2>1, Zenon DEF OpenSink, MainType
<1>6. CASE ~(sinks' = SinkOpened(main.k) /\ hit' = hit /\ main' = [main EXCEPT !.k = @ + 1])
  <2>1. /\ Fault("open") /\ sinks' = sinks
        /\ Stop("returned", "SINK_OPEN")
    BY <1>6, Zenon DEF OpenSink, SinkOpened
  <2> QED
    BY <1>1, <1>2, <2>1, Zenon DEF OpenSink, Types, Stop, Fault, MainType
<1> QED
  BY <1>5, <1>6

\* The run starts.
LEMMA SetRunningIs ==
    ASSUME Types, SetRunning
    PROVE  /\ main.pc = "open" /\ main.k \notin Sinks
           /\ main'.pc = "track" /\ main'.track = 1 /\ main'.k = main.k
           /\ main'.j = main.j /\ main'.batch = main.batch
           /\ main'.complete = main.complete /\ main'.result = main.result
           /\ main'.noend = main.noend
           /\ pipe'.state = "RUNNING" /\ pipe'.cancelled = FALSE
           /\ pipe'.decoder = pipe.decoder /\ pipe'.dsd2pcm = pipe.dsd2pcm
           /\ UNCHANGED <<setup, sinks, queue, reader, bufs, given, hit, late>>
<1>1. main \in MainType /\ pipe \in PipeType
  BY Zenon DEF Types
<1> QED
  BY <1>1, Zenon DEF SetRunning, Goto, Stop, Fault, MainType, PipeType

\* The loop over the tracks.
LEMMA NextTrackIs ==
    ASSUME Types, NextTrack
    PROVE  /\ main.pc = "track"
           /\ main'.track = main.track /\ main'.k = 1 /\ main'.j = main.j
           /\ main'.batch = main.batch /\ main'.complete = FALSE
           /\ main'.result = main.result /\ main'.noend = main.noend
           /\ \/ /\ main.track <= Tracks /\ main'.pc = "tstart"
              \/ /\ ~(main.track <= Tracks) /\ main'.pc = "final"
           /\ UNCHANGED <<setup, pipe, sinks, queue, reader, bufs, given, hit, late>>
<1>1. main \in MainType
  BY Zenon DEF Types
<1> QED
  BY <1>1, Zenon DEF NextTrack, Goto, Stop, Fault, MainType

\* One sink is told of the start of the track.
LEMMA TrackStartIs ==
    ASSUME Types, TrackStart
    PROVE  /\ main.pc = "tstart" /\ main.k \in Sinks
           /\ main'.track = main.track /\ main'.j = main.j
           /\ main'.batch = main.batch /\ main'.complete = main.complete
           /\ main'.noend = main.noend
           /\ \/ /\ hit' = hit /\ (\A k \in Sinks : sinks'[k].log = sinks[k].log)
                 /\ main'.pc = main.pc /\ main'.k = main.k + 1
                 /\ main'.result = main.result
              \/ /\ "start" \in Faults /\ hit' = hit \union {"start"}
                 /\ sinks' = sinks /\ main'.pc = "final" /\ main'.k = main.k
                 /\ main'.result = "START"
           /\ main.track \in 0..Tracks => sinks' \in [Sinks -> SinkType]
           /\ UNCHANGED <<setup, pipe, queue, reader, bufs, given, late>>
<1>1. main \in MainType
  BY Zenon DEF Types
<1>2. main.k \in Sinks
  BY Zenon DEF TrackStart
<1>3. \A k \in Sinks : SinkStarted(main.k)[k].log = sinks[k].log
  BY <1>2, SinkSet
<1>4. main.track \in 0..Tracks => SinkStarted(main.k) \in [Sinks -> SinkType]
  BY <1>2, SinkSet
<1>5. CASE /\ sinks' = SinkStarted(main.k) /\ hit' = hit
           /\ main' = [main EXCEPT !.k = @ + 1]
  <2>1. /\ \A k \in Sinks : sinks'[k].log = sinks[k].log
        /\ main.track \in 0..Tracks => sinks' \in [Sinks -> SinkType]
    BY <1>3, <1>4, <1>5, Zenon
  <2> QED
    BY <1>1, <1>2, <1>5, <2>1, Zenon DEF TrackStart, MainType
<1>6. CASE ~(sinks' = SinkStarted(main.k) /\ hit' = hit /\ main' = [main EXCEPT !.k = @ + 1])
  <2>1. /\ Fault("start") /\ sinks' = sinks
        /\ Stop("final", "START")
    BY <1>6, Zenon DEF TrackStart, SinkStarted
  <2> QED
    BY <1>1, <1>2, <2>1, Zenon DEF TrackStart, Types, Stop, Fault, MainType
<1> QED
  BY <1>5, <1>6

\* The queue and the reader thread are created.
LEMMA CreateReaderIs ==
    ASSUME Types, CreateReader
    PROVE  /\ main.pc = "tstart" /\ main.k \notin Sinks
           /\ main'.track = main.track /\ main'.k = main.k /\ main'.j = main.j
           /\ main'.batch = main.batch /\ main'.complete = main.complete
           /\ main'.noend = main.noend
           /\ \/ /\ hit' = hit /\ queue' = NewQueue /\ reader' = NewReader
                 /\ main'.pc = "loop" /\ main'.result = main.result
              \/ /\ "create" \in Faults /\ hit' = hit \union {"create"}
                 /\ queue' = queue /\ reader' = reader /\ main'.pc = "final"
                 /\ main'.result = "OUT_OF_MEMORY"
           /\ UNCHANGED <<setup, pipe, sinks, bufs, given, late>>
<1>1. main \in MainType
  BY Zenon DEF Types
<1> QED
  BY <1>1, Zenon DEF CreateReader, Goto, Stop, Fault, MainType

\* The test of the batch loop.
LEMMA LoopIs ==
    ASSUME Types, Loop
    PROVE  /\ main.pc = "loop"
           /\ main'.track = main.track /\ main'.k = main.k /\ main'.j = main.j
           /\ main'.batch = main.batch /\ main'.complete = main.complete
           /\ main'.result = main.result /\ main'.noend = main.noend
           /\ \/ /\ Done /\ main'.pc = "clean"
              \/ /\ ~Done /\ main'.pc = "pop"
           /\ UNCHANGED <<setup, pipe, sinks, queue, reader, bufs, given, hit, late>>
<1>1. main \in MainType
  BY Zenon DEF Types
<1> QED
  BY <1>1, Zenon DEF Loop, Goto, Stop, Fault, MainType

\* Nothing was popped.
LEMMA EmptyIs ==
    ASSUME Types, Empty
    PROVE  /\ main.pc = "empty"
           /\ main'.pc = "clean" /\ main'.track = main.track /\ main'.k = main.k
           /\ main'.j = main.j /\ main'.batch = main.batch
           /\ main'.complete = main.complete /\ main'.noend = main.noend
           /\ \/ /\ reader.error = "OK" /\ queue.cancelled /\ main'.result = "READ"
              \/ /\ ~(reader.error = "OK" /\ queue.cancelled)
                 /\ main'.result = reader.error
           /\ UNCHANGED <<setup, pipe, sinks, queue, reader, bufs, given, hit, late>>
<1>1. main \in MainType
  BY Zenon DEF Types
<1> QED
  BY <1>1, Zenon DEF Empty, Goto, Stop, Fault, MainType

\* Decoding the batch.
LEMMA DecodeIs ==
    ASSUME Types, Decode
    PROVE  /\ main.pc = "decode"
           /\ main'.track = main.track /\ main'.k = main.k
           /\ main'.batch = main.batch /\ main'.complete = main.complete
           /\ \/ /\ ~pipe.decoder /\ bufs' = bufs /\ hit' = hit /\ main'.pc = "dsd"
                 /\ main'.j = 1 /\ main'.result = main.result
                 /\ main'.noend = main.noend
              \/ /\ pipe.decoder /\ hit' = hit /\ main'.pc = "dsd" /\ main'.j = 1
                 /\ main'.result = main.result /\ main'.noend = main.noend
                 /\ bufs'.dsd = bufs.dsd + N /\ bufs'.pcm = bufs.pcm
              \/ /\ pipe.decoder
                 /\ (hit' = hit \/ ("decode" \in Faults /\ hit' = hit \union {"decode"}))
                 /\ main'.pc = "clean" /\ main'.j = main.j
                 /\ main'.result = "DST_DECODE" /\ main'.noend = main.noend
                 /\ bufs'.dsd = bufs.dsd - N /\ bufs'.pcm = bufs.pcm
              \/ /\ pipe.decoder /\ "alloc" \in Faults
                 /\ hit' = hit \union {"alloc"} /\ main'.pc = "cancel"
                 /\ main'.j = main.j /\ main'.result = "OUT_OF_MEMORY"
                 /\ main'.noend = TRUE /\ bufs'.dsd = bufs.dsd - N
                 /\ bufs'.pcm = bufs.pcm
           /\ UNCHANGED <<setup, pipe, sinks, queue, reader, given, late>>
<1>1. main \in MainType /\ bufs \in [dsd : Int, pcm : Int]
  BY Zenon DEF Types
<1> QED
  BY <1>1, ZenonT(90) DEF Decode, Goto, Stop, Fault, MainType

\* One frame to the sinks that take its format.
LEMMA WriteDsdIs ==
    ASSUME Types, WriteDsd
    PROVE  /\ main.pc = "dsd" /\ needs_dsd /\ main.j <= N
           /\ main'.track = main.track /\ main'.k = main.k
           /\ main'.batch = main.batch /\ main'.complete = main.complete
           /\ main'.noend = main.noend
           /\ \/ /\ WriteOK(Format) /\ bufs' = bufs /\ main'.pc = main.pc
                 /\ main'.j = main.j + 1 /\ main'.result = main.result
              \/ /\ WriteFails(Format, "writedsd") /\ main'.pc = "clean" /\ main'.j = main.j
                 /\ main'.result = "WRITE"
                 /\ bufs'.dsd = bufs.dsd - PerFrame * (N - main.j + 1)
                 /\ bufs'.pcm = bufs.pcm
           /\ UNCHANGED <<setup, pipe, queue, reader, given>>
<1>1. main \in MainType /\ bufs \in [dsd : Int, pcm : Int]
  BY Zenon DEF Types
<1> QED
  BY <1>1, Zenon DEF WriteDsd, Goto, Stop, Fault, MainType

\* The batch is written.
LEMMA DsdWrittenIs ==
    ASSUME Types, DsdWritten
    PROVE  /\ main.pc = "dsd" /\ (main.j > N \/ ~needs_dsd)
           /\ main'.track = main.track /\ main'.k = main.k /\ main'.j = main.j
           /\ main'.batch = main.batch /\ main'.complete = main.complete
           /\ main'.result = main.result /\ main'.noend = main.noend
           /\ \/ /\ pipe.dsd2pcm /\ main'.pc = "convert"
              \/ /\ ~pipe.dsd2pcm /\ main'.pc = "release"
           /\ UNCHANGED <<setup, pipe, sinks, queue, reader, bufs, given, hit, late>>
<1>1. main \in MainType
  BY Zenon DEF Types
<1> QED
  BY <1>1, Zenon DEF DsdWritten, Goto, Stop, Fault, MainType

\* Converting the batch to PCM.
LEMMA ConvertIs ==
    ASSUME Types, Convert
    PROVE  /\ main.pc = "convert"
           /\ main'.track = main.track /\ main'.k = main.k
           /\ main'.batch = main.batch /\ main'.complete = main.complete
           /\ main'.noend = main.noend
           /\ \/ /\ hit' = hit /\ main'.pc = "pcm" /\ main'.j = 1
                 /\ main'.result = main.result /\ bufs'.dsd = bufs.dsd
                 /\ bufs'.pcm = N
              \/ /\ "alloc" \in Faults /\ hit' = hit \union {"alloc"}
                 /\ main'.pc = "clean" /\ main'.j = main.j
                 /\ main'.result = "OUT_OF_MEMORY"
                 /\ bufs'.dsd = bufs.dsd - PerFrame * N /\ bufs'.pcm = 0
              \/ /\ "convert" \in Faults /\ hit' = hit \union {"convert"}
                 /\ main'.pc = "clean" /\ main'.j = main.j
                 /\ main'.result = "PCM_CONVERT"
                 /\ bufs'.dsd = bufs.dsd - PerFrame * N /\ bufs'.pcm = 0
           /\ UNCHANGED <<setup, pipe, sinks, queue, reader, given, late>>
<1>1. main \in MainType /\ bufs \in [dsd : Int, pcm : Int]
  BY Zenon DEF Types
<1>2. AllReleased => bufs'.dsd = bufs.dsd - PerFrame * N /\ bufs'.pcm = 0
  BY DEF AllReleased
<1> QED
  BY <1>1, <1>2, ZenonT(90) DEF Convert, Goto, Stop, Fault, MainType

\* One frame to the sinks that take PCM.
LEMMA WritePcmIs ==
    ASSUME Types, WritePcm
    PROVE  /\ main.pc = "pcm" /\ main.j <= N
           /\ main'.track = main.track /\ main'.k = main.k
           /\ main'.batch = main.batch /\ main'.complete = main.complete
           /\ main'.noend = main.noend
           /\ \/ /\ WriteOK("PCM") /\ main'.pc = main.pc /\ main'.j = main.j + 1
                 /\ main'.result = main.result /\ bufs'.dsd = bufs.dsd
                 /\ bufs'.pcm = bufs.pcm - 1
              \/ /\ WriteFails("PCM", "writepcm") /\ main'.pc = "clean" /\ main'.j = main.j
                 /\ main'.result = "WRITE" /\ bufs'.dsd = bufs.dsd - PerFrame * N
                 /\ bufs'.pcm = 0
           /\ UNCHANGED <<setup, pipe, queue, reader, given>>
<1>1. main \in MainType /\ bufs \in [dsd : Int, pcm : Int]
  BY Zenon DEF Types
<1>2. AllReleased => bufs'.dsd = bufs.dsd - PerFrame * N /\ bufs'.pcm = 0
  BY DEF AllReleased
<1> QED
  BY <1>1, <1>2, ZenonT(60) DEF WritePcm, Goto, Stop, Fault, MainType

\* The PCM of the batch is written.
LEMMA PcmWrittenIs ==
    ASSUME Types, PcmWritten
    PROVE  /\ main.pc = "pcm" /\ main.j > N
           /\ main'.pc = "release" /\ main'.track = main.track /\ main'.k = main.k
           /\ main'.j = main.j /\ main'.batch = main.batch
           /\ main'.complete = main.complete /\ main'.result = main.result
           /\ main'.noend = main.noend
           /\ UNCHANGED <<setup, pipe, sinks, queue, reader, bufs, given, hit, late>>
<1>1. main \in MainType
  BY Zenon DEF Types
<1> QED
  BY <1>1, Zenon DEF PcmWritten, Goto, Stop, Fault, MainType

\* The end of a batch.
LEMMA ReleaseIs ==
    ASSUME Types, Release
    PROVE  /\ main.pc = "release"
           /\ main'.track = main.track /\ main'.k = main.k /\ main'.j = main.j
           /\ main'.batch = main.batch /\ main'.complete = main.complete
           /\ main'.noend = main.noend
           /\ bufs'.dsd = bufs.dsd - PerFrame * N /\ bufs'.pcm = 0
           /\ \/ /\ hit' = hit /\ pipe' = pipe /\ main'.pc = "loop"
                 /\ main'.result = main.result
              \/ /\ "abort" \in Faults /\ hit' = hit \union {"abort"}
                 /\ pipe'.state = pipe.state /\ pipe'.cancelled = TRUE
                 /\ pipe'.decoder = pipe.decoder /\ pipe'.dsd2pcm = pipe.dsd2pcm
                 /\ main'.pc = "clean" /\ main'.result = "CANCELLED"
           /\ UNCHANGED <<setup, sinks, queue, reader, given, late>>
<1>1. main \in MainType /\ bufs \in [dsd : Int, pcm : Int] /\ pipe \in PipeType
  BY Zenon DEF Types
<1> QED
  BY <1>1, Zenon DEF Release, Goto, Stop, Fault, MainType, PipeType, AllReleased

\* The cleanup cancels the reader or waits for it.
LEMMA CleanIs ==
    ASSUME Types, Clean
    PROVE  /\ main.pc = "clean"
           /\ main'.track = main.track /\ main'.k = main.k /\ main'.j = main.j
           /\ main'.batch = main.batch /\ main'.complete = main.complete
           /\ main'.result = main.result /\ main'.noend = main.noend
           /\ \/ /\ (main.result # "OK" \/ pipe.cancelled) /\ main'.pc = "cancel"
              \/ /\ ~(main.result # "OK" \/ pipe.cancelled) /\ main'.pc = "wait"
           /\ UNCHANGED <<setup, pipe, sinks, queue, reader, bufs, given, hit, late>>
<1>1. main \in MainType
  BY Zenon DEF Types
<1> QED
  BY <1>1, Zenon DEF Clean, Goto, Stop, Fault, MainType

\* The reader is cancelled.
LEMMA CancelReaderIs ==
    ASSUME Types, CancelReader
    PROVE  /\ main.pc = "cancel"
           /\ main'.pc = "cancelqueue" /\ main'.track = main.track
           /\ main'.k = main.k /\ main'.j = main.j /\ main'.batch = main.batch
           /\ main'.complete = main.complete /\ main'.result = main.result
           /\ main'.noend = main.noend
           /\ reader'.pc = reader.pc /\ reader'.pending = reader.pending
           /\ reader'.finished = reader.finished /\ reader'.error = reader.error
           /\ reader'.cancelled = TRUE /\ reader'.shutdown = reader.shutdown
           /\ reader'.pos = reader.pos /\ reader'.frame = reader.frame
           /\ UNCHANGED <<setup, pipe, sinks, queue, bufs, given, hit, late>>
<1>1. main \in MainType /\ reader \in ReaderType
  BY Zenon DEF Types
<1> QED
  BY <1>1, Zenon DEF CancelReader, Goto, Stop, Fault, MainType, ReaderType

\* The queue is cancelled.
LEMMA CancelQueueIs ==
    ASSUME Types, CancelQueue
    PROVE  /\ main.pc = "cancelqueue"
           /\ main'.pc = "wait" /\ main'.track = main.track /\ main'.k = main.k
           /\ main'.j = main.j /\ main'.batch = main.batch
           /\ main'.complete = main.complete /\ main'.result = main.result
           /\ main'.noend = main.noend
           /\ queue'.fifo = queue.fifo /\ queue'.eof = queue.eof
           /\ queue'.cancelled = TRUE /\ queue'.open = queue.open
           /\ UNCHANGED <<setup, pipe, sinks, reader, bufs, given, hit, late>>
<1>1. main \in MainType /\ queue \in QueueType
  BY Zenon DEF Types
<1> QED
  BY <1>1, Zenon DEF CancelQueue, Goto, Stop, Fault, MainType, QueueType

\* The reader is told to shut down.
LEMMA WaitReaderIs ==
    ASSUME Types, WaitReader
    PROVE  /\ main.pc = "wait" /\ reader.finished
           /\ main'.pc = "shutdown" /\ main'.track = main.track /\ main'.k = main.k
           /\ main'.j = main.j /\ main'.batch = main.batch
           /\ main'.complete = main.complete /\ main'.result = main.result
           /\ main'.noend = main.noend
           /\ reader'.pc = reader.pc /\ reader'.pending = reader.pending
           /\ reader'.finished = reader.finished /\ reader'.error = reader.error
           /\ reader'.cancelled = TRUE /\ reader'.shutdown = TRUE
           /\ reader'.pos = reader.pos /\ reader'.frame = reader.frame
           /\ UNCHANGED <<setup, pipe, sinks, queue, bufs, given, hit, late>>
<1>1. main \in MainType /\ reader \in ReaderType
  BY Zenon DEF Types
<1> QED
  BY <1>1, Zenon DEF WaitReader, Goto, Stop, Fault, MainType, ReaderType

\* The queue is cancelled for the shutdown.
LEMMA ShutdownQueueIs ==
    ASSUME Types, ShutdownQueue
    PROVE  /\ main.pc = "shutdown"
           /\ main'.pc = "join" /\ main'.track = main.track /\ main'.k = main.k
           /\ main'.j = main.j /\ main'.batch = main.batch
           /\ main'.complete = main.complete /\ main'.result = main.result
           /\ main'.noend = main.noend
           /\ queue'.fifo = queue.fifo /\ queue'.eof = queue.eof
           /\ queue'.cancelled = TRUE /\ queue'.open = queue.open
           /\ UNCHANGED <<setup, pipe, sinks, reader, bufs, given, hit, late>>
<1>1. main \in MainType /\ queue \in QueueType
  BY Zenon DEF Types
<1> QED
  BY <1>1, Zenon DEF ShutdownQueue, Goto, Stop, Fault, MainType, QueueType

\* The reader is joined and the queue destroyed.
LEMMA JoinIs ==
    ASSUME Types, Join
    PROVE  /\ main.pc = "join" /\ reader.pc = "exited"
           /\ main'.track = main.track /\ main'.k = main.k /\ main'.j = main.j
           /\ main'.batch = main.batch /\ main'.complete = main.complete
           /\ main'.result = main.result /\ main'.noend = main.noend
           /\ queue'.fifo = <<>> /\ queue'.eof = queue.eof
           /\ queue'.cancelled = queue.cancelled /\ queue'.open = FALSE
           /\ bufs'.dsd = bufs.dsd - Len(queue.fifo) /\ bufs'.pcm = bufs.pcm
           /\ \/ /\ main.noend /\ main'.pc = "final"
              \/ /\ ~main.noend /\ main'.pc = "trackend"
           /\ UNCHANGED <<setup, pipe, sinks, reader, given, hit, late>>
<1>1. main \in MainType /\ queue \in QueueType /\ bufs \in [dsd : Int, pcm : Int]
  BY Zenon DEF Types
<1> QED
  BY <1>1, Zenon DEF Join, Goto, Stop, Fault, MainType, QueueType, Joined

\* The sinks are told of the end of the track.
LEMMA TrackEndIs ==
    ASSUME Types, TrackEnd
    PROVE  /\ main.pc = "trackend"
           /\ (\A k \in Sinks : sinks'[k].log = sinks[k].log /\ sinks'[k].track = 0)
           /\ main'.k = main.k /\ main'.j = main.j /\ main'.batch = main.batch
           /\ main'.complete = main.complete /\ main'.noend = main.noend
           /\ \/ /\ ~pipe.cancelled /\ main.result = "OK" /\ main'.pc = "track"
                 /\ main'.track = main.track + 1 /\ main'.result = main.result
              \/ /\ pipe.cancelled /\ main'.pc = "final" /\ main'.track = main.track
                 /\ main'.result = "CANCELLED"
              \/ /\ main.result # "OK" /\ main'.pc = "final"
                 /\ main'.track = main.track /\ main'.result = main.result
           /\ hit' = hit \/ ("end" \in Faults /\ hit' = hit \union {"end"})
           /\ UNCHANGED <<setup, pipe, queue, reader, bufs, given, late>>
<1>1. main \in MainType /\ sinks \in [Sinks -> SinkType]
  BY Zenon DEF Types
<1> QED
  BY <1>1, Zenon DEF TrackEnd, EndNotified, Goto, Stop, Fault, MainType, SinkType

\* The end of the run.
LEMMA FinalizeIs ==
    ASSUME Types, Finalize
    PROVE  /\ main.pc = "final"
           /\ (\A k \in Sinks : sinks'[k].log = sinks[k].log /\ sinks'[k].track = sinks[k].track)
           /\ main'.pc = "returned" /\ main'.track = main.track /\ main'.k = main.k
           /\ main'.j = main.j /\ main'.batch = main.batch
           /\ main'.complete = main.complete /\ main'.result = main.result
           /\ main'.noend = main.noend
           /\ pipe'.state = (IF main.result = "OK" THEN "FINISHED" ELSE "ERROR")
           /\ pipe'.cancelled = pipe.cancelled /\ pipe'.decoder = pipe.decoder
           /\ pipe'.dsd2pcm = pipe.dsd2pcm
           /\ hit' = hit \/ ("finalize" \in Faults /\ hit' = hit \union {"finalize"})
           /\ UNCHANGED <<setup, queue, reader, bufs, given, late>>
<1>1. main \in MainType /\ pipe \in PipeType /\ sinks \in [Sinks -> SinkType]
  BY Zenon DEF Types
<1> QED
  BY <1>1, Zenon DEF Finalize, Goto, Stop, Fault, MainType, PipeType, SinkType

\* The reader exits, or takes the track.
LEMMA RTakeIs ==
    ASSUME Types, RTake
    PROVE  /\ reader.pc = "wait"
           /\ reader'.cancelled = reader.cancelled
           /\ reader'.shutdown = reader.shutdown /\ reader'.pos = reader.pos
           /\ reader'.frame = reader.frame
           /\ \/ /\ reader.shutdown /\ reader'.pc = "exited"
                 /\ reader'.pending = reader.pending
                 /\ reader'.finished = reader.finished
                 /\ reader'.error = reader.error
              \/ /\ ~reader.shutdown /\ reader.pending /\ reader'.pc = "reset"
                 /\ reader'.pending = FALSE /\ reader'.finished = FALSE
                 /\ reader'.error = "OK"
           /\ UNCHANGED <<setup, pipe, main, sinks, queue, bufs, given, hit, late>>
<1>1. reader \in ReaderType
  BY Zenon DEF Types
<1> QED
  BY <1>1, Zenon DEF RTake, Goto, Stop, Fault, ReaderType

\* The reader resets the queue.
LEMMA RResetIs ==
    ASSUME Types, RReset
    PROVE  /\ reader.pc = "reset" /\ queue' = NewQueue
           /\ reader'.pc = "seek" /\ reader'.pending = reader.pending
           /\ reader'.finished = reader.finished /\ reader'.error = reader.error
           /\ reader'.cancelled = reader.cancelled
           /\ reader'.shutdown = reader.shutdown /\ reader'.pos = reader.pos
           /\ reader'.frame = reader.frame
           /\ bufs'.dsd = bufs.dsd - Len(queue.fifo) /\ bufs'.pcm = bufs.pcm
           /\ UNCHANGED <<setup, pipe, main, sinks, given, hit, late>>
<1>1. reader \in ReaderType /\ bufs \in [dsd : Int, pcm : Int]
  BY Zenon DEF Types
<1> QED
  BY <1>1, Zenon DEF RReset, Goto, Stop, Fault, ReaderType

\* The source is positioned.
LEMMA RSeekIs ==
    ASSUME Types, RSeek
    PROVE  /\ reader.pc = "seek"
           /\ reader'.pending = reader.pending
           /\ reader'.cancelled = reader.cancelled
           /\ reader'.shutdown = reader.shutdown /\ reader'.frame = reader.frame
           /\ \/ /\ hit' = hit /\ reader'.pc = "check"
                 /\ reader'.finished = reader.finished
                 /\ reader'.error = reader.error /\ reader'.pos = 0
              \/ /\ "seek" \in Faults /\ hit' = hit \union {"seek"}
                 /\ reader'.pc = "seekeof" /\ reader'.finished = TRUE
                 /\ reader'.error = "SEEK" /\ reader'.pos = reader.pos
           /\ UNCHANGED <<setup, pipe, main, sinks, queue, bufs, given, late>>
<1>1. reader \in ReaderType
  BY Zenon DEF Types
<1> QED
  BY <1>1, Zenon DEF RSeek, Goto, Stop, Fault, ReaderType, Failed

\* The test of the read loop, and a buffer.
LEMMA RCheckIs ==
    ASSUME Types, RCheck
    PROVE  /\ reader.pc = "check"
           /\ reader'.pending = reader.pending
           /\ reader'.cancelled = reader.cancelled
           /\ reader'.shutdown = reader.shutdown /\ reader'.pos = reader.pos
           /\ reader'.frame = reader.frame
           /\ \/ /\ Stopping /\ bufs' = bufs /\ hit' = hit /\ reader'.pc = "stop"
                 /\ reader'.finished = reader.finished
                 /\ reader'.error = reader.error
              \/ /\ ~Stopping /\ hit' = hit /\ reader'.pc = "read"
                 /\ reader'.finished = reader.finished
                 /\ reader'.error = reader.error /\ bufs'.dsd = bufs.dsd + 1
                 /\ bufs'.pcm = bufs.pcm
              \/ /\ ~Stopping /\ bufs' = bufs /\ "alloc" \in Faults
                 /\ hit' = hit \union {"alloc"} /\ reader'.pc = "eof"
                 /\ reader'.finished = TRUE /\ reader'.error = "OUT_OF_MEMORY"
           /\ UNCHANGED <<setup, pipe, main, sinks, queue, given, late>>
<1>1. reader \in ReaderType /\ bufs \in [dsd : Int, pcm : Int]
  BY Zenon DEF Types
<1> QED
  BY <1>1, ZenonT(90) DEF RCheck, Goto, Stop, Fault, ReaderType, Failed

\* One frame is read.
LEMMA RReadIs ==
    ASSUME Types, RRead
    PROVE  /\ reader.pc = "read"
           /\ reader'.pending = reader.pending
           /\ reader'.cancelled = reader.cancelled
           /\ reader'.shutdown = reader.shutdown
           /\ \/ /\ reader'.frame.n = reader.pos + 1
                 /\ (reader'.frame.last <=> reader.pos + 1 = Length)
                 /\ given' = Append(given, <<main.track, reader.pos + 1>>)
                 /\ bufs' = bufs /\ hit' = hit /\ reader'.pc = "push"
                 /\ reader'.finished = reader.finished
                 /\ reader'.error = reader.error /\ reader'.pos = reader.pos + 1
              \/ /\ reader'.frame.n = 0 /\ reader'.frame.last /\ given' = given
                 /\ bufs' = bufs /\ "short" \in Faults
                 /\ hit' = hit \union {"short"} /\ reader'.pc = "push"
                 /\ reader'.finished = reader.finished
                 /\ reader'.error = reader.error /\ reader'.pos = reader.pos
              \/ /\ given' = given /\ "read" \in Faults
                 /\ hit' = hit \union {"read"} /\ reader'.pc = "eof"
                 /\ reader'.finished = TRUE /\ reader'.error = "READ"
                 /\ reader'.pos = reader.pos /\ reader'.frame = reader.frame
                 /\ bufs'.dsd = bufs.dsd - 1 /\ bufs'.pcm = bufs.pcm
           /\ UNCHANGED <<setup, pipe, main, sinks, queue, late>>
<1>1. reader \in ReaderType /\ bufs \in [dsd : Int, pcm : Int]
  BY Zenon DEF Types
<1>2. PICK f, e : /\ f = [n |-> reader.pos + 1, last |-> reader.pos + 1 = Length]
                  /\ e = [n |-> 0, last |-> TRUE]
  OBVIOUS
<1>3. /\ f.n = reader.pos + 1 /\ (f.last <=> reader.pos + 1 = Length)
      /\ e.n = 0 /\ e.last
  BY <1>2, Zenon
<1>4. /\ reader.pc = "read"
      /\ \/ /\ reader' = [reader EXCEPT !.pc = "push", !.pos = reader.pos + 1, !.frame = f]
            /\ given' = Append(given, <<main.track, reader.pos + 1>>)
            /\ UNCHANGED <<bufs, hit>>
         \/ /\ Fault("short")
            /\ reader' = [reader EXCEPT !.pc = "push", !.frame = e]
            /\ UNCHANGED <<bufs, given>>
         \/ /\ Fault("read")
            /\ reader' = Failed(reader, "READ", "eof")
            /\ bufs' = [bufs EXCEPT !.dsd = @ - 1]
            /\ UNCHANGED given
      /\ UNCHANGED <<setup, pipe, main, sinks, queue, late>>
  BY <1>2, Zenon DEF RRead
<1> QED
  BY <1>1, <1>3, <1>4, ZenonT(90) DEF Fault, ReaderType, Failed

\* One frame is pushed, or given back.
LEMMA RPushIs ==
    ASSUME Types, RPush
    PROVE  /\ reader.pc = "push"
           /\ reader'.pending = reader.pending /\ reader'.error = reader.error
           /\ reader'.cancelled = reader.cancelled
           /\ reader'.shutdown = reader.shutdown /\ reader'.pos = reader.pos
           /\ reader'.frame = reader.frame
           /\ \/ /\ ~queue.cancelled /\ Len(queue.fifo) < QCapacity
                 /\ reader.frame.last /\ bufs' = bufs
                 /\ queue'.fifo = Append(queue.fifo, reader.frame)
                 /\ queue'.eof = queue.eof /\ queue'.cancelled = queue.cancelled
                 /\ queue'.open = queue.open /\ reader'.pc = "finish"
                 /\ reader'.finished = reader.finished
              \/ /\ ~queue.cancelled /\ Len(queue.fifo) < QCapacity
                 /\ ~reader.frame.last /\ bufs' = bufs
                 /\ queue'.fifo = Append(queue.fifo, reader.frame)
                 /\ queue'.eof = queue.eof /\ queue'.cancelled = queue.cancelled
                 /\ queue'.open = queue.open /\ reader'.pc = "check"
                 /\ reader'.finished = reader.finished
              \/ /\ queue.cancelled /\ queue' = queue /\ bufs'.dsd = bufs.dsd - 1
                 /\ bufs'.pcm = bufs.pcm /\ reader'.pc = "stop"
                 /\ reader'.finished = TRUE
           /\ UNCHANGED <<setup, pipe, main, sinks, given, hit, late>>
<1>1. reader \in ReaderType /\ queue \in QueueType /\ bufs \in [dsd : Int, pcm : Int]
  BY Zenon DEF Types
<1> QED
  BY <1>1, ZenonT(90) DEF RPush, Goto, Stop, Fault, ReaderType, QueueType, HasRoom

\* The reader has read the last frame.
LEMMA RFinishIs ==
    ASSUME Types, RFinish
    PROVE  /\ reader.pc = "finish"
           /\ reader'.pc = "eof" /\ reader'.pending = reader.pending
           /\ reader'.finished = TRUE /\ reader'.error = reader.error
           /\ reader'.cancelled = reader.cancelled
           /\ reader'.shutdown = reader.shutdown /\ reader'.pos = reader.pos
           /\ reader'.frame = reader.frame
           /\ UNCHANGED <<setup, pipe, main, sinks, queue, bufs, given, hit, late>>
<1>1. reader \in ReaderType
  BY Zenon DEF Types
<1> QED
  BY <1>1, Zenon DEF RFinish, Goto, Stop, Fault, ReaderType

\* The end is signalled.
LEMMA REofIs ==
    ASSUME Types, REof
    PROVE  /\ reader.pc \in {"eof", "seekeof"}
           /\ reader'.pending = reader.pending /\ reader'.finished = reader.finished
           /\ reader'.error = reader.error /\ reader'.cancelled = reader.cancelled
           /\ reader'.shutdown = reader.shutdown /\ reader'.pos = reader.pos
           /\ reader'.frame = reader.frame
           /\ queue'.fifo = queue.fifo /\ queue'.eof = TRUE
           /\ queue'.cancelled = queue.cancelled /\ queue'.open = queue.open
           /\ \/ /\ reader.pc = "eof" /\ reader'.pc = "stop"
              \/ /\ reader.pc # "eof" /\ reader'.pc = "wait"
           /\ UNCHANGED <<setup, pipe, main, sinks, bufs, given, hit, late>>
<1>1. reader \in ReaderType /\ queue \in QueueType
  BY Zenon DEF Types
<1> QED
  BY <1>1, Zenon DEF REof, Goto, Stop, Fault, ReaderType, QueueType

\* The reader leaves the track.
LEMMA RStopIs ==
    ASSUME Types, RStop
    PROVE  /\ reader.pc = "stop"
           /\ reader'.pending = reader.pending /\ reader'.error = reader.error
           /\ reader'.cancelled = reader.cancelled
           /\ reader'.shutdown = reader.shutdown /\ reader'.pos = reader.pos
           /\ reader'.frame = reader.frame
           /\ \/ /\ Stopping /\ reader'.pc = "stopqueue" /\ reader'.finished = TRUE
              \/ /\ ~Stopping /\ reader'.pc = "wait"
                 /\ reader'.finished = reader.finished
           /\ UNCHANGED <<setup, pipe, main, sinks, queue, bufs, given, hit, late>>
<1>1. reader \in ReaderType
  BY Zenon DEF Types
<1> QED
  BY <1>1, Zenon DEF RStop, Goto, Stop, Fault, ReaderType

\* A reader that was stopped cancels the queue.
LEMMA RStopQueueIs ==
    ASSUME Types, RStopQueue
    PROVE  /\ reader.pc = "stopqueue"
           /\ reader'.pc = "wait" /\ reader'.pending = reader.pending
           /\ reader'.finished = reader.finished /\ reader'.error = reader.error
           /\ reader'.cancelled = reader.cancelled
           /\ reader'.shutdown = reader.shutdown /\ reader'.pos = reader.pos
           /\ reader'.frame = reader.frame
           /\ queue'.fifo = queue.fifo /\ queue'.eof = queue.eof
           /\ queue'.cancelled = TRUE /\ queue'.open = queue.open
           /\ UNCHANGED <<setup, pipe, main, sinks, bufs, given, hit, late>>
<1>1. reader \in ReaderType /\ queue \in QueueType
  BY Zenon DEF Types
<1> QED
  BY <1>1, Zenon DEF RStopQueue, Goto, Stop, Fault, ReaderType, QueueType

\* The pipeline is cancelled.
LEMMA CancelIs ==
    ASSUME Types, Cancel
    PROVE  /\ ~pipe.cancelled /\ main.pc \notin {"start", "returned"}
           /\ pipe'.state = pipe.state /\ pipe'.cancelled = TRUE
           /\ pipe'.decoder = pipe.decoder /\ pipe'.dsd2pcm = pipe.dsd2pcm
           /\ UNCHANGED <<setup, main, sinks, queue, reader, bufs, given, hit, late>>
<1>1. pipe \in PipeType
  BY Zenon DEF Types
<1> QED
  BY <1>1, Zenon DEF Cancel, Goto, Stop, Fault, PipeType


\* A pop moves the first frames of the queue to the batch, up to a last frame.
LEMMA PopIs ==
    ASSUME Types, Pop
    PROVE  \E n \in 0..MaxBatch :
             /\ main.pc = "pop"
             /\ queue.fifo # <<>> \/ queue.eof \/ queue.cancelled
             /\ n <= Len(queue.fifo)
             /\ ~queue.cancelled /\ queue.fifo # <<>> => n > 0
             /\ \A i \in 1..(n - 1) : ~queue.fifo[i].last
             /\ main'.pc = (IF n = 0 THEN "empty" ELSE "decode")
             /\ main'.batch \in Seq(0..Length) /\ Len(main'.batch) = n
             /\ \A i \in 1..n : main'.batch[i] = queue.fifo[i].n
             /\ main'.complete <=> n > 0 /\ queue.fifo[n].last
             /\ main'.track = main.track /\ main'.k = main.k /\ main'.j = main.j
             /\ main'.result = main.result /\ main'.noend = main.noend
             /\ main' \in MainType
             /\ queue'.fifo \in Seq(Frame) /\ Len(queue'.fifo) = Len(queue.fifo) - n
             /\ \A i \in 1..(Len(queue.fifo) - n) : queue'.fifo[i] = queue.fifo[n + i]
             /\ queue'.eof = queue.eof /\ queue'.cancelled = queue.cancelled
             /\ queue'.open = queue.open /\ queue' \in QueueType
             /\ UNCHANGED <<setup, pipe, sinks, reader, bufs, given, hit, late>>
<1> DEFINE q == queue.fifo
<1>1. PICK n : n = IF queue.cancelled THEN 0 ELSE BatchLen(q, MaxBatch)
  OBVIOUS
<1>2. main \in MainType /\ queue \in QueueType
  BY Zenon DEF Types
<1>3. q \in Seq(Frame) /\ Len(q) \in Nat
  BY <1>2 DEF QueueType
<1>4. /\ n \in 0..Len(q) /\ n <= MaxBatch /\ n \in Nat
      /\ ~queue.cancelled /\ q # <<>> => n > 0
      /\ \A i \in 1..(n - 1) : ~q[i].last
  <2>1. CASE queue.cancelled
    BY <2>1, <1>1, <1>3, PipelineConstants
  <2>2. CASE ~queue.cancelled
    BY <2>2, <1>1, <1>3, BatchIs
  <2> QED
    BY <2>1, <2>2
<1>5. PICK b : b = [i \in 1..n |-> SubSeq(q, 1, n)[i].n]
  OBVIOUS
<1>6. PICK r : r = SubSeq(q, n + 1, Len(q))
  OBVIOUS
<1>7. PICK last : last = (n > 0 /\ SubSeq(q, 1, n)[n].last)
  OBVIOUS
<1>8. /\ main' = [main EXCEPT !.pc = IF n = 0 THEN "empty" ELSE "decode",
                              !.batch = b, !.complete = last]
      /\ queue' = [queue EXCEPT !.fifo = r]
      /\ main.pc = "pop" /\ (q # <<>> \/ queue.eof \/ queue.cancelled)
      /\ UNCHANGED <<setup, pipe, sinks, reader, bufs, given, hit, late>>
  BY <1>1, <1>5, <1>6, <1>7, Zenon DEF Pop
<1>9. /\ b \in Seq(0..Length) /\ Len(b) = n /\ \A i \in 1..n : b[i] = q[i].n
  <2>1. \A i \in 1..n : SubSeq(q, 1, n)[i] = q[i] /\ q[i] \in Frame
    BY <1>3, <1>4
  <2>2. \A i \in 1..n : b[i] = q[i].n /\ q[i].n \in 0..Length
    BY <2>1, <1>5 DEF Frame
  <2>3. b \in [1..n -> 0..Length]
    BY <2>2, <1>5
  <2>4. n \in Nat /\ DOMAIN b = 1..n
    BY <1>4, <1>5
  <2> HIDE DEF q
  <2>5. b \in Seq(0..Length)
    BY <2>3, <2>4, SeqDef
  <2>6. Len(b) = n
    BY <2>4, <2>5
  <2> QED
    BY <2>2, <2>5, <2>6
<1>10. /\ r \in Seq(Frame) /\ Len(r) = Len(q) - n
       /\ \A i \in 1..(Len(q) - n) : r[i] = q[n + i]
  BY <1>3, <1>4, <1>6
<1>11. last \in BOOLEAN /\ (last <=> n > 0 /\ q[n].last)
  <2>1. CASE n > 0
    <3>1. SubSeq(q, 1, n)[n] = q[n]
      BY <2>1, <1>3, <1>4
    <3> QED
      BY <3>1, <1>7, Zenon
  <2>2. CASE ~(n > 0)
    BY <2>2, <1>7, Zenon
  <2> QED
    BY <2>1, <2>2
<1> HIDE DEF q
<1>12. PICK pc \in {"empty", "decode"} : pc = IF n = 0 THEN "empty" ELSE "decode"
  OBVIOUS
<1>13. main' = [main EXCEPT !.pc = pc, !.batch = b, !.complete = last]
  BY <1>8, <1>12
<1>14. /\ main'.pc = pc /\ main'.batch = b /\ main'.complete = last
       /\ main'.track = main.track /\ main'.k = main.k /\ main'.j = main.j
       /\ main'.result = main.result /\ main'.noend = main.noend
       /\ main' \in MainType
  BY <1>2, <1>9, <1>11, <1>13, Zenon DEF MainType, MainPcs, Active, Looping, Busy
<1>15. /\ queue'.fifo = r /\ queue'.eof = queue.eof /\ queue'.cancelled = queue.cancelled
       /\ queue'.open = queue.open /\ queue' \in QueueType
  BY <1>2, <1>8, <1>10, Zenon DEF QueueType
<1>16. n \in 0..MaxBatch /\ n <= Len(q)
  BY <1>3, <1>4, PipelineConstants
<1>17. /\ main.pc = "pop" /\ (queue.fifo # <<>> \/ queue.eof \/ queue.cancelled)
       /\ n <= Len(queue.fifo)
       /\ ~queue.cancelled /\ queue.fifo # <<>> => n > 0
       /\ \A i \in 1..(n - 1) : ~queue.fifo[i].last
  BY <1>4, <1>8, <1>16, Zenon DEF q
<1>18. /\ main'.pc = (IF n = 0 THEN "empty" ELSE "decode")
       /\ main'.batch \in Seq(0..Length) /\ Len(main'.batch) = n
       /\ \A i \in 1..n : main'.batch[i] = queue.fifo[i].n
       /\ main'.complete <=> n > 0 /\ queue.fifo[n].last
  BY <1>9, <1>11, <1>12, <1>14, Zenon DEF q
<1>19. /\ queue'.fifo \in Seq(Frame) /\ Len(queue'.fifo) = Len(queue.fifo) - n
       /\ \A i \in 1..(Len(queue.fifo) - n) : queue'.fifo[i] = queue.fifo[n + i]
  BY <1>10, <1>15, Zenon DEF q
<1> QED
  BY <1>8, <1>14, <1>15, <1>16, <1>17, <1>18, <1>19, Zenon

\* Setting up the transforms.
LEMMA RunOK == ControlInv /\ Run => ControlInv'
<1> SUFFICES ASSUME ControlInv, Run PROVE ControlInv'
  OBVIOUS
<1> USE DEF ControlInv
<1>1. Types'
  <2>1. needs_decoder \in BOOLEAN /\ needs_pcm \in BOOLEAN
    BY Zenon DEF needs_decoder, needs_pcm
  <2>2. pipe' \in PipeType
    BY <2>1, Zenon DEF Types, Run, Goto, Stop, Fault, PipeType
  <2>3. main' \in MainType
    BY <2>1, Consts, RunIs, ZenonT(40) DEF Types, Run, Goto, Stop, Fault, MainType, Codes, MainPcs, Before, Active, Looping, Busy, Closing
  <2>4. main'.k \in 1..(Len(setup.caps) + 1) /\ Len(main'.batch) <= MaxBatch
    BY RunIs, Sizes
  <2>5. hit' \subseteq Kinds
    BY RunIs, PipelineConstants DEF Types
  <2> QED
    BY <2>1, <2>2, <2>3, <2>4, <2>5, RunIs, Zenon DEF Types, N, Sinks
<1>2. hit \subseteq hit'
  BY RunIs
<1> USE DEF Looping, Active, Busy, Closing, Before
<1>3. MainInv'
  BY <1>2, RunIs, NeedsSame DEF MainInv
<1>4. ThreadsInv'
  BY RunIs DEF ThreadsInv
<1>5. ReaderInv'
  BY <1>2, RunIs DEF ReaderInv, Reading
<1>6. LastInv'
  BY <1>2, RunIs DEF LastInv, Reading
<1> QED
  BY <1>1, <1>3, <1>4, <1>5, <1>6

\* Opening one sink.
LEMMA OpenSinkOK == ControlInv /\ OpenSink => ControlInv'
<1> SUFFICES ASSUME ControlInv, OpenSink PROVE ControlInv'
  OBVIOUS
<1> USE DEF ControlInv
<1>1. Types'
  <2>1. /\ main.k + 1 \in Nat
    BY Sizes
  <2>2. main' \in MainType
    BY <2>1, Consts, OpenSinkIs, ZenonT(40) DEF Types, OpenSink, Goto, Stop, Fault, MainType, Codes, MainPcs, Before, Active, Looping, Busy, Closing
  <2>3. main'.k \in 1..(Len(setup.caps) + 1) /\ Len(main'.batch) <= MaxBatch
    <3>1. main'.k \in {main.k, main.k + 1} /\ main.k \in Sinks /\ main'.batch = main.batch
      BY OpenSinkIs, Zenon
    <3>2. /\ Sinks = 1..Len(setup.caps) /\ Len(setup.caps) \in Nat
          /\ N = Len(main.batch) /\ N \in 0..MaxBatch
      BY Sizes
    <3> QED
      BY <3>1, <3>2, PipelineConstants
  <2>4. sinks' \in [Sinks -> SinkType]
    BY OpenSinkIs, Zenon
  <2>5. hit' \subseteq Kinds
    BY OpenSinkIs, PipelineConstants DEF Types
  <2> QED
    BY <2>2, <2>3, <2>4, <2>5, OpenSinkIs, Zenon DEF Types, N, Sinks
<1>2. hit \subseteq hit'
  BY OpenSinkIs
<1> USE DEF Looping, Active, Busy, Closing, Before
<1>3. MainInv'
  BY <1>2, OpenSinkIs, NeedsSame DEF MainInv
<1>4. ThreadsInv'
  BY OpenSinkIs DEF ThreadsInv
<1>5. ReaderInv'
  BY <1>2, OpenSinkIs DEF ReaderInv, Reading
<1>6. LastInv'
  BY <1>2, OpenSinkIs DEF LastInv, Reading
<1> QED
  BY <1>1, <1>3, <1>4, <1>5, <1>6

\* The run starts.
LEMMA SetRunningOK == ControlInv /\ SetRunning => ControlInv'
<1> SUFFICES ASSUME ControlInv, SetRunning PROVE ControlInv'
  OBVIOUS
<1> USE DEF ControlInv
<1>1. Types'
  <2>1. pipe' \in PipeType
    BY Zenon DEF Types, SetRunning, Goto, Stop, Fault, PipeType
  <2>2. main' \in MainType
    BY Consts, SetRunningIs, ZenonT(40) DEF Types, SetRunning, Goto, Stop, Fault, MainType, Codes, MainPcs, Before, Active, Looping, Busy, Closing
  <2>3. main'.k \in 1..(Len(setup.caps) + 1) /\ Len(main'.batch) <= MaxBatch
    BY SetRunningIs, Sizes
  <2> QED
    BY <2>1, <2>2, <2>3, SetRunningIs, Zenon DEF Types, N, Sinks
<1> USE DEF Looping, Active, Busy, Closing, Before
<1>2. MainInv'
  BY SetRunningIs, NeedsSame DEF MainInv
<1>3. ThreadsInv'
  BY SetRunningIs DEF ThreadsInv
<1>4. ReaderInv'
  BY SetRunningIs DEF ReaderInv, Reading
<1>5. LastInv'
  BY SetRunningIs DEF LastInv, Reading
<1> QED
  BY <1>1, <1>2, <1>3, <1>4, <1>5

\* The loop over the tracks.
LEMMA NextTrackOK == ControlInv /\ NextTrack => ControlInv'
<1> SUFFICES ASSUME ControlInv, NextTrack PROVE ControlInv'
  OBVIOUS
<1> USE DEF ControlInv
<1>1. Types'
  <2>1. main' \in MainType
    BY Consts, NextTrackIs, ZenonT(40) DEF Types, NextTrack, Goto, Stop, Fault, MainType, Codes, MainPcs, Before, Active, Looping, Busy, Closing
  <2>2. main'.k \in 1..(Len(setup.caps) + 1) /\ Len(main'.batch) <= MaxBatch
    BY NextTrackIs, Sizes, SMTT(40)
  <2> QED
    BY <2>1, <2>2, NextTrackIs, Zenon DEF Types, N, Sinks
<1> USE DEF Looping, Active, Busy, Closing, Before
<1>2. MainInv'
  <2>1. main.track \in 0..(Tracks + 1)
    BY Sizes
  <2>2. main.track # 0 /\ main.pc = "track"
    BY NextTrackIs DEF MainInv
  <2>3. main.track <= Tracks => main.track \in 1..Tracks
    BY <2>1, <2>2, PipelineConstants
  <2>4. main.track <= Tracks => main'.track \in 1..Tracks
    BY <2>3, NextTrackIs
  <2>5. /\ pipe'.dsd2pcm = needs_pcm' /\ pipe'.decoder = needs_decoder'
        /\ needs_pcm' /\ setup'.src = "DST" => needs_decoder'
    <3>1. pipe' = pipe /\ setup' = setup
      BY NextTrackIs
    <3>2. needs_pcm' = needs_pcm /\ needs_decoder' = needs_decoder
      BY <3>1, NeedsSame
    <3> QED
      BY <2>2, <3>1, <3>2, Zenon DEF MainInv
  <2>6. /\ main'.pc \in {"tstart", "final"} /\ (main'.pc = "tstart" => main.track <= Tracks)
        /\ main'.result = main.result /\ main'.noend = main.noend /\ ~main'.complete
        /\ hit' = hit
    BY NextTrackIs, Zenon
  <2> QED
    BY <2>2, <2>4, <2>5, <2>6 DEF MainInv
<1>3. ThreadsInv'
  BY NextTrackIs DEF ThreadsInv
<1>4. ReaderInv'
  BY NextTrackIs DEF ReaderInv, Reading
<1>5. LastInv'
  BY NextTrackIs DEF LastInv, Reading
<1> QED
  BY <1>1, <1>2, <1>3, <1>4, <1>5

\* One sink is told of the start of the track.
LEMMA TrackStartOK == ControlInv /\ TrackStart => ControlInv'
<1> SUFFICES ASSUME ControlInv, TrackStart PROVE ControlInv'
  OBVIOUS
<1> USE DEF ControlInv
<1>1. Types'
  <2>1. /\ main.k + 1 \in Nat /\ main.track \in 0..Tracks
    <3>1. main.k + 1 \in Nat
      BY Sizes
    <3>2. main.pc = "tstart"
      BY TrackStartIs
    <3>3. main.track \in 1..Tracks
      BY <3>2 DEF MainInv
    <3> QED
      BY <3>1, <3>3, PipelineConstants
  <2>2. main' \in MainType
    BY <2>1, Consts, TrackStartIs, ZenonT(40) DEF Types, TrackStart, Goto, Stop, Fault, MainType, Codes, MainPcs, Before, Active, Looping, Busy, Closing
  <2>3. main'.k \in 1..(Len(setup.caps) + 1) /\ Len(main'.batch) <= MaxBatch
    <3>1. main'.k \in {main.k, main.k + 1} /\ main.k \in Sinks /\ main'.batch = main.batch
      BY TrackStartIs, Zenon
    <3>2. /\ Sinks = 1..Len(setup.caps) /\ Len(setup.caps) \in Nat
          /\ N = Len(main.batch) /\ N \in 0..MaxBatch
      BY Sizes
    <3> QED
      BY <3>1, <3>2, PipelineConstants
  <2>4. sinks' \in [Sinks -> SinkType]
    BY <2>1, TrackStartIs, Zenon
  <2>5. hit' \subseteq Kinds
    BY TrackStartIs, PipelineConstants DEF Types
  <2> QED
    BY <2>2, <2>3, <2>4, <2>5, TrackStartIs, Zenon DEF Types, N, Sinks
<1>2. hit \subseteq hit'
  BY TrackStartIs
<1> USE DEF Looping, Active, Busy, Closing, Before
<1>3. MainInv'
  BY <1>2, TrackStartIs, NeedsSame DEF MainInv
<1>4. ThreadsInv'
  BY TrackStartIs DEF ThreadsInv
<1>5. ReaderInv'
  BY <1>2, TrackStartIs DEF ReaderInv, Reading
<1>6. LastInv'
  BY <1>2, TrackStartIs DEF LastInv, Reading
<1> QED
  BY <1>1, <1>3, <1>4, <1>5, <1>6

\* The queue and the reader thread are created.
LEMMA CreateReaderOK == ControlInv /\ CreateReader => ControlInv'
<1> SUFFICES ASSUME ControlInv, CreateReader PROVE ControlInv'
  OBVIOUS
<1> USE DEF ControlInv
<1>1. Types'
  <2>1. main' \in MainType
    BY Consts, CreateReaderIs, ZenonT(40) DEF Types, CreateReader, Goto, Stop, Fault, MainType, Codes, MainPcs, Before, Active, Looping, Busy, Closing
  <2>2. main'.k \in 1..(Len(setup.caps) + 1) /\ Len(main'.batch) <= MaxBatch
    BY CreateReaderIs, Sizes
  <2>3. queue' \in QueueType /\ Len(queue'.fifo) <= QCapacity
    BY Consts, NewIs, CreateReaderIs, ZenonT(40) DEF Types, CreateReader, Goto, Stop, Fault, QueueType
  <2>4. reader' \in ReaderType
    BY Consts, NewIs, CreateReaderIs, ZenonT(40) DEF Types, CreateReader, Goto, Stop, Fault, ReaderType, ReaderPcs, Codes
  <2>5. hit' \subseteq Kinds
    BY CreateReaderIs, PipelineConstants DEF Types
  <2> QED
    BY <2>1, <2>2, <2>3, <2>4, <2>5, CreateReaderIs, Zenon DEF Types, N, Sinks
<1>2. hit \subseteq hit'
  BY CreateReaderIs
<1> USE DEF Looping, Active, Busy, Closing, Before
<1>3. MainInv'
  BY <1>2, CreateReaderIs, NeedsSame DEF MainInv
<1>4. ThreadsInv'
  BY CreateReaderIs, NewIs DEF ThreadsInv
<1>5. ReaderInv'
  BY <1>2, CreateReaderIs, NewIs DEF ReaderInv, Reading
<1>6. LastInv'
  <2>1. ~main.complete /\ DOMAIN <<>> = {}
    BY CreateReaderIs DEF MainInv
  <2> QED
    BY <1>2, <2>1, CreateReaderIs, NewIs DEF LastInv, Reading
<1> QED
  BY <1>1, <1>3, <1>4, <1>5, <1>6

\* The test of the batch loop.
LEMMA LoopOK == ControlInv /\ Loop => ControlInv'
<1> SUFFICES ASSUME ControlInv, Loop PROVE ControlInv'
  OBVIOUS
<1> USE DEF ControlInv
<1>1. Types'
  <2>1. main' \in MainType
    BY Consts, LoopIs, ZenonT(40) DEF Types, Loop, Goto, Stop, Fault, MainType, Codes, MainPcs, Before, Active, Looping, Busy, Closing
  <2>2. main'.k \in 1..(Len(setup.caps) + 1) /\ Len(main'.batch) <= MaxBatch
    BY LoopIs, Sizes
  <2> QED
    BY <2>1, <2>2, LoopIs, Zenon DEF Types, N, Sinks
<1> USE DEF Looping, Active, Busy, Closing, Before
<1>2. MainInv'
  BY LoopIs, NeedsSame DEF MainInv, Done
<1>3. ThreadsInv'
  BY LoopIs DEF ThreadsInv
<1>4. ReaderInv'
  BY LoopIs DEF ReaderInv, Reading
<1>5. LastInv'
  BY LoopIs DEF LastInv, Reading
<1> QED
  BY <1>1, <1>2, <1>3, <1>4, <1>5

\* A pop moves frames from the queue to the batch.
LEMMA PopOK == ControlInv /\ Pop => ControlInv'
<1> SUFFICES ASSUME ControlInv, Pop PROVE ControlInv'
  OBVIOUS
<1> USE DEF ControlInv
<1> DEFINE q == queue.fifo
           r == queue'.fifo
<1>1. PICK n \in 0..MaxBatch :
             /\ main.pc = "pop"
             /\ q # <<>> \/ queue.eof \/ queue.cancelled
             /\ n <= Len(q)
             /\ ~queue.cancelled /\ q # <<>> => n > 0
             /\ \A i \in 1..(n - 1) : ~q[i].last
             /\ main'.pc = (IF n = 0 THEN "empty" ELSE "decode")
             /\ main'.batch \in Seq(0..Length) /\ Len(main'.batch) = n
             /\ main'.complete <=> n > 0 /\ q[n].last
             /\ main'.track = main.track /\ main'.k = main.k /\ main'.j = main.j
             /\ main'.result = main.result /\ main'.noend = main.noend
             /\ main' \in MainType
             /\ r \in Seq(Frame) /\ Len(r) = Len(q) - n
             /\ \A i \in 1..(Len(q) - n) : r[i] = q[n + i]
             /\ queue'.eof = queue.eof /\ queue'.cancelled = queue.cancelled
             /\ queue'.open = queue.open /\ queue' \in QueueType
             /\ UNCHANGED <<setup, pipe, sinks, reader, bufs, given, hit, late>>
  BY PopIs, Zenon
<1>2. /\ n \in Nat /\ n <= MaxBatch /\ Len(q) \in 0..QCapacity /\ q \in Seq(Frame)
      /\ DOMAIN q = 1..Len(q) /\ DOMAIN r = 1..(Len(q) - n)
      /\ main.k \in 1..(Len(setup.caps) + 1)
  <2>1. /\ Len(q) \in 0..QCapacity /\ q \in Seq(Frame) /\ DOMAIN q = 1..Len(q)
        /\ main.k \in 1..(Len(setup.caps) + 1)
    BY Sizes
  <2>2. r \in Seq(Frame) /\ Len(r) = Len(q) - n
    BY <1>1
  <2> QED
    BY <2>1, <2>2, PipelineConstants
<1>3. Types'
  <2>1. main'.k \in 1..(Len(setup.caps) + 1) /\ Len(main'.batch) <= MaxBatch
    BY <1>1, <1>2
  <2>2. Len(r) <= QCapacity
    BY <1>1, <1>2, PipelineConstants
  <2> QED
    BY <1>1, <2>1, <2>2, Zenon DEF Types, N, Sinks
<1>4. r = <<>> <=> n = Len(q)
  BY <1>1, <1>2
<1>5. \A i \in 1..Len(q) : q[i].last => i = Len(q)
  BY <1>2 DEF LastInv
<1>6. /\ ~main.complete /\ ~reader.cancelled /\ ~queue.cancelled /\ main.pc \in Active
      /\ Reading' = Reading
  BY <1>1 DEF MainInv, ThreadsInv, Looping, Active, Reading
<1>7. main'.complete => n = Len(q) /\ n > 0 /\ q[n].last
  BY <1>1, <1>2, <1>5
<1>8. \A i \in 1..(Len(q) - n) : n + i \in 1..Len(q)
  BY <1>2
<1>9. \A i \in DOMAIN r : r[i].last => i = Len(r)
  <2>1. ASSUME NEW i \in DOMAIN r, r[i].last PROVE i = Len(r)
    <3>1. i \in 1..(Len(q) - n) /\ r[i] = q[n + i] /\ Len(r) = Len(q) - n
      BY <1>1, <1>2
    <3>2. n + i = Len(q)
      BY <1>5, <1>8, <2>1, <3>1
    <3>3. n \in Int /\ Len(q) \in Int /\ i \in Int
      BY <1>2, <3>1, PipelineConstants
    <3> QED
      BY <3>1, <3>2, <3>3
  <2> QED
    BY <2>1
<1>10. n = 0 => q = <<>> /\ queue.eof
  BY <1>1, <1>6
<1>11. n = 0 => reader.error # "OK"
  <2> SUFFICES ASSUME n = 0, reader.error = "OK" PROVE FALSE
    OBVIOUS
  <2>1. ~Reading
    BY <1>10 DEF ReaderInv
  <2> QED
    BY <2>1, <1>6, <1>10 DEF LastInv
<1> USE DEF Looping, Active, Busy, Closing, Before
<1>12. MainInv'
  <2>1. /\ pipe'.dsd2pcm = needs_pcm' /\ pipe'.decoder = needs_decoder'
        /\ needs_pcm' /\ setup'.src = "DST" => needs_decoder'
    <3>1. pipe' = pipe /\ setup' = setup /\ main.pc = "pop"
      BY <1>1
    <3>2. needs_pcm' = needs_pcm /\ needs_decoder' = needs_decoder
      BY <3>1, NeedsSame
    <3> QED
      BY <3>1, <3>2, Zenon DEF MainInv
  <2>2. main'.pc = "empty" => ~main'.complete
    BY <1>1, <1>7
  <2>3. /\ main'.pc \in {"empty", "decode"} /\ main'.track = main.track
        /\ main'.result = main.result /\ main'.noend = main.noend /\ hit' = hit
        /\ main.pc = "pop"
    BY <1>1
  <2> QED
    BY <2>1, <2>2, <2>3 DEF MainInv
<1>13. ThreadsInv'
  <2>1. /\ main.pc = "pop" /\ main'.pc \in {"empty", "decode"} /\ reader' = reader
        /\ queue'.cancelled = queue.cancelled /\ queue'.open = queue.open
    BY <1>1
  <2> QED
    BY <2>1 DEF ThreadsInv
<1>14. ReaderInv'
  <2>1. /\ main.pc = "pop" /\ reader' = reader /\ hit' = hit
        /\ queue'.eof = queue.eof /\ (q = <<>> => r = <<>>)
    BY <1>1, <1>2, <1>4
  <2> QED
    BY <2>1, <1>6 DEF ReaderInv
<1>15. LastInv'
  <2>1. reader' = reader /\ hit' = hit /\ (main'.pc = "empty" => n = 0) /\ main'.pc \in Active
    BY <1>1
  <2>2. Reading \/ reader.error # "OK" => \A i \in 1..Len(q) : ~q[i].last
    BY <1>2, <1>6 DEF LastInv
  <2>3. Reading \/ reader.error # "OK" =>
          ~main'.complete /\ \A i \in DOMAIN r : ~r[i].last
    <3>1. ASSUME Reading \/ reader.error # "OK", NEW i \in DOMAIN r PROVE ~r[i].last
      BY <1>1, <1>2, <1>8, <2>2, <3>1
    <3>2. Reading \/ reader.error # "OK" => ~main'.complete
      BY <1>1, <1>2, <2>2
    <3> QED
      BY <3>1, <3>2
  <2>4. ASSUME ~Reading, reader.error = "OK"
        PROVE  /\ reader.pos = Length \/ "short" \in hit
               /\ main'.complete \/ (r # <<>> /\ r[Len(r)].last)
    <3>1. /\ q # <<>> /\ q[Len(q)].last /\ (reader.pos = Length \/ "short" \in hit)
      BY <2>4, <1>6 DEF LastInv
    <3>2. CASE n = Len(q)
      BY <3>1, <3>2, <1>1, <1>2
    <3>3. CASE n # Len(q)
      <4>1. r[Len(r)] = q[Len(q)]
        BY <3>3, <1>1, <1>2
      <4> QED
        BY <3>1, <3>3, <4>1, <1>4
    <3> QED
      BY <3>1, <3>2, <3>3
  <2>5. main'.complete => r = <<>> /\ (reader.pos = Length \/ "short" \in hit)
    BY <1>4, <1>7, <2>3, <2>4
  <2> QED
    BY <1>6, <1>9, <1>11, <2>1, <2>3, <2>4, <2>5 DEF LastInv
<1> QED
  BY <1>3, <1>12, <1>13, <1>14, <1>15

\* Nothing was popped.
LEMMA EmptyOK == ControlInv /\ Empty => ControlInv'
<1> SUFFICES ASSUME ControlInv, Empty PROVE ControlInv'
  OBVIOUS
<1> USE DEF ControlInv
<1>1. Types'
  <2>1. /\ reader.error \in Codes
    BY Flags
  <2>2. main' \in MainType
    BY <2>1, Consts, EmptyIs, ZenonT(40) DEF Types, Empty, Goto, Stop, Fault, MainType, Codes, MainPcs, Before, Active, Looping, Busy, Closing
  <2>3. main'.k \in 1..(Len(setup.caps) + 1) /\ Len(main'.batch) <= MaxBatch
    BY EmptyIs, Sizes
  <2> QED
    BY <2>2, <2>3, EmptyIs, Zenon DEF Types, N, Sinks
<1> USE DEF Looping, Active, Busy, Closing, Before
<1>2. MainInv'
  BY EmptyIs, NeedsSame DEF MainInv
<1>3. ThreadsInv'
  BY EmptyIs DEF ThreadsInv
<1>4. ReaderInv'
  BY EmptyIs DEF ReaderInv, Reading
<1>5. LastInv'
  BY EmptyIs DEF LastInv, Reading
<1> QED
  BY <1>1, <1>2, <1>3, <1>4, <1>5

\* Decoding the batch.
LEMMA DecodeOK == ControlInv /\ Decode => ControlInv'
<1> SUFFICES ASSUME ControlInv, Decode PROVE ControlInv'
  OBVIOUS
<1> USE DEF ControlInv
<1>1. Types'
  <2>1. /\ bufs.dsd + N \in Int /\ bufs.dsd - N \in Int
    BY Sizes
  <2>2. main' \in MainType
    BY <2>1, Consts, DecodeIs, ZenonT(40) DEF Types, Decode, Goto, Stop, Fault, MainType, Codes, MainPcs, Before, Active, Looping, Busy, Closing
  <2>3. main'.k \in 1..(Len(setup.caps) + 1) /\ Len(main'.batch) <= MaxBatch
    BY DecodeIs, Sizes
  <2>4. bufs' \in [dsd : Int, pcm : Int]
    BY <2>1, Consts, DecodeIs, ZenonT(40) DEF Types, Decode, Goto, Stop, Fault
  <2>5. hit' \subseteq Kinds
    BY DecodeIs, PipelineConstants DEF Types, Kinds
  <2> QED
    BY <2>2, <2>3, <2>4, <2>5, DecodeIs, Zenon DEF Types, N, Sinks
<1>2. hit \subseteq hit'
  BY DecodeIs
<1> USE DEF Looping, Active, Busy, Closing, Before
<1>3. MainInv'
  <2>1. /\ pipe'.dsd2pcm = needs_pcm' /\ pipe'.decoder = needs_decoder'
        /\ needs_pcm' /\ setup'.src = "DST" => needs_decoder'
    <3>1. /\ pipe'.dsd2pcm = pipe.dsd2pcm /\ pipe'.decoder = pipe.decoder /\ setup' = setup
          /\ main.pc = "decode"
      BY DecodeIs, Zenon
    <3>2. needs_pcm' = needs_pcm /\ needs_decoder' = needs_decoder
      BY <3>1, NeedsSame
    <3> QED
      BY <3>1, <3>2, Zenon DEF MainInv
  <2> QED
    BY <1>2, <2>1, DecodeIs DEF MainInv
<1>4. ThreadsInv'
  BY DecodeIs DEF ThreadsInv
<1>5. ReaderInv'
  BY <1>2, DecodeIs DEF ReaderInv, Reading
<1>6. LastInv'
  BY <1>2, DecodeIs DEF LastInv, Reading
<1> QED
  BY <1>1, <1>3, <1>4, <1>5, <1>6

\* One frame to the sinks that take its format.
LEMMA WriteDsdOK == ControlInv /\ WriteDsd => ControlInv'
<1> SUFFICES ASSUME ControlInv, WriteDsd PROVE ControlInv'
  OBVIOUS
<1> USE DEF ControlInv
<1>1. Types'
  <2>1. /\ main.j + 1 \in 1..(MaxBatch + 1)
        /\ bufs.dsd - PerFrame * (N - main.j + 1) \in Int
    <3>1. main.j <= N
      BY WriteDsdIs
    <3>2. PerFrame \in Int /\ N \in Int /\ N <= MaxBatch /\ main.j \in Int /\ main.j >= 1 /\ bufs.dsd \in Int
      BY Sizes
    <3>3. PerFrame * (N - main.j + 1) \in Int
      BY <3>2
    <3> QED
      BY <3>1, <3>2, <3>3, PipelineConstants
  <2>2. main' \in MainType
    BY <2>1, Consts, WriteDsdIs, ZenonT(40) DEF Types, WriteDsd, Goto, Stop, Fault, MainType, Codes, MainPcs, Before, Active, Looping, Busy, Closing
  <2>3. main'.k \in 1..(Len(setup.caps) + 1) /\ Len(main'.batch) <= MaxBatch
    BY WriteDsdIs, Sizes, SMTT(40)
  <2>4. /\ sinks' \in [Sinks -> SinkType] /\ hit' \subseteq Kinds /\ late' \in Nat
    <3>1. main.track \in 1..Tracks
      BY WriteDsdIs DEF MainInv, Active, Looping, Busy
    <3>2. main.j <= N /\ (WriteOK(Format) \/ WriteFails(Format, "writedsd"))
      BY WriteDsdIs, Zenon
    <3> QED
      BY <3>1, <3>2, WriteIs
  <2>5. bufs' \in [dsd : Int, pcm : Int]
    BY <2>1, Consts, WriteDsdIs, ZenonT(40) DEF Types, WriteDsd, Goto, Stop, Fault
  <2> QED
    BY <2>2, <2>3, <2>4, <2>5, WriteDsdIs, Zenon DEF Types, N, Sinks
<1>2. hit \subseteq hit'
  <2>1. main.track \in 1..Tracks
    BY WriteDsdIs DEF MainInv, Active, Looping, Busy
  <2>2. main.j <= N /\ (WriteOK(Format) \/ WriteFails(Format, "writedsd"))
    BY WriteDsdIs, Zenon
  <2> QED
    BY <2>1, <2>2, WriteIs
<1> USE DEF Looping, Active, Busy, Closing, Before
<1>3. MainInv'
  BY <1>2, WriteDsdIs, NeedsSame DEF MainInv
<1>4. ThreadsInv'
  BY WriteDsdIs DEF ThreadsInv
<1>5. ReaderInv'
  BY <1>2, WriteDsdIs DEF ReaderInv, Reading
<1>6. LastInv'
  BY <1>2, WriteDsdIs DEF LastInv, Reading
<1> QED
  BY <1>1, <1>3, <1>4, <1>5, <1>6

\* The batch is written.
LEMMA DsdWrittenOK == ControlInv /\ DsdWritten => ControlInv'
<1> SUFFICES ASSUME ControlInv, DsdWritten PROVE ControlInv'
  OBVIOUS
<1> USE DEF ControlInv
<1>1. Types'
  <2>1. main' \in MainType
    BY Consts, DsdWrittenIs, ZenonT(40) DEF Types, DsdWritten, Goto, Stop, Fault, MainType, Codes, MainPcs, Before, Active, Looping, Busy, Closing
  <2>2. main'.k \in 1..(Len(setup.caps) + 1) /\ Len(main'.batch) <= MaxBatch
    BY DsdWrittenIs, Sizes
  <2> QED
    BY <2>1, <2>2, DsdWrittenIs, Zenon DEF Types, N, Sinks
<1> USE DEF Looping, Active, Busy, Closing, Before
<1>2. MainInv'
  BY DsdWrittenIs, NeedsSame DEF MainInv
<1>3. ThreadsInv'
  BY DsdWrittenIs DEF ThreadsInv
<1>4. ReaderInv'
  BY DsdWrittenIs DEF ReaderInv, Reading
<1>5. LastInv'
  BY DsdWrittenIs DEF LastInv, Reading
<1> QED
  BY <1>1, <1>2, <1>3, <1>4, <1>5

\* Converting the batch to PCM.
LEMMA ConvertOK == ControlInv /\ Convert => ControlInv'
<1> SUFFICES ASSUME ControlInv, Convert PROVE ControlInv'
  OBVIOUS
<1> USE DEF ControlInv
<1>1. Types'
  <2>1. /\ bufs.dsd - PerFrame * N \in Int /\ N \in Int
    <3>1. PerFrame \in Int /\ N \in 0..MaxBatch /\ bufs.dsd \in Int
      BY Sizes
    <3> QED
      BY <3>1, PipelineConstants
  <2>2. main' \in MainType
    BY <2>1, Consts, ConvertIs, ZenonT(40) DEF Types, Convert, Goto, Stop, Fault, AllReleased, MainType, Codes, MainPcs, Before, Active, Looping, Busy, Closing
  <2>3. main'.k \in 1..(Len(setup.caps) + 1) /\ Len(main'.batch) <= MaxBatch
    BY ConvertIs, Sizes
  <2>4. bufs' \in [dsd : Int, pcm : Int]
    BY <2>1, Consts, ConvertIs, ZenonT(40) DEF Types, Convert, Goto, Stop, Fault, AllReleased
  <2>5. hit' \subseteq Kinds
    BY ConvertIs, PipelineConstants DEF Types
  <2> QED
    BY <2>2, <2>3, <2>4, <2>5, ConvertIs, Zenon DEF Types, N, Sinks
<1>2. hit \subseteq hit'
  BY ConvertIs
<1> USE DEF Looping, Active, Busy, Closing, Before
<1>3. MainInv'
  BY <1>2, ConvertIs, NeedsSame DEF MainInv
<1>4. ThreadsInv'
  BY ConvertIs DEF ThreadsInv
<1>5. ReaderInv'
  BY <1>2, ConvertIs DEF ReaderInv, Reading
<1>6. LastInv'
  BY <1>2, ConvertIs DEF LastInv, Reading
<1> QED
  BY <1>1, <1>3, <1>4, <1>5, <1>6

\* One frame to the sinks that take PCM.
LEMMA WritePcmOK == ControlInv /\ WritePcm => ControlInv'
<1> SUFFICES ASSUME ControlInv, WritePcm PROVE ControlInv'
  OBVIOUS
<1> USE DEF ControlInv
<1>1. Types'
  <2>1. /\ main.j + 1 \in 1..(MaxBatch + 1) /\ bufs.dsd - PerFrame * N \in Int
        /\ bufs.pcm - 1 \in Int
    <3>1. main.j <= N
      BY WritePcmIs
    <3>2. PerFrame \in Int /\ N \in Int /\ N <= MaxBatch /\ main.j \in Int /\ main.j >= 1 /\ bufs.dsd \in Int /\ bufs.pcm \in Int
      BY Sizes
    <3>3. PerFrame * N \in Int
      BY <3>2
    <3> QED
      BY <3>1, <3>2, <3>3, PipelineConstants
  <2>2. main' \in MainType
    BY <2>1, Consts, WritePcmIs, ZenonT(40) DEF Types, WritePcm, Goto, Stop, Fault, AllReleased, MainType, Codes, MainPcs, Before, Active, Looping, Busy, Closing
  <2>3. main'.k \in 1..(Len(setup.caps) + 1) /\ Len(main'.batch) <= MaxBatch
    BY WritePcmIs, Sizes, SMTT(40)
  <2>4. /\ sinks' \in [Sinks -> SinkType] /\ hit' \subseteq Kinds /\ late' \in Nat
    <3>1. main.track \in 1..Tracks
      BY WritePcmIs DEF MainInv, Active, Looping, Busy
    <3>2. main.j <= N /\ (WriteOK("PCM") \/ WriteFails("PCM", "writepcm"))
      BY WritePcmIs, Zenon
    <3> QED
      BY <3>1, <3>2, WriteIs
  <2>5. bufs' \in [dsd : Int, pcm : Int]
    BY <2>1, Consts, WritePcmIs, ZenonT(40) DEF Types, WritePcm, Goto, Stop, Fault, AllReleased
  <2> QED
    BY <2>2, <2>3, <2>4, <2>5, WritePcmIs, Zenon DEF Types, N, Sinks
<1>2. hit \subseteq hit'
  <2>1. main.track \in 1..Tracks
    BY WritePcmIs DEF MainInv, Active, Looping, Busy
  <2>2. main.j <= N /\ (WriteOK("PCM") \/ WriteFails("PCM", "writepcm"))
    BY WritePcmIs, Zenon
  <2> QED
    BY <2>1, <2>2, WriteIs
<1> USE DEF Looping, Active, Busy, Closing, Before
<1>3. MainInv'
  BY <1>2, WritePcmIs, NeedsSame DEF MainInv
<1>4. ThreadsInv'
  BY WritePcmIs DEF ThreadsInv
<1>5. ReaderInv'
  BY <1>2, WritePcmIs DEF ReaderInv, Reading
<1>6. LastInv'
  BY <1>2, WritePcmIs DEF LastInv, Reading
<1> QED
  BY <1>1, <1>3, <1>4, <1>5, <1>6

\* The PCM of the batch is written.
LEMMA PcmWrittenOK == ControlInv /\ PcmWritten => ControlInv'
<1> SUFFICES ASSUME ControlInv, PcmWritten PROVE ControlInv'
  OBVIOUS
<1> USE DEF ControlInv
<1>1. Types'
  <2>1. main' \in MainType
    BY Consts, PcmWrittenIs, ZenonT(40) DEF Types, PcmWritten, Goto, Stop, Fault, MainType, Codes, MainPcs, Before, Active, Looping, Busy, Closing
  <2>2. main'.k \in 1..(Len(setup.caps) + 1) /\ Len(main'.batch) <= MaxBatch
    <3>1. main'.k = main.k /\ main'.batch = main.batch
      BY PcmWrittenIs, Zenon
    <3> QED
      BY <3>1, Sizes
  <2> QED
    BY <2>1, <2>2, PcmWrittenIs, Zenon DEF Types, N, Sinks
<1> USE DEF Looping, Active, Busy, Closing, Before
<1>2. MainInv'
  BY PcmWrittenIs, NeedsSame DEF MainInv
<1>3. ThreadsInv'
  BY PcmWrittenIs DEF ThreadsInv
<1>4. ReaderInv'
  BY PcmWrittenIs DEF ReaderInv, Reading
<1>5. LastInv'
  BY PcmWrittenIs DEF LastInv, Reading
<1> QED
  BY <1>1, <1>2, <1>3, <1>4, <1>5

\* The end of a batch.
LEMMA ReleaseOK == ControlInv /\ Release => ControlInv'
<1> SUFFICES ASSUME ControlInv, Release PROVE ControlInv'
  OBVIOUS
<1> USE DEF ControlInv
<1>1. Types'
  <2>1. /\ bufs.dsd - PerFrame * N \in Int
    <3>1. PerFrame \in Int /\ N \in 0..MaxBatch /\ bufs.dsd \in Int
      BY Sizes
    <3> QED
      BY <3>1, PipelineConstants
  <2>2. pipe' \in PipeType
    BY <2>1, Zenon DEF Types, Release, Goto, Stop, Fault, AllReleased, PipeType
  <2>3. main' \in MainType
    BY <2>1, Consts, ReleaseIs, ZenonT(40) DEF Types, Release, Goto, Stop, Fault, AllReleased, MainType, Codes, MainPcs, Before, Active, Looping, Busy, Closing
  <2>4. main'.k \in 1..(Len(setup.caps) + 1) /\ Len(main'.batch) <= MaxBatch
    BY ReleaseIs, Sizes
  <2>5. bufs' \in [dsd : Int, pcm : Int]
    BY <2>1, Consts, ReleaseIs, ZenonT(40) DEF Types, Release, Goto, Stop, Fault, AllReleased
  <2>6. hit' \subseteq Kinds
    BY ReleaseIs, PipelineConstants DEF Types
  <2> QED
    BY <2>2, <2>3, <2>4, <2>5, <2>6, ReleaseIs, Zenon DEF Types, N, Sinks
<1>2. hit \subseteq hit'
  BY ReleaseIs
<1> USE DEF Looping, Active, Busy, Closing, Before
<1>3. MainInv'
  <2>1. /\ pipe'.dsd2pcm = needs_pcm' /\ pipe'.decoder = needs_decoder'
        /\ needs_pcm' /\ setup'.src = "DST" => needs_decoder'
    <3>1. /\ pipe'.dsd2pcm = pipe.dsd2pcm /\ pipe'.decoder = pipe.decoder /\ setup' = setup
          /\ main.pc = "release"
      BY ReleaseIs, Zenon
    <3>2. needs_pcm' = needs_pcm /\ needs_decoder' = needs_decoder
      BY <3>1, NeedsSame
    <3> QED
      BY <3>1, <3>2, Zenon DEF MainInv
  <2> QED
    BY <1>2, <2>1, ReleaseIs DEF MainInv
<1>4. ThreadsInv'
  BY ReleaseIs DEF ThreadsInv
<1>5. ReaderInv'
  BY <1>2, ReleaseIs DEF ReaderInv, Reading
<1>6. LastInv'
  BY <1>2, ReleaseIs DEF LastInv, Reading
<1> QED
  BY <1>1, <1>3, <1>4, <1>5, <1>6

\* The cleanup cancels the reader or waits for it.
LEMMA CleanOK == ControlInv /\ Clean => ControlInv'
<1> SUFFICES ASSUME ControlInv, Clean PROVE ControlInv'
  OBVIOUS
<1> USE DEF ControlInv
<1>1. Types'
  <2>1. main' \in MainType
    BY Consts, CleanIs, ZenonT(40) DEF Types, Clean, Goto, Stop, Fault, MainType, Codes, MainPcs, Before, Active, Looping, Busy, Closing
  <2>2. main'.k \in 1..(Len(setup.caps) + 1) /\ Len(main'.batch) <= MaxBatch
    BY CleanIs, Sizes
  <2> QED
    BY <2>1, <2>2, CleanIs, Zenon DEF Types, N, Sinks
<1> USE DEF Looping, Active, Busy, Closing, Before
<1>2. MainInv'
  BY CleanIs, NeedsSame DEF MainInv
<1>3. ThreadsInv'
  BY CleanIs DEF ThreadsInv
<1>4. ReaderInv'
  BY CleanIs DEF ReaderInv, Reading
<1>5. LastInv'
  BY CleanIs DEF LastInv, Reading
<1> QED
  BY <1>1, <1>2, <1>3, <1>4, <1>5

\* The reader is cancelled.
LEMMA CancelReaderOK == ControlInv /\ CancelReader => ControlInv'
<1> SUFFICES ASSUME ControlInv, CancelReader PROVE ControlInv'
  OBVIOUS
<1> USE DEF ControlInv
<1>1. Types'
  <2>1. main' \in MainType
    BY Consts, CancelReaderIs, ZenonT(40) DEF Types, CancelReader, Goto, Stop, Fault, MainType, Codes, MainPcs, Before, Active, Looping, Busy, Closing
  <2>2. main'.k \in 1..(Len(setup.caps) + 1) /\ Len(main'.batch) <= MaxBatch
    BY CancelReaderIs, Sizes
  <2>3. reader' \in ReaderType
    BY Consts, NewIs, CancelReaderIs, ZenonT(40) DEF Types, CancelReader, Goto, Stop, Fault, ReaderType, ReaderPcs, Codes
  <2> QED
    BY <2>1, <2>2, <2>3, CancelReaderIs, Zenon DEF Types, N, Sinks
<1> USE DEF Looping, Active, Busy, Closing, Before
<1>2. MainInv'
  BY CancelReaderIs, NeedsSame DEF MainInv
<1>3. ThreadsInv'
  BY CancelReaderIs DEF ThreadsInv
<1>4. ReaderInv'
  BY CancelReaderIs DEF ReaderInv, Reading
<1>5. LastInv'
  BY CancelReaderIs DEF LastInv, Reading
<1> QED
  BY <1>1, <1>2, <1>3, <1>4, <1>5

\* The queue is cancelled.
LEMMA CancelQueueOK == ControlInv /\ CancelQueue => ControlInv'
<1> SUFFICES ASSUME ControlInv, CancelQueue PROVE ControlInv'
  OBVIOUS
<1> USE DEF ControlInv
<1>1. Types'
  <2>1. main' \in MainType
    BY Consts, CancelQueueIs, ZenonT(40) DEF Types, CancelQueue, Goto, Stop, Fault, MainType, Codes, MainPcs, Before, Active, Looping, Busy, Closing
  <2>2. main'.k \in 1..(Len(setup.caps) + 1) /\ Len(main'.batch) <= MaxBatch
    BY CancelQueueIs, Sizes
  <2>3. queue' \in QueueType /\ Len(queue'.fifo) <= QCapacity
    BY Consts, NewIs, CancelQueueIs, ZenonT(40) DEF Types, CancelQueue, Goto, Stop, Fault, QueueType
  <2> QED
    BY <2>1, <2>2, <2>3, CancelQueueIs, Zenon DEF Types, N, Sinks
<1> USE DEF Looping, Active, Busy, Closing, Before
<1>2. MainInv'
  BY CancelQueueIs, NeedsSame DEF MainInv
<1>3. ThreadsInv'
  BY CancelQueueIs DEF ThreadsInv
<1>4. ReaderInv'
  BY CancelQueueIs DEF ReaderInv, Reading
<1>5. LastInv'
  BY CancelQueueIs DEF LastInv, Reading
<1> QED
  BY <1>1, <1>2, <1>3, <1>4, <1>5

\* The reader is told to shut down.
LEMMA WaitReaderOK == ControlInv /\ WaitReader => ControlInv'
<1> SUFFICES ASSUME ControlInv, WaitReader PROVE ControlInv'
  OBVIOUS
<1> USE DEF ControlInv
<1>1. Types'
  <2>1. main' \in MainType
    BY Consts, WaitReaderIs, ZenonT(40) DEF Types, WaitReader, Goto, Stop, Fault, MainType, Codes, MainPcs, Before, Active, Looping, Busy, Closing
  <2>2. main'.k \in 1..(Len(setup.caps) + 1) /\ Len(main'.batch) <= MaxBatch
    BY WaitReaderIs, Sizes
  <2>3. reader' \in ReaderType
    BY Consts, NewIs, WaitReaderIs, ZenonT(40) DEF Types, WaitReader, Goto, Stop, Fault, ReaderType, ReaderPcs, Codes
  <2> QED
    BY <2>1, <2>2, <2>3, WaitReaderIs, Zenon DEF Types, N, Sinks
<1> USE DEF Looping, Active, Busy, Closing, Before
<1>2. MainInv'
  BY WaitReaderIs, NeedsSame DEF MainInv
<1>3. ThreadsInv'
  BY WaitReaderIs DEF ThreadsInv
<1>4. ReaderInv'
  BY WaitReaderIs DEF ReaderInv, Reading
<1>5. LastInv'
  BY WaitReaderIs DEF LastInv, Reading
<1> QED
  BY <1>1, <1>2, <1>3, <1>4, <1>5

\* The queue is cancelled for the shutdown.
LEMMA ShutdownQueueOK == ControlInv /\ ShutdownQueue => ControlInv'
<1> SUFFICES ASSUME ControlInv, ShutdownQueue PROVE ControlInv'
  OBVIOUS
<1> USE DEF ControlInv
<1>1. Types'
  <2>1. main' \in MainType
    BY Consts, ShutdownQueueIs, ZenonT(40) DEF Types, ShutdownQueue, Goto, Stop, Fault, MainType, Codes, MainPcs, Before, Active, Looping, Busy, Closing
  <2>2. main'.k \in 1..(Len(setup.caps) + 1) /\ Len(main'.batch) <= MaxBatch
    BY ShutdownQueueIs, Sizes
  <2>3. queue' \in QueueType /\ Len(queue'.fifo) <= QCapacity
    BY Consts, NewIs, ShutdownQueueIs, ZenonT(40) DEF Types, ShutdownQueue, Goto, Stop, Fault, QueueType
  <2> QED
    BY <2>1, <2>2, <2>3, ShutdownQueueIs, Zenon DEF Types, N, Sinks
<1> USE DEF Looping, Active, Busy, Closing, Before
<1>2. MainInv'
  BY ShutdownQueueIs, NeedsSame DEF MainInv
<1>3. ThreadsInv'
  BY ShutdownQueueIs DEF ThreadsInv
<1>4. ReaderInv'
  BY ShutdownQueueIs DEF ReaderInv, Reading
<1>5. LastInv'
  BY ShutdownQueueIs DEF LastInv, Reading
<1> QED
  BY <1>1, <1>2, <1>3, <1>4, <1>5

\* The reader is joined and the queue destroyed.
LEMMA JoinOK == ControlInv /\ Join => ControlInv'
<1> SUFFICES ASSUME ControlInv, Join PROVE ControlInv'
  OBVIOUS
<1> USE DEF ControlInv
<1>1. Types'
  <2>1. /\ bufs.dsd - Len(queue.fifo) \in Int
    BY Sizes
  <2>2. main' \in MainType
    BY <2>1, Consts, JoinIs, ZenonT(40) DEF Types, Join, Goto, Stop, Fault, Joined, MainType, Codes, MainPcs, Before, Active, Looping, Busy, Closing
  <2>3. main'.k \in 1..(Len(setup.caps) + 1) /\ Len(main'.batch) <= MaxBatch
    BY JoinIs, Sizes
  <2>4. queue' \in QueueType /\ Len(queue'.fifo) <= QCapacity
    BY <2>1, Consts, NewIs, JoinIs, ZenonT(40) DEF Types, Join, Goto, Stop, Fault, Joined, QueueType
  <2>5. bufs' \in [dsd : Int, pcm : Int]
    BY <2>1, Consts, JoinIs, ZenonT(40) DEF Types, Join, Goto, Stop, Fault, Joined
  <2> QED
    BY <2>2, <2>3, <2>4, <2>5, JoinIs, Zenon DEF Types, N, Sinks
<1> USE DEF Looping, Active, Busy, Closing, Before
<1>2. MainInv'
  BY JoinIs, NeedsSame DEF MainInv
<1>3. ThreadsInv'
  BY JoinIs DEF ThreadsInv
<1>4. ReaderInv'
  BY JoinIs DEF ReaderInv, Reading
<1>5. LastInv'
  BY JoinIs DEF LastInv, Reading
<1> QED
  BY <1>1, <1>2, <1>3, <1>4, <1>5

\* The sinks are told of the end of the track.
LEMMA TrackEndOK == ControlInv /\ TrackEnd => ControlInv'
<1> SUFFICES ASSUME ControlInv, TrackEnd PROVE ControlInv'
  OBVIOUS
<1> USE DEF ControlInv
<1>1. Types'
  <2>1. /\ main.track + 1 \in 0..(Tracks + 1)
    <3>1. main.track \in 1..Tracks
      BY TrackEndIs DEF MainInv
    <3> QED
      BY <3>1, PipelineConstants
  <2>2. main' \in MainType
    BY <2>1, Consts, TrackEndIs, ZenonT(40) DEF Types, TrackEnd, Goto, Stop, Fault, MainType, Codes, MainPcs, Before, Active, Looping, Busy, Closing
  <2>3. main'.k \in 1..(Len(setup.caps) + 1) /\ Len(main'.batch) <= MaxBatch
    BY TrackEndIs, Sizes
  <2>4. sinks' \in [Sinks -> SinkType]
    BY <2>1, Consts, Zenon DEF Types, TrackEnd, EndNotified, Goto, Stop, Fault, SinkType
  <2>5. hit' \subseteq Kinds
    BY TrackEndIs, PipelineConstants DEF Types, Kinds
  <2> QED
    BY <2>2, <2>3, <2>4, <2>5, TrackEndIs, Zenon DEF Types, N, Sinks
<1>2. hit \subseteq hit'
  BY TrackEndIs
<1> USE DEF Looping, Active, Busy, Closing, Before
<1>3. MainInv'
  BY <1>2, TrackEndIs, NeedsSame DEF MainInv
<1>4. ThreadsInv'
  BY TrackEndIs DEF ThreadsInv
<1>5. ReaderInv'
  BY <1>2, TrackEndIs DEF ReaderInv, Reading
<1>6. LastInv'
  BY <1>2, TrackEndIs DEF LastInv, Reading
<1> QED
  BY <1>1, <1>3, <1>4, <1>5, <1>6

\* The end of the run.
LEMMA FinalizeOK == ControlInv /\ Finalize => ControlInv'
<1> SUFFICES ASSUME ControlInv, Finalize PROVE ControlInv'
  OBVIOUS
<1> USE DEF ControlInv
<1>1. Types'
  <2>1. pipe' \in PipeType
    BY Zenon DEF Types, Finalize, Goto, Stop, Fault, PipeType
  <2>2. main' \in MainType
    BY Consts, FinalizeIs, ZenonT(40) DEF Types, Finalize, Goto, Stop, Fault, MainType, Codes, MainPcs, Before, Active, Looping, Busy, Closing
  <2>3. main'.k \in 1..(Len(setup.caps) + 1) /\ Len(main'.batch) <= MaxBatch
    BY FinalizeIs, Sizes
  <2>4. sinks' \in [Sinks -> SinkType]
    BY Consts, Zenon DEF Types, Finalize, Goto, Stop, Fault, SinkType
  <2>5. hit' \subseteq Kinds
    BY FinalizeIs, PipelineConstants DEF Types, Kinds
  <2> QED
    BY <2>1, <2>2, <2>3, <2>4, <2>5, FinalizeIs, Zenon DEF Types, N, Sinks
<1>2. hit \subseteq hit'
  BY FinalizeIs
<1> USE DEF Looping, Active, Busy, Closing, Before
<1>3. MainInv'
  BY <1>2, FinalizeIs, NeedsSame DEF MainInv
<1>4. ThreadsInv'
  BY FinalizeIs DEF ThreadsInv
<1>5. ReaderInv'
  BY <1>2, FinalizeIs DEF ReaderInv, Reading
<1>6. LastInv'
  BY <1>2, FinalizeIs DEF LastInv, Reading
<1> QED
  BY <1>1, <1>3, <1>4, <1>5, <1>6

\* The reader exits, or takes the track.
LEMMA RTakeOK == ControlInv /\ RTake => ControlInv'
<1> SUFFICES ASSUME ControlInv, RTake PROVE ControlInv'
  OBVIOUS
<1> USE DEF ControlInv
<1>1. Types'
  <2>1. reader' \in ReaderType
    BY Consts, NewIs, RTakeIs, ZenonT(40) DEF Types, RTake, Goto, Stop, Fault, ReaderType, ReaderPcs, Codes
  <2> QED
    BY <2>1, RTakeIs, Zenon DEF Types, N, Sinks
<1> USE DEF Looping, Active, Busy, Closing, Before
<1>2. MainInv'
  BY RTakeIs, NeedsSame DEF MainInv
<1>3. ThreadsInv'
  BY RTakeIs DEF ThreadsInv
<1>4. ReaderInv'
  BY RTakeIs DEF ReaderInv, Reading
<1>5. LastInv'
  BY RTakeIs DEF LastInv, ReaderInv, Reading
<1> QED
  BY <1>1, <1>2, <1>3, <1>4, <1>5

\* The reader resets the queue.
LEMMA RResetOK == ControlInv /\ RReset => ControlInv'
<1> SUFFICES ASSUME ControlInv, RReset PROVE ControlInv'
  OBVIOUS
<1> USE DEF ControlInv
<1>1. Types'
  <2>1. /\ bufs.dsd - Len(queue.fifo) \in Int
    BY Sizes
  <2>2. queue' \in QueueType /\ Len(queue'.fifo) <= QCapacity
    BY <2>1, Consts, NewIs, RResetIs, ZenonT(40) DEF Types, RReset, Goto, Stop, Fault, QueueType
  <2>3. reader' \in ReaderType
    BY <2>1, Consts, NewIs, RResetIs, ZenonT(40) DEF Types, RReset, Goto, Stop, Fault, ReaderType, ReaderPcs, Codes
  <2>4. bufs' \in [dsd : Int, pcm : Int]
    BY <2>1, Consts, RResetIs, ZenonT(40) DEF Types, RReset, Goto, Stop, Fault
  <2> QED
    BY <2>2, <2>3, <2>4, RResetIs, Zenon DEF Types, N, Sinks
<1> USE DEF Looping, Active, Busy, Closing, Before
<1>2. MainInv'
  BY RResetIs, NeedsSame DEF MainInv
<1>3. ThreadsInv'
  BY RResetIs, NewIs DEF ThreadsInv
<1>4. ReaderInv'
  BY RResetIs, NewIs DEF ReaderInv, Reading
<1>5. LastInv'
  BY RResetIs, NewIs DEF LastInv, Reading
<1> QED
  BY <1>1, <1>2, <1>3, <1>4, <1>5

\* The source is positioned.
LEMMA RSeekOK == ControlInv /\ RSeek => ControlInv'
<1> SUFFICES ASSUME ControlInv, RSeek PROVE ControlInv'
  OBVIOUS
<1> USE DEF ControlInv
<1>1. Types'
  <2>1. reader' \in ReaderType
    BY Consts, NewIs, RSeekIs, ZenonT(40) DEF Types, RSeek, Goto, Stop, Fault, Failed, ReaderType, ReaderPcs, Codes
  <2>2. hit' \subseteq Kinds
    BY RSeekIs, PipelineConstants DEF Types
  <2> QED
    BY <2>1, <2>2, RSeekIs, Zenon DEF Types, N, Sinks
<1>2. hit \subseteq hit'
  BY RSeekIs
<1> USE DEF Looping, Active, Busy, Closing, Before
<1>3. MainInv'
  BY <1>2, RSeekIs, NeedsSame DEF MainInv
<1>4. ThreadsInv'
  BY RSeekIs DEF ThreadsInv
<1>5. ReaderInv'
  <2>1. 0 < Length
    BY PipelineConstants
  <2>2. ~reader.pending /\ reader.error = "OK" /\ ~queue.eof
    BY RSeekIs DEF ReaderInv, Reading
  <2> QED
    BY <1>2, <2>1, <2>2, RSeekIs DEF ReaderInv, Reading
<1>6. LastInv'
  BY <1>2, RSeekIs DEF LastInv, Reading
<1> QED
  BY <1>1, <1>3, <1>4, <1>5, <1>6

\* The test of the read loop, and a buffer.
LEMMA RCheckOK == ControlInv /\ RCheck => ControlInv'
<1> SUFFICES ASSUME ControlInv, RCheck PROVE ControlInv'
  OBVIOUS
<1> USE DEF ControlInv
<1>1. Types'
  <2>1. /\ bufs.dsd + 1 \in Int
    BY Sizes
  <2>2. reader' \in ReaderType
    BY <2>1, Consts, NewIs, RCheckIs, ZenonT(40) DEF Types, RCheck, Goto, Stop, Fault, Failed, ReaderType, ReaderPcs, Codes
  <2>3. bufs' \in [dsd : Int, pcm : Int]
    BY <2>1, Consts, RCheckIs, ZenonT(40) DEF Types, RCheck, Goto, Stop, Fault, Failed
  <2>4. hit' \subseteq Kinds
    BY RCheckIs, PipelineConstants DEF Types
  <2> QED
    BY <2>2, <2>3, <2>4, RCheckIs, Zenon DEF Types, N, Sinks
<1>2. hit \subseteq hit'
  BY RCheckIs
<1> USE DEF Looping, Active, Busy, Closing, Before
<1>3. MainInv'
  BY <1>2, RCheckIs, NeedsSame DEF MainInv
<1>4. ThreadsInv'
  BY RCheckIs DEF ThreadsInv, Stopping
<1>5. ReaderInv'
  BY <1>2, RCheckIs DEF ReaderInv, Reading, Stopping
<1>6. LastInv'
  BY <1>2, RCheckIs DEF LastInv, Reading, Stopping, ReaderInv, ThreadsInv
<1> QED
  BY <1>1, <1>3, <1>4, <1>5, <1>6

\* One frame is read.
LEMMA RReadOK == ControlInv /\ RRead => ControlInv'
<1> SUFFICES ASSUME ControlInv, RRead PROVE ControlInv'
  OBVIOUS
<1> USE DEF ControlInv
<1>1. Types'
  <2>1. /\ bufs.dsd - 1 \in Int /\ reader.pos + 1 \in 1..Length
        /\ reader.pos + 1 \in 0..Length /\ main.track \in 1..Tracks
    <3>1. reader.pos < Length /\ main.track \in 1..Tracks
      BY RReadIs DEF MainInv, ThreadsInv, ReaderInv
    <3>2. reader.pos \in 0..Length /\ bufs.dsd \in Int
      BY Sizes
    <3> QED
      BY <3>1, <3>2, PipelineConstants
  <2>2. reader' \in ReaderType
    <3>1. [n |-> 0, last |-> TRUE] \in Frame /\ [n |-> reader.pos + 1, last |-> reader.pos + 1 = Length] \in Frame
      BY <2>1, Consts, Zenon DEF Frame
    <3> QED
      BY <2>1, <3>1, Consts, ZenonT(90) DEF Types, RRead, Fault, Failed, ReaderType, ReaderPcs, Codes
  <2>3. bufs' \in [dsd : Int, pcm : Int]
    BY <2>1, Consts, RReadIs, ZenonT(40) DEF Types, RRead, Goto, Stop, Fault, Failed
  <2>4. given' \in Seq((1..Tracks) \X (1..Length))
    <3>1. given' = given \/ given' = Append(given, <<main.track, reader.pos + 1>>)
      BY RReadIs, Zenon
    <3>2. <<main.track, reader.pos + 1>> \in (1..Tracks) \X (1..Length)
      BY <2>1
    <3>3. given \in Seq((1..Tracks) \X (1..Length))
      BY Sizes
    <3>4. Append(given, <<main.track, reader.pos + 1>>) \in Seq((1..Tracks) \X (1..Length))
      BY <3>2, <3>3, AppendIs
    <3> QED
      BY <3>1, <3>3, <3>4, Zenon
  <2>5. hit' \subseteq Kinds
    BY RReadIs, PipelineConstants DEF Types
  <2> QED
    BY <2>2, <2>3, <2>4, <2>5, RReadIs, Zenon DEF Types, N, Sinks
<1>2. hit \subseteq hit'
  BY RReadIs
<1> USE DEF Looping, Active, Busy, Closing, Before
<1>3. MainInv'
  BY <1>2, RReadIs, NeedsSame DEF MainInv
<1>4. ThreadsInv'
  BY RReadIs DEF ThreadsInv
<1>5. ReaderInv'
  <2>1. reader.pos \in 0..Length /\ reader.pos < Length
    BY RReadIs, Sizes DEF ReaderInv
  <2>2. ~reader.pending /\ reader.error = "OK" /\ ~queue.eof
    BY RReadIs DEF ReaderInv, Reading
  <2>3. queue' = queue
    BY RReadIs
  <2>4. reader'.pc \in {"push", "eof"} /\ reader'.pending = reader.pending
    BY RReadIs, Zenon
  <2>5. reader'.pc = "push" =>
          /\ reader'.error = reader.error
          /\ \/ reader'.frame.n = 0 /\ reader'.frame.last /\ "short" \in hit'
             \/ /\ reader'.frame.n = reader.pos + 1 /\ reader'.pos = reader.pos + 1
                /\ reader'.frame.last <=> reader.pos + 1 = Length
    BY RReadIs, Zenon
  <2>6. reader.pos + 1 # 0
    BY <2>1, PipelineConstants
  <2> QED
    BY <2>2, <2>3, <2>4, <2>5, <2>6 DEF ReaderInv, Reading
<1>6. LastInv'
  BY <1>2, RReadIs DEF LastInv, Reading
<1> QED
  BY <1>1, <1>3, <1>4, <1>5, <1>6

\* One frame is pushed, or given back.
LEMMA RPushOK == ControlInv /\ RPush => ControlInv'
<1> SUFFICES ASSUME ControlInv, RPush PROVE ControlInv'
  OBVIOUS
<1> USE DEF ControlInv
<1>1. Types'
  <2>1. /\ bufs.dsd - 1 \in Int
    BY Sizes
  <2>2. queue' \in QueueType /\ Len(queue'.fifo) <= QCapacity
    <3>1. Append(queue.fifo, reader.frame) \in Seq(Frame)
          /\ Len(Append(queue.fifo, reader.frame)) = Len(queue.fifo) + 1
      BY Sizes, AppendIs
    <3>2. Len(queue.fifo) < QCapacity => Len(Append(queue.fifo, reader.frame)) <= QCapacity
      BY <3>1, Sizes, PipelineConstants
    <3>3. queue' \in QueueType
      BY <3>1, Zenon DEF Types, RPush, QueueType
    <3> QED
      BY <3>2, <3>3, RPushIs, Zenon DEF Types
  <2>3. reader' \in ReaderType
    BY <2>1, Consts, NewIs, RPushIs, ZenonT(40) DEF Types, RPush, Goto, Stop, Fault, HasRoom, ReaderType, ReaderPcs, Codes
  <2>4. bufs' \in [dsd : Int, pcm : Int]
    BY <2>1, Consts, RPushIs, ZenonT(40) DEF Types, RPush, Goto, Stop, Fault, HasRoom
  <2> QED
    BY <2>2, <2>3, <2>4, RPushIs, Zenon DEF Types, N, Sinks
<1> USE DEF Looping, Active, Busy, Closing, Before
<1>2. MainInv'
  BY RPushIs, NeedsSame DEF MainInv
<1>3. ThreadsInv'
  BY RPushIs DEF ThreadsInv
<1>4. ReaderInv'
  <2>1. reader.pos \in 0..Length
    BY Sizes
  <2>2. /\ ~reader.pending /\ reader.error = "OK" /\ ~queue.eof
        /\ ~reader.frame.last => reader.pos # Length
    BY RPushIs DEF ReaderInv, Reading
  <2>3. ~reader.frame.last => reader.pos < Length
    BY <2>1, <2>2, PipelineConstants
  <2>4. /\ reader'.pending = reader.pending /\ reader'.error = reader.error
        /\ queue'.eof = queue.eof /\ reader'.pos = reader.pos
        /\ reader'.pc \in {"finish", "check", "stop"}
        /\ reader'.pc = "check" => ~reader.frame.last
    BY RPushIs, Zenon
  <2> QED
    BY <2>2, <2>3, <2>4 DEF ReaderInv, Reading
<1>5. LastInv'
  <2>1. /\ Len(queue.fifo) \in Nat /\ DOMAIN queue.fifo = 1..Len(queue.fifo)
        /\ DOMAIN Append(queue.fifo, reader.frame) = 1..(Len(queue.fifo) + 1)
        /\ Len(Append(queue.fifo, reader.frame)) = Len(queue.fifo) + 1
        /\ \A i \in 1..Len(queue.fifo) : Append(queue.fifo, reader.frame)[i] = queue.fifo[i]
        /\ Append(queue.fifo, reader.frame)[Len(queue.fifo) + 1] = reader.frame
    <3>1. queue.fifo \in Seq(Frame) /\ reader.frame \in Frame
      BY Sizes
    <3> QED
      BY <3>1, AppendIs
  <2>2. /\ Reading /\ main.pc \in Active /\ ~main.complete
        /\ \A i \in 1..Len(queue.fifo) : ~queue.fifo[i].last
        /\ reader.error = "OK"
    BY <2>1, RPushIs DEF ReaderInv, Reading, ThreadsInv, LastInv
  <2>3. reader.frame.last => reader.pos = Length \/ "short" \in hit
    BY RPushIs DEF ReaderInv
  <2>4. queue.cancelled => reader.cancelled
    BY <2>2 DEF ThreadsInv
  <2>5. main.pc # "empty"
    BY <2>2 DEF LastInv
  <2>6. CASE /\ queue'.fifo = Append(queue.fifo, reader.frame)
             /\ reader'.pc = IF reader.frame.last THEN "finish" ELSE "check"
    <3>1. /\ Len(queue'.fifo) = Len(queue.fifo) + 1 /\ queue'.fifo # <<>>
          /\ DOMAIN queue'.fifo = 1..(Len(queue.fifo) + 1)
          /\ \A i \in 1..Len(queue.fifo) : ~queue'.fifo[i].last
          /\ queue'.fifo[Len(queue.fifo) + 1].last <=> reader.frame.last
      <4>1. queue'.fifo[Len(queue.fifo) + 1] = reader.frame
        BY <2>1, <2>6
      <4>2. Len(queue'.fifo) = Len(queue.fifo) + 1
        BY <2>1, <2>6
      <4>3. DOMAIN queue'.fifo = 1..(Len(queue.fifo) + 1)
        BY <2>1, <2>6
      <4>4. ASSUME NEW i \in 1..Len(queue.fifo)
            PROVE  ~queue'.fifo[i].last
        <5>1. queue'.fifo[i] = queue.fifo[i]
          BY <2>1, <2>6
        <5> QED
          BY <2>2, <5>1
      <4>5. queue'.fifo # <<>>
        BY <2>1, <4>2
      <4> QED
        BY <4>1, <4>2, <4>3, <4>4, <4>5
    <3>2. /\ main' = main /\ hit' = hit /\ reader'.error = "OK" /\ reader'.pos = reader.pos
          /\ reader'.pending = reader.pending /\ ~reader.pending
      BY <2>2, RPushIs DEF ReaderInv
    <3>3. \A i \in DOMAIN queue'.fifo : queue'.fifo[i].last =>
             i = Len(queue'.fifo) /\ reader.frame.last
      BY <2>1, <3>1
    <3> QED
      BY <2>1, <2>2, <2>3, <2>5, <2>6, <3>1, <3>2, <3>3 DEF LastInv, Reading
  <2>7. CASE queue.cancelled /\ queue' = queue /\ reader'.pc = "stop"
    <3>1. /\ main' = main /\ hit' = hit /\ reader'.error = "OK" /\ reader'.pos = reader.pos
          /\ reader'.pending = reader.pending /\ ~reader.pending
          /\ reader'.cancelled = reader.cancelled
      BY <2>2, RPushIs DEF ReaderInv
    <3> QED
      BY <2>1, <2>2, <2>4, <2>5, <2>7, <3>1 DEF LastInv, Reading
  <2> QED
    BY <2>6, <2>7, RPushIs
<1> QED
  BY <1>1, <1>2, <1>3, <1>4, <1>5

\* The reader has read the last frame.
LEMMA RFinishOK == ControlInv /\ RFinish => ControlInv'
<1> SUFFICES ASSUME ControlInv, RFinish PROVE ControlInv'
  OBVIOUS
<1> USE DEF ControlInv
<1>1. Types'
  <2>1. reader' \in ReaderType
    BY Consts, NewIs, RFinishIs, ZenonT(40) DEF Types, RFinish, Goto, Stop, Fault, ReaderType, ReaderPcs, Codes
  <2> QED
    BY <2>1, RFinishIs, Zenon DEF Types, N, Sinks
<1> USE DEF Looping, Active, Busy, Closing, Before
<1>2. MainInv'
  BY RFinishIs, NeedsSame DEF MainInv
<1>3. ThreadsInv'
  BY RFinishIs DEF ThreadsInv
<1>4. ReaderInv'
  BY RFinishIs DEF ReaderInv, Reading
<1>5. LastInv'
  BY RFinishIs DEF LastInv, Reading
<1> QED
  BY <1>1, <1>2, <1>3, <1>4, <1>5

\* The end is signalled.
LEMMA REofOK == ControlInv /\ REof => ControlInv'
<1> SUFFICES ASSUME ControlInv, REof PROVE ControlInv'
  OBVIOUS
<1> USE DEF ControlInv
<1>1. Types'
  <2>1. queue' \in QueueType /\ Len(queue'.fifo) <= QCapacity
    BY Consts, NewIs, REofIs, ZenonT(40) DEF Types, REof, Goto, Stop, Fault, QueueType
  <2>2. reader' \in ReaderType
    BY Consts, NewIs, REofIs, ZenonT(40) DEF Types, REof, Goto, Stop, Fault, ReaderType, ReaderPcs, Codes
  <2> QED
    BY <2>1, <2>2, REofIs, Zenon DEF Types, N, Sinks
<1> USE DEF Looping, Active, Busy, Closing, Before
<1>2. MainInv'
  BY REofIs, NeedsSame DEF MainInv
<1>3. ThreadsInv'
  BY REofIs DEF ThreadsInv
<1>4. ReaderInv'
  BY REofIs DEF ReaderInv, Reading
<1>5. LastInv'
  BY REofIs DEF LastInv, Reading
<1> QED
  BY <1>1, <1>2, <1>3, <1>4, <1>5

\* The reader leaves the track.
LEMMA RStopOK == ControlInv /\ RStop => ControlInv'
<1> SUFFICES ASSUME ControlInv, RStop PROVE ControlInv'
  OBVIOUS
<1> USE DEF ControlInv
<1>1. Types'
  <2>1. reader' \in ReaderType
    BY Consts, NewIs, RStopIs, ZenonT(40) DEF Types, RStop, Goto, Stop, Fault, ReaderType, ReaderPcs, Codes
  <2> QED
    BY <2>1, RStopIs, Zenon DEF Types, N, Sinks
<1> USE DEF Looping, Active, Busy, Closing, Before
<1>2. MainInv'
  BY RStopIs, NeedsSame DEF MainInv
<1>3. ThreadsInv'
  BY RStopIs DEF ThreadsInv, Stopping
<1>4. ReaderInv'
  BY RStopIs DEF ReaderInv, Reading, Stopping
<1>5. LastInv'
  BY RStopIs DEF LastInv, Reading, Stopping, ReaderInv, ThreadsInv
<1> QED
  BY <1>1, <1>2, <1>3, <1>4, <1>5

\* A reader that was stopped cancels the queue.
LEMMA RStopQueueOK == ControlInv /\ RStopQueue => ControlInv'
<1> SUFFICES ASSUME ControlInv, RStopQueue PROVE ControlInv'
  OBVIOUS
<1> USE DEF ControlInv
<1>1. Types'
  <2>1. queue' \in QueueType /\ Len(queue'.fifo) <= QCapacity
    BY Consts, NewIs, RStopQueueIs, ZenonT(40) DEF Types, RStopQueue, Goto, Stop, Fault, QueueType
  <2>2. reader' \in ReaderType
    BY Consts, NewIs, RStopQueueIs, ZenonT(40) DEF Types, RStopQueue, Goto, Stop, Fault, ReaderType, ReaderPcs, Codes
  <2> QED
    BY <2>1, <2>2, RStopQueueIs, Zenon DEF Types, N, Sinks
<1> USE DEF Looping, Active, Busy, Closing, Before
<1>2. MainInv'
  BY RStopQueueIs, NeedsSame DEF MainInv
<1>3. ThreadsInv'
  BY RStopQueueIs DEF ThreadsInv
<1>4. ReaderInv'
  BY RStopQueueIs DEF ReaderInv, Reading
<1>5. LastInv'
  BY RStopQueueIs DEF LastInv, Reading
<1> QED
  BY <1>1, <1>2, <1>3, <1>4, <1>5

\* The pipeline is cancelled.
LEMMA CancelOK == ControlInv /\ Cancel => ControlInv'
<1> SUFFICES ASSUME ControlInv, Cancel PROVE ControlInv'
  OBVIOUS
<1> USE DEF ControlInv
<1>1. Types'
  <2>1. pipe' \in PipeType
    BY Zenon DEF Types, Cancel, Goto, Stop, Fault, PipeType
  <2> QED
    BY <2>1, CancelIs, Zenon DEF Types, N, Sinks
<1> USE DEF Looping, Active, Busy, Closing, Before
<1>2. MainInv'
  BY CancelIs, NeedsSame DEF MainInv
<1>3. ThreadsInv'
  BY CancelIs DEF ThreadsInv
<1>4. ReaderInv'
  BY CancelIs DEF ReaderInv, Reading
<1>5. LastInv'
  BY CancelIs DEF LastInv, Reading
<1> QED
  BY <1>1, <1>2, <1>3, <1>4, <1>5

----------------------------------------------------------------------------
(* Control is kept.                                                        *)

\* The initial states.
LEMMA ControlInit == Init => ControlInv
<1> SUFFICES ASSUME Init PROVE ControlInv
  OBVIOUS
<1>1. /\ setup \in Setups /\ hit = {} /\ late = 0 /\ given = <<>>
      /\ main.pc = "start" /\ main.track = 0 /\ main.k = 1 /\ main.j = 1
      /\ main.batch = <<>> /\ ~main.complete /\ main.result = "OK" /\ ~main.noend
      /\ bufs.dsd = 0 /\ bufs.pcm = 0
  BY DEF Init
<1>2. /\ queue.fifo = <<>> /\ queue.eof = FALSE /\ queue.cancelled = FALSE
      /\ queue.open = FALSE
  BY DEF Init, NewQueue
<1>3. /\ reader.pc = "exited" /\ reader.pending = FALSE /\ reader.finished = FALSE
      /\ reader.error = "OK" /\ reader.cancelled = FALSE /\ reader.shutdown = FALSE
      /\ reader.pos = 0
  BY DEF Init, NewReader
<1>4. Types
  <2>1. /\ 1 \in 1..(MaxBatch + 1) /\ 0 \in 0..(Tracks + 1) /\ 0 \in 0..Length
        /\ 0 \in 0..Tracks /\ 1 \in Nat /\ 0 \in Int /\ 0 \in Nat
        /\ <<>> \in Seq(0..Length) /\ <<>> \in Seq(Frame)
        /\ <<>> \in Seq((1..Tracks) \X (1..Length))
    BY PipelineConstants
  <2>2. pipe \in PipeType
    BY Zenon DEF Init, PipeType
  <2>3. main \in MainType
    BY <2>1, Zenon DEF Init, MainType, MainPcs, Before, Codes
  <2>4. main.k \in 1..(Len(setup.caps) + 1) /\ N <= MaxBatch
    <3>1. Len(setup.caps) \in Nat /\ Len(<<>>) = 0
      BY <1>1, SetupFacts
    <3> QED
      BY <1>1, <3>1, PipelineConstants DEF N
  <2>5. sinks \in [Sinks -> SinkType]
    BY <2>1, Zenon DEF Init, SinkType
  <2>6. queue \in QueueType
    BY <2>1, Zenon DEF Init, NewQueue, QueueType
  <2>7. Len(queue.fifo) <= QCapacity
    BY <1>2, PipelineConstants
  <2>8. reader \in ReaderType
    <3>1. [n |-> 0, last |-> FALSE] \in Frame
      BY <2>1, Zenon DEF Frame
    <3> QED
      BY <2>1, <3>1, Zenon DEF Init, NewReader, ReaderType, ReaderPcs, Codes
  <2>9. bufs \in [dsd : Int, pcm : Int]
    BY <2>1, Zenon DEF Init
  <2>10. given \in Seq((1..Tracks) \X (1..Length)) /\ hit \subseteq Kinds /\ late \in Nat
    BY <1>1, <2>1
  <2> QED
    BY <1>1, <2>2, <2>3, <2>4, <2>5, <2>6, <2>7, <2>8, <2>9, <2>10, Zenon DEF Types
<1>5. MainInv
  BY <1>1 DEF MainInv, Before, Looping, Active, Closing, Busy
<1>6. ThreadsInv /\ ReaderInv
  BY <1>1, <1>2, <1>3
     DEF ThreadsInv, ReaderInv, Reading, Before, Looping, Active, Closing, Busy
<1>7. LastInv
  <2>1. DOMAIN queue.fifo = {}
    BY <1>2
  <2> QED
    BY <1>1, <1>2, <1>3, <2>1 DEF LastInv, Reading, Looping, Active, Closing, Busy
<1> QED
  BY <1>4, <1>5, <1>6, <1>7 DEF ControlInv

\* A step that changes nothing.
LEMMA ControlSame == ControlInv /\ UNCHANGED vars => ControlInv'
<1> SUFFICES ASSUME ControlInv, UNCHANGED vars PROVE ControlInv'
  OBVIOUS
<1>1. UNCHANGED <<setup, pipe, main, sinks, queue, reader, bufs, given, hit, late>>
  BY DEF vars
<1>2. Types'
  BY <1>1, Zenon DEF ControlInv, Types, N, Sinks
<1>3. MainInv'
  BY <1>1, NeedsSame DEF ControlInv, MainInv
<1>4. ThreadsInv' /\ ReaderInv'
  BY <1>1 DEF ControlInv, ThreadsInv, ReaderInv, Reading
<1>5. LastInv'
  BY <1>1 DEF ControlInv, LastInv, Reading
<1> QED
  BY <1>2, <1>3, <1>4, <1>5 DEF ControlInv

\* Every step of the two threads, and a cancellation, keeps the invariant.
LEMMA ControlNext == ControlInv /\ [Next]_vars => ControlInv'
BY ControlSame, RunOK, OpenSinkOK, SetRunningOK, NextTrackOK, TrackStartOK,
   CreateReaderOK, LoopOK, PopOK, EmptyOK, DecodeOK, WriteDsdOK,
   DsdWrittenOK, ConvertOK, WritePcmOK, PcmWrittenOK, ReleaseOK, CleanOK,
   CancelReaderOK, CancelQueueOK, WaitReaderOK, ShutdownQueueOK, JoinOK,
   TrackEndOK, FinalizeOK, RTakeOK, RResetOK, RSeekOK, RCheckOK, RReadOK,
   RPushOK, RFinishOK, REofOK, RStopOK, RStopQueueOK, CancelOK
   DEF Next, MainStep, ReaderStep

(***************************************************************************)
(* The two threads of a run stay in step (dsdpipe_process_track and        *)
(* reader_thread_func): the queue exists whenever a reader that has not    *)
(* ended may push to it, the reader is told to stop before its queue is    *)
(* cancelled, and only at the end of the track; the last frame of a track  *)
(* is the last thing in the queue; and a pop that finds nothing is the     *)
(* work of a reader that failed.                                           *)
(***************************************************************************)
THEOREM ThreadsInStep == Spec => []ControlInv
<1>1. Init => ControlInv
  BY ControlInit
<1>2. ControlInv /\ [Next]_vars => ControlInv'
  BY ControlNext
<1> QED
  BY <1>1, <1>2, PTL DEF Spec

----------------------------------------------------------------------------
(* No failure is swallowed.                                                *)

\* A failure is not forgotten on its way to the result.
LEMMA FaultNext == ControlInv /\ FaultInv /\ [Next]_vars => FaultInv'
<1> SUFFICES ASSUME ControlInv, FaultInv, [Next]_vars PROVE FaultInv'
  OBVIOUS
<1> USE DEF ControlInv, Looping, Active, Busy, Closing, Before
<1>1. CASE Run
  BY <1>1, RunIs DEF FaultInv, MainInv
<1>2. CASE OpenSink
  BY <1>2, OpenSinkIs DEF FaultInv, MainInv
<1>3. CASE SetRunning
  BY <1>3, SetRunningIs DEF FaultInv, MainInv
<1>4. CASE NextTrack
  BY <1>4, NextTrackIs DEF FaultInv, MainInv
<1>5. CASE TrackStart
  BY <1>5, TrackStartIs DEF FaultInv, MainInv
<1>6. CASE CreateReader
  BY <1>6, CreateReaderIs, NewIs DEF FaultInv, MainInv
<1>7. CASE Loop
  BY <1>7, LoopIs DEF FaultInv, Done
<1>8. CASE Pop
  <2>1. /\ main.pc = "pop" /\ main'.pc \in {"empty", "decode"}
        /\ main'.result = main.result /\ UNCHANGED <<pipe, reader, hit>>
    BY <1>8, PopIs, Zenon
  <2> QED
    BY <2>1 DEF FaultInv
<1>9. CASE Empty
  BY <1>9, EmptyIs DEF FaultInv, LastInv, MainInv
<1>10. CASE Decode
  BY <1>10, DecodeIs DEF FaultInv
<1>11. CASE WriteDsd
  <2>1. main.track \in 1..Tracks
    BY <1>11, WriteDsdIs DEF MainInv
  <2>2. main.j <= N /\ (WriteOK(Format) \/ WriteFails(Format, "writedsd"))
    BY <1>11, WriteDsdIs, Zenon
  <2>3. WriteOK(Format) => hit' = hit
    BY <2>1, <2>2, WriteIs
  <2> QED
    BY <2>3, <1>11, WriteDsdIs DEF FaultInv, MainInv
<1>12. CASE DsdWritten
  BY <1>12, DsdWrittenIs DEF FaultInv
<1>13. CASE Convert
  BY <1>13, ConvertIs DEF FaultInv
<1>14. CASE WritePcm
  <2>1. main.track \in 1..Tracks
    BY <1>14, WritePcmIs DEF MainInv
  <2>2. main.j <= N /\ (WriteOK("PCM") \/ WriteFails("PCM", "writepcm"))
    BY <1>14, WritePcmIs, Zenon
  <2>3. WriteOK("PCM") => hit' = hit
    BY <2>1, <2>2, WriteIs
  <2> QED
    BY <2>3, <1>14, WritePcmIs DEF FaultInv, MainInv
<1>15. CASE PcmWritten
  BY <1>15, PcmWrittenIs DEF FaultInv
<1>16. CASE Release
  BY <1>16, ReleaseIs DEF FaultInv
<1>17. CASE Clean
  BY <1>17, CleanIs DEF FaultInv
<1>18. CASE CancelReader
  BY <1>18, CancelReaderIs DEF FaultInv
<1>19. CASE CancelQueue
  BY <1>19, CancelQueueIs DEF FaultInv
<1>20. CASE WaitReader
  BY <1>20, WaitReaderIs DEF FaultInv
<1>21. CASE ShutdownQueue
  BY <1>21, ShutdownQueueIs DEF FaultInv
<1>22. CASE Join
  BY <1>22, JoinIs DEF FaultInv, LastInv, MainInv
<1>23. CASE TrackEnd
  BY <1>23, TrackEndIs DEF FaultInv
<1>24. CASE Finalize
  BY <1>24, FinalizeIs DEF FaultInv
<1>25. CASE RTake
  BY <1>25, RTakeIs DEF FaultInv, ThreadsInv, ReaderInv, Reading
<1>26. CASE RReset
  BY <1>26, RResetIs DEF FaultInv
<1>27. CASE RSeek
  BY <1>27, RSeekIs DEF FaultInv, ThreadsInv, ReaderInv, Reading
<1>28. CASE RCheck
  BY <1>28, RCheckIs DEF FaultInv, ThreadsInv, ReaderInv, Reading
<1>29. CASE RRead
  BY <1>29, RReadIs DEF FaultInv, ThreadsInv, ReaderInv, Reading
<1>30. CASE RPush
  BY <1>30, RPushIs DEF FaultInv
<1>31. CASE RFinish
  BY <1>31, RFinishIs DEF FaultInv
<1>32. CASE REof
  BY <1>32, REofIs DEF FaultInv
<1>33. CASE RStop
  BY <1>33, RStopIs DEF FaultInv
<1>34. CASE RStopQueue
  BY <1>34, RStopQueueIs DEF FaultInv
<1>35. CASE Cancel
  BY <1>35, CancelIs DEF FaultInv
<1>36. CASE UNCHANGED vars
  BY <1>36 DEF FaultInv, vars
<1> QED
  BY <1>1, <1>2, <1>3, <1>4, <1>5, <1>6, <1>7, <1>8, <1>9, <1>10, <1>11,
   <1>12, <1>13, <1>14, <1>15, <1>16, <1>17, <1>18, <1>19, <1>20, <1>21,
   <1>22, <1>23, <1>24, <1>25, <1>26, <1>27, <1>28, <1>29, <1>30, <1>31,
   <1>32, <1>33, <1>34, <1>35, <1>36
     DEF Next, MainStep, ReaderStep

\* Where a failure is, at all times.
LEMMA FaultAlways == Spec => []FaultInv
<1>1. Init => FaultInv
  BY DEF Init, FaultInv, Closing
<1>2. ControlInv /\ FaultInv /\ [Next]_vars => FaultInv'
  BY FaultNext
<1> QED
  BY <1>1, <1>2, ThreadsInStep, PTL DEF Spec

(***************************************************************************)
(* If anything failed in either thread, dsdpipe_run does not return        *)
(* DSDPIPE_OK, in whichever order things fail, and whenever the run is     *)
(* cancelled; a sink that fails when a track ends or when it is finalized  *)
(* is the exception that the code makes, and the property states it.       *)
(***************************************************************************)
THEOREM FaultsReported == Spec => []FaultReported
<1>1. FaultInv => FaultReported
  BY DEF FaultInv, FaultReported, Returned, Active, Looping, Busy, Closing
<1> QED
  BY <1>1, FaultAlways, PTL

----------------------------------------------------------------------------
(* Sinks are told of the end of a track.                                   *)

\* Between tracks no sink is in a track.
LEMMA SinkNext == ControlInv /\ SinkInv /\ [Next]_vars => SinkInv'
<1> SUFFICES ASSUME ControlInv, SinkInv, [Next]_vars PROVE SinkInv'
  OBVIOUS
<1> USE DEF ControlInv, Looping, Active, Busy, Closing, Before
<1>1. CASE Run
  BY <1>1, RunIs, NeedsSame DEF SinkInv, TrackEndsFirst
<1>2. CASE OpenSink
  BY <1>2, OpenSinkIs, NeedsSame DEF SinkInv, TrackEndsFirst
<1>3. CASE SetRunning
  BY <1>3, SetRunningIs, NeedsSame DEF SinkInv, TrackEndsFirst
<1>4. CASE NextTrack
  BY <1>4, NextTrackIs, NeedsSame DEF SinkInv, TrackEndsFirst
<1>5. CASE TrackStart
  BY <1>5, TrackStartIs, NeedsSame DEF SinkInv, TrackEndsFirst
<1>6. CASE CreateReader
  BY <1>6, CreateReaderIs, NeedsSame DEF SinkInv, TrackEndsFirst
<1>7. CASE Loop
  BY <1>7, LoopIs, NeedsSame DEF SinkInv, TrackEndsFirst
<1>8. CASE Pop
  <2>1. /\ main.pc = "pop" /\ main'.pc \in {"empty", "decode"}
    BY <1>8, PopIs, Zenon
  <2> QED
    BY <2>1 DEF SinkInv, TrackEndsFirst
<1>9. CASE Empty
  BY <1>9, EmptyIs, NeedsSame DEF SinkInv, TrackEndsFirst
<1>10. CASE Decode
  BY <1>10, DecodeIs, NeedsSame DEF SinkInv, TrackEndsFirst
<1>11. CASE WriteDsd
  BY <1>11, WriteDsdIs, NeedsSame DEF SinkInv, TrackEndsFirst
<1>12. CASE DsdWritten
  BY <1>12, DsdWrittenIs, NeedsSame DEF SinkInv, TrackEndsFirst
<1>13. CASE Convert
  BY <1>13, ConvertIs, NeedsSame DEF SinkInv, TrackEndsFirst
<1>14. CASE WritePcm
  BY <1>14, WritePcmIs, NeedsSame DEF SinkInv, TrackEndsFirst
<1>15. CASE PcmWritten
  BY <1>15, PcmWrittenIs, NeedsSame DEF SinkInv, TrackEndsFirst
<1>16. CASE Release
  BY <1>16, ReleaseIs, NeedsSame DEF SinkInv, TrackEndsFirst
<1>17. CASE Clean
  BY <1>17, CleanIs, NeedsSame DEF SinkInv, TrackEndsFirst
<1>18. CASE CancelReader
  BY <1>18, CancelReaderIs, NeedsSame DEF SinkInv, TrackEndsFirst
<1>19. CASE CancelQueue
  BY <1>19, CancelQueueIs, NeedsSame DEF SinkInv, TrackEndsFirst
<1>20. CASE WaitReader
  BY <1>20, WaitReaderIs, NeedsSame DEF SinkInv, TrackEndsFirst
<1>21. CASE ShutdownQueue
  BY <1>21, ShutdownQueueIs, NeedsSame DEF SinkInv, TrackEndsFirst
<1>22. CASE Join
  BY <1>22, JoinIs, NeedsSame DEF SinkInv, TrackEndsFirst, MainInv
<1>23. CASE TrackEnd
  BY <1>23, TrackEndIs, NeedsSame DEF SinkInv, TrackEndsFirst
<1>24. CASE Finalize
  BY <1>24, FinalizeIs, NeedsSame DEF SinkInv, TrackEndsFirst
<1>25. CASE RTake
  BY <1>25, RTakeIs, NeedsSame DEF SinkInv, TrackEndsFirst
<1>26. CASE RReset
  BY <1>26, RResetIs, NeedsSame DEF SinkInv, TrackEndsFirst
<1>27. CASE RSeek
  BY <1>27, RSeekIs, NeedsSame DEF SinkInv, TrackEndsFirst
<1>28. CASE RCheck
  BY <1>28, RCheckIs, NeedsSame DEF SinkInv, TrackEndsFirst
<1>29. CASE RRead
  BY <1>29, RReadIs, NeedsSame DEF SinkInv, TrackEndsFirst
<1>30. CASE RPush
  BY <1>30, RPushIs, NeedsSame DEF SinkInv, TrackEndsFirst
<1>31. CASE RFinish
  BY <1>31, RFinishIs, NeedsSame DEF SinkInv, TrackEndsFirst
<1>32. CASE REof
  BY <1>32, REofIs, NeedsSame DEF SinkInv, TrackEndsFirst
<1>33. CASE RStop
  BY <1>33, RStopIs, NeedsSame DEF SinkInv, TrackEndsFirst
<1>34. CASE RStopQueue
  BY <1>34, RStopQueueIs, NeedsSame DEF SinkInv, TrackEndsFirst
<1>35. CASE Cancel
  BY <1>35, CancelIs, NeedsSame DEF SinkInv, TrackEndsFirst
<1>36. CASE UNCHANGED vars
  BY <1>36 DEF SinkInv, TrackEndsFirst, vars, Sinks
<1> QED
  BY <1>1, <1>2, <1>3, <1>4, <1>5, <1>6, <1>7, <1>8, <1>9, <1>10, <1>11,
   <1>12, <1>13, <1>14, <1>15, <1>16, <1>17, <1>18, <1>19, <1>20, <1>21,
   <1>22, <1>23, <1>24, <1>25, <1>26, <1>27, <1>28, <1>29, <1>30, <1>31,
   <1>32, <1>33, <1>34, <1>35, <1>36
     DEF Next, MainStep, ReaderStep

(***************************************************************************)
(* A sink that was told that a track started is told that it ended before  *)
(* the sinks are finalized, except after the three failures that return    *)
(* from dsdpipe_process_track before the notification.                     *)
(***************************************************************************)
THEOREM TracksEndFirst == Spec => []TrackEndsFirst
<1>1. Init => SinkInv
  BY DEF Init, SinkInv, TrackEndsFirst
<1>2. ControlInv /\ SinkInv /\ [Next]_vars => SinkInv'
  BY SinkNext
<1>3. SinkInv => TrackEndsFirst
  BY DEF SinkInv
<1> QED
  BY <1>1, <1>2, <1>3, ThreadsInStep, PTL DEF Spec

----------------------------------------------------------------------------
(* A cancelled run stops soon.                                             *)

\* What a run may still write, counted from where it is in the batch.
LEMMA LateNext == ControlInv /\ LateInv /\ [Next]_vars => LateInv'
<1> SUFFICES ASSUME ControlInv, LateInv, [Next]_vars PROVE LateInv'
  OBVIOUS
<1> USE DEF ControlInv, Looping, Active, Busy, Closing, Before
<1>1. /\ main.j \in Int /\ main.j >= 1 /\ N \in Int /\ N >= 0 /\ N <= MaxBatch
      /\ MaxBatch \in Int /\ late \in Int /\ late >= 0
  BY Sizes, PipelineConstants
<1>2. CASE Run
  BY <1>2, RunIs, NeedsSame DEF LateInv, CancelBounded, N
<1>3. CASE OpenSink
  BY <1>3, OpenSinkIs, NeedsSame DEF LateInv, CancelBounded, N
<1>4. CASE SetRunning
  BY <1>4, SetRunningIs, NeedsSame DEF LateInv, CancelBounded, N
<1>5. CASE NextTrack
  BY <1>5, NextTrackIs, NeedsSame DEF LateInv, CancelBounded, N
<1>6. CASE TrackStart
  BY <1>6, TrackStartIs, NeedsSame DEF LateInv, CancelBounded, N
<1>7. CASE CreateReader
  BY <1>7, CreateReaderIs, NeedsSame DEF LateInv, CancelBounded, N
<1>8. CASE Loop
  BY <1>8, LoopIs, NeedsSame DEF LateInv, CancelBounded, N, Done
<1>9. CASE Pop
  <2>1. /\ main.pc = "pop" /\ main'.pc \in {"empty", "decode"}
        /\ UNCHANGED <<setup, pipe, late>>
    BY <1>9, PopIs, Zenon
  <2> QED
    BY <2>1, NeedsSame DEF LateInv, CancelBounded
<1>10. CASE Empty
  BY <1>10, EmptyIs, NeedsSame DEF LateInv, CancelBounded, N
<1>11. CASE Decode
  <2>1. /\ main.pc = "decode" /\ main'.pc \in {"dsd", "clean", "cancel"}
        /\ (main'.pc = "dsd" => main'.j = 1) /\ main'.batch = main.batch
        /\ UNCHANGED <<setup, pipe, late>>
    BY <1>11, DecodeIs, Zenon
  <2>2. N' \in Int /\ N' >= 0
    BY <2>1, Sizes DEF N
  <2> QED
    BY <2>1, <2>2, NeedsSame DEF LateInv, CancelBounded
<1>12. CASE WriteDsd
  <2>1. main.track \in 1..Tracks
    BY <1>12, WriteDsdIs DEF MainInv
  <2>2. main.j <= N /\ (WriteOK(Format) \/ WriteFails(Format, "writedsd")) /\ needs_dsd /\ main.pc = "dsd"
    BY <1>12, WriteDsdIs, Zenon
  <2>3. late' \in {late, late + 1} /\ (~pipe.cancelled => late' = late)
    BY <2>1, <2>2, WriteIs
  <2>4. /\ pipe' = pipe /\ setup' = setup
        /\ \/ main'.pc = "dsd" /\ main'.j = main.j + 1 /\ main'.batch = main.batch
           \/ main'.pc = "clean"
    BY <1>12, WriteDsdIs, Zenon
  <2>5. needs_dsd' = needs_dsd /\ needs_pcm' = needs_pcm
    BY <2>4, NeedsSame
  <2>6. late < main.j /\ N' = Len(main'.batch)
    BY <2>2 DEF LateInv, N
  <2>7. late' <= N
    BY <1>1, <2>2, <2>3, <2>6
  <2>8. CancelBounded'
    <3>1. late' \in Int /\ late' <= MaxBatch
      BY <1>1, <2>3, <2>7
    <3>2. CASE needs_pcm
      BY <1>1, <2>2, <2>5, <3>1, <3>2 DEF CancelBounded
    <3>3. CASE ~needs_pcm
      BY <1>1, <2>2, <2>5, <3>1, <3>3 DEF CancelBounded
    <3> QED
      BY <3>2, <3>3
  <2>9. CASE main'.pc = "clean"
    BY <2>2, <2>3, <2>4, <2>8, <2>9 DEF LateInv
  <2>10. CASE main'.pc = "dsd"
    <3>1. N' = N /\ main'.j = main.j + 1
      BY <2>4, <2>10 DEF N
    <3>2. late' < main'.j /\ main'.j <= N' + 1
      BY <1>1, <2>2, <2>3, <2>6, <3>1
    <3> QED
      BY <2>2, <2>3, <2>4, <2>5, <2>8, <2>10, <3>2 DEF LateInv
  <2> QED
    BY <2>4, <2>9, <2>10
<1>13. CASE DsdWritten
  <2>1. /\ main.pc = "dsd" /\ (main.j > N \/ ~needs_dsd) /\ main'.pc \in {"convert", "release"}
        /\ main'.batch = main.batch /\ (main'.pc = "convert" => pipe.dsd2pcm)
        /\ UNCHANGED <<setup, pipe, late>>
    BY <1>13, DsdWrittenIs, Zenon
  <2>2. pipe.dsd2pcm = needs_pcm
    BY <2>1, Zenon DEF MainInv
  <2>3. late < main.j /\ main.j <= N + 1 /\ (~needs_dsd => late = 0)
    BY <2>1 DEF LateInv
  <2>4. late <= N * Feeds(needs_dsd)
    <3>1. CASE needs_dsd
      BY <1>1, <2>3, <3>1 DEF Feeds
    <3>2. CASE ~needs_dsd
      BY <1>1, <2>3, <3>2 DEF Feeds
    <3> QED
      BY <3>1, <3>2
  <2>5. needs_dsd' = needs_dsd /\ needs_pcm' = needs_pcm /\ N' = N
    BY <2>1, NeedsSame DEF N
  <2>6. N' * Feeds(needs_dsd)' = N * Feeds(needs_dsd)
    BY <2>5 DEF Feeds
  <2> QED
    BY <2>1, <2>2, <2>4, <2>5, <2>6 DEF LateInv, CancelBounded
<1>14. CASE Convert
  <2>1. /\ main.pc = "convert" /\ main'.pc \in {"pcm", "clean"}
        /\ (main'.pc = "pcm" => main'.j = 1) /\ main'.batch = main.batch
        /\ UNCHANGED <<setup, pipe, late>>
    BY <1>14, ConvertIs, Zenon
  <2>2. late <= N * Feeds(needs_dsd) /\ needs_pcm
    BY <2>1 DEF LateInv
  <2>3. late < N * Feeds(needs_dsd) + 1
    <3>1. CASE needs_dsd
      BY <1>1, <2>2, <3>1 DEF Feeds
    <3>2. CASE ~needs_dsd
      BY <1>1, <2>2, <3>2 DEF Feeds
    <3> QED
      BY <3>1, <3>2
  <2>4. needs_dsd' = needs_dsd /\ needs_pcm' = needs_pcm /\ N' = N
    BY <2>1, NeedsSame DEF N
  <2>5. N' * Feeds(needs_dsd)' = N * Feeds(needs_dsd)
    BY <2>4 DEF Feeds
  <2> QED
    BY <1>1, <2>1, <2>2, <2>3, <2>4, <2>5 DEF LateInv, CancelBounded
<1>15. CASE WritePcm
  <2>1. main.track \in 1..Tracks
    BY <1>15, WritePcmIs DEF MainInv
  <2>2. main.j <= N /\ (WriteOK("PCM") \/ WriteFails("PCM", "writepcm")) /\ main.pc = "pcm"
    BY <1>15, WritePcmIs, Zenon
  <2>3. late' \in {late, late + 1} /\ (~pipe.cancelled => late' = late)
    BY <2>1, <2>2, WriteIs
  <2>4. /\ pipe' = pipe /\ setup' = setup
        /\ \/ main'.pc = "pcm" /\ main'.j = main.j + 1 /\ main'.batch = main.batch
           \/ main'.pc = "clean"
    BY <1>15, WritePcmIs, Zenon
  <2>5. needs_dsd' = needs_dsd /\ needs_pcm' = needs_pcm
    BY <2>4, NeedsSame
  <2>6. late < N * Feeds(needs_dsd) + main.j /\ needs_pcm
    BY <2>2 DEF LateInv
  <2>7. late' < N * Feeds(needs_dsd) + main.j + 1 /\ CancelBounded'
    <3>1. CASE needs_dsd
      BY <1>1, <2>2, <2>3, <2>5, <2>6, <3>1, PipelineConstants DEF Feeds, CancelBounded
    <3>2. CASE ~needs_dsd
      BY <1>1, <2>2, <2>3, <2>5, <2>6, <3>2, PipelineConstants DEF Feeds, CancelBounded
    <3> QED
      BY <3>1, <3>2
  <2>8. CASE main'.pc = "clean"
    BY <2>2, <2>3, <2>4, <2>7, <2>8 DEF LateInv
  <2>9. CASE main'.pc = "pcm"
    <3>1. N' = N /\ main'.j = main.j + 1
      BY <2>4, <2>9 DEF N
    <3>2. N' * Feeds(needs_dsd)' = N * Feeds(needs_dsd)
      BY <2>5, <3>1 DEF Feeds
    <3>3. late' < N' * Feeds(needs_dsd)' + main'.j
      <4>1. N * Feeds(needs_dsd) \in Int
        BY <1>1 DEF Feeds
      <4> QED
        BY <1>1, <2>7, <3>1, <3>2, <4>1
    <3> QED
      BY <1>1, <2>2, <2>3, <2>4, <2>5, <2>6, <2>7, <2>9, <3>1, <3>3 DEF LateInv
  <2> QED
    BY <2>4, <2>8, <2>9
<1>16. CASE PcmWritten
  BY <1>16, PcmWrittenIs, NeedsSame DEF LateInv, CancelBounded, N
<1>17. CASE Release
  <2>1. /\ main.pc = "release" /\ main'.pc \in {"loop", "clean"}
        /\ (~pipe'.cancelled => ~pipe.cancelled) /\ UNCHANGED <<setup, late>>
    BY <1>17, ReleaseIs, Zenon
  <2> QED
    BY <2>1, NeedsSame DEF LateInv, CancelBounded
<1>18. CASE Clean
  BY <1>18, CleanIs, NeedsSame DEF LateInv, CancelBounded, N
<1>19. CASE CancelReader
  BY <1>19, CancelReaderIs, NeedsSame DEF LateInv, CancelBounded, N
<1>20. CASE CancelQueue
  BY <1>20, CancelQueueIs, NeedsSame DEF LateInv, CancelBounded, N
<1>21. CASE WaitReader
  BY <1>21, WaitReaderIs, NeedsSame DEF LateInv, CancelBounded, N
<1>22. CASE ShutdownQueue
  BY <1>22, ShutdownQueueIs, NeedsSame DEF LateInv, CancelBounded, N
<1>23. CASE Join
  BY <1>23, JoinIs, NeedsSame DEF LateInv, CancelBounded, N
<1>24. CASE TrackEnd
  BY <1>24, TrackEndIs, NeedsSame DEF LateInv, CancelBounded, N
<1>25. CASE Finalize
  BY <1>25, FinalizeIs, NeedsSame DEF LateInv, CancelBounded, N
<1>26. CASE RTake
  BY <1>26, RTakeIs, NeedsSame DEF LateInv, CancelBounded, N
<1>27. CASE RReset
  BY <1>27, RResetIs, NeedsSame DEF LateInv, CancelBounded, N
<1>28. CASE RSeek
  BY <1>28, RSeekIs, NeedsSame DEF LateInv, CancelBounded, N
<1>29. CASE RCheck
  BY <1>29, RCheckIs, NeedsSame DEF LateInv, CancelBounded, N
<1>30. CASE RRead
  BY <1>30, RReadIs, NeedsSame DEF LateInv, CancelBounded, N
<1>31. CASE RPush
  BY <1>31, RPushIs, NeedsSame DEF LateInv, CancelBounded, N
<1>32. CASE RFinish
  BY <1>32, RFinishIs, NeedsSame DEF LateInv, CancelBounded, N
<1>33. CASE REof
  BY <1>33, REofIs, NeedsSame DEF LateInv, CancelBounded, N
<1>34. CASE RStop
  BY <1>34, RStopIs, NeedsSame DEF LateInv, CancelBounded, N
<1>35. CASE RStopQueue
  BY <1>35, RStopQueueIs, NeedsSame DEF LateInv, CancelBounded, N
<1>36. CASE Cancel
  BY <1>36, CancelIs, NeedsSame DEF LateInv, CancelBounded, N
<1>37. CASE UNCHANGED vars
  BY <1>37, NeedsSame DEF LateInv, CancelBounded, vars, N
<1> QED
  BY <1>2, <1>3, <1>4, <1>5, <1>6, <1>7, <1>8, <1>9, <1>10, <1>11, <1>12,
   <1>13, <1>14, <1>15, <1>16, <1>17, <1>18, <1>19, <1>20, <1>21, <1>22,
   <1>23, <1>24, <1>25, <1>26, <1>27, <1>28, <1>29, <1>30, <1>31, <1>32,
   <1>33, <1>34, <1>35, <1>36, <1>37
     DEF Next, MainStep, ReaderStep

\* The bound on what is still written holds at all times.
LEMMA LateAlways == Spec => []LateInv
<1>1. Init => LateInv
  BY PipelineConstants DEF Init, LateInv, CancelBounded
<1>2. ControlInv /\ LateInv /\ [Next]_vars => LateInv'
  BY LateNext
<1> QED
  BY <1>1, <1>2, ThreadsInStep, PTL DEF Spec

(***************************************************************************)
(* Once a run is cancelled, by dsdpipe_cancel from another thread or by    *)
(* the progress callback, it writes at most the batch it is working on, in *)
(* each of the formats it feeds.                                           *)
(***************************************************************************)
THEOREM CancelIsBounded == Spec => []CancelBounded
<1>1. LateInv => CancelBounded
  BY DEF LateInv
<1> QED
  BY <1>1, LateAlways, PTL

----------------------------------------------------------------------------
(* Buffers go back to their pools.                                         *)

\* The buffers in use are those of the queue, the reader and the batch.
LEMMA BufNext == ControlInv /\ LateInv /\ BufInv /\ [Next]_vars => BufInv'
<1> SUFFICES ASSUME ControlInv, LateInv, BufInv, [Next]_vars PROVE BufInv'
  OBVIOUS
<1> USE DEF ControlInv, Looping, Active, Busy, Closing, Before
<1>1. /\ Len(queue.fifo) \in Int /\ Len(queue.fifo) >= 0 /\ N \in Int /\ N >= 0
      /\ PerFrame \in {1, 2} /\ bufs.dsd \in Int /\ bufs.pcm \in Int
      /\ main.j \in Int /\ main.j >= 1
  BY Sizes
<1>2. HeldByReader \in {0, 1} /\ HeldByMain \in Int
  BY <1>1 DEF HeldByReader, HeldByMain
<1>3. ASSUME reader'.pc = reader.pc PROVE HeldByReader' = HeldByReader
  BY <1>3 DEF HeldByReader
<1>4. ASSUME main'.batch = main.batch, pipe'.decoder = pipe.decoder
      PROVE  N' = N /\ PerFrame' = PerFrame
  BY <1>4 DEF N, PerFrame
<1>5. ASSUME main'.pc \notin Busy PROVE HeldByMain' = 0
  BY <1>5 DEF HeldByMain
<1>6. ASSUME main.pc \notin Busy PROVE HeldByMain = 0
  BY <1>6 DEF HeldByMain
<1>7. ASSUME main' = main, pipe' = pipe PROVE HeldByMain' = HeldByMain
  BY <1>7 DEF HeldByMain, N, PerFrame
<1>8. PICK P : P = PerFrame * N
  OBVIOUS
<1>9. P \in Int /\ (pipe.decoder => P = N + N) /\ (~pipe.decoder => P = N)
  BY <1>1, <1>8 DEF PerFrame
<1>10. /\ bufs.dsd >= Len(queue.fifo) + HeldByReader + HeldByMain
       /\ "writedsd" \notin hit => bufs.dsd = Len(queue.fifo) + HeldByReader + HeldByMain
       /\ bufs.pcm = IF main.pc = "pcm" THEN N - main.j + 1 ELSE 0
  BY DEF BufInv
<1>11. CASE Run
  <2>1. /\ main.pc \notin Busy /\ main'.pc \notin Busy /\ bufs' = bufs
        /\ queue' = queue /\ reader' = reader /\ hit \subseteq hit'
    BY <1>11, RunIs
  <2>2. HeldByMain = 0 /\ HeldByMain' = 0 /\ HeldByReader' = HeldByReader
    BY <2>1, <1>3, <1>5, <1>6
  <2> QED
    BY <1>1, <1>2, <1>10, <2>1, <2>2 DEF BufInv
<1>12. CASE OpenSink
  <2>1. /\ main.pc \notin Busy /\ main'.pc \notin Busy /\ bufs' = bufs
        /\ queue' = queue /\ reader' = reader /\ hit \subseteq hit'
    BY <1>12, OpenSinkIs
  <2>2. HeldByMain = 0 /\ HeldByMain' = 0 /\ HeldByReader' = HeldByReader
    BY <2>1, <1>3, <1>5, <1>6
  <2> QED
    BY <1>1, <1>2, <1>10, <2>1, <2>2 DEF BufInv
<1>13. CASE SetRunning
  <2>1. /\ main.pc \notin Busy /\ main'.pc \notin Busy /\ bufs' = bufs
        /\ queue' = queue /\ reader' = reader /\ hit \subseteq hit'
    BY <1>13, SetRunningIs
  <2>2. HeldByMain = 0 /\ HeldByMain' = 0 /\ HeldByReader' = HeldByReader
    BY <2>1, <1>3, <1>5, <1>6
  <2> QED
    BY <1>1, <1>2, <1>10, <2>1, <2>2 DEF BufInv
<1>14. CASE NextTrack
  <2>1. /\ main.pc \notin Busy /\ main'.pc \notin Busy /\ bufs' = bufs
        /\ queue' = queue /\ reader' = reader /\ hit \subseteq hit'
    BY <1>14, NextTrackIs
  <2>2. HeldByMain = 0 /\ HeldByMain' = 0 /\ HeldByReader' = HeldByReader
    BY <2>1, <1>3, <1>5, <1>6
  <2> QED
    BY <1>1, <1>2, <1>10, <2>1, <2>2 DEF BufInv
<1>15. CASE TrackStart
  <2>1. /\ main.pc \notin Busy /\ main'.pc \notin Busy /\ bufs' = bufs
        /\ queue' = queue /\ reader' = reader /\ hit \subseteq hit'
    BY <1>15, TrackStartIs
  <2>2. HeldByMain = 0 /\ HeldByMain' = 0 /\ HeldByReader' = HeldByReader
    BY <2>1, <1>3, <1>5, <1>6
  <2> QED
    BY <1>1, <1>2, <1>10, <2>1, <2>2 DEF BufInv
<1>16. CASE CreateReader
  <2>1. /\ main.pc = "tstart" /\ main'.pc \notin Busy /\ bufs' = bufs /\ hit \subseteq hit'
        /\ \/ queue' = NewQueue /\ reader' = NewReader
           \/ queue' = queue /\ reader' = reader
    BY <1>16, CreateReaderIs
  <2>2. HeldByMain = 0 /\ HeldByMain' = 0
    BY <2>1, <1>5, <1>6
  <2>3. queue.fifo = <<>> /\ HeldByReader = 0
    BY <2>1 DEF ThreadsInv, HeldByReader
  <2>4. HeldByReader' = 0 /\ queue'.fifo = queue.fifo
    BY <2>1, <2>3, NewIs DEF HeldByReader
  <2> QED
    BY <1>1, <2>1, <2>2, <2>3, <2>4 DEF BufInv
<1>17. CASE Loop
  <2>1. /\ main.pc \notin Busy /\ main'.pc \notin Busy /\ bufs' = bufs
        /\ queue' = queue /\ reader' = reader /\ hit \subseteq hit'
    BY <1>17, LoopIs
  <2>2. HeldByMain = 0 /\ HeldByMain' = 0 /\ HeldByReader' = HeldByReader
    BY <2>1, <1>3, <1>5, <1>6
  <2> QED
    BY <1>1, <1>2, <1>10, <2>1, <2>2 DEF BufInv
<1>18. CASE Pop
  <2>1. PICK n \in 0..MaxBatch :
          /\ main.pc = "pop" /\ n <= Len(queue.fifo)
          /\ main'.pc = (IF n = 0 THEN "empty" ELSE "decode")
          /\ Len(main'.batch) = n /\ Len(queue'.fifo) = Len(queue.fifo) - n
          /\ reader' = reader /\ bufs' = bufs /\ hit' = hit
    BY <1>18, PopIs, Zenon
  <2>2. HeldByMain = 0 /\ HeldByMain' = n /\ HeldByReader' = HeldByReader
    BY <2>1, <1>3, <1>6 DEF HeldByMain, N
  <2> QED
    BY <1>1, <1>2, <1>10, <2>1, <2>2, PipelineConstants DEF BufInv
<1>19. CASE Empty
  <2>1. /\ main.pc \notin Busy /\ main'.pc \notin Busy /\ bufs' = bufs
        /\ queue' = queue /\ reader' = reader /\ hit \subseteq hit'
    BY <1>19, EmptyIs
  <2>2. HeldByMain = 0 /\ HeldByMain' = 0 /\ HeldByReader' = HeldByReader
    BY <2>1, <1>3, <1>5, <1>6
  <2> QED
    BY <1>1, <1>2, <1>10, <2>1, <2>2 DEF BufInv
<1>20. CASE Decode
  <2>1. /\ main.pc = "decode" /\ main'.batch = main.batch /\ bufs'.pcm = bufs.pcm
        /\ UNCHANGED <<pipe, queue, reader>> /\ hit \subseteq hit'
        /\ \/ main'.pc = "dsd" /\ ~pipe.decoder /\ bufs'.dsd = bufs.dsd
           \/ main'.pc = "dsd" /\ pipe.decoder /\ bufs'.dsd = bufs.dsd + N
           \/ main'.pc \in {"clean", "cancel"} /\ bufs'.dsd = bufs.dsd - N
    BY <1>20, DecodeIs
  <2>2. HeldByMain = N /\ HeldByReader' = HeldByReader /\ N' = N /\ PerFrame' = PerFrame
    BY <2>1, <1>3, <1>4, <1>8 DEF HeldByMain
  <2>3. CASE main'.pc = "dsd"
    <3>1. HeldByMain' = P
      BY <2>2, <2>3, <1>8 DEF HeldByMain
    <3>2. CASE pipe.decoder
      <4>1. P \in Int /\ P = N + N /\ bufs'.dsd = bufs.dsd + N
        BY <1>9, <2>1, <2>3, <3>2
      <4>2. main.pc = "decode" /\ bufs'.pcm = bufs.pcm /\ queue' = queue /\ hit \subseteq hit'
        BY <2>1
      <4>3. /\ bufs.dsd >= Len(queue.fifo) + HeldByReader + N
            /\ "writedsd" \notin hit => bufs.dsd = Len(queue.fifo) + HeldByReader + N
            /\ bufs.pcm = 0
        BY <1>10, <2>2, <4>2
      <4>4. /\ bufs'.dsd >= Len(queue'.fifo) + HeldByReader' + HeldByMain'
            /\ "writedsd" \notin hit' =>
                 bufs'.dsd = Len(queue'.fifo) + HeldByReader' + HeldByMain'
        <5>1. HeldByReader \in Int /\ Len(queue.fifo) \in Int /\ N \in Int /\ bufs.dsd \in Int
          BY <1>1, <1>2
        <5>2. /\ queue'.fifo = queue.fifo /\ HeldByReader' = HeldByReader
              /\ HeldByMain' = N + N /\ bufs'.dsd = bufs.dsd + N
          BY <2>2, <3>1, <4>1, <4>2
        <5>3. "writedsd" \notin hit' => "writedsd" \notin hit
          BY <4>2
        <5>4. PICK l, r, n, d, d1 :
                /\ l = Len(queue.fifo) /\ r = HeldByReader /\ n = N /\ d = bufs.dsd
                /\ d1 = bufs.dsd + N
          OBVIOUS
        <5>5. /\ l \in Int /\ r \in Int /\ n \in Int /\ d \in Int /\ d1 = d + n
              /\ d >= l + r + n /\ ("writedsd" \notin hit => d = l + r + n)
          BY <5>1, <5>4, <4>3, Zenon
        <5>6. d1 >= l + r + (n + n) /\ ("writedsd" \notin hit => d1 = l + r + (n + n))
          BY <5>5
        <5> QED
          BY <5>2, <5>3, <5>4, <5>6, Zenon
      <4> QED
        BY <2>3, <4>2, <4>3, <4>4 DEF BufInv
    <3>3. CASE ~pipe.decoder
      BY <1>1, <1>2, <1>10, <2>1, <2>2, <2>3, <3>1, <3>3, <1>9 DEF BufInv
    <3> QED
      BY <3>2, <3>3
  <2>4. CASE main'.pc \in {"clean", "cancel"}
    <3>1. HeldByMain' = 0
      BY <2>4, <1>5
    <3> QED
      BY <1>1, <1>2, <1>10, <2>1, <2>2, <2>4, <3>1 DEF BufInv
  <2> QED
    BY <2>1, <2>3, <2>4
<1>21. CASE WriteDsd
  <2>1. /\ main.pc = "dsd" /\ main.j <= N /\ main'.batch = main.batch
        /\ UNCHANGED <<pipe, queue, reader>>
        /\ \/ main'.pc = "dsd" /\ bufs' = bufs /\ WriteOK(Format)
           \/ /\ main'.pc = "clean" /\ WriteFails(Format, "writedsd") /\ bufs'.pcm = bufs.pcm
              /\ bufs'.dsd = bufs.dsd - PerFrame * (N - main.j + 1)
    BY <1>21, WriteDsdIs, Zenon
  <2>2. /\ HeldByMain = P /\ HeldByReader' = HeldByReader /\ N' = N
        /\ PerFrame' = PerFrame
    BY <2>1, <1>3, <1>4, <1>8 DEF HeldByMain
  <2>3. CASE main'.pc = "dsd" /\ bufs' = bufs /\ WriteOK(Format)
    <3>1. HeldByMain' = P /\ hit' = hit
      BY <2>2, <2>3, <1>8 DEF HeldByMain, WriteOK
    <3> QED
      BY <1>1, <1>2, <1>10, <2>1, <2>2, <2>3, <3>1 DEF BufInv
  <2>4. CASE /\ main'.pc = "clean" /\ WriteFails(Format, "writedsd") /\ bufs'.pcm = bufs.pcm
             /\ bufs'.dsd = bufs.dsd - PerFrame * (N - main.j + 1)
    <3>1. HeldByMain' = 0 /\ "writedsd" \in hit'
      BY <2>4, <1>5 DEF WriteFails, Fault
    <3>2. PICK Q : Q = PerFrame * (N - main.j + 1)
      OBVIOUS
    <3>3. Q \in Int /\ Q <= P
      <4>1. CASE PerFrame = 1
        BY <1>1, <1>8, <3>2, <4>1
      <4>2. CASE PerFrame = 2
        BY <1>1, <1>8, <3>2, <4>2
      <4> QED
        BY <1>1, <4>1, <4>2
    <3>4. bufs'.dsd = bufs.dsd - Q /\ bufs'.pcm = bufs.pcm
      BY <2>4, <3>2, Zenon
    <3>5. bufs'.dsd >= Len(queue'.fifo) + HeldByReader' + HeldByMain'
      BY <1>1, <1>2, <1>9, <1>10, <2>1, <2>2, <3>1, <3>3, <3>4
    <3> QED
      BY <1>10, <2>1, <2>4, <3>1, <3>4, <3>5 DEF BufInv
  <2> QED
    BY <2>1, <2>3, <2>4
<1>22. CASE DsdWritten
  <2>1. /\ main.pc = "dsd" /\ main'.pc \in {"convert", "release"}
        /\ main'.batch = main.batch /\ UNCHANGED <<pipe, queue, reader, bufs, hit>>
    BY <1>22, DsdWrittenIs, Zenon
  <2>2. /\ HeldByMain = P /\ HeldByReader' = HeldByReader /\ N' = N
        /\ PerFrame' = PerFrame
    BY <2>1, <1>3, <1>4, <1>8 DEF HeldByMain
  <2>3. HeldByMain' = P
    BY <2>1, <2>2, <1>8 DEF HeldByMain
  <2> QED
    BY <1>1, <1>2, <1>10, <2>1, <2>2, <2>3 DEF BufInv
<1>23. CASE Convert
  <2>1. /\ main.pc = "convert" /\ main'.batch = main.batch
        /\ UNCHANGED <<pipe, queue, reader>> /\ hit \subseteq hit'
        /\ \/ /\ main'.pc = "pcm" /\ main'.j = 1 /\ bufs'.dsd = bufs.dsd /\ bufs'.pcm = N
              /\ hit' = hit
           \/ main'.pc \in {"clean"} /\ bufs'.dsd = bufs.dsd - P /\ bufs'.pcm = 0
    BY <1>23, <1>8, ConvertIs
  <2>2. hit \subseteq hit'
    BY <2>1
  <2>3. /\ HeldByMain = P /\ HeldByReader' = HeldByReader /\ N' = N
        /\ PerFrame' = PerFrame
    BY <2>1, <1>3, <1>4, <1>8 DEF HeldByMain
  <2>4. CASE main'.pc = "pcm"
    <3>1. HeldByMain' = P
      BY <2>3, <2>4, <1>8 DEF HeldByMain
    <3> QED
      BY <1>1, <1>2, <1>10, <2>1, <2>2, <2>3, <2>4, <3>1 DEF BufInv
  <2>5. CASE main'.pc \in {"clean"}
    <3>1. HeldByMain' = 0
      BY <2>5, <1>5
    <3> QED
      BY <1>1, <1>2, <1>10, <2>1, <2>2, <2>3, <2>5, <3>1 DEF BufInv
  <2> QED
    BY <2>1, <2>4, <2>5
<1>24. CASE WritePcm
  <2>1. /\ main.pc = "pcm" /\ main'.batch = main.batch
        /\ UNCHANGED <<pipe, queue, reader>>
        /\ \/ /\ main'.pc = "pcm" /\ main'.j = main.j + 1 /\ bufs'.dsd = bufs.dsd
              /\ bufs'.pcm = bufs.pcm - 1
           \/ main'.pc \in {"clean"} /\ bufs'.dsd = bufs.dsd - P /\ bufs'.pcm = 0
    BY <1>24, <1>8, WritePcmIs
  <2>2. hit \subseteq hit'
    <3>1. main.track \in 1..Tracks
      BY <2>1 DEF MainInv
    <3>2. main.j <= N /\ (WriteOK("PCM") \/ WriteFails("PCM", "writepcm"))
      BY <1>24, WritePcmIs, Zenon
    <3>3. hit' \in {hit, hit \union {"writepcm"}}
      BY <3>1, <3>2, WriteIs
    <3> QED
      BY <3>3
  <2>3. /\ HeldByMain = P /\ HeldByReader' = HeldByReader /\ N' = N
        /\ PerFrame' = PerFrame
    BY <2>1, <1>3, <1>4, <1>8 DEF HeldByMain
  <2>4. CASE main'.pc = "pcm"
    <3>1. HeldByMain' = P
      BY <2>3, <2>4, <1>8 DEF HeldByMain
    <3> QED
      BY <1>1, <1>2, <1>10, <2>1, <2>2, <2>3, <2>4, <3>1 DEF BufInv
  <2>5. CASE main'.pc \in {"clean"}
    <3>1. HeldByMain' = 0
      BY <2>5, <1>5
    <3> QED
      BY <1>1, <1>2, <1>10, <2>1, <2>2, <2>3, <2>5, <3>1, SMTT(40) DEF BufInv
  <2> QED
    BY <2>1, <2>4, <2>5
<1>25. CASE PcmWritten
  <2>1. /\ main.pc = "pcm" /\ main.j > N /\ main'.pc \in {"convert", "release"}
        /\ main'.batch = main.batch /\ UNCHANGED <<pipe, queue, reader, bufs, hit>>
    BY <1>25, PcmWrittenIs, Zenon
  <2>2. /\ HeldByMain = P /\ HeldByReader' = HeldByReader /\ N' = N
        /\ PerFrame' = PerFrame
    BY <2>1, <1>3, <1>4, <1>8 DEF HeldByMain
  <2>3. HeldByMain' = P
    BY <2>1, <2>2, <1>8 DEF HeldByMain
  <2> QED
    BY <1>1, <1>2, <1>10, <2>1, <2>2, <2>3 DEF BufInv, LateInv
<1>26. CASE Release
  <2>1. /\ main.pc = "release" /\ main'.batch = main.batch
        /\ UNCHANGED <<queue, reader>> /\ pipe'.decoder = pipe.decoder /\ hit \subseteq hit'
        /\ main'.pc \in {"loop", "clean"} /\ bufs'.dsd = bufs.dsd - P /\ bufs'.pcm = 0
    BY <1>26, <1>8, ReleaseIs
  <2>2. hit \subseteq hit'
    BY <2>1
  <2>3. /\ HeldByMain = P /\ HeldByReader' = HeldByReader /\ N' = N
        /\ PerFrame' = PerFrame
    BY <2>1, <1>3, <1>4, <1>8 DEF HeldByMain
  <2>5. CASE main'.pc \in {"loop", "clean"}
    <3>1. HeldByMain' = 0
      BY <2>5, <1>5
    <3> QED
      BY <1>1, <1>2, <1>10, <2>1, <2>2, <2>3, <2>5, <3>1 DEF BufInv
  <2> QED
    BY <2>1, <2>5
<1>27. CASE Clean
  <2>1. /\ main.pc \notin Busy /\ main'.pc \notin Busy /\ bufs' = bufs
        /\ queue' = queue /\ reader' = reader /\ hit \subseteq hit'
    BY <1>27, CleanIs
  <2>2. HeldByMain = 0 /\ HeldByMain' = 0 /\ HeldByReader' = HeldByReader
    BY <2>1, <1>3, <1>5, <1>6
  <2> QED
    BY <1>1, <1>2, <1>10, <2>1, <2>2 DEF BufInv
<1>28. CASE CancelReader
  <2>1. /\ main.pc \notin Busy /\ main'.pc \notin Busy /\ bufs' = bufs
        /\ queue' = queue /\ reader'.pc = reader.pc /\ hit \subseteq hit'
    BY <1>28, CancelReaderIs
  <2>2. HeldByMain = 0 /\ HeldByMain' = 0 /\ HeldByReader' = HeldByReader
    BY <2>1, <1>3, <1>5, <1>6
  <2> QED
    BY <1>1, <1>2, <1>10, <2>1, <2>2 DEF BufInv
<1>29. CASE CancelQueue
  <2>1. /\ main.pc \notin Busy /\ main'.pc \notin Busy /\ bufs' = bufs
        /\ queue'.fifo = queue.fifo /\ reader' = reader /\ hit \subseteq hit'
    BY <1>29, CancelQueueIs
  <2>2. HeldByMain = 0 /\ HeldByMain' = 0 /\ HeldByReader' = HeldByReader
    BY <2>1, <1>3, <1>5, <1>6
  <2> QED
    BY <1>1, <1>2, <1>10, <2>1, <2>2 DEF BufInv
<1>30. CASE WaitReader
  <2>1. /\ main.pc \notin Busy /\ main'.pc \notin Busy /\ bufs' = bufs
        /\ queue' = queue /\ reader'.pc = reader.pc /\ hit \subseteq hit'
    BY <1>30, WaitReaderIs
  <2>2. HeldByMain = 0 /\ HeldByMain' = 0 /\ HeldByReader' = HeldByReader
    BY <2>1, <1>3, <1>5, <1>6
  <2> QED
    BY <1>1, <1>2, <1>10, <2>1, <2>2 DEF BufInv
<1>31. CASE ShutdownQueue
  <2>1. /\ main.pc \notin Busy /\ main'.pc \notin Busy /\ bufs' = bufs
        /\ queue'.fifo = queue.fifo /\ reader' = reader /\ hit \subseteq hit'
    BY <1>31, ShutdownQueueIs
  <2>2. HeldByMain = 0 /\ HeldByMain' = 0 /\ HeldByReader' = HeldByReader
    BY <2>1, <1>3, <1>5, <1>6
  <2> QED
    BY <1>1, <1>2, <1>10, <2>1, <2>2 DEF BufInv
<1>32. CASE Join
  <2>1. /\ main.pc = "join" /\ reader.pc = "exited" /\ main'.pc \in {"final", "trackend"}
        /\ queue'.fifo = <<>> /\ reader' = reader /\ hit' = hit
        /\ bufs'.dsd = bufs.dsd - Len(queue.fifo) /\ bufs'.pcm = bufs.pcm
    BY <1>32, JoinIs, Zenon
  <2>2. HeldByMain = 0 /\ HeldByMain' = 0 /\ HeldByReader' = HeldByReader /\ Len(<<>>) = 0
    BY <2>1, <1>3, <1>5, <1>6
  <2> QED
    BY <1>1, <1>2, <1>10, <2>1, <2>2 DEF BufInv
<1>33. CASE TrackEnd
  <2>1. /\ main.pc \notin Busy /\ main'.pc \notin Busy /\ bufs' = bufs
        /\ queue' = queue /\ reader' = reader /\ hit \subseteq hit'
    BY <1>33, TrackEndIs
  <2>2. HeldByMain = 0 /\ HeldByMain' = 0 /\ HeldByReader' = HeldByReader
    BY <2>1, <1>3, <1>5, <1>6
  <2> QED
    BY <1>1, <1>2, <1>10, <2>1, <2>2 DEF BufInv
<1>34. CASE Finalize
  <2>1. /\ main.pc \notin Busy /\ main'.pc \notin Busy /\ bufs' = bufs
        /\ queue' = queue /\ reader' = reader /\ hit \subseteq hit'
    BY <1>34, FinalizeIs
  <2>2. HeldByMain = 0 /\ HeldByMain' = 0 /\ HeldByReader' = HeldByReader
    BY <2>1, <1>3, <1>5, <1>6
  <2> QED
    BY <1>1, <1>2, <1>10, <2>1, <2>2 DEF BufInv
<1>35. CASE RTake
  <2>1. /\ reader.pc \notin {"read", "push"} /\ reader'.pc \notin {"read", "push"}
        /\ main' = main /\ pipe' = pipe /\ hit \subseteq hit' /\ queue' = queue /\ bufs' = bufs
    BY <1>35, RTakeIs
  <2>2. HeldByMain' = HeldByMain /\ HeldByReader = 0 /\ HeldByReader' = 0 /\ N' = N
    BY <2>1, <1>7 DEF HeldByReader, N
  <2> QED
    BY <1>1, <1>2, <1>10, <2>1, <2>2 DEF BufInv
<1>36. CASE RReset
  <2>1. /\ reader.pc = "reset" /\ reader'.pc = "seek" /\ main' = main /\ pipe' = pipe
        /\ hit' = hit /\ queue' = NewQueue
        /\ bufs'.dsd = bufs.dsd - Len(queue.fifo) /\ bufs'.pcm = bufs.pcm
    BY <1>36, RResetIs
  <2>2. HeldByMain' = HeldByMain /\ HeldByReader = 0 /\ HeldByReader' = 0 /\ N' = N
    BY <2>1, <1>7 DEF HeldByReader, N
  <2>3. Len(queue'.fifo) = 0
    BY <2>1, NewIs
  <2> QED
    BY <1>1, <1>2, <1>10, <2>1, <2>2, <2>3 DEF BufInv
<1>37. CASE RSeek
  <2>1. /\ reader.pc \notin {"read", "push"} /\ reader'.pc \notin {"read", "push"}
        /\ main' = main /\ pipe' = pipe /\ hit \subseteq hit' /\ queue' = queue /\ bufs' = bufs
    BY <1>37, RSeekIs
  <2>2. HeldByMain' = HeldByMain /\ HeldByReader = 0 /\ HeldByReader' = 0 /\ N' = N
    BY <2>1, <1>7 DEF HeldByReader, N
  <2> QED
    BY <1>1, <1>2, <1>10, <2>1, <2>2 DEF BufInv
<1>38. CASE RCheck
  <2>1. /\ reader.pc = "check" /\ main' = main /\ pipe' = pipe /\ hit \subseteq hit'
        /\ queue' = queue /\ bufs'.pcm = bufs.pcm
        /\ \/ reader'.pc = "read" /\ bufs'.dsd = bufs.dsd + 1
           \/ reader'.pc \in {"stop", "eof"} /\ bufs'.dsd = bufs.dsd
    BY <1>38, RCheckIs
  <2>2. /\ HeldByMain' = HeldByMain /\ HeldByReader = 0 /\ N' = N
        /\ HeldByReader' = IF reader'.pc = "read" THEN 1 ELSE 0
    BY <2>1, <1>7 DEF HeldByReader, N
  <2>3. CASE reader'.pc = "read"
    BY <1>1, <1>2, <1>10, <2>1, <2>2, <2>3 DEF BufInv
  <2>4. CASE reader'.pc \in {"stop", "eof"}
    BY <1>1, <1>2, <1>10, <2>1, <2>2, <2>4 DEF BufInv
  <2> QED
    BY <2>1, <2>3, <2>4
<1>39. CASE RRead
  <2>1. /\ reader.pc = "read" /\ main' = main /\ pipe' = pipe /\ hit \subseteq hit'
        /\ queue' = queue /\ bufs'.pcm = bufs.pcm
        /\ \/ reader'.pc = "push" /\ bufs'.dsd = bufs.dsd
           \/ reader'.pc = "eof" /\ bufs'.dsd = bufs.dsd - 1
    BY <1>39, RReadIs
  <2>2. /\ HeldByMain' = HeldByMain /\ HeldByReader = 1 /\ N' = N
        /\ HeldByReader' = IF reader'.pc = "push" THEN 1 ELSE 0
    BY <2>1, <1>7 DEF HeldByReader, N
  <2>3. CASE reader'.pc = "push"
    BY <1>1, <1>2, <1>10, <2>1, <2>2, <2>3 DEF BufInv
  <2>4. CASE reader'.pc = "eof"
    BY <1>1, <1>2, <1>10, <2>1, <2>2, <2>4 DEF BufInv
  <2> QED
    BY <2>1, <2>3, <2>4
<1>40. CASE RPush
  <2>1. /\ reader.pc = "push" /\ reader'.pc \in {"finish", "check", "stop"}
        /\ main' = main /\ pipe' = pipe /\ hit' = hit /\ bufs'.pcm = bufs.pcm
        /\ \/ queue'.fifo = Append(queue.fifo, reader.frame) /\ bufs'.dsd = bufs.dsd
           \/ queue' = queue /\ bufs'.dsd = bufs.dsd - 1
    BY <1>40, RPushIs
  <2>2. HeldByMain' = HeldByMain /\ HeldByReader = 1 /\ HeldByReader' = 0 /\ N' = N
    BY <2>1, <1>7 DEF HeldByReader, N
  <2>3. queue.fifo \in Seq(Frame) /\ reader.frame \in Frame
    BY Sizes
  <2>4. Len(Append(queue.fifo, reader.frame)) = Len(queue.fifo) + 1
    BY <2>3, AppendIs
  <2>5. CASE queue'.fifo = Append(queue.fifo, reader.frame) /\ bufs'.dsd = bufs.dsd
    BY <1>1, <1>2, <1>10, <2>1, <2>2, <2>4, <2>5 DEF BufInv
  <2>6. CASE queue' = queue /\ bufs'.dsd = bufs.dsd - 1
    BY <1>1, <1>2, <1>10, <2>1, <2>2, <2>6 DEF BufInv
  <2> QED
    BY <2>1, <2>5, <2>6
<1>41. CASE RFinish
  <2>1. /\ reader.pc \notin {"read", "push"} /\ reader'.pc \notin {"read", "push"}
        /\ main' = main /\ pipe' = pipe /\ hit \subseteq hit' /\ queue' = queue /\ bufs' = bufs
    BY <1>41, RFinishIs
  <2>2. HeldByMain' = HeldByMain /\ HeldByReader = 0 /\ HeldByReader' = 0 /\ N' = N
    BY <2>1, <1>7 DEF HeldByReader, N
  <2> QED
    BY <1>1, <1>2, <1>10, <2>1, <2>2 DEF BufInv
<1>42. CASE REof
  <2>1. /\ reader.pc \notin {"read", "push"} /\ reader'.pc \notin {"read", "push"}
        /\ main' = main /\ pipe' = pipe /\ hit \subseteq hit' /\ queue'.fifo = queue.fifo /\ bufs' = bufs
    BY <1>42, REofIs
  <2>2. HeldByMain' = HeldByMain /\ HeldByReader = 0 /\ HeldByReader' = 0 /\ N' = N
    BY <2>1, <1>7 DEF HeldByReader, N
  <2> QED
    BY <1>1, <1>2, <1>10, <2>1, <2>2 DEF BufInv
<1>43. CASE RStop
  <2>1. /\ reader.pc \notin {"read", "push"} /\ reader'.pc \notin {"read", "push"}
        /\ main' = main /\ pipe' = pipe /\ hit \subseteq hit' /\ queue' = queue /\ bufs' = bufs
    BY <1>43, RStopIs
  <2>2. HeldByMain' = HeldByMain /\ HeldByReader = 0 /\ HeldByReader' = 0 /\ N' = N
    BY <2>1, <1>7 DEF HeldByReader, N
  <2> QED
    BY <1>1, <1>2, <1>10, <2>1, <2>2 DEF BufInv
<1>44. CASE RStopQueue
  <2>1. /\ reader.pc \notin {"read", "push"} /\ reader'.pc \notin {"read", "push"}
        /\ main' = main /\ pipe' = pipe /\ hit \subseteq hit' /\ queue'.fifo = queue.fifo /\ bufs' = bufs
    BY <1>44, RStopQueueIs
  <2>2. HeldByMain' = HeldByMain /\ HeldByReader = 0 /\ HeldByReader' = 0 /\ N' = N
    BY <2>1, <1>7 DEF HeldByReader, N
  <2> QED
    BY <1>1, <1>2, <1>10, <2>1, <2>2 DEF BufInv
<1>45. CASE Cancel
  <2>1. /\ pipe'.decoder = pipe.decoder /\ UNCHANGED <<main, queue, reader, bufs, hit>>
    BY <1>45, CancelIs
  <2>2. HeldByMain' = HeldByMain /\ HeldByReader' = HeldByReader /\ N' = N
    BY <2>1, <1>3 DEF HeldByMain, N, PerFrame
  <2> QED
    BY <1>1, <1>2, <1>10, <2>1, <2>2 DEF BufInv
<1>46. CASE UNCHANGED vars
  BY <1>46, <1>3, <1>7 DEF BufInv, vars, N
<1> QED
  BY <1>11, <1>12, <1>13, <1>14, <1>15, <1>16, <1>17, <1>18, <1>19, <1>20,
   <1>21, <1>22, <1>23, <1>24, <1>25, <1>26, <1>27, <1>28, <1>29, <1>30,
   <1>31, <1>32, <1>33, <1>34, <1>35, <1>36, <1>37, <1>38, <1>39, <1>40,
   <1>41, <1>42, <1>43, <1>44, <1>45, <1>46
     DEF Next, MainStep, ReaderStep

\* Which buffers are in use, at all times.
LEMMA BufAlways == Spec => []BufInv
<1>1. Init => BufInv
  <2> SUFFICES ASSUME Init PROVE BufInv
    OBVIOUS
  <2>1. /\ main.pc = "start" /\ bufs.dsd = 0 /\ bufs.pcm = 0
    BY DEF Init
  <2>2. queue.fifo = <<>> /\ reader.pc = "exited"
    BY DEF Init, NewQueue, NewReader
  <2>3. Len(queue.fifo) = 0 /\ HeldByReader = 0 /\ HeldByMain = 0
    BY <2>1, <2>2 DEF HeldByReader, HeldByMain, Busy
  <2> QED
    BY <2>1, <2>3 DEF BufInv
<1>2. ControlInv /\ LateInv /\ BufInv /\ [Next]_vars => BufInv'
  BY BufNext
<1> QED
  BY <1>1, <1>2, ThreadsInStep, LateAlways, PTL DEF Spec

\* What a failed DSD write leaves in use.
LEMMA LeftNext == ControlInv /\ BufInv /\ LeftInv /\ [Next]_vars => LeftInv'
<1> SUFFICES ASSUME ControlInv, BufInv, LeftInv, [Next]_vars, "writedsd" \in hit'
             PROVE  /\ main'.result # "OK"
                    /\ bufs'.dsd = Len(queue'.fifo) + HeldByReader' + PerFrame' * (main'.j - 1)
  BY DEF LeftInv
<1> USE DEF ControlInv, Looping, Active, Busy, Closing, Before
<1>1. /\ Len(queue.fifo) \in Int /\ N \in Int /\ PerFrame \in {1, 2} /\ bufs.dsd \in Int
      /\ main.j \in Int /\ main.j >= 1
  BY Sizes
<1>2. HeldByReader \in {0, 1}
  BY DEF HeldByReader
<1>3. ASSUME main.pc \in Before \union Looping PROVE "writedsd" \notin hit
  BY <1>3 DEF MainInv, LeftInv
<1>4. PICK L : L = PerFrame * (main.j - 1)
  OBVIOUS
<1>5. L \in Int
  BY <1>1, <1>4
<1>6. ASSUME main'.j = main.j, pipe'.decoder = pipe.decoder
      PROVE  PerFrame' * (main'.j - 1) = L
  BY <1>4, <1>6 DEF PerFrame
<1>7. ASSUME reader'.pc = reader.pc PROVE HeldByReader' = HeldByReader
  BY <1>7 DEF HeldByReader
<1>8. ASSUME "writedsd" \in hit
      PROVE  main.result # "OK" /\ bufs.dsd = Len(queue.fifo) + HeldByReader + L
  BY <1>4, <1>8 DEF LeftInv
<1>9. ASSUME "writedsd" \in hit, main'.result # "OK", main'.j = main.j,
             pipe'.decoder = pipe.decoder, bufs'.dsd = bufs.dsd,
             queue'.fifo = queue.fifo, HeldByReader' = HeldByReader
      PROVE  /\ main'.result # "OK"
             /\ bufs'.dsd = Len(queue'.fifo) + HeldByReader' + PerFrame' * (main'.j - 1)
  BY <1>6, <1>8, <1>9
<1>10. CASE Run
  BY <1>10, <1>3, RunIs
<1>11. CASE OpenSink
  BY <1>11, <1>3, OpenSinkIs
<1>12. CASE SetRunning
  BY <1>12, <1>3, SetRunningIs
<1>13. CASE NextTrack
  BY <1>13, <1>3, NextTrackIs
<1>14. CASE TrackStart
  BY <1>14, <1>3, TrackStartIs
<1>15. CASE CreateReader
  BY <1>15, <1>3, CreateReaderIs
<1>16. CASE Loop
  BY <1>16, <1>3, LoopIs
<1>17. CASE Pop
  <2>1. main.pc = "pop" /\ hit' = hit
    BY <1>17, PopIs
  <2> QED
    BY <2>1, <1>3
<1>18. CASE Empty
  BY <1>18, <1>3, EmptyIs
<1>19. CASE Decode
  <2>1. main.pc = "decode" /\ (hit' = hit \/ hit' = hit \union {"decode"} \/ hit' = hit \union {"alloc"})
    BY <1>19, DecodeIs, Zenon
  <2>2. "writedsd" \in hit
    BY <2>1
  <2> QED
    BY <2>1, <2>2, <1>3
<1>20. CASE DsdWritten
  BY <1>20, <1>3, DsdWrittenIs
<1>21. CASE Convert
  BY <1>21, <1>3, ConvertIs
<1>22. CASE PcmWritten
  BY <1>22, <1>3, PcmWrittenIs
<1>23. CASE Release
  <2>1. main.pc = "release" /\ (hit' = hit \/ hit' = hit \union {"abort"})
    BY <1>23, ReleaseIs, Zenon
  <2>2. "writedsd" \in hit
    BY <2>1
  <2> QED
    BY <2>1, <2>2, <1>3
<1>24. CASE WritePcm
  <2>1. main.pc = "pcm" /\ main.j <= N /\ (WriteOK("PCM") \/ WriteFails("PCM", "writepcm"))
    BY <1>24, WritePcmIs, Zenon
  <2>2. main.track \in 1..Tracks
    BY <2>1 DEF MainInv
  <2>3. hit' \in {hit, hit \union {"writepcm"}}
    BY <2>1, <2>2, WriteIs
  <2> QED
    BY <2>1, <2>3, <1>3
<1>25. CASE WriteDsd
  <2>1. /\ main.pc = "dsd" /\ main.j <= N /\ UNCHANGED <<pipe, queue, reader>>
        /\ \/ WriteOK(Format)
           \/ /\ main'.result = "WRITE" /\ main'.j = main.j
              /\ bufs'.dsd = bufs.dsd - PerFrame * (N - main.j + 1)
    BY <1>25, WriteDsdIs, Zenon
  <2>2. "writedsd" \notin hit
    BY <2>1, <1>3
  <2>3. ~WriteOK(Format)
    BY <2>2 DEF WriteOK
  <2>4. PICK P, Q : P = PerFrame * N /\ Q = PerFrame * (N - main.j + 1)
    OBVIOUS
  <2>5. P \in Int /\ Q \in Int /\ P = Q + L
    <3>1. CASE PerFrame = 1
      BY <1>1, <1>4, <2>4, <3>1
    <3>2. CASE PerFrame = 2
      BY <1>1, <1>4, <2>4, <3>2
    <3> QED
      BY <1>1, <3>1, <3>2
  <2>6. bufs.dsd = Len(queue.fifo) + HeldByReader + P
    BY <2>1, <2>2, <2>4 DEF BufInv, HeldByMain
  <2>7. /\ main'.result = "WRITE" /\ bufs'.dsd = bufs.dsd - Q /\ queue'.fifo = queue.fifo
        /\ HeldByReader' = HeldByReader /\ PerFrame' * (main'.j - 1) = L
    BY <2>1, <2>3, <2>4, <1>6, <1>7
  <2>8. bufs'.dsd = Len(queue'.fifo) + HeldByReader' + L
    BY <1>1, <1>2, <1>5, <2>5, <2>6, <2>7
  <2> QED
    BY <2>7, <2>8
<1>26. CASE Clean
  <2>1. /\ "writedsd" \in hit /\ main'.j = main.j /\ (main.result # "OK" => main'.result # "OK")
        /\ pipe'.decoder = pipe.decoder /\ bufs' = bufs /\ queue'.fifo = queue.fifo
        /\ reader'.pc = reader.pc
    BY <1>26, CleanIs
  <2> QED
    BY <2>1, <1>7, <1>8, <1>9
<1>27. CASE CancelReader
  <2>1. /\ "writedsd" \in hit /\ main'.j = main.j /\ (main.result # "OK" => main'.result # "OK")
        /\ pipe'.decoder = pipe.decoder /\ bufs' = bufs /\ queue'.fifo = queue.fifo
        /\ reader'.pc = reader.pc
    BY <1>27, CancelReaderIs
  <2> QED
    BY <2>1, <1>7, <1>8, <1>9
<1>28. CASE CancelQueue
  <2>1. /\ "writedsd" \in hit /\ main'.j = main.j /\ (main.result # "OK" => main'.result # "OK")
        /\ pipe'.decoder = pipe.decoder /\ bufs' = bufs /\ queue'.fifo = queue.fifo
        /\ reader'.pc = reader.pc
    BY <1>28, CancelQueueIs
  <2> QED
    BY <2>1, <1>7, <1>8, <1>9
<1>29. CASE WaitReader
  <2>1. /\ "writedsd" \in hit /\ main'.j = main.j /\ (main.result # "OK" => main'.result # "OK")
        /\ pipe'.decoder = pipe.decoder /\ bufs' = bufs /\ queue'.fifo = queue.fifo
        /\ reader'.pc = reader.pc
    BY <1>29, WaitReaderIs
  <2> QED
    BY <2>1, <1>7, <1>8, <1>9
<1>30. CASE ShutdownQueue
  <2>1. /\ "writedsd" \in hit /\ main'.j = main.j /\ (main.result # "OK" => main'.result # "OK")
        /\ pipe'.decoder = pipe.decoder /\ bufs' = bufs /\ queue'.fifo = queue.fifo
        /\ reader'.pc = reader.pc
    BY <1>30, ShutdownQueueIs
  <2> QED
    BY <2>1, <1>7, <1>8, <1>9
<1>31. CASE TrackEnd
  <2>1. /\ "writedsd" \in hit /\ main'.j = main.j /\ (main.result # "OK" => main'.result # "OK")
        /\ pipe'.decoder = pipe.decoder /\ bufs' = bufs /\ queue'.fifo = queue.fifo
        /\ reader'.pc = reader.pc
    BY <1>31, TrackEndIs
  <2> QED
    BY <2>1, <1>7, <1>8, <1>9
<1>32. CASE Finalize
  <2>1. /\ "writedsd" \in hit /\ main'.j = main.j /\ (main.result # "OK" => main'.result # "OK")
        /\ pipe'.decoder = pipe.decoder /\ bufs' = bufs /\ queue'.fifo = queue.fifo
        /\ reader'.pc = reader.pc
    BY <1>32, FinalizeIs
  <2> QED
    BY <2>1, <1>7, <1>8, <1>9
<1>33. CASE Cancel
  <2>1. /\ "writedsd" \in hit /\ main'.j = main.j /\ (main.result # "OK" => main'.result # "OK")
        /\ pipe'.decoder = pipe.decoder /\ bufs' = bufs /\ queue'.fifo = queue.fifo
        /\ reader'.pc = reader.pc
    BY <1>33, CancelIs
  <2> QED
    BY <2>1, <1>7, <1>8, <1>9
<1>34. CASE Join
  <2>1. /\ "writedsd" \in hit /\ main'.j = main.j /\ main'.result = main.result
        /\ pipe'.decoder = pipe.decoder /\ queue'.fifo = <<>> /\ reader'.pc = reader.pc
        /\ bufs'.dsd = bufs.dsd - Len(queue.fifo) /\ Len(<<>>) = 0
    BY <1>34, JoinIs
  <2> QED
    BY <2>1, <1>1, <1>2, <1>5, <1>6, <1>7, <1>8
<1>35. CASE RTake
  <2>1. /\ "writedsd" \in hit /\ main' = main /\ pipe' = pipe /\ bufs' = bufs
        /\ queue'.fifo = queue.fifo
        /\ reader.pc \notin {"read", "push"} /\ reader'.pc \notin {"read", "push"}
    BY <1>35, RTakeIs
  <2>2. HeldByReader' = HeldByReader
    BY <2>1 DEF HeldByReader
  <2> QED
    BY <2>1, <2>2, <1>8, <1>9
<1>36. CASE RSeek
  <2>1. /\ "writedsd" \in hit /\ main' = main /\ pipe' = pipe /\ bufs' = bufs
        /\ queue'.fifo = queue.fifo
        /\ reader.pc \notin {"read", "push"} /\ reader'.pc \notin {"read", "push"}
    <3>1. /\ main' = main /\ pipe' = pipe /\ bufs' = bufs /\ queue' = queue
          /\ reader.pc = "seek" /\ reader'.pc \in {"check", "seekeof"}
          /\ (hit' = hit \/ hit' = hit \union {"seek"})
      BY <1>36, RSeekIs, Zenon
    <3>2. "writedsd" \in hit
      BY <3>1
    <3> QED
      BY <3>1, <3>2
  <2>2. HeldByReader' = HeldByReader
    BY <2>1 DEF HeldByReader
  <2> QED
    BY <2>1, <2>2, <1>8, <1>9
<1>37. CASE RFinish
  <2>1. /\ "writedsd" \in hit /\ main' = main /\ pipe' = pipe /\ bufs' = bufs
        /\ queue'.fifo = queue.fifo
        /\ reader.pc \notin {"read", "push"} /\ reader'.pc \notin {"read", "push"}
    BY <1>37, RFinishIs
  <2>2. HeldByReader' = HeldByReader
    BY <2>1 DEF HeldByReader
  <2> QED
    BY <2>1, <2>2, <1>8, <1>9
<1>38. CASE REof
  <2>1. /\ "writedsd" \in hit /\ main' = main /\ pipe' = pipe /\ bufs' = bufs
        /\ queue'.fifo = queue.fifo
        /\ reader.pc \notin {"read", "push"} /\ reader'.pc \notin {"read", "push"}
    BY <1>38, REofIs
  <2>2. HeldByReader' = HeldByReader
    BY <2>1 DEF HeldByReader
  <2> QED
    BY <2>1, <2>2, <1>8, <1>9
<1>39. CASE RStop
  <2>1. /\ "writedsd" \in hit /\ main' = main /\ pipe' = pipe /\ bufs' = bufs
        /\ queue'.fifo = queue.fifo
        /\ reader.pc \notin {"read", "push"} /\ reader'.pc \notin {"read", "push"}
    BY <1>39, RStopIs
  <2>2. HeldByReader' = HeldByReader
    BY <2>1 DEF HeldByReader
  <2> QED
    BY <2>1, <2>2, <1>8, <1>9
<1>40. CASE RStopQueue
  <2>1. /\ "writedsd" \in hit /\ main' = main /\ pipe' = pipe /\ bufs' = bufs
        /\ queue'.fifo = queue.fifo
        /\ reader.pc \notin {"read", "push"} /\ reader'.pc \notin {"read", "push"}
    BY <1>40, RStopQueueIs
  <2>2. HeldByReader' = HeldByReader
    BY <2>1 DEF HeldByReader
  <2> QED
    BY <2>1, <2>2, <1>8, <1>9
<1>41. CASE RReset
  <2>1. /\ reader.pc = "reset" /\ reader'.pc = "seek" /\ main' = main /\ pipe' = pipe
        /\ "writedsd" \in hit /\ queue' = NewQueue
        /\ bufs'.dsd = bufs.dsd - Len(queue.fifo)
    BY <1>41, RResetIs
  <2>2. HeldByReader = 0 /\ HeldByReader' = 0 /\ Len(queue'.fifo) = 0
    BY <2>1, NewIs DEF HeldByReader
  <2> QED
    BY <2>1, <2>2, <1>1, <1>5, <1>6, <1>8
<1>42. CASE RCheck
  <2>1. /\ reader.pc = "check" /\ main' = main /\ pipe' = pipe /\ "writedsd" \in hit
        /\ queue' = queue
        /\ \/ reader'.pc = "read" /\ bufs'.dsd = bufs.dsd + 1
           \/ reader'.pc \in {"stop", "eof"} /\ bufs'.dsd = bufs.dsd
    <3>1. /\ reader.pc = "check" /\ main' = main /\ pipe' = pipe /\ queue' = queue
          /\ (hit' = hit \/ hit' = hit \union {"alloc"})
          /\ \/ reader'.pc = "read" /\ bufs'.dsd = bufs.dsd + 1
             \/ reader'.pc \in {"stop", "eof"} /\ bufs' = bufs
      BY <1>42, RCheckIs, Zenon
    <3>2. "writedsd" \in hit
      BY <3>1
    <3> QED
      BY <3>1, <3>2
  <2>2. HeldByReader = 0 /\ bufs'.dsd = bufs.dsd + HeldByReader' /\ HeldByReader' \in {0, 1}
    BY <2>1, <1>1 DEF HeldByReader
  <2>3. PerFrame' * (main'.j - 1) = L
    BY <2>1, <1>6
  <2>4. bufs'.dsd = Len(queue'.fifo) + HeldByReader' + L
    <3>1. bufs.dsd = Len(queue.fifo) + HeldByReader + L /\ queue' = queue
      BY <2>1, <1>8
    <3> QED
      BY <3>1, <2>2, <1>1, <1>5
  <2> QED
    BY <2>1, <2>3, <2>4, <1>8
<1>43. CASE RRead
  <2>1. /\ reader.pc = "read" /\ main' = main /\ pipe' = pipe /\ "writedsd" \in hit
        /\ queue' = queue
        /\ \/ reader'.pc = "push" /\ bufs'.dsd = bufs.dsd
           \/ reader'.pc = "eof" /\ bufs'.dsd = bufs.dsd - 1
    <3>1. /\ reader.pc = "read" /\ main' = main /\ pipe' = pipe /\ queue' = queue
          /\ (hit' = hit \/ hit' = hit \union {"short"} \/ hit' = hit \union {"read"})
          /\ \/ reader'.pc = "push" /\ bufs' = bufs
             \/ reader'.pc = "eof" /\ bufs'.dsd = bufs.dsd - 1
      BY <1>43, RReadIs, Zenon
    <3>2. "writedsd" \in hit
      BY <3>1
    <3> QED
      BY <3>1, <3>2
  <2>2. HeldByReader = 1 /\ bufs'.dsd = bufs.dsd + HeldByReader' - 1 /\ HeldByReader' \in {0, 1}
    BY <2>1, <1>1 DEF HeldByReader
  <2>3. PerFrame' * (main'.j - 1) = L
    BY <2>1, <1>6
  <2>4. bufs'.dsd = Len(queue'.fifo) + HeldByReader' + L
    <3>1. bufs.dsd = Len(queue.fifo) + HeldByReader + L /\ queue' = queue
      BY <2>1, <1>8
    <3> QED
      BY <3>1, <2>2, <1>1, <1>5
  <2> QED
    BY <2>1, <2>3, <2>4, <1>8
<1>44. CASE RPush
  <2>1. /\ reader.pc = "push" /\ reader'.pc \in {"finish", "check", "stop"}
        /\ main' = main /\ pipe' = pipe /\ "writedsd" \in hit
        /\ \/ queue'.fifo = Append(queue.fifo, reader.frame) /\ bufs'.dsd = bufs.dsd
           \/ queue' = queue /\ bufs'.dsd = bufs.dsd - 1
    BY <1>44, RPushIs
  <2>2. HeldByReader = 1 /\ HeldByReader' = 0
    BY <2>1 DEF HeldByReader
  <2>3. queue.fifo \in Seq(Frame) /\ reader.frame \in Frame
    BY Sizes
  <2>4. Len(Append(queue.fifo, reader.frame)) = Len(queue.fifo) + 1
    BY <2>3, AppendIs
  <2>5. PerFrame' * (main'.j - 1) = L
    BY <2>1, <1>6
  <2>6. bufs'.dsd = Len(queue'.fifo) + HeldByReader' + L
    <3>1. CASE queue'.fifo = Append(queue.fifo, reader.frame) /\ bufs'.dsd = bufs.dsd
      <4>1. Len(queue'.fifo) = Len(queue.fifo) + 1
        BY <3>1, <2>4
      <4> QED
        BY <4>1, <3>1, <2>1, <2>2, <1>1, <1>5, <1>8
    <3>2. CASE queue' = queue /\ bufs'.dsd = bufs.dsd - 1
      BY <3>2, <2>1, <2>2, <1>1, <1>5, <1>8
    <3> QED
      BY <2>1, <3>1, <3>2
  <2> QED
    BY <2>1, <2>5, <2>6, <1>8
<1>45. CASE UNCHANGED vars
  BY <1>45, <1>7, <1>8, <1>9 DEF vars
<1> QED
  BY <1>10, <1>11, <1>12, <1>13, <1>14, <1>15, <1>16, <1>17, <1>18, <1>19,
   <1>20, <1>21, <1>22, <1>23, <1>24, <1>25, <1>26, <1>27, <1>28, <1>29,
   <1>30, <1>31, <1>32, <1>33, <1>34, <1>35, <1>36, <1>37, <1>38, <1>39,
   <1>40, <1>41, <1>42, <1>43, <1>44, <1>45
     DEF Next, MainStep, ReaderStep

\* What a failed DSD write leaves in use, at all times.
LEMMA LeftAlways == Spec => []LeftInv
<1>1. Init => LeftInv
  BY DEF Init, LeftInv
<1>2. ControlInv /\ BufInv /\ LeftInv /\ [Next]_vars => LeftInv'
  BY LeftNext
<1> QED
  BY <1>1, <1>2, ThreadsInStep, BufAlways, PTL DEF Spec

(***************************************************************************)
(* When a run returns, whatever failed and whenever it was cancelled, every *)
(* buffer is back in its pool, but for those of the frames that a batch had *)
(* written before its DSD write failed; these are in use for good.          *)
(***************************************************************************)
THEOREM AllBuffersReturned == Spec => []BuffersReturned
<1>1. ControlInv /\ BufInv /\ LeftInv => BuffersReturned
  <2> SUFFICES ASSUME ControlInv, BufInv, LeftInv, Returned
               PROVE  bufs = [dsd |-> LeftOut, pcm |-> 0]
    BY DEF BuffersReturned
  <2>1. main.pc = "returned"
    BY DEF Returned
  <2>2. queue.fifo = <<>> /\ reader.pc = "exited"
    BY <2>1 DEF ControlInv, ThreadsInv, Active, Looping, Busy, Closing
  <2>3. Len(queue.fifo) = 0 /\ HeldByReader = 0 /\ HeldByMain = 0
    BY <2>1, <2>2 DEF HeldByReader, HeldByMain, Busy
  <2>4. bufs.pcm = 0 /\ ("writedsd" \notin hit => bufs.dsd = 0)
    BY <2>1, <2>3 DEF BufInv
  <2>5. "writedsd" \in hit => bufs.dsd = PerFrame * (main.j - 1)
    <3>1. main.j \in Int /\ PerFrame \in {1, 2}
      BY Sizes DEF ControlInv
    <3> QED
      BY <2>3, <3>1 DEF LeftInv
  <2>6. bufs \in [dsd : Int, pcm : Int]
    BY Zenon DEF ControlInv, Types
  <2> QED
    BY <2>4, <2>5, <2>6 DEF LeftOut
<1> QED
  BY <1>1, ThreadsInStep, BufAlways, LeftAlways, PTL

----------------------------------------------------------------------------
(* What the source hands out.                                              *)

Pairs == (1..Tracks) \X (1..Length)

\* A track begins after the frames of the tracks before it.
LEMMA HandedNone ==
    ASSUME NEW g \in Seq(Pairs), NEW t \in Int
    PROVE  /\ Earlier(g, t) => Handed(g, 0, t)
           /\ Earlier(<<>>, t) /\ TrackByTrack(<<>>)
<1>1. Len(g) \in Nat /\ Len(<<>>) = 0
  OBVIOUS
<1> QED
  BY <1>1 DEF Earlier, Handed, TrackByTrack

\* When a track is over, all the frames are of it or of tracks before it.
LEMMA HandedAll ==
    ASSUME NEW g \in Seq(Pairs), NEW p \in Nat, NEW t \in Int, Handed(g, p, t)
    PROVE  Earlier(g, t + 1)
<1> SUFFICES ASSUME NEW i \in 1..Len(g) PROVE g[i][1] < t + 1
  BY DEF Earlier
<1>1. Len(g) \in Nat /\ i \in Int /\ p <= Len(g)
  BY DEF Handed
<1>2. g[i] \in Pairs
  OBVIOUS
<1>3. g[i][1] \in 1..Tracks
  BY <1>2 DEF Pairs
<1>4. CASE i <= Len(g) - p
  <2>1. i \in 1..(Len(g) - p)
    BY <1>1, <1>4
  <2>2. g[i][1] < t
    BY <2>1 DEF Handed
  <2> QED
    BY <1>3, <2>2, PipelineConstants
<1>5. CASE ~(i <= Len(g) - p)
  <2>1. PICK m \in 1..p : i = Len(g) - p + m
    <3>1. i - (Len(g) - p) \in 1..p /\ i = Len(g) - p + (i - (Len(g) - p))
      BY <1>1, <1>5
    <3> QED
      BY <3>1
  <2>2. g[i] = <<t, m>>
    BY <2>1 DEF Handed
  <2> QED
    BY <2>2
<1> QED
  BY <1>4, <1>5

\* The next frame of the track follows the one before it.
LEMMA HandedNext ==
    ASSUME NEW g \in Seq(Pairs), NEW p \in Nat, NEW t \in 1..Tracks, p + 1 \in 1..Length,
           Handed(g, p, t), TrackByTrack(g)
    PROVE  /\ Append(g, <<t, p + 1>>) \in Seq(Pairs)
           /\ Handed(Append(g, <<t, p + 1>>), p + 1, t)
           /\ TrackByTrack(Append(g, <<t, p + 1>>))
<1>1. PICK e \in Pairs : e = <<t, p + 1>>
  BY DEF Pairs
<1>2. PICK h : h = Append(g, e)
  OBVIOUS
<1>3. /\ h \in Seq(Pairs) /\ Len(h) = Len(g) + 1 /\ Len(g) \in Nat
      /\ \A i \in 1..Len(g) : h[i] = g[i]
      /\ h[Len(g) + 1] = e
  BY <1>2, AppendIs
<1>4. p <= Len(g) /\ t \in Int
  BY DEF Handed
<1>5. Handed(h, p + 1, t)
  <2>1. p + 1 <= Len(h) /\ Len(h) - (p + 1) = Len(g) - p
    BY <1>3, <1>4
  <2>2. ASSUME NEW i \in 1..(Len(h) - (p + 1)) PROVE h[i][1] < t
    <3>1. i \in 1..(Len(g) - p) /\ i \in 1..Len(g)
      BY <1>3, <1>4, <2>1
    <3> QED
      BY <1>3, <3>1 DEF Handed
  <2>3. ASSUME NEW i \in 1..(p + 1) PROVE h[Len(h) - (p + 1) + i] = <<t, i>>
    <3>1. CASE i = p + 1
      <4>1. Len(h) - (p + 1) + i = Len(g) + 1
        BY <1>3, <1>4, <3>1
      <4> QED
        BY <1>1, <1>3, <3>1, <4>1
    <3>2. CASE i # p + 1
      <4>1. /\ i \in 1..p /\ Len(g) - p + i \in 1..Len(g)
            /\ Len(h) - (p + 1) + i = Len(g) - p + i
        BY <1>3, <1>4, <3>2
      <4>2. g[Len(g) - p + i] = <<t, i>>
        BY <4>1 DEF Handed
      <4> QED
        BY <1>3, <4>1, <4>2
    <3> QED
      BY <3>1, <3>2
  <2> QED
    BY <2>1, <2>2, <2>3 DEF Handed
<1>6. TrackByTrack(h)
  <2> SUFFICES ASSUME NEW i \in 1..Len(h)
               PROVE  IF h[i][2] = 1 THEN i > 1 => h[i - 1][1] < h[i][1]
                      ELSE i > 1 /\ h[i - 1] = <<h[i][1], h[i][2] - 1>>
    BY DEF TrackByTrack
  <2>1. CASE i \in 1..Len(g)
    <3>1. h[i] = g[i] /\ (i > 1 => h[i - 1] = g[i - 1])
      BY <1>3, <2>1
    <3>2. IF g[i][2] = 1 THEN i > 1 => g[i - 1][1] < g[i][1]
          ELSE i > 1 /\ g[i - 1] = <<g[i][1], g[i][2] - 1>>
      BY <2>1 DEF TrackByTrack
    <3> QED
      BY <3>1, <3>2, Zenon
  <2>2. CASE i = Len(g) + 1
    <3>1. h[i] = e /\ e[1] = t /\ e[2] = p + 1
      BY <1>1, <1>3, <2>2
    <3>2. Len(g) # 0 => h[i - 1] = g[Len(g)] /\ i - 1 = Len(g)
      BY <1>3, <2>2
    <3>3. CASE p = 0
      <4>1. i > 1 => g[Len(g)][1] < t
        BY <1>3, <2>2, <3>3 DEF Handed
      <4>2. i > 1 => Len(g) # 0
        BY <1>3, <2>2
      <4> QED
        BY <3>1, <3>2, <3>3, <4>1, <4>2
    <3>4. CASE p # 0
      <4>1. p \in 1..p /\ Len(g) - p + p = Len(g) /\ Len(g) # 0 /\ i > 1 /\ p + 1 # 1
        BY <1>3, <1>4, <2>2, <3>4
      <4>2. g[Len(g)] = <<t, p>>
        BY <4>1 DEF Handed
      <4>3. h[i - 1] = <<h[i][1], h[i][2] - 1>>
        <5>1. h[i][1] = t /\ h[i][2] - 1 = p
          BY <3>1
        <5>2. h[i - 1] = <<t, p>>
          BY <3>2, <4>1, <4>2
        <5> QED
          BY <5>1, <5>2
      <4> QED
        BY <3>1, <4>1, <4>3
    <3> QED
      BY <3>3, <3>4
  <2> QED
    BY <1>3, <2>1, <2>2
<1> QED
  BY <1>1, <1>2, <1>3, <1>5, <1>6

\* The source hands out the tracks one after the other, frame by frame.
LEMMA GivenNext == ControlInv /\ GivenInv /\ [Next]_vars => GivenInv'
<1> SUFFICES ASSUME ControlInv, GivenInv, [Next]_vars PROVE GivenInv'
  OBVIOUS
<1> USE DEF ControlInv, Looping, Active, Busy, Closing, Before
<1>1. /\ given \in Seq(Pairs) /\ reader.pos \in Nat /\ main.track \in Int
      /\ reader.pos \in 0..Length
  BY Sizes, PipelineConstants, SMTT(40) DEF Pairs
<1>2. CASE Run
  BY <1>2, RunIs DEF GivenInv
<1>3. CASE OpenSink
  BY <1>3, OpenSinkIs DEF GivenInv
<1>4. CASE SetRunning
  <2>1. /\ main.pc = "open" /\ main'.pc = "track" /\ given' = given /\ main'.track \in Int
    BY <1>4, SetRunningIs
  <2>2. given = <<>> /\ Earlier(<<>>, main'.track) /\ TrackByTrack(<<>>)
    BY <1>1, <2>1, HandedNone DEF GivenInv
  <2> QED
    BY <2>1, <2>2 DEF GivenInv
<1>5. CASE NextTrack
  BY <1>5, NextTrackIs DEF GivenInv
<1>6. CASE TrackStart
  BY <1>6, TrackStartIs DEF GivenInv
<1>7. CASE CreateReader
  <2>1. /\ main.pc = "tstart" /\ given' = given /\ main'.track = main.track
        /\ \/ main'.pc = "loop" /\ reader' = NewReader
           \/ main'.pc = "final"
    BY <1>7, CreateReaderIs
  <2>2. Handed(given, 0, main.track) /\ TrackByTrack(given)
    BY <1>1, <2>1, HandedNone DEF GivenInv
  <2> QED
    BY <2>1, <2>2, NewIs DEF GivenInv
<1>8. CASE Loop
  BY <1>8, LoopIs DEF GivenInv
<1>9. CASE Pop
  <2>1. /\ main.pc = "pop" /\ main'.pc \in {"empty", "decode"}
        /\ main'.track = main.track /\ UNCHANGED <<reader, given>>
    BY <1>9, PopIs, Zenon
  <2> QED
    BY <2>1 DEF GivenInv
<1>10. CASE Empty
  BY <1>10, EmptyIs DEF GivenInv
<1>11. CASE Decode
  BY <1>11, DecodeIs DEF GivenInv
<1>12. CASE WriteDsd
  BY <1>12, WriteDsdIs DEF GivenInv
<1>13. CASE DsdWritten
  BY <1>13, DsdWrittenIs DEF GivenInv
<1>14. CASE Convert
  BY <1>14, ConvertIs DEF GivenInv
<1>15. CASE WritePcm
  BY <1>15, WritePcmIs DEF GivenInv
<1>16. CASE PcmWritten
  BY <1>16, PcmWrittenIs DEF GivenInv
<1>17. CASE Release
  BY <1>17, ReleaseIs DEF GivenInv
<1>18. CASE Clean
  BY <1>18, CleanIs DEF GivenInv
<1>19. CASE CancelReader
  BY <1>19, CancelReaderIs DEF GivenInv
<1>20. CASE CancelQueue
  BY <1>20, CancelQueueIs DEF GivenInv
<1>21. CASE WaitReader
  BY <1>21, WaitReaderIs DEF GivenInv
<1>22. CASE ShutdownQueue
  BY <1>22, ShutdownQueueIs DEF GivenInv
<1>23. CASE Join
  <2>1. /\ main.pc = "join" /\ main'.pc \in {"final", "trackend"}
        /\ main'.track = main.track /\ given' = given
    BY <1>23, JoinIs, Zenon
  <2>2. Earlier(given, main.track + 1)
    BY <1>1, <2>1, HandedAll DEF GivenInv
  <2> QED
    BY <2>1, <2>2 DEF GivenInv
<1>24. CASE TrackEnd
  <2>1. /\ main.pc = "trackend" /\ given' = given
        /\ \/ main'.pc = "track" /\ main'.track = main.track + 1
           \/ main'.pc = "final"
    BY <1>24, TrackEndIs
  <2> QED
    BY <2>1 DEF GivenInv
<1>25. CASE Finalize
  BY <1>25, FinalizeIs DEF GivenInv
<1>26. CASE RTake
  BY <1>26, RTakeIs DEF GivenInv
<1>27. CASE RReset
  BY <1>27, RResetIs DEF GivenInv
<1>28. CASE RSeek
  <2>1. /\ reader.pc = "seek" /\ reader'.pos \in {0, reader.pos}
        /\ UNCHANGED <<main, given>>
    BY <1>28, RSeekIs
  <2>2. reader.pos = 0
    BY <2>1 DEF ReaderInv
  <2> QED
    BY <2>1, <2>2 DEF GivenInv
<1>29. CASE RCheck
  BY <1>29, RCheckIs DEF GivenInv
<1>30. CASE RRead
  <2>1. /\ reader.pc = "read" /\ main' = main
        /\ \/ /\ reader'.pos = reader.pos + 1
              /\ given' = Append(given, <<main.track, reader.pos + 1>>)
           \/ reader'.pos = reader.pos /\ given' = given
    BY <1>30, RReadIs, Zenon
  <2>2. main.pc \in Active /\ main.track \in 1..Tracks /\ reader.pos + 1 \in 1..Length
    BY <1>1, <2>1, PipelineConstants DEF ThreadsInv, ReaderInv, MainInv
  <2>3. CASE reader'.pos = reader.pos /\ given' = given
    BY <2>1, <2>3 DEF GivenInv
  <2>4. CASE /\ reader'.pos = reader.pos + 1
             /\ given' = Append(given, <<main.track, reader.pos + 1>>)
    <3>1. /\ Handed(Append(given, <<main.track, reader.pos + 1>>), reader.pos + 1, main.track)
          /\ TrackByTrack(Append(given, <<main.track, reader.pos + 1>>))
      BY <1>1, <2>2, HandedNext DEF GivenInv
    <3> QED
      BY <2>1, <2>2, <2>4, <3>1 DEF GivenInv
  <2> QED
    BY <2>1, <2>3, <2>4
<1>31. CASE RPush
  BY <1>31, RPushIs DEF GivenInv
<1>32. CASE RFinish
  BY <1>32, RFinishIs DEF GivenInv
<1>33. CASE REof
  BY <1>33, REofIs DEF GivenInv
<1>34. CASE RStop
  BY <1>34, RStopIs DEF GivenInv
<1>35. CASE RStopQueue
  BY <1>35, RStopQueueIs DEF GivenInv
<1>36. CASE Cancel
  BY <1>36, CancelIs DEF GivenInv
<1>37. CASE UNCHANGED vars
  BY <1>37 DEF GivenInv, vars
<1> QED
  BY <1>2, <1>3, <1>4, <1>5, <1>6, <1>7, <1>8, <1>9, <1>10, <1>11, <1>12,
   <1>13, <1>14, <1>15, <1>16, <1>17, <1>18, <1>19, <1>20, <1>21, <1>22,
   <1>23, <1>24, <1>25, <1>26, <1>27, <1>28, <1>29, <1>30, <1>31, <1>32,
   <1>33, <1>34, <1>35, <1>36, <1>37
     DEF Next, MainStep, ReaderStep

\* What the source has handed out, at all times.
LEMMA GivenAlways == Spec => []GivenInv
<1>1. Init => GivenInv
  BY DEF Init, GivenInv, TrackByTrack, Active, Looping, Closing, Busy
<1>2. ControlInv /\ GivenInv /\ [Next]_vars => GivenInv'
  BY GivenNext
<1> QED
  BY <1>1, <1>2, ThreadsInStep, PTL DEF Spec

----------------------------------------------------------------------------
(* Prefixes.                                                               *)

\* A prefix agrees with the sequence, place by place.
LEMMA PrefixIs ==
    ASSUME NEW S, NEW a \in Seq(S), NEW b \in Seq(S)
    PROVE  /\ Len(a) \in Nat /\ Len(b) \in Nat
           /\ IsPrefix(a, b) <=> Len(a) <= Len(b) /\ \A i \in 1..Len(a) : a[i] = b[i]
<1>1. Len(a) \in Nat /\ Len(b) \in Nat
  OBVIOUS
<1>2. CASE Len(a) <= Len(b)
  <2>1. /\ SubSeq(a, 1, Len(a)) \in Seq(S) /\ SubSeq(b, 1, Len(a)) \in Seq(S)
        /\ Len(SubSeq(a, 1, Len(a))) = Len(a) /\ Len(SubSeq(b, 1, Len(a))) = Len(a)
        /\ \A i \in 1..Len(a) : SubSeq(a, 1, Len(a))[i] = a[i]
        /\ \A i \in 1..Len(a) : SubSeq(b, 1, Len(a))[i] = b[i]
    BY <1>1, <1>2
  <2>2. ASSUME \A i \in 1..Len(a) : a[i] = b[i]
        PROVE  SubSeq(a, 1, Len(a)) = SubSeq(b, 1, Len(a))
    <3>1. PICK x, y : x = SubSeq(a, 1, Len(a)) /\ y = SubSeq(b, 1, Len(a))
      OBVIOUS
    <3>2. /\ x \in Seq(S) /\ y \in Seq(S) /\ Len(x) = Len(y)
          /\ \A i \in 1..Len(x) : x[i] = y[i]
      BY <2>1, <2>2, <3>1
    <3> QED
      BY <3>1, <3>2, SeqEqual
  <2>3. ASSUME SubSeq(a, 1, Len(a)) = SubSeq(b, 1, Len(a)), NEW i \in 1..Len(a)
        PROVE  a[i] = b[i]
    BY <2>1, <2>3
  <2> QED
    BY <1>1, <1>2, <2>2, <2>3 DEF IsPrefix
<1>3. CASE ~(Len(a) <= Len(b))
  BY <1>1, <1>3 DEF IsPrefix
<1> QED
  BY <1>1, <1>2, <1>3

\* How a prefix and the sequence may grow.
LEMMA PrefixGrows ==
    ASSUME NEW S, NEW a \in Seq(S), NEW b \in Seq(S), NEW e \in S, IsPrefix(a, b)
    PROVE  /\ IsPrefix(a, Append(b, e))
           /\ Len(a) < Len(b) /\ b[Len(a) + 1] = e => IsPrefix(Append(a, e), b)
           /\ Len(a) = Len(b) => a = b
<1>1. /\ Len(a) \in Nat /\ Len(b) \in Nat /\ Len(a) <= Len(b)
      /\ \A i \in 1..Len(a) : a[i] = b[i]
  BY PrefixIs
<1>2. PICK x, y : x = Append(a, e) /\ y = Append(b, e)
  OBVIOUS
<1>3. /\ x \in Seq(S) /\ Len(x) = Len(a) + 1 /\ x[Len(a) + 1] = e
      /\ \A i \in 1..Len(a) : x[i] = a[i]
      /\ y \in Seq(S) /\ Len(y) = Len(b) + 1
      /\ \A i \in 1..Len(b) : y[i] = b[i]
  BY <1>2, AppendIs
<1>4. IsPrefix(a, y)
  <2>1. Len(a) <= Len(y) /\ \A i \in 1..Len(a) : a[i] = y[i]
    BY <1>1, <1>3
  <2> QED
    BY <1>3, <2>1, PrefixIs
<1>5. ASSUME Len(a) < Len(b), b[Len(a) + 1] = e PROVE IsPrefix(x, b)
  <2>1. Len(x) <= Len(b)
    BY <1>1, <1>3, <1>5
  <2>2. ASSUME NEW i \in 1..Len(x) PROVE x[i] = b[i]
    <3>1. CASE i = Len(a) + 1
      BY <1>3, <1>5, <3>1
    <3>2. CASE i # Len(a) + 1
      BY <1>1, <1>3, <3>2
    <3> QED
      BY <3>1, <3>2
  <2> QED
    BY <1>3, <2>1, <2>2, PrefixIs
<1>6. Len(a) = Len(b) => a = b
  BY <1>1, SeqEqual
<1> QED
  BY <1>2, <1>4, <1>5, <1>6

\* Only the empty sequence is a prefix of the empty sequence.
LEMMA PrefixOfNone ==
    ASSUME NEW S, NEW a \in Seq(S), NEW b \in Seq(S), b = <<>>
    PROVE  IsPrefix(a, b) <=> a = b
<1>1. Len(b) = 0 /\ Len(a) \in Nat /\ (Len(a) = 0 => a = <<>>)
  OBVIOUS
<1>2. IsPrefix(a, b) => Len(a) <= Len(b)
  BY PrefixIs
<1>3. IsPrefix(a, b) => a = b
  BY <1>1, <1>2
<1>4. a = b => Len(a) <= Len(b) /\ \A i \in 1..Len(a) : a[i] = b[i]
  BY <1>1
<1>5. a = b => IsPrefix(a, b)
  BY <1>4, PrefixIs
<1> QED
  BY <1>3, <1>5

----------------------------------------------------------------------------
(* The way of the frames.                                                  *)

\* The sinks that are fed are those whose needs the pipeline has seen, and no
\* sink is fed in two formats.
LEMMA FedSinks ==
    ASSUME setup \in Setups
    PROVE  /\ Format \in {"DSD", "DST"}
           /\ \A k \in Accepting(Format) : k \in Sinks /\ k \notin Accepting("PCM")
           /\ \A k \in Accepting("PCM") : k \in Sinks /\ k \notin Accepting(Format)
           /\ ~needs_dsd => Accepting(Format) = {}
           /\ ~needs_pcm => Accepting("PCM") = {}
<1>1. /\ setup.src \in {"DSD", "DST"}
      /\ \A k \in Sinks : setup.caps[k] \in Capabilities
  BY SetupFacts
<1>2. Format \in {"DSD", "DST"}
  BY <1>1 DEF Format
<1>3. \A k \in Sinks : /\ "PCM" \in setup.caps[k] =>
                            "DSD" \notin setup.caps[k] /\ "DST" \notin setup.caps[k]
                       /\ "DST" \in setup.caps[k] => "DSD" \in setup.caps[k]
  BY <1>1 DEF Capabilities
<1> QED
  BY <1>2, <1>3 DEF Accepting, needs_dsd, needs_pcm

\* The numbers in Flow.
LEMMA FlowNumbers ==
    ASSUME ControlInv, main.pc \in Looping, NEW c \in 0..Length, Flow(c)
    PROVE  /\ Batch \in Nat /\ Base \in Int /\ Pushing \in {0, 1} /\ Len(queue.fifo) \in Nat
           /\ InBatch(Batch) \in Nat /\ InBatch(Batch) <= Batch /\ InQueue \in Nat
           /\ N \in Nat /\ (main.pc \in Busy => Batch = N) /\ (main.pc \notin Busy => Batch = 0)
           /\ ~main.complete => InBatch(Batch) = Batch
           /\ main.complete => queue.fifo = <<>> /\ InQueue = 0
           /\ Reading => ~main.complete /\ InQueue = Len(queue.fifo)
           /\ \A i \in 0..(Batch - 1) : InBatch(i) = i
           /\ \A i \in 1..Batch : main.batch[i] # 0 => main.batch[i] = c + i /\ i <= InBatch(Batch)
           /\ \A i \in 1..Batch : main.batch[i] = 0 => i = Batch
<1>1. /\ N \in Nat /\ Len(queue.fifo) \in Nat /\ DOMAIN queue.fifo = 1..Len(queue.fifo)
      /\ queue.fifo \in Seq(Frame)
      /\ given \in Seq((1..Tracks) \X (1..Length)) /\ reader.pos \in 0..Length
  BY Sizes, PipelineConstants DEF ControlInv
<1>2. /\ Base \in Int /\ Pushing \in {0, 1} /\ Batch \in Nat
      /\ (main.pc \in Busy => Batch = N) /\ (main.pc \notin Busy => Batch = 0)
  BY <1>1, PipelineConstants DEF Base, Pushing, Batch
<1>3. c \in Nat
  BY PipelineConstants
<1>4. ASSUME NEW i \in 1..Batch, main.batch[i] # 0 PROVE main.batch[i] = c + i
  BY <1>4 DEF Flow, BatchAfter
<1>5. ASSUME NEW i \in 1..Batch, main.batch[i] = 0 PROVE i = Batch /\ main.complete
  <2>1. main.batch[i] # c + i
    BY <1>2, <1>3, <1>5
  <2>2. i = N /\ main.complete
    BY <1>5, <2>1 DEF Flow, BatchAfter
  <2> QED
    BY <1>2, <2>2
<1>6. \A i \in 0..(Batch - 1) : InBatch(i) = i
  BY <1>2, <1>5 DEF InBatch
<1>7. /\ InBatch(Batch) \in Nat /\ InBatch(Batch) <= Batch
      /\ ~main.complete => InBatch(Batch) = Batch
  <2>1. Batch > 0 => Batch \in 1..Batch
    BY <1>2
  <2> QED
    BY <1>2, <1>5, <2>1 DEF InBatch
<1>8. ASSUME NEW i \in 1..Batch, main.batch[i] # 0 PROVE i <= InBatch(Batch)
  <2>1. CASE Batch > 0 /\ main.batch[Batch] = 0
    BY <1>2, <1>8, <2>1 DEF InBatch
  <2>2. CASE ~(Batch > 0 /\ main.batch[Batch] = 0)
    BY <1>2, <1>8, <2>2 DEF InBatch
  <2> QED
    BY <2>1, <2>2
<1>9. main.complete => queue.fifo = <<>> /\ InQueue = 0
  <2>1. main.complete => queue.fifo = <<>>
    BY DEF ControlInv, LastInv, Active
  <2> QED
    BY <2>1 DEF InQueue
<1>10. InQueue \in Nat
  <2>1. queue.fifo # <<>> => Len(queue.fifo) > 0
    BY <1>1
  <2> QED
    BY <1>1, <2>1 DEF InQueue
<1>11. Reading => ~main.complete /\ InQueue = Len(queue.fifo)
  <2> SUFFICES ASSUME Reading PROVE ~main.complete /\ InQueue = Len(queue.fifo)
    OBVIOUS
  <2>1. ~main.complete /\ \A i \in 1..Len(queue.fifo) : ~queue.fifo[i].last
    BY <1>1 DEF ControlInv, LastInv, Active
  <2>2. ASSUME NEW i \in 1..Len(queue.fifo) PROVE queue.fifo[i].n # 0
    <3>1. queue.fifo[i].n = c + Batch + i
      BY <2>1 DEF Flow, QueueAfter
    <3> QED
      BY <1>2, <1>3, <3>1
  <2>3. queue.fifo # <<>> => Len(queue.fifo) \in 1..Len(queue.fifo)
    BY <1>1
  <2> QED
    BY <2>1, <2>2, <2>3 DEF InQueue
<1> QED
  BY <1>1, <1>2, <1>4, <1>5, <1>6, <1>7, <1>8, <1>9, <1>10, <1>11

\* A step that leaves the batch, the queue, the logs and the position alone.
LEMMA FlowQuiet ==
    ASSUME NEW c, Flow(c), UNCHANGED <<setup, main>>, pipe'.decoder = pipe.decoder,
           queue'.fifo = queue.fifo, Base' = Base, reader'.pos = reader.pos,
           Pushing' = Pushing, \A k \in Sinks : sinks'[k].log = sinks[k].log
    PROVE  Flow(c)'
<1>1. Batch' = Batch /\ WrittenDsd' = WrittenDsd /\ WrittenPcm' = WrittenPcm
  BY Zenon DEF Batch, N, WrittenDsd, WrittenPcm, InBatch
<1>2. InBatch(Batch)' = InBatch(Batch) /\ InQueue' = InQueue
  BY <1>1, Zenon DEF InBatch, InQueue
<1>3. BatchAfter(c)' /\ QueueAfter(c + Batch)'
  BY <1>1, Zenon DEF Flow, BatchAfter, QueueAfter, N
<1>4. Format' = Format
  BY Zenon DEF Format
<1>5. Accepting(Format)' = Accepting(Format) /\ Accepting("PCM")' = Accepting("PCM")
  BY <1>4, Zenon DEF Accepting, Sinks
<1>6. \A f : Accepting(f) \subseteq Sinks
  BY DEF Accepting
<1>7. /\ \A k \in Accepting(Format)' : Len(sinks'[k].log) = Base' + c + WrittenDsd'
      /\ \A k \in Accepting("PCM")' : Len(sinks'[k].log) = Base' + c + WrittenPcm'
  BY <1>1, <1>5, <1>6, Zenon DEF Flow
<1>8. reader'.pos = c + InBatch(Batch)' + InQueue' + Pushing'
  BY <1>2, Zenon DEF Flow
<1> QED
  BY <1>3, <1>7, <1>8, Zenon DEF Flow

\* A step of the main thread within a batch.
LEMMA FlowStep ==
    ASSUME NEW c, Flow(c), main.pc \in Busy, main'.pc \in Busy, main'.batch = main.batch,
           main'.complete = main.complete, UNCHANGED <<setup, queue, reader, given>>,
           pipe'.decoder = pipe.decoder,
           \A k \in Accepting(Format) : Len(sinks'[k].log) = Base + c + WrittenDsd',
           \A k \in Accepting("PCM") : Len(sinks'[k].log) = Base + c + WrittenPcm'
    PROVE  Flow(c)'
<1>1. Batch' = Batch /\ Base' = Base /\ Pushing' = Pushing
  BY Zenon DEF Batch, N, Base, Pushing
<1>2. InBatch(Batch)' = InBatch(Batch) /\ InQueue' = InQueue
  BY <1>1, Zenon DEF InBatch, InQueue
<1>3. BatchAfter(c)' /\ QueueAfter(c + Batch)'
  BY <1>1, Zenon DEF Flow, BatchAfter, QueueAfter, N
<1>4. Format' = Format
  BY Zenon DEF Format
<1>5. Accepting(Format)' = Accepting(Format) /\ Accepting("PCM")' = Accepting("PCM")
  BY <1>4, Zenon DEF Accepting, Sinks
<1>6. /\ \A k \in Accepting(Format)' : Len(sinks'[k].log) = Base' + c + WrittenDsd'
      /\ \A k \in Accepting("PCM")' : Len(sinks'[k].log) = Base' + c + WrittenPcm'
  BY <1>1, <1>5, Zenon
<1>7. reader'.pos = c + InBatch(Batch)' + InQueue' + Pushing'
  BY <1>1, <1>2, Zenon DEF Flow
<1> QED
  BY <1>3, <1>6, <1>7, Zenon DEF Flow

\* A step that leaves the logs and what was handed out alone.
LEMMA LogsSame ==
    ASSUME setup' = setup, given' = given, \A k \in Sinks : sinks'[k].log = sinks[k].log
    PROVE  /\ InSourceOrder => InSourceOrder'
           /\ pipe'.decoder = pipe.decoder /\ AllWritten => AllWritten'
<1>1. Sinks' = Sinks
  BY Zenon DEF Sinks
<1>2. InSourceOrder => InSourceOrder'
  BY <1>1, Zenon DEF InSourceOrder
<1>3. ASSUME pipe'.decoder = pipe.decoder, AllWritten PROVE AllWritten'
  <2>1. Format' = Format
    BY <1>3, Zenon DEF Format
  <2>2. Accepting(Format)' = Accepting(Format) /\ Accepting("PCM")' = Accepting("PCM")
    BY <1>1, <2>1, Zenon DEF Accepting
  <2>3. \A f : Accepting(f) \subseteq Sinks
    BY DEF Accepting
  <2> QED
    BY <1>3, <2>2, <2>3, Zenon DEF AllWritten
<1> QED
  BY <1>2, <1>3

\* The logs are sequences of what the source hands out.
LEMMA LogsAre ==
    ASSUME Types
    PROVE  /\ given \in Seq(Pairs) /\ Len(given) \in Nat
           /\ \A k \in Sinks : sinks[k].log \in Seq(Pairs) /\ Len(sinks[k].log) \in Nat
<1>1. given \in Seq(Pairs) /\ sinks \in [Sinks -> SinkType]
  BY Zenon DEF Types, Pairs
<1>2. \A k \in Sinks : sinks[k].log \in Seq(Pairs)
  BY <1>1, Zenon DEF SinkType, Pairs
<1> QED
  BY <1>1, <1>2

\* When the last batch of a track is written, the sinks have everything.
LEMMA FlowDone ==
    ASSUME ControlInv, InSourceOrder, main.pc = "loop", main.complete,
           NEW c \in 0..Length, Flow(c)
    PROVE  AllWritten
<1> USE DEF Looping, Busy, Active
<1>1. /\ Batch = 0 /\ InQueue = 0 /\ Base \in Int /\ reader.pos \in Int /\ c \in Int
      /\ ~Reading /\ InBatch(Batch) = 0
  <2>1. main.pc \in Looping /\ main.pc \notin Busy
    OBVIOUS
  <2>2. Batch = 0 /\ InQueue = 0 /\ Base \in Int /\ ~Reading
    BY <2>1, FlowNumbers
  <2> QED
    BY <2>2, Sizes, PipelineConstants DEF InBatch, ControlInv
<1>2. Pushing = 0
  BY <1>1 DEF Pushing, Reading
<1>3. reader.pos = c
  BY <1>1, <1>2 DEF Flow
<1>4. WrittenDsd = 0 /\ WrittenPcm = 0
  BY DEF WrittenDsd, WrittenPcm
<1>5. Base + c + 0 = Len(given)
  BY <1>1, <1>3, LogsAre DEF Base, ControlInv
<1>6. ASSUME NEW k \in Accepting(Format) \union Accepting("PCM") PROVE sinks[k].log = given
  <2>1. k \in Sinks
    BY DEF Accepting
  <2>2. Len(sinks[k].log) = Len(given)
    BY <1>4, <1>5, <1>6 DEF Flow
  <2>3. IsPrefix(sinks[k].log, given)
    BY <2>1 DEF InSourceOrder
  <2>4. given \in Seq(Pairs) /\ sinks[k].log \in Seq(Pairs)
    BY <2>1, LogsAre DEF ControlInv
  <2>5. sinks[k].log # given => <<1, 1>> \in Pairs
    BY PipelineConstants DEF Pairs
  <2> QED
    BY <2>2, <2>3, <2>4, <2>5, PrefixGrows
<1> QED
  BY <1>6 DEF AllWritten

\* The loop goes on.
LEMMA FlowLoop ==
    ASSUME ControlInv, Loop, main'.pc = "pop", NEW c \in 0..Length, Flow(c)
    PROVE  Flow(c)'
<1>1. /\ main.pc = "loop" /\ main'.batch = main.batch /\ main'.complete = main.complete
      /\ UNCHANGED <<setup, pipe, sinks, queue, reader, given>>
  BY LoopIs, Zenon DEF ControlInv
<1>2. Batch = 0 /\ Batch' = 0 /\ Base' = Base /\ Pushing' = Pushing /\ InQueue' = InQueue
  BY <1>1 DEF Batch, Busy, Base, Pushing, InQueue
<1>3. InBatch(Batch)' = InBatch(Batch)
  BY <1>1, <1>2 DEF InBatch
<1>4. WrittenDsd = 0 /\ WrittenPcm = 0 /\ WrittenDsd' = 0 /\ WrittenPcm' = 0
  BY <1>1 DEF WrittenDsd, WrittenPcm
<1>5. Format' = Format
  BY <1>1 DEF Format
<1>6. Accepting(Format)' = Accepting(Format) /\ Accepting("PCM")' = Accepting("PCM")
  BY <1>1, <1>5 DEF Accepting, Sinks
<1>7. BatchAfter(c)' /\ QueueAfter(c + Batch)'
  <2>1. BatchAfter(c)'
    BY <1>2 DEF BatchAfter
  <2>2. QueueAfter(c + Batch)'
    BY <1>1, <1>2, Zenon DEF Flow, QueueAfter
  <2> QED
    BY <2>1, <2>2
<1>8. reader'.pos = c + InBatch(Batch)' + InQueue' + Pushing'
  BY <1>1, <1>2, <1>3, Zenon DEF Flow
<1>9. /\ \A k \in Accepting(Format)' : Len(sinks'[k].log) = Base' + c + WrittenDsd'
      /\ \A k \in Accepting("PCM")' : Len(sinks'[k].log) = Base' + c + WrittenPcm'
  BY <1>1, <1>2, <1>4, <1>6, Zenon DEF Flow
<1> QED
  BY <1>7, <1>8, <1>9, Zenon DEF Flow

\* A track begins.
LEMMA FlowCreate ==
    ASSUME ControlInv, AllWritten, CreateReader, main'.pc = "loop"
    PROVE  Flow(0)'
<1>1. /\ reader' = NewReader /\ queue' = NewQueue /\ UNCHANGED <<setup, pipe, sinks, given>>
  BY CreateReaderIs DEF ControlInv
<1>2. reader'.pos = 0 /\ reader'.pc = "wait" /\ queue'.fifo = <<>>
  BY <1>1, NewIs, Zenon
<1>3. Batch' = 0 /\ Base' = Len(given) /\ Len(given) \in Nat /\ Pushing' = 0 /\ InQueue' = 0
  BY <1>1, <1>2, LogsAre DEF Batch, Busy, Base, Pushing, InQueue, ControlInv
<1>4. InBatch(Batch)' = 0
  BY <1>3 DEF InBatch
<1>5. WrittenDsd' = 0 /\ WrittenPcm' = 0
  BY DEF WrittenDsd, WrittenPcm
<1>6. Format' = Format
  BY <1>1 DEF Format
<1>7. Accepting(Format)' = Accepting(Format) /\ Accepting("PCM")' = Accepting("PCM")
  BY <1>1, <1>6 DEF Accepting, Sinks
<1>8. BatchAfter(0)' /\ QueueAfter(0 + Batch)'
  BY <1>2, <1>3 DEF BatchAfter, QueueAfter
<1>9. reader'.pos = 0 + InBatch(Batch)' + InQueue' + Pushing'
  BY <1>2, <1>3, <1>4
<1>10. Base' + 0 + 0 = Len(given)
  BY <1>3
<1>11. \A k \in Accepting(Format) \union Accepting("PCM") : Len(sinks'[k].log) = Len(given)
  BY <1>1 DEF AllWritten
<1>12. /\ \A k \in Accepting(Format)' : Len(sinks'[k].log) = Base' + 0 + WrittenDsd'
       /\ \A k \in Accepting("PCM")' : Len(sinks'[k].log) = Base' + 0 + WrittenPcm'
  BY <1>5, <1>7, <1>10, <1>11
<1> QED
  BY <1>8, <1>9, <1>12, Zenon DEF Flow

\* A batch is done.
LEMMA FlowRelease ==
    ASSUME ControlInv, Release, main'.pc = "loop", NEW c \in 0..Length, Flow(c)
    PROVE  \E d \in 0..Length : Flow(d)'
<1>1. /\ main.pc = "release" /\ main'.batch = main.batch /\ main'.complete = main.complete
      /\ UNCHANGED <<setup, pipe, sinks, queue, reader, given>>
  BY ReleaseIs, Zenon DEF ControlInv
<1>2. main.pc \in Looping /\ main.pc \in Busy
  BY <1>1 DEF Looping, Busy
<1>3. PICK m, q, u, b : m = InBatch(N) /\ q = InQueue /\ u = Pushing /\ b = Base
  OBVIOUS
<1>4. /\ N \in Nat /\ Batch = N /\ m \in Nat /\ q \in Nat /\ u \in {0, 1} /\ b \in Int
      /\ ~main.complete => m = N
      /\ main.complete => queue.fifo = <<>>
  BY <1>2, <1>3, FlowNumbers
<1>5. reader.pos = c + m + q + u /\ c \in Nat /\ reader.pos \in 0..Length
  BY <1>3, <1>4, Sizes, PipelineConstants DEF Flow, ControlInv
<1>6. c + m \in 0..Length
  <2>1. reader.pos \in Int /\ reader.pos <= Length /\ Length \in Int /\ u >= 0 /\ u \in Int
    BY <1>4, <1>5, PipelineConstants
  <2> QED
    BY <1>4, <1>5, <2>1
<1>7. Batch' = 0 /\ Base' = b /\ Pushing' = u /\ InQueue' = q
  BY <1>1, <1>3 DEF Batch, Busy, Base, Pushing, InQueue
<1>8. InBatch(Batch)' = 0
  BY <1>7 DEF InBatch
<1>9. WrittenDsd = m /\ WrittenPcm = m /\ WrittenDsd' = 0 /\ WrittenPcm' = 0
  BY <1>1, <1>3 DEF WrittenDsd, WrittenPcm
<1>10. Format' = Format
  BY <1>1 DEF Format
<1>11. Accepting(Format)' = Accepting(Format) /\ Accepting("PCM")' = Accepting("PCM")
  BY <1>1, <1>10 DEF Accepting, Sinks
<1>12. BatchAfter(c + m)'
  BY <1>7 DEF BatchAfter
<1>13. QueueAfter(c + m + Batch)'
  <2>1. CASE main.complete
    BY <1>1, <1>4, <2>1 DEF QueueAfter
  <2>2. CASE ~main.complete
    <3>1. c + m + 0 = c + N
      BY <1>4, <1>5, <2>2
    <3>2. QueueAfter(c + N)
      BY <1>4 DEF Flow
    <3> QED
      BY <1>1, <1>7, <3>1, <3>2, Zenon DEF QueueAfter
  <2> QED
    BY <2>1, <2>2
<1>14. reader'.pos = (c + m) + InBatch(Batch)' + InQueue' + Pushing'
  BY <1>1, <1>4, <1>5, <1>7, <1>8
<1>15. b + c + m = b + (c + m) + 0
  BY <1>4, <1>5
<1>16. /\ \A k \in Accepting(Format) : Len(sinks[k].log) = b + c + m
       /\ \A k \in Accepting("PCM") : Len(sinks[k].log) = b + c + m
  BY <1>3, <1>9, Zenon DEF Flow
<1>17. /\ \A k \in Accepting(Format)' : Len(sinks'[k].log) = Base' + (c + m) + WrittenDsd'
       /\ \A k \in Accepting("PCM")' : Len(sinks'[k].log) = Base' + (c + m) + WrittenPcm'
  BY <1>1, <1>7, <1>9, <1>11, <1>15, <1>16, Zenon
<1>18. Flow(c + m)'
  BY <1>12, <1>13, <1>14, <1>17, Zenon DEF Flow
<1> QED
  BY <1>6, <1>18

\* Frames move from the queue to the batch.
LEMMA FlowPop ==
    ASSUME ControlInv, Pop, NEW c \in 0..Length, Flow(c)
    PROVE  Flow(c)'
<1>1. PICK n \in 0..MaxBatch :
        /\ main.pc = "pop" /\ n <= Len(queue.fifo)
        /\ ~queue.cancelled /\ queue.fifo # <<>> => n > 0
        /\ \A i \in 1..(n - 1) : ~queue.fifo[i].last
        /\ main'.pc = (IF n = 0 THEN "empty" ELSE "decode")
        /\ Len(main'.batch) = n
        /\ \A i \in 1..n : main'.batch[i] = queue.fifo[i].n
        /\ main'.complete <=> n > 0 /\ queue.fifo[n].last
        /\ queue'.fifo \in Seq(Frame) /\ Len(queue'.fifo) = Len(queue.fifo) - n
        /\ \A i \in 1..(Len(queue.fifo) - n) : queue'.fifo[i] = queue.fifo[n + i]
        /\ UNCHANGED <<setup, pipe, sinks, reader, given>>
  <2>1. Types
    BY DEF ControlInv
  <2> QED
    BY <2>1, PopIs, Zenon
<1>2. PICK q : q = queue.fifo
  OBVIOUS
<1>3. /\ q \in Seq(Frame) /\ Len(q) \in Nat /\ n \in Nat /\ c \in Nat /\ n <= Len(q)
      /\ Len(q) = 0 => q = <<>>
  BY <1>1, <1>2, Sizes, PipelineConstants DEF ControlInv
<1>4. Batch = 0 /\ Batch' = n /\ N' = n /\ Base' = Base /\ Pushing' = Pushing
  BY <1>1, <1>3 DEF Batch, N, Busy, Base, Pushing
<1>5. WrittenDsd = 0 /\ WrittenPcm = 0 /\ WrittenDsd' = 0 /\ WrittenPcm' = 0
  BY <1>1 DEF WrittenDsd, WrittenPcm
<1>6. Accepting(Format)' = Accepting(Format) /\ Accepting("PCM")' = Accepting("PCM")
  <2>1. Format' = Format
    BY <1>1 DEF Format
  <2> QED
    BY <1>1, <2>1 DEF Accepting, Sinks
<1>7. \A i \in 1..Len(q) : \/ q[i].n = c + i
                           \/ q[i].n = 0 /\ q[i].last
  <2>1. QueueAfter(c + 0) /\ c + 0 = c
    BY <1>3, <1>4 DEF Flow
  <2> QED
    BY <1>2, <2>1 DEF QueueAfter
<1>8. \A i \in 1..Len(q) : q[i].last => i = Len(q)
  BY <1>2, <1>3 DEF ControlInv, LastInv
<1>9. BatchAfter(c)'
  <2> SUFFICES ASSUME NEW i \in 1..n
               PROVE  \/ main'.batch[i] = c + i
                      \/ main'.batch[i] = 0 /\ i = n /\ main'.complete
    BY <1>4 DEF BatchAfter
  <2>1. i \in 1..Len(q) /\ (i # n => i \in 1..(n - 1))
    BY <1>3
  <2>2. main'.batch[i] = q[i].n /\ (q[i].last => i = n)
    BY <1>1, <1>2, <2>1
  <2>3. q[i].n = c + i \/ (q[i].n = 0 /\ q[i].last)
    BY <1>7, <2>1
  <2>4. i = n /\ q[i].last => main'.complete
    BY <1>1, <1>2, <1>3
  <2> QED
    BY <2>2, <2>3, <2>4
<1>10. QueueAfter(c + Batch)'
  <2> SUFFICES ASSUME NEW i \in 1..(Len(q) - n)
               PROVE  \/ queue'.fifo[i].n = c + n + i
                      \/ queue'.fifo[i].n = 0 /\ queue'.fifo[i].last
    BY <1>1, <1>2, <1>4 DEF QueueAfter
  <2>1. n + i \in 1..Len(q) /\ c + (n + i) = c + n + i
    BY <1>3
  <2>2. queue'.fifo[i] = q[n + i]
    BY <1>1, <1>2
  <2>3. q[n + i].n = c + (n + i) \/ (q[n + i].n = 0 /\ q[n + i].last)
    BY <1>7, <2>1
  <2> QED
    BY <2>1, <2>2, <2>3
<1>11. InBatch(Batch)' + InQueue' = InBatch(Batch) + InQueue
       /\ InBatch(Batch) = 0 /\ InQueue \in Nat /\ InBatch(Batch)' \in Nat /\ InQueue' \in Nat
  <2>1. InBatch(Batch) = 0
    BY <1>4 DEF InBatch
  <2>2. Len(q) > 0 => Len(q) \in 1..Len(q)
    BY <1>3
  <2>3. CASE n = Len(q)
    <3>1. queue'.fifo = <<>>
      BY <1>1, <1>2, <1>3, <2>3
    <3>2. InQueue' = 0
      BY <3>1 DEF InQueue
    <3>3. n > 0 => main'.batch[n] = q[n].n
      BY <1>1, <1>2, <1>3
    <3>4. InBatch(Batch)' = InQueue /\ InQueue \in Nat
      BY <1>2, <1>3, <1>4, <2>3, <3>3 DEF InBatch, InQueue
    <3> QED
      BY <2>1, <3>2, <3>4
  <2>4. CASE n < Len(q)
    <3>1. n > 0 => main'.batch[n] # 0
      <4>1. ASSUME n > 0 PROVE main'.batch[n] # 0
        <5>1. n \in 1..Len(q) /\ n # Len(q)
          BY <1>3, <2>4, <4>1
        <5>2. ~q[n].last
          BY <1>8, <5>1
        <5>3. q[n].n = c + n /\ main'.batch[n] = q[n].n
          BY <1>1, <1>2, <1>3, <1>7, <4>1, <5>1, <5>2
        <5> QED
          BY <1>3, <4>1, <5>3
      <4> QED
        BY <4>1
    <3>2. InBatch(Batch)' = n
      BY <1>3, <1>4, <3>1 DEF InBatch
    <3>3. /\ Len(q) - n \in 1..(Len(q) - n) /\ n + (Len(q) - n) = Len(q) /\ Len(q) # 0
      BY <1>3, <2>4
    <3>4. queue'.fifo[Len(q) - n] = q[Len(q)]
      BY <1>1, <1>2, <3>3
    <3>5. Len(queue'.fifo) = Len(q) - n /\ queue'.fifo # <<>> /\ q # <<>>
      BY <1>1, <1>2, <1>3, <2>4
    <3>6. InQueue' = IF q[Len(q)].n = 0 THEN Len(q) - n - 1 ELSE Len(q) - n
      BY <3>4, <3>5 DEF InQueue
    <3>7. InQueue = IF q[Len(q)].n = 0 THEN Len(q) - 1 ELSE Len(q)
      BY <1>2, <3>5 DEF InQueue
    <3> QED
      BY <1>3, <2>1, <2>4, <3>2, <3>6, <3>7
  <2> QED
    BY <1>3, <2>3, <2>4
<1>12. reader'.pos = c + InBatch(Batch)' + InQueue' + Pushing'
  <2>1. reader.pos = c + InBatch(Batch) + InQueue + Pushing
    BY DEF Flow
  <2>2. PICK x, y, z, u : x = InBatch(Batch)' /\ y = InQueue' /\ z = InQueue /\ u = Pushing
    OBVIOUS
  <2>3. c + x + y = c + 0 + z
    BY <1>3, <1>11, <2>2
  <2>4. reader.pos = c + 0 + z + u
    BY <1>11, <2>1, <2>2
  <2>5. reader.pos = c + x + y + u
    BY <2>3, <2>4, Zenon
  <2> QED
    BY <1>1, <1>4, <2>2, <2>5, Zenon
<1>13. /\ \A k \in Accepting(Format)' : Len(sinks'[k].log) = Base' + c + WrittenDsd'
       /\ \A k \in Accepting("PCM")' : Len(sinks'[k].log) = Base' + c + WrittenPcm'
  BY <1>1, <1>4, <1>5, <1>6, Zenon DEF Flow
<1> QED
  BY <1>9, <1>10, <1>12, <1>13, Zenon DEF Flow

\* The frames of the batch so far.
LEMMA BatchParts ==
    ASSUME ControlInv, main.pc \in Busy, NEW c \in 0..Length, Flow(c)
    PROVE  /\ InBatch(0) = 0 /\ N \in Nat /\ Base \in Int /\ c \in Int
           /\ \A j \in 1..N : /\ InBatch(j - 1) = j - 1
                              /\ main.batch[j] = 0 => InBatch(j) = j - 1
                              /\ main.batch[j] # 0 =>
                                   /\ InBatch(j) = j /\ main.batch[j] = c + j
                                   /\ c + j \in 1..reader.pos
<1>1. main.pc \in Looping
  BY DEF Looping
<1>2. /\ N \in Nat /\ Base \in Int /\ Batch = N /\ InBatch(N) \in Nat /\ InQueue \in Nat
      /\ Pushing \in {0, 1} /\ \A i \in 0..(N - 1) : InBatch(i) = i
      /\ \A i \in 1..N : main.batch[i] # 0 => main.batch[i] = c + i /\ i <= InBatch(N)
  BY <1>1, FlowNumbers
<1>3. c \in Nat /\ reader.pos \in Int
  BY Sizes, PipelineConstants DEF ControlInv
<1>4. ASSUME NEW j \in 1..N
      PROVE  /\ InBatch(j - 1) = j - 1
             /\ main.batch[j] = 0 => InBatch(j) = j - 1
             /\ main.batch[j] # 0 => InBatch(j) = j /\ main.batch[j] = c + j
  <2>1. j \in Int /\ j - 1 \in 0..(N - 1) /\ j > 0
    BY <1>2
  <2> QED
    BY <1>2, <2>1 DEF InBatch
<1>5. ASSUME NEW j \in 1..N, main.batch[j] # 0 PROVE c + j \in 1..reader.pos
  <2>1. PICK m, q, u : m = InBatch(N) /\ q = InQueue /\ u = Pushing
    OBVIOUS
  <2>2. m \in Nat /\ q \in Nat /\ u \in {0, 1} /\ j <= m
    BY <1>2, <1>5, <2>1
  <2>3. reader.pos = c + m + q + u
    BY <1>2, <2>1 DEF Flow
  <2> QED
    BY <1>2, <1>3, <2>2, <2>3
<1>6. InBatch(0) = 0
  BY DEF InBatch
<1> QED
  BY <1>2, <1>3, <1>4, <1>5, <1>6

\* A sink that got all frames before the j-th of the batch may get that one.
LEMMA FlowWrite ==
    ASSUME ControlInv, GivenInv, InSourceOrder, main.pc \in Busy, NEW c \in 0..Length, Flow(c),
           NEW f, NEW kind, WriteOK(f) \/ WriteFails(f, kind), main.j <= N,
           UNCHANGED <<setup, given>>,
           \A k \in Accepting(f) : Len(sinks[k].log) = Base + c + InBatch(main.j - 1)
    PROVE  /\ InSourceOrder'
           /\ WriteOK(f) =>
                \A k \in Accepting(f) : Len(sinks'[k].log) = Base + c + InBatch(main.j)
           /\ \A k \in Sinks \ Accepting(f) : sinks'[k].log = sinks[k].log
<1>1. main.track \in 1..Tracks /\ main.pc \in Active
  BY DEF ControlInv, MainInv, Active, Looping, Busy
<1>2. PICK j \in 1..N : j = main.j
  BY Sizes, PipelineConstants, SMTT(40) DEF ControlInv
<1>3. PICK n : n = main.batch[j]
  OBVIOUS
<1>4. /\ N \in Nat /\ Base \in Int /\ c \in Int /\ j \in Int
      /\ InBatch(j - 1) = j - 1 /\ (n = 0 => InBatch(j) = j - 1)
      /\ n # 0 => InBatch(j) = j /\ n = c + j /\ c + j \in 1..reader.pos
  BY <1>3, BatchParts
<1>5. /\ \A k \in Sinks :
           /\ \/ sinks'[k].log = sinks[k].log
              \/ /\ k \in Accepting(f) /\ n # 0
                 /\ sinks'[k].log = Append(sinks[k].log, <<main.track, n>>)
           /\ ~(k \in Accepting(f) /\ n # 0) => sinks'[k].log = sinks[k].log
           /\ WriteOK(f) /\ k \in Accepting(f) /\ n # 0 =>
                sinks'[k].log = Append(sinks[k].log, <<main.track, n>>)
  BY <1>1, <1>2, <1>3, WriteIs, Zenon DEF ControlInv
<1>6. Sinks' = Sinks /\ Accepting(f) \subseteq Sinks
  BY Zenon DEF Sinks, Accepting
<1>7. n # 0 => <<main.track, n>> \in Pairs /\ n \in Nat
  <2>1. reader.pos \in 0..Length
    BY Sizes DEF ControlInv
  <2> QED
    BY <1>1, <1>4, <2>1, PipelineConstants DEF Pairs
<1>8. n # 0 => /\ Base + n \in 1..Len(given) /\ given[Base + n] = <<main.track, n>>
               /\ Base + n = Base + c + (j - 1) + 1
  <2> SUFFICES ASSUME n # 0 PROVE /\ Base + n \in 1..Len(given)
                                  /\ given[Base + n] = <<main.track, n>>
                                  /\ Base + n = Base + c + (j - 1) + 1
    OBVIOUS
  <2>1. Handed(given, reader.pos, main.track)
    BY <1>1 DEF GivenInv
  <2>2. n \in 1..reader.pos
    BY <1>4
  <2>3. given[Len(given) - reader.pos + n] = <<main.track, n>> /\ reader.pos <= Len(given)
    BY <2>1, <2>2 DEF Handed
  <2>4. Len(given) \in Nat /\ reader.pos \in Nat
    BY LogsAre, Sizes, PipelineConstants DEF ControlInv
  <2>5. Base + n \in 1..Len(given)
    BY <2>2, <2>3, <2>4 DEF Base
  <2>6. Base + n = Base + c + (j - 1) + 1
    BY <1>4
  <2> QED
    BY <2>3, <2>5, <2>6 DEF Base
<1>9. ASSUME NEW k \in Sinks PROVE IsPrefix(sinks'[k].log, given)
  <2>1. IsPrefix(sinks[k].log, given)
    BY DEF InSourceOrder
  <2>2. CASE sinks'[k].log = sinks[k].log
    BY <2>1, <2>2
  <2>3. CASE sinks'[k].log # sinks[k].log
    <3>1. PICK l, e : l = sinks[k].log /\ e = <<main.track, n>>
      OBVIOUS
    <3>2. k \in Accepting(f) /\ n # 0 /\ sinks'[k].log = Append(l, e)
      BY <1>5, <2>3, <3>1
    <3>3. Len(l) = Base + c + (j - 1)
      BY <1>2, <1>4, <3>1, <3>2
    <3>4. /\ e \in Pairs /\ l \in Seq(Pairs) /\ given \in Seq(Pairs)
          /\ Len(given) \in Nat
      BY <1>7, <3>1, <3>2, LogsAre DEF ControlInv
    <3>5. Len(l) + 1 \in 1..Len(given) /\ given[Len(l) + 1] = e
      BY <1>8, <3>1, <3>2, <3>3
    <3>6. Len(l) < Len(given)
      BY <3>4, <3>5
    <3>7. IsPrefix(Append(l, e), given)
      BY <2>1, <3>1, <3>4, <3>5, <3>6, PrefixGrows
    <3> QED
      BY <3>2, <3>7
  <2> QED
    BY <2>2, <2>3
<1>10. ASSUME WriteOK(f), NEW k \in Accepting(f)
       PROVE  Len(sinks'[k].log) = Base + c + InBatch(j)
  <2>1. PICK l, e : l = sinks[k].log /\ e = <<main.track, n>>
    OBVIOUS
  <2>2. Len(l) = Base + c + (j - 1) /\ k \in Sinks
    BY <1>2, <1>4, <1>6, <2>1
  <2>3. CASE n = 0
    <3>1. sinks'[k].log = l
      BY <1>5, <2>1, <2>2, <2>3
    <3> QED
      BY <1>4, <2>2, <2>3, <3>1
  <2>4. CASE n # 0
    <3>1. sinks'[k].log = Append(l, e) /\ e \in Pairs /\ l \in Seq(Pairs)
      BY <1>5, <1>7, <1>10, <2>1, <2>2, <2>4, LogsAre DEF ControlInv
    <3>2. Len(sinks'[k].log) = Len(l) + 1
      BY <3>1, AppendIs
    <3>3. Base + c + (j - 1) + 1 = Base + c + j
      BY <1>4
    <3> QED
      BY <1>4, <2>2, <2>4, <3>2, <3>3
  <2> QED
    BY <2>3, <2>4
<1> QED
  BY <1>2, <1>5, <1>6, <1>9, <1>10 DEF InSourceOrder

\* The steps of the main thread from decoding a batch to its last write.
LEMMA FlowBatch ==
    ASSUME ControlInv, LateInv, GivenInv, InSourceOrder, NEW c \in 0..Length, Flow(c),
           Decode \/ WriteDsd \/ DsdWritten \/ Convert \/ WritePcm \/ PcmWritten
    PROVE  InSourceOrder' /\ (main'.pc \in Busy => Flow(c)')
<1> USE DEF Busy
<1>0. Types /\ main.pc \in Busy
  BY DecodeIs, WriteDsdIs, DsdWrittenIs, ConvertIs, WritePcmIs, PcmWrittenIs DEF ControlInv
<1>1. /\ N \in Nat /\ InBatch(0) = 0 /\ setup \in Setups /\ main.j \in Nat
      /\ pipe.dsd2pcm = needs_pcm
  <2>1. N \in Nat /\ InBatch(0) = 0
    BY <1>0, BatchParts
  <2>2. setup \in Setups /\ main.j \in Nat
    BY <1>0, Sizes, PipelineConstants, SMTT(40)
  <2>3. pipe.dsd2pcm = needs_pcm
    BY <1>0 DEF ControlInv, MainInv
  <2> QED
    BY <2>1, <2>2, <2>3
<1>2. /\ \A k \in Accepting(Format) : k \in Sinks /\ k \notin Accepting("PCM")
      /\ \A k \in Accepting("PCM") : k \in Sinks /\ k \notin Accepting(Format)
      /\ ~needs_dsd => Accepting(Format) = {}
      /\ ~needs_pcm => Accepting("PCM") = {}
  BY <1>1, FedSinks
<1>3. /\ \A k \in Accepting(Format) : Len(sinks[k].log) = Base + c + WrittenDsd
      /\ \A k \in Accepting("PCM") : Len(sinks[k].log) = Base + c + WrittenPcm
  BY DEF Flow
<1>4. main'.batch = main.batch => \A i : InBatch(i)' = InBatch(i) /\ N' = N
  BY DEF InBatch, N
<1>5. CASE Decode
  <2>1. /\ main.pc = "decode" /\ main'.batch = main.batch /\ main'.complete = main.complete
        /\ main'.pc \in {"dsd", "clean", "cancel"} /\ (main'.pc = "dsd" => main'.j = 1)
        /\ UNCHANGED <<setup, pipe, sinks, queue, reader, given>>
    BY <1>0, <1>5, DecodeIs, Zenon
  <2>2. InSourceOrder'
    BY <2>1, LogsSame
  <2>3. ASSUME main'.pc = "dsd" PROVE Flow(c)'
    <3>1. WrittenDsd = 0 /\ WrittenPcm = 0 /\ WrittenPcm' = 0
      BY <2>1, <2>3 DEF WrittenDsd, WrittenPcm
    <3>2. WrittenDsd' = 0
      <4>1. WrittenDsd' = InBatch(0)' /\ 1 - 1 = 0
        BY <2>1, <2>3 DEF WrittenDsd
      <4> QED
        BY <1>1, <1>4, <2>1, <4>1
    <3> QED
      BY <1>0, <1>3, <2>1, <2>3, <3>1, <3>2, FlowStep
  <2> QED
    BY <2>1, <2>2, <2>3
<1>6. CASE WriteDsd
  <2>1. /\ main.pc = "dsd" /\ main.j <= N /\ main'.batch = main.batch
        /\ main'.complete = main.complete
        /\ \/ WriteOK(Format) /\ main'.pc = "dsd" /\ main'.j = main.j + 1
           \/ WriteFails(Format, "writedsd") /\ main'.pc = "clean"
        /\ UNCHANGED <<setup, pipe, queue, reader, given>>
    BY <1>0, <1>6, WriteDsdIs, Zenon
  <2>2. WrittenDsd = InBatch(main.j - 1) /\ WrittenPcm = 0
    BY <2>1 DEF WrittenDsd, WrittenPcm
  <2>3. /\ InSourceOrder'
        /\ WriteOK(Format) =>
             \A k \in Accepting(Format) : Len(sinks'[k].log) = Base + c + InBatch(main.j)
        /\ \A k \in Sinks \ Accepting(Format) : sinks'[k].log = sinks[k].log
    BY <1>0, <1>3, <2>1, <2>2, FlowWrite
  <2>4. ASSUME main'.pc = "dsd" PROVE Flow(c)'
    <3>1. WriteOK(Format) /\ main'.j = main.j + 1
      BY <2>1, <2>4
    <3>2. WrittenDsd' = InBatch(main.j) /\ WrittenPcm' = 0
      <4>1. main'.j - 1 = main.j
        BY <1>1, <3>1
      <4>2. PICK i : i = main.j
        OBVIOUS
      <4>3. WrittenDsd' = InBatch(i)' /\ WrittenPcm' = 0
        BY <2>4, <4>1, <4>2 DEF WrittenDsd, WrittenPcm, InBatch
      <4> QED
        BY <1>4, <2>1, <4>2, <4>3
    <3>3. \A k \in Accepting("PCM") : sinks'[k].log = sinks[k].log
      BY <1>2, <2>3
    <3> QED
      BY <1>0, <1>3, <2>1, <2>2, <2>3, <2>4, <3>1, <3>2, <3>3, FlowStep
  <2> QED
    BY <2>1, <2>3, <2>4
<1>7. CASE DsdWritten
  <2>1. /\ main.pc = "dsd" /\ (main.j > N \/ ~needs_dsd)
        /\ main'.batch = main.batch /\ main'.complete = main.complete
        /\ \/ pipe.dsd2pcm /\ main'.pc = "convert"
           \/ ~pipe.dsd2pcm /\ main'.pc = "release"
        /\ UNCHANGED <<setup, pipe, sinks, queue, reader, given>>
    BY <1>0, <1>7, DsdWrittenIs, Zenon
  <2>2. InSourceOrder'
    BY <2>1, LogsSame
  <2>3. WrittenDsd = InBatch(main.j - 1) /\ WrittenPcm = 0
    BY <2>1 DEF WrittenDsd, WrittenPcm
  <2>4. main.j > N => main.j - 1 = N
    BY <1>1, <2>1 DEF LateInv
  <2>5. WrittenDsd' = InBatch(N) /\ (main'.pc = "convert" => WrittenPcm' = 0)
    BY <1>4, <2>1 DEF WrittenDsd, WrittenPcm
  <2>6. \A k \in Accepting(Format) : Len(sinks'[k].log) = Base + c + WrittenDsd'
    BY <1>2, <1>3, <2>1, <2>3, <2>4, <2>5
  <2>7. \A k \in Accepting("PCM") : Len(sinks'[k].log) = Base + c + WrittenPcm'
    BY <1>1, <1>2, <1>3, <2>1, <2>3, <2>5
  <2>8. Flow(c)'
    BY <1>0, <2>1, <2>6, <2>7, FlowStep
  <2> QED
    BY <2>2, <2>8
<1>8. CASE Convert
  <2>1. /\ main.pc = "convert" /\ main'.batch = main.batch /\ main'.complete = main.complete
        /\ main'.pc \in {"pcm", "clean"} /\ (main'.pc = "pcm" => main'.j = 1)
        /\ UNCHANGED <<setup, pipe, sinks, queue, reader, given>>
    BY <1>0, <1>8, ConvertIs, Zenon
  <2>2. InSourceOrder'
    BY <2>1, LogsSame
  <2>3. ASSUME main'.pc = "pcm" PROVE Flow(c)'
    <3>1. WrittenDsd = InBatch(N) /\ WrittenDsd' = InBatch(N) /\ WrittenPcm = 0
      BY <1>4, <2>1, <2>3 DEF WrittenDsd, WrittenPcm
    <3>2. WrittenPcm' = 0
      <4>1. WrittenPcm' = InBatch(0)' /\ 1 - 1 = 0
        BY <2>1, <2>3 DEF WrittenPcm
      <4> QED
        BY <1>1, <1>4, <2>1, <4>1
    <3> QED
      BY <1>0, <1>3, <2>1, <2>3, <3>1, <3>2, FlowStep
  <2> QED
    BY <2>1, <2>2, <2>3
<1>9. CASE WritePcm
  <2>1. /\ main.pc = "pcm" /\ main.j <= N /\ main'.batch = main.batch
        /\ main'.complete = main.complete
        /\ \/ WriteOK("PCM") /\ main'.pc = "pcm" /\ main'.j = main.j + 1
           \/ WriteFails("PCM", "writepcm") /\ main'.pc = "clean"
        /\ UNCHANGED <<setup, pipe, queue, reader, given>>
    BY <1>0, <1>9, WritePcmIs, Zenon
  <2>2. WrittenPcm = InBatch(main.j - 1) /\ WrittenDsd = InBatch(N)
    BY <2>1 DEF WrittenDsd, WrittenPcm
  <2>3. /\ InSourceOrder'
        /\ WriteOK("PCM") =>
             \A k \in Accepting("PCM") : Len(sinks'[k].log) = Base + c + InBatch(main.j)
        /\ \A k \in Sinks \ Accepting("PCM") : sinks'[k].log = sinks[k].log
    BY <1>0, <1>3, <2>1, <2>2, FlowWrite
  <2>4. ASSUME main'.pc = "pcm" PROVE Flow(c)'
    <3>1. WriteOK("PCM") /\ main'.j = main.j + 1
      BY <2>1, <2>4
    <3>2. WrittenPcm' = InBatch(main.j) /\ WrittenDsd' = InBatch(N)
      <4>1. main'.j - 1 = main.j
        BY <1>1, <3>1
      <4>2. PICK i, n : i = main.j /\ n = N
        OBVIOUS
      <4>3. WrittenPcm' = InBatch(i)' /\ WrittenDsd' = InBatch(n)'
        BY <1>4, <2>1, <2>4, <4>1, <4>2 DEF WrittenDsd, WrittenPcm, InBatch
      <4> QED
        BY <1>4, <2>1, <4>2, <4>3
    <3>3. \A k \in Accepting(Format) : sinks'[k].log = sinks[k].log
      BY <1>2, <2>3
    <3> QED
      BY <1>0, <1>3, <2>1, <2>2, <2>3, <2>4, <3>1, <3>2, <3>3, FlowStep
  <2> QED
    BY <2>1, <2>3, <2>4
<1>10. CASE PcmWritten
  <2>1. /\ main.pc = "pcm" /\ main.j > N /\ main'.pc = "release"
        /\ main'.batch = main.batch /\ main'.complete = main.complete
        /\ UNCHANGED <<setup, pipe, sinks, queue, reader, given>>
    BY <1>0, <1>10, PcmWrittenIs, Zenon
  <2>2. InSourceOrder'
    BY <2>1, LogsSame
  <2>3. main.j - 1 = N
    BY <1>1, <2>1 DEF LateInv
  <2>4. /\ WrittenPcm = InBatch(N) /\ WrittenDsd = InBatch(N)
        /\ WrittenPcm' = InBatch(N) /\ WrittenDsd' = InBatch(N)
    BY <1>4, <2>1, <2>3 DEF WrittenDsd, WrittenPcm
  <2>5. Flow(c)'
    BY <1>0, <1>3, <2>1, <2>4, FlowStep
  <2> QED
    BY <2>2, <2>5
<1> QED
  BY <1>5, <1>6, <1>7, <1>8, <1>9, <1>10

\* The reader reads a frame, and the frame is on its way.
LEMMA FlowRead ==
    ASSUME ControlInv, RRead, main.pc \in Looping, NEW c \in 0..Length, Flow(c)
    PROVE  Flow(c)'
<1>1. /\ reader.pc = "read" /\ UNCHANGED <<setup, pipe, main, sinks, queue>>
      /\ \/ /\ reader'.pc = "push" /\ reader'.frame.n = reader.pos + 1
            /\ reader'.pos = reader.pos + 1
            /\ given' = Append(given, <<main.track, reader.pos + 1>>)
         \/ /\ reader'.pc = "push" /\ reader'.frame.n = 0
            /\ reader'.pos = reader.pos /\ given' = given
         \/ reader'.pc = "eof" /\ reader'.pos = reader.pos /\ given' = given
  BY RReadIs, Zenon DEF ControlInv
<1>2. /\ reader.pos \in Nat /\ reader.pos + 1 \in 1..Length /\ main.track \in 1..Tracks
      /\ given \in Seq(Pairs) /\ Len(given) \in Nat
  <2>1. reader.pos \in 0..Length /\ main.track \in 1..Tracks
    BY Sizes DEF ControlInv, MainInv, Active
  <2>2. reader.pos < Length
    BY <1>1 DEF ControlInv, ReaderInv
  <2> QED
    BY <2>1, <2>2, LogsAre, PipelineConstants DEF ControlInv
<1>3. Pushing = 0
  BY <1>1 DEF Pushing
<1>4. CASE reader'.pos = reader.pos /\ given' = given /\ (reader'.pc = "eof" \/ reader'.frame.n = 0)
  <2>1. Pushing' = 0 /\ Base' = Base
    BY <1>4 DEF Pushing, Base
  <2> QED
    BY <1>1, <1>3, <1>4, <2>1, FlowQuiet
<1>5. CASE /\ reader'.pc = "push" /\ reader'.frame.n = reader.pos + 1
           /\ reader'.pos = reader.pos + 1
           /\ given' = Append(given, <<main.track, reader.pos + 1>>)
  <2>1. Pushing' = 1
    BY <1>2, <1>5 DEF Pushing
  <2>2. Base' = Base
    <3>1. <<main.track, reader.pos + 1>> \in Pairs
      BY <1>2 DEF Pairs
    <3>2. Len(given') = Len(given) + 1
      BY <1>2, <1>5, <3>1, AppendIs
    <3> QED
      BY <1>2, <1>5, <3>2 DEF Base
  <2>3. /\ Batch' = Batch /\ WrittenDsd' = WrittenDsd /\ WrittenPcm' = WrittenPcm
        /\ InQueue' = InQueue /\ Format' = Format
    BY <1>1, Zenon DEF Batch, N, WrittenDsd, WrittenPcm, InBatch, InQueue, Format
  <2>4. InBatch(Batch)' = InBatch(Batch)
    BY <1>1, <2>3, Zenon DEF InBatch
  <2>5. BatchAfter(c)' /\ QueueAfter(c + Batch)'
    BY <1>1, <2>3, Zenon DEF Flow, BatchAfter, QueueAfter, N
  <2>6. Accepting(Format)' = Accepting(Format) /\ Accepting("PCM")' = Accepting("PCM")
    BY <1>1, <2>3, Zenon DEF Accepting, Sinks
  <2>7. /\ \A k \in Accepting(Format)' : Len(sinks'[k].log) = Base' + c + WrittenDsd'
        /\ \A k \in Accepting("PCM")' : Len(sinks'[k].log) = Base' + c + WrittenPcm'
    BY <1>1, <2>2, <2>3, <2>6, Zenon DEF Flow
  <2>8. reader'.pos = c + InBatch(Batch)' + InQueue' + Pushing'
    <3>1. PICK m, q : m = InBatch(Batch) /\ q = InQueue
      OBVIOUS
    <3>2. m \in Nat /\ q \in Nat /\ c \in Nat
      BY <3>1, FlowNumbers, PipelineConstants
    <3>3. reader.pos = c + m + q + 0
      BY <1>3, <3>1 DEF Flow
    <3>4. reader'.pos = c + m + q + 1
      BY <1>2, <1>5, <3>2, <3>3
    <3> QED
      BY <2>1, <2>3, <2>4, <3>1, <3>4, Zenon
  <2> QED
    BY <2>5, <2>7, <2>8, Zenon DEF Flow
<1> QED
  BY <1>1, <1>4, <1>5

\* The reader pushes the frame it has read.
LEMMA FlowPush ==
    ASSUME ControlInv, RPush, main.pc \in Looping, NEW c \in 0..Length, Flow(c)
    PROVE  Flow(c)'
<1>1. /\ reader.pc = "push" /\ UNCHANGED <<setup, pipe, main, sinks, given>>
      /\ reader'.pos = reader.pos /\ reader'.pc # "push"
      /\ queue'.fifo = Append(queue.fifo, reader.frame)
  <2>1. ~queue.cancelled
    BY DEF ControlInv, ThreadsInv, Active
  <2> QED
    BY <2>1, RPushIs DEF ControlInv
<1>2. PICK q, x : q = queue.fifo /\ x = reader.frame
  OBVIOUS
<1>3. q \in Seq(Frame) /\ x \in Frame
  BY <1>2, Sizes DEF ControlInv
<1>4. PICK r : r = Append(q, x)
  OBVIOUS
<1>5. /\ r \in Seq(Frame) /\ Len(r) = Len(q) + 1 /\ Len(q) \in Nat
      /\ \A i \in 1..Len(q) : r[i] = q[i]
      /\ r[Len(q) + 1] = x
  BY <1>3, <1>4, AppendIs
<1>6. \/ x.n = 0 /\ x.last
      \/ x.n = reader.pos /\ reader.pos # 0
  BY <1>1, <1>2 DEF ControlInv, ReaderInv
<1>7. Reading
  BY <1>1 DEF Reading
<1>8. PICK b, u : b = Batch /\ u = Pushing
  OBVIOUS
<1>9. /\ b \in Nat /\ c \in Nat /\ InBatch(b) = b /\ InQueue = Len(q)
      /\ u = (IF x.n # 0 THEN 1 ELSE 0)
  <2>1. Batch \in Nat /\ InBatch(Batch) = Batch /\ InQueue = Len(queue.fifo)
    BY <1>7, FlowNumbers
  <2>2. u = (IF x.n # 0 THEN 1 ELSE 0)
    BY <1>1, <1>2, <1>8 DEF Pushing
  <2> QED
    BY <1>2, <1>8, <2>1, <2>2, PipelineConstants
<1>10. reader.pos = c + b + Len(q) + u
  BY <1>2, <1>8, <1>9 DEF Flow
<1>11. /\ Batch' = b /\ WrittenDsd' = WrittenDsd /\ WrittenPcm' = WrittenPcm
       /\ Format' = Format /\ Base' = Base /\ Pushing' = 0
  BY <1>1, <1>8 DEF Batch, N, WrittenDsd, WrittenPcm, InBatch, Format, Base, Pushing
<1>12. InBatch(Batch)' = b
  <2>1. InBatch(Batch)' = InBatch(b)
    BY <1>1, <1>11, Zenon DEF InBatch
  <2> QED
    BY <1>9, <2>1
<1>13. BatchAfter(c)'
  BY <1>1, <1>8, <1>11, Zenon DEF Flow, BatchAfter, N
<1>14. QueueAfter(c + Batch)'
  <2> SUFFICES ASSUME NEW i \in 1..Len(r)
               PROVE  r[i].n = c + b + i \/ (r[i].n = 0 /\ r[i].last)
    BY <1>1, <1>2, <1>4, <1>11 DEF QueueAfter
  <2>1. CASE i \in 1..Len(q)
    <3>1. q[i].n = c + b + i \/ (q[i].n = 0 /\ q[i].last)
      BY <1>2, <1>8, <2>1 DEF Flow, QueueAfter
    <3> QED
      BY <1>5, <2>1, <3>1
  <2>2. CASE i \notin 1..Len(q)
    <3>1. i = Len(q) + 1 /\ r[i] = x
      BY <1>5, <2>2
    <3>2. CASE x.n = 0
      BY <1>6, <3>1, <3>2
    <3>3. CASE x.n # 0
      <4>1. x.n = reader.pos /\ u = 1
        BY <1>6, <1>9, <3>3
      <4>2. reader.pos = c + b + i
        BY <1>5, <1>9, <1>10, <3>1, <4>1
      <4> QED
        BY <3>1, <4>1, <4>2
    <3> QED
      BY <3>2, <3>3
  <2> QED
    BY <2>1, <2>2
<1>15. InQueue' = Len(q) + u
  <2>1. r # <<>> /\ queue'.fifo = r
    BY <1>1, <1>2, <1>4, <1>5
  <2>2. InQueue' = IF x.n = 0 THEN Len(q) + 1 - 1 ELSE Len(q) + 1
    BY <1>5, <2>1 DEF InQueue
  <2> QED
    BY <1>5, <1>9, <2>2
<1>16. reader'.pos = c + InBatch(Batch)' + InQueue' + Pushing'
  <2>1. u \in {0, 1}
    BY <1>9
  <2>2. reader'.pos = c + b + (Len(q) + u) + 0
    <3>1. PICK l : l = Len(q)
      OBVIOUS
    <3>2. reader.pos = c + b + l + u /\ c \in Nat /\ b \in Nat /\ l \in Nat /\ u \in Nat
      BY <1>5, <1>9, <1>10, <2>1, <3>1
    <3>3. reader.pos = c + b + (l + u) + 0
      BY <3>2
    <3> QED
      BY <1>1, <3>1, <3>3
  <2> QED
    BY <1>11, <1>12, <1>15, <2>2, Zenon
<1>17. Accepting(Format)' = Accepting(Format) /\ Accepting("PCM")' = Accepting("PCM")
  BY <1>1, <1>11 DEF Accepting, Sinks
<1>18. /\ \A k \in Accepting(Format)' : Len(sinks'[k].log) = Base' + c + WrittenDsd'
       /\ \A k \in Accepting("PCM")' : Len(sinks'[k].log) = Base' + c + WrittenPcm'
  BY <1>1, <1>11, <1>17, Zenon DEF Flow
<1> QED
  BY <1>13, <1>14, <1>16, <1>18, Zenon DEF Flow

\* A step that leaves the frames where they are.
LEMMA FlowUnmoved ==
    ASSUME FlowInv, UNCHANGED <<setup, main, sinks, given>>, pipe'.decoder = pipe.decoder,
           queue'.fifo = queue.fifo, reader'.pos = reader.pos, Pushing' = Pushing
    PROVE  FlowInv'
<1>1. /\ InSourceOrder' /\ (AllWritten => AllWritten')
  BY LogsSame DEF FlowInv
<1>2. ASSUME main.pc \in Looping PROVE \E c \in 0..Length : Flow(c)'
  <2>1. PICK c \in 0..Length : Flow(c)
    BY <1>2 DEF FlowInv
  <2>2. Base' = Base
    BY DEF Base
  <2>3. Flow(c)'
    BY <2>1, <2>2, FlowQuiet
  <2> QED
    BY <2>3
<1> QED
  BY <1>1, <1>2 DEF FlowInv

\* A step of the main thread outside the loop that leaves the logs alone.
LEMMA FlowOutside ==
    ASSUME FlowInv, UNCHANGED <<setup, given>>, pipe'.decoder = pipe.decoder,
           \A k \in Sinks : sinks'[k].log = sinks[k].log, main'.pc \notin Looping,
           /\ \/ main'.pc \in Closing \union {"trackend"} /\ main'.result = "OK" /\ main'.complete
              \/ main'.pc \in {"track", "tstart"}
              \/ main'.pc \in {"final", "returned"} /\ main'.result = "OK"
           => AllWritten
    PROVE  FlowInv'
<1>1. InSourceOrder' /\ (AllWritten => AllWritten')
  BY LogsSame DEF FlowInv
<1> QED
  BY <1>1 DEF FlowInv

\* The frames go from the source to the sinks in order, and none is left behind.
LEMMA FlowNext ==
    ControlInv /\ LateInv /\ GivenInv /\ FaultInv /\ FlowInv /\ [Next]_vars => FlowInv'
<1> SUFFICES ASSUME ControlInv, LateInv, GivenInv, FaultInv, FlowInv, [Next]_vars
             PROVE  FlowInv'
  OBVIOUS
<1>1. Types
  BY DEF ControlInv
<1>2. CASE Run
  <2>1. /\ main'.pc = "open" \/ (main'.pc = "returned" /\ main'.result # "OK")
        /\ UNCHANGED <<setup, sinks, given>>
    BY <1>2, <1>1, RunIs
  <2>2. InSourceOrder'
    BY <2>1, LogsSame DEF FlowInv
  <2> QED
    BY <2>1, <2>2 DEF FlowInv, Looping, Closing, Busy
<1>3. CASE OpenSink
  <2>1. /\ main'.pc = "open" \/ (main'.pc = "returned" /\ main'.result # "OK")
        /\ UNCHANGED <<setup, pipe, given>> /\ \A k \in Sinks : sinks'[k].log = sinks[k].log
    BY <1>3, <1>1, OpenSinkIs
  <2> QED
    BY <2>1, FlowOutside DEF Looping, Closing, Busy
<1>4. CASE SetRunning
  <2>1. /\ main.pc = "open" /\ main'.pc = "track" /\ pipe'.decoder = pipe.decoder
        /\ UNCHANGED <<setup, sinks, given>>
    BY <1>4, <1>1, SetRunningIs
  <2>2. given = <<>>
    BY <2>1 DEF GivenInv
  <2>3. \A k \in Sinks : sinks[k].log = given
    BY <1>1, <2>2, LogsAre, PrefixOfNone DEF FlowInv, InSourceOrder
  <2>4. AllWritten
    BY <2>3 DEF AllWritten, Accepting
  <2> QED
    BY <2>1, <2>4, FlowOutside DEF Looping, Closing, Busy
<1>5. CASE NextTrack
  <2>1. /\ main.pc = "track" /\ main'.pc \in {"tstart", "final"}
        /\ UNCHANGED <<setup, pipe, sinks, given>>
    BY <1>5, <1>1, NextTrackIs
  <2>2. AllWritten
    BY <2>1 DEF FlowInv
  <2> QED
    BY <2>1, <2>2, FlowOutside DEF Looping, Closing, Busy
<1>6. CASE TrackStart
  <2>1. /\ main.pc = "tstart" /\ main'.pc \in {"tstart", "final"}
        /\ UNCHANGED <<setup, pipe, given>> /\ \A k \in Sinks : sinks'[k].log = sinks[k].log
    BY <1>6, <1>1, TrackStartIs
  <2>2. AllWritten
    BY <2>1 DEF FlowInv
  <2> QED
    BY <2>1, <2>2, FlowOutside DEF Looping, Closing, Busy
<1>7. CASE CreateReader
  <2>1. /\ main.pc = "tstart"
        /\ main'.pc = "loop" \/ (main'.pc = "final" /\ main'.result # "OK")
        /\ UNCHANGED <<setup, pipe, sinks, given>>
    BY <1>7, <1>1, CreateReaderIs
  <2>2. AllWritten /\ 0 \in 0..Length
    BY <2>1, PipelineConstants DEF FlowInv
  <2>3. InSourceOrder'
    BY <2>1, LogsSame DEF FlowInv
  <2>4. CASE main'.pc = "loop"
    <3>1. Flow(0)'
      BY <1>7, <2>2, <2>4, FlowCreate
    <3>2. \E c \in 0..Length : Flow(c)'
      BY <2>2, <3>1
    <3> QED
      BY <2>3, <2>4, <3>2 DEF FlowInv, Looping, Closing, Busy
  <2>5. CASE main'.pc # "loop"
    BY <2>1, <2>5, FlowOutside DEF Looping, Closing, Busy
  <2> QED
    BY <2>4, <2>5
<1>8. CASE Loop
  <2>1. /\ main.pc = "loop" /\ main'.complete = main.complete
        /\ main'.pc \in {"pop", "clean"} /\ UNCHANGED <<setup, pipe, sinks, given>>
    BY <1>8, <1>1, LoopIs
  <2>2. PICK c \in 0..Length : Flow(c)
    BY <2>1 DEF FlowInv, Looping
  <2>3. InSourceOrder'
    BY <2>1, LogsSame DEF FlowInv
  <2>4. CASE main'.pc = "pop"
    <3>1. Flow(c)'
      BY <1>8, <2>2, <2>4, FlowLoop
    <3>2. \E d \in 0..Length : Flow(d)'
      BY <3>1
    <3> QED
      BY <2>3, <2>4, <3>2 DEF FlowInv, Looping, Closing, Busy
  <2>5. CASE main'.pc = "clean"
    <3>1. main.complete => AllWritten
      BY <2>1, <2>2, FlowDone DEF FlowInv
    <3> QED
      BY <2>1, <2>5, <3>1, FlowOutside DEF Looping, Closing, Busy
  <2> QED
    BY <2>1, <2>4, <2>5
<1>9. CASE Pop
  <2>1. /\ main.pc = "pop" /\ main'.pc \in {"empty", "decode"}
        /\ UNCHANGED <<setup, sinks, given>>
    BY <1>9, <1>1, PopIs, Zenon
  <2>2. PICK c \in 0..Length : Flow(c)
    BY <2>1 DEF FlowInv, Looping
  <2>3. InSourceOrder'
    BY <2>1, LogsSame DEF FlowInv
  <2>4. Flow(c)'
    BY <1>9, <2>2, FlowPop
  <2>5. \E d \in 0..Length : Flow(d)'
    BY <2>4
  <2> QED
    BY <2>1, <2>3, <2>5 DEF FlowInv, Looping, Closing, Busy
<1>10. CASE Empty
  <2>1. /\ main.pc = "empty" /\ main'.pc = "clean" /\ main'.complete = main.complete
        /\ UNCHANGED <<setup, pipe, sinks, given>>
    BY <1>10, <1>1, EmptyIs
  <2>2. ~main.complete
    BY <2>1 DEF ControlInv, MainInv
  <2> QED
    BY <2>1, <2>2, FlowOutside DEF Looping, Closing, Busy
<1>11. CASE Decode
  <2>1. /\ main.pc \in Looping
        /\ main'.pc \in Busy \/ (main'.pc \in {"clean", "cancel"} /\ main'.result # "OK")
    BY <1>11, <1>1, DecodeIs DEF Looping, Busy
  <2>2. PICK c \in 0..Length : Flow(c)
    BY <2>1 DEF FlowInv
  <2>3. InSourceOrder' /\ (main'.pc \in Busy => Flow(c)')
    BY <1>11, <2>2, FlowBatch DEF FlowInv
  <2>4. main'.pc \in Busy => \E d \in 0..Length : Flow(d)'
    BY <2>3
  <2> QED
    BY <2>1, <2>3, <2>4 DEF FlowInv, Looping, Closing, Busy
<1>12. CASE WriteDsd
  <2>1. /\ main.pc \in Looping
        /\ main'.pc \in Busy \/ (main'.pc \in {"clean", "cancel"} /\ main'.result # "OK")
    BY <1>12, <1>1, WriteDsdIs DEF Looping, Busy
  <2>2. PICK c \in 0..Length : Flow(c)
    BY <2>1 DEF FlowInv
  <2>3. InSourceOrder' /\ (main'.pc \in Busy => Flow(c)')
    BY <1>12, <2>2, FlowBatch DEF FlowInv
  <2>4. main'.pc \in Busy => \E d \in 0..Length : Flow(d)'
    BY <2>3
  <2> QED
    BY <2>1, <2>3, <2>4 DEF FlowInv, Looping, Closing, Busy
<1>13. CASE DsdWritten
  <2>1. /\ main.pc \in Looping
        /\ main'.pc \in Busy \/ (main'.pc \in {"clean", "cancel"} /\ main'.result # "OK")
    BY <1>13, <1>1, DsdWrittenIs DEF Looping, Busy
  <2>2. PICK c \in 0..Length : Flow(c)
    BY <2>1 DEF FlowInv
  <2>3. InSourceOrder' /\ (main'.pc \in Busy => Flow(c)')
    BY <1>13, <2>2, FlowBatch DEF FlowInv
  <2>4. main'.pc \in Busy => \E d \in 0..Length : Flow(d)'
    BY <2>3
  <2> QED
    BY <2>1, <2>3, <2>4 DEF FlowInv, Looping, Closing, Busy
<1>14. CASE Convert
  <2>1. /\ main.pc \in Looping
        /\ main'.pc \in Busy \/ (main'.pc \in {"clean", "cancel"} /\ main'.result # "OK")
    BY <1>14, <1>1, ConvertIs DEF Looping, Busy
  <2>2. PICK c \in 0..Length : Flow(c)
    BY <2>1 DEF FlowInv
  <2>3. InSourceOrder' /\ (main'.pc \in Busy => Flow(c)')
    BY <1>14, <2>2, FlowBatch DEF FlowInv
  <2>4. main'.pc \in Busy => \E d \in 0..Length : Flow(d)'
    BY <2>3
  <2> QED
    BY <2>1, <2>3, <2>4 DEF FlowInv, Looping, Closing, Busy
<1>15. CASE WritePcm
  <2>1. /\ main.pc \in Looping
        /\ main'.pc \in Busy \/ (main'.pc \in {"clean", "cancel"} /\ main'.result # "OK")
    BY <1>15, <1>1, WritePcmIs DEF Looping, Busy
  <2>2. PICK c \in 0..Length : Flow(c)
    BY <2>1 DEF FlowInv
  <2>3. InSourceOrder' /\ (main'.pc \in Busy => Flow(c)')
    BY <1>15, <2>2, FlowBatch DEF FlowInv
  <2>4. main'.pc \in Busy => \E d \in 0..Length : Flow(d)'
    BY <2>3
  <2> QED
    BY <2>1, <2>3, <2>4 DEF FlowInv, Looping, Closing, Busy
<1>16. CASE PcmWritten
  <2>1. /\ main.pc \in Looping
        /\ main'.pc \in Busy \/ (main'.pc \in {"clean", "cancel"} /\ main'.result # "OK")
    BY <1>16, <1>1, PcmWrittenIs DEF Looping, Busy
  <2>2. PICK c \in 0..Length : Flow(c)
    BY <2>1 DEF FlowInv
  <2>3. InSourceOrder' /\ (main'.pc \in Busy => Flow(c)')
    BY <1>16, <2>2, FlowBatch DEF FlowInv
  <2>4. main'.pc \in Busy => \E d \in 0..Length : Flow(d)'
    BY <2>3
  <2> QED
    BY <2>1, <2>3, <2>4 DEF FlowInv, Looping, Closing, Busy
<1>17. CASE Release
  <2>1. /\ main.pc = "release" /\ pipe'.decoder = pipe.decoder
        /\ main'.pc = "loop" \/ (main'.pc = "clean" /\ main'.result # "OK")
        /\ UNCHANGED <<setup, sinks, given>>
    BY <1>17, <1>1, ReleaseIs
  <2>2. PICK c \in 0..Length : Flow(c)
    BY <2>1 DEF FlowInv, Looping, Busy
  <2>3. InSourceOrder'
    BY <2>1, LogsSame DEF FlowInv
  <2>4. CASE main'.pc = "loop"
    <3>1. \E d \in 0..Length : Flow(d)'
      BY <1>17, <2>2, <2>4, FlowRelease
    <3> QED
      BY <2>3, <2>4, <3>1 DEF FlowInv, Looping, Closing, Busy
  <2>5. CASE main'.pc # "loop"
    BY <2>1, <2>5, FlowOutside DEF Looping, Closing, Busy
  <2> QED
    BY <2>4, <2>5
<1>18. CASE Clean
  <2>1. /\ main.pc \in Closing /\ main'.pc \in Closing
        /\ main'.complete = main.complete /\ main'.result = main.result
        /\ UNCHANGED <<setup, pipe, sinks, given>>
    BY <1>18, <1>1, CleanIs DEF Closing
  <2>2. main.result = "OK" /\ main.complete => AllWritten
    BY <2>1 DEF FlowInv
  <2> QED
    BY <2>1, <2>2, FlowOutside DEF Looping, Closing, Busy
<1>19. CASE CancelReader
  <2>1. /\ main.pc \in Closing /\ main'.pc \in Closing
        /\ main'.complete = main.complete /\ main'.result = main.result
        /\ UNCHANGED <<setup, pipe, sinks, given>>
    BY <1>19, <1>1, CancelReaderIs DEF Closing
  <2>2. main.result = "OK" /\ main.complete => AllWritten
    BY <2>1 DEF FlowInv
  <2> QED
    BY <2>1, <2>2, FlowOutside DEF Looping, Closing, Busy
<1>20. CASE CancelQueue
  <2>1. /\ main.pc \in Closing /\ main'.pc \in Closing
        /\ main'.complete = main.complete /\ main'.result = main.result
        /\ UNCHANGED <<setup, pipe, sinks, given>>
    BY <1>20, <1>1, CancelQueueIs DEF Closing
  <2>2. main.result = "OK" /\ main.complete => AllWritten
    BY <2>1 DEF FlowInv
  <2> QED
    BY <2>1, <2>2, FlowOutside DEF Looping, Closing, Busy
<1>21. CASE WaitReader
  <2>1. /\ main.pc \in Closing /\ main'.pc \in Closing
        /\ main'.complete = main.complete /\ main'.result = main.result
        /\ UNCHANGED <<setup, pipe, sinks, given>>
    BY <1>21, <1>1, WaitReaderIs DEF Closing
  <2>2. main.result = "OK" /\ main.complete => AllWritten
    BY <2>1 DEF FlowInv
  <2> QED
    BY <2>1, <2>2, FlowOutside DEF Looping, Closing, Busy
<1>22. CASE ShutdownQueue
  <2>1. /\ main.pc \in Closing /\ main'.pc \in Closing
        /\ main'.complete = main.complete /\ main'.result = main.result
        /\ UNCHANGED <<setup, pipe, sinks, given>>
    BY <1>22, <1>1, ShutdownQueueIs DEF Closing
  <2>2. main.result = "OK" /\ main.complete => AllWritten
    BY <2>1 DEF FlowInv
  <2> QED
    BY <2>1, <2>2, FlowOutside DEF Looping, Closing, Busy
<1>23. CASE Join
  <2>1. /\ main.pc = "join" /\ main'.complete = main.complete /\ main'.result = main.result
        /\ (main.noend /\ main'.pc = "final") \/ main'.pc = "trackend"
        /\ UNCHANGED <<setup, pipe, sinks, given>>
    BY <1>23, <1>1, JoinIs
  <2>2. main.result = "OK" /\ main.complete => AllWritten
    BY <2>1 DEF FlowInv, Closing
  <2>3. main.noend => main.result # "OK"
    BY DEF ControlInv, MainInv
  <2> QED
    BY <2>1, <2>2, <2>3, FlowOutside DEF Looping, Closing, Busy
<1>24. CASE TrackEnd
  <2>1. /\ main.pc = "trackend" /\ \A k \in Sinks : sinks'[k].log = sinks[k].log
        /\ \/ ~pipe.cancelled /\ main.result = "OK" /\ main'.pc = "track"
           \/ main'.pc = "final" /\ main'.result # "OK"
        /\ UNCHANGED <<setup, pipe, given>>
    BY <1>24, <1>1, TrackEndIs
  <2>2. main'.pc = "track" => AllWritten
    BY <2>1 DEF FlowInv, FaultInv
  <2> QED
    BY <2>1, <2>2, FlowOutside DEF Looping, Closing, Busy
<1>25. CASE Finalize
  <2>1. /\ main.pc = "final" /\ main'.pc = "returned" /\ main'.result = main.result
        /\ \A k \in Sinks : sinks'[k].log = sinks[k].log
        /\ pipe'.decoder = pipe.decoder /\ UNCHANGED <<setup, given>>
    BY <1>25, <1>1, FinalizeIs
  <2>2. main.result = "OK" => AllWritten
    BY <2>1 DEF FlowInv
  <2> QED
    BY <2>1, <2>2, FlowOutside DEF Looping, Closing, Busy
<1>26. CASE RTake
  <2>1. /\ reader.pc # "push" /\ reader'.pc # "push" /\ reader'.pos = reader.pos
        /\ queue'.fifo = queue.fifo /\ UNCHANGED <<setup, pipe, main, sinks, given>>
    BY <1>26, <1>1, RTakeIs
  <2> QED
    BY <2>1, FlowUnmoved DEF Pushing
<1>27. CASE RReset
  <2>1. /\ reader.pc = "reset" /\ reader'.pc = "seek" /\ reader'.pos = reader.pos
        /\ queue' = NewQueue /\ UNCHANGED <<setup, pipe, main, sinks, given>>
    BY <1>27, <1>1, RResetIs
  <2>2. queue'.fifo = queue.fifo
    BY <2>1, NewIs DEF ControlInv, ReaderInv
  <2> QED
    BY <2>1, <2>2, FlowUnmoved DEF Pushing
<1>28. CASE RSeek
  <2>1. /\ reader.pc = "seek" /\ reader'.pc # "push" /\ reader'.pos \in {0, reader.pos}
        /\ UNCHANGED <<setup, pipe, main, sinks, queue, given>>
    BY <1>28, <1>1, RSeekIs
  <2>2. reader'.pos = reader.pos
    BY <2>1 DEF ControlInv, ReaderInv
  <2> QED
    BY <2>1, <2>2, FlowUnmoved DEF Pushing
<1>29. CASE RCheck
  <2>1. /\ reader.pc # "push" /\ reader'.pc # "push" /\ reader'.pos = reader.pos
        /\ queue'.fifo = queue.fifo /\ UNCHANGED <<setup, pipe, main, sinks, given>>
    BY <1>29, <1>1, RCheckIs
  <2> QED
    BY <2>1, FlowUnmoved DEF Pushing
<1>30. CASE RRead
  <2>1. /\ reader.pc = "read" /\ UNCHANGED <<setup, pipe, main, sinks>>
        /\ \/ given' = Append(given, <<main.track, reader.pos + 1>>)
           \/ given' = given
    BY <1>30, <1>1, RReadIs, Zenon
  <2>2. main.pc \in Active /\ (main.pc \in Closing => ~main.complete)
    BY <2>1 DEF ControlInv, ThreadsInv, LastInv, Reading, Active
  <2>3. InSourceOrder'
    <3>1. CASE given' = given
      BY <2>1, <3>1, LogsSame DEF FlowInv
    <3>2. CASE given' = Append(given, <<main.track, reader.pos + 1>>)
      <4>1. PICK e : e = <<main.track, reader.pos + 1>>
        OBVIOUS
      <4>2. e \in Pairs
        <5>1. reader.pos < Length /\ main.track \in 1..Tracks
          BY <2>1, <2>2 DEF ControlInv, ReaderInv, MainInv
        <5>2. reader.pos \in 0..Length
          BY <1>1, Sizes
        <5> QED
          BY <4>1, <5>1, <5>2, PipelineConstants DEF Pairs
      <4>3. ASSUME NEW k \in Sinks PROVE IsPrefix(sinks[k].log, Append(given, e))
        BY <1>1, <4>2, LogsAre, PrefixGrows DEF FlowInv, InSourceOrder
      <4>4. Sinks' = Sinks
        BY <2>1 DEF Sinks
      <4> QED
        BY <2>1, <3>2, <4>1, <4>3, <4>4, Zenon DEF InSourceOrder
    <3> QED
      BY <2>1, <3>1, <3>2
  <2>4. main.pc \in Looping => \E c \in 0..Length : Flow(c)'
    <3>1. ASSUME main.pc \in Looping PROVE \E c \in 0..Length : Flow(c)'
      <4>1. PICK c \in 0..Length : Flow(c)
        BY <3>1 DEF FlowInv
      <4>2. Flow(c)'
        BY <1>30, <3>1, <4>1, FlowRead
      <4> QED
        BY <4>2
    <3> QED
      BY <3>1
  <2> QED
    BY <2>1, <2>2, <2>3, <2>4 DEF FlowInv, Active, Looping, Closing, Busy
<1>31. CASE RPush
  <2>1. UNCHANGED <<setup, pipe, main, sinks, given>>
    BY <1>31, <1>1, RPushIs
  <2>2. InSourceOrder' /\ (AllWritten => AllWritten')
    BY <2>1, LogsSame DEF FlowInv
  <2>3. main.pc \in Looping => \E c \in 0..Length : Flow(c)'
    <3>1. ASSUME main.pc \in Looping PROVE \E c \in 0..Length : Flow(c)'
      <4>1. PICK c \in 0..Length : Flow(c)
        BY <3>1 DEF FlowInv
      <4>2. Flow(c)'
        BY <1>31, <3>1, <4>1, FlowPush
      <4> QED
        BY <4>2
    <3> QED
      BY <3>1
  <2> QED
    BY <2>1, <2>2, <2>3 DEF FlowInv
<1>32. CASE RFinish
  <2>1. /\ reader.pc # "push" /\ reader'.pc # "push" /\ reader'.pos = reader.pos
        /\ queue'.fifo = queue.fifo /\ UNCHANGED <<setup, pipe, main, sinks, given>>
    BY <1>32, <1>1, RFinishIs
  <2> QED
    BY <2>1, FlowUnmoved DEF Pushing
<1>33. CASE REof
  <2>1. /\ reader.pc # "push" /\ reader'.pc # "push" /\ reader'.pos = reader.pos
        /\ queue'.fifo = queue.fifo /\ UNCHANGED <<setup, pipe, main, sinks, given>>
    BY <1>33, <1>1, REofIs
  <2> QED
    BY <2>1, FlowUnmoved DEF Pushing
<1>34. CASE RStop
  <2>1. /\ reader.pc # "push" /\ reader'.pc # "push" /\ reader'.pos = reader.pos
        /\ queue'.fifo = queue.fifo /\ UNCHANGED <<setup, pipe, main, sinks, given>>
    BY <1>34, <1>1, RStopIs
  <2> QED
    BY <2>1, FlowUnmoved DEF Pushing
<1>35. CASE RStopQueue
  <2>1. /\ reader.pc # "push" /\ reader'.pc # "push" /\ reader'.pos = reader.pos
        /\ queue'.fifo = queue.fifo /\ UNCHANGED <<setup, pipe, main, sinks, given>>
    BY <1>35, <1>1, RStopQueueIs
  <2> QED
    BY <2>1, FlowUnmoved DEF Pushing
<1>36. CASE Cancel
  <2>1. pipe'.decoder = pipe.decoder /\ UNCHANGED <<setup, main, sinks, queue, reader, given>>
    BY <1>36, <1>1, CancelIs
  <2> QED
    BY <2>1, FlowUnmoved DEF Pushing
<1>37. CASE UNCHANGED vars
  BY <1>37, FlowUnmoved DEF vars, Pushing
<1> QED
  BY <1>2, <1>3, <1>4, <1>5, <1>6, <1>7, <1>8, <1>9, <1>10, <1>11, <1>12,
   <1>13, <1>14, <1>15, <1>16, <1>17, <1>18, <1>19, <1>20, <1>21, <1>22,
   <1>23, <1>24, <1>25, <1>26, <1>27, <1>28, <1>29, <1>30, <1>31, <1>32,
   <1>33, <1>34, <1>35, <1>36, <1>37
     DEF Next, MainStep, ReaderStep

\* What is handed out stays handed out, and the needs of the sinks stay.
LEMMA WholeKept ==
    ASSUME given \in Seq(Pairs), setup' = setup, hit \subseteq hit',
           given' = given \/ \E e \in Pairs : given' = Append(given, e)
    PROVE  (\A t : Whole(t) => Whole(t)') /\ needs_decoder' = needs_decoder
<1>1. Range(given) \subseteq Range(given')
  <2>1. CASE given' = given
    BY <2>1
  <2>2. CASE given' # given
    <3>1. PICK e \in Pairs : given' = Append(given, e)
      BY <2>2
    <3>2. PICK g, h : g = given /\ h = Append(given, e)
      OBVIOUS
    <3>3. /\ DOMAIN h = 1..(Len(g) + 1) /\ DOMAIN g = 1..Len(g) /\ Len(g) \in Nat
          /\ \A i \in 1..Len(g) : h[i] = g[i]
      BY <3>2, AppendIs
    <3>4. ASSUME NEW i \in DOMAIN g PROVE i \in DOMAIN h /\ h[i] = g[i]
      BY <3>3
    <3>5. Range(g) \subseteq Range(h)
      BY <3>4 DEF Range
    <3> QED
      BY <3>1, <3>2, <3>5
  <2> QED
    BY <2>1, <2>2
<1>2. \A t : Whole(t) => Whole(t)'
  BY <1>1 DEF Whole
<1> QED
  BY <1>2, NeedsSame

\* A track that ends without an error was handed out to its last frame.
LEMMA WholeNext == ControlInv /\ GivenInv /\ FaultInv /\ WholeInv /\ [Next]_vars => WholeInv'
<1> SUFFICES ASSUME ControlInv, GivenInv, FaultInv, WholeInv, [Next]_vars PROVE WholeInv'
  OBVIOUS
<1>1. /\ Types /\ given \in Seq(Pairs) /\ main.track \in 0..(Tracks + 1) /\ main.track \in Int
      /\ reader.pos \in 0..Length
  BY Sizes, LogsAre, PipelineConstants, SMTT(40) DEF ControlInv
<1>2. CASE Run
  <2>1. /\ setup' = setup /\ given' = given /\ hit \subseteq hit'
        /\ main'.pc = "open" \/ (main'.pc = "returned" /\ main'.result # "OK")
        /\ pipe'.decoder = needs_decoder
    BY <1>2, <1>1, RunIs
  <2>2. (\A t : Whole(t) => Whole(t)') /\ needs_decoder' = needs_decoder
    BY <1>1, <2>1, WholeKept
  <2> QED
    BY <2>1, <2>2 DEF WholeInv, Active, Looping, Busy, Closing
<1>3. CASE OpenSink
  <2>1. /\ setup' = setup /\ given' = given /\ hit \subseteq hit'
        /\ main'.pc = "open" \/ (main'.pc = "returned" /\ main'.result # "OK")
        /\ main.pc = "open" /\ pipe' = pipe
    BY <1>3, <1>1, OpenSinkIs
  <2>2. (\A t : Whole(t) => Whole(t)') /\ needs_decoder' = needs_decoder
    BY <1>1, <2>1, WholeKept
  <2> QED
    BY <2>1, <2>2 DEF WholeInv, Active, Looping, Busy, Closing
<1>4. CASE SetRunning
  <2>1. /\ setup' = setup /\ given' = given /\ hit \subseteq hit'
        /\ main.pc = "open" /\ main'.pc = "track" /\ main'.track = 1
        /\ pipe'.decoder = pipe.decoder
    BY <1>4, <1>1, SetRunningIs
  <2>2. (\A t : Whole(t) => Whole(t)') /\ needs_decoder' = needs_decoder
    BY <1>1, <2>1, WholeKept
  <2> QED
    BY <2>1, <2>2 DEF WholeInv, Active, Looping, Busy, Closing
<1>5. CASE NextTrack
  <2>1. /\ setup' = setup /\ given' = given /\ hit \subseteq hit'
        /\ main.pc = "track" /\ main'.track = main.track /\ pipe' = pipe
        /\ main'.pc = "tstart" \/ (main'.pc = "final" /\ ~(main.track <= Tracks))
    BY <1>5, <1>1, NextTrackIs
  <2>2. (\A t : Whole(t) => Whole(t)') /\ needs_decoder' = needs_decoder
    BY <1>1, <2>1, WholeKept
  <2>3. ~(main.track <= Tracks) => main.track - 1 = Tracks
    BY <1>1, PipelineConstants
  <2> QED
    BY <2>1, <2>2, <2>3 DEF WholeInv, Active, Looping, Busy, Closing
<1>6. CASE TrackStart
  <2>1. /\ setup' = setup /\ given' = given /\ hit \subseteq hit'
        /\ main.pc = "tstart" /\ main'.track = main.track /\ pipe' = pipe
        /\ main'.pc = "tstart" \/ (main'.pc = "final" /\ main'.result # "OK")
    BY <1>6, <1>1, TrackStartIs
  <2>2. (\A t : Whole(t) => Whole(t)') /\ needs_decoder' = needs_decoder
    BY <1>1, <2>1, WholeKept
  <2> QED
    BY <2>1, <2>2 DEF WholeInv, Active, Looping, Busy, Closing
<1>7. CASE CreateReader
  <2>1. /\ setup' = setup /\ given' = given /\ hit \subseteq hit'
        /\ main.pc = "tstart" /\ main'.track = main.track /\ pipe' = pipe
        /\ main'.pc = "loop" \/ (main'.pc = "final" /\ main'.result # "OK")
    BY <1>7, <1>1, CreateReaderIs
  <2>2. (\A t : Whole(t) => Whole(t)') /\ needs_decoder' = needs_decoder
    BY <1>1, <2>1, WholeKept
  <2> QED
    BY <2>1, <2>2 DEF WholeInv, Active, Looping, Busy, Closing
<1>8. CASE Loop
  <2>1. /\ main.pc \in Active /\ main'.pc \in Active /\ main'.track = main.track
        /\ setup' = setup /\ given' = given /\ hit \subseteq hit'
        /\ pipe'.decoder = pipe.decoder
    BY <1>8, <1>1, LoopIs DEF Active, Looping, Busy, Closing
  <2>2. (\A t : Whole(t) => Whole(t)') /\ needs_decoder' = needs_decoder
    BY <1>1, <2>1, WholeKept
  <2> QED
    BY <2>1, <2>2 DEF WholeInv, Active, Looping, Busy, Closing
<1>9. CASE Pop
  <2>1. /\ main.pc = "pop" /\ main'.pc \in {"empty", "decode"}
        /\ main'.track = main.track /\ UNCHANGED <<setup, pipe, given, hit>>
    BY <1>9, <1>1, PopIs, Zenon
  <2>2. (\A t : Whole(t) => Whole(t)') /\ needs_decoder' = needs_decoder
    BY <1>1, <2>1, WholeKept
  <2> QED
    BY <2>1, <2>2 DEF WholeInv, Active, Looping, Busy, Closing
<1>10. CASE Empty
  <2>1. /\ main.pc \in Active /\ main'.pc \in Active /\ main'.track = main.track
        /\ setup' = setup /\ given' = given /\ hit \subseteq hit'
        /\ pipe'.decoder = pipe.decoder
    BY <1>10, <1>1, EmptyIs DEF Active, Looping, Busy, Closing
  <2>2. (\A t : Whole(t) => Whole(t)') /\ needs_decoder' = needs_decoder
    BY <1>1, <2>1, WholeKept
  <2> QED
    BY <2>1, <2>2 DEF WholeInv, Active, Looping, Busy, Closing
<1>11. CASE Decode
  <2>1. /\ main.pc \in Active /\ main'.pc \in Active /\ main'.track = main.track
        /\ setup' = setup /\ given' = given /\ hit \subseteq hit'
        /\ pipe'.decoder = pipe.decoder
    BY <1>11, <1>1, DecodeIs DEF Active, Looping, Busy, Closing
  <2>2. (\A t : Whole(t) => Whole(t)') /\ needs_decoder' = needs_decoder
    BY <1>1, <2>1, WholeKept
  <2> QED
    BY <2>1, <2>2 DEF WholeInv, Active, Looping, Busy, Closing
<1>12. CASE WriteDsd
  <2>1. /\ main.pc \in Busy /\ main.j <= N /\ main'.pc \in Active /\ main'.track = main.track
        /\ UNCHANGED <<setup, pipe, given>>
        /\ WriteOK(Format) \/ WriteFails(Format, "writedsd")
    BY <1>12, <1>1, WriteDsdIs DEF Active, Looping, Busy, Closing
  <2>2. hit \subseteq hit'
    BY <2>1 DEF WriteOK, WriteFails, Fault
  <2>3. (\A t : Whole(t) => Whole(t)') /\ needs_decoder' = needs_decoder
    BY <1>1, <2>1, <2>2, WholeKept
  <2> QED
    BY <2>1, <2>3 DEF WholeInv, Active, Looping, Busy, Closing
<1>13. CASE DsdWritten
  <2>1. /\ main.pc \in Active /\ main'.pc \in Active /\ main'.track = main.track
        /\ setup' = setup /\ given' = given /\ hit \subseteq hit'
        /\ pipe'.decoder = pipe.decoder
    BY <1>13, <1>1, DsdWrittenIs DEF Active, Looping, Busy, Closing
  <2>2. (\A t : Whole(t) => Whole(t)') /\ needs_decoder' = needs_decoder
    BY <1>1, <2>1, WholeKept
  <2> QED
    BY <2>1, <2>2 DEF WholeInv, Active, Looping, Busy, Closing
<1>14. CASE Convert
  <2>1. /\ main.pc \in Active /\ main'.pc \in Active /\ main'.track = main.track
        /\ setup' = setup /\ given' = given /\ hit \subseteq hit'
        /\ pipe'.decoder = pipe.decoder
    BY <1>14, <1>1, ConvertIs DEF Active, Looping, Busy, Closing
  <2>2. (\A t : Whole(t) => Whole(t)') /\ needs_decoder' = needs_decoder
    BY <1>1, <2>1, WholeKept
  <2> QED
    BY <2>1, <2>2 DEF WholeInv, Active, Looping, Busy, Closing
<1>15. CASE WritePcm
  <2>1. /\ main.pc \in Busy /\ main.j <= N /\ main'.pc \in Active /\ main'.track = main.track
        /\ UNCHANGED <<setup, pipe, given>>
        /\ WriteOK("PCM") \/ WriteFails("PCM", "writepcm")
    BY <1>15, <1>1, WritePcmIs DEF Active, Looping, Busy, Closing
  <2>2. hit \subseteq hit'
    BY <2>1 DEF WriteOK, WriteFails, Fault
  <2>3. (\A t : Whole(t) => Whole(t)') /\ needs_decoder' = needs_decoder
    BY <1>1, <2>1, <2>2, WholeKept
  <2> QED
    BY <2>1, <2>3 DEF WholeInv, Active, Looping, Busy, Closing
<1>16. CASE PcmWritten
  <2>1. /\ main.pc \in Active /\ main'.pc \in Active /\ main'.track = main.track
        /\ setup' = setup /\ given' = given /\ hit \subseteq hit'
        /\ pipe'.decoder = pipe.decoder
    BY <1>16, <1>1, PcmWrittenIs DEF Active, Looping, Busy, Closing
  <2>2. (\A t : Whole(t) => Whole(t)') /\ needs_decoder' = needs_decoder
    BY <1>1, <2>1, WholeKept
  <2> QED
    BY <2>1, <2>2 DEF WholeInv, Active, Looping, Busy, Closing
<1>17. CASE Release
  <2>1. /\ main.pc \in Active /\ main'.pc \in Active /\ main'.track = main.track
        /\ setup' = setup /\ given' = given /\ hit \subseteq hit'
        /\ pipe'.decoder = pipe.decoder
    BY <1>17, <1>1, ReleaseIs DEF Active, Looping, Busy, Closing
  <2>2. (\A t : Whole(t) => Whole(t)') /\ needs_decoder' = needs_decoder
    BY <1>1, <2>1, WholeKept
  <2> QED
    BY <2>1, <2>2 DEF WholeInv, Active, Looping, Busy, Closing
<1>18. CASE Clean
  <2>1. /\ main.pc \in Active /\ main'.pc \in Active /\ main'.track = main.track
        /\ setup' = setup /\ given' = given /\ hit \subseteq hit'
        /\ pipe'.decoder = pipe.decoder
    BY <1>18, <1>1, CleanIs DEF Active, Looping, Busy, Closing
  <2>2. (\A t : Whole(t) => Whole(t)') /\ needs_decoder' = needs_decoder
    BY <1>1, <2>1, WholeKept
  <2> QED
    BY <2>1, <2>2 DEF WholeInv, Active, Looping, Busy, Closing
<1>19. CASE CancelReader
  <2>1. /\ main.pc \in Active /\ main'.pc \in Active /\ main'.track = main.track
        /\ setup' = setup /\ given' = given /\ hit \subseteq hit'
        /\ pipe'.decoder = pipe.decoder
    BY <1>19, <1>1, CancelReaderIs DEF Active, Looping, Busy, Closing
  <2>2. (\A t : Whole(t) => Whole(t)') /\ needs_decoder' = needs_decoder
    BY <1>1, <2>1, WholeKept
  <2> QED
    BY <2>1, <2>2 DEF WholeInv, Active, Looping, Busy, Closing
<1>20. CASE CancelQueue
  <2>1. /\ main.pc \in Active /\ main'.pc \in Active /\ main'.track = main.track
        /\ setup' = setup /\ given' = given /\ hit \subseteq hit'
        /\ pipe'.decoder = pipe.decoder
    BY <1>20, <1>1, CancelQueueIs DEF Active, Looping, Busy, Closing
  <2>2. (\A t : Whole(t) => Whole(t)') /\ needs_decoder' = needs_decoder
    BY <1>1, <2>1, WholeKept
  <2> QED
    BY <2>1, <2>2 DEF WholeInv, Active, Looping, Busy, Closing
<1>21. CASE WaitReader
  <2>1. /\ main.pc \in Active /\ main'.pc \in Active /\ main'.track = main.track
        /\ setup' = setup /\ given' = given /\ hit \subseteq hit'
        /\ pipe'.decoder = pipe.decoder
    BY <1>21, <1>1, WaitReaderIs DEF Active, Looping, Busy, Closing
  <2>2. (\A t : Whole(t) => Whole(t)') /\ needs_decoder' = needs_decoder
    BY <1>1, <2>1, WholeKept
  <2> QED
    BY <2>1, <2>2 DEF WholeInv, Active, Looping, Busy, Closing
<1>22. CASE ShutdownQueue
  <2>1. /\ main.pc \in Active /\ main'.pc \in Active /\ main'.track = main.track
        /\ setup' = setup /\ given' = given /\ hit \subseteq hit'
        /\ pipe'.decoder = pipe.decoder
    BY <1>22, <1>1, ShutdownQueueIs DEF Active, Looping, Busy, Closing
  <2>2. (\A t : Whole(t) => Whole(t)') /\ needs_decoder' = needs_decoder
    BY <1>1, <2>1, WholeKept
  <2> QED
    BY <2>1, <2>2 DEF WholeInv, Active, Looping, Busy, Closing
<1>23. CASE Join
  <2>1. /\ setup' = setup /\ given' = given /\ hit \subseteq hit'
        /\ main.pc = "join" /\ main'.track = main.track /\ pipe' = pipe
        /\ main'.complete = main.complete /\ main'.result = main.result
        /\ (main.noend /\ main'.pc = "final") \/ main'.pc = "trackend"
    BY <1>23, <1>1, JoinIs
  <2>2. (\A t : Whole(t) => Whole(t)') /\ needs_decoder' = needs_decoder
    BY <1>1, <2>1, WholeKept
  <2>3. main.noend => main.result # "OK"
    BY DEF ControlInv, MainInv
  <2>4. main.pc \in Active
    BY <2>1 DEF Active, Closing
  <2>5. ASSUME main.complete PROVE Whole(main.track)
    <3>1. reader.pos = Length \/ "short" \in hit
      BY <2>4, <2>5 DEF ControlInv, LastInv
    <3>2. CASE reader.pos = Length
      <4>1. Handed(given, Length, main.track)
        BY <2>4, <3>2 DEF GivenInv
      <4>2. PICK l : l = Len(given)
        OBVIOUS
      <4>3. l \in Nat /\ Length \in Nat /\ Length > 0 /\ Length <= l /\ DOMAIN given = 1..l
        BY <1>1, <4>1, <4>2, PipelineConstants DEF Handed
      <4>4. Length \in 1..Length /\ l - Length + Length = l /\ l \in 1..l
        BY <4>3
      <4>5. given[l - Length + Length] = <<main.track, Length>>
        BY <4>1, <4>2, <4>4 DEF Handed
      <4>6. given[l] = <<main.track, Length>> /\ l \in DOMAIN given
        BY <4>3, <4>4, <4>5
      <4> QED
        BY <4>6 DEF Whole, Range
    <3>3. CASE "short" \in hit
      BY <3>3 DEF Whole
    <3> QED
      BY <3>1, <3>2, <3>3
  <2> QED
    BY <2>1, <2>2, <2>3, <2>5 DEF WholeInv, Active, Looping, Busy, Closing
<1>24. CASE TrackEnd
  <2>1. /\ setup' = setup /\ given' = given /\ hit \subseteq hit'
        /\ main.pc = "trackend" /\ pipe' = pipe
        /\ \/ /\ ~pipe.cancelled /\ main.result = "OK" /\ main'.pc = "track"
              /\ main'.track = main.track + 1
           \/ main'.pc = "final" /\ main'.result # "OK"
    BY <1>24, <1>1, TrackEndIs
  <2>2. (\A t : Whole(t) => Whole(t)') /\ needs_decoder' = needs_decoder
    BY <1>1, <2>1, WholeKept
  <2>3. ASSUME main'.pc = "track", NEW t \in 1..(main'.track - 1) PROVE Whole(t)
    <3>1. Whole(main.track)
      BY <2>1, <2>3 DEF WholeInv, FaultInv
    <3>2. t = main.track \/ t \in 1..(main.track - 1)
      BY <1>1, <2>1, <2>3
    <3> QED
      BY <2>1, <3>1, <3>2 DEF WholeInv
  <2> QED
    BY <2>1, <2>2, <2>3 DEF WholeInv, Active, Looping, Busy, Closing
<1>25. CASE Finalize
  <2>1. /\ setup' = setup /\ given' = given /\ hit \subseteq hit'
        /\ main.pc = "final" /\ main'.pc = "returned" /\ main'.result = main.result
        /\ pipe'.decoder = pipe.decoder
    BY <1>25, <1>1, FinalizeIs
  <2>2. (\A t : Whole(t) => Whole(t)') /\ needs_decoder' = needs_decoder
    BY <1>1, <2>1, WholeKept
  <2> QED
    BY <2>1, <2>2 DEF WholeInv, Active, Looping, Busy, Closing
<1>26. CASE RTake
  <2>1. /\ setup' = setup /\ given' = given /\ hit \subseteq hit' /\ main' = main
        /\ pipe'.decoder = pipe.decoder
    BY <1>26, <1>1, RTakeIs
  <2>2. (\A t : Whole(t) => Whole(t)') /\ needs_decoder' = needs_decoder
    BY <1>1, <2>1, WholeKept
  <2> QED
    BY <2>1, <2>2 DEF WholeInv
<1>27. CASE RReset
  <2>1. /\ setup' = setup /\ given' = given /\ hit \subseteq hit' /\ main' = main
        /\ pipe'.decoder = pipe.decoder
    BY <1>27, <1>1, RResetIs
  <2>2. (\A t : Whole(t) => Whole(t)') /\ needs_decoder' = needs_decoder
    BY <1>1, <2>1, WholeKept
  <2> QED
    BY <2>1, <2>2 DEF WholeInv
<1>28. CASE RSeek
  <2>1. /\ setup' = setup /\ given' = given /\ hit \subseteq hit' /\ main' = main
        /\ pipe'.decoder = pipe.decoder
    BY <1>28, <1>1, RSeekIs
  <2>2. (\A t : Whole(t) => Whole(t)') /\ needs_decoder' = needs_decoder
    BY <1>1, <2>1, WholeKept
  <2> QED
    BY <2>1, <2>2 DEF WholeInv
<1>29. CASE RCheck
  <2>1. /\ setup' = setup /\ given' = given /\ hit \subseteq hit' /\ main' = main
        /\ pipe'.decoder = pipe.decoder
    BY <1>29, <1>1, RCheckIs
  <2>2. (\A t : Whole(t) => Whole(t)') /\ needs_decoder' = needs_decoder
    BY <1>1, <2>1, WholeKept
  <2> QED
    BY <2>1, <2>2 DEF WholeInv
<1>30. CASE RRead
  <2>1. /\ reader.pc = "read" /\ UNCHANGED <<setup, pipe, main>> /\ hit \subseteq hit'
        /\ \/ given' = Append(given, <<main.track, reader.pos + 1>>)
           \/ given' = given
    BY <1>30, <1>1, RReadIs, Zenon
  <2>2. <<main.track, reader.pos + 1>> \in Pairs
    <3>1. reader.pos < Length /\ main.track \in 1..Tracks
      BY <2>1 DEF ControlInv, ReaderInv, MainInv, ThreadsInv, Active
    <3>2. reader.pos \in 0..Length
      BY <1>1
    <3> QED
      BY <3>1, <3>2, PipelineConstants DEF Pairs
  <2>3. (\A t : Whole(t) => Whole(t)') /\ needs_decoder' = needs_decoder
    BY <1>1, <2>1, <2>2, WholeKept
  <2> QED
    BY <2>1, <2>3 DEF WholeInv
<1>31. CASE RPush
  <2>1. /\ setup' = setup /\ given' = given /\ hit \subseteq hit' /\ main' = main
        /\ pipe'.decoder = pipe.decoder
    BY <1>31, <1>1, RPushIs
  <2>2. (\A t : Whole(t) => Whole(t)') /\ needs_decoder' = needs_decoder
    BY <1>1, <2>1, WholeKept
  <2> QED
    BY <2>1, <2>2 DEF WholeInv
<1>32. CASE RFinish
  <2>1. /\ setup' = setup /\ given' = given /\ hit \subseteq hit' /\ main' = main
        /\ pipe'.decoder = pipe.decoder
    BY <1>32, <1>1, RFinishIs
  <2>2. (\A t : Whole(t) => Whole(t)') /\ needs_decoder' = needs_decoder
    BY <1>1, <2>1, WholeKept
  <2> QED
    BY <2>1, <2>2 DEF WholeInv
<1>33. CASE REof
  <2>1. /\ setup' = setup /\ given' = given /\ hit \subseteq hit' /\ main' = main
        /\ pipe'.decoder = pipe.decoder
    BY <1>33, <1>1, REofIs
  <2>2. (\A t : Whole(t) => Whole(t)') /\ needs_decoder' = needs_decoder
    BY <1>1, <2>1, WholeKept
  <2> QED
    BY <2>1, <2>2 DEF WholeInv
<1>34. CASE RStop
  <2>1. /\ setup' = setup /\ given' = given /\ hit \subseteq hit' /\ main' = main
        /\ pipe'.decoder = pipe.decoder
    BY <1>34, <1>1, RStopIs
  <2>2. (\A t : Whole(t) => Whole(t)') /\ needs_decoder' = needs_decoder
    BY <1>1, <2>1, WholeKept
  <2> QED
    BY <2>1, <2>2 DEF WholeInv
<1>35. CASE RStopQueue
  <2>1. /\ setup' = setup /\ given' = given /\ hit \subseteq hit' /\ main' = main
        /\ pipe'.decoder = pipe.decoder
    BY <1>35, <1>1, RStopQueueIs
  <2>2. (\A t : Whole(t) => Whole(t)') /\ needs_decoder' = needs_decoder
    BY <1>1, <2>1, WholeKept
  <2> QED
    BY <2>1, <2>2 DEF WholeInv
<1>36. CASE Cancel
  <2>1. /\ setup' = setup /\ given' = given /\ hit \subseteq hit' /\ main' = main
        /\ pipe'.decoder = pipe.decoder
    BY <1>36, <1>1, CancelIs
  <2>2. (\A t : Whole(t) => Whole(t)') /\ needs_decoder' = needs_decoder
    BY <1>1, <2>1, WholeKept
  <2> QED
    BY <2>1, <2>2 DEF WholeInv
<1>37. CASE UNCHANGED vars
  BY <1>37, <1>1, WholeKept DEF vars, WholeInv
<1> QED
  BY <1>2, <1>3, <1>4, <1>5, <1>6, <1>7, <1>8, <1>9, <1>10, <1>11, <1>12,
   <1>13, <1>14, <1>15, <1>16, <1>17, <1>18, <1>19, <1>20, <1>21, <1>22,
   <1>23, <1>24, <1>25, <1>26, <1>27, <1>28, <1>29, <1>30, <1>31, <1>32,
   <1>33, <1>34, <1>35, <1>36, <1>37
     DEF Next, MainStep, ReaderStep

\* Where the frames are, at all times.
LEMMA FlowAlways == Spec => []FlowInv
<1>1. Init => FlowInv
  <2> SUFFICES ASSUME Init PROVE FlowInv
    OBVIOUS
  <2>1. /\ main.pc = "start" /\ given = <<>> /\ given \in Seq(Pairs)
        /\ \A k \in Sinks : sinks[k].log = <<>>
    BY DEF Init
  <2>2. InSourceOrder
    BY <2>1, PrefixOfNone DEF InSourceOrder
  <2> QED
    BY <2>1, <2>2 DEF FlowInv, Looping, Busy, Closing
<1>2. ControlInv /\ LateInv /\ GivenInv /\ FaultInv /\ FlowInv /\ [Next]_vars => FlowInv'
  BY FlowNext
<1> QED
  BY <1>1, <1>2, ThreadsInStep, LateAlways, GivenAlways, FaultAlways, PTL DEF Spec

\* Which tracks were handed out, at all times.
LEMMA WholeAlways == Spec => []WholeInv
<1>1. Init => WholeInv
  BY DEF Init, WholeInv, Active, Looping, Busy, Closing
<1>2. ControlInv /\ GivenInv /\ FaultInv /\ WholeInv /\ [Next]_vars => WholeInv'
  BY WholeNext
<1> QED
  BY <1>1, <1>2, ThreadsInStep, GivenAlways, FaultAlways, PTL DEF Spec

(***************************************************************************)
(* What dsdpipe_process_track gives a sink is what the source handed out,  *)
(* track by track and frame by frame, from the beginning and without a gap *)
(* or a repetition, whatever the size of the queue and of the batches,     *)
(* whatever fails and whenever the run is cancelled; the reader thread     *)
(* never pushes to a queue that was destroyed, and the state stays within  *)
(* its types.                                                              *)
(***************************************************************************)
THEOREM FramesInOrder == Spec => []DeliveredInOrder
<1>1. ControlInv /\ LateInv /\ BufInv => TypeOK
  <2> SUFFICES ASSUME ControlInv, LateInv, BufInv PROVE TypeOK
    OBVIOUS
  <2>1. Types
    BY DEF ControlInv
  <2>2. /\ setup \in Setups /\ pipe \in PipeType /\ hit \subseteq Kinds /\ late \in Nat
        /\ main.k \in 1..(Len(setup.caps) + 1) /\ N <= MaxBatch
        /\ Len(queue.fifo) <= QCapacity /\ given \in Seq((1..Tracks) \X (1..Length))
        /\ sinks \in [Sinks -> SinkType] /\ bufs \in [dsd : Int, pcm : Int]
    BY <2>1, Zenon DEF Types
  <2>3. /\ main.pc \in MainPcs /\ main.result \in Codes
        /\ main.complete \in BOOLEAN /\ main.noend \in BOOLEAN
        /\ queue.eof \in BOOLEAN /\ queue.cancelled \in BOOLEAN /\ queue.open \in BOOLEAN
        /\ reader.pc \in ReaderPcs /\ reader.error \in Codes
    BY <2>1, Flags
  <2>4. /\ main.track \in 0..(Tracks + 1) /\ main.j \in 1..(MaxBatch + 1)
        /\ main.batch \in Seq(0..Length) /\ N \in 0..MaxBatch
        /\ queue.fifo \in Seq(Frame) /\ Len(queue.fifo) \in Nat /\ reader.pos \in 0..Length
        /\ bufs.dsd \in Int /\ PerFrame \in 1..2
    BY <2>1, Sizes, PipelineConstants
  <2>5. \A k \in Sinks : /\ sinks[k].open \in BOOLEAN /\ sinks[k].track \in 0..Tracks
                         /\ sinks[k].log \in Seq((1..Tracks) \X (1..Length))
    BY <2>2, Zenon DEF SinkType
  <2>6. bufs.dsd \in Nat
    <3>1. HeldByReader \in Nat
      BY DEF HeldByReader
    <3>2. HeldByMain \in Nat
      BY <2>4, PipelineConstants DEF HeldByMain
    <3> QED
      BY <2>4, <3>1, <3>2 DEF BufInv
  <2>7. bufs.pcm \in 0..MaxBatch
    <3>1. CASE main.pc = "pcm"
      <4>1. bufs.pcm = N - main.j + 1 /\ main.j <= N + 1
        BY <3>1 DEF BufInv, LateInv
      <4> QED
        BY <2>4, <4>1, PipelineConstants, SMTT(40)
    <3>2. CASE main.pc # "pcm"
      BY <3>2, PipelineConstants DEF BufInv
    <3> QED
      BY <3>1, <3>2
  <2>8. bufs \in [dsd : Nat, pcm : 0..MaxBatch]
    BY <2>2, <2>6, <2>7
  <2>9. main.pc \in {"start", "open", "track", "tstart", "loop", "pop", "empty", "decode",
                     "dsd", "convert", "pcm", "release", "clean", "cancel",
                     "cancelqueue", "wait", "shutdown", "join", "trackend", "final",
                     "returned"}
    BY <2>3 DEF MainPcs, Before, Active, Looping, Busy, Closing
  <2> QED
    BY <2>2, <2>3, <2>4, <2>5, <2>8, <2>9, Zenon DEF TypeOK, PipeType, Frame, ReaderPcs
<1>2. ControlInv => (reader.pc # "exited" => queue.open)
  BY DEF ControlInv, ThreadsInv
<1>3. ControlInv /\ LateInv /\ BufInv /\ GivenInv /\ FlowInv => DeliveredInOrder
  BY <1>1, <1>2 DEF DeliveredInOrder, GivenInv, FlowInv, InSourceOrder
<1> QED
  BY <1>3, ThreadsInStep, LateAlways, BufAlways, GivenAlways, FlowAlways, PTL

\* Every sink that stores audio can be fed: no DST source is kept as it is for
\* one sink while another wants it decoded.
Servable ==
    setup.src = "DST" /\ can_accept_dst =>
        \A k \in Sinks : "DSD" \in setup.caps[k] => "DST" \in setup.caps[k]

(***************************************************************************)
(* When dsdpipe_run returns DSDPIPE_OK, every sink that stores audio has   *)
(* every frame of every selected track (or all up to an early end that the *)
(* source reported), for any number of tracks, frames and sinks.  It holds *)
(* of the setups that the code serves: dsdpipe_setup_transforms inserts no *)
(* decoder as soon as one sink takes DST, so a sink that takes only DSD    *)
(* then gets nothing (dsdpipe.c:973-981).                                  *)
(***************************************************************************)
THEOREM SuccessIsComplete == Spec => [](Servable => CompleteOnSuccess)
<1>1. ControlInv /\ FlowInv /\ WholeInv => (Servable => CompleteOnSuccess)
  <2> SUFFICES ASSUME ControlInv, FlowInv, WholeInv, Servable, main.pc = "returned",
                      main.result = "OK", NEW k \in Sinks, Audio(k)
               PROVE  /\ sinks[k].log = given
                      /\ \A t \in 1..Tracks : <<t, Length>> \in Range(given) \/ "short" \in hit
    BY DEF CompleteOnSuccess, Returned
  <2>1. AllWritten /\ \A t \in 1..Tracks : Whole(t)
    BY DEF FlowInv, WholeInv
  <2>2. pipe.decoder = needs_decoder
    BY DEF WholeInv
  <2>3. setup.src \in {"DSD", "DST"} /\ setup.caps[k] \in Capabilities
    BY SetupFacts DEF ControlInv, Types
  <2>4. "DSD" \in setup.caps[k] \/ "PCM" \in setup.caps[k]
    BY DEF Audio
  <2>5. CASE "PCM" \in setup.caps[k]
    BY <2>1, <2>5 DEF AllWritten, Accepting, Whole
  <2>6. CASE "DSD" \in setup.caps[k]
    <3>1. needs_dsd
      BY <2>6 DEF needs_dsd
    <3>2. Format \in setup.caps[k]
      <4>1. CASE setup.src = "DSD"
        BY <2>6, <4>1 DEF Format
      <4>2. CASE setup.src = "DST" /\ can_accept_dst
        BY <2>2, <2>6, <4>2 DEF Servable, Format, needs_decoder
      <4>3. CASE setup.src = "DST" /\ ~can_accept_dst
        BY <2>2, <2>6, <3>1, <4>3 DEF Format, needs_decoder
      <4> QED
        BY <2>3, <4>1, <4>2, <4>3
    <3>3. k \in Accepting(Format)
      BY <3>2 DEF Accepting
    <3> QED
      BY <2>1, <3>3 DEF AllWritten, Whole
  <2> QED
    BY <2>4, <2>5, <2>6
<1> QED
  BY <1>1, ThreadsInStep, FlowAlways, WholeAlways, PTL

====
