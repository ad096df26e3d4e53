------------------------------ MODULE Pipeline ------------------------------
(***************************************************************************)
(* libdsdpipe: one call of dsdpipe_run.  Two threads run: the main thread  *)
(* (dsdpipe.c: dsdpipe_run and dsdpipe_process_track), which opens the     *)
(* sinks and then, track by track, pops batches of frames, decodes,        *)
(* converts and writes them; and the reader thread (reader_thread.c),      *)
(* created for each track, which reads frames from the source into the     *)
(* frame queue.  A third thread may call dsdpipe_cancel at any time.       *)
(*                                                                         *)
(* The queue appears as the bounded FIFO that FrameQueue is shown to       *)
(* implement; a push waits for room and a pop for frames, so a blocked     *)
(* thread is one whose next action is disabled.  Audio data is the frame's *)
(* number within its track; number 0 is the empty buffer with which a      *)
(* source reports that a track ended early.                                *)
(***************************************************************************)
EXTENDS FrameBatch, FiniteSets, SequencesExt

CONSTANTS
    Setups,      \* the pipelines considered: source format, sink capabilities
    Tracks,      \* number of selected tracks
    Length,      \* audio frames in each track
    QCapacity,   \* DSDPIPE_FRAME_QUEUE_CAPACITY
    MaxBatch,    \* DSDPIPE_BATCH_SIZE
    Faults,      \* the kinds of failure that may happen
    MaxFaults,   \* bound of the model: how many kinds happen in one run
    Cancels      \* whether another thread may call dsdpipe_cancel

Kinds == {"setup", "open", "start", "create", "seek", "alloc", "read", "short",
          "decode", "writedsd", "convert", "writepcm", "abort", "end", "finalize"}

(* What the sinks say they take: get_capabilities of each kind of sink. *)
Capabilities == {{}, {"DSD"}, {"DSD", "DST"}, {"PCM"}}

ASSUME PipelineConstants ==
    /\ Setups \subseteq [src : {"DSD", "DST"}, caps : Seq(Capabilities)]
    /\ Tracks \in Nat \ {0} /\ Length \in Nat \ {0}
    /\ QCapacity \in Nat \ {0} /\ MaxBatch \in Nat \ {0}
    /\ Faults \subseteq Kinds /\ MaxFaults \in Nat
    /\ Cancels \in BOOLEAN

VARIABLES
    setup,       \* source format and the capabilities of each sink
    pipe,        \* dsdpipe_t: state, cancelled, and the transforms inserted
    main,        \* the main thread: where it is, and its locals
    sinks,       \* each sink: open, the track it was told started, frames written
    queue,       \* the frame queue of the current track
    reader,      \* dsdpipe_reader_thread_t and the reader thread's locals
    bufs,        \* buffers taken from the DSD and the PCM pool, not yet returned
    given,       \* the frames the source has handed out: track and number
    hit,         \* the kinds of failure that have happened
    late         \* frames written since the pipeline was cancelled

vars == <<setup, pipe, main, sinks, queue, reader, bufs, given, hit, late>>

Sinks == DOMAIN setup.caps
Codes == {"OK", "OUT_OF_MEMORY", "SINK_OPEN", "START", "READ", "SEEK", "DST_DECODE",
          "PCM_CONVERT", "WRITE", "CANCELLED"}

Fault(kind) ==
    /\ kind \in Faults /\ Cardinality(hit) < MaxFaults
    /\ hit' = hit \union {kind}

NewReader == [pc |-> "wait", pending |-> TRUE, finished |-> FALSE, error |-> "OK",
              cancelled |-> FALSE, shutdown |-> FALSE, pos |-> 0,
              frame |-> [n |-> 0, last |-> FALSE]]
NewQueue == [fifo |-> <<>>, eof |-> FALSE, cancelled |-> FALSE, open |-> TRUE]

Init ==
    /\ setup \in Setups
    /\ pipe = [state |-> "CONFIGURED", cancelled |-> FALSE, decoder |-> FALSE,
               dsd2pcm |-> FALSE]
    /\ main = [pc |-> "start", track |-> 0, k |-> 1, j |-> 1, batch |-> <<>>,
               complete |-> FALSE, result |-> "OK", noend |-> FALSE]
    /\ sinks = [k \in Sinks |-> [open |-> FALSE, track |-> 0, log |-> <<>>]]
    /\ queue = [NewQueue EXCEPT !.open = FALSE]
    /\ reader = [NewReader EXCEPT !.pc = "exited", !.pending = FALSE]
    /\ bufs = [dsd |-> 0, pcm |-> 0]
    /\ given = <<>>
    /\ hit = {}
    /\ late = 0

-----------------------------------------------------------------------------
(* The format the sinks are fed, and which sinks want what. *)
needs_dsd == \E k \in Sinks : "DSD" \in setup.caps[k]
needs_pcm == \E k \in Sinks : "PCM" \in setup.caps[k] /\ "DSD" \notin setup.caps[k]
can_accept_dst == \E k \in Sinks : "DST" \in setup.caps[k]

needs_decoder == setup.src = "DST" /\ (needs_dsd \/ needs_pcm) /\ ~can_accept_dst
Format == IF pipe.decoder THEN "DSD" ELSE setup.src

Goto(pc) == main' = [main EXCEPT !.pc = pc]
Stop(pc, code) == main' = [main EXCEPT !.pc = pc, !.result = code]

(***************************************************************************)
(* dsdpipe_run up to dsdpipe_setup_transforms.  The DSD-to-PCM converter   *)
(* refuses any input but raw DSD.                                          *)
(***************************************************************************)
Run ==
    /\ main.pc = "start"
    /\ pipe' = [pipe EXCEPT !.decoder = needs_decoder, !.dsd2pcm = needs_pcm]
    /\ \/ /\ needs_pcm /\ setup.src = "DST" /\ ~needs_decoder
          /\ Stop("returned", "PCM_CONVERT")
          /\ UNCHANGED hit
       \/ /\ ~(needs_pcm /\ setup.src = "DST" /\ ~needs_decoder)
          /\ Goto("open")
          /\ UNCHANGED hit
       \/ /\ Fault("setup")
          /\ Stop("returned", "OUT_OF_MEMORY")
    /\ UNCHANGED <<setup, sinks, queue, reader, bufs, given, late>>

(* dsdpipe_open_sinks: a sink that fails leaves the ones before it open. *)
OpenSink ==
    /\ main.pc = "open" /\ main.k \in Sinks
    /\ \/ /\ sinks' = [sinks EXCEPT ![main.k].open = TRUE]
          /\ main' = [main EXCEPT !.k = @ + 1]
          /\ UNCHANGED hit
       \/ /\ Fault("open")
          /\ Stop("returned", "SINK_OPEN")
          /\ UNCHANGED sinks
    /\ UNCHANGED <<setup, pipe, queue, reader, bufs, given, late>>

SetRunning ==
    /\ main.pc = "open" /\ main.k \notin Sinks
    /\ pipe' = [pipe EXCEPT !.state = "RUNNING", !.cancelled = FALSE]
    /\ main' = [main EXCEPT !.pc = "track", !.track = 1]
    /\ UNCHANGED <<setup, sinks, queue, reader, bufs, given, hit, late>>

(* The loop over the selected tracks. *)
NextTrack ==
    /\ main.pc = "track"
    /\ main' = [main EXCEPT !.pc = IF main.track <= Tracks THEN "tstart" ELSE "final",
                            !.k = 1, !.complete = FALSE]
    /\ UNCHANGED <<setup, pipe, sinks, queue, reader, bufs, given, hit, late>>

(* Notify the sinks of the track's start; a failure ends the track at once. *)
TrackStart ==
    /\ main.pc = "tstart" /\ main.k \in Sinks
    /\ \/ /\ sinks' = [sinks EXCEPT ![main.k].track = main.track]
          /\ main' = [main EXCEPT !.k = @ + 1]
          /\ UNCHANGED hit
       \/ /\ Fault("start")
          /\ Stop("final", "START")
          /\ UNCHANGED sinks
    /\ UNCHANGED <<setup, pipe, queue, reader, bufs, given, late>>

(* The frame queue, the reader thread, and reader_thread_start_track. *)
CreateReader ==
    /\ main.pc = "tstart" /\ main.k \notin Sinks
    /\ \/ /\ queue' = NewQueue
          /\ reader' = NewReader
          /\ Goto("loop")
          /\ UNCHANGED hit
       \/ /\ Fault("create")
          /\ Stop("final", "OUT_OF_MEMORY")
          /\ UNCHANGED <<queue, reader>>
    /\ UNCHANGED <<setup, pipe, sinks, bufs, given, late>>

-----------------------------------------------------------------------------
(* The batch loop of dsdpipe_process_track *)
(* Mutant: the loop ends as soon as the reader has signalled the end. *)
DoneAtEof == pipe.cancelled \/ main.complete \/ queue.eof

(* Mutant: the cancellation flag is not looked at. *)
DoneUnlessCancelled == main.complete

Done == pipe.cancelled \/ main.complete

Loop ==
    /\ main.pc = "loop"
    /\ Goto(IF Done THEN "clean" ELSE "pop")
    /\ UNCHANGED <<setup, pipe, sinks, queue, reader, bufs, given, hit, late>>

Pop ==
    /\ main.pc = "pop"
    /\ queue.fifo # <<>> \/ queue.eof \/ queue.cancelled
    /\ LET n == IF queue.cancelled THEN 0 ELSE BatchLen(queue.fifo, MaxBatch)
           got == SubSeq(queue.fifo, 1, n)
       IN  /\ main' = [main EXCEPT !.pc = IF n = 0 THEN "empty" ELSE "decode",
                                   !.batch = [i \in 1..n |-> got[i].n],
                                   !.complete = n > 0 /\ got[n].last]
           /\ queue' = [queue EXCEPT !.fifo = SubSeq(@, n + 1, Len(@))]
    /\ UNCHANGED <<setup, pipe, sinks, reader, bufs, given, hit, late>>

(* Mutant: an empty batch always means the end of the track. *)
EmptyIsEnd ==
    /\ main.pc = "empty"
    /\ Stop("clean", "OK")
    /\ UNCHANGED <<setup, pipe, sinks, queue, reader, bufs, given, hit, late>>

(* Nothing was popped: the queue was cancelled, or ended.  Did the reader fail? *)
Empty ==
    /\ main.pc = "empty"
    /\ Stop("clean", IF reader.error = "OK" /\ queue.cancelled THEN "READ"
                     ELSE reader.error)
    /\ UNCHANGED <<setup, pipe, sinks, queue, reader, bufs, given, hit, late>>

N == Len(main.batch)
PerFrame == IF pipe.decoder THEN 2 ELSE 1    \* DSD buffers held for each frame popped

(***************************************************************************)
(* Output buffers and dst_batch_decode.  Buffers that run out here lead to *)
(* the early return that does not tell the sinks of the track's end.  An   *)
(* empty buffer is no DST frame, and fails its whole batch.                *)
(***************************************************************************)
Decode ==
    /\ main.pc = "decode"
    /\ \/ /\ ~pipe.decoder
          /\ main' = [main EXCEPT !.pc = "dsd", !.j = 1]
          /\ UNCHANGED <<bufs, hit>>
       \/ /\ pipe.decoder /\ \A j \in 1..N : main.batch[j] # 0
          /\ main' = [main EXCEPT !.pc = "dsd", !.j = 1]
          /\ bufs' = [bufs EXCEPT !.dsd = @ + N]
          /\ UNCHANGED hit
       \/ /\ pipe.decoder
          /\ \/ (\E j \in 1..N : main.batch[j] = 0) /\ UNCHANGED hit
             \/ Fault("decode")
          /\ Stop("clean", "DST_DECODE")
          /\ bufs' = [bufs EXCEPT !.dsd = @ - N]
       \/ /\ pipe.decoder /\ Fault("alloc")
          /\ main' = [main EXCEPT !.pc = "cancel", !.result = "OUT_OF_MEMORY",
                                  !.noend = TRUE]
          /\ bufs' = [bufs EXCEPT !.dsd = @ - N]
    /\ UNCHANGED <<setup, pipe, sinks, queue, reader, given, late>>

(***************************************************************************)
(* dsdpipe_write_to_sinks: frame n, in format f, to each sink that accepts *)
(* it, in order; a sink that fails keeps the later ones from getting it.   *)
(* The empty buffer has no format when it was not decoded.                 *)
(***************************************************************************)
Accepting(f) == {k \in Sinks : f \in setup.caps[k]}

Written(S, n) ==
    [k \in Sinks |-> IF k \in S /\ n # 0
                     THEN [sinks[k] EXCEPT !.log = Append(@, <<main.track, n>>)]
                     ELSE sinks[k]]

WriteOK(f) ==
    /\ sinks' = Written(Accepting(f), main.batch[main.j])
    /\ late' = IF pipe.cancelled THEN late + 1 ELSE late
    /\ UNCHANGED hit

WriteFails(f, kind) ==
    /\ Fault(kind)
    /\ \E bad \in Accepting(f) :
          sinks' = Written({k \in Accepting(f) : k < bad}, main.batch[main.j])
    /\ UNCHANGED late

(* Mutant: a failed write releases the buffers of the frames after j only. *)
WriteDsdLeavesOne ==
    /\ main.pc = "dsd" /\ needs_dsd /\ main.j <= N
    /\ \/ /\ WriteOK(Format)
          /\ main' = [main EXCEPT !.j = @ + 1]
          /\ UNCHANGED bufs
       \/ /\ WriteFails(Format, "writedsd")
          /\ Stop("clean", "WRITE")
          /\ bufs' = [bufs EXCEPT !.dsd = @ - PerFrame * (N - main.j)]
    /\ UNCHANGED <<setup, pipe, queue, reader, given>>

(* A failed write releases the buffers of frames j.. but not of the ones before. *)
WriteDsd ==
    /\ main.pc = "dsd" /\ needs_dsd /\ main.j <= N
    /\ \/ /\ WriteOK(Format)
          /\ main' = [main EXCEPT !.j = @ + 1]
          /\ UNCHANGED bufs
       \/ /\ WriteFails(Format, "writedsd")
          /\ Stop("clean", "WRITE")
          /\ bufs' = [bufs EXCEPT !.dsd = @ - PerFrame * (N - main.j + 1)]
    /\ UNCHANGED <<setup, pipe, queue, reader, given>>

DsdWritten ==
    /\ main.pc = "dsd" /\ (main.j > N \/ ~needs_dsd)
    /\ Goto(IF pipe.dsd2pcm THEN "convert" ELSE "release")
    /\ UNCHANGED <<setup, pipe, sinks, queue, reader, bufs, given, hit, late>>

AllReleased == bufs' = [dsd |-> bufs.dsd - PerFrame * N, pcm |-> 0]

(* PCM buffers for the batch, and one call of the converter for all of it *)
Convert ==
    /\ main.pc = "convert"
    /\ \/ /\ main' = [main EXCEPT !.pc = "pcm", !.j = 1]
          /\ bufs' = [bufs EXCEPT !.pcm = N]
          /\ UNCHANGED hit
       \/ /\ Fault("alloc") /\ Stop("clean", "OUT_OF_MEMORY") /\ AllReleased
       \/ /\ Fault("convert") /\ Stop("clean", "PCM_CONVERT") /\ AllReleased
    /\ UNCHANGED <<setup, pipe, sinks, queue, reader, given, late>>

WritePcm ==
    /\ main.pc = "pcm" /\ main.j <= N
    /\ \/ /\ WriteOK("PCM")
          /\ main' = [main EXCEPT !.j = @ + 1]
          /\ bufs' = [bufs EXCEPT !.pcm = @ - 1]
       \/ /\ WriteFails("PCM", "writepcm")
          /\ Stop("clean", "WRITE")
          /\ AllReleased
    /\ UNCHANGED <<setup, pipe, queue, reader, given>>

PcmWritten ==
    /\ main.pc = "pcm" /\ main.j > N
    /\ Goto("release")
    /\ UNCHANGED <<setup, pipe, sinks, queue, reader, bufs, given, hit, late>>

(* The batch's buffers are released, then the progress callback may abort. *)
Release ==
    /\ main.pc = "release"
    /\ AllReleased
    /\ \/ /\ Goto("loop")
          /\ UNCHANGED <<pipe, hit>>
       \/ /\ Fault("abort")
          /\ pipe' = [pipe EXCEPT !.cancelled = TRUE]
          /\ Stop("clean", "CANCELLED")
    /\ UNCHANGED <<setup, sinks, queue, reader, given, late>>

-----------------------------------------------------------------------------
(* The cleanup of dsdpipe_process_track *)
Clean ==
    /\ main.pc = "clean"
    /\ Goto(IF main.result # "OK" \/ pipe.cancelled THEN "cancel" ELSE "wait")
    /\ UNCHANGED <<setup, pipe, sinks, queue, reader, bufs, given, hit, late>>

(* dsdpipe_reader_thread_cancel: a plain store, then the queue's own cancel *)
CancelReader ==
    /\ main.pc = "cancel"
    /\ reader' = [reader EXCEPT !.cancelled = TRUE]
    /\ Goto("cancelqueue")
    /\ UNCHANGED <<setup, pipe, sinks, queue, bufs, given, hit, late>>

(* Mutant: the reader is told to stop, the queue is not cancelled. *)
CancelQueueSkipped ==
    /\ main.pc = "cancelqueue"
    /\ Goto("wait")
    /\ UNCHANGED <<setup, pipe, sinks, queue, reader, bufs, given, hit, late>>

CancelQueue ==
    /\ main.pc = "cancelqueue"
    /\ queue' = [queue EXCEPT !.cancelled = TRUE]
    /\ Goto("wait")
    /\ UNCHANGED <<setup, pipe, sinks, reader, bufs, given, hit, late>>

(* dsdpipe_reader_thread_wait, and the shutdown request of _destroy *)
WaitReader ==
    /\ main.pc = "wait" /\ reader.finished
    /\ reader' = [reader EXCEPT !.shutdown = TRUE, !.cancelled = TRUE]
    /\ Goto("shutdown")
    /\ UNCHANGED <<setup, pipe, sinks, queue, bufs, given, hit, late>>

ShutdownQueue ==
    /\ main.pc = "shutdown"
    /\ queue' = [queue EXCEPT !.cancelled = TRUE]
    /\ Goto("join")
    /\ UNCHANGED <<setup, pipe, sinks, reader, bufs, given, hit, late>>

(* The reader thread is joined, and the queue destroyed with what is left in it. *)
Joined == reader.pc = "exited"

Join ==
    /\ main.pc = "join" /\ Joined
    /\ bufs' = [bufs EXCEPT !.dsd = @ - Len(queue.fifo)]
    /\ queue' = [queue EXCEPT !.fifo = <<>>, !.open = FALSE]
    /\ Goto(IF main.noend THEN "final" ELSE "trackend")
    /\ UNCHANGED <<setup, pipe, sinks, reader, given, hit, late>>

(* The notification of the track's end reaches every sink, also behind one   *)
(* that fails: the results are not looked at.                                *)
EndNotified ==
    /\ sinks' = [k \in Sinks |-> [sinks[k] EXCEPT !.track = 0]]
    /\ UNCHANGED hit \/ Fault("end")

(* Mutant: the run goes on with the next track after an error. *)
TrackEndGoesOn ==
    /\ main.pc = "trackend"
    /\ EndNotified
    /\ main' = [main EXCEPT !.pc = "track", !.track = @ + 1]
    /\ UNCHANGED <<setup, pipe, queue, reader, bufs, given, late>>

(* Mutant: a cancelled pipeline returns before it notifies the sinks. *)
TrackEndSkipped ==
    /\ main.pc = "trackend"
    /\ IF pipe.cancelled THEN UNCHANGED <<sinks, hit>> ELSE EndNotified
    /\ LET code == IF pipe.cancelled THEN "CANCELLED" ELSE main.result
       IN  main' = IF code = "OK" THEN [main EXCEPT !.pc = "track", !.track = @ + 1]
                   ELSE [main EXCEPT !.pc = "final", !.result = code]
    /\ UNCHANGED <<setup, pipe, queue, reader, bufs, given, late>>

(* Notify the sinks of the track's end; a cancelled pipeline ends here. *)
TrackEnd ==
    /\ main.pc = "trackend"
    /\ EndNotified
    /\ LET code == IF pipe.cancelled THEN "CANCELLED" ELSE main.result
       IN  main' = IF code = "OK" THEN [main EXCEPT !.pc = "track", !.track = @ + 1]
                   ELSE [main EXCEPT !.pc = "final", !.result = code]
    /\ UNCHANGED <<setup, pipe, queue, reader, bufs, given, late>>

(* Finalize and close the sinks; a sink that fails to finalize is closed too, *)
(* and its failure is not looked at either.                                  *)
Finalize ==
    /\ main.pc = "final"
    /\ sinks' = [k \in Sinks |-> [sinks[k] EXCEPT !.open = FALSE]]
    /\ pipe' = [pipe EXCEPT !.state = IF main.result = "OK" THEN "FINISHED" ELSE "ERROR"]
    /\ UNCHANGED hit \/ Fault("finalize")
    /\ Goto("returned")
    /\ UNCHANGED <<setup, queue, reader, bufs, given, late>>

-----------------------------------------------------------------------------
(* reader_thread_func *)
RTake ==
    /\ reader.pc = "wait"
    /\ \/ /\ reader.shutdown
          /\ reader' = [reader EXCEPT !.pc = "exited"]
       \/ /\ ~reader.shutdown /\ reader.pending
          /\ reader' = [reader EXCEPT !.pc = "reset", !.pending = FALSE,
                                      !.finished = FALSE, !.error = "OK"]
    /\ UNCHANGED <<setup, pipe, main, sinks, queue, bufs, given, hit, late>>

(* The queue is reset: whatever was in it is given back, a cancel is forgotten. *)
RReset ==
    /\ reader.pc = "reset"
    /\ queue' = NewQueue
    /\ bufs' = [bufs EXCEPT !.dsd = @ - Len(queue.fifo)]
    /\ reader' = [reader EXCEPT !.pc = "seek"]
    /\ UNCHANGED <<setup, pipe, main, sinks, given, hit, late>>

(* An error: the code is stored and the track finished before the end is signalled. *)
Failed(r, code, pc) ==
    [r EXCEPT !.pc = pc, !.error = code, !.finished = TRUE]

RSeek ==
    /\ reader.pc = "seek"
    /\ \/ /\ reader' = [reader EXCEPT !.pc = "check", !.pos = 0]
          /\ UNCHANGED hit
       \/ /\ Fault("seek")
          /\ reader' = Failed(reader, "SEEK", "seekeof")
    /\ UNCHANGED <<setup, pipe, main, sinks, queue, bufs, given, late>>

Stopping == reader.cancelled \/ reader.shutdown

RCheck ==
    /\ reader.pc = "check"
    /\ \/ /\ Stopping
          /\ reader' = [reader EXCEPT !.pc = "stop"]
          /\ UNCHANGED <<bufs, hit>>
       \/ /\ ~Stopping
          /\ reader' = [reader EXCEPT !.pc = "read"]
          /\ bufs' = [bufs EXCEPT !.dsd = @ + 1]
          /\ UNCHANGED hit
       \/ /\ ~Stopping /\ Fault("alloc")
          /\ reader' = Failed(reader, "OUT_OF_MEMORY", "eof")
          /\ UNCHANGED bufs
    /\ UNCHANGED <<setup, pipe, main, sinks, queue, given, late>>

(* read_frame: the next frame, the early end of the track, or an error *)
RRead ==
    /\ reader.pc = "read"
    /\ \/ /\ LET n == reader.pos + 1
             IN  /\ reader' = [reader EXCEPT !.pc = "push", !.pos = n,
                                             !.frame = [n |-> n, last |-> n = Length]]
                 /\ given' = Append(given, <<main.track, n>>)
          /\ UNCHANGED <<bufs, hit>>
       \/ /\ Fault("short")
          /\ reader' = [reader EXCEPT !.pc = "push", !.frame = [n |-> 0, last |-> TRUE]]
          /\ UNCHANGED <<bufs, given>>
       \/ /\ Fault("read")
          /\ reader' = Failed(reader, "READ", "eof")
          /\ bufs' = [bufs EXCEPT !.dsd = @ - 1]
          /\ UNCHANGED given
    /\ UNCHANGED <<setup, pipe, main, sinks, queue, late>>

HasRoom == Len(queue.fifo) < QCapacity

RPush ==
    /\ reader.pc = "push"
    /\ \/ /\ ~queue.cancelled /\ HasRoom
          /\ queue' = [queue EXCEPT !.fifo = Append(@, reader.frame)]
          /\ reader' = [reader EXCEPT !.pc = IF reader.frame.last THEN "finish"
                                             ELSE "check"]
          /\ UNCHANGED bufs
       \/ /\ queue.cancelled
          /\ reader' = [reader EXCEPT !.pc = "stop", !.finished = TRUE]
          /\ bufs' = [bufs EXCEPT !.dsd = @ - 1]
          /\ UNCHANGED queue
    /\ UNCHANGED <<setup, pipe, main, sinks, given, hit, late>>

RFinish ==
    /\ reader.pc = "finish"
    /\ reader' = [reader EXCEPT !.pc = "eof", !.finished = TRUE]
    /\ UNCHANGED <<setup, pipe, main, sinks, queue, bufs, given, hit, late>>

REof ==
    /\ reader.pc \in {"eof", "seekeof"}
    /\ queue' = [queue EXCEPT !.eof = TRUE]
    /\ reader' = [reader EXCEPT !.pc = IF @ = "eof" THEN "stop" ELSE "wait"]
    /\ UNCHANGED <<setup, pipe, main, sinks, bufs, given, hit, late>>

RStop ==
    /\ reader.pc = "stop"
    /\ reader' = IF Stopping THEN [reader EXCEPT !.pc = "stopqueue", !.finished = TRUE]
                 ELSE [reader EXCEPT !.pc = "wait"]
    /\ UNCHANGED <<setup, pipe, main, sinks, queue, bufs, given, hit, late>>

RStopQueue ==
    /\ reader.pc = "stopqueue"
    /\ queue' = [queue EXCEPT !.cancelled = TRUE]
    /\ reader' = [reader EXCEPT !.pc = "wait"]
    /\ UNCHANGED <<setup, pipe, main, sinks, bufs, given, hit, late>>

-----------------------------------------------------------------------------
(* dsdpipe_cancel, from another thread while the run is under way *)
Cancel ==
    /\ Cancels /\ main.pc \notin {"start", "returned"} /\ ~pipe.cancelled
    /\ pipe' = [pipe EXCEPT !.cancelled = TRUE]
    /\ UNCHANGED <<setup, main, sinks, queue, reader, bufs, given, hit, late>>

MainStep ==
    \/ Run \/ OpenSink \/ SetRunning \/ NextTrack \/ TrackStart \/ CreateReader
    \/ Loop \/ Pop \/ Empty \/ Decode \/ WriteDsd \/ DsdWritten \/ Convert
    \/ WritePcm \/ PcmWritten \/ Release \/ Clean \/ CancelReader \/ CancelQueue
    \/ WaitReader \/ ShutdownQueue \/ Join \/ TrackEnd \/ Finalize

ReaderStep ==
    \/ RTake \/ RReset \/ RSeek \/ RCheck \/ RRead \/ RPush \/ RFinish \/ REof
    \/ RStop \/ RStopQueue

Next == MainStep \/ ReaderStep \/ Cancel

(* Both threads are scheduled, and calls of the source and the sinks return. *)
Spec == Init /\ [][Next]_vars /\ WF_vars(MainStep) /\ WF_vars(ReaderStep)
-----------------------------------------------------------------------------
Returned == main.pc = "returned"

(* The state of the pipeline, both threads and the queue stay within their types. *)
TypeOK ==
    /\ setup \in Setups
    /\ pipe \in [state : {"CONFIGURED", "RUNNING", "FINISHED", "ERROR"}, cancelled : BOOLEAN,
                 decoder : BOOLEAN, dsd2pcm : BOOLEAN]
    /\ main.pc \in {"start", "open", "track", "tstart", "loop", "pop", "empty", "decode",
                    "dsd", "convert", "pcm", "release", "clean", "cancel",
                    "cancelqueue", "wait", "shutdown", "join", "trackend", "final",
                    "returned"}
    /\ main.track \in 0..(Tracks + 1) /\ main.k \in 1..(Len(setup.caps) + 1)
    /\ main.batch \in Seq(0..Length) /\ N <= MaxBatch /\ main.j \in 1..(MaxBatch + 1)
    /\ main.complete \in BOOLEAN /\ main.noend \in BOOLEAN /\ main.result \in Codes
    /\ \A k \in Sinks : /\ sinks[k].open \in BOOLEAN
                        /\ sinks[k].track \in 0..Tracks
                        /\ sinks[k].log \in Seq((1..Tracks) \X (1..Length))
    /\ queue.fifo \in Seq([n : 0..Length, last : BOOLEAN])
    /\ Len(queue.fifo) <= QCapacity
    /\ queue.eof \in BOOLEAN /\ queue.cancelled \in BOOLEAN /\ queue.open \in BOOLEAN
    /\ reader.pc \in {"wait", "reset", "seek", "check", "read", "push", "finish", "eof",
                      "seekeof", "stop", "stopqueue", "exited"}
    /\ reader.error \in Codes /\ reader.pos \in 0..Length
    /\ bufs \in [dsd : Nat, pcm : 0..MaxBatch]
    /\ given \in Seq((1..Tracks) \X (1..Length))
    /\ hit \subseteq Kinds /\ late \in Nat

(* Each track from its first frame, without a gap, and the tracks in order. *)
TrackByTrack(s) ==
    \A i \in 1..Len(s) :
        IF s[i][2] = 1 THEN i > 1 => s[i - 1][1] < s[i][1]
        ELSE i > 1 /\ s[i - 1] = <<s[i][1], s[i][2] - 1>>

(***************************************************************************)
(* The state is well typed, a reader thread that has not ended still has   *)
(* the queue it pushes to (dsdpipe.c:1509-1521), the source is read track  *)
(* by track, and what a sink has been given is what the source handed out, *)
(* from the beginning, in order, without a gap, a repetition or a frame of *)
(* a later track: through the queue, the batches and the parallel          *)
(* decoding, and however the run ends (dsdpipe.c:1335 "in order").         *)
(***************************************************************************)
DeliveredInOrder ==
    /\ TypeOK
    /\ reader.pc # "exited" => queue.open
    /\ TrackByTrack(given)
    /\ \A k \in Sinks : IsPrefix(sinks[k].log, given)

(* A sink that stores audio. *)
Audio(k) == setup.caps[k] \intersect {"DSD", "PCM"} # {}

(***************************************************************************)
(* When dsdpipe_run returns DSDPIPE_OK, every sink that stores audio has   *)
(* every frame the source handed out, of every selected track: nothing is  *)
(* left behind in the queue, and no format goes unserved                   *)
(* (docs/LIBDSDPIPE.md:81-83).                                             *)
(***************************************************************************)
CompleteOnSuccess ==
    Returned /\ main.result = "OK" =>
        \A k \in Sinks : Audio(k) => /\ sinks[k].log = given
                                     /\ \A t \in 1..Tracks :
                                           \/ <<t, Length>> \in Range(given)
                                           \/ "short" \in hit

(***************************************************************************)
(* If anything went wrong in either thread, the run does not return        *)
(* DSDPIPE_OK, with two exceptions that the code makes: a sink that fails  *)
(* when a track ends or when it is finalized is not heard (see             *)
(* SinkFaultReported).  The reader's error crosses threads through         *)
(* has_error, which must be set before the end of the queue is signalled   *)
(* (reader_thread.c:146-152, dsdpipe.c:1249-1254).                         *)
(***************************************************************************)
FaultReported ==
    Returned /\ hit \ {"short", "end", "finalize"} # {} => main.result # "OK"

(***************************************************************************)
(* When a run has returned, whatever failed and whenever it was cancelled, *)
(* every buffer is back in its pool but for those that a failed DSD write  *)
(* leaves out: the ones of the frames before it in its batch               *)
(* (dsdpipe.c:1343-1353).  A failed PCM write, a failure of the reader or  *)
(* the decoder, and frames left in the queue leave none out.               *)
(***************************************************************************)
LeftOut == IF "writedsd" \in hit THEN PerFrame * (main.j - 1) ELSE 0

BuffersReturned == Returned => bufs = [dsd |-> LeftOut, pcm |-> 0]

(***************************************************************************)
(* Once cancelled, the run writes at most the batch it is working on, in   *)
(* each of the formats it feeds.                                           *)
(***************************************************************************)
CancelBounded == late <= MaxBatch * (IF needs_dsd /\ needs_pcm THEN 2 ELSE 1)

(***************************************************************************)
(* dsdpipe_run returns: neither thread waits for the other for ever,       *)
(* whatever fails and whenever the run is cancelled.                       *)
(***************************************************************************)
RunReturns == <>Returned

(***************************************************************************)
(* docs/LIBDSDPIPE.md:46-49, 111: a sink told that a track started is told *)
(* that it ended before it is finalized, also when the track is cancelled, *)
(* when a read, decode, conversion or write fails or PCM buffers run out.  *)
(* Three failures return from process_track before the notification and    *)
(* are exempt (see StartedTrackEnds): of a track_start, of the queue or    *)
(* reader, and of the decoder's buffers, which noend marks                 *)
(* (dsdpipe.c:1190, 1197-1233, 1284).                                      *)
(***************************************************************************)
TrackEndsFirst ==
    main.pc = "final" /\ hit \intersect {"start", "create"} = {} /\ ~main.noend
        => \A k \in Sinks : sinks[k].track = 0

(***************************************************************************)
(* Not true of the code: a sink told that a track started is told that it  *)
(* ended before it is finalized (docs/LIBDSDPIPE.md:46-49).  A failed      *)
(* track_start, a reader that cannot be created and decoder buffers that   *)
(* run out return before the notification (dsdpipe.c:1190, 1197, 1284).    *)
(***************************************************************************)
StartedTrackEnds == main.pc = "final" => \A k \in Sinks : sinks[k].track = 0

(***************************************************************************)
(* Not true of the code: a run in which a sink failed does not return      *)
(* DSDPIPE_OK (dsdpipe.h:617).  The results of track_end and finalize are  *)
(* dropped (dsdpipe.c:1526, 1631).                                         *)
(***************************************************************************)
SinkFaultReported ==
    Returned /\ hit \intersect {"open", "start", "writedsd", "writepcm", "end", "finalize"} # {}
        => main.result # "OK"

(* Not true of the code: every buffer a run takes goes back to its pool    *)
(* (docs/LIBDSDPIPE.md:121).                                               *)
EveryBufferReturned == Returned => bufs = [dsd |-> 0, pcm |-> 0]

(***************************************************************************)
(* Not true of the code: a request to cancel a run that is under way       *)
(* stands (dsdpipe.h:622-624).                                             *)
(***************************************************************************)
CancelStands == [][pipe.cancelled => pipe'.cancelled]_vars
=============================================================================
