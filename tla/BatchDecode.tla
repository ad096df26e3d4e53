----------------------------- MODULE BatchDecode -----------------------------
(***************************************************************************)
(* dst_batch_decode of libdst (decoder_batch.c): a caller dispatches the   *)
(* frames of a batch to a thread pool, every worker borrows one of the     *)
(* decoder instances, and the caller collects the results in order.        *)
(*                                                                         *)
(* The process queue is taken as TPool provides it: bounded input, workers *)
(* that start a job only when its result has room, results by serial       *)
(* number.  Frame k of batch b is <<b, k>>; the caller passes the same     *)
(* output buffers again and again, as the buffer pool of the pipeline      *)
(* hands them out.                                                         *)
(***************************************************************************)
EXTENDS Naturals, Sequences, FiniteSets, FiniteSetsExt

CONSTANTS
    Workers,      \* threads of the pool
    DecoderCount, \* thread_count: decoder instances
    QSize,        \* DST_QUEUE_SIZE
    MaxCount,     \* bound on the frames of a batch
    MaxBatches,   \* bound on the calls
    MaxBad,       \* bound on the frames that cannot be decoded
    MayRefuse,    \* whether the pool may run out of memory for a job
    None

Decoders == 1..DecoderCount
Indices  == 1..MaxCount
Frames   == (1..MaxBatches) \X Indices
Single   == <<0, 1>>             \* the job allocated with the decoder
Jobs     == Frames \cup {Single}

ASSUME ConstantsAssumption ==
    /\ IsFiniteSet(Workers)
    /\ DecoderCount \in Nat \ {0} /\ QSize \in Nat \ {0}
    /\ MaxCount \in 1..(2 * QSize)  \* a larger batch fills both ends of the queue
    /\ MaxBatches \in Nat /\ MaxBad \in Nat /\ MayRefuse \in BOOLEAN
    /\ None \notin Decoders \cup Jobs

VARIABLES
    call,      \* the caller: pc, batch, count, i, err
    mem,       \* contents of the job structures
    alive,     \* job structures that are allocated
    input,     \* jobs dispatched and not taken
    output,    \* results not collected
    nextSer,   \* serial of the next job dispatched
    curSer,    \* serial of the next result to collect
    work,      \* what each worker is doing
    avail,     \* decoder_available
    availCount,\* available_count
    out,       \* contents of the caller's output buffers
    got,       \* frame whose result was reported for each index
    bad,       \* history: the frames that failed
    failed     \* history: a call has returned an error

vars == <<call, mem, alive, input, output, nextSer, curSer, work, avail,
          availCount, out, got, bad, failed>>

Idle == [pc |-> "idle", job |-> None, ser |-> 0, dec |-> None]

CallState == [pc : {"idle", "dispatch", "collect", "return", "discard", "drain", "gone"},
              batch : 0..MaxBatches, count : 0..MaxCount,
              i : 1..(MaxCount + 1), err : 0..(MaxCount + 1)]

Job == [frame : Frames \cup {None}, err : 0..MaxCount]

Item == [job : Jobs, ser : Nat]

WorkState == [pc : {"idle", "acquire", "decode", "release", "post"},
              job : Jobs \cup {None}, ser : Nat, dec : Decoders \cup {None}]

\* The workers that have a job.
Busy == {w \in Workers : work[w].pc # "idle"}

TypeOK ==
    /\ call \in CallState
    /\ mem \in [Jobs -> Job]
    /\ alive \subseteq Jobs
    /\ input \in Seq(Item) /\ Len(input) <= QSize
    /\ output \subseteq Item
    /\ nextSer \in Nat /\ curSer \in Nat
    /\ work \in [Workers -> WorkState]
    /\ out \in [Indices -> Frames \cup {None}]
    /\ got \in [Indices -> Frames \cup {None}]
    /\ bad \subseteq Frames
    /\ failed \in BOOLEAN
    /\ Cardinality(output) + Cardinality(Busy) <= QSize
    /\ availCount \in 0..DecoderCount
    /\ avail \subseteq Decoders

Init ==
    /\ call = [pc |-> "idle", batch |-> 0, count |-> 0, i |-> 1, err |-> 0]
    /\ mem = [j \in Jobs |-> [frame |-> None, err |-> 0]]
    /\ alive = {Single}
    /\ input = <<>>
    /\ output = {}
    /\ nextSer = 0
    /\ curSer = 0
    /\ work = [w \in Workers |-> Idle]
    /\ avail = Decoders
    /\ availCount = DecoderCount
    /\ out = [k \in Indices |-> None]
    /\ got = [k \in Indices |-> None]
    /\ bad = {}
    /\ failed = FALSE

(***************************************************************************)
(* The caller.  CallFailed stands for -1.                                  *)
(***************************************************************************)
CallFailed == MaxCount + 1

\* The job that carries frame k of the call.
JobOf(c, k) == IF c.count = 1 THEN Single ELSE <<c.batch, k>>

JobsOf(c) == {JobOf(c, k) : k \in 1..c.count}

Call(n) ==
    LET c == [pc |-> "dispatch", batch |-> call.batch + 1, count |-> n,
              i |-> 1, err |-> 0] IN
    /\ call.pc = "idle"
    /\ call.batch < MaxBatches
    /\ call' = c
    /\ alive' = alive \cup JobsOf(c)
    /\ out' = [k \in Indices |-> None]
    /\ got' = [k \in Indices |-> None]
    /\ UNCHANGED <<mem, input, output, nextSer, curSer, work, avail,
                   availCount, bad, failed>>

\* One job is filled in and dispatched; sa_tpool_dispatch waits for room.
Dispatch ==
    LET j == JobOf(call, call.i) IN
    /\ call.pc = "dispatch"
    /\ Len(input) < QSize
    /\ mem' = [mem EXCEPT ![j] = [frame |-> <<call.batch, call.i>>, err |-> 0]]
    /\ input' = Append(input, [job |-> j, ser |-> nextSer])
    /\ nextSer' = nextSer + 1
    /\ call' = IF call.i < call.count
               THEN [call EXCEPT !.i = @ + 1]
               ELSE [call EXCEPT !.i = 1, !.pc = "collect"]
    /\ UNCHANGED <<alive, output, curSer, work, avail, availCount, out, got,
                   bad, failed>>

\* The pool refuses a job: nothing is collected.
DispatchFails ==
    /\ MayRefuse
    /\ call.pc = "dispatch"
    /\ call' = [call EXCEPT !.pc = "return", !.err = CallFailed]
    /\ failed' = TRUE
    /\ UNCHANGED <<mem, alive, input, output, nextSer, curSer, work, avail,
                   availCount, out, got, bad>>

\* Mutant: whatever result is finished is taken.
AnyResult(r) == TRUE

\* sa_tpool_next_result_wait returns the results by serial number.
NextResult(r) == r.ser = curSer

LastFrame(c) == c.i = c.count

\* Mutant: the collection goes on after an error.
ErrorIgnored(e) == FALSE

\* The loop condition first_error == 0.
ErrorStops(e) == e # 0

Collect ==
    \E r \in output :
        LET e == mem[r.job].err IN
        /\ call.pc = "collect"
        /\ NextResult(r)
        /\ output' = output \ {r}
        /\ curSer' = curSer + 1
        /\ got' = [got EXCEPT ![call.i] = mem[r.job].frame]
        /\ call' = IF LastFrame(call) \/ ErrorStops(e)
                   THEN [call EXCEPT !.pc = "return", !.err = e]
                   ELSE [call EXCEPT !.i = @ + 1]
        /\ failed' = (failed \/ e # 0)
        /\ UNCHANGED <<mem, alive, input, nextSer, work, avail, availCount,
                       out, bad>>

\* The job array is freed, whether or not its jobs have run.
Return ==
    /\ call.pc = "return"
    /\ call' = [call EXCEPT !.pc = "idle"]
    /\ alive' = alive \ (JobsOf(call) \ {Single})
    /\ UNCHANGED <<mem, input, output, nextSer, curSer, work, avail,
                   availCount, out, got, bad, failed>>

\* dst_batch_decoder_destroy: the single job is freed, then the queue is
\* destroyed, which discards what waits and lets running jobs finish, and
\* then the decoders are closed.
Destroy ==
    /\ call.pc = "idle"
    /\ call' = [call EXCEPT !.pc = "discard"]
    /\ alive' = alive \ {Single}
    /\ UNCHANGED <<mem, input, output, nextSer, curSer, work, avail,
                   availCount, out, got, bad, failed>>

Discard ==
    /\ call.pc = "discard"
    /\ call' = [call EXCEPT !.pc = "drain"]
    /\ input' = <<>>
    /\ output' = {}
    /\ UNCHANGED <<mem, alive, nextSer, curSer, work, avail, availCount, out,
                   got, bad, failed>>

Drain ==
    /\ call.pc = "drain"
    /\ \A w \in Workers : work[w].pc = "idle"
    /\ call' = [call EXCEPT !.pc = "gone"]
    /\ output' = {}
    /\ UNCHANGED <<mem, alive, input, nextSer, curSer, work, avail,
                   availCount, out, got, bad, failed>>

(***************************************************************************)
(* A worker: dst_decode_worker between acquire_decoder and release_decoder.*)
(***************************************************************************)
HasRoom(n) == n < QSize

TakeJob(w) ==
    /\ work[w].pc = "idle"
    /\ input # <<>>
    /\ HasRoom(Cardinality(output) + Cardinality(Busy))
    /\ work' = [work EXCEPT ![w] = [pc |-> "acquire", job |-> Head(input).job,
                                    ser |-> Head(input).ser, dec |-> None]]
    /\ input' = Tail(input)
    /\ UNCHANGED <<call, mem, alive, output, nextSer, curSer, avail,
                   availCount, out, got, bad, failed>>

\* Mutant: the decoder stays marked available.
StillAvailable(d) == avail

Acquired(d) == avail \ {d}

\* The first available decoder, when the count says that there is one.
AcquireDecoder(w) ==
    /\ work[w].pc = "acquire"
    /\ availCount > 0
    /\ LET d == Min(avail) IN
       /\ avail' = Acquired(d)
       /\ work' = [work EXCEPT ![w].dec = d, ![w].pc = "decode"]
    /\ availCount' = availCount - 1
    /\ UNCHANGED <<call, mem, alive, input, output, nextSer, curSer, out, got,
                   bad, failed>>

\* dst_decoder_decode fills the output buffer of the job, or fails.
Decode(w) ==
    LET j == work[w].job
        f == mem[j].frame IN
    /\ work[w].pc = "decode"
    /\ \/ /\ out' = [out EXCEPT ![f[2]] = f]
          /\ UNCHANGED <<mem, bad>>
       \/ /\ Cardinality(bad) < MaxBad
          /\ bad' = bad \cup {f}
          /\ mem' = [mem EXCEPT ![j].err = f[2]]
          /\ UNCHANGED out
    /\ work' = [work EXCEPT ![w].pc = "release"]
    /\ UNCHANGED <<call, alive, input, output, nextSer, curSer, avail,
                   availCount, got, failed>>

\* Mutant: the count is not raised again.
NotCounted(n) == n

Counted(n) == n + 1

ReleaseDecoder(w) ==
    /\ work[w].pc = "release"
    /\ avail' = avail \cup {work[w].dec}
    /\ availCount' = Counted(availCount)
    /\ work' = [work EXCEPT ![w].pc = "post", ![w].dec = None]
    /\ UNCHANGED <<call, mem, alive, input, output, nextSer, curSer, out, got,
                   bad, failed>>

\* The pool keeps the job as its result.
PostResult(w) ==
    /\ work[w].pc = "post"
    /\ output' = output \cup {[job |-> work[w].job, ser |-> work[w].ser]}
    /\ work' = [work EXCEPT ![w] = Idle]
    /\ UNCHANGED <<call, mem, alive, input, nextSer, curSer, avail,
                   availCount, out, got, bad, failed>>

Work(w) == TakeJob(w) \/ AcquireDecoder(w) \/ Decode(w) \/ ReleaseDecoder(w)
           \/ PostResult(w)

Caller == Dispatch \/ DispatchFails \/ Collect \/ Return \/ Discard \/ Drain

Next == (\E n \in Indices : Call(n)) \/ Destroy \/ Caller
        \/ \E w \in Workers : Work(w)

\* Started calls go on; whether the caller calls again, or dispatch fails,
\* is open.
Spec == /\ Init /\ [][Next]_vars
        /\ WF_vars(Dispatch) /\ WF_vars(Collect) /\ WF_vars(Return)
        /\ WF_vars(Discard) /\ WF_vars(Drain)
        /\ \A w \in Workers : WF_vars(Work(w))

------------------------------------------------------------------------------
\* Not true of the code, though decoder_batch.h:67 promises it: when the call
\* returns 0, the result of every index is that of its frame, and every output
\* buffer holds its frame.
BatchInOrder ==
    call.pc = "return" /\ call.err = 0 =>
        \A k \in 1..call.count : /\ got[k] = <<call.batch, k>>
                                 /\ out[k] = <<call.batch, k>>

\* The same for as long as no call of the decoder has failed: frames are
\* decoded by several workers in any order, and none is reported before its
\* buffer is filled (decoder_batch.c:453-484).
OutputsRight == ~failed => BatchInOrder

\* The error of the first frame that cannot be decoded is returned, although
\* a later frame may have failed earlier (decoder_batch.c:469-477).
FirstErrorReported ==
    call.pc = "return" /\ call.err \in Indices
            /\ got[call.i] = <<call.batch, call.i>> =>
        call.err = Min({k \in Indices : <<call.batch, k>> \in bad})

\* The state is well typed; a decoder is used by one worker at a time, and the
\* count agrees with the flags although both are tested by others in between
\* (decoder_batch.c:110-123, 136-138); and until a call fails, no worker has a
\* job that has been freed (decoder_batch.c:486).
WorkersSafe ==
    /\ TypeOK
    /\ ~failed => \A w \in Workers : work[w].job # None => work[w].job \in alive
    /\ availCount = Cardinality(avail)
    /\ \A v, w \in Workers : v # w /\ work[v].dec # None => work[v].dec # work[w].dec
    /\ \A w \in Workers : work[w].dec \notin avail

\* A batch that fits the two ends of the queue is dispatched although nobody
\* collects meanwhile, so the call returns unless an earlier one has failed and
\* left results behind; the decoder can always be destroyed
\* (decoder_batch.c:453-466, 356-358).
CallReturns ==
    /\ call.pc = "dispatch" /\ ~failed ~> call.pc = "return"
    /\ call.pc = "discard" ~> call.pc = "gone"
==============================================================================
