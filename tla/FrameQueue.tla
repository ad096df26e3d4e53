----------------------------- MODULE FrameQueue -----------------------------
(***************************************************************************)
(* libdsdpipe/src/frame_queue.c: the ring buffer between the reader thread *)
(* and the main thread, with its mutex and its two condition variables.    *)
(*                                                                         *)
(* Everything a call does between mtx_lock and mtx_unlock or cnd_wait is   *)
(* one action.  A thread inside push or pop_batch is at "lock" when it is  *)
(* about to acquire the mutex (just called, or woken) and at "wait" while  *)
(* it sleeps in cnd_wait; waking moves it from "wait" to "lock", so other  *)
(* calls can slip in before it re-reads the condition.                     *)
(***************************************************************************)
EXTENDS Integers, Sequences, FiniteSets

CONSTANTS
    Capacity,    \* capacity given to dsdpipe_frame_queue_create
    MaxBatch,    \* max_count given to pop_batch
    MaxFrames,   \* bound of the model: frames the producer makes
    MaxControl   \* bound of the model: calls of signal_eof, cancel and reset

ASSUME QueueConstants ==
    /\ Capacity \in Nat \ {0}
    /\ MaxBatch \in Nat \ {0}
    /\ MaxFrames \in Nat
    /\ MaxControl \in Nat

VARIABLES
    queue,       \* struct dsdpipe_frame_queue_s
    prod,        \* the producer thread: where it is, its frame, its last result
    cons,        \* the consumer thread: where it is, its batch, its last result
    unref,       \* frames given back with dsdpipe_buffer_unref
    seen,        \* frames the consumer has been given, in order
    control      \* calls of signal_eof, cancel and reset so far

vars == <<queue, prod, cons, unref, seen, control>>

Slots == 0..(Capacity - 1)
NULL == [id |-> 0, last |-> FALSE]
Frame == [id : 1..MaxFrames, last : BOOLEAN]

(***************************************************************************)
(* dsdpipe_frame_queue_create.  A slot holds the frame pointer and its     *)
(* is_last_frame flag.                                                     *)
(***************************************************************************)
Init ==
    /\ queue = [slot |-> [s \in Slots |-> NULL], head |-> 0, tail |-> 0,
                count |-> 0, eof |-> FALSE, cancelled |-> FALSE, open |-> TRUE]
    /\ prod = [pc |-> "idle", frame |-> NULL, rc |-> 0]
    /\ cons = [pc |-> "idle", got |-> <<>>, rc |-> 0]
    /\ unref = {}
    /\ seen = <<>>
    /\ control = 0

(* The frames in the queue, oldest first. *)
Contents(q) == [i \in 1..q.count |-> q.slot[(q.tail + i - 1) % Capacity]]

(* cnd_signal and cnd_broadcast on a condition at most one thread waits for *)
Woken(t) == [t EXCEPT !.pc = IF @ = "wait" THEN "lock" ELSE @]

-----------------------------------------------------------------------------
(***************************************************************************)
(* dsdpipe_frame_queue_push.  When it is refused, the reader gives the     *)
(* frame back.                                                             *)
(***************************************************************************)
CallPush ==
    /\ prod.pc = "idle" /\ queue.open
    /\ prod.frame.id < MaxFrames
    /\ \E last \in BOOLEAN :
          prod' = [prod EXCEPT !.pc = "lock",
                               !.frame = [id |-> prod.frame.id + 1, last |-> last]]
    /\ UNCHANGED <<queue, cons, unref, seen, control>>

Full(q) == q.count >= Capacity

PushWait ==
    /\ prod.pc = "lock"
    /\ Full(queue) /\ ~queue.cancelled
    /\ prod' = [prod EXCEPT !.pc = "wait"]
    /\ UNCHANGED <<queue, cons, unref, seen, control>>

Pushed(q, f) ==
    [q EXCEPT !.slot[q.head] = f, !.head = (@ + 1) % Capacity, !.count = @ + 1]

PushDone ==
    /\ prod.pc = "lock"
    /\ ~Full(queue) /\ ~queue.cancelled
    /\ queue' = Pushed(queue, prod.frame)
    /\ prod' = [prod EXCEPT !.pc = "idle", !.rc = 0]
    /\ cons' = Woken(cons)
    /\ UNCHANGED <<unref, seen, control>>

PushRefused ==
    /\ prod.pc = "lock"
    /\ queue.cancelled
    /\ prod' = [prod EXCEPT !.pc = "idle", !.rc = -1]
    /\ unref' = unref \union {prod.frame.id}
    /\ UNCHANGED <<queue, cons, seen, control>>

(***************************************************************************)
(* dsdpipe_frame_queue_pop_batch.  The loop stops at max_count, at an empty*)
(* queue, and after a frame flagged as last; each slot it empties becomes  *)
(* NULL.                                                                   *)
(***************************************************************************)
CallPop ==
    /\ cons.pc = "idle" /\ queue.open
    /\ cons' = [cons EXCEPT !.pc = "lock", !.got = <<>>]
    /\ UNCHANGED <<queue, prod, unref, seen, control>>

MustWait(q) == q.count = 0 /\ ~q.eof

PopWait ==
    /\ cons.pc = "lock"
    /\ MustWait(queue) /\ ~queue.cancelled
    /\ cons' = [cons EXCEPT !.pc = "wait"]
    /\ UNCHANGED <<queue, prod, unref, seen, control>>

(* The loop reaches its n-th round: n - 1 frames were taken, none a last one. *)
Reaches(q, n) ==
    /\ n <= MaxBatch /\ n <= q.count
    /\ \A i \in 1..(n - 1) : ~q.slot[(q.tail + i - 1) % Capacity].last

Popped(q) == Cardinality({n \in 1..q.count : Reaches(q, n)})

Emptied(q, n) ==
    LET taken == {(q.tail + i) % Capacity : i \in 0..(n - 1)}
    IN  [q EXCEPT !.slot = [s \in Slots |-> IF s \in taken THEN NULL ELSE @[s]],
                  !.tail = (@ + n) % Capacity,
                  !.count = @ - n]

PopDone ==
    /\ cons.pc = "lock"
    /\ ~MustWait(queue) /\ ~queue.cancelled
    /\ LET n == Popped(queue)
           got == SubSeq(Contents(queue), 1, n)
       IN  /\ queue' = Emptied(queue, n)
           /\ cons' = [pc |-> "idle", got |-> got, rc |-> 0]
           /\ seen' = seen \o got
           /\ prod' = IF n > 0 THEN Woken(prod) ELSE prod
    /\ UNCHANGED <<unref, control>>

PopRefused ==
    /\ cons.pc = "lock"
    /\ queue.cancelled
    /\ cons' = [pc |-> "idle", got |-> <<>>, rc |-> -1]
    /\ UNCHANGED <<queue, prod, unref, seen, control>>

-----------------------------------------------------------------------------
(* A call made by a thread that is not inside push or pop_batch. *)
Called(t) ==
    /\ t.pc = "idle" /\ queue.open
    /\ control < MaxControl
    /\ control' = control + 1

(* Mutant: the end is recorded without waking the consumer. *)
SignalEofSilent ==
    /\ Called(prod)
    /\ queue' = [queue EXCEPT !.eof = TRUE]
    /\ UNCHANGED <<prod, cons, unref, seen>>

(* dsdpipe_frame_queue_signal_eof, by the reader thread *)
SignalEof ==
    /\ Called(prod)
    /\ queue' = [queue EXCEPT !.eof = TRUE]
    /\ cons' = Woken(cons)
    /\ UNCHANGED <<prod, unref, seen>>

(* dsdpipe_frame_queue_cancel, by either thread *)
Cancel ==
    /\ Called(prod) \/ Called(cons)
    /\ queue' = [queue EXCEPT !.cancelled = TRUE]
    /\ prod' = Woken(prod)
    /\ cons' = Woken(cons)
    /\ UNCHANGED <<unref, seen>>

Ids(f) == {f[i].id : i \in DOMAIN f}

(* dsdpipe_frame_queue_reset, by the reader thread as it starts a track *)
Reset ==
    /\ Called(prod)
    /\ unref' = unref \union Ids(Contents(queue))
    /\ queue' = [Emptied(queue, queue.count) EXCEPT
                    !.head = 0, !.tail = 0, !.eof = FALSE, !.cancelled = FALSE]
    /\ UNCHANGED <<prod, cons, seen>>

(* Mutant: the queue is freed without giving its frames back. *)
DestroyUndrained ==
    /\ prod.pc = "idle" /\ cons.pc = "idle" /\ queue.open
    /\ queue' = [queue EXCEPT !.count = 0, !.open = FALSE]
    /\ UNCHANGED <<prod, cons, unref, seen, control>>

(***************************************************************************)
(* dsdpipe_frame_queue_destroy, by the main thread once the reader thread  *)
(* has been joined: the frames left are given back, the slots themselves   *)
(* are freed with the queue.                                               *)
(***************************************************************************)
Destroy ==
    /\ prod.pc = "idle" /\ cons.pc = "idle" /\ queue.open
    /\ queue' = [queue EXCEPT !.tail = (@ + queue.count) % Capacity,
                              !.count = 0, !.open = FALSE]
    /\ unref' = unref \union Ids(Contents(queue))
    /\ UNCHANGED <<prod, cons, seen, control>>

(* cnd_wait may return without a signal. *)
Spurious ==
    \/ /\ prod.pc = "wait"
       /\ prod' = Woken(prod)
       /\ UNCHANGED <<queue, cons, unref, seen, control>>
    \/ /\ cons.pc = "wait"
       /\ cons' = Woken(cons)
       /\ UNCHANGED <<queue, prod, unref, seen, control>>

ProducerStep == PushWait \/ PushDone \/ PushRefused
ConsumerStep == PopWait \/ PopDone \/ PopRefused

Next ==
    \/ CallPush \/ ProducerStep
    \/ CallPop \/ ConsumerStep
    \/ SignalEof \/ Cancel \/ Reset \/ Destroy
    \/ Spurious

(***************************************************************************)
(* A thread about to lock the mutex gets it: every critical section is     *)
(* short.  Nothing is assumed of spurious wake-ups.                        *)
(***************************************************************************)
Spec ==
    /\ Init /\ [][Next]_vars
    /\ WF_vars(ProducerStep) /\ WF_vars(ConsumerStep)

-----------------------------------------------------------------------------
(* The fields of the queue and of the two threads stay within their types. *)
TypeOK ==
    /\ queue \in [slot : [Slots -> Frame \union {NULL}], head : Slots, tail : Slots,
                  count : 0..Capacity, eof : BOOLEAN, cancelled : BOOLEAN,
                  open : BOOLEAN]
    /\ prod \in [pc : {"idle", "lock", "wait"}, frame : Frame \union {NULL}, rc : {0, -1}]
    /\ cons \in [pc : {"idle", "lock", "wait"}, got : Seq(Frame), rc : {0, -1}]
    /\ unref \subseteq 1..MaxFrames /\ seen \in Seq(Frame)
    /\ control \in 0..MaxControl

(***************************************************************************)
(* The state is well typed, and every frame the producer made is in exactly*)
(* one place: in its hands, in the ring, with the consumer, or given back  *)
(* to its pool.  No frame is lost or handed out twice, through every wrap- *)
(* around of head and tail and every reset, and once the queue is destroyed*)
(* none is left inside (frame_queue.c:173, 243, 306).                      *)
(***************************************************************************)
Held == IF prod.pc = "idle" THEN {} ELSE {prod.frame.id}

FramesAccounted ==
    LET queued == Ids(Contents(queue))
    IN  /\ TypeOK
        /\ Held \union queued \union Ids(seen) \union unref = 1..prod.frame.id
        /\ Cardinality(Held) + queue.count + Len(seen) + Cardinality(unref)
              = prod.frame.id
        /\ ~queue.open => queued = {}

(* Where the caller of the FIFO sees a thread: inside a call or not. *)
Place(t) == IF t.pc = "idle" THEN "out" ELSE "in"

Fifo == INSTANCE FrameFifo WITH
    fifo <- Contents(queue),
    eof <- queue.eof,
    cancelled <- queue.cancelled,
    prod <- [at |-> Place(prod), frame |-> prod.frame, rc |-> prod.rc],
    cons <- [at |-> Place(cons), got |-> cons.got, rc |-> cons.rc]

(***************************************************************************)
(* The ring buffer implements the bounded FIFO of FrameFifo, wake-ups      *)
(* included: a push that finds room and a pop that finds a frame or the    *)
(* end of the track return.                                                *)
(***************************************************************************)
ImplementsFifo == Fifo!FifoSpec
=============================================================================
