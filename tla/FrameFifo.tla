------------------------------ MODULE FrameFifo ------------------------------
(***************************************************************************)
(* What the frame queue of libdsdpipe promises the two threads that share  *)
(* it: a bounded first-in first-out channel from one producer (the reader  *)
(* thread) to one consumer (the main thread), which can be ended, cancelled*)
(* and reset.  frame_queue.h states this contract; FrameQueue is the ring  *)
(* buffer that implements it, and is checked against this module.          *)
(*                                                                         *)
(* A frame is a record: its serial number and whether it is the last of    *)
(* its track.                                                              *)
(***************************************************************************)
EXTENDS FrameBatch

CONSTANTS
    Capacity,    \* frames the queue can hold (DSDPIPE_FRAME_QUEUE_CAPACITY)
    MaxBatch,    \* most frames one pop returns (DSDPIPE_BATCH_SIZE)
    MaxFrames    \* bound of the model: frames the producer makes

VARIABLES
    fifo,        \* the frames in the queue, oldest first
    eof,         \* no frame will follow
    cancelled,   \* both ends give up
    prod,        \* the producer: idle, or inside push with a frame
    cons         \* the consumer: idle, or inside pop_batch; its last answer

fifoVars == <<fifo, eof, cancelled, prod, cons>>

Frame == [id : 1..MaxFrames, last : BOOLEAN]
NoFrame == [id |-> 0, last |-> FALSE]

FifoInit ==
    /\ fifo = <<>>
    /\ eof = FALSE
    /\ cancelled = FALSE
    /\ prod = [at |-> "out", frame |-> NoFrame, rc |-> 0]
    /\ cons = [at |-> "out", got |-> <<>>, rc |-> 0]

CallPush ==
    /\ prod.at = "out"
    /\ prod.frame.id < MaxFrames
    /\ \E last \in BOOLEAN :
          prod' = [at |-> "in", frame |-> [id |-> prod.frame.id + 1, last |-> last],
                   rc |-> prod.rc]
    /\ UNCHANGED <<fifo, eof, cancelled, cons>>

PushDone ==
    /\ prod.at = "in" /\ ~cancelled /\ Len(fifo) < Capacity
    /\ fifo' = Append(fifo, prod.frame)
    /\ prod' = [at |-> "out", frame |-> prod.frame, rc |-> 0]
    /\ UNCHANGED <<eof, cancelled, cons>>

PushRefused ==
    /\ prod.at = "in" /\ cancelled
    /\ prod' = [at |-> "out", frame |-> prod.frame, rc |-> -1]
    /\ UNCHANGED <<fifo, eof, cancelled, cons>>

CallPop ==
    /\ cons.at = "out"
    /\ cons' = [at |-> "in", got |-> <<>>, rc |-> cons.rc]
    /\ UNCHANGED <<fifo, eof, cancelled, prod>>

PopDone ==
    /\ cons.at = "in" /\ ~cancelled
    /\ fifo # <<>> \/ eof
    /\ LET n == BatchLen(fifo, MaxBatch)
       IN  /\ cons' = [at |-> "out", got |-> SubSeq(fifo, 1, n), rc |-> 0]
           /\ fifo' = SubSeq(fifo, n + 1, Len(fifo))
    /\ UNCHANGED <<eof, cancelled, prod>>

PopRefused ==
    /\ cons.at = "in" /\ cancelled
    /\ cons' = [at |-> "out", got |-> <<>>, rc |-> -1]
    /\ UNCHANGED <<fifo, eof, cancelled, prod>>

SignalEof ==
    /\ prod.at = "out"
    /\ eof' = TRUE
    /\ UNCHANGED <<fifo, cancelled, prod, cons>>

Cancel ==
    /\ prod.at = "out" \/ cons.at = "out"
    /\ cancelled' = TRUE
    /\ UNCHANGED <<fifo, eof, prod, cons>>

Reset ==
    /\ prod.at = "out"
    /\ fifo' = <<>>
    /\ eof' = FALSE
    /\ cancelled' = FALSE
    /\ UNCHANGED <<prod, cons>>

(* The queue is freed; neither thread is inside it. *)
Destroy ==
    /\ prod.at = "out" /\ cons.at = "out"
    /\ fifo' = <<>>
    /\ UNCHANGED <<eof, cancelled, prod, cons>>

FifoNext ==
    \/ CallPush \/ PushDone \/ PushRefused
    \/ CallPop \/ PopDone \/ PopRefused
    \/ SignalEof \/ Cancel \/ Reset \/ Destroy

(***************************************************************************)
(* A push returns once there is room and a pop once there is something to  *)
(* return, if that stays so.                                               *)
(***************************************************************************)
FifoSpec ==
    /\ FifoInit /\ [][FifoNext]_fifoVars
    /\ WF_fifoVars(PushDone \/ PushRefused)
    /\ WF_fifoVars(PopDone \/ PopRefused)
=============================================================================
