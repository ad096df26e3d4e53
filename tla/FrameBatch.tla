----------------------------- MODULE FrameBatch -----------------------------
(* What one dsdpipe_frame_queue_pop_batch takes off the frame queue. *)
EXTENDS Integers, Sequences, FiniteSetsExt

(***************************************************************************)
(* How many frames one pop takes off the queue q: as many as there are, up *)
(* to max, but none after the last frame of a track.                       *)
(***************************************************************************)
BatchLen(q, max) ==
    LET lasts == {i \in 1..Len(q) : q[i].last}
    IN  Min({Len(q), max} \union lasts)
=============================================================================
