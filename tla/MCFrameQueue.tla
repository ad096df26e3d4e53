---------------------------- MODULE MCFrameQueue ----------------------------
(* The frame queue as one producer and one consumer use it. *)
EXTENDS FrameQueue
=============================================================================
