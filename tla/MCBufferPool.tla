---------------------------- MODULE MCBufferPool ----------------------------
(* BufferPool for TLC: threads and buffers are interchangeable. *)
EXTENDS BufferPool, TLC

Symmetry == Permutations(Threads) \cup Permutations(Buffers)
=============================================================================
