---------------------------- MODULE MCVfsReader -----------------------------
(* A seek computes an aligned frame of the track, or its end. *)
EXTENDS VfsReader

Aligned == {0, 2, TrackFrames}
=============================================================================
