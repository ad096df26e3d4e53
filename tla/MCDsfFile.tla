----------------------------- MODULE MCDsfFile -----------------------------
(***************************************************************************)
(* A stereo file with blocks of two bytes: a write may fill no group, one  *)
(* or two, a frame of the source is not a multiple of a group, and a seek  *)
(* may land on a group or inside one.                                      *)
(***************************************************************************)
EXTENDS DsfFile

MCSeekOffsets == {-4, 1, 4}

=============================================================================
