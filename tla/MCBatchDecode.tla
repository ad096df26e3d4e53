---------------------------- MODULE MCBatchDecode ----------------------------
(* BatchDecode for TLC: the constants are given in the configurations. *)
EXTENDS BatchDecode
==============================================================================
