----------------------------- MODULE MCVfsFile ------------------------------
(* The virtual file with frames of 3 and blocks of 2 bytes per channel: as  *)
(* with 4704 and 4096, a frame completes one block or two.                  *)
EXTENDS VfsFile
=============================================================================
