------------------------------ MODULE MCTPool ------------------------------
(* The thread pool as the repository uses it: a dispatcher feeds a queue and *)
(* a consumer empties it, each a thread of its own.                          *)
EXTENDS TPool
=============================================================================
