------------------------------ MODULE MCOverlay ------------------------------
(* Model values for Overlay: the single-threaded loop, the multi-threaded   *)
(* loop, and the multi-threaded loop with the cleanup switched off.         *)
EXTENDS Overlay

MCSettings ==
    {[options |-> {"timeout"},       writes |-> Tags],
     [options |-> {"mt", "timeout"}, writes |-> {}],
     [options |-> {"mt", "share"},   writes |-> {}]}
==============================================================================
