----------------------------- MODULE MCPipeline -----------------------------
(* The pipelines that are checked. *)
EXTENDS Pipeline

dsf == {"DSD"}
dsdiff == {"DSD"}
dsdiff_dst == {"DSD", "DST"}
wav == {"PCM"}
cuesheet == {}

(* A decoded source to a DSD and a PCM sink, a DST source copied as it is, *)
(* a DSD source to two PCM sinks, and one refused combination.             *)
Served == {[src |-> "DST", caps |-> <<dsf, wav>>],
           [src |-> "DST", caps |-> <<dsdiff_dst, cuesheet>>],
           [src |-> "DSD", caps |-> <<wav, wav>>],
           [src |-> "DST", caps |-> <<dsdiff_dst, wav>>]}

(* A DST source, kept for one sink and to be decoded for another: not served. *)
Mixed == {[src |-> "DST", caps |-> <<dsdiff_dst, dsf>>]}
=============================================================================
