---------------------------- MODULE MCMapReduce ----------------------------
(* Two processes with a key in common; the first writes more than its pipe *)
(* holds.                                                                  *)
EXTENDS MapReduce

CONSTANTS k1, k2

OutputMC == << <<k1, k2, k1>>, <<k1>> >>
=============================================================================
