--------------------------- MODULE MCProcessTable ---------------------------
(***************************************************************************)
(* Values for model-checking ProcessTable: every legal argument of waitpid, *)
(* and a ready_count that may run two below zero.                           *)
(***************************************************************************)
EXTENDS ProcessTable

MCWaitTargets == Pids \cup {AnyChild}
MCReadyMin    == -2
=============================================================================
