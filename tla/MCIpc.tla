------------------------------- MODULE MCIpc --------------------------------
(***************************************************************************)
(* Values for model-checking Ipc.  ReadyMin = ReadyMax holds ready_count    *)
(* still: no call of this module reads it, and ProcessTable checks it.      *)
(***************************************************************************)
EXTENDS Ipc

MCAnyOrOne == {-1, 1}
=============================================================================
