----------------------------- MODULE MCBrainFS -----------------------------
(* BrainFS for TLC.  One name is longer than 24 bytes and begins like        *)
(* another; no definition depends on which of the rest is which.            *)
EXTENDS BrainFS, TLC

CONSTANTS a, short, long

MCExtents == {<<1, 1>>, <<2, 3>>}

\* The directory's long name is cut to the name of a file.
MCStarts == {<<long, a, short>>}

MCCut == [n \in Names |-> IF n = long THEN short ELSE n]
=============================================================================
