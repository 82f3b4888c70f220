---------------------------- MODULE MCGThreadStats ----------------------------
(***************************************************************************)
(* Small instances of GThreadStats for TLC.                                *)
(***************************************************************************)
EXTENDS GThreadStats

CONSTANT Workers     \* calls of gt_create

MCPriorities == SubSeq(<<3, 9, 1, 2, 3>>, 1, Workers)
===============================================================================
