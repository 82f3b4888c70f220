--------------------------- MODULE MCGThreadPreempt ---------------------------
(***************************************************************************)
(* Small instances of GThreadPreempt for TLC.                              *)
(***************************************************************************)
EXTENDS GThreadPreempt

CONSTANT Workers     \* calls of gt_create

MCPriorities == SubSeq(<<3, 9, 1, 2, 3>>, 1, Workers)
===============================================================================
