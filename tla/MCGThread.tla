------------------------------ MODULE MCGThread -------------------------------
(***************************************************************************)
(* Small instances of GThread for TLC: the priorities main passes to       *)
(* gt_create.                                                              *)
(***************************************************************************)
EXTENDS GThread

CONSTANT Workers     \* calls of gt_create

(* Distinct priorities; the second one is out of range and replaced. *)
MCPriorities == SubSeq(<<3, 9, 1, 2, 3>>, 1, Workers)
===============================================================================
