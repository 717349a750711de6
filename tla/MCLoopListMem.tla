--------------------------- MODULE MCLoopListMem ---------------------------
(* Instances of LoopListMem for TLC. *)
EXTENDS LoopListMem

(* The branches 2 -> 1 and 3 -> 2 are loops that share the target 2;       *)
(* 3 -> 1 is too long.                                                     *)
MCAddr == {1, 2, 3}
MCPMCs == {1}
============================================================================
