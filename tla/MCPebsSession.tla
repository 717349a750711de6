--------------------------- MODULE MCPebsSession ---------------------------
(***************************************************************************)
(* Small instances of PebsSession: two client threads, two cores, the      *)
(* second being the target, two event groups and two counters as in        *)
(* simple-pebs.h, and as many pool blocks as the sessions can hold.        *)
(***************************************************************************)
EXTENDS PebsSession, TLC

MCCores == 0 .. 1
MCRows == 0 .. 1     \* Multiplexing = 2
MCPMCs == 0 .. 1     \* MAX_PMCx = 2

(* Blocks differ in nothing but their address. *)
PoolSymmetry == Permutations(Blocks)
=============================================================================
