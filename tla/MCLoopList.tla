----------------------------- MODULE MCLoopList -----------------------------
(***************************************************************************)
(* Small instances of LoopList.  Addresses 1 to 3 lie in the profiled      *)
(* image, 0 and 4 do not; loops that branch from 3 belong to the original  *)
(* code and are not reported.  UINT64 totals wrap at 2, the UINT32 sample  *)
(* count at 3, so both wrap within a few samples.                          *)
(***************************************************************************)
EXTENDS LoopList

MCAddr == 0 .. 4
MCPMCs == {1}     \* OutSet = 1, MAX_PMCx = 2
MCMlpx == {-1, 0, 2}     \* what no row answers to: -1 is 2 to an unsigned count
=============================================================================
