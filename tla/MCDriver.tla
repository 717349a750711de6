------------------------------ MODULE MCDriver ------------------------------
(***************************************************************************)
(* Small instances of Driver.                                              *)
(***************************************************************************)
EXTENDS Driver

(* An Intel processor with all the driver needs and a given PEBS format.   *)
Fit(format) ==
  [intel |-> TRUE, remapped |-> FALSE, dtes64 |-> TRUE, ds |-> TRUE,
   bts_unavailable |-> FALSE, PEBs_V |-> format]

(* One machine per record format. *)
Supported == {Fit(format) : format \in 1 .. 3}

(* For each check a machine that fails it alone; the formats 0 and 4 are   *)
(* the first ones below and above those the driver knows.                  *)
Unsupported ==
  {[Fit(3) EXCEPT !.intel = FALSE], [Fit(3) EXCEPT !.remapped = TRUE],
   [Fit(3) EXCEPT !.dtes64 = FALSE], [Fit(3) EXCEPT !.ds = FALSE],
   [Fit(3) EXCEPT !.bts_unavailable = TRUE], Fit(0), Fit(4)}

AnyMachine == Supported \cup Unsupported
Relocated == {[Fit(3) EXCEPT !.remapped = TRUE]}
=============================================================================
