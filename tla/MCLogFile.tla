----------------------------- MODULE MCLogFile -----------------------------
(***************************************************************************)
(* Small instances of LogFile: one process, the name "tmp.csv" and one     *)
(* more, so that a request in the middle of a line sends the rest of it to *)
(* another file; no, one or two event groups and one counter, so that a    *)
(* line is two to four pieces long and changes its width with iMLPX.       *)
(***************************************************************************)
EXTENDS LogFile

MCMlpx == {-1, 1, 2}

(* Lines gives a piece by its index; put end to end, the lines say the     *)
(* same.                                                                   *)
ASSUME LinesFlatten ==
  \A list \in UNION {[1 .. m -> Loops] : m \in 0 .. MaxReads}, n \in 0 .. 2 :
    Lines(list, n) = FlattenSeq([k \in DOMAIN list |-> Line(list[k], n)])
=============================================================================
