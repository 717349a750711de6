----------------------------- MODULE LoopTypes -----------------------------
(***************************************************************************)
(* The constants of the loop list and the pure operators that the abstract *)
(* profile (LoopProfile) and the list that implements it (LoopList) share: *)
(* which samples are looked at, which branches are loops, and the wrapping *)
(* arithmetic of the counter totals.                                       *)
(***************************************************************************)
EXTENDS Integers

CONSTANTS
  Addr,          \* the branch addresses a sample may carry
  MaxBin,        \* _MAX_BIN_: addresses from here on are not profiled
  MaxSpan,       \* 0x1000: a longer backward branch is not a loop
  OriginalCode,  \* _Original_Code_, the start of the unpacked code ...
  OriginalRdata, \* ... and _Original_Rdata_, its end: never reported
  Multiplexing,  \* the number of event groups (rows)
  PMCs,          \* the counters measured: OutSet .. MAX_PMCx-1
  Width,         \* 2^64, the range of a UINT64 counter total
  CounterWidth,  \* 2^32, the range of the UINT32 sample count
  Junk           \* a total that was never initialised

ASSUME ProfileAssumption ==
  /\ Addr \subseteq Nat
  /\ MaxBin \in Nat /\ MaxSpan \in Nat
  /\ OriginalCode \in Nat /\ OriginalRdata \in Nat
  /\ Multiplexing \in Nat \ {0}
  /\ Width \in Nat \ {0}
  /\ CounterWidth \in Nat \ {0, 1}
  /\ Junk \notin Int

Rows == 0 .. Multiplexing - 1
UINT64 == 0 .. Width - 1
UINT32 == 0 .. CounterWidth - 1
Total == UINT64 \cup {Junk}

(* Arithmetic on totals wraps at 2^64; what is computed from junk is junk. *)
Plus(a, b) == IF a = Junk THEN Junk ELSE (a + b) % Width
Minus(a, b) == IF a = Junk \/ b = Junk THEN Junk ELSE (a - b) % Width
Times(n, a) == IF a = Junk THEN Junk ELSE (n * a) % Width

(* A sample is considered when both of its ends lie in the profiled image. *)
Profiled(FROM, TO) ==
  /\ FROM # 0 /\ FROM < MaxBin
  /\ TO # 0 /\ TO < MaxBin

(* A short backward branch closes a loop. *)
IsLoop(FROM, TO) == FROM > TO /\ FROM - TO < MaxSpan

Pair(FROM, TO) == [FROM |-> FROM, TO |-> TO]
LoopPairs == {p \in [FROM : Addr, TO : Addr] : IsLoop(p.FROM, p.TO)}

(* A branch target lies in the body of loop p. *)
Contains(p, TO) == p.TO <= TO /\ TO <= p.FROM

(* Loops of the original code, and loops seen once only, are not reported. *)
Reported(p, count) ==
  count > 1 /\ ~(OriginalCode <= p.FROM /\ p.FROM < OriginalRdata)

NoReport == [FROM |-> 0, TO |-> 0]
=============================================================================
