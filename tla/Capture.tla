------------------------------ MODULE Capture ------------------------------
(***************************************************************************)
(* What a client may expect of a capture: IO/IO.c says that "Create/CLose  *)
(* work as Start/Stop".  Between a start and the end of the stop samples   *)
(* are taken, one at a time.  Each is handed over once, as one of the      *)
(* event group it was counted for, before the next is taken and before the *)
(* stop is done; whoever takes it may choose the group to count next.      *)
(***************************************************************************)
CONSTANTS
  Rows,      \* the event groups; a capture starts with group 0
  NoSample   \* no row

VARIABLES
  phase,   \* "off", "starting", "on" or "stopping"
  group,   \* the event group being counted
  sample   \* the group of the sample taken and not handed over

vars == <<phase, group, sample>>

Init == phase = "off" /\ group = 0 /\ sample = NoSample

Start ==
  /\ phase = "off" /\ phase' = "starting"
  /\ group' = 0
  /\ UNCHANGED sample

Started ==
  /\ phase = "starting" /\ phase' = "on"
  /\ UNCHANGED <<group, sample>>

Stop ==
  /\ phase = "on" /\ phase' = "stopping"
  /\ UNCHANGED <<group, sample>>

Stopped ==
  /\ phase = "stopping" /\ phase' = "off"
  /\ sample = NoSample
  /\ UNCHANGED <<group, sample>>

TakeSample ==
  /\ phase # "off" /\ sample = NoSample
  /\ sample' = group
  /\ UNCHANGED <<phase, group>>

HandOver ==
  /\ sample # NoSample /\ sample' = NoSample
  /\ group' \in Rows
  /\ UNCHANGED phase

Next == Start \/ Started \/ Stop \/ Stopped \/ TakeSample \/ HandOver

Spec == Init /\ [][Next]_vars
=============================================================================
