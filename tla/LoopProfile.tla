---------------------------- MODULE LoopProfile ----------------------------
(***************************************************************************)
(* What the loop list of list/list.c promises, without the list: a profile *)
(* that holds, for each loop (a short backward branch FROM -> TO), how     *)
(* many times its branch was sampled and what the performance counters     *)
(* measured while execution stayed inside it, one figure per group of      *)
(* multiplexed events.  LoopList is shown to implement it.                 *)
(***************************************************************************)
EXTENDS LoopTypes

-----------------------------------------------------------------------------
VARIABLES
  profile,   \* loop -> its sample count and its cost in every event group
  inside,    \* the loops the last branch stayed in
  group,     \* the event group being counted
  report     \* what the last step wrote to the log

vars == <<profile, inside, group, report>>

Init ==
  /\ profile = [p \in {} |-> [count |-> 0, cost |-> <<>>]]
  /\ inside = {}
  /\ group = 0
  /\ report = NoReport

(* A known loop gains one sample, and what was counted since the previous  *)
(* sample is its cost if execution had not left it in between.             *)
Charged(p, reading) ==
  [count |-> (profile[p].count + 1) % CounterWidth,
   cost  |-> [profile[p].cost EXCEPT
                ![group] = IF p \in inside
                           THEN [i \in PMCs |-> Plus(@[i], reading[i])]
                           ELSE @]]

(* A loop met for the first time has cost nothing, in the groups measured. *)
Fresh(measured) ==
  [count |-> 1,
   cost  |-> [m \in Rows |-> [i \in PMCs |-> IF m \in measured THEN 0 ELSE Junk]]]

Observe(FROM, TO, reading) ==
  LET p == Pair(FROM, TO) IN
  /\ Profiled(FROM, TO)
  /\ \/ /\ p \in DOMAIN profile
        /\ profile' = [profile EXCEPT ![p] = Charged(p, reading)]
        /\ group' \in Rows
     \/ /\ IsLoop(FROM, TO) /\ p \notin DOMAIN profile
        /\ \E measured \in SUBSET Rows :
             profile' = [q \in DOMAIN profile \cup {p} |->
                           IF q = p THEN Fresh(measured) ELSE profile[q]]
        /\ UNCHANGED group
     \/ /\ p \notin DOMAIN profile      \* no loop, or no memory for it
        /\ UNCHANGED <<profile, group>>
  /\ inside' = {q \in DOMAIN profile' : Contains(q, TO)}
  /\ report' = NoReport

(* A loop is dropped from the profile; its line extrapolates the groups,   *)
(* each measured for its share of the samples only.                        *)
Forget(p, groups) ==
  /\ p \in DOMAIN profile
  /\ profile' = [q \in DOMAIN profile \ {p} |-> profile[q]]
  /\ inside' = inside \ {p}
  /\ report' = IF Reported(p, profile[p].count)
               THEN [FROM |-> p.FROM, TO |-> p.TO, count |-> profile[p].count,
                     cost |-> [m \in 0 .. groups - 1 |->
                                 [i \in PMCs |-> Times(groups, profile[p].cost[m][i])]]]
               ELSE NoReport
  /\ UNCHANGED group

(* A new capture counts the first group again. *)
Restart ==
  /\ group' = 0
  /\ report' = NoReport
  /\ UNCHANGED <<profile, inside>>

(* Nothing happens to the profile; the last line is no longer the news. *)
Idle ==
  /\ report' = NoReport
  /\ UNCHANGED <<profile, inside, group>>

Next ==
  \/ \E FROM, TO \in Addr, reading \in [PMCs -> UINT64] : Observe(FROM, TO, reading)
  \/ \E p \in LoopPairs, groups \in 0 .. Multiplexing : Forget(p, groups)
  \/ Restart
  \/ Idle

Spec == Init /\ [][Next]_vars
=============================================================================
