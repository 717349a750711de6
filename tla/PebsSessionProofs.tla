------------------------- MODULE PebsSessionProofs -------------------------
(***************************************************************************)
(* Theorems about PebsSession: for any number of clients, cores, blocks,   *)
(* event groups and counters, one session at a time never goes wrong.      *)
(***************************************************************************)
EXTENDS PebsSession, TLAPS

-----------------------------------------------------------------------------
(* The session                                                             *)

(* Where the only session is: at a step of an IRP, open, or nowhere.       *)
PhaseOf(at, handles) ==
  IF handles # {} THEN "open"
  ELSE IF \A c \in Clients : at[c] = "user" THEN "closed"
  ELSE at[CHOOSE c \in Clients : at[c] # "user"]

Phase == PhaseOf(pc, opened)

Busy(c) == pc[c] # "user" \/ c \in opened

OneSession ==
  /\ \A c, d \in Clients : Busy(c) /\ Busy(d) => c = d
  /\ \A c \in opened : pc[c] = "user"

Running  == {"enable_lbr", "open", "stop_attach", "disable_off"}
Counted  == Running \cup {"enable_on", "disable_clear"}
OwnsMsr  == Counted \cup {"enable_off", "enable_arm", "clean_msr"}
OwnsBuf  == OwnsMsr \cup {"setup_msr", "clean_buffer"}
OwnsDs   == OwnsBuf \cup {"setup_buffer", "clean_ds"}
OwnsLbr  == {"open", "stop_attach", "disable_off", "disable_clear", "clean_msr",
             "clean_buffer", "clean_ds", "stop_lbr"}
OnTarget == (StartSteps \cup StopSteps) \ {"attach", "stop_attach", "stop_dla"}

(* A thread that programs the PMU is on the target core and stays there.   *)
Placed ==
  \A c \in Clients : pc[c] \in OnTarget => c \in pinned /\ core[c] = Target

(* The blocks of the session, and no others, are allocated.                *)
Owned ==
  /\ live = (IF Phase # "closed" THEN {DLAListHeader} ELSE {})
              \cup (IF Phase \in OwnsDs THEN {DS_BASE} ELSE {})
              \cup (IF Phase \in OwnsBuf THEN {PEBS_BUFFER} ELSE {})
  /\ Phase # "closed" => DLAListHeader \in Blocks
  /\ Phase \in OwnsDs => DS_BASE \in Blocks /\ DS_BASE # DLAListHeader
  /\ Phase \in OwnsBuf =>
       /\ PEBS_BUFFER \in Blocks \ {DS_BASE, DLAListHeader}
       /\ area[DS_BASE].base = PEBS_BUFFER

OthersOff ==
  \A k \in Cores \ {Target} : pmi[k] = "idle" /\ msr[k] = Off(msr[k].LVT, OriginalDS)

(* What the DS area MSR holds outside a session: what it held before the   *)
(* first, or what is left of that in Old_DS.                               *)
Foreign == {OriginalDS, Truncated(OriginalDS)}

(* The PMU of the target core and its interrupt handler, phase by phase; n *)
(* is the number of records in the DS area.                                *)
Fits(phase, pmu, mode, n) ==
  /\ IF phase \in OwnsLbr THEN pmu.LBR = TRUE ELSE pmu.LBR = FALSE
  /\ IF phase \in OwnsMsr THEN pmu.DS_AREA = DS_BASE /\ Old_DS = Truncated(OriginalDS)
                          ELSE pmu.DS_AREA \in Foreign
  /\ mode # "idle" => phase \in Running
  /\ IF phase \in Running /\ mode \in {"idle", "entry"}
     THEN pmu.GLOBAL_CTRL = TRUE /\ pmu.PEBS_ENABLE = TRUE
     ELSE pmu.GLOBAL_CTRL = FALSE /\ pmu.PEBS_ENABLE = FALSE
  /\ phase \in OwnsMsr /\ mode = "idle" => pmu.LVT = TRUE
  /\ phase \in {"clean_buffer", "clean_ds", "stop_lbr", "stop_dla"} =>
       pmu.LVT = TRUE /\ pmu.DS_AREA = Truncated(OriginalDS)
  /\ phase = "closed" =>
       IF DLAListHeader = Null THEN pmu.DS_AREA = OriginalDS
       ELSE pmu.LVT = TRUE /\ pmu.DS_AREA = Truncated(OriginalDS)
  /\ phase \in OwnsBuf => n = IF mode = "idle" THEN 0 ELSE 1
  /\ \A i \in PMCs : pmu.EVNTSEL[i] \in (IF phase \in Counted THEN Rows ELSE {Null})
  /\ phase \in Counted /\ mode # "rearm" =>
       \A i \in PMCs : i >= OutSet => pmu.EVNTSEL[i] = Multiplex_Index

TargetPMU == Fits(Phase, msr[Target], pmi[Target], area[DS_BASE].records)

SInv ==
  /\ TypeOK /\ OneSession /\ Placed /\ Owned /\ OthersOff /\ TargetPMU
  /\ crashed => PoolMayFail

-----------------------------------------------------------------------------
(* Types, whatever the clients do                                          *)

LEMMA PmuTypes ==
  ASSUME NEW pmu \in PMU, Multiplex_Index \in Rows, NEW outset
  PROVE  /\ Stopped(pmu) \in PMU /\ Started(pmu) \in PMU /\ Cleared(pmu) \in PMU
         /\ Armed(pmu, outset) \in PMU
<1>1. [i \in PMCs |-> IF i >= outset THEN Multiplex_Index ELSE pmu.EVNTSEL[i]]
        \in [PMCs -> Rows \cup {Null}]
  BY DEF PMU
<1> QED  BY <1>1 DEF PMU, Stopped, Started, Cleared, Armed

LEMMA InitTypes == Init => TypeOK
<1> SUFFICES ASSUME Init PROVE TypeOK  OBVIOUS
<1>1. \A lvt \in BOOLEAN : Off(lvt, OriginalDS) \in PMU  BY DEF Off, PMU
<1>2. msr \in [Cores -> PMU]  BY <1>1 DEF Init
<1>3. area \in [Blocks -> [base : Pointer, records : {0, 1}]]
  BY DEF Init, Empty, Pointer
<1> QED  BY <1>2, <1>3, SessionAssumption DEF Init, TypeOK, Pointer, SessionAssumption

LEMMA WriteMsrTypes ==
  ASSUME TypeOK, NEW c \in Clients, NEW from, NEW to \in StartSteps \cup StopSteps,
         NEW pmu \in PMU, WriteMsr(c, from, to, pmu)
  PROVE  TypeOK'
  BY DEF TypeOK, WriteMsr, Step, SameThreads, thread, memory, globals

LEMMA StartTypes ==
  ASSUME TypeOK, NEW c \in Clients,
         \/ Create(c) \/ CreateNoMemory(c) \/ StartAttach(c) \/ SetupDs(c)
         \/ SetupBuffer(c) \/ SetupMsr(c)
         \/ EnableOff(c) \/ EnableArm(c) \/ EnableOn(c) \/ EnableLbr(c)
  PROVE  TypeOK'
<1> USE DEF Step, SameThreads, thread, memory, globals
<1>0. core[c] \in Cores /\ msr[core[c]] \in PMU /\ Target \in Cores /\ 0 \in Rows
  BY SessionAssumption DEF TypeOK, SessionAssumption
<1>1. CASE Create(c)
  BY <1>0, <1>1 DEF TypeOK, Create, Alloc, Pointer, StartSteps
<1>2. CASE CreateNoMemory(c)
  BY <1>2 DEF TypeOK, CreateNoMemory, Bugcheck
<1>3. CASE StartAttach(c)
  BY <1>0, <1>3 DEF TypeOK, StartAttach, AffinityTo, StartSteps
<1>4. CASE SetupDs(c)
  BY <1>4 DEF TypeOK, SetupDs, Alloc, Pointer, StartSteps, Empty
<1>5. CASE SetupBuffer(c)
  <2>1. PICK b \in Blocks :
           /\ Alloc(b) /\ PEBS_BUFFER' = b
           /\ area' = [area EXCEPT ![DS_BASE] = Empty(b)]
    BY <1>5 DEF SetupBuffer
  <2>2. Empty(b) \in [base : Pointer, records : {0, 1}]  BY DEF Empty, Pointer
  <2>3. area' \in [Blocks -> [base : Pointer, records : {0, 1}]]
    BY <2>1, <2>2 DEF TypeOK
  <2>4. crashed' \in BOOLEAN  BY <1>5 DEF SetupBuffer
  <2> QED  BY <1>5, <2>1, <2>3, <2>4 DEF TypeOK, SetupBuffer, Alloc, Pointer, StartSteps
<1>6. CASE SetupMsr(c)
  <2>1. [msr[core[c]] EXCEPT !.LVT = TRUE, !.DS_AREA = DS_BASE] \in PMU
    BY <1>0 DEF TypeOK, PMU, Pointer
  <2>2. msr' = [msr EXCEPT ![core[c]] = [@ EXCEPT !.LVT = TRUE, !.DS_AREA = DS_BASE]]
    BY <1>0, <1>6 DEF SetupMsr, TypeOK, PMU
  <2>3. msr' \in [Cores -> PMU]  BY <1>0, <2>1, <2>2 DEF TypeOK
  <2> QED  BY <1>6, <2>3 DEF TypeOK, SetupMsr, Truncated, StartSteps
<1>7. CASE EnableOff(c)
  BY <1>0, <1>7, PmuTypes, WriteMsrTypes DEF EnableOff, StartSteps, TypeOK
<1>8. CASE EnableArm(c)
  BY <1>0, <1>8, PmuTypes, WriteMsrTypes DEF EnableArm, StartSteps, TypeOK
<1>9. CASE EnableOn(c)
  BY <1>0, <1>9, PmuTypes, WriteMsrTypes DEF EnableOn, StartSteps, TypeOK
<1>10. CASE EnableLbr(c)
  <2>1. [msr[core[c]] EXCEPT !.LBR = TRUE] \in PMU  BY <1>0 DEF PMU
  <2>2. msr' \in [Cores -> PMU]  BY <1>0, <1>10, <2>1 DEF EnableLbr, TypeOK
  <2> QED  BY <1>10, <2>2 DEF TypeOK, EnableLbr
<1> QED  BY <1>1, <1>2, <1>3, <1>4, <1>5, <1>6, <1>7, <1>8, <1>9, <1>10

LEMMA StopTypes ==
  ASSUME TypeOK, NEW c \in Clients,
         \/ \E h \in Clients : Close(c, h)
         \/ StopAttach(c) \/ DisableOff(c) \/ DisableClear(c) \/ CleanMsr(c)
         \/ CleanBuffer(c) \/ CleanDs(c) \/ StopLbr(c) \/ StopDla(c)
         \/ \E k \in Cores : Migrate(c, k)
  PROVE  TypeOK'
<1> USE DEF Step, SameThreads, thread, memory, globals
<1>0. core[c] \in Cores /\ msr[core[c]] \in PMU /\ Target \in Cores
  BY SessionAssumption DEF TypeOK, SessionAssumption
<1>1. CASE \E h \in Clients : Close(c, h)
  BY <1>1 DEF TypeOK, Close, StopSteps
<1>2. CASE StopAttach(c)
  BY <1>0, <1>2 DEF TypeOK, StopAttach, AffinityTo, StopSteps
<1>3. CASE DisableOff(c)
  BY <1>0, <1>3, PmuTypes, WriteMsrTypes DEF DisableOff, StopSteps, TypeOK
<1>4. CASE DisableClear(c)
  BY <1>0, <1>4, PmuTypes, WriteMsrTypes DEF DisableClear, StopSteps, TypeOK
<1>5. CASE CleanMsr(c)
  <2>1. [msr[core[c]] EXCEPT !.DS_AREA = Old_DS] \in PMU  BY <1>0 DEF TypeOK, PMU
  <2> QED  BY <1>5, <2>1, WriteMsrTypes DEF CleanMsr, StopSteps
<1>6. CASE CleanBuffer(c)
  BY <1>6 DEF TypeOK, CleanBuffer, Free, StopSteps
<1>7. CASE CleanDs(c)
  BY <1>7 DEF TypeOK, CleanDs, Free, StopSteps
<1>8. CASE StopLbr(c)
  <2>1. [msr[core[c]] EXCEPT !.LBR = FALSE] \in PMU  BY <1>0 DEF PMU
  <2>2. msr' \in [Cores -> PMU]  BY <1>0, <1>8, <2>1 DEF StopLbr, TypeOK
  <2> QED  BY <1>8, <2>2 DEF TypeOK, StopLbr, StopSteps
<1>9. CASE StopDla(c)
  BY <1>9 DEF TypeOK, StopDla, Free
<1>10. CASE \E k \in Cores : Migrate(c, k)
  BY <1>10 DEF TypeOK, Migrate
<1> QED  BY <1>1, <1>2, <1>3, <1>4, <1>5, <1>6, <1>7, <1>8, <1>9, <1>10

LEMMA PmuStepTypes ==
  ASSUME TypeOK, NEW k \in Cores,
         Overflow(k) \/ PmiStop(k) \/ PmiMyCode(k) \/ PmiRearm(k)
  PROVE  TypeOK'
<1> USE DEF thread, memory, globals
<1>0. msr[k] \in PMU  BY DEF TypeOK
<1>1. CASE Overflow(k)
  <2>1. [msr[k] EXCEPT !.LVT = FALSE] \in PMU  BY <1>0 DEF PMU
  <2>2. msr' \in [Cores -> PMU] /\ pmi' \in [Cores -> {"idle", "entry", "mycode", "rearm"}]
    <3>1. \/ /\ pmi' = [pmi EXCEPT ![k] = "entry"]
             /\ msr' = [msr EXCEPT ![k] = [@ EXCEPT !.LVT = FALSE]]
          \/ pmi' = pmi /\ msr' = msr
      BY <1>0, <1>1 DEF Overflow, TypeOK, PMU
    <3>2. CASE pmi' = pmi /\ msr' = msr  BY <3>2 DEF TypeOK
    <3>3. CASE /\ pmi' = [pmi EXCEPT ![k] = "entry"]
               /\ msr' = [msr EXCEPT ![k] = [@ EXCEPT !.LVT = FALSE]]
      <4>1. msr' \in [Cores -> PMU]  BY <2>1, <3>3 DEF TypeOK
      <4>2. pmi' \in [Cores -> {"idle", "entry", "mycode", "rearm"}]  BY <3>3 DEF TypeOK
      <4> QED  BY <4>1, <4>2
    <3> QED  BY <3>1, <3>2, <3>3
  <2>3. area' \in [Blocks -> [base : Pointer, records : {0, 1}]] /\ crashed' \in BOOLEAN
    <3>1. \/ /\ area' = [area EXCEPT ![msr[k].DS_AREA].records = 1]
             /\ UNCHANGED crashed
          \/ crashed' = TRUE /\ UNCHANGED area
      BY <1>1 DEF Overflow, Bugcheck
    <3> QED  BY <3>1 DEF TypeOK
  <2> QED  BY <1>1, <2>2, <2>3 DEF Overflow, TypeOK
<1>2. CASE PmiStop(k)
  <2>1. msr' \in [Cores -> PMU]  BY <1>0, <1>2, PmuTypes DEF PmiStop, TypeOK
  <2> QED  BY <1>2, <2>1 DEF PmiStop, TypeOK
<1>3. CASE PmiMyCode(k)
  BY <1>3 DEF PmiMyCode, TypeOK
<1>4. CASE PmiRearm(k)
  <2>1. Started(Armed(msr[k], OutSet)) \in PMU
    <3>1. Armed(msr[k], OutSet) \in PMU  BY <1>0, PmuTypes DEF TypeOK
    <3> QED  BY <3>1, PmuTypes DEF TypeOK
  <2>2. [Started(Armed(msr[k], OutSet)) EXCEPT !.LVT = TRUE] \in PMU  BY <2>1 DEF PMU
  <2>3. msr' \in [Cores -> PMU]  BY <1>4, <2>2 DEF PmiRearm, TypeOK
  <2>4. area' \in [Blocks -> [base : Pointer, records : {0, 1}]]
    BY <1>4 DEF PmiRearm, TypeOK
  <2> QED  BY <1>4, <2>3, <2>4 DEF PmiRearm, TypeOK
<1> QED  BY <1>1, <1>2, <1>3, <1>4

LEMMA NextTypes == TypeOK /\ [Next]_vars => TypeOK'
<1> SUFFICES ASSUME TypeOK, [Next]_vars PROVE TypeOK'  OBVIOUS
<1>1. CASE \E c \in Clients :
             \/ Create(c) \/ CreateNoMemory(c)
             \/ \E h \in Clients : Close(c, h)
             \/ ThreadStep(c)
             \/ \E k \in Cores : Migrate(c, k)
  BY <1>1, StartTypes, StopTypes DEF ThreadStep
<1>2. CASE \E k \in Cores : Overflow(k) \/ PmiStep(k)
  BY <1>2, PmuStepTypes DEF PmiStep
<1>3. CASE UNCHANGED vars
  BY <1>3 DEF vars, thread, memory, globals, TypeOK
<1> QED  BY <1>1, <1>2, <1>3 DEF Next

(* The globals, the MSRs and the pool stay well typed even when sessions   *)
(* overlap.                                                                *)
THEOREM SessionTypes == Spec => []TypeOK
<1> QED  BY InitTypes, NextTypes, PTL DEF Spec

-----------------------------------------------------------------------------
(* Whatever overlaps and whatever fails: the target core alone             *)

LEMMA StaysAtTarget ==
  ASSUME TypeOK, Placed, NEW c \in Clients, NEW from, NEW to,
         Step(c, from, to), core' = core, pinned' = pinned,
         \/ to \in {"user", "attach", "stop_attach"}
         \/ from \in OnTarget /\ to \in OnTarget
  PROVE  Placed'
  BY DEF Placed, Step, TypeOK, OnTarget, StartSteps, StopSteps

LEMMA AttachAtTarget ==
  ASSUME TypeOK, Placed, NEW c \in Clients, NEW from, NEW to \in OnTarget,
         Step(c, from, to), AffinityTo(c, Target)
  PROVE  Placed'
  BY DEF Placed, Step, TypeOK, OnTarget, StartSteps, StopSteps, AffinityTo

LEMMA SwitchedOff ==
  ASSUME NEW lvt, NEW ds
  PROVE  /\ Off(lvt, ds).GLOBAL_CTRL = FALSE
         /\ Off(lvt, ds).LVT = lvt /\ Off(lvt, ds).DS_AREA = ds
  BY DEF Off

LEMMA OthersUntouched ==
  ASSUME OnlyTargetCounts,
         \A k \in Cores \ {Target} : msr'[k] = msr[k] /\ pmi'[k] = pmi[k]
  PROVE  OnlyTargetCounts'
  BY DEF OnlyTargetCounts

(* A step that writes MSRs runs on the target core.                        *)
LEMMA MsrStepsAtTarget ==
  ASSUME TypeOK, Placed, OnlyTargetCounts, NEW c \in Clients,
         NEW from \in OnTarget, NEW to, NEW pmu,
         Step(c, from, to), UNCHANGED pmi, msr' = [msr EXCEPT ![core[c]] = pmu]
  PROVE  OnlyTargetCounts'
<1>1. core[c] = Target  BY DEF Placed, Step
<1> QED  BY <1>1, OthersUntouched DEF TypeOK

LEMMA ThreadAtTarget ==
  ASSUME TypeOK, Placed, OnlyTargetCounts, NEW c \in Clients,
         \/ Create(c) \/ CreateNoMemory(c) \/ ThreadStep(c)
         \/ \E h \in Clients : Close(c, h)
         \/ \E k \in Cores : Migrate(c, k)
  PROVE  Placed' /\ OnlyTargetCounts'
<1> USE DEF SameThreads, thread, globals, memory
<1>1. CASE Create(c)
  BY <1>1, StaysAtTarget, OthersUntouched DEF Create
<1>2. CASE CreateNoMemory(c)
  BY <1>2, OthersUntouched DEF CreateNoMemory, Placed
<1>3. CASE \E h \in Clients : Close(c, h)
  BY <1>3, StaysAtTarget, OthersUntouched DEF Close
<1>4. CASE \E k \in Cores : Migrate(c, k)
  BY <1>4, OthersUntouched DEF Migrate, Placed, TypeOK
<1>5. CASE StartAttach(c) \/ StopAttach(c)
  <2>1. "setup_ds" \in OnTarget /\ "disable_off" \in OnTarget
    BY DEF OnTarget, StartSteps, StopSteps
  <2> QED  BY <1>5, <2>1, AttachAtTarget, OthersUntouched DEF StartAttach, StopAttach
<1>6. CASE SetupDs(c) \/ SetupBuffer(c) \/ CleanBuffer(c) \/ CleanDs(c)
  <2>1. /\ {"setup_ds", "setup_buffer", "setup_msr"} \subseteq OnTarget
        /\ {"clean_buffer", "clean_ds", "stop_lbr"} \subseteq OnTarget
    BY DEF OnTarget, StartSteps, StopSteps
  <2> QED  BY <1>6, <2>1, StaysAtTarget, OthersUntouched
           DEF SetupDs, SetupBuffer, CleanBuffer, CleanDs
<1>7. CASE SetupMsr(c) \/ EnableOff(c) \/ EnableArm(c) \/ EnableOn(c) \/ EnableLbr(c)
  <2>1. {"setup_msr", "enable_off", "enable_arm", "enable_on", "enable_lbr"}
           \subseteq OnTarget
    BY DEF OnTarget, StartSteps, StopSteps
  <2>2. Placed'
    BY <1>7, <2>1, StaysAtTarget
       DEF SetupMsr, WriteMsr, EnableOff, EnableArm, EnableOn, EnableLbr
  <2>3. OnlyTargetCounts'
    BY <1>7, <2>1, MsrStepsAtTarget
       DEF SetupMsr, WriteMsr, EnableOff, EnableArm, EnableOn, EnableLbr
  <2> QED  BY <2>2, <2>3
<1>8. CASE DisableOff(c) \/ DisableClear(c) \/ CleanMsr(c)
  <2>1. {"disable_off", "disable_clear", "clean_msr", "clean_buffer"} \subseteq OnTarget
    BY DEF OnTarget, StartSteps, StopSteps
  <2> QED  BY <1>8, <2>1, StaysAtTarget, MsrStepsAtTarget
           DEF DisableOff, DisableClear, CleanMsr, WriteMsr
<1>9. CASE StopLbr(c)
  <2>1. "stop_lbr" \in OnTarget  BY DEF OnTarget, StopSteps
  <2>2. Placed'
    BY <1>9 DEF StopLbr, Step, Placed, TypeOK, OnTarget, StartSteps, StopSteps
  <2> QED  BY <1>9, <2>1, <2>2, MsrStepsAtTarget DEF StopLbr
<1>10. CASE StopDla(c)
  BY <1>10, StaysAtTarget, OthersUntouched DEF StopDla
<1> QED
  BY <1>1, <1>2, <1>3, <1>4, <1>5, <1>6, <1>7, <1>8, <1>9, <1>10 DEF ThreadStep

(* A core that is off neither stores a record nor handles one.             *)
LEMMA PmuAtTarget ==
  ASSUME TypeOK, Placed, OnlyTargetCounts, NEW k \in Cores, Overflow(k) \/ PmiStep(k)
  PROVE  Placed' /\ OnlyTargetCounts'
<1>1. k = Target
  <2>1. k # Target => pmi[k] = "idle" /\ msr[k].GLOBAL_CTRL = FALSE
    <3> DEFINE off == Off(msr[k].LVT, msr[k].DS_AREA)
    <3>1. off.GLOBAL_CTRL = FALSE  BY DEF Off
    <3>2. k # Target => pmi[k] = "idle" /\ msr[k] = off  BY DEF OnlyTargetCounts
    <3> QED  BY <3>1, <3>2
  <2>2. CASE Overflow(k)  BY <2>1, <2>2 DEF Overflow, Counts
  <2>3. CASE PmiStep(k)  BY <2>1, <2>3 DEF PmiStep, PmiStop, PmiMyCode, PmiRearm
  <2> QED  BY <2>2, <2>3
<1>2. UNCHANGED thread
  BY DEF Overflow, PmiStep, PmiStop, PmiMyCode, PmiRearm
<1>3. Placed'  BY <1>2 DEF Placed, thread
<1>4. \A j \in Cores \ {Target} : msr'[j] = msr[j] /\ pmi'[j] = pmi[j]
  BY <1>1 DEF Overflow, PmiStep, PmiStop, PmiMyCode, PmiRearm, TypeOK
<1> QED  BY <1>3, <1>4, OthersUntouched

LEMMA NextAtTarget ==
  TypeOK /\ Placed /\ OnlyTargetCounts /\ [Next]_vars => Placed' /\ OnlyTargetCounts'
<1> SUFFICES ASSUME TypeOK, Placed, OnlyTargetCounts, [Next]_vars
             PROVE  Placed' /\ OnlyTargetCounts'
  OBVIOUS
<1>1. CASE UNCHANGED vars
  BY <1>1, OthersUntouched DEF vars, thread, Placed
<1> QED  BY <1>1, ThreadAtTarget, PmuAtTarget DEF Next

LEMMA InitAtTarget == Init => Placed /\ OnlyTargetCounts
<1> SUFFICES ASSUME Init PROVE Placed /\ OnlyTargetCounts  OBVIOUS
<1>1. Placed  BY DEF Init, Placed, OnTarget, StartSteps, StopSteps
<1>2. \A k \in Cores : pmi[k] = "idle" /\ \E lvt : msr[k] = Off(lvt, OriginalDS)
  BY DEF Init
<1>3. ASSUME NEW k \in Cores
      PROVE  msr[k] = Off(msr[k].LVT, msr[k].DS_AREA)
  <2>1. PICK lvt : msr[k] = Off(lvt, OriginalDS)  BY <1>2
  <2>2. Off(lvt, OriginalDS).LVT = lvt /\ Off(lvt, OriginalDS).DS_AREA = OriginalDS
    BY SwitchedOff
  <2> QED  BY <2>1, <2>2, Zenon
<1> QED  BY <1>1, <1>2, <1>3 DEF OnlyTargetCounts

(* No core but the target is ever programmed or interrupted, with any      *)
(* number of handles open at a time and whichever allocations fail.        *)
THEOREM SessionOnlyTargetCounts == Spec => []OnlyTargetCounts
<1>1. TypeOK /\ TypeOK' /\ Placed /\ OnlyTargetCounts /\ [Next]_vars
        => (Placed /\ OnlyTargetCounts)'
  BY NextAtTarget
<1> QED  BY <1>1, InitAtTarget, SessionTypes, PTL DEF Spec

-----------------------------------------------------------------------------
(* The phase of the session and how a step moves it                        *)

LEMMA PhaseFacts ==
  ASSUME NEW at, NEW handles
  PROVE  /\ handles # {} => PhaseOf(at, handles) = "open"
         /\ handles = {} /\ (\A c \in Clients : at[c] = "user")
              => PhaseOf(at, handles) = "closed"
         /\ \A c \in Clients :
              handles = {} /\ at[c] # "user" /\ (\A d \in Clients : at[d] # "user" => d = c)
              => PhaseOf(at, handles) = at[c]
<1>1. handles # {} => PhaseOf(at, handles) = "open"  BY DEF PhaseOf
<1>2. handles = {} /\ (\A c \in Clients : at[c] = "user") => PhaseOf(at, handles) = "closed"
  BY DEF PhaseOf
<1>3. ASSUME NEW c \in Clients, handles = {}, at[c] # "user",
             \A d \in Clients : at[d] # "user" => d = c
      PROVE  PhaseOf(at, handles) = at[c]
  <2> DEFINE first == CHOOSE d \in Clients : at[d] # "user"
  <2>1. first \in Clients /\ at[first] # "user"  BY <1>3
  <2>2. first = c  BY <1>3, <2>1
  <2> QED  BY <1>3, <2>2 DEF PhaseOf
<1> QED  BY <1>1, <1>2, <1>3

LEMMA InPhase ==
  ASSUME TypeOK, OneSession, NEW c \in Clients, pc[c] # "user"
  PROVE  opened = {} /\ Phase = pc[c] /\ \A d \in Clients : d # c => pc[d] = "user"
<1>1. \A d \in Clients : pc[d] # "user" => d = c  BY DEF OneSession, Busy
<1>2. opened = {}  BY DEF OneSession, Busy, TypeOK
<1> QED  BY <1>1, <1>2, PhaseFacts DEF Phase

LEMMA MoveOn ==
  ASSUME SInv, NEW c \in Clients, NEW from, NEW to, from # "user", to # "user",
         Step(c, from, to), opened' = opened
  PROVE  /\ opened = {} /\ Phase = from /\ Phase' = to /\ OneSession'
         /\ pc'[c] = to /\ \A d \in Clients : d # c => pc'[d] = "user"
         /\ pmi[core[c]] = "idle"
<1>1. pc \in [Clients -> {"user"} \cup StartSteps \cup StopSteps]  BY DEF SInv, TypeOK
<1>2. pc[c] = from /\ pc' = [pc EXCEPT ![c] = to] /\ pmi[core[c]] = "idle"  BY DEF Step
<1>3. opened = {} /\ Phase = from /\ \A d \in Clients : d # c => pc[d] = "user"
  BY <1>2, InPhase DEF SInv
<1>4. pc'[c] = to /\ \A d \in Clients : d # c => pc'[d] = "user"
  BY <1>1, <1>2, <1>3
<1>5. Phase' = to
  <2>1. PhaseOf(pc', opened') = pc'[c]  BY <1>3, <1>4, PhaseFacts
  <2> QED  BY <1>4, <2>1 DEF Phase
<1>6. OneSession'  BY <1>3, <1>4 DEF OneSession, Busy
<1> QED  BY <1>2, <1>3, <1>4, <1>5, <1>6

LEMMA StaysPut ==
  ASSUME SInv, NEW c \in Clients, NEW from \in OnTarget, NEW to, to # "user",
         Step(c, from, to), SameThreads
  PROVE  /\ Phase = from /\ Phase' = to /\ OneSession' /\ Placed'
         /\ core[c] = Target /\ pmi[Target] = "idle"
<1>1. from # "user"  BY DEF OnTarget, StartSteps, StopSteps
<1>2. /\ Phase = from /\ Phase' = to /\ OneSession' /\ pmi[core[c]] = "idle"
      /\ pc'[c] = to /\ \A d \in Clients : d # c => pc'[d] = "user"
  BY <1>1, MoveOn DEF SameThreads
<1>3. core[c] = Target /\ c \in pinned  BY DEF SInv, Placed, Step
<1>4. "user" \notin OnTarget  BY DEF OnTarget, StartSteps, StopSteps
<1>5. Placed'  BY <1>2, <1>3, <1>4 DEF Placed, SameThreads
<1> QED  BY <1>2, <1>3, <1>5

(* A step that writes the MSRs of the target core leaves only its PMU to be *)
(* looked at.                                                              *)
LEMMA WriteMsrKeeps ==
  ASSUME SInv, NEW c \in Clients, NEW from \in OnTarget \cap OwnsBuf,
         NEW to \in OnTarget \cap OwnsBuf, NEW pmu \in PMU, WriteMsr(c, from, to, pmu),
         Fits(from, msr[Target], "idle", 0) => Fits(to, pmu, "idle", 0)
  PROVE  SInv'
<1>1. to # "user" /\ to \in StartSteps \cup StopSteps
  BY DEF OnTarget, StartSteps, StopSteps
<1>2. /\ Step(c, from, to) /\ msr' = [msr EXCEPT ![core[c]] = pmu] /\ SameThreads
      /\ UNCHANGED <<pmi, live, area, DS_BASE, PEBS_BUFFER, Old_DS, Multiplex_Index,
                     DLAListHeader, crashed>>
  BY DEF WriteMsr, memory, globals
<1>3. /\ Phase = from /\ Phase' = to /\ OneSession' /\ Placed'
      /\ core[c] = Target /\ pmi[Target] = "idle"
  BY <1>1, <1>2, StaysPut
<1>4. Owned'
  <2>1. from # "closed" /\ to # "closed"  BY DEF OnTarget, StartSteps, StopSteps
  <2>2. from \in OwnsDs /\ to \in OwnsDs  BY DEF OwnsDs
  <2> QED  BY <1>2, <1>3, <2>1, <2>2 DEF SInv, Owned
<1>5. msr'[Target] = pmu /\ \A k \in Cores \ {Target} : msr'[k] = msr[k]
  BY <1>2, <1>3, SessionAssumption DEF SInv, TypeOK, SessionAssumption
<1>6. OthersOff'  BY <1>2, <1>5 DEF SInv, OthersOff
<1>7. TargetPMU'
  <2>1. area[DS_BASE].records = 0
    BY <1>3 DEF SInv, TargetPMU, Fits
  <2>2. Fits(from, msr[Target], "idle", 0)  BY <1>3, <2>1 DEF SInv, TargetPMU
  <2>3. Fits(to, pmu, "idle", 0)  BY <2>2
  <2>4. pmi'[Target] = "idle" /\ area'[DS_BASE'].records = 0  BY <1>2, <1>3, <2>1
  <2> QED  BY <1>2, <1>3, <1>5, <2>3, <2>4 DEF TargetPMU, Fits
<1>8. TypeOK'  BY <1>1, WriteMsrTypes DEF SInv
<1> QED  BY <1>2, <1>3, <1>4, <1>6, <1>7, <1>8 DEF SInv

-----------------------------------------------------------------------------
(* The session keeps its invariant, step by step                           *)

LEMMA PmuProgramming ==
  ASSUME SInv, NEW c \in Clients,
         \/ EnableOff(c) \/ EnableArm(c) \/ EnableOn(c)
         \/ DisableOff(c) \/ DisableClear(c) \/ CleanMsr(c)
  PROVE  SInv'
<1> DEFINE pmu == msr[core[c]]
<1>0. /\ Null \notin Rows /\ Multiplex_Index \in Rows /\ \A i \in PMCs : i \in Nat
      /\ Target \in Cores /\ OutSet \in PMCs
  BY SessionAssumption DEF SInv, TypeOK, SessionAssumption
<1>1. pmu \in PMU /\ (pc[c] \in OnTarget => core[c] = Target)
  BY DEF SInv, TypeOK, Placed
<1>2. {"enable_off", "enable_arm", "enable_on", "enable_lbr", "disable_off",
       "disable_clear", "clean_msr", "clean_buffer"} \subseteq OnTarget \cap OwnsBuf
  BY DEF OnTarget, StartSteps, StopSteps, OwnsBuf, OwnsMsr, Counted, Running
<1>3. pmu.EVNTSEL \in [PMCs -> Rows \cup {Null}]  BY <1>1 DEF PMU
<1> USE DEF Fits, OwnsBuf, OwnsMsr, OwnsLbr, Counted, Running
<1>4. CASE EnableOff(c)
  <2>1. Stopped(pmu) \in PMU  BY <1>0, <1>1, PmuTypes
  <2>2. Fits("enable_off", pmu, "idle", 0) => Fits("enable_arm", Stopped(pmu), "idle", 0)
    BY <1>1 DEF Stopped, PMU
  <2>3. core[c] = Target  BY <1>1, <1>2, <1>4 DEF EnableOff, WriteMsr, Step
  <2> QED  BY <1>2, <1>4, <2>1, <2>2, <2>3, WriteMsrKeeps DEF EnableOff
<1>5. CASE EnableArm(c)
  <2>1. Armed(pmu, 0) \in PMU  BY <1>0, <1>1, PmuTypes
  <2>2. /\ Armed(pmu, 0) = [pmu EXCEPT !.EVNTSEL = Armed(pmu, 0).EVNTSEL]
        /\ \A i \in PMCs : Armed(pmu, 0).EVNTSEL[i] = Multiplex_Index
    BY <1>0, <1>1, <1>3 DEF Armed, PMU
  <2>3. Fits("enable_arm", pmu, "idle", 0) => Fits("enable_on", Armed(pmu, 0), "idle", 0)
    BY <1>0, <1>1, <2>2 DEF PMU
  <2>4. core[c] = Target  BY <1>1, <1>2, <1>5 DEF EnableArm, WriteMsr, Step
  <2> QED  BY <1>2, <1>5, <2>1, <2>3, <2>4, WriteMsrKeeps DEF EnableArm
<1>6. CASE EnableOn(c)
  <2>1. Started(pmu) \in PMU  BY <1>0, <1>1, PmuTypes
  <2>2. Fits("enable_on", pmu, "idle", 0) => Fits("enable_lbr", Started(pmu), "idle", 0)
    BY <1>1 DEF Started, PMU
  <2>3. core[c] = Target  BY <1>1, <1>2, <1>6 DEF EnableOn, WriteMsr, Step
  <2> QED  BY <1>2, <1>6, <2>1, <2>2, <2>3, WriteMsrKeeps DEF EnableOn
<1>7. CASE DisableOff(c)
  <2>1. Stopped(pmu) \in PMU  BY <1>0, <1>1, PmuTypes
  <2>2. Fits("disable_off", pmu, "idle", 0) => Fits("disable_clear", Stopped(pmu), "idle", 0)
    BY <1>1 DEF Stopped, PMU
  <2>3. core[c] = Target  BY <1>1, <1>2, <1>7 DEF DisableOff, WriteMsr, Step
  <2> QED  BY <1>2, <1>7, <2>1, <2>2, <2>3, WriteMsrKeeps DEF DisableOff
<1>8. CASE DisableClear(c)
  <2>1. Cleared(pmu) \in PMU  BY <1>0, <1>1, PmuTypes
  <2>2. Fits("disable_clear", pmu, "idle", 0) => Fits("clean_msr", Cleared(pmu), "idle", 0)
    BY <1>1 DEF Cleared, PMU
  <2>3. core[c] = Target  BY <1>1, <1>2, <1>8 DEF DisableClear, WriteMsr, Step
  <2> QED  BY <1>2, <1>8, <2>1, <2>2, <2>3, WriteMsrKeeps DEF DisableClear
<1>9. CASE CleanMsr(c)
  <2>1. [pmu EXCEPT !.DS_AREA = Old_DS] \in PMU  BY <1>1 DEF SInv, TypeOK, PMU
  <2>2. Fits("clean_msr", pmu, "idle", 0)
          => Fits("clean_buffer", [pmu EXCEPT !.DS_AREA = Old_DS], "idle", 0)
    BY <1>1 DEF PMU, Foreign
  <2>3. core[c] = Target  BY <1>1, <1>2, <1>9 DEF CleanMsr, WriteMsr, Step
  <2> QED  BY <1>2, <1>9, <2>1, <2>2, <2>3, WriteMsrKeeps DEF CleanMsr
<1> QED  BY <1>4, <1>5, <1>6, <1>7, <1>8, <1>9

LEMMA StartKeeps ==
  ASSUME SInv, NEW c \in Clients,
         StartAttach(c) \/ SetupDs(c) \/ SetupBuffer(c) \/ SetupMsr(c) \/ EnableLbr(c)
  PROVE  SInv'
<1>0. TypeOK'  BY StartTypes DEF SInv
<1>1. /\ Target \in Cores /\ msr[Target] \in PMU /\ TargetPMU /\ OthersOff /\ Placed /\ Owned
      /\ OneSession /\ TypeOK /\ (crashed => PoolMayFail) /\ Null \notin Blocks
  BY SessionAssumption DEF SInv, TypeOK, SessionAssumption
<1> USE DEF thread, memory, globals
<1>2. CASE StartAttach(c)
  <2>1. /\ Phase = "attach" /\ Phase' = "setup_ds" /\ OneSession'
        /\ pc'[c] = "setup_ds" /\ \A d \in Clients : d # c => pc'[d] = "user"
    BY <1>2, MoveOn DEF StartAttach
  <2>2. Placed'
    <3>1. core'[c] = Target /\ c \in pinned'
      BY <1>1, <1>2 DEF StartAttach, AffinityTo, TypeOK
    <3> QED  BY <2>1, <3>1 DEF Placed, OnTarget, StartSteps, StopSteps
  <2>3. Owned'
    BY <1>1, <1>2, <2>1 DEF StartAttach, Owned, OwnsDs, OwnsBuf, OwnsMsr, Counted, Running
  <2>4. TargetPMU'
    BY <1>1, <1>2, <2>1
    DEF StartAttach, TargetPMU, Fits, OwnsLbr, OwnsBuf, OwnsMsr, Counted, Running
  <2> QED  BY <1>0, <1>1, <1>2, <2>1, <2>2, <2>3, <2>4 DEF SInv, StartAttach, OthersOff
<1>3. CASE SetupDs(c)
  <2>1. /\ Phase = "setup_ds" /\ Phase' = "setup_buffer" /\ OneSession' /\ Placed'
    BY <1>3, StaysPut DEF SetupDs, OnTarget, StartSteps, StopSteps
  <2>2. PICK b \in Blocks \ live : /\ live' = live \cup {b} /\ DS_BASE' = b
    BY <1>3 DEF SetupDs, Alloc
  <2>3. live = {DLAListHeader} /\ DLAListHeader \in Blocks
    BY <1>1, <2>1 DEF Owned, OwnsDs, OwnsBuf, OwnsMsr, Counted, Running
  <2>4. Owned'
    BY <1>3, <2>1, <2>2, <2>3
    DEF SetupDs, Owned, OwnsDs, OwnsBuf, OwnsMsr, Counted, Running
  <2>5. TargetPMU'
    BY <1>1, <1>3, <2>1
    DEF SetupDs, TargetPMU, Fits, OwnsLbr, OwnsBuf, OwnsMsr, Counted, Running
  <2> QED  BY <1>0, <1>1, <1>3, <2>1, <2>4, <2>5 DEF SInv, SetupDs, OthersOff
<1>4. CASE SetupBuffer(c)
  <2>1. /\ Phase = "setup_buffer" /\ Phase' = "setup_msr" /\ OneSession' /\ Placed'
        /\ pmi[Target] = "idle"
    BY <1>4, StaysPut DEF SetupBuffer, OnTarget, StartSteps, StopSteps
  <2>2. PICK b \in Blocks \ live :
          /\ live' = live \cup {b} /\ PEBS_BUFFER' = b
          /\ area' = [area EXCEPT ![DS_BASE] = Empty(b)]
    BY <1>4 DEF SetupBuffer, Alloc
  <2>3. /\ live = {DLAListHeader, DS_BASE} /\ DLAListHeader \in Blocks
        /\ DS_BASE \in Blocks /\ DS_BASE # DLAListHeader
    BY <1>1, <2>1 DEF Owned, OwnsDs, OwnsBuf, OwnsMsr, Counted, Running
  <2>4. area'[DS_BASE] = Empty(b)  BY <1>1, <2>2, <2>3 DEF TypeOK
  <2>5. Owned'
    BY <1>4, <2>1, <2>2, <2>3, <2>4
    DEF SetupBuffer, Owned, OwnsDs, OwnsBuf, OwnsMsr, Counted, Running, Empty
  <2>6. TargetPMU'
    BY <1>1, <1>4, <2>1, <2>4
    DEF SetupBuffer, TargetPMU, Fits, OwnsLbr, OwnsBuf, OwnsMsr, Counted, Running, Empty
  <2>7. crashed' = FALSE  BY <1>4, <2>3 DEF SetupBuffer
  <2> QED  BY <1>0, <1>1, <1>4, <2>1, <2>5, <2>6, <2>7 DEF SInv, SetupBuffer, OthersOff
<1>5. CASE SetupMsr(c)
  <2>1. /\ Phase = "setup_msr" /\ Phase' = "enable_off" /\ OneSession' /\ Placed'
        /\ core[c] = Target /\ pmi[Target] = "idle"
    BY <1>5, StaysPut DEF SetupMsr, OnTarget, StartSteps, StopSteps
  <2>2. msr' = [msr EXCEPT ![Target] = [@ EXCEPT !.LVT = TRUE, !.DS_AREA = DS_BASE]]
    BY <1>1, <1>5, <2>1 DEF SetupMsr, TypeOK, PMU
  <2>3. /\ msr'[Target] = [msr[Target] EXCEPT !.LVT = TRUE, !.DS_AREA = DS_BASE]
        /\ \A k \in Cores \ {Target} : msr'[k] = msr[k]
    BY <1>1, <2>2 DEF TypeOK
  <2>4. Owned'
    BY <1>1, <1>5, <2>1 DEF SetupMsr, Owned, OwnsDs, OwnsBuf, OwnsMsr, Counted, Running
  <2>5. OthersOff'  BY <1>1, <1>5, <2>3 DEF SetupMsr, OthersOff
  <2>6. Old_DS' = Truncated(OriginalDS)
    <3>1. msr[Target].DS_AREA \in Foreign
      BY <1>1, <2>1 DEF TargetPMU, Fits, OwnsMsr, Counted, Running
    <3>2. Old_DS' = Truncated(msr[Target].DS_AREA)  BY <1>5, <2>1 DEF SetupMsr
    <3> QED  BY <3>1, <3>2 DEF Foreign, Truncated
  <2>7. TargetPMU'
    <3>1. Fits("setup_msr", msr[Target], "idle", area[DS_BASE].records)
      BY <1>1, <2>1 DEF TargetPMU
    <3>2. /\ msr'[Target].GLOBAL_CTRL = msr[Target].GLOBAL_CTRL
          /\ msr'[Target].PEBS_ENABLE = msr[Target].PEBS_ENABLE
          /\ msr'[Target].EVNTSEL = msr[Target].EVNTSEL
          /\ msr'[Target].LBR = msr[Target].LBR
          /\ msr'[Target].LVT = TRUE /\ msr'[Target].DS_AREA = DS_BASE
      BY <1>1, <2>3 DEF PMU
    <3>3. UNCHANGED <<pmi, area, DS_BASE, Multiplex_Index>>  BY <1>5 DEF SetupMsr
    <3> QED
      BY <2>1, <2>6, <3>1, <3>2, <3>3
      DEF TargetPMU, Fits, OwnsLbr, OwnsBuf, OwnsMsr, Counted, Running
  <2> QED  BY <1>0, <1>1, <1>5, <2>1, <2>4, <2>5, <2>7 DEF SInv, SetupMsr
<1>6. CASE EnableLbr(c)
  <2>1. pc[c] = "enable_lbr" /\ pc' = [pc EXCEPT ![c] = "user"] /\ opened' = opened \cup {c}
    BY <1>6 DEF EnableLbr, Step
  <2>2. Phase = "enable_lbr" /\ opened = {} /\ \A d \in Clients : d # c => pc[d] = "user"
    BY <1>1, <2>1, InPhase
  <2>3. opened' = {c} /\ (\A d \in Clients : pc'[d] = "user") /\ Phase' = "open"
    <3>1. opened' = {c} /\ \A d \in Clients : pc'[d] = "user"
      BY <1>1, <2>1, <2>2 DEF TypeOK
    <3>2. PhaseOf(pc', opened') = "open"  BY <3>1, PhaseFacts
    <3> QED  BY <3>1, <3>2 DEF Phase
  <2>4. OneSession'  BY <2>3 DEF OneSession, Busy
  <2>5. Placed'  BY <2>3 DEF Placed, OnTarget, StartSteps, StopSteps
  <2>6. Owned'
    BY <1>1, <1>6, <2>2, <2>3
    DEF EnableLbr, Owned, OwnsDs, OwnsBuf, OwnsMsr, Counted, Running
  <2>7. core[c] = Target
    BY <1>1, <2>1 DEF Placed, OnTarget, StartSteps, StopSteps
  <2>8. /\ msr'[Target] = [msr[Target] EXCEPT !.LBR = TRUE]
        /\ \A k \in Cores \ {Target} : msr'[k] = msr[k]
    BY <1>1, <1>6, <2>7 DEF EnableLbr, TypeOK
  <2>9. TargetPMU'
    BY <1>1, <1>6, <2>2, <2>3, <2>8
    DEF EnableLbr, TargetPMU, Fits, OwnsLbr, OwnsBuf, OwnsMsr, Counted, Running, PMU
  <2>10. OthersOff'  BY <1>1, <1>6, <2>8 DEF EnableLbr, OthersOff
  <2> QED  BY <1>0, <1>1, <1>6, <2>4, <2>5, <2>6, <2>9, <2>10 DEF SInv, EnableLbr
<1> QED  BY <1>2, <1>3, <1>4, <1>5, <1>6

LEMMA StopKeeps ==
  ASSUME SInv, NEW c \in Clients,
         \/ \E h \in Clients : Close(c, h)
         \/ StopAttach(c) \/ CleanBuffer(c) \/ CleanDs(c) \/ StopLbr(c) \/ StopDla(c)
  PROVE  SInv'
<1>0. TypeOK'  BY StopTypes DEF SInv
<1>1. /\ Target \in Cores /\ msr[Target] \in PMU /\ TargetPMU /\ OthersOff /\ Placed /\ Owned
      /\ OneSession /\ TypeOK /\ (crashed => PoolMayFail)
  BY SessionAssumption DEF SInv, TypeOK, SessionAssumption
<1> USE DEF thread, memory, globals
<1>2. CASE \E h \in Clients : Close(c, h)
  <2>1. PICK h \in Clients : Close(c, h)  BY <1>2
  <2>2. h \in opened /\ pc[c] = "user" /\ opened' = opened \ {h}
        /\ pc' = [pc EXCEPT ![c] = "stop_attach"]
    BY <2>1 DEF Close, Step
  <2>3. opened = {h} /\ \A d \in Clients : pc[d] = "user"
    <3>1. \A d \in Clients : Busy(d) => d = h  BY <1>1, <2>2 DEF OneSession, Busy
    <3>2. opened = {h}  BY <1>1, <2>2, <3>1 DEF Busy, TypeOK
    <3>3. pc[h] = "user"  BY <1>1, <2>2 DEF OneSession
    <3> QED  BY <3>1, <3>2, <3>3 DEF Busy
  <2>4. /\ opened' = {} /\ pc'[c] = "stop_attach"
        /\ \A d \in Clients : d # c => pc'[d] = "user"
    BY <1>1, <2>2, <2>3 DEF TypeOK
  <2>5. Phase = "open"
    BY <2>3, PhaseFacts DEF Phase
  <2>6. Phase' = "stop_attach"
    <3>1. PhaseOf(pc', opened') = pc'[c]  BY <2>4, PhaseFacts
    <3> QED  BY <2>4, <3>1 DEF Phase
  <2>7. OneSession'  BY <2>4 DEF OneSession, Busy
  <2>8. Placed'  BY <2>4 DEF Placed, OnTarget, StartSteps, StopSteps
  <2>9. Owned'
    BY <1>1, <2>1, <2>5, <2>6
    DEF Close, Owned, OwnsDs, OwnsBuf, OwnsMsr, Counted, Running
  <2>10. TargetPMU'
    BY <1>1, <2>1, <2>5, <2>6
    DEF Close, TargetPMU, Fits, OwnsLbr, OwnsBuf, OwnsMsr, Counted, Running
  <2> QED  BY <1>0, <1>1, <2>1, <2>7, <2>8, <2>9, <2>10 DEF SInv, Close, OthersOff
<1>3. CASE StopAttach(c)
  <2>1. /\ Phase = "stop_attach" /\ Phase' = "disable_off" /\ OneSession'
        /\ pc'[c] = "disable_off" /\ \A d \in Clients : d # c => pc'[d] = "user"
    BY <1>3, MoveOn DEF StopAttach
  <2>2. Placed'
    <3>1. core'[c] = Target /\ c \in pinned'
      BY <1>1, <1>3 DEF StopAttach, AffinityTo, TypeOK
    <3> QED  BY <2>1, <3>1 DEF Placed, OnTarget, StartSteps, StopSteps
  <2>3. Owned'
    BY <1>1, <1>3, <2>1 DEF StopAttach, Owned, OwnsDs, OwnsBuf, OwnsMsr, Counted, Running
  <2>4. TargetPMU'
    BY <1>1, <1>3, <2>1
    DEF StopAttach, TargetPMU, Fits, OwnsLbr, OwnsBuf, OwnsMsr, Counted, Running
  <2> QED  BY <1>0, <1>1, <1>3, <2>1, <2>2, <2>3, <2>4 DEF SInv, StopAttach, OthersOff
<1>4. CASE CleanBuffer(c)
  <2>1. /\ Phase = "clean_buffer" /\ Phase' = "clean_ds" /\ OneSession' /\ Placed'
    BY <1>4, StaysPut DEF CleanBuffer, OnTarget, StartSteps, StopSteps
  <2>2. /\ live = {DLAListHeader, DS_BASE, PEBS_BUFFER}
        /\ DLAListHeader \in Blocks /\ DS_BASE \in Blocks
        /\ PEBS_BUFFER \notin {DLAListHeader, DS_BASE} /\ DS_BASE # DLAListHeader
    BY <1>1, <2>1 DEF Owned, OwnsDs, OwnsBuf
  <2>3. Owned' /\ crashed' = FALSE
    BY <1>4, <2>1, <2>2
    DEF CleanBuffer, Free, Owned, OwnsDs, OwnsBuf, OwnsMsr, Counted, Running
  <2>4. TargetPMU'
    BY <1>1, <1>4, <2>1
    DEF CleanBuffer, TargetPMU, Fits, OwnsLbr, OwnsBuf, OwnsMsr, Counted, Running
  <2> QED  BY <1>0, <1>1, <1>4, <2>1, <2>3, <2>4 DEF SInv, CleanBuffer, OthersOff
<1>5. CASE CleanDs(c)
  <2>1. /\ Phase = "clean_ds" /\ Phase' = "stop_lbr" /\ OneSession' /\ Placed'
    BY <1>5, StaysPut DEF CleanDs, OnTarget, StartSteps, StopSteps
  <2>2. /\ live = {DLAListHeader, DS_BASE} /\ DLAListHeader \in Blocks
        /\ DS_BASE # DLAListHeader
    BY <1>1, <2>1 DEF Owned, OwnsDs, OwnsBuf, OwnsMsr, Counted, Running
  <2>3. Owned' /\ crashed' = FALSE
    <3>1. live' = {DLAListHeader} /\ crashed' = FALSE  BY <1>5, <2>2 DEF CleanDs, Free
    <3>2. UNCHANGED <<area, DS_BASE, PEBS_BUFFER, DLAListHeader>>  BY <1>5 DEF CleanDs
    <3> QED
      BY <2>1, <2>2, <3>1, <3>2 DEF Owned, OwnsDs, OwnsBuf, OwnsMsr, Counted, Running
  <2>4. TargetPMU'
    BY <1>1, <1>5, <2>1
    DEF CleanDs, TargetPMU, Fits, OwnsLbr, OwnsBuf, OwnsMsr, Counted, Running
  <2> QED  BY <1>0, <1>1, <1>5, <2>1, <2>3, <2>4 DEF SInv, CleanDs, OthersOff
<1>6. CASE StopLbr(c)
  <2>1. /\ Phase = "stop_lbr" /\ Phase' = "stop_dla" /\ OneSession'
        /\ pc'[c] = "stop_dla" /\ \A d \in Clients : d # c => pc'[d] = "user"
    BY <1>6, MoveOn DEF StopLbr
  <2>2. Placed'  BY <2>1 DEF Placed, OnTarget, StartSteps, StopSteps
  <2>3. core[c] = Target
    BY <1>1, <1>6 DEF StopLbr, Step, Placed, OnTarget, StartSteps, StopSteps
  <2>4. /\ msr'[Target] = [msr[Target] EXCEPT !.LBR = FALSE]
        /\ \A k \in Cores \ {Target} : msr'[k] = msr[k]
    BY <1>1, <1>6, <2>3 DEF StopLbr, TypeOK
  <2>5. Owned'
    BY <1>1, <1>6, <2>1 DEF StopLbr, Owned, OwnsDs, OwnsBuf, OwnsMsr, Counted, Running
  <2>6. TargetPMU'
    BY <1>1, <1>6, <2>1, <2>4
    DEF StopLbr, TargetPMU, Fits, OwnsLbr, OwnsBuf, OwnsMsr, Counted, Running, PMU
  <2>7. OthersOff'  BY <1>1, <1>6, <2>4 DEF StopLbr, OthersOff
  <2> QED  BY <1>0, <1>1, <1>6, <2>1, <2>2, <2>5, <2>6, <2>7 DEF SInv, StopLbr
<1>7. CASE StopDla(c)
  <2>1. pc[c] = "stop_dla" /\ pc' = [pc EXCEPT ![c] = "user"] /\ opened' = opened
    BY <1>7 DEF StopDla, Step, SameThreads
  <2>2. Phase = "stop_dla" /\ opened = {} /\ \A d \in Clients : d # c => pc[d] = "user"
    BY <1>1, <2>1, InPhase
  <2>3. opened' = {} /\ (\A d \in Clients : pc'[d] = "user") /\ Phase' = "closed"
    <3>1. opened' = {} /\ \A d \in Clients : pc'[d] = "user"
      BY <1>1, <2>1, <2>2 DEF TypeOK
    <3>2. PhaseOf(pc', opened') = "closed"  BY <3>1, PhaseFacts
    <3> QED  BY <3>1, <3>2 DEF Phase
  <2>4. OneSession'  BY <2>3 DEF OneSession, Busy
  <2>5. Placed'  BY <2>3 DEF Placed, OnTarget, StartSteps, StopSteps
  <2>6. Owned' /\ crashed' = FALSE
    <3>1. live = {DLAListHeader}
      BY <1>1, <2>2 DEF Owned, OwnsDs, OwnsBuf, OwnsMsr, Counted, Running
    <3>2. live' = {} /\ crashed' = FALSE  BY <1>7, <3>1 DEF StopDla, Free
    <3> QED
      BY <2>3, <3>2 DEF Owned, OwnsDs, OwnsBuf, OwnsMsr, Counted, Running
  <2>7. TargetPMU'
    <3>1. DLAListHeader # Null
      BY <1>1, <2>2, SessionAssumption DEF Owned, SessionAssumption
    <3> QED
      BY <1>1, <1>7, <2>2, <2>3, <3>1
      DEF StopDla, Foreign, TargetPMU, Fits, OwnsLbr, OwnsBuf, OwnsMsr, Counted, Running
  <2> QED  BY <1>0, <1>1, <1>7, <2>4, <2>5, <2>6, <2>7 DEF SInv, StopDla, OthersOff
<1> QED  BY <1>2, <1>3, <1>4, <1>5, <1>6, <1>7

LEMMA OpenKeeps ==
  ASSUME SInv, Overlap = FALSE, NEW c \in Clients,
         Create(c) \/ CreateNoMemory(c) \/ \E k \in Cores : Migrate(c, k)
  PROVE  SInv'
<1>0. TypeOK'  BY StartTypes, StopTypes DEF SInv
<1>1. TargetPMU /\ OthersOff /\ Placed /\ Owned /\ OneSession /\ TypeOK
      /\ (crashed => PoolMayFail)
  BY DEF SInv
<1> USE DEF thread, memory, globals
<1>2. CASE Create(c)
  <2>1. opened = {} /\ (\A d \in Clients : pc[d] = "user") /\ opened' = {}
        /\ pc' = [pc EXCEPT ![c] = "attach"]
    BY <1>2 DEF Create, MayOpen, NobodyIn, Step, SameThreads
  <2>2. pc'[c] = "attach" /\ \A d \in Clients : d # c => pc'[d] = "user"
    BY <1>1, <2>1 DEF TypeOK
  <2>3. Phase = "closed"
    BY <2>1, PhaseFacts DEF Phase
  <2>4. Phase' = "attach"
    <3>1. PhaseOf(pc', opened') = pc'[c]  BY <2>1, <2>2, PhaseFacts
    <3> QED  BY <2>2, <3>1 DEF Phase
  <2>5. OneSession'  BY <2>1, <2>2 DEF OneSession, Busy
  <2>6. Placed'  BY <2>2 DEF Placed, OnTarget, StartSteps, StopSteps
  <2>7. Owned'
    BY <1>1, <1>2, <2>3, <2>4
    DEF Create, Alloc, Owned, OwnsDs, OwnsBuf, OwnsMsr, Counted, Running
  <2>8. TargetPMU'
    BY <1>1, <1>2, <2>3, <2>4
    DEF Create, TargetPMU, Fits, OwnsLbr, OwnsBuf, OwnsMsr, Counted, Running
  <2> QED  BY <1>0, <1>1, <1>2, <2>5, <2>6, <2>7, <2>8 DEF SInv, Create, OthersOff
<1>3. CASE CreateNoMemory(c)
  <2>1. Phase' = Phase  BY <1>3 DEF CreateNoMemory, Phase
  <2>2. OneSession' /\ Placed'
    BY <1>1, <1>3 DEF CreateNoMemory, OneSession, Busy, Placed
  <2>3. Owned' /\ OthersOff'  BY <1>1, <1>3, <2>1 DEF CreateNoMemory, Owned, OthersOff
  <2>4. TargetPMU'  BY <1>1, <1>3, <2>1 DEF CreateNoMemory, TargetPMU, Fits
  <2> QED  BY <1>0, <1>3, <2>2, <2>3, <2>4 DEF SInv, CreateNoMemory
<1>4. CASE \E k \in Cores : Migrate(c, k)
  <2>1. PICK k \in Cores : Migrate(c, k)  BY <1>4
  <2>2. Phase' = Phase  BY <2>1 DEF Migrate, Phase
  <2>3. OneSession'  BY <1>1, <2>1 DEF Migrate, OneSession, Busy
  <2>4. Placed'  BY <1>1, <2>1 DEF Migrate, Placed, TypeOK
  <2>5. Owned' /\ OthersOff'  BY <1>1, <2>1, <2>2 DEF Migrate, Owned, OthersOff
  <2>6. TargetPMU'  BY <1>1, <2>1, <2>2 DEF Migrate, TargetPMU, Fits
  <2> QED  BY <1>0, <1>1, <2>1, <2>3, <2>4, <2>5, <2>6 DEF SInv, Migrate
<1> QED  BY <1>2, <1>3, <1>4

LEMMA OverflowKeeps ==
  ASSUME SInv, NEW k \in Cores, Overflow(k)
  PROVE  SInv'
<1> USE DEF thread, memory, globals
<1>0. TypeOK'  BY PmuStepTypes DEF SInv
<1>1. /\ Target \in Cores /\ msr[Target] \in PMU /\ TargetPMU /\ OthersOff /\ Placed /\ Owned
      /\ OneSession /\ TypeOK /\ (crashed => PoolMayFail) /\ Null \notin Rows
  BY SessionAssumption DEF SInv, TypeOK, SessionAssumption
<1>2. k = Target
  <2>1. \A lvt : Off(lvt, OriginalDS).GLOBAL_CTRL = FALSE  BY DEF Off
  <2>2. msr[k].GLOBAL_CTRL  BY DEF Overflow, Counts
  <2> QED  BY <1>1, <2>1, <2>2 DEF OthersOff
<1>3. pmi[Target] = "idle" /\ Phase \in Running
  BY <1>1, <1>2 DEF Overflow, Counts, TargetPMU, Fits
<1>4. /\ Phase \in OwnsMsr /\ Phase \in OwnsBuf /\ Phase \in OwnsDs /\ Phase \in Counted
      /\ Phase \notin {"closed", "clean_buffer", "clean_ds", "stop_lbr", "stop_dla"}
  BY <1>3 DEF OwnsDs, OwnsBuf, OwnsMsr, Counted, Running
<1>5. /\ msr[Target].DS_AREA = DS_BASE /\ msr[Target].LVT = TRUE
      /\ DS_BASE \in live /\ area[DS_BASE].base \in live /\ DS_BASE \in Blocks
  BY <1>1, <1>3, <1>4 DEF TargetPMU, Fits, Owned
<1>6. /\ area' = [area EXCEPT ![DS_BASE].records = 1]
      /\ pmi' = [pmi EXCEPT ![Target] = "entry"]
      /\ msr' = [msr EXCEPT ![Target].LVT = FALSE]
      /\ UNCHANGED <<pc, opened, core, pinned, left, live, DS_BASE, PEBS_BUFFER, Old_DS,
                     Multiplex_Index, DLAListHeader, crashed>>
  BY <1>2, <1>5 DEF Overflow
<1>7. Phase' = Phase /\ OneSession' /\ Placed'
  BY <1>1, <1>6 DEF Phase, OneSession, Busy, Placed
<1>8. area'[DS_BASE].records = 1 /\ area'[DS_BASE].base = area[DS_BASE].base
  BY <1>1, <1>5, <1>6 DEF TypeOK
<1>9. Owned'  BY <1>1, <1>6, <1>7, <1>8 DEF Owned
<1>10. /\ pmi'[Target] = "entry" /\ msr'[Target] = [msr[Target] EXCEPT !.LVT = FALSE]
       /\ \A j \in Cores \ {Target} : pmi'[j] = pmi[j] /\ msr'[j] = msr[j]
  BY <1>1, <1>6 DEF TypeOK
<1>11. OthersOff'  BY <1>1, <1>10 DEF OthersOff
<1>12. TargetPMU'
  BY <1>1, <1>3, <1>4, <1>6, <1>7, <1>8, <1>10 DEF TargetPMU, Fits, PMU
<1> QED  BY <1>0, <1>1, <1>6, <1>7, <1>9, <1>11, <1>12 DEF SInv

LEMMA PmiKeeps ==
  ASSUME SInv, NEW k \in Cores, PmiStep(k)
  PROVE  SInv'
<1> USE DEF thread, memory, globals
<1>0. TypeOK'  BY PmuStepTypes DEF SInv, PmiStep
<1>1. /\ Target \in Cores /\ msr[Target] \in PMU /\ TargetPMU /\ OthersOff /\ Placed /\ Owned
      /\ OneSession /\ TypeOK /\ (crashed => PoolMayFail)
      /\ Multiplex_Index \in Rows /\ (\A i \in PMCs : i \in Nat) /\ OutSet \in PMCs
  BY SessionAssumption DEF SInv, TypeOK, SessionAssumption
<1>2. k = Target
  BY <1>1 DEF PmiStep, PmiStop, PmiMyCode, PmiRearm, OthersOff
<1>3. pmi[Target] # "idle" /\ Phase \in Running
  BY <1>1, <1>2 DEF PmiStep, PmiStop, PmiMyCode, PmiRearm, TargetPMU, Fits
<1>4. /\ Phase \in OwnsMsr /\ Phase \in OwnsBuf /\ Phase \in OwnsDs /\ Phase \in Counted
      /\ Phase \notin {"closed", "clean_buffer", "clean_ds", "stop_lbr", "stop_dla"}
  BY <1>3 DEF OwnsDs, OwnsBuf, OwnsMsr, Counted, Running
<1>5. DS_BASE \in live /\ DS_BASE \in Blocks  BY <1>1, <1>4 DEF Owned
<1>6. Phase' = Phase /\ OneSession' /\ Placed'
  BY <1>1 DEF PmiStep, PmiStop, PmiMyCode, PmiRearm, Phase, OneSession, Busy, Placed
<1>7. (crashed => PoolMayFail)'
  BY <1>1, <1>5 DEF PmiStep, PmiStop, PmiMyCode, PmiRearm
<1>8. \A j \in Cores \ {Target} : pmi'[j] = pmi[j] /\ msr'[j] = msr[j]
  BY <1>1, <1>2 DEF PmiStep, PmiStop, PmiMyCode, PmiRearm, TypeOK
<1>9. OthersOff'  BY <1>1, <1>8 DEF OthersOff
<1>10. area'[DS_BASE].base = area[DS_BASE].base
  BY <1>1, <1>5 DEF PmiStep, PmiStop, PmiMyCode, PmiRearm, TypeOK
<1>11. Owned'
  BY <1>1, <1>6, <1>10 DEF PmiStep, PmiStop, PmiMyCode, PmiRearm, Owned
<1>12. TargetPMU'
  <2>1. CASE PmiStop(k)
    <3>1. /\ pmi'[Target] = "mycode" /\ msr'[Target] = Stopped(msr[Target])
          /\ UNCHANGED <<area, DS_BASE, Old_DS, Multiplex_Index>> /\ pmi[Target] = "entry"
      BY <1>1, <1>2, <2>1 DEF PmiStop, TypeOK
    <3> QED  BY <1>1, <1>3, <1>4, <1>6, <3>1 DEF TargetPMU, Fits, Stopped, PMU
  <2>2. CASE PmiMyCode(k)
    <3>1. /\ pmi'[Target] = "rearm" /\ pmi[Target] = "mycode"
          /\ UNCHANGED <<area, DS_BASE, Old_DS, msr>>
      BY <1>1, <1>2, <2>2 DEF PmiMyCode, TypeOK
    <3> QED  BY <1>1, <1>3, <1>4, <1>6, <3>1 DEF TargetPMU, Fits
  <2>3. CASE PmiRearm(k)
    <3> DEFINE armed == Armed(msr[Target], OutSet)
    <3>1. /\ pmi'[Target] = "idle" /\ area'[DS_BASE].records = 0
          /\ msr'[Target] = [Started(armed) EXCEPT !.LVT = TRUE]
          /\ UNCHANGED <<DS_BASE, Old_DS, Multiplex_Index>>
      BY <1>1, <1>2, <1>5, <2>3 DEF PmiRearm, TypeOK
    <3>2. /\ armed.DS_AREA = msr[Target].DS_AREA /\ armed.LBR = msr[Target].LBR
          /\ armed \in PMU
          /\ \A i \in PMCs : /\ i >= OutSet => armed.EVNTSEL[i] = Multiplex_Index
                             /\ ~(i >= OutSet) => armed.EVNTSEL[i] = msr[Target].EVNTSEL[i]
      BY <1>1, PmuTypes DEF Armed, PMU
    <3> HIDE DEF armed
    <3>3. /\ msr'[Target].DS_AREA = msr[Target].DS_AREA /\ msr'[Target].LBR = msr[Target].LBR
          /\ msr'[Target].GLOBAL_CTRL = TRUE /\ msr'[Target].PEBS_ENABLE = TRUE
          /\ msr'[Target].LVT = TRUE /\ msr'[Target].EVNTSEL = armed.EVNTSEL
      BY <3>1, <3>2 DEF Started, PMU
    <3>4. \A i \in PMCs : armed.EVNTSEL[i] \in Rows
      BY <1>1, <1>4, <3>2 DEF TargetPMU, Fits
    <3> QED  BY <1>1, <1>3, <1>4, <1>6, <3>1, <3>2, <3>3, <3>4 DEF TargetPMU, Fits
  <2> QED  BY <2>1, <2>2, <2>3 DEF PmiStep
<1> QED  BY <1>0, <1>6, <1>7, <1>9, <1>11, <1>12 DEF SInv

-----------------------------------------------------------------------------
(* One session at a time                                                   *)

LEMMA InitSession == Init => SInv
<1> SUFFICES ASSUME Init PROVE SInv  OBVIOUS
<1>1. TypeOK  BY InitTypes
<1>2. Phase = "closed"
  <2>1. opened = {} /\ \A c \in Clients : pc[c] = "user"  BY DEF Init
  <2> QED  BY <2>1, PhaseFacts DEF Phase
<1>3. OneSession /\ Placed
  BY DEF Init, OneSession, Busy, Placed, OnTarget, StartSteps, StopSteps
<1>4. Owned  BY <1>2 DEF Init, Owned, OwnsDs, OwnsBuf, OwnsMsr, Counted, Running
<1>5. \A k \in Cores : pmi[k] = "idle" /\ msr[k] = Off(msr[k].LVT, OriginalDS)
  BY DEF Init, Off
<1>6. TargetPMU
  <2>1. pmi[Target] = "idle" /\ msr[Target] = Off(msr[Target].LVT, OriginalDS)
    BY <1>5, SessionAssumption DEF SessionAssumption
  <2>2. \A lvt : /\ Off(lvt, OriginalDS).LBR = FALSE /\ Off(lvt, OriginalDS).DS_AREA = OriginalDS
                 /\ Off(lvt, OriginalDS).GLOBAL_CTRL = FALSE /\ Off(lvt, OriginalDS).PEBS_ENABLE = FALSE
                 /\ \A i \in PMCs : Off(lvt, OriginalDS).EVNTSEL[i] = Null
    BY DEF Off
  <2>3. /\ msr[Target].LBR = FALSE /\ msr[Target].DS_AREA = OriginalDS
        /\ msr[Target].GLOBAL_CTRL = FALSE /\ msr[Target].PEBS_ENABLE = FALSE
        /\ \A i \in PMCs : msr[Target].EVNTSEL[i] = Null
    BY <2>1, <2>2
  <2> QED
    BY <1>2, <2>1, <2>3
    DEF Init, TargetPMU, Fits, Foreign, OwnsLbr, OwnsBuf, OwnsMsr, Counted, Running
<1> QED  BY <1>1, <1>3, <1>4, <1>5, <1>6 DEF Init, SInv, OthersOff

LEMMA NextSession ==
  ASSUME Overlap = FALSE, SInv, [Next]_vars
  PROVE  SInv'
<1>1. ASSUME NEW c \in Clients,
             \/ Create(c) \/ CreateNoMemory(c)
             \/ \E h \in Clients : Close(c, h)
             \/ ThreadStep(c)
             \/ \E k \in Cores : Migrate(c, k)
      PROVE  SInv'
  BY <1>1, OpenKeeps, StopKeeps, StartKeeps, PmuProgramming DEF ThreadStep
<1>2. ASSUME NEW k \in Cores, Overflow(k) \/ PmiStep(k)
      PROVE  SInv'
  BY <1>2, OverflowKeeps, PmiKeeps
<1>3. CASE UNCHANGED vars
  <2>1. UNCHANGED <<pc, opened, core, pinned, msr, pmi, live, area, DS_BASE, PEBS_BUFFER,
                    Old_DS, Multiplex_Index, DLAListHeader, crashed>>
    BY <1>3 DEF vars, thread, memory, globals
  <2>2. Phase' = Phase  BY <2>1 DEF Phase
  <2>3. TargetPMU'  BY <2>1, <2>2 DEF SInv, TargetPMU, Fits
  <2>4. TypeOK'  BY <1>3, NextTypes DEF SInv
  <2>5. OneSession' /\ Placed'  BY <2>1 DEF SInv, OneSession, Busy, Placed
  <2> QED  BY <2>1, <2>2, <2>3, <2>4, <2>5 DEF SInv, Owned, OthersOff
<1> QED  BY <1>1, <1>2, <1>3 DEF Next

LEMMA SessionInvariant ==
  ASSUME Overlap = FALSE
  PROVE  Spec => []SInv
<1>1. Init => SInv  BY InitSession
<1>2. SInv /\ [Next]_vars => SInv'  BY NextSession
<1> QED  BY <1>1, <1>2, PTL DEF Spec

LEMMA ReadsWhileCaptured ==
  ASSUME SInv, NEW k \in Cores, pmi[k] = "mycode"
  PROVE  /\ k = Target /\ msr[Target].DS_AREA = DS_BASE /\ DS_BASE \in live
         /\ area[DS_BASE].base \in live /\ area[DS_BASE].records = 1
         /\ \A i \in PMCs : i >= OutSet => msr[Target].EVNTSEL[i] = Multiplex_Index
<1>1. TargetPMU /\ Owned /\ OthersOff  BY DEF SInv
<1>2. k = Target  BY <1>1 DEF OthersOff
<1>3. Phase \in Running  BY <1>1, <1>2 DEF TargetPMU, Fits
<1>4. Phase \in OwnsMsr /\ Phase \in OwnsBuf /\ Phase \in OwnsDs /\ Phase \in Counted
  BY <1>3 DEF OwnsDs, OwnsBuf, OwnsMsr, Counted
<1> QED  BY <1>1, <1>2, <1>4 DEF TargetPMU, Fits, Owned

(* With one session at a time the handler always reads the record that     *)
(* raised its interrupt, in memory the driver still owns, whatever moment  *)
(* of Create or Close it arrives at.                                       *)
THEOREM SessionPmiReadsItsRecord ==
  ASSUME Overlap = FALSE
  PROVE  Spec => []PmiReadsItsRecord
<1>1. SInv => PmiReadsItsRecord  BY ReadsWhileCaptured DEF PmiReadsItsRecord
<1> QED  BY <1>1, SessionInvariant, PTL

(* And what it reads was counted for the event group the driver adds it to.*)
THEOREM SessionReadingsMatchGroup ==
  ASSUME Overlap = FALSE
  PROVE  Spec => []ReadingsMatchGroup
<1>1. SInv => ReadingsMatchGroup  BY ReadsWhileCaptured DEF ReadingsMatchGroup
<1> QED  BY <1>1, SessionInvariant, PTL

(* The driver never touches memory it does not own or frees it twice, if   *)
(* every allocation succeeds.                                              *)
THEOREM SessionNoBugcheck ==
  ASSUME Overlap = FALSE, PoolMayFail = FALSE
  PROVE  Spec => []NoBugcheck
<1>1. SInv => NoBugcheck  BY DEF SInv, TypeOK, NoBugcheck
<1> QED  BY <1>1, SessionInvariant, PTL

(* An open handle means that the target core samples, or is handling a     *)
(* sample.                                                                 *)
THEOREM SessionOpenMeansCapturing ==
  ASSUME Overlap = FALSE
  PROVE  Spec => []OpenMeansCapturing
<1>1. SInv => OpenMeansCapturing
  <2> SUFFICES ASSUME SInv, NobodyIn, opened # {} PROVE OpenMeansCapturing
    BY DEF OpenMeansCapturing
  <2>1. Phase = "open"  BY PhaseFacts DEF Phase
  <2>2. TargetPMU /\ OutSet \in PMCs /\ Null \notin Rows
    BY SessionAssumption DEF SInv, SessionAssumption
  <2>3. /\ msr[Target].LBR
        /\ pmi[Target] = "idle" =>
             /\ msr[Target].GLOBAL_CTRL /\ msr[Target].PEBS_ENABLE /\ msr[Target].LVT
             /\ msr[Target].DS_AREA = DS_BASE /\ area[DS_BASE].records = 0
             /\ msr[Target].EVNTSEL[OutSet] \in Rows
    BY <2>1, <2>2
    DEF TargetPMU, Fits, OwnsLbr, OwnsBuf, OwnsMsr, Counted, Running
  <2> QED  BY <2>2, <2>3 DEF OpenMeansCapturing, Counts
<1> QED  BY <1>1, SessionInvariant, PTL

LEMMA ClosedFacts ==
  ASSUME SInv, NobodyIn, opened = {}
  PROVE  /\ live = {} /\ Target \in Cores /\ msr[Target].DS_AREA = RestoredDS(Target)
         /\ DLAListHeader # Null => msr[Target].LVT = TRUE
         /\ msr[Target] = Off(msr[Target].LVT, msr[Target].DS_AREA)
         /\ \A k \in Cores : msr[k].LVT \in BOOLEAN
         /\ \A k \in Cores \ {Target} : msr[k] = Off(msr[k].LVT, OriginalDS)
<1>1. Phase = "closed"  BY PhaseFacts DEF NobodyIn, Phase
<1>2. TargetPMU /\ Owned /\ OthersOff /\ msr \in [Cores -> PMU] /\ Target \in Cores
  BY SessionAssumption DEF SInv, TypeOK, SessionAssumption
<1>3. live = {}
  BY <1>1, <1>2 DEF Owned, OwnsDs, OwnsBuf, OwnsMsr, Counted, Running
<1>4. /\ msr[Target].LBR = FALSE /\ msr[Target].DS_AREA = RestoredDS(Target)
      /\ DLAListHeader # Null => msr[Target].LVT = TRUE
      /\ msr[Target].GLOBAL_CTRL = FALSE /\ msr[Target].PEBS_ENABLE = FALSE
      /\ \A i \in PMCs : msr[Target].EVNTSEL[i] = Null
  BY <1>1, <1>2 DEF RestoredDS, TargetPMU, Fits, OwnsLbr, OwnsBuf, OwnsMsr, Counted, Running
<1>5. msr[Target].EVNTSEL = [i \in PMCs |-> Null]  BY <1>2, <1>4 DEF PMU
<1>6. msr[Target] = Off(msr[Target].LVT, msr[Target].DS_AREA)
  BY <1>2, <1>4, <1>5 DEF PMU, Off
<1>7. \A k \in Cores : msr[k].LVT \in BOOLEAN  BY <1>2 DEF PMU
<1> QED  BY <1>2, <1>3, <1>4, <1>6, <1>7 DEF OthersOff

(* Whatever DS area a core had before, with no handle open the memory      *)
(* Create took is back in the pool, nothing counts, no core points into    *)
(* that memory, and exactly two things of the target core may differ from  *)
(* what they were: the upper half of its DS area and its LVT entry.        *)
THEOREM SessionClosedMeansStopped ==
  ASSUME Overlap = FALSE
  PROVE  Spec => []ClosedMeansStopped
<1>1. SInv => ClosedMeansStopped
  <2> SUFFICES ASSUME SInv, NobodyIn, opened = {}
               PROVE  /\ live = {}
                      /\ \A k \in Cores :
                           msr[k] = Off(msr[k].LVT, RestoredDS(k))
                      /\ DLAListHeader # Null => msr[Target].LVT
    BY DEF ClosedMeansStopped
  <2>1. ASSUME NEW k \in Cores
        PROVE  msr[k] = Off(msr[k].LVT, RestoredDS(k))
    <3>1. CASE k = Target  BY <3>1, ClosedFacts
    <3>2. CASE k # Target
      <4>1. RestoredDS(k) = OriginalDS  BY <3>2 DEF RestoredDS
      <4> QED  BY <3>2, <4>1, ClosedFacts
    <3> QED  BY <3>1, <3>2
  <2> QED  BY <2>1, ClosedFacts
<1> QED  BY <1>1, SessionInvariant, PTL

-----------------------------------------------------------------------------
(* Who stays bound to the target core                                      *)

(* A thread that is not between ThreadStart and ThreadStop of its own call *)
(* is bound exactly if it opened a handle and has closed none since; for   *)
(* one about to enter ThreadStop it makes no difference.                   *)
Bound ==
  /\ \A c \in Clients : pc[c] \in {"user", "attach", "stop_dla"} =>
       (c \in pinned <=> c \in opened \/ c \in left)
  /\ \A c \in pinned : core[c] = Target

LEMMA BoundKept ==
  ASSUME SInv, Bound, NEW c \in Clients, NEW from \in OnTarget, NEW to \in OnTarget,
         Step(c, from, to), SameThreads
  PROVE  Bound'
<1>1. to \notin {"user", "attach", "stop_dla"}
  BY DEF OnTarget, StartSteps, StopSteps
<1> QED  BY <1>1 DEF SInv, TypeOK, Bound, Step, SameThreads

LEMMA BoundByThread ==
  ASSUME SInv, Bound, NEW c \in Clients, ThreadStep(c)
  PROVE  Bound'
<1> USE DEF thread, memory, globals
<1>0. /\ pc \in [Clients -> {"user"} \cup StartSteps \cup StopSteps]
      /\ core \in [Clients -> Cores] /\ pinned \subseteq Clients
  BY DEF SInv, TypeOK
<1>1. {"setup_ds", "setup_buffer", "setup_msr", "enable_off", "enable_arm", "enable_on",
       "enable_lbr", "disable_off", "disable_clear", "clean_msr", "clean_buffer", "clean_ds",
       "stop_lbr"} \subseteq OnTarget
  BY DEF OnTarget, StartSteps, StopSteps
<1>2. CASE StartAttach(c) \/ StopAttach(c)
  BY <1>0, <1>2 DEF StartAttach, StopAttach, Step, AffinityTo, Bound
<1>3. CASE SetupDs(c) \/ SetupBuffer(c) \/ SetupMsr(c) \/ CleanBuffer(c) \/ CleanDs(c)
  BY <1>1, <1>3, BoundKept DEF SetupDs, SetupBuffer, SetupMsr, CleanBuffer, CleanDs
<1>4. CASE \/ EnableOff(c) \/ EnableArm(c) \/ EnableOn(c)
           \/ DisableOff(c) \/ DisableClear(c) \/ CleanMsr(c)
  BY <1>1, <1>4, BoundKept
     DEF EnableOff, EnableArm, EnableOn, DisableOff, DisableClear, CleanMsr, WriteMsr
<1>5. CASE EnableLbr(c)
  <2>1. c \in pinned  BY <1>1, <1>5 DEF SInv, Placed, EnableLbr, Step
  <2> QED  BY <1>0, <1>5, <2>1 DEF EnableLbr, Step, Bound
<1>6. CASE StopLbr(c)
  <2>1. opened = {}  BY <1>6, InPhase DEF SInv, StopLbr, Step
  <2> QED  BY <1>0, <1>6, <2>1 DEF StopLbr, Step, Bound
<1>7. CASE StopDla(c)
  BY <1>0, <1>7 DEF StopDla, Step, SameThreads, Bound
<1> QED  BY <1>2, <1>3, <1>4, <1>5, <1>6, <1>7 DEF ThreadStep

(* One handle at a time: the target core keeps the thread that opened it,  *)
(* and for ever those whose handle another thread closed, and no other.    *)
THEOREM SessionPinnedAreOpeners ==
  ASSUME Overlap = FALSE
  PROVE  Spec => []PinnedAreOpeners
<1>1. Init => Bound
  BY DEF Init, Bound
<1>2. SInv /\ Bound /\ [Next]_vars => Bound'
  <2> SUFFICES ASSUME SInv, Bound, [Next]_vars PROVE Bound'  OBVIOUS
  <2>0. /\ pc \in [Clients -> {"user"} \cup StartSteps \cup StopSteps]
        /\ core \in [Clients -> Cores] /\ opened \subseteq Clients
    BY DEF SInv, TypeOK
  <2>1. ASSUME NEW c \in Clients, Create(c) \/ CreateNoMemory(c)
        PROVE  Bound'
    BY <2>0, <2>1 DEF Create, CreateNoMemory, Step, SameThreads, thread, Bound
  <2>2. ASSUME NEW c \in Clients, NEW h \in Clients, Close(c, h)
        PROVE  Bound'
    BY <2>0, <2>2 DEF Close, Step, Bound
  <2>3. ASSUME NEW c \in Clients, NEW k \in Cores, Migrate(c, k)
        PROVE  Bound'
    BY <2>0, <2>3 DEF Migrate, Bound
  <2>4. ASSUME NEW k \in Cores, Overflow(k) \/ PmiStep(k)
        PROVE  Bound'
    BY <2>4 DEF Overflow, PmiStep, PmiStop, PmiMyCode, PmiRearm, thread, Bound
  <2>5. CASE UNCHANGED vars  BY <2>5 DEF vars, thread, Bound
  <2> QED  BY <2>1, <2>2, <2>3, <2>4, <2>5, BoundByThread DEF Next
<1>3. SInv /\ Bound => PinnedAreOpeners
  BY DEF SInv, TypeOK, Bound, NobodyIn, PinnedAreOpeners
<1>4. SInv /\ SInv' /\ Bound /\ [Next]_vars => Bound'  BY <1>2
<1> QED  BY <1>1, <1>3, <1>4, SessionInvariant, PTL DEF Spec

-----------------------------------------------------------------------------
(* A session is a capture                                                  *)

PhasesAgree ==
  /\ Phase \in StartSteps => CapturePhase = "starting"
  /\ Phase \in StopSteps => CapturePhase = "stopping"
  /\ Phase = "open" => CapturePhase = "on"
  /\ Phase = "closed" => CapturePhase = "off"

LEMMA PhasesOfCapture == SInv => PhasesAgree
<1> SUFFICES ASSUME SInv PROVE PhasesAgree  OBVIOUS
<1>1. CASE opened # {}
  <2>1. Phase = "open"  BY <1>1, PhaseFacts DEF Phase
  <2>2. \A c \in Clients : pc[c] = "user"
    BY <1>1 DEF SInv, TypeOK, OneSession, Busy
  <2> QED  BY <1>1, <2>1, <2>2 DEF CapturePhase, PhasesAgree, StartSteps, StopSteps
<1>2. CASE opened = {} /\ \A c \in Clients : pc[c] = "user"
  <2>1. Phase = "closed"  BY <1>2, PhaseFacts DEF Phase
  <2> QED  BY <1>2, <2>1 DEF CapturePhase, PhasesAgree, StartSteps, StopSteps
<1>3. ASSUME NEW c \in Clients, pc[c] # "user"
      PROVE  /\ Phase \in StartSteps => CapturePhase = "starting"
             /\ Phase \in StopSteps => CapturePhase = "stopping"
             /\ Phase \in StartSteps \cup StopSteps
  <2>1. Phase = pc[c] /\ \A d \in Clients : d # c => pc[d] = "user"
    BY <1>3, InPhase DEF SInv
  <2>2. pc[c] \in StartSteps \cup StopSteps  BY <1>3 DEF SInv, TypeOK
  <2> QED  BY <2>1, <2>2 DEF CapturePhase, StartSteps, StopSteps
<1>4. "open" \notin StartSteps \cup StopSteps /\ "closed" \notin StartSteps \cup StopSteps
  BY DEF StartSteps, StopSteps
<1> QED  BY <1>1, <1>2, <1>3, <1>4 DEF PhasesAgree

(* The sample on its way is of the group the driver names, until MyCode    *)
(* has read it.                                                            *)
SampleOfGroup ==
  PendingSample = IF pmi[Target] \in {"entry", "mycode"} THEN Multiplex_Index ELSE Null

LEMMA SampleOnItsWay == SInv => SampleOfGroup
<1> SUFFICES ASSUME SInv
             PROVE  PendingSample = IF pmi[Target] \in {"entry", "mycode"}
                                    THEN Multiplex_Index ELSE Null
  BY DEF SampleOfGroup
<1>1. /\ TargetPMU /\ Owned /\ Target \in Cores /\ OutSet \in PMCs /\ OutSet \in Nat
      /\ pmi[Target] \in {"idle", "entry", "mycode", "rearm"}
      /\ Foreign \cap Blocks = {} /\ live \subseteq Blocks
  BY SessionAssumption DEF SInv, TypeOK, Foreign, Truncated, SessionAssumption
<1>2. CASE pmi[Target] \in {"entry", "mycode"}
  <2>1. Phase \in Running  BY <1>1, <1>2 DEF TargetPMU, Fits
  <2>2. Phase \in OwnsMsr /\ Phase \in OwnsBuf /\ Phase \in OwnsDs /\ Phase \in Counted
    BY <2>1 DEF OwnsDs, OwnsBuf, OwnsMsr, Counted
  <2>3. /\ msr[Target].DS_AREA = DS_BASE /\ DS_BASE \in live /\ area[DS_BASE].records = 1
        /\ msr[Target].EVNTSEL[OutSet] = Multiplex_Index
    BY <1>1, <1>2, <2>2 DEF TargetPMU, Fits, Owned
  <2> QED  BY <1>2, <2>3 DEF PendingSample
<1>3. CASE pmi[Target] = "idle"
  <2>1. CASE Phase \in OwnsMsr
    <3>1. msr[Target].DS_AREA = DS_BASE /\ area[DS_BASE].records = 0
      BY <1>1, <1>3, <2>1 DEF TargetPMU, Fits, OwnsBuf
    <3> QED  BY <1>3, <3>1 DEF PendingSample
  <2>2. CASE Phase \notin OwnsMsr
    <3>1. msr[Target].DS_AREA \notin live
      BY <1>1, <2>2 DEF TargetPMU, Fits, Foreign
    <3> QED  BY <1>3, <3>1 DEF PendingSample
  <2> QED  BY <2>1, <2>2
<1>4. CASE pmi[Target] = "rearm"  BY <1>4 DEF PendingSample
<1> QED  BY <1>1, <1>2, <1>3, <1>4

(* Both, before and after a step. *)
LEMMA CaptureMapping ==
  ASSUME SInv, SInv'
  PROVE  PhasesAgree /\ PhasesAgree' /\ SampleOfGroup /\ SampleOfGroup'
BY PhasesOfCapture, SampleOnItsWay, PTL

LEMMA ThreadStepsCapture ==
  ASSUME SInv, SInv', NEW c \in Clients, NEW from, NEW to, Step(c, from, to),
         from # "user", to # "user", UNCHANGED <<opened, pmi, Multiplex_Index>>,
         \/ from \in StartSteps /\ to \in StartSteps
         \/ from \in StopSteps /\ to \in StopSteps
  PROVE  UNCHANGED <<CapturePhase, Multiplex_Index, PendingSample>>
<1>1. Phase = from /\ Phase' = to  BY MoveOn
<1>2. CapturePhase' = CapturePhase  BY <1>1, CaptureMapping DEF PhasesAgree
<1>3. PendingSample' = PendingSample  BY CaptureMapping DEF SampleOfGroup
<1> QED  BY <1>2, <1>3

LEMMA StartStepsCapture ==
  ASSUME SInv, SInv', NEW c \in Clients,
         \/ StartAttach(c) \/ SetupDs(c) \/ SetupBuffer(c) \/ SetupMsr(c)
         \/ EnableOff(c) \/ EnableArm(c) \/ EnableOn(c)
  PROVE  UNCHANGED <<CapturePhase, Multiplex_Index, PendingSample>>
<1>1. PICK from \in StartSteps, to \in StartSteps :
        Step(c, from, to) /\ UNCHANGED <<opened, pmi, Multiplex_Index>>
  BY DEF StartAttach, SetupDs, SetupBuffer, SetupMsr, EnableOff, EnableArm, EnableOn, WriteMsr,
         SameThreads, globals, StartSteps
<1>2. from # "user" /\ to # "user"  BY DEF StartSteps
<1> QED  BY <1>1, <1>2, ThreadStepsCapture

LEMMA StopStepsCapture ==
  ASSUME SInv, SInv', NEW c \in Clients,
         \/ StopAttach(c) \/ DisableOff(c) \/ DisableClear(c) \/ CleanMsr(c)
         \/ CleanBuffer(c) \/ CleanDs(c) \/ StopLbr(c)
  PROVE  UNCHANGED <<CapturePhase, Multiplex_Index, PendingSample>>
<1>1. PICK from \in StopSteps, to \in StopSteps :
        Step(c, from, to) /\ UNCHANGED <<opened, pmi, Multiplex_Index>>
  BY DEF StopAttach, DisableOff, DisableClear, CleanMsr, CleanBuffer, CleanDs, StopLbr, WriteMsr,
         SameThreads, globals, StopSteps
<1>2. from # "user" /\ to # "user"  BY DEF StopSteps
<1> QED  BY <1>1, <1>2, ThreadStepsCapture

LEMMA CreateStarts ==
  ASSUME SInv, SInv', Overlap = FALSE, NEW c \in Clients, Create(c)
  PROVE  Abstract!Start
<1>1. /\ opened = {} /\ \A d \in Clients : pc[d] = "user"
      /\ pc' = [pc EXCEPT ![c] = "attach"] /\ opened' = opened
      /\ Multiplex_Index' = 0 /\ pmi' = pmi
  BY DEF Create, MayOpen, NobodyIn, Step, SameThreads
<1>2. Phase = "closed"  BY <1>1, PhaseFacts DEF Phase
<1>3. pc'[c] = "attach" /\ \A d \in Clients : pc'[d] # "user" => d = c
  BY <1>1 DEF SInv, TypeOK
<1>4. Phase' = "attach"
  <2>1. PhaseOf(pc', opened') = pc'[c]  BY <1>1, <1>3, PhaseFacts
  <2> QED  BY <1>3, <2>1 DEF Phase
<1>5. CapturePhase = "off" /\ CapturePhase' = "starting"
  BY <1>2, <1>4, CaptureMapping DEF PhasesAgree, StartSteps
<1>6. pmi[Target] \notin {"entry", "mycode"}
  BY <1>2 DEF SInv, TargetPMU, Fits, Running
<1>7. PendingSample' = PendingSample  BY <1>1, <1>6, CaptureMapping DEF SampleOfGroup
<1> QED  BY <1>1, <1>5, <1>7 DEF Abstract!Start

LEMMA EnableLbrStarted ==
  ASSUME SInv, SInv', NEW c \in Clients, EnableLbr(c)
  PROVE  Abstract!Started
<1>1. /\ pc[c] = "enable_lbr" /\ opened' = opened \cup {c}
      /\ UNCHANGED <<pmi, Multiplex_Index>>
  BY DEF EnableLbr, Step, globals
<1>2. Phase = "enable_lbr"  BY <1>1, InPhase DEF SInv
<1>3. Phase' = "open"  BY <1>1, PhaseFacts DEF Phase
<1>4. CapturePhase = "starting" /\ CapturePhase' = "on"
  BY <1>2, <1>3, CaptureMapping DEF PhasesAgree, StartSteps
<1>5. PendingSample' = PendingSample  BY <1>1, CaptureMapping DEF SampleOfGroup
<1> QED  BY <1>1, <1>4, <1>5 DEF Abstract!Started

LEMMA CloseStops ==
  ASSUME SInv, SInv', NEW c \in Clients, NEW h \in Clients, Close(c, h)
  PROVE  Abstract!Stop
<1>1. /\ h \in opened /\ opened' = opened \ {h} /\ pc' = [pc EXCEPT ![c] = "stop_attach"]
      /\ UNCHANGED <<pmi, Multiplex_Index>>
  BY DEF Close, Step, globals
<1>2. Phase = "open"  BY <1>1, PhaseFacts DEF Phase
<1>3. pc'[c] = "stop_attach"  BY <1>1 DEF SInv, TypeOK
<1>4. Phase' = "stop_attach"
  <2>1. opened' = {} /\ \A d \in Clients : pc[d] = "user"
    BY <1>1 DEF SInv, TypeOK, OneSession, Busy
  <2>2. \A d \in Clients : pc'[d] # "user" => d = c  BY <1>1, <2>1
  <2>3. PhaseOf(pc', opened') = pc'[c]  BY <1>3, <2>1, <2>2, PhaseFacts
  <2> QED  BY <1>3, <2>3 DEF Phase
<1>5. CapturePhase = "on" /\ CapturePhase' = "stopping"
  BY <1>2, <1>4, CaptureMapping DEF PhasesAgree, StopSteps
<1>6. PendingSample' = PendingSample  BY <1>1, CaptureMapping DEF SampleOfGroup
<1> QED  BY <1>1, <1>5, <1>6 DEF Abstract!Stop

LEMMA StopDlaStopped ==
  ASSUME SInv, SInv', NEW c \in Clients, StopDla(c)
  PROVE  Abstract!Stopped
<1>1. /\ pc[c] = "stop_dla" /\ opened' = opened /\ pc' = [pc EXCEPT ![c] = "user"]
      /\ UNCHANGED <<pmi, Multiplex_Index>>
  BY DEF StopDla, Step, SameThreads, globals
<1>2. Phase = "stop_dla" /\ opened = {} /\ \A d \in Clients : d # c => pc[d] = "user"
  BY <1>1, InPhase DEF SInv
<1>3. \A d \in Clients : pc'[d] = "user"  BY <1>1, <1>2 DEF SInv, TypeOK
<1>4. Phase' = "closed"  BY <1>1, <1>2, <1>3, PhaseFacts DEF Phase
<1>5. CapturePhase = "stopping" /\ CapturePhase' = "off"
  BY <1>2, <1>4, CaptureMapping DEF PhasesAgree, StopSteps
<1>6. pmi[Target] \notin {"entry", "mycode"}
  BY <1>2 DEF SInv, TargetPMU, Fits, Running
<1>7. PendingSample = Null /\ PendingSample' = PendingSample  BY <1>1, <1>6, CaptureMapping DEF SampleOfGroup
<1> QED  BY <1>1, <1>5, <1>7 DEF Abstract!Stopped

(* A step of the hardware or of the handler leaves the session where it is.*)
LEMMA PmuStepsCapture ==
  ASSUME SInv, SInv', NEW k \in Cores, Overflow(k) \/ PmiStep(k)
  PROVE  Abstract!TakeSample \/ Abstract!HandOver
         \/ UNCHANGED <<CapturePhase, Multiplex_Index, PendingSample>>
<1>1. UNCHANGED <<pc, opened>> /\ CapturePhase' = CapturePhase
  BY DEF Overflow, PmiStep, PmiStop, PmiMyCode, PmiRearm, thread, CapturePhase
<1>2. TypeOK /\ TargetPMU /\ OthersOff /\ Null \notin Rows /\ Target \in Cores
  BY SessionAssumption DEF SInv, SessionAssumption
<1>3. k = Target
  <2>1. k # Target => ~Counts(k) /\ pmi[k] = "idle"
    <3> SUFFICES ASSUME k # Target PROVE ~Counts(k) /\ pmi[k] = "idle"  OBVIOUS
    <3>1. msr[k] = Off(msr[k].LVT, OriginalDS) /\ pmi[k] = "idle"  BY <1>2 DEF OthersOff
    <3>2. msr[k].GLOBAL_CTRL = FALSE  BY <3>1 DEF Off
    <3> QED  BY <3>1, <3>2 DEF Counts
  <2> QED  BY <2>1 DEF Overflow, PmiStep, PmiStop, PmiMyCode, PmiRearm
<1>4. CASE Overflow(k)
  <2>1. pmi[Target] = "idle" /\ Counts(Target) /\ UNCHANGED Multiplex_Index
    BY <1>3, <1>4 DEF Overflow, globals
  <2>2. Phase \in Running  BY <1>2, <2>1 DEF TargetPMU, Fits, Counts
  <2>3. msr[Target].LVT = TRUE
    BY <1>2, <2>1, <2>2 DEF TargetPMU, Fits, OwnsMsr, Counted
  <2>4. pmi'[Target] = "entry"  BY <1>2, <1>3, <1>4, <2>3 DEF Overflow, TypeOK
  <2>5. PendingSample = Null /\ PendingSample' = Multiplex_Index
    BY <2>1, <2>4, CaptureMapping DEF SampleOfGroup
  <2>6. CapturePhase # "off"
    BY <2>2, CaptureMapping DEF PhasesAgree, Running, StartSteps, StopSteps
  <2> QED  BY <1>1, <2>1, <2>5, <2>6 DEF Abstract!TakeSample
<1>5. CASE PmiStop(k)
  <2>1. pmi[Target] = "entry" /\ pmi'[Target] = "mycode" /\ UNCHANGED Multiplex_Index
    BY <1>2, <1>3, <1>5 DEF PmiStop, TypeOK, globals
  <2> QED  BY <1>1, <2>1, CaptureMapping DEF SampleOfGroup
<1>6. CASE PmiMyCode(k)
  <2>1. pmi[Target] = "mycode" /\ pmi'[Target] = "rearm" /\ Multiplex_Index' \in Rows
    BY <1>2, <1>3, <1>6 DEF PmiMyCode, TypeOK
  <2>2. PendingSample = Multiplex_Index /\ PendingSample' = Null  BY <2>1, CaptureMapping DEF SampleOfGroup
  <2>3. PendingSample # Null  BY <1>2, <2>2 DEF TypeOK
  <2> QED  BY <1>1, <2>1, <2>2, <2>3 DEF Abstract!HandOver
<1>7. CASE PmiRearm(k)
  <2>1. pmi[Target] = "rearm" /\ pmi'[Target] = "idle" /\ UNCHANGED Multiplex_Index
    BY <1>2, <1>3, <1>7 DEF PmiRearm, TypeOK, globals
  <2> QED  BY <1>1, <2>1, CaptureMapping DEF SampleOfGroup
<1> QED  BY <1>4, <1>5, <1>6, <1>7 DEF PmiStep

LEMMA StepsOfCapture ==
  ASSUME SInv, SInv', Overlap = FALSE, [Next]_vars
  PROVE  [Abstract!Next]_(Abstract!vars)
<1> USE DEF Abstract!Next, Abstract!vars
<1>1. ASSUME NEW c \in Clients, Create(c) PROVE Abstract!Next  BY <1>1, CreateStarts
<1>2. ASSUME NEW c \in Clients, NEW h \in Clients, Close(c, h) PROVE Abstract!Next
  BY <1>2, CloseStops
<1>3. ASSUME NEW c \in Clients, ThreadStep(c) PROVE [Abstract!Next]_(Abstract!vars)
  BY <1>3, StartStepsCapture, StopStepsCapture, EnableLbrStarted, StopDlaStopped DEF ThreadStep
<1>4. ASSUME NEW k \in Cores, Overflow(k) \/ PmiStep(k)
      PROVE  [Abstract!Next]_(Abstract!vars)
  BY <1>4, PmuStepsCapture
<1>5. ASSUME UNCHANGED <<pc, opened, pmi, Multiplex_Index>>
      PROVE  UNCHANGED Abstract!vars
  <2>1. CapturePhase' = CapturePhase  BY <1>5 DEF CapturePhase
  <2> QED  BY <1>5, <2>1, CaptureMapping DEF SampleOfGroup
<1>6. ASSUME NEW c \in Clients, CreateNoMemory(c) \/ \E k \in Cores : Migrate(c, k)
      PROVE  UNCHANGED Abstract!vars
  BY <1>5, <1>6 DEF CreateNoMemory, Migrate, thread, globals
<1>7. CASE UNCHANGED vars  BY <1>5, <1>7 DEF vars, thread, globals
<1> QED  BY <1>1, <1>2, <1>3, <1>4, <1>6, <1>7 DEF Next

(* A session implements the capture that "Create/CLose work as Start/Stop" *)
(* promises: every sample between them is handed over once, as one of the  *)
(* group it was counted for, and none is left when Close returns.          *)
THEOREM SessionImplementsCapture ==
  ASSUME Overlap = FALSE
  PROVE  Spec => ImplementsCapture
<1>1. Init => Abstract!Init
  <2> SUFFICES ASSUME Init PROVE Abstract!Init  OBVIOUS
  <2>1. SInv  BY InitSession
  <2>2. Phase = "closed"
    <3>1. opened = {} /\ \A c \in Clients : pc[c] = "user"  BY DEF Init
    <3> QED  BY <3>1, PhaseFacts DEF Phase
  <2>3. pmi[Target] = "idle"  BY SessionAssumption DEF Init, SessionAssumption
  <2>4. CapturePhase = "off" /\ PendingSample = Null
    BY <2>1, <2>2, <2>3, PhasesOfCapture, SampleOnItsWay DEF PhasesAgree, SampleOfGroup
  <2> QED  BY <2>4 DEF Init, Abstract!Init
<1>2. SInv /\ SInv' /\ [Next]_vars => [Abstract!Next]_(Abstract!vars)  BY StepsOfCapture
<1> QED  BY <1>1, <1>2, SessionInvariant, PTL DEF Spec, ImplementsCapture, Abstract!Spec
=============================================================================
