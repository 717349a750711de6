---------------------------- MODULE PebsSession ----------------------------
(***************************************************************************)
(* Capturing on one core: CreateFile and CloseHandle (IO/IO.c) start and   *)
(* stop the PMU of the target core through Threading/thread.c,             *)
(* simple-pebs.c and LBR/LBR.c, while the hardware stores a PEBS record at *)
(* every overflow and interrupts the core with PMI (PMI.c, MyCode.c).      *)
(*                                                                         *)
(* A client thread runs its IRP one step at a time and may lose its core   *)
(* to a PMI, or to another thread, between any two of them.  PMI itself    *)
(* runs above every thread of its core.                                    *)
(*                                                                         *)
(* A definition under "Mutant" is the one after it with a plausible slip;  *)
(* nothing uses it but the experiments that break a property on purpose.   *)
(***************************************************************************)
EXTENDS Integers, FiniteSets

CONSTANTS
  Clients,        \* threads that open and close handles of the device
  Cores,
  Target,         \* Target_Core_Number, the last processor
  Blocks,         \* the non-paged pool the driver allocates from
  Rows,           \* the rows of StaticMask: Multiplexing event groups
  PMCs,           \* 0 .. MAX_PMCx-1
  OutSet,         \* the first counter PMI arms again
  OriginalDS,     \* the DS area of a core before the driver is used
  Garbage,        \* half an address
  Null,
  Overlap,        \* TRUE: handles may be opened while another is in use
  HandlesShared,  \* TRUE: a handle may be closed by another thread
  PoolMayFail     \* TRUE: ExAllocatePool may return NULL

ASSUME SessionAssumption ==
  /\ Target \in Cores
  /\ 0 \in Rows /\ Null \notin Rows
  /\ PMCs \subseteq Nat /\ OutSet \in PMCs
  /\ OriginalDS \notin Blocks /\ Garbage \notin Blocks /\ Null \notin Blocks
  /\ Overlap \in BOOLEAN /\ HandlesShared \in BOOLEAN /\ PoolMayFail \in BOOLEAN

VARIABLES
  pc,               \* where each thread is: in user mode, or at a step of its IRP
  opened,           \* the threads whose CreateFile succeeded, one handle each
  core,             \* the core a thread runs on
  pinned,           \* the threads whose system affinity is set
  left,             \* history: openers whose handle another thread has closed
  msr,              \* the PMU of each core
  pmi,              \* where the interrupt handler of each core is
  live,             \* the allocated blocks
  area,             \* what a block holds when it is used as a DS area
  DS_BASE, PEBS_BUFFER, Old_DS, Multiplex_Index, DLAListHeader,
  crashed           \* a bug check, or a write to memory that is not the driver's

thread == <<pc, opened, core, pinned, left>>
memory == <<live, area>>
globals == <<DS_BASE, PEBS_BUFFER, Old_DS, Multiplex_Index, DLAListHeader>>
vars == <<thread, msr, pmi, memory, globals, crashed>>

Pointer == Blocks \cup {Null}
StartSteps == {"attach", "setup_ds", "setup_buffer", "setup_msr",
               "enable_off", "enable_arm", "enable_on", "enable_lbr"}
StopSteps == {"stop_attach", "disable_off", "disable_clear", "clean_msr",
              "clean_buffer", "clean_ds", "stop_lbr", "stop_dla"}

PMU ==
  [GLOBAL_CTRL : BOOLEAN,     \* the counters of _Counter_ are enabled
   PEBS_ENABLE : BOOLEAN,
   EVNTSEL : [PMCs -> Rows \cup {Null}],   \* the row each counter was armed from
   DS_AREA : Blocks \cup {OriginalDS, Garbage, Null},
   LVT : BOOLEAN,             \* the local APIC delivers the PMI
   LBR : BOOLEAN]

Off(lvt, ds) ==
  [GLOBAL_CTRL |-> FALSE, PEBS_ENABLE |-> FALSE, EVNTSEL |-> [i \in PMCs |-> Null],
   DS_AREA |-> ds, LVT |-> lvt, LBR |-> FALSE]

(* A buffer holds one record (SIZE_PEBS_BUFFER); records is 1 when         *)
(* pebs_index has reached pebs_thresh.                                     *)
Empty(buffer) == [base |-> buffer, records |-> 0]

Init ==
  /\ pc = [c \in Clients |-> "user"]
  /\ opened = {}
  /\ core \in [Clients -> Cores]
  /\ pinned = {} /\ left = {}
  /\ \E lvt \in [Cores -> BOOLEAN] : msr = [k \in Cores |-> Off(lvt[k], OriginalDS)]
  /\ pmi = [k \in Cores |-> "idle"]
  /\ live = {}
  /\ area = [b \in Blocks |-> Empty(Null)]
  /\ DS_BASE = Null /\ PEBS_BUFFER = Null /\ Old_DS = Null
  /\ Multiplex_Index = 0 /\ DLAListHeader = Null
  /\ crashed = FALSE

-----------------------------------------------------------------------------
(* Threads, the pool, and what a step of either may do                     *)

(* A thread runs unless its core is in the interrupt handler. *)
Step(c, from, to) ==
  /\ ~crashed
  /\ pc[c] = from
  /\ pmi[core[c]] = "idle"
  /\ pc' = [pc EXCEPT ![c] = to]

SameThreads == UNCHANGED <<opened, core, pinned, left>>

(* ExAllocatePool: the code does not look at the result before using it. *)
Alloc(b) == b \in Blocks \ live /\ live' = live \cup {b}

Bugcheck == crashed' = TRUE

Free(b) ==
  /\ live' = live \ {b}
  /\ crashed' = (b \notin live)

(* A pointer stored in 32 bits (Old_DS); NULL survives it.                 *)
Truncated(p) == IF p = Null THEN Null ELSE Garbage

(* The scheduler moves a thread that has no system affinity.               *)
Migrate(c, k) ==
  /\ ~crashed
  /\ c \notin pinned /\ pmi[core[c]] = "idle" /\ k # core[c]
  /\ core' = [core EXCEPT ![c] = k]
  /\ UNCHANGED <<pc, opened, pinned, left, msr, pmi, memory, globals, crashed>>

(* Mutant: the system affinity is set, but the thread stays where it is. *)
AffinityUnmoved(c, k) ==
  /\ pinned' = pinned \cup {c}
  /\ UNCHANGED core

AffinityTo(c, k) ==
  /\ core' = [core EXCEPT ![c] = k]
  /\ pinned' = pinned \cup {c}

-----------------------------------------------------------------------------
(* Create: reset the globals, then ThreadStart on the target core          *)

NobodyIn == \A c \in Clients : pc[c] = "user"
MayOpen(c) == pc[c] = "user" /\ c \notin opened /\ (Overlap \/ (NobodyIn /\ opened = {}))

(* Mutant: the group the last capture ended with is kept.                  *)
CreateKeepsGroup(c) ==
  /\ MayOpen(c)
  /\ Step(c, "user", "attach")
  /\ \E b \in Blocks :
       /\ Alloc(b)
       /\ DLAListHeader' = b
       /\ UNCHANGED <<Multiplex_Index, crashed>>
  /\ SameThreads
  /\ UNCHANGED <<msr, pmi, area, DS_BASE, PEBS_BUFFER, Old_DS>>

Create(c) ==
  /\ MayOpen(c)
  /\ Step(c, "user", "attach")
  /\ \E b \in Blocks :
       /\ Alloc(b)
       /\ DLAListHeader' = b
       /\ Multiplex_Index' = 0
       /\ UNCHANGED crashed
  /\ SameThreads
  /\ UNCHANGED <<msr, pmi, area, DS_BASE, PEBS_BUFFER, Old_DS>>

(* The list header, the DS area and the buffer are written to at once.     *)
CreateNoMemory(c) ==
  /\ PoolMayFail
  /\ ~crashed
  /\ pmi[core[c]] = "idle"
  /\ MayOpen(c) \/ pc[c] \in {"setup_ds", "setup_buffer"}
  /\ Bugcheck
  /\ UNCHANGED <<thread, msr, pmi, memory, globals>>

StartAttach(c) ==
  /\ Step(c, "attach", "setup_ds")
  /\ pmi[Target] = "idle"
  /\ AffinityTo(c, Target)
  /\ UNCHANGED <<opened, left, msr, pmi, memory, globals, crashed>>

SetupDs(c) ==
  /\ Step(c, "setup_ds", "setup_buffer")
  /\ \E b \in Blocks :
       /\ Alloc(b)
       /\ DS_BASE' = b
       /\ area' = [area EXCEPT ![b] = Empty(Null)]
  /\ SameThreads
  /\ UNCHANGED <<msr, pmi, PEBS_BUFFER, Old_DS, Multiplex_Index, DLAListHeader, crashed>>

(* FILL_DS_WITH_BUFFER, on the DS area the global names by now *)
SetupBuffer(c) ==
  /\ Step(c, "setup_buffer", "setup_msr")
  /\ \E b \in Blocks :
       /\ Alloc(b)
       /\ PEBS_BUFFER' = b
       /\ area' = [area EXCEPT ![DS_BASE] = Empty(b)]
  /\ crashed' = (DS_BASE \notin live)
  /\ SameThreads
  /\ UNCHANGED <<msr, pmi, DS_BASE, Old_DS, Multiplex_Index, DLAListHeader>>

SetupMsr(c) ==
  LET k == core[c] IN
  /\ Step(c, "setup_msr", "enable_off")
  /\ Old_DS' = Truncated(msr[k].DS_AREA)
  /\ msr' = [msr EXCEPT ![k].LVT = TRUE, ![k].DS_AREA = DS_BASE]
  /\ SameThreads
  /\ UNCHANGED <<pmi, memory, DS_BASE, PEBS_BUFFER, Multiplex_Index, DLAListHeader, crashed>>

(* A step that writes the PMU of the thread's own core and nothing else.   *)
WriteMsr(c, from, to, pmu) ==
  /\ Step(c, from, to)
  /\ msr' = [msr EXCEPT ![core[c]] = pmu]
  /\ SameThreads
  /\ UNCHANGED <<pmi, memory, globals, crashed>>

Stopped(pmu) == [pmu EXCEPT !.GLOBAL_CTRL = FALSE, !.PEBS_ENABLE = FALSE]
Started(pmu) == [pmu EXCEPT !.GLOBAL_CTRL = TRUE, !.PEBS_ENABLE = TRUE]

(* Mutants: the counter outset is left out; the row after the group is armed. *)
ArmedPastOutset(pmu, outset) ==
  [pmu EXCEPT !.EVNTSEL = [i \in PMCs |-> IF i > outset THEN Multiplex_Index ELSE @[i]]]

ArmedNextRow(pmu, outset) ==
  [pmu EXCEPT !.EVNTSEL = [i \in PMCs |-> IF i >= outset THEN Multiplex_Index + 1 ELSE @[i]]]

(* init_PMCx: the counters from outset on count the current group. *)
Armed(pmu, outset) ==
  [pmu EXCEPT !.EVNTSEL = [i \in PMCs |-> IF i >= outset THEN Multiplex_Index ELSE @[i]]]

(* Mutant: the event selections are not cleared. *)
ClearedLvtOnly(pmu) == [pmu EXCEPT !.LVT = TRUE]

Cleared(pmu) == [pmu EXCEPT !.EVNTSEL = [i \in PMCs |-> Null], !.LVT = TRUE]

EnableOff(c) == WriteMsr(c, "enable_off", "enable_arm", Stopped(msr[core[c]]))
EnableArm(c) == WriteMsr(c, "enable_arm", "enable_on", Armed(msr[core[c]], 0))
EnableOn(c)  == WriteMsr(c, "enable_on", "enable_lbr", Started(msr[core[c]]))

EnableLbr(c) ==
  /\ Step(c, "enable_lbr", "user")
  /\ msr' = [msr EXCEPT ![core[c]].LBR = TRUE]
  /\ opened' = opened \cup {c}
  /\ UNCHANGED <<core, pinned, left, pmi, memory, globals, crashed>>

-----------------------------------------------------------------------------
(* Close: ThreadStop on the target core                                    *)

Close(c, h) ==
  /\ Step(c, "user", "stop_attach")
  /\ h \in opened
  /\ HandlesShared \/ h = c
  /\ opened' = opened \ {h}
  /\ left' = IF h = c THEN left ELSE left \cup {h}
  /\ UNCHANGED <<core, pinned, msr, pmi, memory, globals, crashed>>

StopAttach(c) ==
  /\ Step(c, "stop_attach", "disable_off")
  /\ pmi[Target] = "idle"
  /\ AffinityTo(c, Target)
  /\ UNCHANGED <<opened, left, msr, pmi, memory, globals, crashed>>

DisableOff(c)   == WriteMsr(c, "disable_off", "disable_clear", Stopped(msr[core[c]]))
DisableClear(c) == WriteMsr(c, "disable_clear", "clean_msr", Cleared(msr[core[c]]))
CleanMsr(c)     == WriteMsr(c, "clean_msr", "clean_buffer",
                            [msr[core[c]] EXCEPT !.DS_AREA = Old_DS])

CleanBuffer(c) ==
  /\ Step(c, "clean_buffer", "clean_ds")
  /\ Free(PEBS_BUFFER)
  /\ SameThreads
  /\ UNCHANGED <<msr, pmi, area, globals>>

(* Mutant: the buffer is freed twice and the DS area is not. *)
CleanDsFreesBuffer(c) ==
  /\ Step(c, "clean_ds", "stop_lbr")
  /\ Free(PEBS_BUFFER)
  /\ SameThreads
  /\ UNCHANGED <<msr, pmi, area, globals>>

CleanDs(c) ==
  /\ Step(c, "clean_ds", "stop_lbr")
  /\ Free(DS_BASE)
  /\ SameThreads
  /\ UNCHANGED <<msr, pmi, area, globals>>

(* Mutant: the thread is not given back its affinity. *)
StopLbrStaysPinned(c) ==
  /\ Step(c, "stop_lbr", "stop_dla")
  /\ msr' = [msr EXCEPT ![core[c]].LBR = FALSE]
  /\ left' = left \ {c}
  /\ UNCHANGED <<opened, core, pinned, pmi, memory, globals, crashed>>

(* disable_LBR, and back to the affinity the client chose *)
StopLbr(c) ==
  /\ Step(c, "stop_lbr", "stop_dla")
  /\ msr' = [msr EXCEPT ![core[c]].LBR = FALSE]
  /\ pinned' = pinned \ {c}
  /\ left' = left \ {c}
  /\ UNCHANGED <<opened, core, pmi, memory, globals, crashed>>

(* The list of samples is always empty; its header is freed, not forgotten. *)
StopDla(c) ==
  /\ Step(c, "stop_dla", "user")
  /\ Free(DLAListHeader)
  /\ SameThreads
  /\ UNCHANGED <<msr, pmi, area, globals>>

-----------------------------------------------------------------------------
(* The PMU and its interrupt                                               *)

Counts(k) ==
  msr[k].GLOBAL_CTRL /\ msr[k].PEBS_ENABLE /\ \E i \in PMCs : msr[k].EVNTSEL[i] # Null

(* An overflow while user code runs stores a record in the DS area, if it  *)
(* has room, and interrupts the core when the threshold is reached.        *)
Overflow(k) ==
  LET ds == msr[k].DS_AREA IN
  /\ ~crashed
  /\ pmi[k] = "idle" /\ Counts(k)
  /\ IF ds \in live /\ area[ds].base \in live
     THEN /\ area[ds].records = 0
          /\ area' = [area EXCEPT ![ds].records = 1]
          /\ UNCHANGED crashed
     ELSE Bugcheck /\ UNCHANGED area
  /\ IF msr[k].LVT
     THEN /\ pmi' = [pmi EXCEPT ![k] = "entry"]
          /\ msr' = [msr EXCEPT ![k].LVT = FALSE]
     ELSE UNCHANGED <<pmi, msr>>
  /\ UNCHANGED <<thread, live, globals>>

(* Mutant: pebs_index is reset before MyCode has read the record. *)
PmiStopResetsIndex(k) ==
  /\ ~crashed
  /\ pmi[k] = "entry"
  /\ pmi' = [pmi EXCEPT ![k] = "mycode"]
  /\ msr' = [msr EXCEPT ![k] = Stopped(@)]
  /\ area' = [area EXCEPT ![DS_BASE].records = 0]
  /\ UNCHANGED <<thread, live, globals, crashed>>

(* Mutant: the handler stops the PMU and returns.                          *)
PmiStopOnly(k) ==
  /\ ~crashed
  /\ pmi[k] = "entry"
  /\ pmi' = [pmi EXCEPT ![k] = "idle"]
  /\ msr' = [msr EXCEPT ![k] = Stopped(@)]
  /\ UNCHANGED <<thread, memory, globals, crashed>>

PmiStop(k) ==
  /\ ~crashed
  /\ pmi[k] = "entry"
  /\ pmi' = [pmi EXCEPT ![k] = "mycode"]
  /\ msr' = [msr EXCEPT ![k] = Stopped(@)]
  /\ UNCHANGED <<thread, memory, globals, crashed>>

(* Mutant: MyCode never gets past the records of the buffer. *)
PmiMyCodeForever(k) ==
  /\ ~crashed
  /\ pmi[k] = "mycode"
  /\ UNCHANGED vars

(* MyCode reads the last record through DS_BASE and hands it to the list,  *)
(* which may choose the group to count next (LoopList).                    *)
PmiMyCode(k) ==
  /\ ~crashed
  /\ pmi[k] = "mycode"
  /\ pmi' = [pmi EXCEPT ![k] = "rearm"]
  /\ Multiplex_Index' \in Rows
  /\ crashed' = (DS_BASE \notin live)
  /\ UNCHANGED <<thread, msr, memory, DS_BASE, PEBS_BUFFER, Old_DS, DLAListHeader>>

(* Mutant: the APIC keeps the interrupt masked. *)
PmiRearmMasked(k) ==
  /\ ~crashed
  /\ pmi[k] = "rearm"
  /\ pmi' = [pmi EXCEPT ![k] = "idle"]
  /\ crashed' = (DS_BASE \notin live)
  /\ area' = [area EXCEPT ![DS_BASE].records = 0]
  /\ msr' = [msr EXCEPT ![k] = Started(Armed(@, OutSet))]
  /\ UNCHANGED <<thread, live, globals>>

PmiRearm(k) ==
  /\ ~crashed
  /\ pmi[k] = "rearm"
  /\ pmi' = [pmi EXCEPT ![k] = "idle"]
  /\ crashed' = (DS_BASE \notin live)
  /\ area' = [area EXCEPT ![DS_BASE].records = 0]
  /\ msr' = [msr EXCEPT ![k] = [Started(Armed(@, OutSet)) EXCEPT !.LVT = TRUE]]
  /\ UNCHANGED <<thread, live, globals>>

-----------------------------------------------------------------------------
ThreadStep(c) ==
  \/ StartAttach(c) \/ SetupDs(c) \/ SetupBuffer(c) \/ SetupMsr(c)
  \/ EnableOff(c) \/ EnableArm(c) \/ EnableOn(c) \/ EnableLbr(c)
  \/ StopAttach(c) \/ DisableOff(c) \/ DisableClear(c) \/ CleanMsr(c)
  \/ CleanBuffer(c) \/ CleanDs(c) \/ StopLbr(c) \/ StopDla(c)

PmiStep(k) == PmiStop(k) \/ PmiMyCode(k) \/ PmiRearm(k)

Next ==
  \/ \E c \in Clients :
       \/ Create(c) \/ CreateNoMemory(c)
       \/ \E h \in Clients : Close(c, h)
       \/ ThreadStep(c)
       \/ \E k \in Cores : Migrate(c, k)
  \/ \E k \in Cores : Overflow(k) \/ PmiStep(k)

Spec == Init /\ [][Next]_vars

(* The interrupt handler runs to its end; a thread that its core's         *)
(* interrupts keep preempting gets to run again and again all the same,    *)
(* since the counters count user mode only and the scheduler starves no    *)
(* thread.  Opening, closing, moving and sampling are never due.           *)
Fairness ==
  /\ \A c \in Clients : SF_vars(ThreadStep(c))
  /\ \A k \in Cores : WF_vars(PmiStep(k))

FairSpec == Spec /\ Fairness

-----------------------------------------------------------------------------
(* Properties                                                              *)

(* Every variable holds a value of its declared kind.                      *)
TypeOK ==
  /\ pc \in [Clients -> {"user"} \cup StartSteps \cup StopSteps]
  /\ opened \subseteq Clients /\ pinned \subseteq Clients /\ left \subseteq Clients
  /\ core \in [Clients -> Cores]
  /\ msr \in [Cores -> PMU]
  /\ pmi \in [Cores -> {"idle", "entry", "mycode", "rearm"}]
  /\ live \subseteq Blocks
  /\ area \in [Blocks -> [base : Pointer, records : {0, 1}]]
  /\ DS_BASE \in Pointer /\ PEBS_BUFFER \in Pointer /\ DLAListHeader \in Pointer
  /\ Old_DS \in {Null, Garbage}
  /\ Multiplex_Index \in Rows
  /\ crashed \in BOOLEAN

(* While MyCode runs, DS_BASE is the DS area of the core that was          *)
(* interrupted, it is allocated, and one record has been stored in it:     *)
(* MyCode reads the sample that raised the PMI and not the memory before   *)
(* the buffer (simple-pebs.c, "First disable PMU to avoid races").         *)
PmiReadsItsRecord ==
  \A k \in Cores : pmi[k] = "mycode" =>
    /\ DS_BASE = msr[k].DS_AREA /\ DS_BASE \in live
    /\ area[DS_BASE].base \in live /\ area[DS_BASE].records = 1

(* What get_PMCx reads in MyCode was counted for the group that the totals *)
(* are added to, although MyCode itself moves Multiplex_Index on.          *)
ReadingsMatchGroup ==
  \A k \in Cores : pmi[k] = "mycode" =>
    \A i \in PMCs : i >= OutSet => msr[k].EVNTSEL[i] = Multiplex_Index

(* No step, of a client or of the hardware, touches memory that is not     *)
(* allocated, frees a block twice or frees a null pointer.                 *)
NoBugcheck == ~crashed

(* No core but the target ever counts, and its handler never runs.         *)
OnlyTargetCounts ==
  \A k \in Cores \ {Target} :
    pmi[k] = "idle" /\ msr[k] = Off(msr[k].LVT, msr[k].DS_AREA)

(* Create starts the capture: as long as a handle is open and no IRP is in *)
(* progress, the target core counts, or is handling a sample and will count *)
(* again; the buffer has room for the next record and its PMI gets through. *)
OpenMeansCapturing ==
  NobodyIn /\ opened # {} =>
    /\ msr[Target].LBR
    /\ pmi[Target] = "idle" => /\ Counts(Target) /\ msr[Target].LVT
                               /\ area[msr[Target].DS_AREA].records = 0

(* What the DS area MSR of a core holds outside a session: what it held    *)
(* before the first; on the target core, once there was one, what Old_DS   *)
(* kept of that.                                                           *)
RestoredDS(k) ==
  IF k = Target /\ DLAListHeader # Null THEN Truncated(OriginalDS) ELSE OriginalDS

(* Close stops the capture: with no handle open no core counts or keeps a  *)
(* DS area of the driver, and the memory Create took is back (IO.c, "The   *)
(* idea here is Create/CLose work as Start/Stop").  Two things are not put *)
(* back: the upper half of a DS area the target core had before, and its   *)
(* LVT entry, which Create opens and Close leaves open.                    *)
ClosedMeansStopped ==
  NobodyIn /\ opened = {} =>
    /\ live = {}
    /\ \A k \in Cores : msr[k] = Off(msr[k].LVT, RestoredDS(k))
    /\ DLAListHeader # Null => msr[Target].LVT

(* ThreadStart moves the thread that opens the device to the target core   *)
(* for good; only ThreadStop gives a thread its affinity back, and that    *)
(* thread is the one that closes.  So those who stay bound to the core     *)
(* between two calls are the opener of the handle in use and, for ever,    *)
(* whoever opened one that another thread closed.                          *)
PinnedAreOpeners ==
  NobodyIn => /\ pinned = opened \cup left
              /\ \A c \in pinned : core[c] = Target

(* Every CreateFile and every CloseHandle returns, however often the PMU   *)
(* interrupts the core it runs on.                                         *)
EveryCallReturns == \A c \in Clients : pc[c] # "user" ~> pc[c] = "user"

-----------------------------------------------------------------------------
(* The capture a session stands for                                        *)

CapturePhase ==
  IF \E c \in Clients : pc[c] \in StartSteps THEN "starting"
  ELSE IF \E c \in Clients : pc[c] \in StopSteps THEN "stopping"
  ELSE IF opened # {} THEN "on" ELSE "off"

(* A record stands in the DS area of the target core, and MyCode has not   *)
(* read it: it was counted for the row the first counter was armed from.   *)
PendingSample ==
  LET ds == msr[Target].DS_AREA IN
  IF pmi[Target] # "rearm" /\ ds \in live /\ area[ds].records = 1
  THEN msr[Target].EVNTSEL[OutSet] ELSE Null

Abstract ==
  INSTANCE Capture WITH
    NoSample <- Null, phase <- CapturePhase, group <- Multiplex_Index, sample <- PendingSample

(* A session is a capture: the records the hardware stores, the interrupt  *)
(* that reads them and the thread that starts and stops the counters make  *)
(* one stream of samples, none lost, read twice, taken for another group,  *)
(* or left behind by Close.                                                *)
ImplementsCapture == Abstract!Spec

(* Every record the hardware stores reaches MyCode.                        *)
EverySampleRead == PendingSample # Null ~> PendingSample = Null
=============================================================================
