---------------------------- MODULE LoopListMem ----------------------------
(***************************************************************************)
(* The loop list of list/list.c in memory: records in pool blocks, chained *)
(* by Flink and Blink, and the calls that work on them one access at a     *)
(* time.  The PMI handler of the target core searches and extends the list *)
(* (Find_Insert_LoopList); threads on other cores remove its first record  *)
(* (Remove_LoopList).  list_lock is initialised and never taken, so where  *)
(* calls may overlap nothing orders their steps.                           *)
(*                                                                         *)
(* LoopList makes each call one step.  Where calls do not overlap, this    *)
(* module implements it.  The client sends an iMLPX in 1 .. Multiplexing,  *)
(* while the list is empty, and reads when there is a loop to read.        *)
(*                                                                         *)
(* A definition under "Mutant" is the one after it with a plausible slip.  *)
(***************************************************************************)
EXTENDS LoopTypes, Sequences

CONSTANTS
  Blocks,      \* the pool blocks that may hold a record
  Header,      \* the list header, LoopList_Header
  Readers,     \* the threads that remove records
  MlpxValues,  \* the values IOCTL_SEND_MLPX carries
  Overlap      \* FALSE: the client reads between captures, one thread at a time

ASSUME MemAssumption ==
  /\ Header \notin Blocks
  /\ MlpxValues \subseteq 1 .. Multiplexing
  /\ Overlap \in BOOLEAN

VARIABLES
  Flink, Blink,     \* the links of the header and of every block
  info,             \* the LoopInfo part of every block
  allocated,        \* the blocks that belong to the list
  LenofLoopList,    \* the length the code keeps on the side
  Multiplex_Index,  \* the event group being counted
  iMLPX,            \* how many event groups take turns
  logLine,          \* the line the running or last removal wrote to the log
  search,           \* the running Find_Insert_LoopList: its place and locals
  removal,          \* the running Remove_LoopList of every reader
  order,            \* history: the blocks inserted and not removed, oldest first
  settled           \* history: the list as it was when a call last returned

links == <<Flink, Blink>>
pool == <<info, allocated>>
globals == <<LenofLoopList, Multiplex_Index, iMLPX, logLine>>
history == <<order, settled>>
vars == <<links, pool, globals, search, removal, history>>

Cells == Blocks \cup {Header}

(* The operators of LoopList on single records, with the globals as they   *)
(* are now.                                                                *)
Now == INSTANCE LoopList WITH
  LoopList_Header <- <<>>, broken <- FALSE, CarefulClient <- TRUE

IdleSearch ==
  [pc |-> "idle", FROM |-> 0, TO |-> 0, reading |-> [i \in PMCs |-> 0],
   next |-> Header, bFindLoop |-> FALSE, tempData |-> Header, last |-> Header, len |-> 0]

IdleRemoval ==
  [pc |-> "idle", Max_Entry |-> Header,
   Flink |-> Header, Blink |-> Header, len |-> 0]

Blank ==
  [FROM |-> 0, TO |-> 0, Counter |-> 0, bActive |-> FALSE,
   PMC_Start |-> [m \in Rows |-> [i \in PMCs |-> Junk]],
   PMC_End   |-> [m \in Rows |-> [i \in PMCs |-> Junk]]]

Init ==
  /\ Flink = [c \in Cells |-> Header]
  /\ Blink = [c \in Cells |-> Header]
  /\ info = [b \in Blocks |-> Blank]
  /\ allocated = {}
  /\ LenofLoopList = 0
  /\ Multiplex_Index = 0
  /\ iMLPX = 1
  /\ logLine = NoReport
  /\ search = IdleSearch
  /\ removal = [r \in Readers |-> IdleRemoval]
  /\ order = <<>>
  /\ settled = [LoopList_Header |-> <<>>, LenofLoopList |-> 0,
                Multiplex_Index |-> 0, logLine |-> NoReport]

Searching == search.pc # "idle"
Removing(r) == removal[r].pc # "idle"
Quiet == ~Searching /\ \A r \in Readers : ~Removing(r)

(* The records of the blocks of a list. *)
Records(list, content) == [i \in DOMAIN list |-> content[list[i]]]

(* A call that returns leaves this as the list it worked on.               *)
Settle(line) ==
  settled' = [LoopList_Header |-> Records(order', info'),
              LenofLoopList |-> LenofLoopList',
              Multiplex_Index |-> Multiplex_Index', logLine |-> line]

-----------------------------------------------------------------------------
(* Find_Insert_LoopList, in the PMI handler                                *)

At(pc) == search.pc = pc
SearchStep(pc) == search' = [search EXCEPT !.pc = pc]

SearchStart(FROM, TO, reading) ==
  /\ At("idle")
  /\ Overlap \/ Quiet
  /\ Profiled(FROM, TO)
  /\ search' = [IdleSearch EXCEPT !.pc = "search", !.FROM = FROM, !.TO = TO,
                                  !.reading = reading, !.next = Flink[Header]]
  /\ UNCHANGED <<links, pool, globals, removal, history>>

Matches == Now!IsRecordOf(info[search.next], search.FROM, search.TO)

(* Mutant: the search ends at the loop it looks for. *)
SearchVisitAndStop ==
  /\ At("search") /\ search.next # Header
  /\ info' = [info EXCEPT ![search.next] =
                Now!Visit(@, search.FROM, search.TO, search.reading)]
  /\ Multiplex_Index' = IF Matches THEN Now!NextGroup(info[search.next]) ELSE Multiplex_Index
  /\ search' = [search EXCEPT !.next = IF Matches THEN Header ELSE Flink[@],
                              !.bFindLoop = @ \/ Matches]
  /\ UNCHANGED <<links, allocated, LenofLoopList, iMLPX, logLine, removal, history>>

(* One turn of the loop: the record is worked on, the group it selects     *)
(* takes effect at once, and its link is followed.                         *)
SearchVisit ==
  /\ At("search") /\ search.next # Header
  /\ info' = [info EXCEPT ![search.next] =
                Now!Visit(@, search.FROM, search.TO, search.reading)]
  /\ Multiplex_Index' = IF Matches THEN Now!NextGroup(info[search.next]) ELSE Multiplex_Index
  /\ search' = [search EXCEPT !.next = Flink[@], !.bFindLoop = @ \/ Matches]
  /\ UNCHANGED <<links, allocated, LenofLoopList, iMLPX, logLine, removal, history>>

IsNew == IsLoop(search.FROM, search.TO) /\ ~search.bFindLoop

(* The call returns without a new record: none is due, or ExAllocatePool   *)
(* fails.                                                                  *)
SearchReturn ==
  /\ At("search") /\ search.next = Header
  /\ search' = IdleSearch
  /\ UNCHANGED <<links, pool, globals, removal, order>>
  /\ Settle(NoReport)

Allocate(b) ==
  /\ At("search") /\ search.next = Header /\ IsNew
  /\ b \notin allocated
  /\ allocated' = allocated \cup {b}
  /\ info' = [info EXCEPT ![b] = Now!NewLoop(search.FROM, search.TO)]
  /\ search' = [search EXCEPT !.pc = "entry", !.tempData = b]
  /\ UNCHANGED <<links, globals, removal, history>>

(* Mutant: the new record is initialised as a list of its own. *)
LinkEntryToItself ==
  /\ At("entry")
  /\ Flink' = [Flink EXCEPT ![search.tempData] = search.tempData]
  /\ Blink' = [Blink EXCEPT ![search.tempData] = Blink[Header]]
  /\ search' = [search EXCEPT !.pc = "last", !.last = Blink[Header]]
  /\ UNCHANGED <<pool, globals, removal, history>>

(* InsertTailList: the links of the new record, ... *)
LinkEntry ==
  /\ At("entry")
  /\ Flink' = [Flink EXCEPT ![search.tempData] = Header]
  /\ Blink' = [Blink EXCEPT ![search.tempData] = Blink[Header]]
  /\ search' = [search EXCEPT !.pc = "last", !.last = Blink[Header]]
  /\ UNCHANGED <<pool, globals, removal, history>>

(* ... the forward link of the last record, ... *)
LinkLast ==
  /\ At("last")
  /\ Flink' = [Flink EXCEPT ![search.last] = search.tempData]
  /\ SearchStep("header")
  /\ UNCHANGED <<Blink, pool, globals, removal, history>>

(* ... and the backward link of the header. *)
LinkHeader ==
  /\ At("header")
  /\ Blink' = [Blink EXCEPT ![Header] = search.tempData]
  /\ order' = Append(order, search.tempData)
  /\ SearchStep("len")
  /\ UNCHANGED <<Flink, pool, globals, removal, settled>>

LenRead ==
  /\ At("len")
  /\ search' = [search EXCEPT !.pc = "count", !.len = LenofLoopList]
  /\ UNCHANGED <<links, pool, globals, removal, history>>

(* Mutant: a new record is not counted. *)
NoIncrement ==
  /\ At("count")
  /\ LenofLoopList' = search.len
  /\ search' = IdleSearch
  /\ UNCHANGED <<links, pool, Multiplex_Index, iMLPX, logLine, removal, order>>
  /\ Settle(NoReport)

LenIncrement ==
  /\ At("count")
  /\ LenofLoopList' = search.len + 1
  /\ search' = IdleSearch
  /\ UNCHANGED <<links, pool, Multiplex_Index, iMLPX, logLine, removal, order>>
  /\ Settle(NoReport)

-----------------------------------------------------------------------------
(* Remove_LoopList, called by Read                                         *)

Is(r, pc) == removal[r].pc = pc
RemoveStep(r, pc) == removal' = [removal EXCEPT ![r].pc = pc]

RemoveStart(r) ==
  /\ Is(r, "idle")
  /\ Overlap \/ Quiet
  /\ Flink[Header] # Header
  /\ removal' = [removal EXCEPT ![r].pc = "log", ![r].Max_Entry = Flink[Header]]
  /\ UNCHANGED <<links, pool, globals, search, history>>

RemoveLog(r) ==
  LET l == info[removal[r].Max_Entry] IN
  /\ Is(r, "log")
  /\ logLine' = IF Now!IsLogged(l) THEN Now!LogLine(l) ELSE NoReport
  /\ RemoveStep(r, "free")
  /\ UNCHANGED <<links, pool, LenofLoopList, Multiplex_Index, iMLPX, search, history>>

(* ExFreePool, before the record is unlinked.  Freeing a block that is not *)
(* allocated is a bug check, where the system stops.                       *)
RemoveFree(r) ==
  /\ Is(r, "free")
  /\ removal[r].Max_Entry \in allocated
  /\ allocated' = allocated \ {removal[r].Max_Entry}
  /\ RemoveStep(r, "links")
  /\ UNCHANGED <<links, info, globals, search, history>>

(* RemoveEntryList: the links of the freed record are read, ... *)
RemoveLinks(r) ==
  LET e == removal[r].Max_Entry IN
  /\ Is(r, "links")
  /\ removal' = [removal EXCEPT ![r].pc = "forward",
                                ![r].Flink = Flink[e], ![r].Blink = Blink[e]]
  /\ UNCHANGED <<links, pool, globals, search, history>>

(* ... its predecessor is linked to its successor, ... *)
UnlinkForward(r) ==
  /\ Is(r, "forward")
  /\ Flink' = [Flink EXCEPT ![removal[r].Blink] = removal[r].Flink]
  /\ RemoveStep(r, "backward")
  /\ UNCHANGED <<Blink, pool, globals, search, history>>

(* A list without one of its blocks. *)
Without(list, b) ==
  IF \E i \in DOMAIN list : list[i] = b
  THEN [i \in 1 .. Len(list) - 1 |-> IF \E j \in 1 .. i : list[j] = b THEN list[i + 1]
                                                                      ELSE list[i]]
  ELSE list

(* Mutant: the backward links are forgotten. *)
UnlinkForwardOnly(r) ==
  /\ Is(r, "backward")
  /\ order' = Without(order, removal[r].Max_Entry)
  /\ RemoveStep(r, "len")
  /\ UNCHANGED <<links, pool, globals, search, settled>>

(* ... and its successor to its predecessor. *)
UnlinkBackward(r) ==
  /\ Is(r, "backward")
  /\ Blink' = [Blink EXCEPT ![removal[r].Flink] = removal[r].Blink]
  /\ order' = Without(order, removal[r].Max_Entry)
  /\ RemoveStep(r, "len")
  /\ UNCHANGED <<Flink, pool, globals, search, settled>>

RemoveLenRead(r) ==
  /\ Is(r, "len")
  /\ removal' = [removal EXCEPT ![r].pc = "count", ![r].len = LenofLoopList]
  /\ UNCHANGED <<links, pool, globals, search, history>>

(* Where calls do not overlap, nothing reads the freed block again until   *)
(* it is filled anew: its content is dropped.                              *)
LenDecrement(r) ==
  /\ Is(r, "count")
  /\ LenofLoopList' = removal[r].len - 1
  /\ info' = IF Overlap THEN info ELSE [info EXCEPT ![removal[r].Max_Entry] = Blank]
  /\ removal' = [removal EXCEPT ![r] = IdleRemoval]
  /\ UNCHANGED <<links, allocated, Multiplex_Index, iMLPX, logLine, search, order>>
  /\ Settle(logLine)

-----------------------------------------------------------------------------
(* The other writers of the globals the list works with                    *)

SetMlpx(n) ==
  /\ Quiet /\ order = <<>>
  /\ iMLPX' = n
  /\ settled' = [settled EXCEPT !.logLine = NoReport]
  /\ UNCHANGED <<links, pool, LenofLoopList, Multiplex_Index, logLine, search, removal, order>>

StartCapture ==
  /\ Quiet
  /\ Multiplex_Index' = 0
  /\ settled' = [settled EXCEPT !.Multiplex_Index = 0, !.logLine = NoReport]
  /\ UNCHANGED <<links, pool, LenofLoopList, iMLPX, logLine, search, removal, order>>

SearchSteps ==
  \/ SearchVisit \/ SearchReturn
  \/ \E b \in Blocks : Allocate(b)
  \/ LinkEntry \/ LinkLast \/ LinkHeader \/ LenRead \/ LenIncrement

RemoveSteps(r) ==
  \/ RemoveLog(r) \/ RemoveFree(r) \/ RemoveLinks(r)
  \/ UnlinkForward(r) \/ UnlinkBackward(r) \/ RemoveLenRead(r) \/ LenDecrement(r)

Next ==
  \/ \E FROM, TO \in Addr, reading \in [PMCs -> UINT64] : SearchStart(FROM, TO, reading)
  \/ SearchSteps
  \/ \E r \in Readers : RemoveStart(r) \/ RemoveSteps(r)
  \/ \E n \in MlpxValues : SetMlpx(n)
  \/ StartCapture

Spec == Init /\ [][Next]_vars

(* The handler runs to its end and no thread is starved. *)
FairSpec == Spec /\ WF_vars(SearchSteps) /\ \A r \in Readers : WF_vars(RemoveSteps(r))

-----------------------------------------------------------------------------
(* Properties                                                              *)

TypeOK ==
  /\ Flink \in [Cells -> Cells] /\ Blink \in [Cells -> Cells]
  /\ info \in [Blocks -> Now!LOOPInfo \cup {Blank}]
  /\ allocated \subseteq Blocks
  /\ LenofLoopList \in Nat
  /\ Multiplex_Index \in Rows
  /\ iMLPX \in 1 .. Multiplexing
  /\ order \in Seq(Blocks)

(* The cell at a place of the ring that starts and ends at the header. *)
Cell(list, i) == IF i \in DOMAIN list THEN list[i] ELSE Header

Forward(link, list) == \A i \in 0 .. Len(list) : link[Cell(list, i)] = Cell(list, i + 1)
Backward(link, list) == \A i \in 0 .. Len(list) : link[Cell(list, i + 1)] = Cell(list, i)
Distinct(list) == \A i, j \in DOMAIN list : list[i] = list[j] => i = j
BlocksOf(list) == {list[i] : i \in DOMAIN list}

(* When no call is running the links form one ring through the header and  *)
(* the records inserted and not removed, oldest first, in both directions, *)
(* and only these are allocated: what list.c calls "Remove the Entry in    *)
(* loop list" has happened, and nothing else was lost or kept.             *)
LinksWhole ==
  Quiet => /\ Forward(Flink, order) /\ Backward(Blink, order) /\ Distinct(order)
           /\ allocated = BlocksOf(order)

(* Every search in the interrupt handler and every removal ends. *)
CallsReturn ==
  /\ Searching ~> ~Searching
  /\ \A r \in Readers : Removing(r) ~> ~Removing(r)

List == INSTANCE LoopList WITH
  LoopList_Header <- settled.LoopList_Header,
  LenofLoopList   <- settled.LenofLoopList,
  Multiplex_Index <- settled.Multiplex_Index,
  logLine         <- settled.logLine,
  broken          <- FALSE,
  CarefulClient   <- TRUE

(* Taken at the moment a call returns, the records on the ring are the list *)
(* of LoopList, and the call was one of its steps.                         *)
ImplementsList == List!Spec
=============================================================================
