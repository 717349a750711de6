----------------------- MODULE LoopListMemRefinement -----------------------
(***************************************************************************)
(* LoopListMem implements LoopList where calls do not overlap, for every   *)
(* set of blocks and readers: the list walked and relinked one access at a *)
(* time is the list whose calls are single steps, and through it the       *)
(* profile.                                                                *)
(***************************************************************************)
EXTENDS LoopListMemProofs

(* The list as it was when a call last returned, with what LoopListProofs  *)
(* and LoopListRefinement say about it.                                    *)
L == INSTANCE LoopListRefinement WITH
  LoopList_Header <- settled.LoopList_Header,
  LenofLoopList   <- settled.LenofLoopList,
  Multiplex_Index <- settled.Multiplex_Index,
  logLine         <- settled.logLine,
  broken          <- FALSE,
  CarefulClient   <- TRUE

-----------------------------------------------------------------------------
(* The invariant: what a running call has made of the list it started from *)

Old == settled.LoopList_Header

IsMatch(l) == L!IsRecordOf(l, search.FROM, search.TO)
Worked(l) == L!Visit(l, search.FROM, search.TO, search.reading)

(* The records of the ring are those of list. *)
Holds(list) ==
  /\ Len(order) = Len(list)
  /\ \A i \in 1 .. Len(list) : info[order[i]] = list[i]

(* The search has worked on the first k records. *)
WorkedUpTo(k) == [i \in DOMAIN Old |-> IF i <= k THEN Worked(Old[i]) ELSE Old[i]]

(* The group to count is that of the only match so far.  *)
GroupAfter(k) ==
  \/ /\ search.bFindLoop
     /\ \E i \in DOMAIN Old : i <= k /\ IsMatch(Old[i]) /\ Multiplex_Index = L!NextGroup(Old[i])
  \/ /\ ~search.bFindLoop
     /\ \A i \in DOMAIN Old : i <= k => ~IsMatch(Old[i])
     /\ Multiplex_Index = settled.Multiplex_Index

AllWorked == WorkedUpTo(Len(Old))
New == L!NewLoop(search.FROM, search.TO)

SearchOf ==
  /\ Searching => Profiled(search.FROM, search.TO)
  /\ At("search") =>
       \E k \in 0 .. Len(Old) :
         search.next = Cell(order, k + 1) /\ Holds(WorkedUpTo(k)) /\ GroupAfter(k)
  /\ search.pc \in {"entry", "last", "header", "len", "count"} =>
       GroupAfter(Len(Old)) /\ ~search.bFindLoop /\ IsLoop(search.FROM, search.TO)
  /\ Inserting => Holds(AllWorked) /\ info[search.tempData] = New
  /\ search.pc \in {"len", "count"} => Holds(Append(AllWorked, New))
  /\ At("count") => search.len = LenofLoopList

Shortened(r) == removal[r].pc \in {"len", "count"}

Line == IF L!IsLogged(Old[1]) THEN L!LogLine(Old[1]) ELSE NoReport

RemovalOf(r) ==
  /\ Removing(r) => Old # <<>>
  /\ Removing(r) /\ ~Is(r, "log") => logLine = Line
  /\ Shortened(r) => Holds(Tail(Old)) /\ removal[r].Max_Entry \in Blocks \ BlocksOf(order)
  /\ Is(r, "count") => removal[r].len = LenofLoopList

Values ==
  /\ info \in [Blocks -> L!LOOPInfo \cup {Blank}]
  /\ Multiplex_Index \in Rows
  /\ iMLPX \in 1 .. Multiplexing
  /\ settled = [LoopList_Header |-> Old, LenofLoopList |-> LenofLoopList,
                Multiplex_Index |-> settled.Multiplex_Index, logLine |-> settled.logLine]

MInv ==
  /\ RInv /\ L!IInv /\ Values
  /\ SearchOf /\ \A r \in Readers : RemovalOf(r)
  /\ ~Searching => Multiplex_Index = settled.Multiplex_Index
  /\ ~Searching /\ (\A r \in Readers : ~Shortened(r)) => Holds(Old)

-----------------------------------------------------------------------------
(* The operators of the list, seen from its two instances                  *)

LEMMA SameConstants ==
  /\ L!LOOPInfo = Now!LOOPInfo /\ L!UINT64 = UINT64 /\ List!UINT64 = UINT64 /\ L!Rows = Rows
  /\ L!NoReport = NoReport
  /\ \A FROM, TO : /\ L!Profiled(FROM, TO) = Profiled(FROM, TO)
                   /\ L!IsLoop(FROM, TO) = IsLoop(FROM, TO)
<1>1. L!UINT64 = UINT64 /\ List!UINT64 = UINT64 /\ L!Rows = Rows /\ L!NoReport = NoReport
  BY DEF L!UINT64, List!UINT64, UINT64, L!Rows, Rows, L!NoReport, NoReport
<1>2. L!LOOPInfo = Now!LOOPInfo
  BY DEF L!LOOPInfo, Now!LOOPInfo, L!UINT32, Now!UINT32, L!Rows, Now!Rows, L!Total, Now!Total,
         L!UINT64, Now!UINT64
<1>3. \A FROM, TO : /\ L!Profiled(FROM, TO) = Profiled(FROM, TO)
                    /\ L!IsLoop(FROM, TO) = IsLoop(FROM, TO)
  BY DEF L!Profiled, Profiled, L!IsLoop, IsLoop
<1> QED  BY <1>1, <1>2, <1>3

(* What the proofs about LoopList assume of its constants holds here, so    *)
(* that their lemmas speak of the settled list.                            *)
LEMMA ListConstants ==
  (\A n \in MlpxValues : n \in Int /\ -CounterWidth < n) /\ TRUE \in BOOLEAN
BY MemAssumption, ProfileAssumption DEF MemAssumption, ProfileAssumption

LEMMA ListLemmas ==
  /\ L!Init => L!IInv
  /\ L!IInv /\ [L!Next]_(L!vars) => L!IInv'
  /\ settled.Multiplex_Index \in L!Rows =>
       \A l \in L!LOOPInfo, FROM, TO \in Addr, reading \in [PMCs -> L!UINT64] :
         L!Visit(l, FROM, TO, reading) \in L!LOOPInfo
  /\ \A FROM, TO \in Addr : L!NewLoop(FROM, TO) \in L!LOOPInfo
<1> USE ListConstants, ProfileAssumption DEF ProfileAssumption
<1>1. L!Init => L!IInv  BY L!InitEstablishesIInv
<1>2. L!IInv /\ [L!Next]_(L!vars) => L!IInv'  BY L!NextKeepsIInv
<1>3. ASSUME settled.Multiplex_Index \in L!Rows, NEW l \in L!LOOPInfo,
             NEW FROM \in Addr, NEW TO \in Addr, NEW reading \in [PMCs -> L!UINT64]
      PROVE  L!Visit(l, FROM, TO, reading) \in L!LOOPInfo
  BY <1>3, L!VisitRecord
<1>4. \A FROM, TO \in Addr : L!NewLoop(FROM, TO) \in L!LOOPInfo  BY L!NewLoopRecord
<1> QED  BY <1>1, <1>2, <1>3, <1>4

LEMMA SameOnRecords ==
  ASSUME NEW l, NEW FROM, NEW TO
  PROVE  /\ Now!IsRecordOf(l, FROM, TO) = L!IsRecordOf(l, FROM, TO)
         /\ Now!NextGroup(l) = L!NextGroup(l)
         /\ Now!NewLoop(FROM, TO) = L!NewLoop(FROM, TO)
BY DEF Now!IsRecordOf, L!IsRecordOf, Now!IsLoop, L!IsLoop, Now!NextGroup, L!NextGroup,
       Now!NewLoop, L!NewLoop, Now!Rows, L!Rows

LEMMA SameLines ==
  ASSUME NEW l
  PROVE  Now!IsLogged(l) = L!IsLogged(l) /\ Now!LogLine(l) = L!LogLine(l)
BY DEF Now!IsLogged, L!IsLogged, Now!Reported, L!Reported, Now!Pair, L!Pair,
       Now!LogLine, L!LogLine, Now!Measured, L!Measured, Now!Times, L!Times, Now!Minus, L!Minus

(* The group matters to a record only when it is the one of the sample.    *)
LEMMA SameVisit ==
  ASSUME NEW l, NEW FROM, NEW TO, NEW reading,
         Multiplex_Index = settled.Multiplex_Index \/ ~L!IsRecordOf(l, FROM, TO)
  PROVE  Now!Visit(l, FROM, TO, reading) = L!Visit(l, FROM, TO, reading)
<1>1. CASE Multiplex_Index = settled.Multiplex_Index
  BY <1>1
  DEF Now!Visit, L!Visit, Now!Hit, L!Hit, Now!AddReading, L!AddReading, Now!Plus, L!Plus,
      Now!IsRecordOf, L!IsRecordOf, Now!IsLoop, L!IsLoop, Now!Contains, L!Contains
<1>2. CASE ~L!IsRecordOf(l, FROM, TO)
  BY <1>2
  DEF Now!Visit, L!Visit, Now!IsRecordOf, L!IsRecordOf, Now!IsLoop, L!IsLoop,
      Now!Contains, L!Contains
<1> QED  BY <1>1, <1>2

(* The list of the proofs is the list that is implemented.                 *)
LEMMA SameSteps ==
  /\ L!vars = List!vars /\ L!Init = List!Init
  /\ \A FROM, TO, reading : /\ L!Find_Insert_LoopList(FROM, TO, reading)
                                = List!Find_Insert_LoopList(FROM, TO, reading)
                             /\ L!Find_Insert_Undefined(FROM, TO)
                                = List!Find_Insert_Undefined(FROM, TO)
  /\ L!Remove_LoopList = List!Remove_LoopList /\ L!Remove_Undefined = List!Remove_Undefined
  /\ \A n : L!SetMlpx(n) = List!SetMlpx(n)
  /\ L!StartCapture = List!StartCapture
<1>1. L!vars = List!vars /\ L!Init = List!Init /\ L!StartCapture = List!StartCapture
  BY DEF L!vars, List!vars, L!Init, List!Init, L!NoReport, List!NoReport,
         L!StartCapture, List!StartCapture
<1>2. ASSUME NEW FROM, NEW TO, NEW reading
      PROVE  L!Find_Insert_LoopList(FROM, TO, reading)
               = List!Find_Insert_LoopList(FROM, TO, reading)
  BY DEF L!Find_Insert_LoopList, List!Find_Insert_LoopList, L!Undefined, List!Undefined,
         L!NextGroup, List!NextGroup, L!NewLoop, List!NewLoop, L!Visited, List!Visited,
         L!Visit, List!Visit, L!Hit, List!Hit, L!AddReading, List!AddReading,
         L!Found, List!Found, L!IsRecordOf, List!IsRecordOf, L!IsLoop, List!IsLoop,
         L!Plus, List!Plus, L!Contains, List!Contains, L!Profiled, List!Profiled,
         L!NoReport, List!NoReport, L!Rows, List!Rows
<1>3. ASSUME NEW FROM, NEW TO
      PROVE  L!Find_Insert_Undefined(FROM, TO) = List!Find_Insert_Undefined(FROM, TO)
  BY DEF L!Find_Insert_Undefined, List!Find_Insert_Undefined, L!Undefined, List!Undefined,
         L!Break, List!Break, L!NextGroup, List!NextGroup, L!Found, List!Found,
         L!IsRecordOf, List!IsRecordOf, L!IsLoop, List!IsLoop, L!Profiled, List!Profiled,
         L!NoReport, List!NoReport, L!Rows, List!Rows
<1>4. L!Remove_LoopList = List!Remove_LoopList
  BY DEF L!Remove_LoopList, List!Remove_LoopList, L!LogsPastRows, List!LogsPastRows,
         L!IsLogged, List!IsLogged, L!LogLine, List!LogLine, L!Measured, List!Measured,
         L!Times, List!Times, L!Minus, List!Minus, L!Reported, List!Reported,
         L!Pair, List!Pair, L!NoReport, List!NoReport
<1>5. L!Remove_Undefined = List!Remove_Undefined
  BY DEF L!Remove_Undefined, List!Remove_Undefined, L!LogsPastRows, List!LogsPastRows,
         L!Break, List!Break, L!IsLogged, List!IsLogged, L!Reported, List!Reported,
         L!Pair, List!Pair, L!NoReport, List!NoReport
<1>6. ASSUME NEW n PROVE L!SetMlpx(n) = List!SetMlpx(n)
  BY DEF L!SetMlpx, List!SetMlpx, L!NoReport, List!NoReport
<1> QED  BY <1>1, <1>2, <1>3, <1>4, <1>5, <1>6

-----------------------------------------------------------------------------
(* What the invariant says of the list a call started from                 *)

LEMMA OldList ==
  ASSUME MInv
  PROVE  /\ Old \in Seq(L!LOOPInfo) /\ Len(Old) \in Nat /\ DOMAIN Old = 1 .. Len(Old)
         /\ \A i \in DOMAIN Old : Old[i] \in L!LOOPInfo
         /\ settled.Multiplex_Index \in L!Rows
         /\ settled.LenofLoopList = Len(Old) /\ LenofLoopList = Len(Old)
         /\ order \in Seq(Blocks) /\ Len(order) \in Nat /\ DOMAIN order = 1 .. Len(order)
         /\ \A i \in DOMAIN order : order[i] \in Blocks
<1>1. Old \in Seq(L!LOOPInfo) /\ settled.Multiplex_Index \in L!Rows
      /\ settled.LenofLoopList = Len(Old) /\ LenofLoopList = settled.LenofLoopList
  BY DEF MInv, Values, L!IInv, L!TypeOK, L!OneRecordPerLoop, Old
<1>2. order \in Seq(Blocks)  BY DEF MInv, RInv, Typed
<1> HIDE DEF Old
<1> QED  BY <1>1, <1>2

(* Two records of the list are not the loop of the same sample.            *)
LEMMA OneMatch ==
  ASSUME MInv, NEW i \in DOMAIN Old, NEW j \in DOMAIN Old, IsMatch(Old[i]), IsMatch(Old[j])
  PROVE  i = j
<1>1. L!PairOf(Old[i]) = L!PairOf(Old[j])
  BY DEF IsMatch, L!IsRecordOf, L!PairOf, L!Pair
<1>2. L!AllDistinct(Old)  BY DEF MInv, L!IInv, L!OneRecordPerLoop, Old
<1> QED  BY <1>1, <1>2 DEF L!AllDistinct

LEMMA SampleTypes ==
  ASSUME MInv, Searching
  PROVE  /\ search.FROM \in Addr /\ search.TO \in Addr /\ search.reading \in [PMCs -> L!UINT64]
         /\ L!Profiled(search.FROM, search.TO)
<1>1. Profiled(search.FROM, search.TO)  BY DEF MInv, SearchOf
<1>2. search.FROM # 0 /\ search.TO # 0  BY <1>1 DEF Profiled
<1> QED  BY <1>1, <1>2, SameConstants DEF MInv, RInv, Typed, SearchLocals

LEMMA WorkedRecord ==
  ASSUME MInv, Searching, NEW i \in DOMAIN Old
  PROVE  Worked(Old[i]) \in L!LOOPInfo
<1>1. /\ search.FROM \in Addr /\ search.TO \in Addr
      /\ search.reading \in [PMCs -> L!UINT64]
      /\ Old[i] \in L!LOOPInfo /\ settled.Multiplex_Index \in L!Rows
  BY SampleTypes, OldList
<1>2. L!Visit(Old[i], search.FROM, search.TO, search.reading) \in L!LOOPInfo
  BY <1>1, ListLemmas
<1> QED  BY <1>2 DEF Worked

LEMMA WorkedList ==
  ASSUME MInv, Searching, NEW k \in Int
  PROVE  /\ WorkedUpTo(k) \in Seq(L!LOOPInfo) /\ Len(WorkedUpTo(k)) = Len(Old)
         /\ \A i \in DOMAIN Old :
              WorkedUpTo(k)[i] = IF i <= k THEN Worked(Old[i]) ELSE Old[i]
<1>1. \A i \in 1 .. Len(Old) :
        (IF i <= k THEN Worked(Old[i]) ELSE Old[i]) \in L!LOOPInfo
  BY OldList, WorkedRecord
<1>2. WorkedUpTo(k) = [i \in 1 .. Len(Old) |-> IF i <= k THEN Worked(Old[i]) ELSE Old[i]]
  BY OldList DEF WorkedUpTo
<1> HIDE DEF Worked
<1>3. Len(Old) \in Nat /\ DOMAIN Old = 1 .. Len(Old)  BY OldList
<1> HIDE DEF Old
<1> QED  BY <1>1, <1>2, <1>3

(* When every record has been worked on, the list is as Visited says.      *)
LEMMA AllVisited ==
  ASSUME MInv, Searching
  PROVE  AllWorked = L!Visited(search.FROM, search.TO, search.reading)
<1>1. \A i \in DOMAIN Old : i <= Len(Old)  BY OldList
<1>2. AllWorked = [i \in DOMAIN Old |-> Worked(Old[i])]  BY <1>1 DEF AllWorked, WorkedUpTo
<1> QED  BY <1>2 DEF L!Visited, Worked, Old

LEMMA NewRecord ==
  ASSUME MInv, Searching
  PROVE  New \in L!LOOPInfo
<1>1. search.FROM \in Addr /\ search.TO \in Addr  BY SampleTypes
<1>2. L!NewLoop(search.FROM, search.TO) \in L!LOOPInfo  BY <1>1, ListLemmas
<1> QED  BY <1>2 DEF New

(* Records, for a list that is known record by record. *)
LEMMA RecordsAre ==
  ASSUME NEW list \in Seq(Blocks), NEW content, NEW records \in Seq(L!LOOPInfo),
         Len(list) = Len(records), \A i \in 1 .. Len(records) : content[list[i]] = records[i]
  PROVE  Records(list, content) = records
<1>1. DOMAIN list = 1 .. Len(records)  OBVIOUS
<1>2. records = [i \in 1 .. Len(records) |-> records[i]]  OBVIOUS
<1> QED  BY <1>1, <1>2 DEF Records

(* A client whose iMLPX has rows never makes the list undefined. *)
LEMMA GroupIsRow ==
  ASSUME MInv, NEW i \in DOMAIN Old
  PROVE  L!NextGroup(Old[i]) \in Rows
<1>1. iMLPX \in Nat \ {0} /\ iMLPX <= Multiplexing /\ Multiplexing \in Nat
  BY ProfileAssumption DEF MInv, Values, ProfileAssumption
<1>2. (Old[i].Counter + 1) % CounterWidth \in Nat
  <2>1. Old[i].Counter + 1 \in Int /\ CounterWidth \in Nat \ {0}
    BY OldList, ProfileAssumption DEF ProfileAssumption, L!LOOPInfo, L!UINT32
  <2> QED  BY <2>1
<1>3. \A n \in Nat : n % iMLPX \in 0 .. iMLPX - 1  BY <1>1
<1>4. L!NextGroup(Old[i]) = ((Old[i].Counter + 1) % CounterWidth) % iMLPX
  <2>1. ~(iMLPX < 0)  BY <1>1
  <2> QED  BY <2>1 DEF L!NextGroup
<1>5. L!NextGroup(Old[i]) \in 0 .. iMLPX - 1  BY <1>2, <1>3, <1>4
<1> QED  BY <1>1, <1>5 DEF Rows

LEMMA NothingIsUndefined ==
  ASSUME MInv, NEW FROM, NEW TO
  PROVE  ~L!Undefined(FROM, TO) /\ ~L!LogsPastRows
<1>1. iMLPX <= Multiplexing /\ iMLPX \in Nat \ {0} /\ Multiplexing \in Nat
  BY ProfileAssumption DEF MInv, Values, ProfileAssumption
<1>2. \A i \in DOMAIN settled.LoopList_Header : L!NextGroup(settled.LoopList_Header[i]) \in L!Rows
  BY GroupIsRow, SameConstants DEF Old
<1>3. ~(iMLPX > Multiplexing)  BY <1>1
<1>4. ~L!Undefined(FROM, TO)
  <2>1. ~\E i \in DOMAIN settled.LoopList_Header :
            /\ L!IsRecordOf(settled.LoopList_Header[i], FROM, TO)
            /\ iMLPX # 0 => L!NextGroup(settled.LoopList_Header[i]) \notin L!Rows
    BY <1>1, <1>2
  <2> QED  BY <1>3, <2>1 DEF L!Undefined
<1>5. ~L!LogsPastRows  BY <1>3 DEF L!LogsPastRows
<1> QED  BY <1>4, <1>5

-----------------------------------------------------------------------------
(* What no step inside a call changes                                      *)

LEMMA Steady ==
  ASSUME UNCHANGED <<settled, iMLPX>>, NEW l, NEW FROM, NEW TO, NEW reading
  PROVE  /\ L!Visit(l, FROM, TO, reading)' = L!Visit(l, FROM, TO, reading)
         /\ L!IsRecordOf(l, FROM, TO)' = L!IsRecordOf(l, FROM, TO)
         /\ L!NextGroup(l)' = L!NextGroup(l)
         /\ L!NewLoop(FROM, TO)' = L!NewLoop(FROM, TO)
         /\ L!IsLogged(l)' = L!IsLogged(l) /\ L!LogLine(l)' = L!LogLine(l)
BY DEF L!Visit, L!Hit, L!AddReading, L!IsRecordOf, L!NextGroup, L!NewLoop, L!IsLogged, L!LogLine,
       L!Measured

LEMMA SteadyList ==
  ASSUME L!IInv, UNCHANGED <<settled, iMLPX>>
  PROVE  L!IInv' /\ UNCHANGED List!vars /\ Old' = Old /\ Line' = Line
<1>1. UNCHANGED L!vars /\ UNCHANGED List!vars  BY DEF L!vars, List!vars
<1>2. L!IInv'  BY <1>1, ListLemmas
<1>3. Old' = Old  BY DEF Old
<1>4. Line' = Line  BY <1>3, Steady DEF Line
<1> QED  BY <1>1, <1>2, <1>3, <1>4

LEMMA SteadySearch ==
  ASSUME UNCHANGED <<settled, iMLPX>>, search'.FROM = search.FROM, search'.TO = search.TO,
         search'.reading = search.reading
  PROVE  /\ \A l : Worked(l)' = Worked(l) /\ IsMatch(l)' = IsMatch(l)
         /\ \A k : WorkedUpTo(k)' = WorkedUpTo(k)
         /\ New' = New /\ AllWorked' = AllWorked /\ Old' = Old
<1>1. Old' = Old  BY DEF Old
<1>2. \A l : Worked(l)' = Worked(l) /\ IsMatch(l)' = IsMatch(l)
  BY Steady DEF Worked, IsMatch
<1>3. New' = New  BY Steady DEF New
<1>4. \A k : WorkedUpTo(k)' = WorkedUpTo(k)
  BY Steady DEF WorkedUpTo, Worked, Old
<1>5. AllWorked' = AllWorked  BY <1>1, Steady DEF AllWorked, WorkedUpTo, Worked, Old
<1> QED  BY <1>1, <1>2, <1>3, <1>4, <1>5

LEMMA SteadyInfo == L!LOOPInfo' = L!LOOPInfo
BY DEF L!LOOPInfo

(* While no removal runs, only the search has to be looked at ...          *)
LEMMA OnlySearch ==
  ASSUME RInv', L!IInv', Values', SearchOf', \A r \in Readers : removal'[r].pc = "idle",
         search'.pc = "idle" => Multiplex_Index' = settled'.Multiplex_Index /\ Holds(Old)'
  PROVE  MInv'
BY DEF MInv, RemovalOf, Removing, Is, Shortened, Searching

(* ... and while one removal runs and no search, only this removal.        *)
LEMMA OnlyRemoval ==
  ASSUME RInv', L!IInv', Values', search'.pc = "idle", NEW r \in Readers,
         \A q \in Readers \ {r} : removal'[q].pc = "idle", RemovalOf(r)',
         Multiplex_Index' = settled'.Multiplex_Index, Shortened(r)' \/ Holds(Old)'
  PROVE  MInv'
<1>1. \A q \in Readers : RemovalOf(q)'  BY DEF RemovalOf, Removing, Is, Shortened
<1>2. SearchOf'  BY DEF SearchOf, Searching, At, Inserting
<1> QED  BY <1>1, <1>2 DEF MInv, Searching

LEMMA QuietList ==
  ASSUME MInv, search.pc = "idle", \A r \in Readers : removal[r].pc = "idle"
  PROVE  Holds(Old) /\ Multiplex_Index = settled.Multiplex_Index
BY DEF MInv, Searching, Shortened

-----------------------------------------------------------------------------
(* The steps of a search                                                   *)

LEMMA SearchStartMaps ==
  ASSUME MInv, RInv', Overlap = FALSE, NEW FROM \in Addr, NEW TO \in Addr,
         NEW reading \in [PMCs -> UINT64], SearchStart(FROM, TO, reading)
  PROVE  MInv' /\ UNCHANGED List!vars
<1>1. search.pc = "idle" /\ \A r \in Readers : removal[r].pc = "idle"
  BY DEF SearchStart, At, Quiet, Removing
<1>2. /\ UNCHANGED <<info, Multiplex_Index, LenofLoopList, iMLPX, removal, order, settled>>
      /\ Profiled(FROM, TO)
      /\ search' = [IdleSearch EXCEPT !.pc = "search", !.FROM = FROM, !.TO = TO,
                                      !.reading = reading, !.next = Flink[Header]]
  BY DEF SearchStart, pool, globals, history
<1>3. /\ search'.pc = "search" /\ search'.FROM = FROM /\ search'.TO = TO
      /\ search'.next = Flink[Header] /\ search'.bFindLoop = FALSE
  BY <1>2 DEF IdleSearch
<1>4. Flink[Header] = Cell(order, 1)
  <2>1. Forward(Flink, order)  BY <1>1 DEF MInv, RInv, Ring, At, Is
  <2>2. 0 \in 0 .. Len(order) /\ Cell(order, 0) = Header  BY OldList DEF Cell
  <2> QED  BY <2>1, <2>2 DEF Forward
<1>5. L!IInv' /\ UNCHANGED List!vars /\ Old' = Old  BY <1>2, SteadyList DEF MInv
<1>6. Holds(WorkedUpTo(0))'
  <2>1. WorkedUpTo(0)' = Old
    <3>1. WorkedUpTo(0)' = [i \in DOMAIN Old |-> Old[i]]
      <4>1. \A i \in DOMAIN Old : ~(i <= 0)  BY OldList
      <4> QED  BY <1>5, <4>1 DEF WorkedUpTo
    <3> QED  BY <3>1, OldList
  <2> QED  BY <1>1, <1>2, <2>1, QuietList DEF Holds
<1>7. GroupAfter(0)'
  <2>1. \A i \in DOMAIN Old : ~(i <= 0)  BY OldList
  <2> QED  BY <1>1, <1>2, <1>3, <1>5, <2>1, QuietList DEF GroupAfter
<1>8. 0 \in 0 .. Len(Old)  BY OldList
<1>9. SearchOf'
  BY <1>2, <1>3, <1>4, <1>5, <1>6, <1>7, <1>8 DEF SearchOf, Searching, At, Inserting
<1> QED  BY <1>1, <1>2, <1>3, <1>5, <1>9, OnlySearch DEF MInv, Values

(* What the search finds at its next cell. *)
LEMMA NextCell ==
  ASSUME MInv, At("search"), NEW k \in 0 .. Len(Old),
         search.next = Cell(order, k + 1), Holds(WorkedUpTo(k)), search.next # Header
  PROVE  /\ k + 1 \in DOMAIN Old /\ k + 1 \in DOMAIN order
         /\ order[k + 1] = search.next /\ search.next \in Blocks
         /\ info[search.next] = Old[k + 1]
<1>1. Searching  BY DEF At, Searching
<1>2. Len(order) = Len(Old)  BY <1>1, WorkedList DEF Holds
<1>3. k + 1 \in DOMAIN order /\ order[k + 1] = search.next  BY DEF Cell
<1>4. k + 1 \in DOMAIN Old /\ k + 1 \in 1 .. Len(WorkedUpTo(k))
  BY <1>1, <1>2, <1>3, OldList, WorkedList
<1>5. ~(k + 1 <= k)  OBVIOUS
<1>6. info[order[k + 1]] = Old[k + 1]  BY <1>1, <1>4, <1>5, WorkedList DEF Holds
<1> QED  BY <1>3, <1>4, <1>6, OldList

LEMMA SearchVisitMaps ==
  ASSUME MInv, RInv', SearchVisit
  PROVE  MInv' /\ UNCHANGED List!vars
<1> DEFINE b == search.next
<1>1. /\ Searching /\ search.pc = "search" /\ \A r \in Readers : removal[r].pc = "idle"
      /\ b # Header
  BY SearchAlone DEF SearchVisit, At, Searching, MInv
<1>2. PICK k \in 0 .. Len(Old) :
         b = Cell(order, k + 1) /\ Holds(WorkedUpTo(k)) /\ GroupAfter(k)
  BY <1>1 DEF MInv, SearchOf, At
<1>3. /\ k + 1 \in DOMAIN Old /\ k + 1 \in DOMAIN order
      /\ order[k + 1] = b /\ b \in Blocks /\ info[b] = Old[k + 1]
  BY <1>1, <1>2, NextCell DEF At
<1>4. Matches = IsMatch(Old[k + 1])  BY <1>3, SameOnRecords DEF Matches, IsMatch
<1>5. Now!NextGroup(info[b]) = L!NextGroup(Old[k + 1])  BY <1>3, SameOnRecords
<1>6. ASSUME IsMatch(Old[k + 1])
      PROVE  ~search.bFindLoop /\ Multiplex_Index = settled.Multiplex_Index
  <2>1. \A i \in DOMAIN Old : i <= k => ~IsMatch(Old[i])
    <3>1. ASSUME NEW i \in DOMAIN Old, i <= k, IsMatch(Old[i]) PROVE FALSE
      <4>1. i = k + 1  BY <1>3, <1>6, <3>1, OneMatch
      <4> QED  BY <3>1, <4>1
    <3> QED  BY <3>1
  <2> QED  BY <1>2, <2>1 DEF GroupAfter
<1>7. Now!Visit(info[b], search.FROM, search.TO, search.reading) = Worked(Old[k + 1])
  BY <1>3, <1>6, SameVisit DEF IsMatch, Worked
<1>8. /\ info' = [info EXCEPT ![b] = Worked(Old[k + 1])]
      /\ Multiplex_Index' = IF IsMatch(Old[k + 1]) THEN L!NextGroup(Old[k + 1])
                                                   ELSE Multiplex_Index
      /\ search' = [search EXCEPT !.next = Flink[b],
                                  !.bFindLoop = search.bFindLoop \/ IsMatch(Old[k + 1])]
      /\ UNCHANGED <<LenofLoopList, iMLPX, removal, order, settled>>
  BY <1>4, <1>5, <1>7 DEF SearchVisit, history
<1>9. /\ search'.pc = "search" /\ search'.FROM = search.FROM /\ search'.TO = search.TO
      /\ search'.reading = search.reading /\ search'.next = Flink[b]
      /\ search'.bFindLoop = (search.bFindLoop \/ IsMatch(Old[k + 1]))
  BY <1>1, <1>8 DEF MInv, RInv, Typed, SearchLocals
<1>10. /\ L!IInv' /\ UNCHANGED List!vars /\ Old' = Old
       /\ \A l : IsMatch(l)' = IsMatch(l)
       /\ \A l : L!NextGroup(l)' = L!NextGroup(l)
       /\ WorkedUpTo(k + 1)' = WorkedUpTo(k + 1)
  BY <1>8, <1>9, SteadyList, SteadySearch, Steady DEF MInv
<1>11. Flink[b] = Cell(order, (k + 1) + 1) /\ k + 1 \in 0 .. Len(Old)
  <2>1. Forward(Flink, order)  BY <1>1 DEF MInv, RInv, Ring, At, Is
  <2>2. k + 1 \in 0 .. Len(order)  BY <1>3, OldList
  <2> QED  BY <1>2, <1>3, <2>1, <2>2, OldList DEF Forward
<1>12. Holds(WorkedUpTo(k + 1))'
  <2>1. /\ Len(order) = Len(Old) /\ Len(WorkedUpTo(k + 1)) = Len(Old)
        /\ Len(WorkedUpTo(k)) = Len(Old)
    BY <1>1, <1>2, WorkedList DEF Holds
  <2>2. ASSUME NEW i \in 1 .. Len(Old)
        PROVE  info'[order[i]] = WorkedUpTo(k + 1)[i]
    <3>1. i \in DOMAIN Old /\ i \in DOMAIN order /\ order[i] \in Blocks /\ i \in Int
      BY <2>1, OldList
    <3>2. WorkedUpTo(k + 1)[i] = IF i <= k + 1 THEN Worked(Old[i]) ELSE Old[i]
      BY <1>1, <3>1, WorkedList
    <3>3. WorkedUpTo(k)[i] = IF i <= k THEN Worked(Old[i]) ELSE Old[i]
      BY <1>1, <3>1, WorkedList
    <3>4. info[order[i]] = WorkedUpTo(k)[i]  BY <1>2, <2>1 DEF Holds
    <3>5. info \in [Blocks -> L!LOOPInfo \cup {Blank}]  BY DEF MInv, Values
    <3>6. CASE i = k + 1
      BY <1>3, <1>8, <3>1, <3>2, <3>5, <3>6
    <3>7. CASE i # k + 1
      <4>1. order[i] # b  BY <1>3, <3>1, <3>7 DEF MInv, RInv, Ring, Distinct
      <4>2. i <= k + 1 <=> i <= k  BY <3>1, <3>7
      <4>3. info'[order[i]] = info[order[i]]  BY <1>8, <3>1, <3>5, <4>1
      <4> QED  BY <3>2, <3>3, <3>4, <4>2, <4>3
    <3> QED  BY <3>6, <3>7
  <2> QED  BY <1>8, <1>10, <2>1, <2>2 DEF Holds
<1>13. GroupAfter(k + 1)'
  <2>1. CASE IsMatch(Old[k + 1])
    <3>1. search'.bFindLoop /\ Multiplex_Index' = L!NextGroup(Old[k + 1])
      BY <1>8, <1>9, <2>1
    <3>2. k + 1 <= k + 1  OBVIOUS
    <3> QED  BY <1>3, <1>10, <2>1, <3>1, <3>2 DEF GroupAfter
  <2>2. CASE ~IsMatch(Old[k + 1])
    <3>1. search'.bFindLoop = search.bFindLoop /\ Multiplex_Index' = Multiplex_Index
      <4>1. search.bFindLoop \in BOOLEAN  BY DEF MInv, RInv, Typed, SearchLocals
      <4> QED  BY <1>8, <1>9, <2>2, <4>1
    <3>2. \A i \in DOMAIN Old : /\ i <= k => i <= k + 1
                                /\ i <= k + 1 => i <= k \/ i = k + 1
      BY OldList
    <3>3. UNCHANGED settled  BY <1>8
    <3> QED  BY <1>2, <1>10, <2>2, <3>1, <3>2, <3>3 DEF GroupAfter
  <2> QED  BY <2>1, <2>2
<1>14. SearchOf'
  <2>1. Profiled(search'.FROM, search'.TO)  BY <1>1, <1>9 DEF MInv, SearchOf
  <2>2. search'.next = Cell(order', (k + 1) + 1)  BY <1>8, <1>9, <1>11
  <2> QED
    BY <1>9, <1>10, <1>11, <1>12, <1>13, <2>1, <2>2 DEF SearchOf, Searching, At, Inserting
<1>15. Values'
  <2>1. Worked(Old[k + 1]) \in L!LOOPInfo  BY <1>1, <1>3, WorkedRecord
  <2>2. L!NextGroup(Old[k + 1]) \in Rows  BY <1>3, GroupIsRow
  <2> QED  BY <1>3, <1>8, <1>10, <2>1, <2>2, SteadyInfo DEF MInv, Values
<1> QED  BY <1>1, <1>8, <1>9, <1>10, <1>14, <1>15, OnlySearch

(* The search is over when its next cell is the header. *)
LEMMA SearchDone ==
  ASSUME MInv, search.pc = "search", search.next = Header
  PROVE  Holds(AllWorked) /\ GroupAfter(Len(Old))
<1>1. Searching  BY DEF Searching
<1>2. PICK k \in 0 .. Len(Old) :
         search.next = Cell(order, k + 1) /\ Holds(WorkedUpTo(k)) /\ GroupAfter(k)
  BY DEF MInv, SearchOf, At
<1>3. Len(order) = Len(Old)  BY <1>1, <1>2, WorkedList DEF Holds
<1>4. ~(k + 1 \in DOMAIN order)
  <2>1. k + 1 \in DOMAIN order => Cell(order, k + 1) \in Blocks  BY OldList DEF Cell
  <2> QED  BY <1>2, <2>1, MemAssumption DEF MemAssumption
<1>5. k = Len(Old)
  <2>1. ~(k + 1 \in 1 .. Len(Old)) /\ Len(Old) \in Nat  BY <1>3, <1>4, OldList
  <2> HIDE DEF Old
  <2> QED  BY <2>1
<1> QED  BY <1>2, <1>5 DEF AllWorked

(* What a finished search has found. *)
LEMMA FoundAfter ==
  ASSUME MInv, Searching, GroupAfter(Len(Old))
  PROVE  \/ /\ search.bFindLoop /\ L!Found(search.FROM, search.TO)
            /\ \E i \in DOMAIN settled.LoopList_Header :
                 /\ L!IsRecordOf(settled.LoopList_Header[i], search.FROM, search.TO)
                 /\ Multiplex_Index = L!NextGroup(settled.LoopList_Header[i])
         \/ /\ ~search.bFindLoop /\ ~L!Found(search.FROM, search.TO)
            /\ Multiplex_Index = settled.Multiplex_Index
<1>1. \A i \in DOMAIN Old : i <= Len(Old)  BY OldList
<1> QED  BY <1>1 DEF GroupAfter, IsMatch, L!Found, Old

(* The return of a search is the step Find_Insert_LoopList of the list.    *)
LEMMA ReturnMaps ==
  ASSUME MInv, Searching, GroupAfter(Len(Old)),
         settled'.Multiplex_Index = Multiplex_Index, settled'.logLine = NoReport,
         UNCHANGED iMLPX,
         \/ /\ settled'.LoopList_Header = AllWorked
            /\ settled'.LenofLoopList = settled.LenofLoopList
         \/ /\ settled'.LoopList_Header = Append(AllWorked, New)
            /\ settled'.LenofLoopList = settled.LenofLoopList + 1
            /\ ~search.bFindLoop /\ IsLoop(search.FROM, search.TO)
  PROVE  L!IInv' /\ List!Next
<1> DEFINE FROM == search.FROM
           TO == search.TO
           reading == search.reading
<1>1. FROM \in Addr /\ TO \in Addr /\ reading \in [PMCs -> UINT64] /\ L!Profiled(FROM, TO)
  BY SampleTypes, SameConstants
<1>2. L!Find_Insert_LoopList(FROM, TO, reading)
  <2>1. ~L!Undefined(FROM, TO)  BY NothingIsUndefined
  <2>2. AllWorked = L!Visited(FROM, TO, reading) /\ New = L!NewLoop(FROM, TO)
    BY AllVisited DEF New
  <2>3. IsLoop(FROM, TO) => L!IsLoop(FROM, TO)  BY SameConstants
  <2>4. settled'.logLine = L!NoReport  BY SameConstants
  <2> QED
    BY <1>1, <2>1, <2>2, <2>3, <2>4, FoundAfter DEF L!Find_Insert_LoopList
<1>3. List!Find_Insert_LoopList(FROM, TO, reading)  BY <1>2, SameSteps
<1> HIDE DEF FROM, TO, reading
<1>4. L!Next  BY <1>1, <1>2, SameConstants DEF L!Next
<1>5. List!Next  BY <1>1, <1>3, SameConstants DEF List!Next
<1> QED  BY <1>4, <1>5, ListLemmas DEF MInv

LEMMA SearchReturnMaps ==
  ASSUME MInv, RInv', SearchReturn
  PROVE  MInv' /\ List!Next
<1>1. /\ Searching /\ search.pc = "search" /\ search.next = Header
      /\ \A r \in Readers : removal[r].pc = "idle"
  BY SearchAlone DEF SearchReturn, At, Searching, MInv
<1>2. /\ UNCHANGED <<info, Multiplex_Index, LenofLoopList, iMLPX, removal, order>>
      /\ search'.pc = "idle"
      /\ settled' = [LoopList_Header |-> Records(order, info), LenofLoopList |-> LenofLoopList,
                     Multiplex_Index |-> Multiplex_Index, logLine |-> NoReport]
  BY DEF SearchReturn, pool, globals, Settle, IdleSearch
<1>3. Holds(AllWorked) /\ GroupAfter(Len(Old))  BY <1>1, SearchDone
<1>4. AllWorked \in Seq(L!LOOPInfo)  BY <1>1, OldList, WorkedList DEF AllWorked
<1>5. Records(order, info) = AllWorked  BY <1>3, <1>4, OldList, RecordsAre DEF Holds
<1>6. L!IInv' /\ List!Next  BY <1>1, <1>2, <1>3, <1>5, OldList, ReturnMaps
<1>7. Old' = AllWorked  BY <1>2, <1>5 DEF Old
<1>8. Holds(Old)'  BY <1>2, <1>3, <1>7 DEF Holds
<1>9. SearchOf'  BY <1>2 DEF SearchOf, Searching, At, Inserting
<1>10. Values'
  BY <1>2, <1>7, <1>5, SteadyInfo DEF MInv, Values
<1> QED  BY <1>1, <1>2, <1>6, <1>8, <1>9, <1>10, OnlySearch

LEMMA AllocateMaps ==
  ASSUME MInv, RInv', NEW b \in Blocks, Allocate(b)
  PROVE  MInv' /\ UNCHANGED List!vars
<1>1. /\ Searching /\ search.pc = "search" /\ search.next = Header
      /\ IsLoop(search.FROM, search.TO) /\ ~search.bFindLoop
      /\ \A r \in Readers : removal[r].pc = "idle"
  BY SearchAlone DEF Allocate, At, Searching, MInv, IsNew
<1>2. /\ info' = [info EXCEPT ![b] = New] /\ b \notin allocated
      /\ search' = [search EXCEPT !.pc = "entry", !.tempData = b]
      /\ UNCHANGED <<Multiplex_Index, LenofLoopList, iMLPX, removal, order, settled>>
  BY SameOnRecords DEF Allocate, globals, history, New
<1>3. /\ search'.pc = "entry" /\ search'.tempData = b
      /\ search'.FROM = search.FROM /\ search'.TO = search.TO
      /\ search'.reading = search.reading /\ search'.bFindLoop = search.bFindLoop
  BY <1>2 DEF MInv, RInv, Typed, SearchLocals
<1>4. Holds(AllWorked) /\ GroupAfter(Len(Old))  BY <1>1, SearchDone
<1>5. /\ L!IInv' /\ UNCHANGED List!vars /\ Old' = Old /\ New' = New /\ AllWorked' = AllWorked
      /\ \A l : IsMatch(l)' = IsMatch(l)
      /\ \A l : L!NextGroup(l)' = L!NextGroup(l)
  BY <1>2, <1>3, SteadyList, SteadySearch, Steady DEF MInv
<1>6. info \in [Blocks -> L!LOOPInfo \cup {Blank}]  BY DEF MInv, Values
<1>7. Holds(AllWorked)'
  <2>1. b \notin BlocksOf(order)
    BY <1>1, <1>2 DEF MInv, RInv, Owned, Inserting, Freed
  <2>2. \A i \in DOMAIN order : info'[order[i]] = info[order[i]]
    BY <1>2, <1>6, <2>1, OldList DEF BlocksOf
  <2>3. Len(AllWorked) = Len(order)  BY <1>4 DEF Holds
  <2> QED  BY <1>2, <1>4, <1>5, <2>2, <2>3, OldList DEF Holds
<1>8. GroupAfter(Len(Old))'  BY <1>2, <1>3, <1>4, <1>5 DEF GroupAfter
<1>9. info'[b] = New'  BY <1>2, <1>5, <1>6
<1>10. SearchOf'
  <2>1. Profiled(search'.FROM, search'.TO)  BY <1>1, <1>3 DEF MInv, SearchOf
  <2> QED
    BY <1>1, <1>3, <1>7, <1>8, <1>9, <2>1 DEF SearchOf, Searching, At, Inserting
<1>11. Values'
  <2>1. New \in L!LOOPInfo  BY <1>1, NewRecord
  <2> QED  BY <1>2, <1>5, <2>1, SteadyInfo DEF MInv, Values
<1> QED  BY <1>1, <1>2, <1>3, <1>5, <1>10, <1>11, OnlySearch

(* The steps of InsertTailList before the new record is on the ring.       *)
LEMMA LinkMaps ==
  ASSUME MInv, RInv', LinkEntry \/ LinkLast
  PROVE  MInv' /\ UNCHANGED List!vars
<1>1. /\ Searching /\ search.pc \in {"entry", "last"}
      /\ \A r \in Readers : removal[r].pc = "idle"
  BY SearchAlone DEF LinkEntry, LinkLast, At, Searching, MInv
<1>2. /\ search'.pc \in {"last", "header"} /\ search'.tempData = search.tempData
      /\ search'.FROM = search.FROM /\ search'.TO = search.TO
      /\ search'.reading = search.reading /\ search'.bFindLoop = search.bFindLoop
      /\ UNCHANGED <<info, Multiplex_Index, LenofLoopList, iMLPX, removal, order, settled>>
  BY DEF LinkEntry, LinkLast, SearchStep, pool, globals, history, MInv, RInv, Typed, SearchLocals
<1>3. /\ L!IInv' /\ UNCHANGED List!vars /\ Old' = Old /\ New' = New /\ AllWorked' = AllWorked
      /\ \A l : IsMatch(l)' = IsMatch(l)
      /\ \A l : L!NextGroup(l)' = L!NextGroup(l)
  BY <1>2, SteadyList, SteadySearch, Steady DEF MInv
<1>4. /\ Holds(AllWorked) /\ info[search.tempData] = New /\ GroupAfter(Len(Old))
      /\ ~search.bFindLoop /\ IsLoop(search.FROM, search.TO)
      /\ Profiled(search.FROM, search.TO)
  BY <1>1 DEF MInv, SearchOf, Inserting
<1>5. Holds(AllWorked)' /\ GroupAfter(Len(Old))'
  BY <1>2, <1>3, <1>4 DEF Holds, GroupAfter
<1>6. SearchOf'  BY <1>2, <1>3, <1>4, <1>5 DEF SearchOf, Searching, At, Inserting
<1>7. Values'  BY <1>2, <1>3, SteadyInfo DEF MInv, Values
<1> QED  BY <1>1, <1>2, <1>3, <1>6, <1>7, OnlySearch

LEMMA LinkHeaderMaps ==
  ASSUME MInv, RInv', LinkHeader
  PROVE  MInv' /\ UNCHANGED List!vars
<1>1. /\ Searching /\ search.pc = "header"
      /\ \A r \in Readers : removal[r].pc = "idle"
  BY SearchAlone DEF LinkHeader, At, Searching, MInv
<1>2. /\ search'.pc = "len" /\ search'.FROM = search.FROM /\ search'.TO = search.TO
      /\ search'.reading = search.reading /\ search'.bFindLoop = search.bFindLoop
      /\ order' = Append(order, search.tempData)
      /\ UNCHANGED <<info, Multiplex_Index, LenofLoopList, iMLPX, removal, settled>>
  BY DEF LinkHeader, SearchStep, pool, globals, MInv, RInv, Typed, SearchLocals
<1>3. /\ L!IInv' /\ UNCHANGED List!vars /\ Old' = Old /\ New' = New /\ AllWorked' = AllWorked
      /\ \A l : IsMatch(l)' = IsMatch(l)
      /\ \A l : L!NextGroup(l)' = L!NextGroup(l)
  BY <1>2, SteadyList, SteadySearch, Steady DEF MInv
<1>4. /\ Holds(AllWorked) /\ info[search.tempData] = New /\ GroupAfter(Len(Old))
      /\ ~search.bFindLoop /\ IsLoop(search.FROM, search.TO)
      /\ Profiled(search.FROM, search.TO)
  BY <1>1 DEF MInv, SearchOf, Inserting
<1>5. GroupAfter(Len(Old))'  BY <1>2, <1>3, <1>4 DEF GroupAfter
<1>6. Holds(Append(AllWorked, New))'
  <2>1. AllWorked \in Seq(L!LOOPInfo) /\ New \in L!LOOPInfo
    BY <1>1, OldList, WorkedList, NewRecord DEF AllWorked
  <2>2. search.tempData \in Blocks
    BY <1>1 DEF MInv, RInv, InsertProgress, Inserting
  <2>3. /\ Len(order') = Len(order) + 1 /\ order'[Len(order) + 1] = search.tempData
        /\ \A i \in 1 .. Len(order) : order'[i] = order[i]
    BY <1>2, <2>2, OldList
  <2> DEFINE longer == Append(AllWorked, New)
  <2>4. /\ Len(longer) = Len(AllWorked) + 1 /\ longer[Len(AllWorked) + 1] = New
        /\ \A i \in 1 .. Len(AllWorked) : longer[i] = AllWorked[i]
        /\ Len(AllWorked) \in Nat
    <3> HIDE DEF AllWorked, New
    <3> QED  BY <2>1
  <2>5. /\ Len(order) = Len(AllWorked)
        /\ \A i \in 1 .. Len(AllWorked) : info[order[i]] = AllWorked[i]
    BY <1>4 DEF Holds
  <2> HIDE DEF longer
  <2>6. \A i \in 1 .. Len(longer) : info[order'[i]] = longer[i]
    BY <1>4, <2>3, <2>4, <2>5
  <2>7. Len(order') = Len(longer) /\ Append(AllWorked, New)' = longer
    BY <1>3, <2>3, <2>4, <2>5 DEF longer
  <2> QED  BY <1>2, <2>6, <2>7 DEF Holds
<1>7. SearchOf'  BY <1>2, <1>3, <1>4, <1>5, <1>6 DEF SearchOf, Searching, At, Inserting
<1>8. Values'  BY <1>2, <1>3, SteadyInfo DEF MInv, Values
<1> QED  BY <1>1, <1>2, <1>3, <1>7, <1>8, OnlySearch

LEMMA LenReadMaps ==
  ASSUME MInv, RInv', LenRead
  PROVE  MInv' /\ UNCHANGED List!vars
<1>1. /\ Searching /\ search.pc = "len" /\ \A r \in Readers : removal[r].pc = "idle"
  BY SearchAlone DEF LenRead, At, Searching, MInv
<1>2. /\ search'.pc = "count" /\ search'.FROM = search.FROM /\ search'.TO = search.TO
      /\ search'.reading = search.reading /\ search'.bFindLoop = search.bFindLoop
      /\ search'.len = LenofLoopList
      /\ UNCHANGED <<info, Multiplex_Index, LenofLoopList, iMLPX, removal, order, settled>>
  BY DEF LenRead, pool, globals, history, MInv, RInv, Typed, SearchLocals
<1>3. /\ L!IInv' /\ UNCHANGED List!vars /\ Old' = Old /\ New' = New /\ AllWorked' = AllWorked
      /\ \A l : IsMatch(l)' = IsMatch(l)
      /\ \A l : L!NextGroup(l)' = L!NextGroup(l)
  BY <1>2, SteadyList, SteadySearch, Steady DEF MInv
<1>4. /\ Holds(Append(AllWorked, New)) /\ GroupAfter(Len(Old))
      /\ ~search.bFindLoop /\ IsLoop(search.FROM, search.TO)
      /\ Profiled(search.FROM, search.TO)
  BY <1>1 DEF MInv, SearchOf
<1>5. Holds(Append(AllWorked, New))' /\ GroupAfter(Len(Old))'
  BY <1>2, <1>3, <1>4 DEF Holds, GroupAfter
<1>6. SearchOf'  BY <1>2, <1>3, <1>4, <1>5 DEF SearchOf, Searching, At, Inserting
<1>7. Values'  BY <1>2, <1>3, SteadyInfo DEF MInv, Values
<1> QED  BY <1>1, <1>2, <1>3, <1>6, <1>7, OnlySearch

LEMMA LenIncrementMaps ==
  ASSUME MInv, RInv', LenIncrement
  PROVE  MInv' /\ List!Next
<1>1. /\ Searching /\ search.pc = "count" /\ \A r \in Readers : removal[r].pc = "idle"
  BY SearchAlone DEF LenIncrement, At, Searching, MInv
<1>2. /\ Holds(Append(AllWorked, New)) /\ GroupAfter(Len(Old))
      /\ ~search.bFindLoop /\ IsLoop(search.FROM, search.TO)
      /\ search.len = LenofLoopList
  BY <1>1 DEF MInv, SearchOf, At
<1>3. /\ UNCHANGED <<info, Multiplex_Index, iMLPX, removal, order>>
      /\ search'.pc = "idle" /\ LenofLoopList' = LenofLoopList + 1
      /\ settled' = [LoopList_Header |-> Records(order, info),
                     LenofLoopList |-> LenofLoopList + 1,
                     Multiplex_Index |-> Multiplex_Index, logLine |-> NoReport]
  BY <1>2 DEF LenIncrement, pool, Settle, IdleSearch
<1> DEFINE longer == Append(AllWorked, New)
<1>4. longer \in Seq(L!LOOPInfo)
  <2>1. AllWorked \in Seq(L!LOOPInfo) /\ New \in L!LOOPInfo
    BY <1>1, OldList, WorkedList, NewRecord DEF AllWorked
  <2> HIDE DEF AllWorked, New
  <2> QED  BY <2>1
<1>5. Records(order, info) = longer
  <2> HIDE DEF longer
  <2>1. Holds(longer)  BY <1>2 DEF longer
  <2> QED  BY <1>4, <2>1, OldList, RecordsAre DEF Holds
<1>6. L!IInv' /\ List!Next  BY <1>1, <1>2, <1>3, <1>5, OldList, ReturnMaps
<1>7. Old' = longer  BY <1>3, <1>5 DEF Old
<1>8. Holds(Old)'  BY <1>2, <1>3, <1>7 DEF Holds
<1>9. SearchOf'  BY <1>3 DEF SearchOf, Searching, At, Inserting
<1>10. Values'  BY <1>3, <1>5, <1>7, SteadyInfo DEF MInv, Values
<1> QED  BY <1>1, <1>3, <1>6, <1>8, <1>9, <1>10, OnlySearch

-----------------------------------------------------------------------------
(* The steps of a removal                                                  *)

(* Until the record is off the ring, the list is the one of the start.     *)
LEMMA RemovalList ==
  ASSUME MInv, NEW r \in Readers, Removing(r)
  PROVE  /\ search.pc = "idle" /\ \A q \in Readers \ {r} : removal[q].pc = "idle"
         /\ RemovalOf(r) /\ Multiplex_Index = settled.Multiplex_Index
         /\ ~Shortened(r) => Holds(Old)
<1>1. search.pc = "idle" /\ \A q \in Readers \ {r} : removal[q].pc = "idle"
  BY RemovalAlone DEF MInv
<1>2. ~Shortened(r) => \A q \in Readers : ~Shortened(q)  BY <1>1 DEF Shortened
<1> QED  BY <1>1, <1>2 DEF MInv, Searching

LEMMA RemoveStartMaps ==
  ASSUME MInv, RInv', Overlap = FALSE, NEW r \in Readers, RemoveStart(r)
  PROVE  MInv' /\ UNCHANGED List!vars
<1>1. search.pc = "idle" /\ \A q \in Readers : removal[q].pc = "idle"
  BY DEF RemoveStart, Quiet, Searching, Removing
<1>2. /\ removal'[r].pc = "log" /\ \A q \in Readers \ {r} : removal'[q] = removal[q]
      /\ Flink[Header] # Header
      /\ UNCHANGED <<info, Multiplex_Index, LenofLoopList, iMLPX, order, settled, search>>
  BY DEF RemoveStart, pool, globals, history, MInv, RInv, Typed, RemovalLocals
<1>3. L!IInv' /\ UNCHANGED List!vars /\ Old' = Old  BY <1>2, SteadyList DEF MInv
<1>4. Holds(Old) /\ Multiplex_Index = settled.Multiplex_Index  BY <1>1, QuietList
<1>5. Old # <<>>
  <2>1. Forward(Flink, order)  BY <1>1 DEF MInv, RInv, Ring, At, Is
  <2>2. 0 \in 0 .. Len(order) /\ Cell(order, 0) = Header  BY OldList DEF Cell
  <2>3. Flink[Header] = Cell(order, 1)  BY <2>1, <2>2 DEF Forward
  <2>4. Len(order) # 0  BY <1>2, <2>3, OldList DEF Cell
  <2> QED  BY <1>4, <2>4 DEF Holds
<1>6. RemovalOf(r)'  BY <1>2, <1>3, <1>5 DEF RemovalOf, Removing, Is, Shortened
<1>7. Values' /\ Holds(Old)'  BY <1>2, <1>3, <1>4, SteadyInfo DEF MInv, Values, Holds
<1> QED  BY <1>1, <1>2, <1>3, <1>4, <1>6, <1>7, OnlyRemoval

LEMMA RemoveLogMaps ==
  ASSUME MInv, RInv', NEW r \in Readers, RemoveLog(r)
  PROVE  MInv' /\ UNCHANGED List!vars
<1>1. Removing(r) /\ removal[r].pc = "log"  BY DEF RemoveLog, Is, Removing
<1>2. /\ removal'[r].pc = "free" /\ \A q \in Readers \ {r} : removal'[q] = removal[q]
      /\ logLine' = IF Now!IsLogged(info[removal[r].Max_Entry])
                    THEN Now!LogLine(info[removal[r].Max_Entry]) ELSE NoReport
      /\ UNCHANGED <<info, Multiplex_Index, LenofLoopList, iMLPX, order, settled, search>>
  BY DEF RemoveLog, RemoveStep, pool, history, MInv, RInv, Typed, RemovalLocals
<1>3. L!IInv' /\ UNCHANGED List!vars /\ Old' = Old /\ Line' = Line
  BY <1>2, SteadyList DEF MInv
<1>4. /\ Holds(Old) /\ Old # <<>> /\ search.pc = "idle"
      /\ Multiplex_Index = settled.Multiplex_Index
      /\ \A q \in Readers \ {r} : removal[q].pc = "idle"
  BY <1>1, RemovalList DEF Shortened, RemovalOf
<1>5. info[removal[r].Max_Entry] = Old[1]
  <2>1. Len(Old) \in Nat \ {0} /\ 1 \in 1 .. Len(Old)  BY <1>4, OldList
  <2>2. removal[r].Max_Entry = Cell(order, 1)  BY <1>1 DEF MInv, RInv, RemoveProgress, Unfreed
  <2>3. 1 \in DOMAIN order  BY <1>4, <2>1, OldList DEF Holds
  <2> QED  BY <1>4, <2>1, <2>2, <2>3 DEF Holds, Cell
<1>6. logLine' = Line  BY <1>2, <1>5, SameLines DEF Line
<1>7. RemovalOf(r)'  BY <1>2, <1>3, <1>4, <1>6 DEF RemovalOf, Removing, Is, Shortened
<1>8. Values' /\ Holds(Old)'  BY <1>2, <1>3, <1>4, SteadyInfo DEF MInv, Values, Holds
<1> QED  BY <1>2, <1>3, <1>4, <1>7, <1>8, OnlyRemoval

(* The steps that free the block and touch the ring in one direction.      *)
LEMMA RemoveMoves ==
  ASSUME MInv, RInv', NEW r \in Readers,
         Removing(r), ~Shortened(r), removal[r].pc # "log",
         removal'[r].pc \in {"links", "forward", "backward"},
         \A q \in Readers \ {r} : removal'[q] = removal[q],
         UNCHANGED <<info, Multiplex_Index, LenofLoopList, iMLPX, logLine, order, settled, search>>
  PROVE  MInv' /\ UNCHANGED List!vars
<1>1. L!IInv' /\ UNCHANGED List!vars /\ Old' = Old /\ Line' = Line
  BY SteadyList DEF MInv
<1>2. /\ Holds(Old) /\ RemovalOf(r) /\ search.pc = "idle"
      /\ Multiplex_Index = settled.Multiplex_Index
      /\ \A q \in Readers \ {r} : removal[q].pc = "idle"
  BY RemovalList
<1>3. RemovalOf(r)'  BY <1>1, <1>2 DEF RemovalOf, Removing, Is, Shortened
<1>4. Values' /\ Holds(Old)'  BY <1>1, <1>2, SteadyInfo DEF MInv, Values, Holds
<1> QED  BY <1>1, <1>2, <1>3, <1>4, OnlyRemoval

LEMMA RemoveMovesMap ==
  ASSUME MInv, RInv', NEW r \in Readers, RemoveFree(r) \/ RemoveLinks(r) \/ UnlinkForward(r)
  PROVE  MInv' /\ UNCHANGED List!vars
<1>1. removal[r].pc \in {"free", "links", "forward"}
  BY DEF RemoveFree, RemoveLinks, UnlinkForward, Is
<1>2. /\ removal'[r].pc \in {"links", "forward", "backward"}
      /\ \A q \in Readers \ {r} : removal'[q] = removal[q]
      /\ UNCHANGED <<info, Multiplex_Index, LenofLoopList, iMLPX, logLine, order, settled, search>>
  BY DEF RemoveFree, RemoveLinks, UnlinkForward, RemoveStep, pool, globals, history, MInv, RInv,
         Typed, RemovalLocals
<1> QED  BY <1>1, <1>2, RemoveMoves DEF Removing, Shortened

LEMMA UnlinkBackwardMaps ==
  ASSUME MInv, RInv', NEW r \in Readers, UnlinkBackward(r)
  PROVE  MInv' /\ UNCHANGED List!vars
<1>1. Removing(r) /\ removal[r].pc = "backward"  BY DEF UnlinkBackward, Is, Removing
<1>2. /\ Holds(Old) /\ Old # <<>> /\ logLine = Line /\ search.pc = "idle"
      /\ Multiplex_Index = settled.Multiplex_Index
      /\ \A q \in Readers \ {r} : removal[q].pc = "idle"
  BY <1>1, RemovalList DEF Shortened, RemovalOf, Is
<1>3. /\ order # <<>> /\ Distinct(order) /\ order \in Seq(Blocks)
      /\ removal[r].Max_Entry = Cell(order, 1)
  BY <1>1 DEF MInv, RInv, Typed, Ring, RemoveProgress, Freed
<1>4. /\ Cell(order, 1) = order[1] /\ order[1] \in BlocksOf(order)
      /\ BlocksOf(Tail(order)) = BlocksOf(order) \ {order[1]}
      /\ Without(order, order[1]) = Tail(order)
  BY <1>3, TailCells, WithoutFirst
<1>5. /\ removal'[r] = [removal[r] EXCEPT !.pc = "len"]
      /\ \A q \in Readers \ {r} : removal'[q] = removal[q]
      /\ order' = Tail(order)
      /\ UNCHANGED <<info, Multiplex_Index, LenofLoopList, iMLPX, logLine, settled, search>>
  BY <1>3, <1>4
  DEF UnlinkBackward, RemoveStep, pool, globals, MInv, RInv, Typed, RemovalLocals
<1>6. removal'[r].pc = "len" /\ removal'[r].Max_Entry = order[1]
  BY <1>3, <1>4, <1>5 DEF MInv, RInv, Typed, RemovalLocals
<1>7. L!IInv' /\ UNCHANGED List!vars /\ Old' = Old /\ Line' = Line
  BY <1>5, SteadyList DEF MInv
<1>8. Holds(Tail(Old))'
  <2>1. Old \in Seq(L!LOOPInfo)  BY OldList
  <2> HIDE DEF Old
  <2>2. /\ Len(Tail(Old)) = Len(Old) - 1 /\ Len(Old) \in Nat \ {0}
        /\ \A i \in 1 .. Len(Old) - 1 : Tail(Old)[i] = Old[i + 1]
    BY <1>2, <2>1
  <2>3. /\ Len(Tail(order)) = Len(order) - 1
        /\ \A i \in 1 .. Len(order) - 1 : Tail(order)[i] = order[i + 1]
    BY <1>3
  <2>4. Len(order) = Len(Old) /\ \A i \in 1 .. Len(Old) : info[order[i]] = Old[i]
    BY <1>2 DEF Holds
  <2>5. \A i \in 1 .. Len(Tail(Old)) : info[Tail(order)[i]] = Tail(Old)[i]
    BY <2>2, <2>3, <2>4
  <2> QED  BY <1>5, <1>7, <2>2, <2>3, <2>4, <2>5 DEF Holds
<1>9. removal'[r].Max_Entry \in Blocks \ BlocksOf(order')
  BY <1>3, <1>4, <1>5, <1>6, CellFacts
<1>10. RemovalOf(r)'
  BY <1>2, <1>5, <1>6, <1>7, <1>8, <1>9 DEF RemovalOf, Removing, Is, Shortened
<1>11. Values' /\ Shortened(r)'
  BY <1>5, <1>6, <1>7, SteadyInfo DEF MInv, Values, Shortened
<1> QED  BY <1>2, <1>5, <1>7, <1>10, <1>11, OnlyRemoval

LEMMA RemoveLenReadMaps ==
  ASSUME MInv, RInv', NEW r \in Readers, RemoveLenRead(r)
  PROVE  MInv' /\ UNCHANGED List!vars
<1>1. Removing(r) /\ removal[r].pc = "len"  BY DEF RemoveLenRead, Is, Removing
<1>2. /\ RemovalOf(r) /\ search.pc = "idle"
      /\ Multiplex_Index = settled.Multiplex_Index
      /\ \A q \in Readers \ {r} : removal[q].pc = "idle"
  BY <1>1, RemovalList
<1>3. /\ removal'[r].pc = "count" /\ removal'[r].len = LenofLoopList
      /\ removal'[r].Max_Entry = removal[r].Max_Entry
      /\ \A q \in Readers \ {r} : removal'[q] = removal[q]
      /\ UNCHANGED <<info, Multiplex_Index, LenofLoopList, iMLPX, logLine, order, settled, search>>
  BY DEF RemoveLenRead, pool, globals, history, MInv, RInv, Typed, RemovalLocals
<1>4. L!IInv' /\ UNCHANGED List!vars /\ Old' = Old /\ Line' = Line
  BY <1>3, SteadyList DEF MInv
<1>5. RemovalOf(r)'
  BY <1>1, <1>2, <1>3, <1>4 DEF RemovalOf, Removing, Is, Shortened, Holds
<1>6. Values' /\ Shortened(r)'  BY <1>3, <1>4, SteadyInfo DEF MInv, Values, Shortened
<1> QED  BY <1>2, <1>3, <1>4, <1>5, <1>6, OnlyRemoval

(* The return of a removal is the step Remove_LoopList of the list.        *)
LEMMA LenDecrementMaps ==
  ASSUME MInv, RInv', Overlap = FALSE, NEW r \in Readers, LenDecrement(r)
  PROVE  MInv' /\ List!Next
<1>1. Removing(r) /\ removal[r].pc = "count"  BY DEF LenDecrement, Is, Removing
<1>2. /\ search.pc = "idle" /\ Multiplex_Index = settled.Multiplex_Index
      /\ \A q \in Readers \ {r} : removal[q].pc = "idle"
      /\ Old # <<>> /\ logLine = Line /\ Holds(Tail(Old))
      /\ removal[r].Max_Entry \in Blocks \ BlocksOf(order) /\ removal[r].len = LenofLoopList
  BY <1>1, RemovalList DEF RemovalOf, Is, Shortened
<1>3. /\ info' = [info EXCEPT ![removal[r].Max_Entry] = Blank]
      /\ removal' = [removal EXCEPT ![r] = IdleRemoval] /\ LenofLoopList' = LenofLoopList - 1
      /\ UNCHANGED <<Multiplex_Index, iMLPX, logLine, order, search>>
      /\ settled' = [LoopList_Header |-> Records(order, info'),
                     LenofLoopList |-> LenofLoopList - 1,
                     Multiplex_Index |-> Multiplex_Index, logLine |-> logLine]
  BY <1>2 DEF LenDecrement, Settle
<1>4. \A q \in Readers : removal'[q].pc = "idle"
  BY <1>2, <1>3 DEF IdleRemoval, MInv, RInv, Typed
<1>5. /\ info' \in [Blocks -> L!LOOPInfo \cup {Blank}]
      /\ \A i \in DOMAIN order : info'[order[i]] = info[order[i]]
  BY <1>2, <1>3, OldList DEF MInv, Values, BlocksOf
<1>6. /\ Tail(Old) \in Seq(L!LOOPInfo) /\ Head(Old) = Old[1]
      /\ Len(Tail(Old)) = Len(order) /\ DOMAIN order = 1 .. Len(order)
      /\ \A i \in 1 .. Len(order) : info[order[i]] = Tail(Old)[i]
  <2>1. Old \in Seq(L!LOOPInfo)  BY OldList
  <2>2. Len(order) = Len(Tail(Old)) /\ \A i \in 1 .. Len(order) : info[order[i]] = Tail(Old)[i]
    BY <1>2 DEF Holds
  <2> HIDE DEF Old
  <2> QED  BY <1>2, <2>1, <2>2, OldList
<1>7. Records(order, info') = Tail(Old)
  <2> DEFINE tail == Tail(Old)
             content == info'
  <2>1. /\ order \in Seq(Blocks) /\ tail \in Seq(L!LOOPInfo) /\ Len(order) = Len(tail)
        /\ \A i \in 1 .. Len(tail) : content[order[i]] = tail[i]
    BY <1>5, <1>6, OldList
  <2> HIDE DEF tail, content
  <2>2. Records(order, content) = tail  BY <2>1, RecordsAre
  <2> QED  BY <2>2 DEF tail, content
<1>8. L!Remove_LoopList
  <2>1. logLine = IF L!IsLogged(Head(Old)) THEN L!LogLine(Head(Old)) ELSE L!NoReport
    BY <1>2, <1>6, SameConstants DEF Line
  <2>2. ~L!LogsPastRows  BY NothingIsUndefined
  <2>3. settled.LenofLoopList = LenofLoopList  BY OldList
  <2>4. settled'.LoopList_Header = Tail(Old) /\ settled'.LenofLoopList = LenofLoopList - 1
        /\ settled'.Multiplex_Index = Multiplex_Index /\ settled'.logLine = logLine
    BY <1>3, <1>7
  <2> QED  BY <1>2, <1>3, <2>1, <2>2, <2>3, <2>4 DEF L!Remove_LoopList, Old
<1>9. L!Next /\ List!Next  BY <1>8, SameSteps DEF L!Next, List!Next
<1>10. L!IInv'  BY <1>9, ListLemmas DEF MInv
<1>11. Old' = Tail(Old)  BY <1>3, <1>7 DEF Old
<1>12. Holds(Old)'
  BY <1>3, <1>5, <1>6, <1>11 DEF Holds
<1>13. SearchOf'  BY <1>2, <1>3 DEF SearchOf, Searching, At, Inserting
<1>14. settled'.Multiplex_Index = Multiplex_Index' /\ settled'.logLine = logLine  BY <1>3
<1>15. Values'  BY <1>3, <1>5, <1>7, <1>11, <1>14, SteadyInfo DEF MInv, Values
<1> QED  BY <1>4, <1>9, <1>10, <1>12, <1>13, <1>14, <1>15, OnlySearch

-----------------------------------------------------------------------------
(* The other steps, and the specification                                  *)

LEMMA SetMlpxMaps ==
  ASSUME MInv, RInv', NEW n \in MlpxValues, SetMlpx(n)
  PROVE  MInv' /\ List!Next
<1>1. search.pc = "idle" /\ \A r \in Readers : removal[r].pc = "idle"
  BY DEF SetMlpx, Quiet, Searching, Removing
<1>2. Holds(Old) /\ Multiplex_Index = settled.Multiplex_Index  BY <1>1, QuietList
<1>3. /\ order = <<>> /\ iMLPX' = n /\ settled' = [settled EXCEPT !.logLine = NoReport]
      /\ UNCHANGED <<info, Multiplex_Index, LenofLoopList, search, removal, order>>
  BY DEF SetMlpx, pool
<1>4. settled = [LoopList_Header |-> Old, LenofLoopList |-> LenofLoopList,
                 Multiplex_Index |-> settled.Multiplex_Index, logLine |-> settled.logLine]
  BY DEF MInv, Values
<1>5. /\ settled'.LoopList_Header = Old /\ settled'.LenofLoopList = settled.LenofLoopList
      /\ settled'.Multiplex_Index = settled.Multiplex_Index /\ settled'.logLine = NoReport
      /\ settled' = [LoopList_Header |-> Old, LenofLoopList |-> LenofLoopList,
                     Multiplex_Index |-> settled.Multiplex_Index, logLine |-> NoReport]
  <2> HIDE DEF Old
  <2> QED  BY <1>3, <1>4
<1>6. Old = <<>>
  <2>1. Len(Old) = 0  BY <1>2, <1>3 DEF Holds
  <2>2. Old \in Seq(L!LOOPInfo)  BY OldList
  <2> HIDE DEF Old
  <2> QED  BY <2>1, <2>2
<1>7. L!SetMlpx(n)  BY <1>3, <1>5, <1>6, SameConstants DEF L!SetMlpx, Old
<1>8. L!Next /\ List!Next  BY <1>7, SameSteps DEF L!Next, List!Next
<1>9. L!IInv'  BY <1>8, ListLemmas DEF MInv
<1>10. Old' = Old  BY <1>5 DEF Old
<1>11. Holds(Old)'  BY <1>2, <1>3, <1>10 DEF Holds
<1>12. SearchOf'  BY <1>1, <1>3 DEF SearchOf, Searching, At, Inserting
<1>13. Values'
  <2>1. n \in 1 .. Multiplexing  BY MemAssumption DEF MemAssumption
  <2> QED  BY <1>3, <1>5, <1>10, <2>1, SteadyInfo DEF MInv, Values
<1>14. settled'.Multiplex_Index = Multiplex_Index'  BY <1>2, <1>3, <1>5
<1>15. \A r \in Readers : removal'[r].pc = "idle"  BY <1>1, <1>3
<1> QED  BY <1>8, <1>9, <1>11, <1>12, <1>13, <1>14, <1>15, OnlySearch

LEMMA StartCaptureMaps ==
  ASSUME MInv, RInv', StartCapture
  PROVE  MInv' /\ List!Next
<1>1. search.pc = "idle" /\ \A r \in Readers : removal[r].pc = "idle"
  BY DEF StartCapture, Quiet, Searching, Removing
<1>2. Holds(Old)  BY <1>1, QuietList
<1>3. /\ Multiplex_Index' = 0
      /\ settled' = [settled EXCEPT !.Multiplex_Index = 0, !.logLine = NoReport]
      /\ UNCHANGED <<info, iMLPX, LenofLoopList, search, removal, order>>
  BY DEF StartCapture, pool
<1>4. settled = [LoopList_Header |-> Old, LenofLoopList |-> LenofLoopList,
                 Multiplex_Index |-> settled.Multiplex_Index, logLine |-> settled.logLine]
  BY DEF MInv, Values
<1>5. /\ settled'.LoopList_Header = Old /\ settled'.LenofLoopList = settled.LenofLoopList
      /\ settled'.Multiplex_Index = 0 /\ settled'.logLine = NoReport
      /\ settled' = [LoopList_Header |-> Old, LenofLoopList |-> LenofLoopList,
                     Multiplex_Index |-> 0, logLine |-> NoReport]
  <2> DEFINE restarted == [settled EXCEPT !.Multiplex_Index = 0]
  <2>1. restarted = [LoopList_Header |-> Old, LenofLoopList |-> LenofLoopList,
                     Multiplex_Index |-> 0, logLine |-> settled.logLine]
    BY <1>4
  <2>2. settled' = [restarted EXCEPT !.logLine = NoReport]  BY <1>3
  <2> HIDE DEF restarted
  <2>3. settled' = [LoopList_Header |-> Old, LenofLoopList |-> LenofLoopList,
                    Multiplex_Index |-> 0, logLine |-> NoReport]
    BY <2>1, <2>2
  <2> QED  BY <2>3, OldList
<1>6. L!StartCapture  BY <1>3, <1>5, SameConstants DEF L!StartCapture, Old
<1>7. L!Next /\ List!Next  BY <1>6, SameSteps DEF L!Next, List!Next
<1>8. L!IInv'  BY <1>7, ListLemmas DEF MInv
<1>9. Old' = Old  BY <1>5 DEF Old
<1>10. Holds(Old)'  BY <1>2, <1>3, <1>9 DEF Holds
<1>11. SearchOf'  BY <1>1, <1>3 DEF SearchOf, Searching, At, Inserting
<1>12. Values'
  <2>1. 0 \in Rows  BY ProfileAssumption DEF Rows, ProfileAssumption
  <2> QED  BY <1>3, <1>5, <1>9, <2>1, SteadyInfo DEF MInv, Values
<1>13. settled'.Multiplex_Index = Multiplex_Index'  BY <1>3, <1>5
<1>14. \A r \in Readers : removal'[r].pc = "idle"  BY <1>1, <1>3
<1> QED  BY <1>7, <1>8, <1>10, <1>11, <1>12, <1>13, <1>14, OnlySearch

LEMMA InitMaps == Init => MInv /\ List!Init
<1> SUFFICES ASSUME Init PROVE MInv /\ List!Init  OBVIOUS
<1>1. /\ search.pc = "idle" /\ \A r \in Readers : removal[r].pc = "idle"
  BY DEF Init, IdleSearch, IdleRemoval
<1>2. L!Init  BY SameConstants DEF Init, L!Init
<1>3. L!IInv /\ List!Init  BY <1>2, ListLemmas, SameSteps
<1>4. 0 \in Rows /\ 1 \in 1 .. Multiplexing
  BY ProfileAssumption DEF Rows, ProfileAssumption
<1>5. Values  BY <1>4 DEF Init, Values, Old
<1>6. Holds(Old)  BY DEF Init, Holds, Old
<1>7. SearchOf  BY <1>1 DEF SearchOf, Searching, At, Inserting
<1>8. \A r \in Readers : RemovalOf(r)  BY <1>1 DEF RemovalOf, Removing, Is, Shortened
<1>9. Multiplex_Index = settled.Multiplex_Index  BY DEF Init
<1> QED  BY <1>3, <1>5, <1>6, <1>7, <1>8, <1>9, InitEstablishesRInv DEF MInv

LEMMA StutterMaps ==
  ASSUME MInv, RInv', UNCHANGED vars
  PROVE  MInv' /\ UNCHANGED List!vars
<1>1. UNCHANGED <<info, Multiplex_Index, LenofLoopList, iMLPX, logLine, order, settled, search,
                  removal>>
  BY DEF vars, pool, globals, history
<1>2. /\ L!IInv' /\ UNCHANGED List!vars /\ Old' = Old /\ Line' = Line
      /\ New' = New /\ AllWorked' = AllWorked
      /\ \A l : IsMatch(l)' = IsMatch(l) /\ L!NextGroup(l)' = L!NextGroup(l)
      /\ \A k : WorkedUpTo(k)' = WorkedUpTo(k)
  BY <1>1, SteadyList, SteadySearch, Steady DEF MInv
<1>3. Values'  BY <1>1, <1>2, SteadyInfo DEF MInv, Values
<1>4. Holds(Old)' = Holds(Old) /\ \A k : GroupAfter(k)' = GroupAfter(k)
  BY <1>1, <1>2 DEF Holds, GroupAfter
<1>5. SearchOf'
  BY <1>1, <1>2, <1>4 DEF MInv, SearchOf, Searching, At, Inserting, Holds
<1>6. \A r \in Readers : RemovalOf(r)'
  BY <1>1, <1>2 DEF MInv, RemovalOf, Removing, Is, Shortened, Holds
<1> QED  BY <1>1, <1>2, <1>3, <1>4, <1>5, <1>6 DEF MInv, Searching, Shortened

(* Every step keeps the invariant and is a step of LoopList or none.       *)
LEMMA NextMaps ==
  ASSUME Overlap = FALSE
  PROVE  MInv /\ [Next]_vars => MInv' /\ [List!Next]_(List!vars)
<1> SUFFICES ASSUME MInv, [Next]_vars PROVE MInv' /\ [List!Next]_(List!vars)  OBVIOUS
<1>1. RInv'  BY NextKeepsRInv DEF MInv
<1>2. CASE \E FROM, TO \in Addr, reading \in [PMCs -> UINT64] : SearchStart(FROM, TO, reading)
  BY <1>1, <1>2, SearchStartMaps
<1>3. CASE SearchSteps
  BY <1>1, <1>3, SearchVisitMaps, SearchReturnMaps, AllocateMaps, LinkMaps, LinkHeaderMaps,
     LenReadMaps, LenIncrementMaps
  DEF SearchSteps
<1>4. ASSUME NEW r \in Readers, RemoveStart(r) \/ RemoveSteps(r)
      PROVE  MInv' /\ [List!Next]_(List!vars)
  BY <1>1, <1>4, RemoveStartMaps, RemoveLogMaps, RemoveMovesMap, UnlinkBackwardMaps,
     RemoveLenReadMaps, LenDecrementMaps
  DEF RemoveSteps
<1>5. CASE \E n \in MlpxValues : SetMlpx(n)  BY <1>1, <1>5, SetMlpxMaps
<1>6. CASE StartCapture  BY <1>1, <1>6, StartCaptureMaps
<1>7. CASE UNCHANGED vars  BY <1>1, <1>7, StutterMaps
<1> QED  BY <1>2, <1>3, <1>4, <1>5, <1>6, <1>7 DEF Next

LEMMA SpecKeepsMInv ==
  ASSUME Overlap = FALSE
  PROVE  Spec => []MInv
BY InitMaps, NextMaps, PTL DEF Spec

(* Every variable of the memory model has its type; in particular the      *)
(* length kept on the side never goes below zero, although it is read in   *)
(* one step and written in another.                                        *)
THEOREM MemTypes ==
  ASSUME Overlap = FALSE
  PROVE  Spec => []TypeOK
<1>1. MInv => TypeOK
  BY OldList, SameConstants DEF MInv, Values, RInv, Typed, TypeOK
<1> QED  BY <1>1, SpecKeepsMInv, PTL

(* Where calls do not overlap, the list that is walked and relinked one    *)
(* access at a time, with the group switched in the middle of the walk and *)
(* the record freed before it is unlinked, implements the list of          *)
(* LoopList: each call takes effect as one of its steps when it returns.   *)
THEOREM MemImplementsList ==
  ASSUME Overlap = FALSE
  PROVE  Spec => ImplementsList
<1> QED
  BY InitMaps, NextMaps, SpecKeepsMInv, PTL DEF Spec, ImplementsList, List!Spec

(* So the walked and relinked list implements the loop profile as well:    *)
(* what a line of the log says of a loop is exactly what was counted while *)
(* execution stayed in it.                                                 *)
THEOREM MemImplementsProfile ==
  ASSUME Overlap = FALSE
  PROVE  Spec => L!ImplementsProfile
<1>1. List!Init => L!Init  BY SameSteps
<1>2. List!Next => L!Next  BY SameConstants, SameSteps DEF List!Next, L!Next
<1>3. L!Spec => L!ImplementsProfile
  BY ListConstants, ProfileAssumption, L!ListImplementsProfile DEF ProfileAssumption
<1>4. [List!Next]_(List!vars) => [L!Next]_(L!vars)  BY <1>2 DEF List!vars, L!vars
<1>5. Spec => List!Init /\ [][List!Next]_(List!vars)
  BY MemImplementsList DEF ImplementsList, List!Spec
<1>6. Spec => L!Spec  BY <1>1, <1>4, <1>5, PTL DEF L!Spec
<1> QED  BY <1>3, <1>6
=============================================================================
