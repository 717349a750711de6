------------------------- MODULE LoopListMemProofs -------------------------
(***************************************************************************)
(* Theorems about LoopListMem where calls do not overlap, for every set of *)
(* blocks, readers and addresses.                                          *)
(***************************************************************************)
EXTENDS LoopListMem, TLAPS, SequenceTheorems

-----------------------------------------------------------------------------
(* Rings                                                                   *)

LEMMA CellFacts ==
  ASSUME NEW list \in Seq(Blocks), NEW i \in Int
  PROVE  /\ Len(list) \in Nat /\ DOMAIN list = 1 .. Len(list)
         /\ i \in 1 .. Len(list) => Cell(list, i) = list[i] /\ list[i] \in BlocksOf(list)
         /\ i \notin 1 .. Len(list) => Cell(list, i) = Header
         /\ Cell(list, i) \in Cells /\ BlocksOf(list) \subseteq Blocks
BY DEF Cell, Cells, BlocksOf

(* No cell comes twice on the way around the ring. *)
LEMMA CellOnce ==
  ASSUME NEW list \in Seq(Blocks), Distinct(list)
  PROVE  /\ \A i, j \in 0 .. Len(list) : Cell(list, i) = Cell(list, j) => i = j
         /\ \A i, j \in 1 .. Len(list) + 1 : Cell(list, i) = Cell(list, j) => i = j
BY CellFacts, MemAssumption DEF Distinct, MemAssumption, Cells

LEMMA AppendCells ==
  ASSUME NEW list \in Seq(Blocks), NEW b \in Blocks \ BlocksOf(list), Distinct(list)
  PROVE  LET longer == Append(list, b) IN
         /\ longer \in Seq(Blocks) /\ Len(longer) = Len(list) + 1
         /\ Distinct(longer) /\ BlocksOf(longer) = BlocksOf(list) \cup {b}
         /\ \A i \in 0 .. Len(list) : Cell(longer, i) = Cell(list, i)
         /\ Cell(longer, Len(list) + 1) = b /\ Cell(longer, Len(list) + 2) = Header
<1> DEFINE longer == Append(list, b)
<1>1. /\ longer \in Seq(Blocks) /\ Len(longer) = Len(list) + 1 /\ Len(list) \in Nat
      /\ DOMAIN longer = 1 .. Len(list) + 1 /\ DOMAIN list = 1 .. Len(list)
      /\ \A i \in 1 .. Len(list) : longer[i] = list[i]
      /\ longer[Len(list) + 1] = b
  OBVIOUS
<1> HIDE DEF longer
<1>2. \A i \in 1 .. Len(list) : list[i] # b  BY <1>1 DEF BlocksOf
<1>3. Distinct(longer)  BY <1>1, <1>2 DEF Distinct
<1>4. BlocksOf(longer) = BlocksOf(list) \cup {b}
  <2>1. BlocksOf(longer) \subseteq BlocksOf(list) \cup {b}  BY <1>1 DEF BlocksOf
  <2>2. BlocksOf(list) \cup {b} \subseteq BlocksOf(longer)
    <3>1. \A i \in 1 .. Len(list) : i \in DOMAIN longer /\ longer[i] = list[i]  BY <1>1
    <3>2. Len(list) + 1 \in DOMAIN longer  BY <1>1
    <3> QED  BY <1>1, <3>1, <3>2 DEF BlocksOf
  <2> QED  BY <2>1, <2>2
<1>5. /\ \A i \in 0 .. Len(list) : Cell(longer, i) = Cell(list, i)
      /\ Cell(longer, Len(list) + 1) = b /\ Cell(longer, Len(list) + 2) = Header
  BY <1>1 DEF Cell
<1> QED  BY <1>1, <1>3, <1>4, <1>5 DEF longer

LEMMA TailCells ==
  ASSUME NEW list \in Seq(Blocks), list # <<>>, Distinct(list)
  PROVE  /\ Tail(list) \in Seq(Blocks) /\ Len(Tail(list)) = Len(list) - 1 /\ Len(list) \in Nat \ {0}
         /\ Distinct(Tail(list)) /\ BlocksOf(Tail(list)) = BlocksOf(list) \ {list[1]}
         /\ list[1] \in BlocksOf(list) /\ Cell(list, 1) = list[1]
         /\ Cell(Tail(list), 0) = Header
         /\ \A i \in 1 .. Len(list) : Cell(Tail(list), i) = Cell(list, i + 1)
<1> DEFINE shorter == Tail(list)
<1>1. /\ shorter \in Seq(Blocks) /\ Len(shorter) = Len(list) - 1 /\ Len(list) \in Nat \ {0}
      /\ DOMAIN shorter = 1 .. Len(list) - 1 /\ DOMAIN list = 1 .. Len(list)
      /\ \A i \in 1 .. Len(list) - 1 : shorter[i] = list[i + 1]
  OBVIOUS
<1> HIDE DEF shorter
<1>2. Distinct(shorter)
  <2> SUFFICES ASSUME NEW i \in 1 .. Len(list) - 1, NEW j \in 1 .. Len(list) - 1,
                      list[i + 1] = list[j + 1]
               PROVE  i = j
    BY <1>1 DEF Distinct
  <2>1. i + 1 \in DOMAIN list /\ j + 1 \in DOMAIN list  BY <1>1
  <2>2. i + 1 = j + 1  BY <2>1 DEF Distinct
  <2> QED  BY <2>2
<1>3. BlocksOf(shorter) = BlocksOf(list) \ {list[1]}
  <2>1. BlocksOf(shorter) \subseteq BlocksOf(list) \ {list[1]}
    <3>1. ASSUME NEW i \in 1 .. Len(list) - 1
          PROVE  i + 1 \in DOMAIN list /\ 1 \in DOMAIN list /\ i + 1 # 1
      BY <1>1
    <3> QED  BY <1>1, <3>1 DEF BlocksOf, Distinct
  <2>2. BlocksOf(list) \ {list[1]} \subseteq BlocksOf(shorter)
    <3>1. ASSUME NEW i \in DOMAIN list, list[i] # list[1]
          PROVE  i - 1 \in DOMAIN shorter /\ shorter[i - 1] = list[i]
      <4>1. i \in 2 .. Len(list)  BY <1>1, <3>1
      <4>2. i - 1 \in 1 .. Len(list) - 1 /\ (i - 1) + 1 = i  BY <1>1, <4>1
      <4> QED  BY <1>1, <4>2
    <3> QED  BY <3>1 DEF BlocksOf
  <2> QED  BY <2>1, <2>2
<1>4. /\ list[1] \in BlocksOf(list) /\ Cell(list, 1) = list[1] /\ Cell(shorter, 0) = Header
  BY <1>1 DEF BlocksOf, Cell
<1>5. \A i \in 1 .. Len(list) : Cell(shorter, i) = Cell(list, i + 1)  BY <1>1 DEF Cell
<1> QED  BY <1>1, <1>2, <1>3, <1>4, <1>5 DEF shorter

(* A link of a cell that is not on the ring does not matter to it. *)
LEMMA LinkOutside ==
  ASSUME NEW list \in Seq(Blocks), NEW link \in [Cells -> Cells],
         NEW c \in Blocks \ BlocksOf(list), NEW d \in Cells
  PROVE  /\ Forward(link, list) => Forward([link EXCEPT ![c] = d], list)
         /\ Backward(link, list) => Backward([link EXCEPT ![c] = d], list)
<1>1. \A i \in Int : Cell(list, i) \in Cells /\ Cell(list, i) # c
  BY CellFacts, MemAssumption DEF MemAssumption
<1>2. Len(list) \in Nat  OBVIOUS
<1> QED  BY <1>1, <1>2 DEF Forward, Backward

(* InsertTailList. *)
LEMMA AppendLinks ==
  ASSUME NEW list \in Seq(Blocks), Distinct(list), NEW link \in [Cells -> Cells],
         NEW b \in Blocks \ BlocksOf(list)
  PROVE  /\ Forward(link, list) /\ link[b] = Header =>
              Forward([link EXCEPT ![Cell(list, Len(list))] = b], Append(list, b))
         /\ Backward(link, list) /\ link[b] = Cell(list, Len(list)) =>
              Backward([link EXCEPT ![Header] = b], Append(list, b))
<1> DEFINE n == Len(list)
           longer == Append(list, b)
<1>1. /\ n \in Nat /\ Len(longer) = n + 1
      /\ \A i \in 0 .. n : Cell(longer, i) = Cell(list, i)
      /\ Cell(longer, n + 1) = b /\ Cell(longer, n + 2) = Header
  BY AppendCells
<1>2. \A i \in Int : Cell(list, i) \in Cells /\ Cell(list, i) # b
  BY CellFacts, MemAssumption DEF MemAssumption
<1>3. b \in Cells /\ Header \in Cells /\ b # Header  BY MemAssumption DEF MemAssumption, Cells
<1>4. Cell(list, n + 1) = Header /\ \A i \in 1 .. n : Cell(list, i) # Header
  BY <1>1, CellFacts, MemAssumption DEF MemAssumption
<1> HIDE DEF n, longer
<1>5. ASSUME Forward(link, list), link[b] = Header
      PROVE  Forward([link EXCEPT ![Cell(list, n)] = b], longer)
  <2> DEFINE new == [link EXCEPT ![Cell(list, n)] = b]
  <2> SUFFICES ASSUME NEW i \in 0 .. n + 1 PROVE new[Cell(longer, i)] = Cell(longer, i + 1)
    BY <1>1 DEF Forward
  <2>1. CASE i \in 0 .. n - 1
    <3>1. Cell(list, i) # Cell(list, n) /\ i \in 0 .. n /\ i + 1 \in 0 .. n
      BY <1>1, <2>1, CellOnce DEF n
    <3>2. link[Cell(list, i)] = Cell(list, i + 1)  BY <1>5, <3>1 DEF Forward, n
    <3> QED  BY <1>1, <1>2, <3>1, <3>2
  <2>2. CASE i = n
    BY <1>1, <1>2, <2>2
  <2>3. CASE i = n + 1
    <3>1. new[b] = Header  BY <1>1, <1>2, <1>3, <1>5
    <3>2. i + 1 = n + 2  BY <1>1, <2>3
    <3> QED  BY <1>1, <2>3, <3>1, <3>2
  <2> QED  BY <1>1, <2>1, <2>2, <2>3
<1>6. ASSUME Backward(link, list), link[b] = Cell(list, n)
      PROVE  Backward([link EXCEPT ![Header] = b], longer)
  <2> DEFINE new == [link EXCEPT ![Header] = b]
  <2> SUFFICES ASSUME NEW i \in 0 .. n + 1 PROVE new[Cell(longer, i + 1)] = Cell(longer, i)
    BY <1>1 DEF Backward
  <2>1. CASE i \in 0 .. n - 1
    <3>1. Cell(list, i + 1) # Header /\ i \in 0 .. n /\ i + 1 \in 0 .. n
      BY <1>1, <1>4, <2>1
    <3>2. link[Cell(list, i + 1)] = Cell(list, i)  BY <1>6, <3>1 DEF Backward, n
    <3> QED  BY <1>1, <1>2, <3>1, <3>2
  <2>2. CASE i = n
    <3>1. new[b] = Cell(list, n)  BY <1>3, <1>6
    <3> QED  BY <1>1, <2>2, <3>1
  <2>3. CASE i = n + 1
    <3>1. new[Header] = b  BY <1>3
    <3>2. i + 1 = n + 2  BY <1>1, <2>3
    <3> QED  BY <1>1, <2>3, <3>1, <3>2
  <2> QED  BY <1>1, <2>1, <2>2, <2>3
<1> QED  BY <1>5, <1>6 DEF n, longer

(* RemoveEntryList, of the first record. *)
LEMMA TailLinks ==
  ASSUME NEW list \in Seq(Blocks), Distinct(list), list # <<>>, NEW link \in [Cells -> Cells]
  PROVE  /\ Forward(link, list) =>
              Forward([link EXCEPT ![Header] = Cell(list, 2)], Tail(list))
         /\ Backward(link, list) =>
              Backward([link EXCEPT ![Cell(list, 2)] = Header], Tail(list))
<1> DEFINE n == Len(list)
           shorter == Tail(list)
<1>1. /\ n \in Nat \ {0} /\ Len(shorter) = n - 1 /\ Cell(shorter, 0) = Header
      /\ \A i \in 1 .. n : Cell(shorter, i) = Cell(list, i + 1)
  BY TailCells
<1>2. /\ \A i \in Int : Cell(list, i) \in Cells
      /\ \A i \in 1 .. n : Cell(list, i) # Header
      /\ Header \in Cells
  BY <1>1, CellFacts, MemAssumption DEF MemAssumption, Cells
<1> HIDE DEF n, shorter
<1>3. ASSUME Forward(link, list)
      PROVE  Forward([link EXCEPT ![Header] = Cell(list, 2)], shorter)
  <2> DEFINE new == [link EXCEPT ![Header] = Cell(list, 2)]
  <2> SUFFICES ASSUME NEW i \in 0 .. n - 1 PROVE new[Cell(shorter, i)] = Cell(shorter, i + 1)
    BY <1>1 DEF Forward
  <2>1. CASE i = 0  BY <1>1, <1>2, <2>1
  <2>2. CASE i \in 1 .. n - 1
    <3>1. i + 1 \in 1 .. n /\ i + 1 \in 0 .. n /\ i \in 1 .. n  BY <1>1, <2>2
    <3>2. link[Cell(list, i + 1)] = Cell(list, (i + 1) + 1)  BY <1>3, <3>1 DEF Forward, n
    <3> QED  BY <1>1, <1>2, <3>1, <3>2
  <2> QED  BY <1>1, <2>1, <2>2
<1>4. ASSUME Backward(link, list)
      PROVE  Backward([link EXCEPT ![Cell(list, 2)] = Header], shorter)
  <2> DEFINE new == [link EXCEPT ![Cell(list, 2)] = Header]
  <2> SUFFICES ASSUME NEW i \in 0 .. n - 1 PROVE new[Cell(shorter, i + 1)] = Cell(shorter, i)
    BY <1>1 DEF Backward
  <2>1. CASE i = 0
    <3>1. Cell(shorter, i + 1) = Cell(list, 2)  BY <1>1, <2>1
    <3> QED  BY <1>1, <1>2, <2>1, <3>1
  <2>2. CASE i \in 1 .. n - 1
    <3>1. /\ i + 1 \in 1 .. n /\ i + 1 \in 0 .. n /\ i \in 1 .. n
          /\ (i + 1) + 1 \in 1 .. n + 1 /\ 2 \in 1 .. n + 1
      BY <1>1, <2>2
    <3>2. link[Cell(list, (i + 1) + 1)] = Cell(list, i + 1)  BY <1>4, <3>1 DEF Backward, n
    <3>3. Cell(list, (i + 1) + 1) # Cell(list, 2)  BY <2>2, <3>1, CellOnce DEF n
    <3> QED  BY <1>1, <1>2, <3>1, <3>2, <3>3
  <2> QED  BY <1>1, <2>1, <2>2
<1> QED  BY <1>3, <1>4 DEF n, shorter

(* Taking the first of distinct blocks out leaves the others. *)
LEMMA WithoutFirst ==
  ASSUME NEW list \in Seq(Blocks), Distinct(list), list # <<>>
  PROVE  Without(list, list[1]) = Tail(list)
<1>1. /\ Len(list) \in Nat \ {0} /\ DOMAIN list = 1 .. Len(list) /\ 1 \in DOMAIN list
  OBVIOUS
<1>2. \A i \in 1 .. Len(list) - 1 : \E j \in 1 .. i : list[j] = list[1]
  <2> TAKE i \in 1 .. Len(list) - 1
  <2>1. 1 \in 1 .. i  BY <1>1
  <2> QED  BY <2>1
<1>3. Without(list, list[1]) = [i \in 1 .. Len(list) - 1 |-> list[i + 1]]
  BY <1>1, <1>2 DEF Without
<1>4. Tail(list) = [i \in 1 .. Len(list) - 1 |-> list[i + 1]]
  <2> DEFINE tail == [i \in 1 .. Len(list) - 1 |-> list[i + 1]]
  <2>1. Len(list) - 1 \in Nat /\ \A i \in 1 .. Len(list) - 1 : list[i + 1] \in Blocks  BY <1>1
  <2>2. tail \in Seq(Blocks) /\ Len(tail) = Len(list) - 1
        /\ \A i \in 1 .. Len(list) - 1 : tail[i] = list[i + 1]
    BY <2>1
  <2>3. /\ Tail(list) \in Seq(Blocks) /\ Len(Tail(list)) = Len(list) - 1
        /\ \A i \in 1 .. Len(list) - 1 : Tail(list)[i] = list[i + 1]
    BY HeadTailProperties
  <2> HIDE DEF tail
  <2>4. tail = Tail(list)  BY <2>2, <2>3, SeqEqual
  <2> QED  BY <2>4 DEF tail
<1> QED  BY <1>3, <1>4

-----------------------------------------------------------------------------
(* The invariant                                                           *)

SearchLocals ==
  [pc : {"idle", "search", "entry", "last", "header", "len", "count"},
   FROM : Addr \cup {0}, TO : Addr \cup {0}, reading : [PMCs -> UINT64],
   next : Cells, bFindLoop : BOOLEAN, tempData : Cells, last : Cells, len : Int]

RemovalLocals ==
  [pc : {"idle", "log", "free", "links", "forward", "backward", "len", "count"},
   Max_Entry : Cells, Flink : Cells, Blink : Cells, len : Int]

Typed ==
  /\ Flink \in [Cells -> Cells] /\ Blink \in [Cells -> Cells]
  /\ allocated \subseteq Blocks /\ order \in Seq(Blocks) /\ LenofLoopList \in Int
  /\ search \in SearchLocals /\ removal \in [Readers -> RemovalLocals]

(* At most one call is running. *)
OneCall ==
  /\ Searching => \A r \in Readers : ~Removing(r)
  /\ \A r, q \in Readers : Removing(r) /\ Removing(q) => r = q

Inserting == search.pc \in {"entry", "last", "header"}
Unfreed(r) == removal[r].pc \in {"log", "free"}
Freed(r) == removal[r].pc \in {"links", "forward", "backward"}

(* The ring, which a call breaks in one direction for one step.            *)
Ring ==
  /\ Distinct(order) /\ Backward(Blink, order)
  /\ ~At("header") /\ (\A r \in Readers : ~Is(r, "backward")) => Forward(Flink, order)

(* What InsertTailList has done so far. *)
InsertProgress ==
  /\ Inserting => search.tempData \in Blocks \ BlocksOf(order)
  /\ search.pc \in {"last", "header"} =>
       search.last = Cell(order, Len(order)) /\ Blink[search.tempData] = search.last
  /\ At("last") => Flink[search.tempData] = Header
  /\ At("header") => Forward(Flink, Append(order, search.tempData))

(* What Remove_LoopList and its RemoveEntryList have done so far. *)
RemoveProgress(r) ==
  /\ Unfreed(r) \/ Freed(r) => order # <<>> /\ removal[r].Max_Entry = Cell(order, 1)
  /\ removal[r].pc \in {"forward", "backward"} =>
       removal[r].Flink = Cell(order, 2) /\ removal[r].Blink = Header
  /\ Is(r, "backward") => Forward(Flink, Tail(order))

(* The blocks the list owns: a new record before it is on the ring, and    *)
(* the first one no longer although it still is.                           *)
Owned ==
  /\ Inserting => allocated = BlocksOf(order) \cup {search.tempData}
  /\ \A r \in Readers : Freed(r) => allocated = BlocksOf(order) \ {removal[r].Max_Entry}
  /\ ~Inserting /\ (\A r \in Readers : ~Freed(r)) => allocated = BlocksOf(order)

RInv ==
  /\ Typed /\ OneCall /\ Ring /\ InsertProgress
  /\ \A r \in Readers : RemoveProgress(r)
  /\ Owned

LEMMA IdleLocals == IdleSearch \in SearchLocals /\ IdleRemoval \in RemovalLocals
<1>1. IdleSearch \in SearchLocals
  BY ProfileAssumption DEF IdleSearch, SearchLocals, Cells, UINT64, ProfileAssumption
<1> QED  BY <1>1 DEF IdleRemoval, RemovalLocals, Cells

LEMMA InitEstablishesRInv == Init => RInv
<1> SUFFICES ASSUME Init PROVE RInv  OBVIOUS
<1>1. <<>> \in Seq(Blocks) /\ DOMAIN <<>> = {} /\ Len(<<>>) = 0  OBVIOUS
<1>4. Typed  BY <1>1, IdleLocals DEF Init, Typed, Cells
<1>5. search.pc = "idle" /\ \A r \in Readers : removal[r].pc = "idle"
  BY DEF Init, IdleSearch, IdleRemoval
<1>6. Ring  BY <1>1 DEF Init, Ring, Distinct, Forward, Backward, Cell, Cells
<1>7. Owned  BY <1>1, <1>5 DEF Init, Owned, Inserting, Freed, BlocksOf
<1> QED
  BY <1>4, <1>5, <1>6, <1>7
  DEF RInv, OneCall, Searching, Removing, InsertProgress, Inserting, At, RemoveProgress, Unfreed,
      Freed, Is

-----------------------------------------------------------------------------
(* The steps of a search                                                   *)

LEMMA SearchAlone ==
  ASSUME RInv, Searching
  PROVE  \A r \in Readers : removal[r].pc = "idle"
BY DEF RInv, OneCall, Removing

(* While no removal runs, only the search has to be looked at. *)
LEMMA SearchOnly ==
  ASSUME \A r \in Readers : removal[r].pc = "idle", UNCHANGED removal,
         Typed', Distinct(order'), Backward(Blink', order'), InsertProgress',
         search'.pc # "header" => Forward(Flink', order'),
         Inserting' => allocated' = BlocksOf(order') \cup {search'.tempData},
         ~Inserting' => allocated' = BlocksOf(order')
  PROVE  RInv'
<1>1. \A r \in Readers : removal'[r].pc = "idle"  OBVIOUS
<1>2. OneCall'  BY <1>1 DEF OneCall, Removing
<1>3. Ring'  BY <1>1 DEF Ring, At
<1>4. \A r \in Readers : RemoveProgress(r)'  BY <1>1 DEF RemoveProgress, Unfreed, Freed, Is
<1>5. Owned'  BY <1>1 DEF Owned, Freed
<1> QED  BY <1>2, <1>3, <1>4, <1>5 DEF RInv

(* Steps that change no link and no block. *)
LEMMA SearchMoves ==
  ASSUME RInv, \A r \in Readers : removal[r].pc = "idle", ~Inserting,
         UNCHANGED <<Flink, Blink, allocated, order, removal>>, LenofLoopList' \in Int,
         search' \in SearchLocals, search'.pc \in {"idle", "search", "len", "count"}
  PROVE  RInv'
<1>1. Typed'  BY DEF RInv, Typed
<1>2. Forward(Flink, order) /\ Backward(Blink, order) /\ allocated = BlocksOf(order)
  BY DEF RInv, Ring, Owned, Inserting, At, Is, Freed
<1>3. ~Inserting' /\ InsertProgress'  BY DEF Inserting, InsertProgress, At
<1> QED  BY <1>1, <1>2, <1>3, SearchOnly DEF RInv, Ring

LEMMA SearchStartKeepsRInv ==
  ASSUME RInv, Overlap = FALSE, NEW FROM \in Addr, NEW TO \in Addr,
         NEW reading \in [PMCs -> UINT64], SearchStart(FROM, TO, reading)
  PROVE  RInv'
<1>1. Quiet /\ search.pc = "idle"  BY DEF SearchStart, At
<1>2. search' \in SearchLocals /\ search'.pc = "search"
  <2>1. search' = [IdleSearch EXCEPT !.pc = "search", !.FROM = FROM, !.TO = TO,
                                     !.reading = reading, !.next = Flink[Header]]
    BY DEF SearchStart
  <2>2. Flink[Header] \in Cells  BY DEF RInv, Typed, Cells
  <2> QED  BY <2>1, <2>2, IdleLocals DEF SearchLocals
<1> QED
  BY <1>1, <1>2, SearchMoves
  DEF SearchStart, links, pool, globals, history, Quiet, Removing, Inserting, RInv, Typed

LEMMA SearchVisitKeepsRInv ==
  ASSUME RInv, SearchVisit
  PROVE  RInv'
<1>1. search.pc = "search" /\ \A r \in Readers : removal[r].pc = "idle"
  BY SearchAlone DEF SearchVisit, At, Searching
<1>2. search' \in SearchLocals /\ search'.pc = "search"
  <2>1. (search.bFindLoop \/ Matches) \in BOOLEAN  OBVIOUS
  <2> QED  BY <1>1, <2>1 DEF SearchVisit, SearchLocals, RInv, Typed, At
<1> QED
  BY <1>1, <1>2, SearchMoves DEF SearchVisit, links, history, Inserting, RInv, Typed

LEMMA SearchReturnKeepsRInv ==
  ASSUME RInv, SearchReturn
  PROVE  RInv'
<1>1. search.pc = "search" /\ \A r \in Readers : removal[r].pc = "idle"
  BY SearchAlone DEF SearchReturn, At, Searching
<1>2. search' \in SearchLocals /\ search'.pc = "idle"
  BY IdleLocals DEF SearchReturn, IdleSearch
<1> QED
  BY <1>1, <1>2, SearchMoves DEF SearchReturn, links, pool, globals, Inserting, RInv, Typed

LEMMA AllocateKeepsRInv ==
  ASSUME RInv, NEW b \in Blocks, Allocate(b)
  PROVE  RInv'
<1>1. search.pc = "search" /\ \A r \in Readers : removal[r].pc = "idle"
  BY SearchAlone DEF Allocate, At, Searching
<1>2. /\ b \notin allocated /\ allocated' = allocated \cup {b}
      /\ search' = [search EXCEPT !.pc = "entry", !.tempData = b]
      /\ UNCHANGED <<Flink, Blink, LenofLoopList, removal, order>>
  BY DEF Allocate, links, globals, history
<1>3. /\ search' \in SearchLocals /\ search'.pc = "entry" /\ search'.tempData = b
  BY <1>2 DEF SearchLocals, RInv, Typed, Cells
<1>4. Typed'  BY <1>2, <1>3 DEF RInv, Typed
<1>5. /\ Forward(Flink, order) /\ Backward(Blink, order) /\ Distinct(order)
      /\ allocated = BlocksOf(order)
  BY <1>1 DEF RInv, Ring, Owned, Inserting, At, Is, Freed
<1>6. InsertProgress' /\ Inserting'  BY <1>2, <1>3, <1>5 DEF InsertProgress, Inserting, At
<1> QED  BY <1>1, <1>2, <1>3, <1>4, <1>5, <1>6, SearchOnly

LEMMA LinkEntryKeepsRInv ==
  ASSUME RInv, LinkEntry
  PROVE  RInv'
<1> DEFINE b == search.tempData
<1>1. search.pc = "entry" /\ \A r \in Readers : removal[r].pc = "idle"
  BY SearchAlone DEF LinkEntry, At, Searching
<1>2. /\ Flink' = [Flink EXCEPT ![b] = Header] /\ Blink' = [Blink EXCEPT ![b] = Blink[Header]]
      /\ search' = [search EXCEPT !.pc = "last", !.last = Blink[Header]]
      /\ UNCHANGED <<allocated, LenofLoopList, removal, order>>
  BY DEF LinkEntry, pool, globals, history
<1>3. /\ Forward(Flink, order) /\ Backward(Blink, order) /\ Distinct(order)
      /\ order \in Seq(Blocks) /\ Flink \in [Cells -> Cells] /\ Blink \in [Cells -> Cells]
      /\ b \in Blocks \ BlocksOf(order) /\ allocated = BlocksOf(order) \cup {b}
      /\ Header \in Cells /\ b \in Cells
  BY <1>1 DEF RInv, Typed, Ring, Owned, InsertProgress, Inserting, At, Is, Cells
<1>4. Blink[Header] = Cell(order, Len(order)) /\ Blink[Header] \in Cells
  <2>1. Len(order) \in Nat /\ Len(order) \in 0 .. Len(order)  BY <1>3
  <2>2. Cell(order, Len(order) + 1) = Header  BY <1>3, <2>1, CellFacts
  <2> QED  BY <1>3, <2>1, <2>2 DEF Backward
<1>5. /\ search' \in SearchLocals /\ search'.pc = "last" /\ search'.tempData = b
      /\ search'.last = Blink[Header]
  BY <1>2, <1>3, <1>4 DEF SearchLocals, RInv, Typed
<1>6. Typed'  BY <1>2, <1>3, <1>4, <1>5 DEF RInv, Typed
<1>7. Forward(Flink', order) /\ Backward(Blink', order)
  BY <1>2, <1>3, <1>4, LinkOutside
<1>8. InsertProgress' /\ Inserting'
  BY <1>2, <1>3, <1>4, <1>5 DEF InsertProgress, Inserting, At
<1> QED  BY <1>1, <1>2, <1>3, <1>5, <1>6, <1>7, <1>8, SearchOnly

LEMMA LinkLastKeepsRInv ==
  ASSUME RInv, LinkLast
  PROVE  RInv'
<1> DEFINE b == search.tempData
<1>1. search.pc = "last" /\ \A r \in Readers : removal[r].pc = "idle"
  BY SearchAlone DEF LinkLast, At, Searching
<1>2. /\ Flink' = [Flink EXCEPT ![search.last] = b]
      /\ search' = [search EXCEPT !.pc = "header"]
      /\ UNCHANGED <<Blink, allocated, LenofLoopList, removal, order>>
  BY DEF LinkLast, pool, globals, history, SearchStep
<1>3. /\ Forward(Flink, order) /\ Backward(Blink, order) /\ Distinct(order)
      /\ order \in Seq(Blocks) /\ Flink \in [Cells -> Cells]
      /\ b \in Blocks \ BlocksOf(order) /\ allocated = BlocksOf(order) \cup {b}
      /\ search.last = Cell(order, Len(order)) /\ Blink[b] = search.last /\ Flink[b] = Header
      /\ b \in Cells
  BY <1>1 DEF RInv, Typed, Ring, Owned, InsertProgress, Inserting, At, Is, Cells
<1>4. /\ search' \in SearchLocals /\ search'.pc = "header" /\ search'.tempData = b
      /\ search'.last = search.last
  BY <1>2 DEF SearchLocals, RInv, Typed
<1>5. Typed'  BY <1>2, <1>3, <1>4 DEF RInv, Typed
<1>6. Forward(Flink', Append(order, b))  BY <1>2, <1>3, AppendLinks
<1>7. InsertProgress' /\ Inserting'
  BY <1>2, <1>3, <1>4, <1>6 DEF InsertProgress, Inserting, At
<1> QED  BY <1>1, <1>2, <1>3, <1>4, <1>5, <1>7, SearchOnly

LEMMA LinkHeaderKeepsRInv ==
  ASSUME RInv, LinkHeader
  PROVE  RInv'
<1> DEFINE b == search.tempData
<1>1. search.pc = "header" /\ \A r \in Readers : removal[r].pc = "idle"
  BY SearchAlone DEF LinkHeader, At, Searching
<1>2. /\ Blink' = [Blink EXCEPT ![Header] = b] /\ order' = Append(order, b)
      /\ search' = [search EXCEPT !.pc = "len"]
      /\ UNCHANGED <<Flink, allocated, LenofLoopList, removal>>
  BY DEF LinkHeader, pool, globals, SearchStep
<1>3. /\ Backward(Blink, order) /\ Distinct(order) /\ Forward(Flink, Append(order, b))
      /\ order \in Seq(Blocks) /\ Blink \in [Cells -> Cells]
      /\ b \in Blocks \ BlocksOf(order) /\ allocated = BlocksOf(order) \cup {b}
      /\ Blink[b] = Cell(order, Len(order)) /\ b \in Cells
  BY <1>1 DEF RInv, Typed, Ring, Owned, InsertProgress, Inserting, At, Cells
<1>4. search' \in SearchLocals /\ search'.pc = "len"  BY <1>2 DEF SearchLocals, RInv, Typed
<1>5. /\ order' \in Seq(Blocks) /\ Distinct(order') /\ allocated' = BlocksOf(order')
  BY <1>2, <1>3, AppendCells
<1>6. Typed'  BY <1>2, <1>3, <1>4, <1>5 DEF RInv, Typed
<1>7. Backward(Blink', order')  BY <1>2, <1>3, AppendLinks
<1>8. InsertProgress' /\ ~Inserting'  BY <1>4 DEF InsertProgress, Inserting, At
<1> QED  BY <1>1, <1>2, <1>3, <1>4, <1>5, <1>6, <1>7, <1>8, SearchOnly

LEMMA LenStepsKeepRInv ==
  ASSUME RInv, LenRead \/ LenIncrement
  PROVE  RInv'
<1>1. search.pc \in {"len", "count"} /\ \A r \in Readers : removal[r].pc = "idle"
  BY SearchAlone DEF LenRead, LenIncrement, At, Searching
<1>2. LenofLoopList' \in Int
  BY DEF RInv, Typed, SearchLocals, LenRead, LenIncrement, globals
<1>3. search' \in SearchLocals /\ search'.pc \in {"idle", "count"}
  <2>1. CASE LenRead  BY <2>1 DEF LenRead, SearchLocals, RInv, Typed
  <2>2. CASE LenIncrement  BY <2>2, IdleLocals DEF LenIncrement, IdleSearch
  <2> QED  BY <2>1, <2>2
<1> QED
  BY <1>1, <1>2, <1>3, SearchMoves DEF LenRead, LenIncrement, links, pool, history, Inserting

-----------------------------------------------------------------------------
(* The steps of a removal                                                  *)

LEMMA RemovalAlone ==
  ASSUME RInv, NEW r \in Readers, Removing(r)
  PROVE  search.pc = "idle" /\ \A q \in Readers \ {r} : removal[q].pc = "idle"
BY DEF RInv, OneCall, Removing, Searching

(* While one removal runs and no search, only it has to be looked at. *)
LEMMA RemovalOnly ==
  ASSUME NEW r \in Readers, RInv, \A q \in Readers \ {r} : removal[q].pc = "idle",
         search.pc = "idle", UNCHANGED search,
         NEW locals \in RemovalLocals, removal' = [removal EXCEPT ![r] = locals],
         Typed', Distinct(order'), Backward(Blink', order'), RemoveProgress(r)',
         locals.pc # "backward" => Forward(Flink', order'),
         allocated' = IF locals.pc \in {"links", "forward", "backward"}
                      THEN BlocksOf(order') \ {locals.Max_Entry} ELSE BlocksOf(order')
  PROVE  RInv'
<1>1. /\ removal'[r] = locals /\ search'.pc = "idle"
      /\ \A q \in Readers \ {r} : removal'[q].pc = "idle"
  BY DEF RInv, Typed
<1>2. OneCall'  BY <1>1 DEF OneCall, Removing, Searching
<1>3. Ring'  BY <1>1 DEF Ring, Is
<1>4. InsertProgress' /\ ~Inserting'  BY <1>1 DEF InsertProgress, Inserting, At
<1>5. \A q \in Readers : RemoveProgress(q)'  BY <1>1 DEF RemoveProgress, Unfreed, Freed, Is
<1>6. Owned'  BY <1>1, <1>4 DEF Owned, Freed
<1> QED  BY <1>2, <1>3, <1>4, <1>5, <1>6 DEF RInv

LEMMA RemoveStartKeepsRInv ==
  ASSUME RInv, Overlap = FALSE, NEW r \in Readers, RemoveStart(r)
  PROVE  RInv'
<1> DEFINE locals == [removal[r] EXCEPT !.pc = "log", !.Max_Entry = Flink[Header]]
<1>1. search.pc = "idle" /\ \A q \in Readers : removal[q].pc = "idle"
  BY DEF RemoveStart, Quiet, Removing, Searching
<1>2. /\ removal' = [removal EXCEPT ![r] = locals]
      /\ Flink[Header] # Header
      /\ UNCHANGED <<Flink, Blink, allocated, LenofLoopList, search, order>>
  BY DEF RemoveStart, links, pool, globals, history
<1>3. Flink[Header] \in Cells /\ removal[r] \in RemovalLocals  BY DEF RInv, Typed, Cells
<1>4. /\ locals \in RemovalLocals /\ locals.pc = "log" /\ locals.Max_Entry = Flink[Header]
      /\ removal'[r] = locals
  BY <1>2, <1>3 DEF RemovalLocals, RInv, Typed
<1>5. Typed'  BY <1>2, <1>4 DEF RInv, Typed
<1>6. /\ Forward(Flink, order) /\ Backward(Blink, order) /\ Distinct(order)
      /\ allocated = BlocksOf(order) /\ order \in Seq(Blocks)
  BY <1>1 DEF RInv, Typed, Ring, Owned, Inserting, At, Is, Freed
<1>7. order # <<>> /\ Flink[Header] = Cell(order, 1)
  <2>1. 0 \in 0 .. Len(order) /\ Cell(order, 0) = Header  BY <1>6, CellFacts
  <2>2. Flink[Header] = Cell(order, 1)  BY <1>6, <2>1 DEF Forward
  <2> QED  BY <1>2, <2>2 DEF Cell
<1>8. RemoveProgress(r)'  BY <1>2, <1>4, <1>7 DEF RemoveProgress, Unfreed, Freed, Is
<1> HIDE DEF locals
<1> QED  BY <1>1, <1>2, <1>4, <1>5, <1>6, <1>8, RemovalOnly

LEMMA RemoveLogKeepsRInv ==
  ASSUME RInv, NEW r \in Readers, RemoveLog(r)
  PROVE  RInv'
<1> DEFINE locals == [removal[r] EXCEPT !.pc = "free"]
<1>1. /\ removal[r].pc = "log" /\ search.pc = "idle"
      /\ \A q \in Readers \ {r} : removal[q].pc = "idle"
  BY RemovalAlone DEF RemoveLog, Is, Removing
<1>2. /\ removal' = [removal EXCEPT ![r] = locals]
      /\ UNCHANGED <<Flink, Blink, allocated, LenofLoopList, search, order>>
  BY DEF RemoveLog, RemoveStep, links, pool, history
<1>3. /\ locals \in RemovalLocals /\ locals.pc = "free"
      /\ locals.Max_Entry = removal[r].Max_Entry /\ removal'[r] = locals
  BY <1>2 DEF RemovalLocals, RInv, Typed
<1>4. Typed'  BY <1>2, <1>3 DEF RInv, Typed
<1>5. /\ Forward(Flink, order) /\ Backward(Blink, order) /\ Distinct(order)
      /\ allocated = BlocksOf(order)
  BY <1>1 DEF RInv, Ring, Owned, Inserting, At, Is, Freed
<1>6. RemoveProgress(r)'
  BY <1>1, <1>2, <1>3 DEF RInv, RemoveProgress, Unfreed, Freed, Is
<1> HIDE DEF locals
<1> QED  BY <1>1, <1>2, <1>3, <1>4, <1>5, <1>6, RemovalOnly

LEMMA RemoveFreeKeepsRInv ==
  ASSUME RInv, NEW r \in Readers, RemoveFree(r)
  PROVE  RInv'
<1> DEFINE locals == [removal[r] EXCEPT !.pc = "links"]
<1>1. /\ removal[r].pc = "free" /\ search.pc = "idle"
      /\ \A q \in Readers \ {r} : removal[q].pc = "idle"
  BY RemovalAlone DEF RemoveFree, Is, Removing
<1>2. /\ removal' = [removal EXCEPT ![r] = locals]
      /\ allocated' = allocated \ {removal[r].Max_Entry}
      /\ UNCHANGED <<Flink, Blink, LenofLoopList, search, order>>
  BY DEF RemoveFree, RemoveStep, links, globals, history
<1>3. /\ locals \in RemovalLocals /\ locals.pc = "links"
      /\ locals.Max_Entry = removal[r].Max_Entry /\ removal'[r] = locals
  BY <1>2 DEF RemovalLocals, RInv, Typed
<1>4. Typed'  BY <1>2, <1>3 DEF RInv, Typed
<1>5. /\ Forward(Flink, order) /\ Backward(Blink, order) /\ Distinct(order)
      /\ allocated = BlocksOf(order)
  BY <1>1 DEF RInv, Ring, Owned, Inserting, At, Is, Freed
<1>6. RemoveProgress(r)'
  BY <1>1, <1>2, <1>3 DEF RInv, RemoveProgress, Unfreed, Freed, Is
<1> HIDE DEF locals
<1> QED  BY <1>1, <1>2, <1>3, <1>4, <1>5, <1>6, RemovalOnly

LEMMA RemoveLinksKeepsRInv ==
  ASSUME RInv, NEW r \in Readers, RemoveLinks(r)
  PROVE  RInv'
<1> DEFINE e == removal[r].Max_Entry
           locals == [removal[r] EXCEPT !.pc = "forward", !.Flink = Flink[e], !.Blink = Blink[e]]
<1>1. /\ removal[r].pc = "links" /\ search.pc = "idle"
      /\ \A q \in Readers \ {r} : removal[q].pc = "idle"
  BY RemovalAlone DEF RemoveLinks, Is, Removing
<1>2. /\ removal' = [removal EXCEPT ![r] = locals]
      /\ UNCHANGED <<Flink, Blink, allocated, LenofLoopList, search, order>>
  BY DEF RemoveLinks, links, pool, globals, history
<1>3. /\ Forward(Flink, order) /\ Backward(Blink, order) /\ Distinct(order)
      /\ allocated = BlocksOf(order) \ {e} /\ order \in Seq(Blocks)
      /\ order # <<>> /\ e = Cell(order, 1)
  BY <1>1 DEF RInv, Typed, Ring, Owned, At, Is, Freed, RemoveProgress
<1>4. Flink[e] = Cell(order, 2) /\ Blink[e] = Header
  <2>1. 1 \in 0 .. Len(order) /\ 0 \in 0 .. Len(order) /\ Cell(order, 0) = Header
    BY <1>3, TailCells, CellFacts
  <2> QED  BY <1>3, <2>1 DEF Forward, Backward
<1>5. /\ locals \in RemovalLocals /\ locals.pc = "forward" /\ locals.Max_Entry = e
      /\ locals.Flink = Cell(order, 2) /\ locals.Blink = Header /\ removal'[r] = locals
  <2>1. Flink[e] \in Cells /\ Blink[e] \in Cells  BY DEF RInv, Typed, RemovalLocals
  <2> QED  BY <1>2, <1>4, <2>1 DEF RemovalLocals, RInv, Typed
<1>6. Typed'  BY <1>2, <1>5 DEF RInv, Typed
<1>7. RemoveProgress(r)'
  BY <1>2, <1>3, <1>5 DEF RemoveProgress, Unfreed, Freed, Is
<1> HIDE DEF locals, e
<1> QED  BY <1>1, <1>2, <1>3, <1>5, <1>6, <1>7, RemovalOnly

LEMMA UnlinkForwardKeepsRInv ==
  ASSUME RInv, NEW r \in Readers, UnlinkForward(r)
  PROVE  RInv'
<1> DEFINE locals == [removal[r] EXCEPT !.pc = "backward"]
<1>1. /\ removal[r].pc = "forward" /\ search.pc = "idle"
      /\ \A q \in Readers \ {r} : removal[q].pc = "idle"
  BY RemovalAlone DEF UnlinkForward, Is, Removing
<1>2. /\ Forward(Flink, order) /\ Backward(Blink, order) /\ Distinct(order)
      /\ allocated = BlocksOf(order) \ {removal[r].Max_Entry} /\ order \in Seq(Blocks)
      /\ order # <<>> /\ removal[r].Max_Entry = Cell(order, 1)
      /\ removal[r].Flink = Cell(order, 2) /\ removal[r].Blink = Header
      /\ Flink \in [Cells -> Cells]
  BY <1>1 DEF RInv, Typed, Ring, Owned, At, Is, Freed, RemoveProgress
<1>3. /\ removal' = [removal EXCEPT ![r] = locals]
      /\ Flink' = [Flink EXCEPT ![Header] = Cell(order, 2)]
      /\ UNCHANGED <<Blink, allocated, LenofLoopList, search, order>>
  BY <1>2 DEF UnlinkForward, RemoveStep, pool, globals, history
<1>4. /\ locals \in RemovalLocals /\ locals.pc = "backward"
      /\ locals.Max_Entry = removal[r].Max_Entry /\ locals.Flink = removal[r].Flink
      /\ locals.Blink = removal[r].Blink /\ removal'[r] = locals
  BY <1>3 DEF RemovalLocals, RInv, Typed
<1>5. Typed'
  <2>1. Cell(order, 2) \in Cells  BY <1>2, CellFacts
  <2> QED  BY <1>3, <1>4, <2>1 DEF RInv, Typed
<1>6. Forward(Flink', Tail(order))  BY <1>2, <1>3, TailLinks
<1>7. RemoveProgress(r)'
  BY <1>2, <1>3, <1>4, <1>6 DEF RemoveProgress, Unfreed, Freed, Is
<1> HIDE DEF locals
<1> QED  BY <1>1, <1>2, <1>3, <1>4, <1>5, <1>7, RemovalOnly

LEMMA UnlinkBackwardKeepsRInv ==
  ASSUME RInv, NEW r \in Readers, UnlinkBackward(r)
  PROVE  RInv'
<1> DEFINE locals == [removal[r] EXCEPT !.pc = "len"]
<1>1. /\ removal[r].pc = "backward" /\ search.pc = "idle"
      /\ \A q \in Readers \ {r} : removal[q].pc = "idle"
  BY RemovalAlone DEF UnlinkBackward, Is, Removing
<1>2. /\ Forward(Flink, Tail(order)) /\ Backward(Blink, order) /\ Distinct(order)
      /\ allocated = BlocksOf(order) \ {removal[r].Max_Entry} /\ order \in Seq(Blocks)
      /\ order # <<>> /\ removal[r].Max_Entry = Cell(order, 1)
      /\ removal[r].Flink = Cell(order, 2) /\ removal[r].Blink = Header
      /\ Blink \in [Cells -> Cells]
  BY <1>1 DEF RInv, Typed, Ring, Owned, Is, Freed, RemoveProgress
<1>3. Cell(order, 1) = order[1]  BY <1>2, TailCells
<1>4. /\ removal' = [removal EXCEPT ![r] = locals] /\ order' = Tail(order)
      /\ Blink' = [Blink EXCEPT ![Cell(order, 2)] = Header]
      /\ UNCHANGED <<Flink, allocated, LenofLoopList, search>>
  BY <1>2, <1>3, WithoutFirst DEF UnlinkBackward, RemoveStep, pool, globals
<1>5. /\ locals \in RemovalLocals /\ locals.pc = "len" /\ removal'[r] = locals
  BY <1>4 DEF RemovalLocals, RInv, Typed
<1>6. /\ order' \in Seq(Blocks) /\ Distinct(order') /\ allocated' = BlocksOf(order')
  BY <1>2, <1>3, <1>4, TailCells
<1>7. Typed'
  <2>1. Header \in Cells  BY DEF Cells
  <2> QED  BY <1>4, <1>5, <1>6, <2>1 DEF RInv, Typed
<1>8. Backward(Blink', order')  BY <1>2, <1>4, TailLinks
<1>9. RemoveProgress(r)'  BY <1>5 DEF RemoveProgress, Unfreed, Freed, Is
<1> HIDE DEF locals
<1> QED  BY <1>1, <1>2, <1>4, <1>5, <1>6, <1>7, <1>8, <1>9, RemovalOnly

LEMMA RemoveLenStepsKeepRInv ==
  ASSUME RInv, NEW r \in Readers, RemoveLenRead(r) \/ LenDecrement(r)
  PROVE  RInv'
<1>1. /\ removal[r].pc \in {"len", "count"} /\ search.pc = "idle"
      /\ \A q \in Readers \ {r} : removal[q].pc = "idle"
  BY RemovalAlone DEF RemoveLenRead, LenDecrement, Is, Removing
<1>2. UNCHANGED <<Flink, Blink, allocated, search, order>>
  BY DEF RemoveLenRead, LenDecrement, links, pool, globals, history
<1>3. PICK locals \in RemovalLocals :
        removal' = [removal EXCEPT ![r] = locals] /\ locals.pc \in {"idle", "count"}
  <2>1. CASE RemoveLenRead(r)
    <3> DEFINE l == [removal[r] EXCEPT !.pc = "count", !.len = LenofLoopList]
    <3>1. removal' = [removal EXCEPT ![r] = l]  BY <2>1 DEF RemoveLenRead
    <3>2. l \in RemovalLocals /\ l.pc = "count"  BY DEF RemovalLocals, RInv, Typed
    <3> QED  BY <3>1, <3>2
  <2>2. CASE LenDecrement(r)  BY <2>2, IdleLocals DEF LenDecrement, IdleRemoval
  <2> QED  BY <2>1, <2>2
<1>4. LenofLoopList' \in Int
  BY DEF RInv, Typed, RemovalLocals, RemoveLenRead, LenDecrement, globals
<1>5. Typed' /\ removal'[r] = locals  BY <1>2, <1>3, <1>4 DEF RInv, Typed
<1>6. /\ Forward(Flink, order) /\ Backward(Blink, order) /\ Distinct(order)
      /\ allocated = BlocksOf(order)
  BY <1>1 DEF RInv, Ring, Owned, Inserting, At, Is, Freed
<1>7. RemoveProgress(r)'  BY <1>3, <1>5 DEF RemoveProgress, Unfreed, Freed, Is
<1> QED  BY <1>1, <1>2, <1>3, <1>5, <1>6, <1>7, RemovalOnly

-----------------------------------------------------------------------------

LEMMA NextKeepsRInv ==
  ASSUME Overlap = FALSE
  PROVE  RInv /\ [Next]_vars => RInv'
<1> SUFFICES ASSUME RInv, [Next]_vars PROVE RInv'  OBVIOUS
<1>1. CASE \E FROM, TO \in Addr, reading \in [PMCs -> UINT64] : SearchStart(FROM, TO, reading)
  BY <1>1, SearchStartKeepsRInv
<1>2. CASE SearchSteps
  BY <1>2, SearchVisitKeepsRInv, SearchReturnKeepsRInv, AllocateKeepsRInv, LinkEntryKeepsRInv,
     LinkLastKeepsRInv, LinkHeaderKeepsRInv, LenStepsKeepRInv
  DEF SearchSteps
<1>3. ASSUME NEW r \in Readers, RemoveStart(r) \/ RemoveSteps(r) PROVE RInv'
  BY <1>3, RemoveStartKeepsRInv, RemoveLogKeepsRInv, RemoveFreeKeepsRInv, RemoveLinksKeepsRInv,
     UnlinkForwardKeepsRInv, UnlinkBackwardKeepsRInv, RemoveLenStepsKeepRInv
  DEF RemoveSteps
<1>4. CASE UNCHANGED <<Flink, Blink, allocated, order, LenofLoopList, search, removal>>
  BY <1>4
  DEF RInv, Typed, OneCall, Searching, Removing, Ring, InsertProgress, Inserting, At,
      RemoveProgress, Unfreed, Freed, Is, Owned
<1>5. CASE (\E n \in MlpxValues : SetMlpx(n)) \/ StartCapture \/ UNCHANGED vars
  BY <1>4, <1>5 DEF SetMlpx, StartCapture, vars, links, pool, globals, history
<1> QED  BY <1>1, <1>2, <1>3, <1>5 DEF Next

(* Where the client reads between captures and one thread at a time, the   *)
(* ring is whole after every call and holds exactly the allocated records, *)
(* although a record is freed before it is taken off the ring.             *)
THEOREM RingWhole ==
  ASSUME Overlap = FALSE
  PROVE  Spec => []LinksWhole
<1>1. RInv => LinksWhole
  BY DEF RInv, Ring, Owned, LinksWhole, Quiet, Searching, Removing, At, Is, Inserting, Freed
<1> QED  BY <1>1, InitEstablishesRInv, NextKeepsRInv, PTL DEF Spec
=============================================================================
