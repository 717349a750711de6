------------------------ MODULE LoopListRefinement -------------------------
(***************************************************************************)
(* The loop list implements the loop profile, for every value of the       *)
(* constants: every call is an observation, a removal, a restart or        *)
(* nothing at all in the terms of LoopProfile.                             *)
(***************************************************************************)
EXTENDS LoopListProofs

-----------------------------------------------------------------------------
(* The mapping, one record at a time                                       *)

LEMMA RecordInList ==
  ASSUME NEW list, AllDistinct(list)
  PROVE  /\ \A i \in DOMAIN list : /\ PairOf(list[i]) \in LoopsOf(list)
                                   /\ RecordOf(list, PairOf(list[i])) = list[i]
         /\ \A p \in LoopsOf(list) : \E i \in DOMAIN list : p = PairOf(list[i])
<1>1. \A i \in DOMAIN list :
        (CHOOSE j \in DOMAIN list : PairOf(list[j]) = PairOf(list[i])) = i
  <2> TAKE i \in DOMAIN list
  <2> DEFINE c == CHOOSE j \in DOMAIN list : PairOf(list[j]) = PairOf(list[i])
  <2>1. c \in DOMAIN list /\ PairOf(list[c]) = PairOf(list[i])  OBVIOUS
  <2> QED  BY <2>1 DEF AllDistinct
<1> QED  BY <1>1 DEF LoopsOf, RecordOf

LEMMA SameTotals ==
  ASSUME NEW a, NEW b
  PROVE  Profile!Plus(a, b) = Plus(a, b) /\ Profile!Times(a, b) = Times(a, b)
  BY DEF Profile!Plus, Plus, Profile!Times, Times

(* What a sample charges to the entry of the record it matches.            *)
ChargedEntry(entry, active, reading) ==
  [count |-> (entry.count + 1) % CounterWidth,
   cost  |-> [entry.cost EXCEPT
                ![Multiplex_Index] = IF active
                                     THEN [i \in PMCs |-> Plus(@[i], reading[i])]
                                     ELSE @]]

LEMMA HitEntry ==
  ASSUME Multiplex_Index \in Rows, NEW reading \in [PMCs -> UINT64], NEW l \in LOOPInfo
  PROVE  Entry(Hit(l, reading)) = ChargedEntry(Entry(l), l.bActive, reading)
<1> DEFINE h == Hit(l, reading)
           start == IF l.bActive THEN l.PMC_Start ELSE AddReading(l.PMC_Start, reading)
           cost(m, i) == IF l.bActive /\ m = Multiplex_Index
                         THEN Plus(Minus(l.PMC_End[m][i], l.PMC_Start[m][i]), reading[i])
                         ELSE Minus(l.PMC_End[m][i], l.PMC_Start[m][i])
<1>1. /\ h.Counter = (l.Counter + 1) % CounterWidth
      /\ h.PMC_Start = start /\ h.PMC_End = AddReading(l.PMC_End, reading)
  BY HitRecord
<1>2. /\ l.PMC_Start \in [Rows -> [PMCs -> Total]]
      /\ l.PMC_End \in [Rows -> [PMCs -> Total]]
      /\ l.bActive \in BOOLEAN
  BY DEF LOOPInfo
<1>3. \A m \in Rows, i \in PMCs :
        Minus(AddReading(l.PMC_End, reading)[m][i], start[m][i]) = cost(m, i)
  <2> TAKE m \in Rows, i \in PMCs
  <2>1. /\ l.PMC_Start[m][i] \in Total /\ l.PMC_End[m][i] \in Total
        /\ reading[i] \in UINT64
    BY <1>2
  <2>2. /\ Minus(Plus(l.PMC_End[m][i], reading[i]), Plus(l.PMC_Start[m][i], reading[i]))
             = Minus(l.PMC_End[m][i], l.PMC_Start[m][i])
        /\ Minus(Plus(l.PMC_End[m][i], reading[i]), l.PMC_Start[m][i])
             = Plus(Minus(l.PMC_End[m][i], l.PMC_Start[m][i]), reading[i])
    BY <2>1, CostOfBoth
  <2>3. /\ AddReading(l.PMC_End, reading)[m][i] =
             IF m = Multiplex_Index THEN Plus(l.PMC_End[m][i], reading[i])
             ELSE l.PMC_End[m][i]
        /\ AddReading(l.PMC_Start, reading)[m][i] =
             IF m = Multiplex_Index THEN Plus(l.PMC_Start[m][i], reading[i])
             ELSE l.PMC_Start[m][i]
    BY <1>2, AddReadingRows
  <2> QED  BY <1>2, <2>2, <2>3
<1>4. Entry(h) = [count |-> (l.Counter + 1) % CounterWidth,
                  cost  |-> [m \in Rows |-> [i \in PMCs |-> cost(m, i)]]]
  <2>1. Entry(h) = [count |-> (l.Counter + 1) % CounterWidth,
                    cost  |-> [m \in Rows |-> [i \in PMCs |->
                       Minus(AddReading(l.PMC_End, reading)[m][i], start[m][i])]]]
    BY <1>1 DEF Entry
  <2> HIDE DEF start, cost
  <2> QED  BY <1>3, <2>1
<1>5. ChargedEntry(Entry(l), l.bActive, reading) =
        [count |-> (l.Counter + 1) % CounterWidth,
         cost  |-> [m \in Rows |-> [i \in PMCs |-> cost(m, i)]]]
  BY DEF ChargedEntry, Entry
<1> QED  BY <1>4, <1>5

LEMMA VisitEntry ==
  ASSUME Multiplex_Index \in Rows, NEW reading \in [PMCs -> UINT64], NEW l \in LOOPInfo,
         NEW FROM \in Addr, NEW TO \in Addr
  PROVE  Entry(Visit(l, FROM, TO, reading)) =
           IF IsRecordOf(l, FROM, TO)
           THEN ChargedEntry(Entry(l), l.bActive, reading) ELSE Entry(l)
<1> DEFINE h == IF IsRecordOf(l, FROM, TO) THEN Hit(l, reading) ELSE l
<1>1. h \in LOOPInfo  BY HitRecord
<1>2. Visit(l, FROM, TO, reading) = [h EXCEPT !.bActive = Contains(l, TO)]  BY DEF Visit
<1> HIDE DEF h
<1>3. Entry(Visit(l, FROM, TO, reading)) = Entry(h)  BY <1>1, <1>2 DEF Entry, LOOPInfo
<1> QED  BY <1>3, HitEntry DEF h

-----------------------------------------------------------------------------
(* The mapping, one list at a time                                         *)

(* A search charges the matched loop, if there is one, and flags the loops *)
(* that contain the target.                                                *)
LEMMA VisitedProfile ==
  ASSUME IInv, NEW reading \in [PMCs -> UINT64], NEW FROM \in Addr, NEW TO \in Addr
  PROVE  /\ LoopsOf(Visited(FROM, TO, reading)) = LoopsOf(LoopList_Header)
         /\ ProfileOf(Visited(FROM, TO, reading)) =
              [p \in LoopsOf(LoopList_Header) |->
                 IF p = Pair(FROM, TO)
                 THEN ChargedEntry(ProfileOf(LoopList_Header)[p],
                                   p \in ActiveOf(LoopList_Header), reading)
                 ELSE ProfileOf(LoopList_Header)[p]]
         /\ ActiveOf(Visited(FROM, TO, reading)) =
              {p \in LoopsOf(LoopList_Header) : Contains(p, TO)}
<1> DEFINE visited == Visited(FROM, TO, reading)
           list == LoopList_Header
<1>1. /\ list \in Seq(LOOPInfo) /\ Multiplex_Index \in Rows /\ AllDistinct(list)
      /\ \A i \in DOMAIN list : IsLoopRecord(list[i])
      /\ \A i \in DOMAIN list : list[i] \in LOOPInfo
  BY DEF IInv, TypeOK, OneRecordPerLoop
<1>2. /\ AllDistinct(visited) /\ DOMAIN visited = DOMAIN list
      /\ \A i \in DOMAIN list :
           /\ visited[i] = Visit(list[i], FROM, TO, reading)
           /\ PairOf(visited[i]) = PairOf(list[i])
           /\ visited[i].bActive = Contains(PairOf(list[i]), TO)
  BY <1>1, VisitedList, VisitedKeepsLoops DEF IInv
<1>3. \A i \in DOMAIN list :
        Entry(visited[i]) = IF IsRecordOf(list[i], FROM, TO)
                            THEN ChargedEntry(Entry(list[i]), list[i].bActive, reading)
                            ELSE Entry(list[i])
  BY <1>1, <1>2, VisitEntry
<1>4. \A i \in DOMAIN list : IsRecordOf(list[i], FROM, TO) <=> PairOf(list[i]) = Pair(FROM, TO)
  BY <1>1 DEF IsRecordOf, PairOf, Pair, IsLoopRecord
<1>5. LoopsOf(visited) = LoopsOf(list)
  BY <1>2 DEF LoopsOf
<1> HIDE DEF visited, list
<1>6. \A p \in LoopsOf(list) : \E i \in DOMAIN list :
         /\ p = PairOf(list[i])
         /\ RecordOf(list, p) = list[i] /\ RecordOf(visited, p) = visited[i]
  BY <1>1, <1>2, RecordInList
<1>7. \A p \in LoopsOf(list) :
         /\ Entry(RecordOf(visited, p)) =
              IF p = Pair(FROM, TO)
              THEN ChargedEntry(Entry(RecordOf(list, p)), RecordOf(list, p).bActive, reading)
              ELSE Entry(RecordOf(list, p))
         /\ RecordOf(visited, p).bActive = Contains(p, TO)
  BY <1>2, <1>3, <1>4, <1>6
<1>8. \A p \in LoopsOf(list) :
         /\ ProfileOf(list)[p] = Entry(RecordOf(list, p))
         /\ RecordOf(list, p).bActive <=> p \in ActiveOf(list)
         /\ RecordOf(list, p).bActive \in BOOLEAN
  BY <1>1, <1>6 DEF ProfileOf, ActiveOf, LOOPInfo
<1>9. \A p \in LoopsOf(list) : RecordOf(list, p).bActive = (p \in ActiveOf(list))
  BY <1>8
<1>10. ProfileOf(visited) =
         [p \in LoopsOf(list) |->
            IF p = Pair(FROM, TO)
            THEN ChargedEntry(ProfileOf(list)[p], p \in ActiveOf(list), reading)
            ELSE ProfileOf(list)[p]]
  <2>1. ProfileOf(visited) = [p \in LoopsOf(list) |-> Entry(RecordOf(visited, p))]
    BY <1>5 DEF ProfileOf
  <2> QED  BY <1>7, <1>8, <1>9, <2>1
<1>11. ActiveOf(visited) = {p \in LoopsOf(list) : Contains(p, TO)}
  BY <1>5, <1>7 DEF ActiveOf
<1> QED  BY <1>5, <1>10, <1>11 DEF visited, list

(* A new record adds its loop, with the rows that were set to zero.        *)
LEMMA AppendedProfile ==
  ASSUME NEW list \in Seq(LOOPInfo), AllDistinct(list), NEW new \in LOOPInfo,
         PairOf(new) \notin LoopsOf(list)
  PROVE  /\ LoopsOf(Append(list, new)) = LoopsOf(list) \cup {PairOf(new)}
         /\ ProfileOf(Append(list, new)) =
              [p \in LoopsOf(list) \cup {PairOf(new)} |->
                 IF p = PairOf(new) THEN Entry(new) ELSE ProfileOf(list)[p]]
         /\ ActiveOf(Append(list, new)) =
              ActiveOf(list) \cup (IF new.bActive THEN {PairOf(new)} ELSE {})
<1> DEFINE longer == Append(list, new)
           last == Len(list) + 1
<1>1. /\ DOMAIN list = 1 .. Len(list) /\ Len(list) \in Nat
      /\ DOMAIN longer = 1 .. Len(list) + 1
      /\ longer[last] = new /\ \A i \in DOMAIN list : longer[i] = list[i]
  OBVIOUS
<1>2. DOMAIN longer = DOMAIN list \cup {last} /\ last \notin DOMAIN list
  BY <1>1
<1> HIDE DEF longer, last
<1>3. \A i \in DOMAIN list : PairOf(list[i]) # PairOf(new)
  BY DEF LoopsOf
<1>4. AllDistinct(longer)
  BY <1>1, <1>2, <1>3 DEF AllDistinct
<1>5. LoopsOf(longer) = LoopsOf(list) \cup {PairOf(new)}
  BY <1>1, <1>2 DEF LoopsOf
<1>6. RecordOf(longer, PairOf(new)) = new
  BY <1>1, <1>2, <1>4, RecordInList
<1>7. \A p \in LoopsOf(list) : RecordOf(longer, p) = RecordOf(list, p) /\ p # PairOf(new)
  BY <1>1, <1>2, <1>4, RecordInList
<1>8. \A p \in LoopsOf(list) : ProfileOf(list)[p] = Entry(RecordOf(list, p))
  BY DEF ProfileOf
<1>9. ProfileOf(longer) =
        [p \in LoopsOf(list) \cup {PairOf(new)} |->
           IF p = PairOf(new) THEN Entry(new) ELSE ProfileOf(list)[p]]
  <2>1. ProfileOf(longer) =
          [p \in LoopsOf(list) \cup {PairOf(new)} |-> Entry(RecordOf(longer, p))]
    BY <1>5 DEF ProfileOf
  <2> QED  BY <1>6, <1>7, <1>8, <2>1
<1>10. ActiveOf(longer) = ActiveOf(list) \cup (IF new.bActive THEN {PairOf(new)} ELSE {})
  BY <1>5, <1>6, <1>7 DEF ActiveOf
<1> QED  BY <1>5, <1>9, <1>10 DEF longer

(* A removal forgets the loop of the head and nothing else.                *)
LEMMA TailProfile ==
  ASSUME IInv, LoopList_Header # <<>>
  PROVE  LET list == LoopList_Header  gone == PairOf(Head(LoopList_Header)) IN
         /\ gone \in LoopsOf(list) /\ RecordOf(list, gone) = Head(list)
         /\ ProfileOf(Tail(list)) =
              [p \in LoopsOf(list) \ {gone} |-> ProfileOf(list)[p]]
         /\ ActiveOf(Tail(list)) = ActiveOf(list) \ {gone}
<1> DEFINE list == LoopList_Header
           tail == Tail(LoopList_Header)
           gone == PairOf(Head(LoopList_Header))
<1>1. /\ list \in Seq(LOOPInfo) /\ AllDistinct(list) /\ list # <<>>
  BY DEF IInv, TypeOK, OneRecordPerLoop
<1>2. /\ DOMAIN list = 1 .. Len(list) /\ Len(list) \in Nat \ {0} /\ Head(list) = list[1]
      /\ DOMAIN tail = 1 .. Len(list) - 1
      /\ \A i \in DOMAIN tail : tail[i] = list[i + 1]
  BY <1>1
<1>3. AllDistinct(tail)  BY <1>1, TailKeepsLoops DEF IInv, TypeOK
<1>4. /\ 1 \in DOMAIN list
      /\ \A i \in DOMAIN list : i = 1 \/ (i - 1 \in DOMAIN tail /\ tail[i - 1] = list[i])
      /\ \A i \in DOMAIN tail : i + 1 \in DOMAIN list /\ i + 1 # 1
  BY <1>2
<1> HIDE DEF list, tail
<1>5. gone = PairOf(list[1])  BY <1>2 DEF list
<1> HIDE DEF gone
<1>6. gone \in LoopsOf(list) /\ RecordOf(list, gone) = list[1]
  BY <1>1, <1>4, <1>5, RecordInList
<1>7. \A i \in DOMAIN tail : PairOf(tail[i]) # gone
  BY <1>1, <1>2, <1>4, <1>5 DEF AllDistinct
<1>8. LoopsOf(tail) = LoopsOf(list) \ {gone}
  <2>1. \A p \in LoopsOf(tail) : p \in LoopsOf(list) /\ p # gone
    BY <1>2, <1>4, <1>7 DEF LoopsOf
  <2>2. \A p \in LoopsOf(list) : p = gone \/ p \in LoopsOf(tail)
    BY <1>2, <1>4, <1>5 DEF LoopsOf
  <2> QED  BY <2>1, <2>2
<1>9. \A p \in LoopsOf(tail) : RecordOf(tail, p) = RecordOf(list, p)
  <2> SUFFICES ASSUME NEW i \in DOMAIN tail
               PROVE  RecordOf(tail, PairOf(tail[i])) = RecordOf(list, PairOf(tail[i]))
    BY <1>3, RecordInList
  <2>1. RecordOf(tail, PairOf(tail[i])) = tail[i]  BY <1>3, RecordInList
  <2>2. RecordOf(list, PairOf(list[i + 1])) = list[i + 1]  BY <1>1, <1>4, RecordInList
  <2> QED  BY <1>2, <2>1, <2>2
<1>10. ProfileOf(tail) = [p \in LoopsOf(list) \ {gone} |-> ProfileOf(list)[p]]
  BY <1>8, <1>9 DEF ProfileOf
<1>11. ActiveOf(tail) = ActiveOf(list) \ {gone}
  BY <1>8, <1>9 DEF ActiveOf
<1> QED  BY <1>2, <1>6, <1>10, <1>11 DEF list, tail, gone

-----------------------------------------------------------------------------
(* Every step of the list is a step of the profile                         *)

LEMMA InitRefines == Init => Profile!Init
<1> SUFFICES ASSUME Init PROVE Profile!Init  OBVIOUS
<1>1. LoopsOf(<<>>) = {}  BY DEF LoopsOf
<1>2. ProfileOf(<<>>) = [p \in {} |-> [count |-> 0, cost |-> <<>>]]
  BY <1>1 DEF ProfileOf
<1>3. ActiveOf(<<>>) = {}  BY <1>1 DEF ActiveOf
<1>4. Profile!NoReport = NoReport  BY DEF Profile!NoReport, NoReport
<1> QED  BY <1>2, <1>3, <1>4 DEF Init, Profile!Init

LEMMA ChargedIsCharged ==
  ASSUME NEW p \in LoopsOf(LoopList_Header), NEW reading \in [PMCs -> UINT64]
  PROVE  Profile!Charged(p, reading) =
           ChargedEntry(ProfileOf(LoopList_Header)[p],
                        p \in ActiveOf(LoopList_Header), reading)
  BY SameTotals DEF Profile!Charged, ChargedEntry

LEMMA FreshIsNewLoop ==
  ASSUME NEW FROM, NEW TO
  PROVE  Entry(NewLoop(FROM, TO)) = Profile!Fresh({m \in Rows : m < iMLPX})
<1> DEFINE zero(m) == [i \in PMCs |-> IF m < iMLPX THEN 0 ELSE Junk]
<1>1. Width \in Nat /\ Width # 0 /\ Junk \notin Int
  BY ProfileAssumption DEF ProfileAssumption
<1>2. 0 % Width = 0  BY <1>1
<1>3. Minus(0, 0) = 0 /\ Minus(Junk, Junk) = Junk  BY <1>1, <1>2 DEF Minus
<1>4. Entry(NewLoop(FROM, TO)) =
        [count |-> 1, cost |-> [m \in Rows |-> [i \in PMCs |->
           Minus(zero(m)[i], zero(m)[i])]]]
  BY DEF Entry, NewLoop
<1>5. Profile!Fresh({m \in Rows : m < iMLPX}) =
        [count |-> 1, cost |-> [m \in Rows |-> [i \in PMCs |-> zero(m)[i]]]]
  BY DEF Profile!Fresh, Profile!Rows, Rows
<1>6. \A m \in Rows, i \in PMCs : Minus(zero(m)[i], zero(m)[i]) = zero(m)[i]
  BY <1>3
<1> HIDE DEF zero
<1> QED  BY <1>4, <1>5, <1>6

LEMMA FindRefines ==
  ASSUME IInv, NEW FROM \in Addr, NEW TO \in Addr, NEW reading \in [PMCs -> UINT64],
         Find_Insert_LoopList(FROM, TO, reading)
  PROVE  Profile!Observe(FROM, TO, reading)
<1> DEFINE visited == Visited(FROM, TO, reading)
           p == Pair(FROM, TO)
           list == LoopList_Header
<1>1. /\ Profile!Profiled(FROM, TO)
      /\ Profile!Pair(FROM, TO) = p
      /\ Profile!IsLoop(FROM, TO) = IsLoop(FROM, TO)
      /\ \A q : Profile!Contains(q, TO) = Contains(q, TO)
      /\ logLine' = Profile!NoReport /\ Profile!Rows = Rows
  BY DEF Find_Insert_LoopList, Profile!Profiled, Profiled, Profile!Pair, Pair,
         Profile!IsLoop, IsLoop, Profile!Contains, Contains, Profile!NoReport, NoReport,
         Profile!Rows, Rows
<1>2. /\ DOMAIN ProfileOf(list) = LoopsOf(list)
      /\ \A l : DOMAIN ProfileOf(l) = LoopsOf(l)
  BY DEF ProfileOf
<1>3. Found(FROM, TO) <=> p \in LoopsOf(list)
  <2>1. \A i \in DOMAIN list : IsLoopRecord(list[i])  BY DEF IInv, OneRecordPerLoop
  <2> QED  BY <2>1 DEF Found, IsRecordOf, LoopsOf, PairOf, Pair, IsLoopRecord
<1>4. /\ LoopsOf(visited) = LoopsOf(list)
      /\ ProfileOf(visited) =
           [q \in LoopsOf(list) |->
              IF q = p THEN Profile!Charged(q, reading) ELSE ProfileOf(list)[q]]
      /\ ActiveOf(visited) = {q \in LoopsOf(list) : Contains(q, TO)}
  BY VisitedProfile, ChargedIsCharged
<1>5. CASE /\ Found(FROM, TO) /\ LoopList_Header' = visited
           /\ \E i \in DOMAIN LoopList_Header :
                /\ IsRecordOf(LoopList_Header[i], FROM, TO)
                /\ Multiplex_Index' = NextGroup(LoopList_Header[i])
           /\ UNCHANGED LenofLoopList
  <2>1. Multiplex_Index' \in Rows  BY FindKeepsIInv DEF IInv, TypeOK
  <2>2. ProfileOf(LoopList_Header)' =
          [ProfileOf(list) EXCEPT ![p] = Profile!Charged(p, reading)]
    BY <1>2, <1>4, <1>5
  <2>3. ActiveOf(LoopList_Header)' =
          {q \in DOMAIN ProfileOf(LoopList_Header)' : Profile!Contains(q, TO)}
    BY <1>1, <1>2, <1>4, <1>5
  <2>4. p \in DOMAIN ProfileOf(list)  BY <1>2, <1>3, <1>5
  <2> QED  BY <1>1, <2>1, <2>2, <2>3, <2>4 DEF Profile!Observe
<1>6. ~Found(FROM, TO) => ProfileOf(visited) = ProfileOf(list)
  <2>1. ProfileOf(list) = [q \in LoopsOf(list) |-> ProfileOf(list)[q]]  BY DEF ProfileOf
  <2> QED  BY <1>3, <1>4, <2>1
<1>7. CASE /\ IsLoop(FROM, TO) /\ ~Found(FROM, TO)
           /\ LoopList_Header' = Append(visited, NewLoop(FROM, TO))
           /\ LenofLoopList' = LenofLoopList + 1
           /\ UNCHANGED Multiplex_Index
  <2> DEFINE new == NewLoop(FROM, TO)
             measured == {m \in Rows : m < iMLPX}
  <2>1. new \in LOOPInfo /\ PairOf(new) = p /\ new.bActive = TRUE
    BY NewLoopRecord
  <2>2. visited \in Seq(LOOPInfo) /\ AllDistinct(visited)
    BY VisitedList, VisitedKeepsLoops DEF IInv, TypeOK
  <2>3. p \notin LoopsOf(list)  BY <1>3, <1>7
  <2>4. /\ LoopsOf(LoopList_Header') = LoopsOf(list) \cup {p}
        /\ ProfileOf(LoopList_Header') =
             [q \in LoopsOf(list) \cup {p} |->
                IF q = p THEN Entry(new) ELSE ProfileOf(list)[q]]
        /\ ActiveOf(LoopList_Header') = ActiveOf(visited) \cup {p}
    <3> HIDE DEF visited, new
    <3>1. PairOf(new) \notin LoopsOf(visited)  BY <1>4, <2>1, <2>3
    <3>2. /\ LoopsOf(Append(visited, new)) = LoopsOf(visited) \cup {PairOf(new)}
          /\ ProfileOf(Append(visited, new)) =
               [q \in LoopsOf(visited) \cup {PairOf(new)} |->
                  IF q = PairOf(new) THEN Entry(new) ELSE ProfileOf(visited)[q]]
          /\ ActiveOf(Append(visited, new)) =
               ActiveOf(visited) \cup (IF new.bActive THEN {PairOf(new)} ELSE {})
      BY <2>1, <2>2, <3>1, AppendedProfile
    <3>3. ProfileOf(visited) = ProfileOf(list)  BY <1>6, <1>7
    <3>4. LoopList_Header' = Append(visited, new)  BY <1>7 DEF new
    <3> QED  BY <1>4, <2>1, <3>2, <3>3, <3>4
  <2>5. measured \in SUBSET Rows /\ Entry(new) = Profile!Fresh(measured)
    BY FreshIsNewLoop
  <2>6. Contains(p, TO)
    <3>1. FROM \in Nat /\ TO \in Nat  BY ProfileAssumption DEF ProfileAssumption
    <3> QED  BY <1>7, <3>1 DEF Contains, Pair, IsLoop
  <2>7. ActiveOf(LoopList_Header') =
          {q \in DOMAIN ProfileOf(LoopList_Header') : Profile!Contains(q, TO)}
    BY <1>1, <1>2, <1>4, <2>4, <2>6
  <2> HIDE DEF measured, new
  <2>8. \E ms \in SUBSET Rows : ProfileOf(LoopList_Header') =
          [q \in DOMAIN ProfileOf(list) \cup {p} |->
             IF q = p THEN Profile!Fresh(ms) ELSE ProfileOf(list)[q]]
    BY <1>2, <2>4, <2>5
  <2> QED  BY <1>1, <1>2, <1>7, <2>3, <2>7, <2>8 DEF Profile!Observe
<1>8. CASE /\ ~Found(FROM, TO) /\ LoopList_Header' = visited
           /\ UNCHANGED <<LenofLoopList, Multiplex_Index>>
  <2>1. p \notin DOMAIN ProfileOf(list)  BY <1>2, <1>3, <1>8
  <2>2. /\ ProfileOf(LoopList_Header') = ProfileOf(list)
        /\ ActiveOf(LoopList_Header') =
             {q \in DOMAIN ProfileOf(LoopList_Header') : Profile!Contains(q, TO)}
    BY <1>1, <1>2, <1>4, <1>6, <1>8
  <2> QED  BY <1>1, <1>8, <2>1, <2>2 DEF Profile!Observe
<1> QED  BY <1>5, <1>7, <1>8 DEF Find_Insert_LoopList

LEMMA RemoveRefines ==
  ASSUME IInv, Remove_LoopList
  PROVE  \E p \in Profile!LoopPairs, groups \in 0 .. Multiplexing : Profile!Forget(p, groups)
<1> DEFINE l == Head(LoopList_Header)
           p == PairOf(l)
           groups == IF iMLPX \in 0 .. Multiplexing THEN iMLPX ELSE 0
<1>1. /\ LoopList_Header' = Tail(LoopList_Header) /\ LoopList_Header # <<>>
      /\ ~LogsPastRows /\ UNCHANGED Multiplex_Index
      /\ logLine' = IF IsLogged(l) THEN LogLine(l) ELSE NoReport
  BY DEF Remove_LoopList
<1>2. /\ l \in LOOPInfo /\ IsLoopRecord(l)
  <2>1. LoopList_Header \in Seq(LOOPInfo) /\ l = LoopList_Header[1]
        /\ 1 \in DOMAIN LoopList_Header
    BY <1>1 DEF IInv, TypeOK
  <2> QED  BY <2>1 DEF IInv, OneRecordPerLoop
<1>3. /\ iMLPX \in Int /\ Multiplexing \in Nat
      /\ groups \in 0 .. Multiplexing
      /\ IsLogged(l) => /\ 0 .. groups - 1 = 0 .. iMLPX - 1
                        /\ \A m \in 0 .. iMLPX - 1 : m \in Rows /\ groups = iMLPX
  <2>1. iMLPX \in Int  BY ListAssumption DEF IInv, TypeOK, ListAssumption
  <2>2. Multiplexing \in Nat  BY ProfileAssumption DEF ProfileAssumption
  <2> QED  BY <1>1, <2>1, <2>2 DEF LogsPastRows, Rows
<1>4. p \in Profile!LoopPairs
  BY <1>2 DEF Profile!LoopPairs, Profile!IsLoop, PairOf, Pair, IsLoopRecord, IsLoop, LOOPInfo
<1>5. /\ p \in DOMAIN ProfileOf(LoopList_Header)
      /\ ProfileOf(LoopList_Header)[p] = Entry(l)
      /\ ProfileOf(LoopList_Header)' =
           [q \in DOMAIN ProfileOf(LoopList_Header) \ {p} |-> ProfileOf(LoopList_Header)[q]]
      /\ ActiveOf(LoopList_Header)' = ActiveOf(LoopList_Header) \ {p}
  BY <1>1, TailProfile DEF ProfileOf
<1>6. Profile!Reported(p, Entry(l).count) = IsLogged(l)
  BY DEF Profile!Reported, IsLogged, Reported, Entry, PairOf
<1>7. IsLogged(l) =>
        LogLine(l) = [FROM |-> p.FROM, TO |-> p.TO, count |-> Entry(l).count,
                      cost |-> [m \in 0 .. groups - 1 |->
                                  [i \in PMCs |->
                                     Profile!Times(groups, Entry(l).cost[m][i])]]]
  <2> SUFFICES ASSUME IsLogged(l)
               PROVE  [m \in 0 .. iMLPX - 1 |-> Measured(l, m)] =
                        [m \in 0 .. groups - 1 |->
                          [i \in PMCs |-> Profile!Times(groups, Entry(l).cost[m][i])]]
    BY DEF LogLine, PairOf, Pair, Entry
  <2>1. \A m \in 0 .. iMLPX - 1, i \in PMCs :
          Entry(l).cost[m][i] = Minus(l.PMC_End[m][i], l.PMC_Start[m][i])
    BY <1>3 DEF Entry
  <2>2. \A m \in 0 .. iMLPX - 1 :
          Measured(l, m) = [i \in PMCs |-> Profile!Times(groups, Entry(l).cost[m][i])]
    <3> TAKE m \in 0 .. iMLPX - 1
    <3>1. \A i \in PMCs : Times(iMLPX, Minus(l.PMC_End[m][i], l.PMC_Start[m][i]))
             = Profile!Times(groups, Entry(l).cost[m][i])
      BY <1>3, <2>1, SameTotals
    <3> QED  BY <3>1 DEF Measured
  <2> QED  BY <1>3, <2>2
<1>8. logLine' = IF Profile!Reported(p, ProfileOf(LoopList_Header)[p].count)
                 THEN [FROM |-> p.FROM, TO |-> p.TO,
                       count |-> ProfileOf(LoopList_Header)[p].count,
                       cost |-> [m \in 0 .. groups - 1 |->
                          [i \in PMCs |->
                             Profile!Times(groups, ProfileOf(LoopList_Header)[p].cost[m][i])]]]
                 ELSE Profile!NoReport
  BY <1>1, <1>5, <1>6, <1>7 DEF Profile!NoReport, NoReport
<1> HIDE DEF p, groups
<1>9. Profile!Forget(p, groups)
  BY <1>1, <1>5, <1>8 DEF Profile!Forget
<1> QED  BY <1>3, <1>4, <1>9

LEMMA NextRefines == IInv /\ [Next]_vars => [Profile!Next]_(Profile!vars)
<1> SUFFICES ASSUME IInv, [Next]_vars PROVE [Profile!Next]_(Profile!vars)  OBVIOUS
<1>1. Profile!UINT64 = UINT64 /\ Profile!NoReport = NoReport
  BY DEF Profile!UINT64, UINT64, Profile!NoReport, NoReport
<1>2. CASE \E FROM, TO \in Addr, reading \in [PMCs -> UINT64] :
             Find_Insert_LoopList(FROM, TO, reading)
  BY <1>1, <1>2, FindRefines DEF Profile!Next
<1>3. CASE \E FROM, TO \in Addr : Find_Insert_Undefined(FROM, TO)
  BY <1>1, <1>3 DEF Find_Insert_Undefined, Break, Profile!Next, Profile!Idle
<1>4. CASE Remove_LoopList
  BY <1>4, RemoveRefines DEF Profile!Next
<1>5. CASE Remove_Undefined
  BY <1>1, <1>5 DEF Remove_Undefined, Break, Profile!Next, Profile!Idle
<1>6. CASE \E n \in MlpxValues : SetMlpx(n)
  BY <1>1, <1>6 DEF SetMlpx, Profile!Next, Profile!Idle
<1>7. CASE StartCapture
  BY <1>1, <1>7 DEF StartCapture, Profile!Next, Profile!Restart
<1>8. CASE UNCHANGED vars
  BY <1>8 DEF vars, Profile!vars
<1> QED  BY <1>2, <1>3, <1>4, <1>5, <1>6, <1>7, <1>8 DEF Next

(* The records, flags and running totals of list.c implement the profile,  *)
(* for every set of addresses and every width: what a line of the log says *)
(* of a loop is exactly what was counted while execution stayed in it.     *)
THEOREM ListImplementsProfile == Spec => ImplementsProfile
<1> QED
  BY InitEstablishesIInv, NextKeepsIInv, InitRefines, NextRefines, PTL
     DEF Spec, ImplementsProfile, Profile!Spec
=============================================================================
