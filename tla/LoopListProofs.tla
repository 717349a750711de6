--------------------------- MODULE LoopListProofs ---------------------------
(***************************************************************************)
(* Theorems about LoopList, for every set of addresses, every number of    *)
(* event groups and counters, and every width of the totals.               *)
(***************************************************************************)
EXTENDS LoopList, TLAPS, SequenceTheorems

-----------------------------------------------------------------------------
(* Totals                                                                  *)

LEMMA ModType ==
  ASSUME NEW a \in Int, NEW w \in Nat, w # 0
  PROVE  a % w \in 0 .. w - 1
  OBVIOUS

LEMMA TotalsAreTotals ==
  ASSUME NEW a \in Total, NEW b \in Total, NEW n \in Nat
  PROVE  /\ b \in UINT64 => Plus(a, b) \in Total
         /\ Minus(a, b) \in Total
         /\ Times(n, a) \in Total
<1> USE ProfileAssumption DEF ProfileAssumption
<1>1. Width \in Nat /\ Width # 0  OBVIOUS
<1>2. Junk \notin Int  OBVIOUS
<1>3. b \in UINT64 => Plus(a, b) \in Total
  BY <1>1, <1>2, ModType DEF Plus, Total, UINT64
<1>4. Minus(a, b) \in Total
  BY <1>1, <1>2, ModType DEF Minus, Total, UINT64
<1>5. Times(n, a) \in Total
  <2>1. a # Junk => n * a \in Int  BY <1>1, <1>2 DEF Total, UINT64
  <2>2. a # Junk => (n * a) % Width \in UINT64  BY <1>1, <2>1, ModType DEF UINT64
  <2> QED  BY <2>2 DEF Times, Total
<1> QED  BY <1>3, <1>4, <1>5

(* Totals that are not junk wrap at most once.                             *)
LEMMA PlusMinusWrap ==
  ASSUME NEW a \in UINT64, NEW b \in UINT64
  PROVE  /\ Plus(a, b) \in UINT64
         /\ Plus(a, b) = IF a + b < Width THEN a + b ELSE a + b - Width
         /\ Minus(a, b) \in UINT64
         /\ Minus(a, b) = IF a >= b THEN a - b ELSE a - b + Width
<1>1. Width \in Nat /\ Width # 0  BY ProfileAssumption DEF ProfileAssumption
<1>2. a \in 0 .. Width - 1 /\ b \in 0 .. Width - 1  BY DEF UINT64
<1>3. a # Junk /\ b # Junk  BY <1>1, <1>2, ProfileAssumption DEF ProfileAssumption
<1>4. \A x \in 0 .. Width - 1 : x % Width = x  BY <1>1
<1>5. \A x \in Width .. 2 * Width - 1 : x % Width = x - Width  BY <1>1
<1>6. \A x \in -Width .. -1 : x % Width = x + Width  BY <1>1
<1>7. (a + b) % Width = IF a + b < Width THEN a + b ELSE a + b - Width
  BY <1>1, <1>2, <1>4, <1>5
<1>8. (a - b) % Width = IF a >= b THEN a - b ELSE a - b + Width
  BY <1>1, <1>2, <1>4, <1>6
<1> QED  BY <1>1, <1>2, <1>3, <1>7, <1>8 DEF Plus, Minus, UINT64

(* Adding the same reading to both ends leaves the cost, adding it to the  *)
(* end alone adds it to the cost, whatever wraps on the way.               *)
LEMMA CostOfBoth ==
  ASSUME NEW e \in Total, NEW s \in Total, NEW r \in UINT64
  PROVE  /\ Minus(Plus(e, r), Plus(s, r)) = Minus(e, s)
         /\ Minus(Plus(e, r), s) = Plus(Minus(e, s), r)
<1>1. CASE e = Junk \/ s = Junk
  <2>1. e = Junk => Plus(e, r) = Junk  BY DEF Plus
  <2>2. s = Junk => Plus(s, r) = Junk  BY DEF Plus
  <2>3. Minus(e, s) = Junk  BY <1>1 DEF Minus
  <2> QED  BY <1>1, <2>1, <2>2, <2>3 DEF Minus, Plus
<1>2. CASE e # Junk /\ s # Junk
  <2>1. e \in UINT64 /\ s \in UINT64  BY <1>2 DEF Total
  <2>2. PICK W, e1, s1, r1, er, sr, es \in Int :
           /\ W = Width /\ e1 = e /\ s1 = s /\ r1 = r
           /\ 0 <= e1 /\ e1 < W /\ 0 <= s1 /\ s1 < W /\ 0 <= r1 /\ r1 < W
           /\ er = Plus(e, r) /\ er = IF e1 + r1 < W THEN e1 + r1 ELSE e1 + r1 - W
           /\ sr = Plus(s, r) /\ sr = IF s1 + r1 < W THEN s1 + r1 ELSE s1 + r1 - W
           /\ es = Minus(e, s) /\ es = IF e1 >= s1 THEN e1 - s1 ELSE e1 - s1 + W
           /\ er \in UINT64 /\ sr \in UINT64 /\ es \in UINT64
    <3>1. Width \in Nat  BY ProfileAssumption DEF ProfileAssumption
    <3>2. /\ Plus(e, r) = IF e + r < Width THEN e + r ELSE e + r - Width
          /\ Plus(s, r) = IF s + r < Width THEN s + r ELSE s + r - Width
          /\ Minus(e, s) = IF e >= s THEN e - s ELSE e - s + Width
          /\ Plus(e, r) \in UINT64 /\ Plus(s, r) \in UINT64 /\ Minus(e, s) \in UINT64
      BY <2>1, PlusMinusWrap
    <3>3. /\ Plus(e, r) \in Int /\ Plus(s, r) \in Int /\ Minus(e, s) \in Int
          /\ Width \in Int /\ e \in Int /\ s \in Int /\ r \in Int
      BY <2>1, <3>1, <3>2 DEF UINT64
    <3>4. /\ 0 <= e /\ e < Width /\ 0 <= s /\ s < Width /\ 0 <= r /\ r < Width
      BY <2>1, <3>1 DEF UINT64
    <3> USE <3>2, <3>3, <3>4
    <3> WITNESS Width \in Int, e \in Int, s \in Int, r \in Int,
                Plus(e, r) \in Int, Plus(s, r) \in Int, Minus(e, s) \in Int
    <3> QED  OBVIOUS
  <2>3. Minus(er, sr) = IF er >= sr THEN er - sr ELSE er - sr + W
    BY <2>2, PlusMinusWrap
  <2>4. Minus(er, s) = IF er >= s1 THEN er - s1 ELSE er - s1 + W
    BY <2>1, <2>2, PlusMinusWrap
  <2>5. Plus(es, r) = IF es + r1 < W THEN es + r1 ELSE es + r1 - W
    BY <2>2, PlusMinusWrap
  <2> QED  BY <2>2, <2>3, <2>4, <2>5
<1> QED  BY <1>1, <1>2

-----------------------------------------------------------------------------
(* One record                                                              *)

LEMMA AddReadingRows ==
  ASSUME Multiplex_Index \in Rows, NEW reading \in [PMCs -> UINT64],
         NEW totals \in [Rows -> [PMCs -> Total]]
  PROVE  /\ AddReading(totals, reading) \in [Rows -> [PMCs -> Total]]
         /\ \A m \in Rows, i \in PMCs :
              AddReading(totals, reading)[m][i] =
                IF m = Multiplex_Index THEN Plus(totals[m][i], reading[i]) ELSE totals[m][i]
<1>1. 0 \in Nat  OBVIOUS
<1>2. \A a \in Total, b \in UINT64 : Plus(a, b) \in Total
  BY <1>1, TotalsAreTotals DEF Total
<1>3. [i \in PMCs |-> Plus(totals[Multiplex_Index][i], reading[i])] \in [PMCs -> Total]
  BY <1>2
<1> QED  BY <1>3 DEF AddReading

LEMMA HitRecord ==
  ASSUME Multiplex_Index \in Rows, NEW reading \in [PMCs -> UINT64], NEW l \in LOOPInfo
  PROVE  /\ Hit(l, reading) \in LOOPInfo
         /\ Hit(l, reading).FROM = l.FROM /\ Hit(l, reading).TO = l.TO
         /\ Hit(l, reading).Counter = (l.Counter + 1) % CounterWidth
         /\ Hit(l, reading).PMC_Start =
              IF l.bActive THEN l.PMC_Start ELSE AddReading(l.PMC_Start, reading)
         /\ Hit(l, reading).PMC_End = AddReading(l.PMC_End, reading)
<1>1. (l.Counter + 1) % CounterWidth \in UINT32
  <2>1. l.Counter + 1 \in Int /\ CounterWidth \in Nat /\ CounterWidth # 0
    BY ProfileAssumption DEF ProfileAssumption, LOOPInfo, UINT32
  <2> QED  BY <2>1, ModType DEF UINT32
<1>2. /\ AddReading(l.PMC_Start, reading) \in [Rows -> [PMCs -> Total]]
      /\ AddReading(l.PMC_End, reading) \in [Rows -> [PMCs -> Total]]
  BY AddReadingRows DEF LOOPInfo
<1> QED  BY <1>1, <1>2 DEF Hit, LOOPInfo

(* What a sample does to a record, in the record's own terms.              *)
LEMMA VisitRecord ==
  ASSUME Multiplex_Index \in Rows, NEW reading \in [PMCs -> UINT64], NEW l \in LOOPInfo,
         NEW FROM \in Addr, NEW TO \in Addr
  PROVE  /\ Visit(l, FROM, TO, reading) \in LOOPInfo
         /\ PairOf(Visit(l, FROM, TO, reading)) = PairOf(l)
         /\ IsLoopRecord(Visit(l, FROM, TO, reading)) = IsLoopRecord(l)
         /\ Visit(l, FROM, TO, reading).bActive = Contains(PairOf(l), TO)
<1> DEFINE h == IF IsRecordOf(l, FROM, TO) THEN Hit(l, reading) ELSE l
<1>1. h \in LOOPInfo /\ h.FROM = l.FROM /\ h.TO = l.TO  BY HitRecord
<1>2. Contains(l, TO) \in BOOLEAN /\ Contains(PairOf(l), TO) = Contains(l, TO)
  BY DEF Contains, PairOf, Pair
<1>3. Visit(l, FROM, TO, reading) = [h EXCEPT !.bActive = Contains(l, TO)]  BY DEF Visit
<1> HIDE DEF h
<1>4. Visit(l, FROM, TO, reading) \in LOOPInfo  BY <1>1, <1>2, <1>3 DEF LOOPInfo
<1>5. /\ Visit(l, FROM, TO, reading).FROM = l.FROM /\ Visit(l, FROM, TO, reading).TO = l.TO
      /\ Visit(l, FROM, TO, reading).bActive = Contains(l, TO)
  BY <1>1, <1>3 DEF LOOPInfo
<1> QED  BY <1>2, <1>4, <1>5 DEF PairOf, IsLoopRecord

LEMMA NewLoopRecord ==
  ASSUME NEW FROM \in Addr, NEW TO \in Addr
  PROVE  /\ NewLoop(FROM, TO) \in LOOPInfo
         /\ PairOf(NewLoop(FROM, TO)) = Pair(FROM, TO)
         /\ NewLoop(FROM, TO).FROM = FROM /\ NewLoop(FROM, TO).TO = TO
         /\ NewLoop(FROM, TO).bActive = TRUE /\ NewLoop(FROM, TO).Counter = 1
<1>1. 1 \in UINT32  BY ProfileAssumption DEF ProfileAssumption, UINT32
<1>2. 0 \in Total /\ Junk \in Total
  BY ProfileAssumption DEF ProfileAssumption, Total, UINT64
<1>3. [m \in Rows |-> [i \in PMCs |-> IF m < iMLPX THEN 0 ELSE Junk]]
         \in [Rows -> [PMCs -> Total]]
  BY <1>2
<1> QED  BY <1>1, <1>3 DEF NewLoop, LOOPInfo, PairOf

-----------------------------------------------------------------------------
(* The list                                                                *)

LEMMA VisitedList ==
  ASSUME LoopList_Header \in Seq(LOOPInfo), Multiplex_Index \in Rows,
         NEW reading \in [PMCs -> UINT64], NEW FROM \in Addr, NEW TO \in Addr
  PROVE  /\ Visited(FROM, TO, reading) \in Seq(LOOPInfo)
         /\ Len(Visited(FROM, TO, reading)) = Len(LoopList_Header)
         /\ DOMAIN Visited(FROM, TO, reading) = DOMAIN LoopList_Header
         /\ \A i \in DOMAIN LoopList_Header :
              /\ LoopList_Header[i] \in LOOPInfo
              /\ Visited(FROM, TO, reading)[i] = Visit(LoopList_Header[i], FROM, TO, reading)
              /\ PairOf(Visited(FROM, TO, reading)[i]) = PairOf(LoopList_Header[i])
              /\ IsLoopRecord(Visited(FROM, TO, reading)[i])
                   = IsLoopRecord(LoopList_Header[i])
              /\ Visited(FROM, TO, reading)[i].bActive
                   = Contains(PairOf(LoopList_Header[i]), TO)
<1>1. \A i \in DOMAIN LoopList_Header : LoopList_Header[i] \in LOOPInfo
  OBVIOUS
<1>2. \A i \in DOMAIN LoopList_Header :
         Visit(LoopList_Header[i], FROM, TO, reading) \in LOOPInfo
  BY <1>1, VisitRecord
<1>3. DOMAIN LoopList_Header = 1 .. Len(LoopList_Header) /\ Len(LoopList_Header) \in Nat
  OBVIOUS
<1>4. /\ Visited(FROM, TO, reading) \in Seq(LOOPInfo)
      /\ Len(Visited(FROM, TO, reading)) = Len(LoopList_Header)
      /\ DOMAIN Visited(FROM, TO, reading) = DOMAIN LoopList_Header
  BY <1>2, <1>3 DEF Visited
<1>5. \A i \in DOMAIN LoopList_Header :
         Visited(FROM, TO, reading)[i] = Visit(LoopList_Header[i], FROM, TO, reading)
  BY DEF Visited
<1> QED  BY <1>1, <1>4, <1>5, VisitRecord

(* The two things a step of the search leaves behind, as the sequences     *)
(* that both of them are.                                                  *)
LEMMA VisitedKeepsLoops ==
  ASSUME LoopList_Header \in Seq(LOOPInfo), Multiplex_Index \in Rows, OneRecordPerLoop,
         NEW reading \in [PMCs -> UINT64], NEW FROM \in Addr, NEW TO \in Addr
  PROVE  /\ AllDistinct(Visited(FROM, TO, reading))
         /\ \A i \in DOMAIN Visited(FROM, TO, reading) :
              IsLoopRecord(Visited(FROM, TO, reading)[i])
<1> DEFINE visited == Visited(FROM, TO, reading)
<1>1. /\ DOMAIN visited = DOMAIN LoopList_Header
      /\ \A i \in DOMAIN LoopList_Header :
           /\ PairOf(visited[i]) = PairOf(LoopList_Header[i])
           /\ IsLoopRecord(visited[i]) = IsLoopRecord(LoopList_Header[i])
  BY VisitedList
<1> HIDE DEF visited
<1>2. AllDistinct(visited)  BY <1>1 DEF AllDistinct, OneRecordPerLoop
<1>3. \A i \in DOMAIN visited : IsLoopRecord(visited[i])
  BY <1>1 DEF OneRecordPerLoop
<1> QED  BY <1>2, <1>3 DEF visited

LEMMA AppendKeepsLoops ==
  ASSUME LoopList_Header \in Seq(LOOPInfo), Multiplex_Index \in Rows, OneRecordPerLoop,
         NEW reading \in [PMCs -> UINT64], NEW FROM \in Addr, NEW TO \in Addr,
         Profiled(FROM, TO), IsLoop(FROM, TO), ~Found(FROM, TO)
  PROVE  LET list == Append(Visited(FROM, TO, reading), NewLoop(FROM, TO)) IN
         /\ list \in Seq(LOOPInfo)
         /\ Len(list) = Len(LoopList_Header) + 1
         /\ AllDistinct(list)
         /\ \A i \in DOMAIN list : IsLoopRecord(list[i])
<1> DEFINE visited == Visited(FROM, TO, reading)
           new == NewLoop(FROM, TO)
           list == Append(visited, new)
<1>1. visited \in Seq(LOOPInfo) /\ Len(visited) = Len(LoopList_Header)
  BY VisitedList
<1>2. new \in LOOPInfo /\ PairOf(new) = Pair(FROM, TO) /\ IsLoopRecord(new)
  BY NewLoopRecord DEF IsLoopRecord
<1>3. /\ list \in Seq(LOOPInfo) /\ Len(list) = Len(visited) + 1
      /\ DOMAIN list = 1 .. Len(visited) + 1
      /\ list[Len(visited) + 1] = new
      /\ \A i \in 1 .. Len(visited) : list[i] = visited[i]
  BY <1>1, <1>2
<1>4. DOMAIN visited = 1 .. Len(visited) /\ Len(visited) \in Nat  BY <1>1
<1>5. \A i \in DOMAIN visited : PairOf(visited[i]) # Pair(FROM, TO)
  <2>1. \A i \in DOMAIN LoopList_Header : PairOf(LoopList_Header[i]) # Pair(FROM, TO)
    BY DEF Found, IsRecordOf, PairOf, Pair
  <2> QED  BY <2>1, VisitedList
<1> HIDE DEF list, visited, new
<1>6. AllDistinct(list)
  <2>1. AllDistinct(visited)  BY VisitedKeepsLoops DEF visited
  <2> QED  BY <1>2, <1>3, <1>4, <1>5, <2>1 DEF AllDistinct
<1>7. \A i \in DOMAIN list : IsLoopRecord(list[i])
  <2>1. \A i \in DOMAIN visited : IsLoopRecord(visited[i])
    BY VisitedKeepsLoops DEF visited
  <2> QED  BY <1>2, <1>3, <1>4, <2>1
<1> QED  BY <1>1, <1>3, <1>6, <1>7 DEF list, visited, new

LEMMA TailKeepsLoops ==
  ASSUME LoopList_Header \in Seq(LOOPInfo), OneRecordPerLoop, LoopList_Header # <<>>
  PROVE  /\ Tail(LoopList_Header) \in Seq(LOOPInfo)
         /\ Len(Tail(LoopList_Header)) = Len(LoopList_Header) - 1
         /\ Len(LoopList_Header) \in Nat \ {0}
         /\ \A i \in DOMAIN Tail(LoopList_Header) :
              /\ i + 1 \in DOMAIN LoopList_Header
              /\ Tail(LoopList_Header)[i] = LoopList_Header[i + 1]
         /\ AllDistinct(Tail(LoopList_Header))
         /\ \A i \in DOMAIN Tail(LoopList_Header) : IsLoopRecord(Tail(LoopList_Header)[i])
<1> DEFINE tail == Tail(LoopList_Header)
<1>1. /\ tail \in Seq(LOOPInfo) /\ Len(tail) = Len(LoopList_Header) - 1
      /\ Len(LoopList_Header) \in Nat \ {0}
      /\ \A i \in 1 .. Len(tail) : tail[i] = LoopList_Header[i + 1]
  OBVIOUS
<1>2. /\ DOMAIN tail = 1 .. Len(tail) /\ Len(tail) \in Nat
      /\ DOMAIN LoopList_Header = 1 .. Len(LoopList_Header)
  BY <1>1
<1>3. \A i \in DOMAIN tail : i + 1 \in DOMAIN LoopList_Header /\ i \in Int
  BY <1>1, <1>2
<1> HIDE DEF tail
<1>4. AllDistinct(tail)
  BY <1>1, <1>2, <1>3 DEF AllDistinct, OneRecordPerLoop
<1> QED  BY <1>1, <1>2, <1>3, <1>4 DEF tail, OneRecordPerLoop

-----------------------------------------------------------------------------
(* The invariant: types and one record per loop hold each other up.        *)

IInv == TypeOK /\ OneRecordPerLoop

LEMMA InitEstablishesIInv == Init => IInv
<1> SUFFICES ASSUME Init PROVE IInv  OBVIOUS
<1>1. <<>> \in Seq(LOOPInfo) /\ DOMAIN <<>> = {} /\ Len(<<>>) = 0  OBVIOUS
<1>2. 0 \in Rows  BY ProfileAssumption DEF ProfileAssumption, Rows
<1> QED  BY <1>1, <1>2 DEF Init, IInv, TypeOK, OneRecordPerLoop, AllDistinct

LEMMA FindKeepsIInv ==
  ASSUME IInv, NEW FROM \in Addr, NEW TO \in Addr, NEW reading \in [PMCs -> UINT64],
         Find_Insert_LoopList(FROM, TO, reading)
  PROVE  IInv'
<1> DEFINE visited == Visited(FROM, TO, reading)
<1>1. /\ visited \in Seq(LOOPInfo) /\ Len(visited) = Len(LoopList_Header)
      /\ AllDistinct(visited)
      /\ \A i \in DOMAIN visited : IsLoopRecord(visited[i])
  BY VisitedList, VisitedKeepsLoops DEF IInv, TypeOK
<1>2. /\ UNCHANGED <<iMLPX, broken>> /\ Profiled(FROM, TO)
      /\ iMLPX \in MlpxValues \cup {1} /\ broken \in BOOLEAN
      /\ Multiplex_Index \in Rows /\ LenofLoopList \in Nat
      /\ LenofLoopList = Len(LoopList_Header)
  BY DEF Find_Insert_LoopList, IInv, TypeOK, OneRecordPerLoop
<1>3. CASE /\ Found(FROM, TO) /\ LoopList_Header' = visited
           /\ \E i \in DOMAIN LoopList_Header :
                /\ IsRecordOf(LoopList_Header[i], FROM, TO)
                /\ Multiplex_Index' = NextGroup(LoopList_Header[i])
           /\ UNCHANGED LenofLoopList
  <2>1. Multiplex_Index' \in Rows
    <3>1. PICK i \in DOMAIN LoopList_Header :
             /\ IsRecordOf(LoopList_Header[i], FROM, TO)
             /\ Multiplex_Index' = NextGroup(LoopList_Header[i])
      BY <1>3
    <3> QED  BY <3>1 DEF Find_Insert_LoopList, Undefined
  <2> QED  BY <1>1, <1>2, <1>3, <2>1 DEF IInv, TypeOK, OneRecordPerLoop
<1>4. CASE /\ IsLoop(FROM, TO) /\ ~Found(FROM, TO)
           /\ LoopList_Header' = Append(visited, NewLoop(FROM, TO))
           /\ LenofLoopList' = LenofLoopList + 1
           /\ UNCHANGED Multiplex_Index
  <2>1. /\ LoopList_Header' \in Seq(LOOPInfo)
        /\ Len(LoopList_Header') = Len(LoopList_Header) + 1
        /\ AllDistinct(LoopList_Header')
        /\ \A i \in DOMAIN LoopList_Header' : IsLoopRecord(LoopList_Header'[i])
    BY <1>2, <1>4, AppendKeepsLoops DEF IInv, TypeOK
  <2> QED  BY <1>2, <1>4, <2>1 DEF IInv, TypeOK, OneRecordPerLoop
<1>5. CASE /\ ~Found(FROM, TO) /\ LoopList_Header' = visited
           /\ UNCHANGED <<LenofLoopList, Multiplex_Index>>
  BY <1>1, <1>2, <1>5 DEF IInv, TypeOK, OneRecordPerLoop
<1> QED  BY <1>3, <1>4, <1>5 DEF Find_Insert_LoopList

LEMMA RemoveKeepsIInv ==
  ASSUME IInv, Remove_LoopList
  PROVE  IInv'
<1>1. /\ LoopList_Header' = Tail(LoopList_Header) /\ LoopList_Header # <<>>
      /\ LenofLoopList' = LenofLoopList - 1
      /\ UNCHANGED <<Multiplex_Index, iMLPX, broken>>
  BY DEF Remove_LoopList
<1>2. LoopList_Header \in Seq(LOOPInfo) /\ LenofLoopList = Len(LoopList_Header)
  BY DEF IInv, TypeOK, OneRecordPerLoop
<1>3. LenofLoopList' \in Nat /\ LenofLoopList' = Len(LoopList_Header')
  BY <1>1, <1>2, TailKeepsLoops DEF IInv
<1> QED  BY <1>1, <1>2, <1>3, TailKeepsLoops DEF IInv, TypeOK, OneRecordPerLoop

LEMMA NextKeepsIInv == IInv /\ [Next]_vars => IInv'
<1> SUFFICES ASSUME IInv, [Next]_vars PROVE IInv'  OBVIOUS
<1>1. CASE \E FROM, TO \in Addr, reading \in [PMCs -> UINT64] :
             Find_Insert_LoopList(FROM, TO, reading)
  BY <1>1, FindKeepsIInv
<1>2. CASE \E FROM, TO \in Addr : Find_Insert_Undefined(FROM, TO)
  BY <1>2 DEF Find_Insert_Undefined, Break, IInv, TypeOK, OneRecordPerLoop
<1>3. CASE Remove_LoopList
  BY <1>3, RemoveKeepsIInv
<1>4. CASE Remove_Undefined
  BY <1>4 DEF Remove_Undefined, Break, IInv, TypeOK, OneRecordPerLoop
<1>5. CASE \E n \in MlpxValues : SetMlpx(n)
  BY <1>5 DEF SetMlpx, IInv, TypeOK, OneRecordPerLoop
<1>6. CASE StartCapture
  <2>1. 0 \in Rows  BY ProfileAssumption DEF ProfileAssumption, Rows
  <2> QED  BY <1>6, <2>1 DEF StartCapture, IInv, TypeOK, OneRecordPerLoop
<1>7. CASE UNCHANGED vars
  BY <1>7 DEF vars, IInv, TypeOK, OneRecordPerLoop
<1> QED  BY <1>1, <1>2, <1>3, <1>4, <1>5, <1>6, <1>7 DEF Next

(* The records of the list are always well typed, whatever the client does. *)
THEOREM TypeCorrect == Spec => []TypeOK
<1>1. IInv => TypeOK  BY DEF IInv
<1> QED  BY <1>1, InitEstablishesIInv, NextKeepsIInv, PTL DEF Spec

(* However samples, reads and restarts interleave, no loop has two records, *)
(* every record is a loop of the image and LenofLoopList counts them.       *)
THEOREM LoopsUnique == Spec => []OneRecordPerLoop
<1>1. IInv => OneRecordPerLoop  BY DEF IInv
<1> QED  BY <1>1, InitEstablishesIInv, NextKeepsIInv, PTL DEF Spec

-----------------------------------------------------------------------------
(* A careful client: it reads only when a loop is there to read, and sends *)
(* an iMLPX that StaticMask has rows for while the list is empty.          *)

Measurable(list) ==
  \A i \in DOMAIN list : \A m \in 0 .. iMLPX - 1, j \in PMCs :
     list[i].PMC_Start[m][j] # Junk /\ list[i].PMC_End[m][j] # Junk

CInv ==
  /\ IInv
  /\ iMLPX \in 1 .. Multiplexing
  /\ ~broken
  /\ Measurable(LoopList_Header)
  /\ LogsMeasuredRows

LEMMA NothingUndefined ==
  ASSUME CInv, NEW FROM \in Addr, NEW TO \in Addr
  PROVE  ~Undefined(FROM, TO)
<1>1. iMLPX \in Nat \ {0} /\ iMLPX <= Multiplexing /\ Multiplexing \in Nat
  BY ProfileAssumption DEF CInv, ProfileAssumption
<1>2. ASSUME NEW i \in DOMAIN LoopList_Header
      PROVE  NextGroup(LoopList_Header[i]) \in Rows
  <2>1. LoopList_Header[i] \in LOOPInfo  BY DEF CInv, IInv, TypeOK
  <2>2. (LoopList_Header[i].Counter + 1) % CounterWidth \in Int
    <3>1. LoopList_Header[i].Counter + 1 \in Int /\ CounterWidth \in Nat /\ CounterWidth # 0
      BY <2>1, ProfileAssumption DEF ProfileAssumption, LOOPInfo, UINT32
    <3> QED  BY <3>1, ModType
  <2>3. NextGroup(LoopList_Header[i]) \in 0 .. iMLPX - 1
    <3>1. ~(iMLPX < 0)  BY <1>1
    <3>2. NextGroup(LoopList_Header[i]) = ((LoopList_Header[i].Counter + 1) % CounterWidth) % iMLPX
      BY <3>1 DEF NextGroup
    <3> QED  BY <1>1, <2>2, <3>2, ModType
  <2> QED  BY <1>1, <2>3 DEF Rows
<1> QED  BY <1>1, <1>2 DEF Undefined

LEMMA HitStaysMeasured ==
  ASSUME Multiplex_Index \in Rows, NEW reading \in [PMCs -> UINT64], NEW l \in LOOPInfo,
         NEW FROM \in Addr, NEW TO \in Addr, NEW m \in Rows, NEW j \in PMCs,
         l.PMC_Start[m][j] # Junk, l.PMC_End[m][j] # Junk
  PROVE  /\ Visit(l, FROM, TO, reading).PMC_Start[m][j] # Junk
         /\ Visit(l, FROM, TO, reading).PMC_End[m][j] # Junk
<1> DEFINE h == IF IsRecordOf(l, FROM, TO) THEN Hit(l, reading) ELSE l
<1>1. Junk \notin UINT64 /\ reading[j] \in UINT64
  BY ProfileAssumption DEF ProfileAssumption, UINT64
<1>2. /\ l.PMC_Start \in [Rows -> [PMCs -> Total]] /\ l.PMC_Start[m][j] \in UINT64
      /\ l.PMC_End \in [Rows -> [PMCs -> Total]] /\ l.PMC_End[m][j] \in UINT64
  BY DEF LOOPInfo, Total
<1>3. /\ AddReading(l.PMC_Start, reading)[m][j] # Junk
      /\ AddReading(l.PMC_End, reading)[m][j] # Junk
  <2>1. \A a \in UINT64 : Plus(a, reading[j]) # Junk  BY <1>1, PlusMinusWrap
  <2>2. ASSUME NEW totals \in [Rows -> [PMCs -> Total]], totals[m][j] \in UINT64
        PROVE  AddReading(totals, reading)[m][j] # Junk
    <3>1. AddReading(totals, reading)[m][j] =
            IF m = Multiplex_Index THEN Plus(totals[m][j], reading[j]) ELSE totals[m][j]
      BY AddReadingRows
    <3> QED  BY <1>1, <2>1, <2>2, <3>1
  <2> QED  BY <1>2, <2>2
<1>4. h \in LOOPInfo /\ h.PMC_Start[m][j] # Junk /\ h.PMC_End[m][j] # Junk
  BY <1>3, HitRecord
<1>5. Visit(l, FROM, TO, reading) = [h EXCEPT !.bActive = Contains(l, TO)]  BY DEF Visit
<1> HIDE DEF h
<1> QED  BY <1>4, <1>5 DEF LOOPInfo

LEMMA FindKeepsCInv ==
  ASSUME CInv, NEW FROM \in Addr, NEW TO \in Addr, NEW reading \in [PMCs -> UINT64],
         Find_Insert_LoopList(FROM, TO, reading)
  PROVE  CInv'
<1> DEFINE visited == Visited(FROM, TO, reading)
<1>1. IInv'  BY FindKeepsIInv DEF CInv
<1>2. UNCHANGED <<iMLPX, broken>> /\ logLine' = NoReport
  BY DEF Find_Insert_LoopList
<1>3. \A m \in 0 .. iMLPX - 1 : m \in Rows
  BY ProfileAssumption DEF CInv, Rows, ProfileAssumption
<1>4. Measurable(visited)
  <2>1. /\ DOMAIN visited = DOMAIN LoopList_Header
        /\ \A i \in DOMAIN LoopList_Header :
             /\ LoopList_Header[i] \in LOOPInfo
             /\ visited[i] = Visit(LoopList_Header[i], FROM, TO, reading)
    BY VisitedList DEF CInv, IInv, TypeOK
  <2> HIDE DEF visited
  <2> SUFFICES ASSUME NEW i \in DOMAIN visited, NEW m \in 0 .. iMLPX - 1, NEW j \in PMCs
               PROVE  visited[i].PMC_Start[m][j] # Junk /\ visited[i].PMC_End[m][j] # Junk
    BY DEF Measurable
  <2>2. /\ LoopList_Header[i].PMC_Start[m][j] # Junk
        /\ LoopList_Header[i].PMC_End[m][j] # Junk
    BY <2>1 DEF CInv, Measurable
  <2> QED  BY <1>3, <2>1, <2>2, HitStaysMeasured DEF CInv, IInv, TypeOK
<1>5. Measurable(LoopList_Header')
  <2>1. CASE LoopList_Header' = visited  BY <1>4, <2>1
  <2>2. CASE LoopList_Header' = Append(visited, NewLoop(FROM, TO))
    <3>1. visited \in Seq(LOOPInfo)  BY VisitedList DEF CInv, IInv, TypeOK
    <3>2. \A m \in 0 .. iMLPX - 1, j \in PMCs :
             /\ NewLoop(FROM, TO).PMC_Start[m][j] # Junk
             /\ NewLoop(FROM, TO).PMC_End[m][j] # Junk
      BY <1>3, ProfileAssumption DEF NewLoop, CInv, ProfileAssumption
    <3>3. \A i \in DOMAIN LoopList_Header' :
             \/ i \in DOMAIN visited /\ LoopList_Header'[i] = visited[i]
             \/ LoopList_Header'[i] = NewLoop(FROM, TO)
      <4> HIDE DEF visited
      <4> QED  BY <2>2, <3>1
    <3> QED  BY <1>4, <3>2, <3>3 DEF Measurable
  <2> QED  BY <2>1, <2>2 DEF Find_Insert_LoopList
<1>6. Measurable(LoopList_Header)'  BY <1>2, <1>5 DEF Measurable
<1> QED  BY <1>1, <1>2, <1>6 DEF CInv, LogsMeasuredRows

LEMMA RemoveKeepsCInv ==
  ASSUME CInv, Remove_LoopList
  PROVE  CInv'
<1> DEFINE l == Head(LoopList_Header)
<1>1. IInv'  BY RemoveKeepsIInv DEF CInv
<1>2. /\ LoopList_Header' = Tail(LoopList_Header) /\ LoopList_Header # <<>>
      /\ logLine' = IF IsLogged(l) THEN LogLine(l) ELSE NoReport
      /\ UNCHANGED <<iMLPX, broken>>
  BY DEF Remove_LoopList
<1>3. Measurable(LoopList_Header)'
  <2>1. \A i \in DOMAIN LoopList_Header' : /\ i + 1 \in DOMAIN LoopList_Header
                                           /\ LoopList_Header'[i] = LoopList_Header[i + 1]
    BY <1>2, TailKeepsLoops DEF CInv, IInv, TypeOK
  <2> QED  BY <1>2, <2>1 DEF Measurable, CInv
<1>4. LogsMeasuredRows'
  <2>1. l \in LOOPInfo /\ l = LoopList_Header[1] /\ 1 \in DOMAIN LoopList_Header
    BY <1>2 DEF CInv, IInv, TypeOK
  <2>2. ASSUME NEW m \in 0 .. iMLPX - 1, NEW j \in PMCs
        PROVE  Measured(l, m)[j] # Junk
    <3>1. m \in Rows /\ iMLPX \in Nat
      BY ProfileAssumption DEF CInv, Rows, ProfileAssumption
    <3>2. l.PMC_Start[m][j] \in UINT64 /\ l.PMC_End[m][j] \in UINT64
      BY <2>1, <3>1 DEF CInv, Measurable, LOOPInfo, Total
    <3>3. Minus(l.PMC_End[m][j], l.PMC_Start[m][j]) \in UINT64
      BY <3>2, PlusMinusWrap
    <3>4. \A a \in UINT64 : Times(iMLPX, a) # Junk
      <4>1. Width \in Nat /\ Width # 0 /\ Junk \notin Int
        BY ProfileAssumption DEF ProfileAssumption
      <4> TAKE a \in UINT64
      <4>2. iMLPX * a \in Int /\ a # Junk  BY <3>1, <4>1 DEF UINT64
      <4>3. (iMLPX * a) % Width \in Int  BY <4>1, <4>2, ModType
      <4> QED  BY <4>1, <4>2, <4>3 DEF Times
    <3> QED  BY <3>3, <3>4 DEF Measured
  <2> QED  BY <1>2, <2>2 DEF LogsMeasuredRows, LogLine
<1> QED  BY <1>1, <1>2, <1>3, <1>4 DEF CInv

LEMMA CarefulKeepsCInv ==
  ASSUME CarefulClient = TRUE, MlpxValues \subseteq 1 .. Multiplexing
  PROVE  CInv /\ [Next]_vars => CInv'
<1> SUFFICES ASSUME CInv, [Next]_vars PROVE CInv'  OBVIOUS
<1>1. IInv'  BY NextKeepsIInv DEF CInv
<1>2. CASE \E FROM, TO \in Addr, reading \in [PMCs -> UINT64] :
             Find_Insert_LoopList(FROM, TO, reading)
  BY <1>2, FindKeepsCInv
<1>3. CASE \E FROM, TO \in Addr : Find_Insert_Undefined(FROM, TO)
  BY <1>3, NothingUndefined DEF Find_Insert_Undefined
<1>4. CASE Remove_LoopList
  BY <1>4, RemoveKeepsCInv
<1>5. CASE Remove_Undefined
  <2>1. ~LogsPastRows  BY ProfileAssumption DEF LogsPastRows, CInv, ProfileAssumption
  <2> QED  BY <1>5, <2>1 DEF Remove_Undefined
<1>6. CASE \E n \in MlpxValues : SetMlpx(n)
  <2>1. PICK n \in MlpxValues : SetMlpx(n)  BY <1>6
  <2>2. LoopList_Header' = <<>> /\ iMLPX' = n /\ logLine' = NoReport /\ broken' = broken
    BY <2>1 DEF SetMlpx
  <2>3. n \in 1 .. Multiplexing  OBVIOUS
  <2>4. DOMAIN LoopList_Header' = {}  BY <2>2
  <2>5. Measurable(LoopList_Header)'  BY <2>4 DEF Measurable
  <2> QED  BY <1>1, <2>2, <2>3, <2>5 DEF CInv, LogsMeasuredRows
<1>7. CASE StartCapture
  BY <1>1, <1>7 DEF StartCapture, CInv, Measurable, LogsMeasuredRows
<1>8. CASE UNCHANGED vars
  BY <1>1, <1>8 DEF vars, CInv, Measurable, LogsMeasuredRows
<1> QED  BY <1>2, <1>3, <1>4, <1>5, <1>6, <1>7, <1>8 DEF Next

LEMMA InitEstablishesCInv == Init => CInv
<1> SUFFICES ASSUME Init PROVE CInv  OBVIOUS
<1>1. 1 \in 1 .. Multiplexing  BY ProfileAssumption DEF ProfileAssumption
<1> QED  BY <1>1, InitEstablishesIInv DEF Init, CInv, Measurable, LogsMeasuredRows

(* With a careful client nothing undefined is ever executed: no division by *)
(* a zero iMLPX, no row outside the tables, no read of the empty list.      *)
THEOREM CarefulNeverBroken ==
  ASSUME CarefulClient = TRUE, MlpxValues \subseteq 1 .. Multiplexing
  PROVE  Spec => []NeverBroken
<1>1. CInv => NeverBroken  BY DEF CInv, NeverBroken
<1>2. CInv /\ [Next]_vars => CInv'  BY CarefulKeepsCInv
<1> QED  BY <1>1, <1>2, InitEstablishesCInv, PTL DEF Spec

(* With a careful client every total that reaches the log was measured.    *)
THEOREM CarefulLogsMeasured ==
  ASSUME CarefulClient = TRUE, MlpxValues \subseteq 1 .. Multiplexing
  PROVE  Spec => []LogsMeasuredRows
<1>1. CInv => LogsMeasuredRows  BY DEF CInv
<1>2. CInv /\ [Next]_vars => CInv'  BY CarefulKeepsCInv
<1> QED  BY <1>1, <1>2, InitEstablishesCInv, PTL DEF Spec

-----------------------------------------------------------------------------
(* Where the program is                                                    *)

LEMMA FindKeepsActive ==
  ASSUME TypeOK, ActiveAtOneTarget, NEW FROM \in Addr, NEW TO \in Addr,
         NEW reading \in [PMCs -> UINT64], Find_Insert_LoopList(FROM, TO, reading)
  PROVE  ActiveAtOneTarget'
<1> DEFINE after == Visited(FROM, TO, reading)
<1>1. /\ after \in Seq(LOOPInfo)
      /\ \A i \in DOMAIN after : after[i].bActive <=> Contains(PairOf(after[i]), TO)
  BY VisitedList, VisitRecord DEF TypeOK
<1>2. CASE LoopList_Header' = after
  BY <1>1, <1>2 DEF ActiveAtOneTarget
<1>3. CASE LoopList_Header' = Append(after, NewLoop(FROM, TO)) /\ IsLoop(FROM, TO)
  <2>1. NewLoop(FROM, TO).bActive /\ Contains(PairOf(NewLoop(FROM, TO)), TO)
    <3>1. FROM \in Nat /\ TO \in Nat /\ FROM > TO
      BY <1>3, ProfileAssumption DEF IsLoop, ProfileAssumption
    <3>2. PairOf(NewLoop(FROM, TO)) = [FROM |-> FROM, TO |-> TO]
      BY NewLoopRecord DEF Pair
    <3>3. Contains([FROM |-> FROM, TO |-> TO], TO)  BY <3>1 DEF Contains
    <3> QED  BY <3>2, <3>3, NewLoopRecord
  <2>2. \A i \in DOMAIN LoopList_Header' :
           LoopList_Header'[i] = IF i \in DOMAIN after THEN after[i] ELSE NewLoop(FROM, TO)
    BY <1>1, <1>3, NewLoopRecord
  <2> QED  BY <1>1, <2>1, <2>2 DEF ActiveAtOneTarget
<1> QED  BY <1>2, <1>3 DEF Find_Insert_LoopList

LEMMA NextKeepsActive ==
  IInv /\ ActiveAtOneTarget /\ [Next]_vars => ActiveAtOneTarget'
<1> SUFFICES ASSUME IInv, ActiveAtOneTarget, [Next]_vars PROVE ActiveAtOneTarget'
  OBVIOUS
<1>1. CASE \E FROM, TO \in Addr, reading \in [PMCs -> UINT64] :
             Find_Insert_LoopList(FROM, TO, reading)
  BY <1>1, FindKeepsActive DEF IInv
<1>2. CASE Remove_LoopList
  <2>1. LoopList_Header \in Seq(LOOPInfo) /\ LoopList_Header # <<>>
        /\ LoopList_Header' = Tail(LoopList_Header)
    BY <1>2 DEF Remove_LoopList, IInv, TypeOK
  <2>2. \A i \in DOMAIN LoopList_Header' :
           i + 1 \in DOMAIN LoopList_Header /\ LoopList_Header'[i] = LoopList_Header[i + 1]
    BY <2>1
  <2> QED  BY <2>2 DEF ActiveAtOneTarget
<1>3. CASE UNCHANGED LoopList_Header
  BY <1>3 DEF ActiveAtOneTarget
<1>4. \/ \E FROM, TO \in Addr, reading \in [PMCs -> UINT64] :
           Find_Insert_LoopList(FROM, TO, reading)
      \/ Remove_LoopList
      \/ UNCHANGED LoopList_Header
  BY DEF Next, Find_Insert_Undefined, Remove_Undefined, Break, SetMlpx, StartCapture, vars
<1> QED  BY <1>1, <1>2, <1>3, <1>4

(* Whatever is sampled, read and sent, the active flags of all records     *)
(* name one place in the program: the last target that was looked at.      *)
THEOREM ActiveFlagsAgree ==
  ASSUME Addr # {}
  PROVE  Spec => []ActiveAtOneTarget
<1>1. Init => ActiveAtOneTarget  BY DEF Init, ActiveAtOneTarget
<1> QED  BY <1>1, InitEstablishesIInv, NextKeepsIInv, NextKeepsActive, PTL DEF Spec
=============================================================================
