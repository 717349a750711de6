------------------------------ MODULE LoopList ------------------------------
(***************************************************************************)
(* The loop list of list/list.c as its callers use it: get_LBR feeds it a  *)
(* sample on every PMI (Find_Insert_LoopList), the Read IRP and the unload *)
(* routine take the oldest loop off and write its line to the log          *)
(* (Remove_LoopList).  Each call is one step here: no other call runs      *)
(* between two of its reads and writes of the links.                       *)
(*                                                                         *)
(* A definition under "Mutant" is the one after it with a plausible slip;  *)
(* nothing uses it but the experiments that break a property on purpose.   *)
(***************************************************************************)
EXTENDS LoopTypes, Sequences

CONSTANTS
  MlpxValues,    \* the values IOCTL_SEND_MLPX may carry
  CarefulClient  \* TRUE: the client reads only when there is a loop to read
                 \* and sets iMLPX only while the list is empty

ASSUME ListAssumption ==
  /\ \A n \in MlpxValues : n \in Int /\ -CounterWidth < n
  /\ CarefulClient \in BOOLEAN

VARIABLES
  LoopList_Header,  \* the records, oldest first
  LenofLoopList,    \* the length the code keeps on the side
  Multiplex_Index,  \* the event group being counted
  iMLPX,            \* how many event groups take turns
  logLine,          \* the line the last step wrote to the log
  broken            \* an operation whose effect C does not define was executed

vars == <<LoopList_Header, LenofLoopList, Multiplex_Index, iMLPX, logLine, broken>>

LOOPInfo ==
  [FROM : Addr, TO : Addr, Counter : UINT32, bActive : BOOLEAN,
   PMC_Start : [Rows -> [PMCs -> Total]],
   PMC_End   : [Rows -> [PMCs -> Total]]]

Init ==
  /\ LoopList_Header = <<>>
  /\ LenofLoopList = 0
  /\ Multiplex_Index = 0
  /\ iMLPX = 1
  /\ logLine = NoReport
  /\ broken = FALSE

(* An undefined operation: what the program does from here on is unknown.  *)
Break ==
  /\ broken' = TRUE
  /\ logLine' = NoReport
  /\ UNCHANGED <<LoopList_Header, LenofLoopList, Multiplex_Index, iMLPX>>

-----------------------------------------------------------------------------
(* Find_Insert_LoopList                                                    *)

(* Mutant: the search stops at the loops being executed. *)
IsActiveRecordOf(l, FROM, TO) == IsLoop(FROM, TO) /\ l.TO = TO /\ l.FROM = FROM /\ l.bActive

IsRecordOf(l, FROM, TO) == IsLoop(FROM, TO) /\ l.TO = TO /\ l.FROM = FROM

Found(FROM, TO) ==
  \E i \in DOMAIN LoopList_Header : IsRecordOf(LoopList_Header[i], FROM, TO)

AddReading(totals, reading) ==
  [totals EXCEPT ![Multiplex_Index] = [i \in PMCs |-> Plus(@[i], reading[i])]]

(* Mutant: what was counted outside the loop is charged to it. *)
HitNoReentry(l, reading) ==
  [l EXCEPT !.PMC_End = AddReading(@, reading), !.Counter = (@ + 1) % CounterWidth]

(* The matched record: coming back to a loop that was left moves its start *)
(* forward by what was counted outside; every sample moves its end.        *)
Hit(l, reading) ==
  [l EXCEPT !.PMC_Start = IF l.bActive THEN @ ELSE AddReading(@, reading),
            !.PMC_End   = AddReading(@, reading),
            !.Counter   = (@ + 1) % CounterWidth]

(* Mutant: a target inside a loop that was left does not make it active.   *)
VisitNoReturn(l, FROM, TO, reading) ==
  [IF IsRecordOf(l, FROM, TO) THEN [Hit(l, reading) EXCEPT !.bActive = TRUE] ELSE l
     EXCEPT !.bActive = @ /\ Contains(l, TO)]

(* What the search does to every record it passes. *)
Visit(l, FROM, TO, reading) ==
  [IF IsRecordOf(l, FROM, TO) THEN Hit(l, reading) ELSE l
     EXCEPT !.bActive = Contains(l, TO)]

Visited(FROM, TO, reading) ==
  [i \in DOMAIN LoopList_Header |-> Visit(LoopList_Header[i], FROM, TO, reading)]

(* Mutant: the last of the iMLPX rows is not set to zero. *)
NewLoopOneRowShort(FROM, TO) ==
  LET zeroed == [m \in Rows |-> [i \in PMCs |-> IF m < iMLPX - 1 THEN 0 ELSE Junk]]
  IN  [FROM |-> FROM, TO |-> TO, Counter |-> 1, bActive |-> TRUE,
       PMC_Start |-> zeroed, PMC_End |-> zeroed]

(* Only the rows iMLPX asks for are set to zero; the pool leaves the rest. *)
NewLoop(FROM, TO) ==
  LET zeroed == [m \in Rows |-> [i \in PMCs |-> IF m < iMLPX THEN 0 ELSE Junk]]
  IN  [FROM |-> FROM, TO |-> TO, Counter |-> 1, bActive |-> TRUE,
       PMC_Start |-> zeroed, PMC_End |-> zeroed]

(* Mutant: one group too many. *)
NextGroupOneMore(l) == ((l.Counter + 1) % CounterWidth) % (iMLPX + 1)

(* The group to count next, from the sample count of the loop just met; the *)
(* count is unsigned, so a negative iMLPX divides as the large number it is. *)
NextGroup(l) ==
  ((l.Counter + 1) % CounterWidth) % (IF iMLPX < 0 THEN CounterWidth + iMLPX ELSE iMLPX)

(* Division by iMLPX = 0, or a row outside StaticMask and the PMC arrays. *)
Undefined(FROM, TO) ==
  \/ \E i \in DOMAIN LoopList_Header :
       /\ IsRecordOf(LoopList_Header[i], FROM, TO)
       /\ iMLPX # 0 => NextGroup(LoopList_Header[i]) \notin Rows
  \/ IsLoop(FROM, TO) /\ ~Found(FROM, TO) /\ iMLPX > Multiplexing

(* One sample that passes the filters of MyCode and get_LBR. *)
Find_Insert_LoopList(FROM, TO, reading) ==
  /\ ~broken
  /\ Profiled(FROM, TO)
  /\ ~Undefined(FROM, TO)
  /\ logLine' = NoReport
  /\ \/ /\ Found(FROM, TO)
        /\ LoopList_Header' = Visited(FROM, TO, reading)
        /\ \E i \in DOMAIN LoopList_Header :
             /\ IsRecordOf(LoopList_Header[i], FROM, TO)
             /\ Multiplex_Index' = NextGroup(LoopList_Header[i])
        /\ UNCHANGED LenofLoopList
     \/ /\ IsLoop(FROM, TO) /\ ~Found(FROM, TO)
        /\ LoopList_Header' = Append(Visited(FROM, TO, reading), NewLoop(FROM, TO))
        /\ LenofLoopList' = LenofLoopList + 1
        /\ UNCHANGED Multiplex_Index
     \/ /\ ~Found(FROM, TO)      \* not a loop, or ExAllocatePool failed
        /\ LoopList_Header' = Visited(FROM, TO, reading)
        /\ UNCHANGED <<LenofLoopList, Multiplex_Index>>
  /\ UNCHANGED <<iMLPX, broken>>

Find_Insert_Undefined(FROM, TO) ==
  /\ ~broken
  /\ Profiled(FROM, TO)
  /\ Undefined(FROM, TO)
  /\ Break

-----------------------------------------------------------------------------
(* Remove_LoopList                                                         *)

IsLogged(l) == Reported(Pair(l.FROM, l.TO), l.Counter)

(* Mutant: the totals are not extrapolated. *)
MeasuredUnscaled(l, m) == [i \in PMCs |-> Minus(l.PMC_End[m][i], l.PMC_Start[m][i])]

(* The comma expression of the source: only its right operand, End - Start, *)
(* is scaled by iMLPX.                                                       *)
Measured(l, m) ==
  [i \in PMCs |-> Times(iMLPX, Minus(l.PMC_End[m][i], l.PMC_Start[m][i]))]

LogLine(l) ==
  [FROM |-> l.FROM, TO |-> l.TO, count |-> l.Counter,
   cost |-> [m \in 0 .. iMLPX - 1 |-> Measured(l, m)]]

(* The log reads rows that a record does not have. *)
LogsPastRows == IsLogged(Head(LoopList_Header)) /\ iMLPX > Multiplexing

Remove_LoopList ==
  LET l == Head(LoopList_Header) IN
  /\ ~broken
  /\ LoopList_Header # <<>>
  /\ ~LogsPastRows
  /\ logLine' = IF IsLogged(l) THEN LogLine(l) ELSE NoReport
  /\ LoopList_Header' = Tail(LoopList_Header)
  /\ LenofLoopList' = LenofLoopList - 1
  /\ UNCHANGED <<Multiplex_Index, iMLPX, broken>>

(* On an empty list the header itself is taken for a record and freed; on  *)
(* too large an iMLPX the line is made of memory behind the record.        *)
Remove_Undefined ==
  /\ ~broken
  /\ IF LoopList_Header = <<>> THEN ~CarefulClient ELSE LogsPastRows
  /\ Break

-----------------------------------------------------------------------------
(* The other writers of the state the list works with                      *)

(* IOCTL_SEND_MLPX *)
SetMlpx(n) ==
  /\ ~broken
  /\ CarefulClient => LoopList_Header = <<>>
  /\ iMLPX' = n
  /\ logLine' = NoReport
  /\ UNCHANGED <<LoopList_Header, LenofLoopList, Multiplex_Index, broken>>

(* Mutant: the multiplexing restarts behind the last group. *)
StartCaptureLate ==
  /\ ~broken
  /\ Multiplex_Index' = iMLPX
  /\ logLine' = NoReport
  /\ UNCHANGED <<LoopList_Header, LenofLoopList, iMLPX, broken>>

(* Create restarts the multiplexing and keeps the loops found so far. *)
StartCapture ==
  /\ ~broken
  /\ Multiplex_Index' = 0
  /\ logLine' = NoReport
  /\ UNCHANGED <<LoopList_Header, LenofLoopList, iMLPX, broken>>

Next ==
  \/ \E FROM, TO \in Addr, reading \in [PMCs -> UINT64] :
       Find_Insert_LoopList(FROM, TO, reading)
  \/ \E FROM, TO \in Addr : Find_Insert_Undefined(FROM, TO)
  \/ Remove_LoopList
  \/ Remove_Undefined
  \/ \E n \in MlpxValues : SetMlpx(n)
  \/ StartCapture

Spec == Init /\ [][Next]_vars

-----------------------------------------------------------------------------
(* Properties                                                              *)

(* Every variable has the type its declaration in the source gives it.     *)
TypeOK ==
  /\ LoopList_Header \in Seq(LOOPInfo)
  /\ LenofLoopList \in Nat
  /\ Multiplex_Index \in Rows
  /\ iMLPX \in MlpxValues \cup {1}
  /\ broken \in BOOLEAN

PairOf(l) == Pair(l.FROM, l.TO)
IsLoopRecord(l) == Profiled(l.FROM, l.TO) /\ IsLoop(l.FROM, l.TO)
AllDistinct(list) ==
  \A i, j \in DOMAIN list : PairOf(list[i]) = PairOf(list[j]) => i = j

(* A loop has one record, whose branch is a loop of the profiled image, and *)
(* LenofLoopList counts the records.  The search of Find_Insert_LoopList    *)
(* goes on after a match, and a second record of the loop would be charged  *)
(* to the group the first one has just switched to.                         *)
OneRecordPerLoop ==
  /\ LenofLoopList = Len(LoopList_Header)
  /\ AllDistinct(LoopList_Header)
  /\ \A i \in DOMAIN LoopList_Header : IsLoopRecord(LoopList_Header[i])

(* The bActive flags of all records agree on where the program is: some    *)
(* address lies in exactly the loops that are flagged.                     *)
ActiveAtOneTarget ==
  \E TO \in Addr : \A i \in DOMAIN LoopList_Header :
     LoopList_Header[i].bActive <=> Contains(PairOf(LoopList_Header[i]), TO)

(* A client that sends iMLPX in 1 .. Multiplexing before the first loop,   *)
(* and reads no more lines than there are loops, never makes the list code *)
(* divide by zero, leave its arrays or free its own header.                *)
NeverBroken == ~broken

(* A line of the log holds measured totals only: every row it prints was   *)
(* set to 0 when its loop was first met (list.c, "Record 0 PEBs value for  *)
(* the first item of loop").                                               *)
LogsMeasuredRows ==
  logLine = NoReport \/ \A m \in DOMAIN logLine.cost, i \in PMCs : logLine.cost[m][i] # Junk

(* A read of the empty list is harmless: IO.c, Read, "if not available, no *)
(* data is written".                                                       *)
EmptyReadHarmless ==
  [][LoopList_Header = <<>> /\ Remove_Undefined => UNCHANGED broken]_vars

(* The profile a list of records stands for. *)
Entry(l) ==
  [count |-> l.Counter,
   cost  |-> [m \in Rows |-> [i \in PMCs |-> Minus(l.PMC_End[m][i], l.PMC_Start[m][i])]]]

LoopsOf(list) == {PairOf(list[i]) : i \in DOMAIN list}
RecordOf(list, p) == list[CHOOSE i \in DOMAIN list : PairOf(list[i]) = p]
ProfileOf(list) == [p \in LoopsOf(list) |-> Entry(RecordOf(list, p))]
ActiveOf(list) == {p \in LoopsOf(list) : RecordOf(list, p).bActive}

Profile ==
  INSTANCE LoopProfile WITH
    profile <- ProfileOf(LoopList_Header),
    inside  <- ActiveOf(LoopList_Header),
    group   <- Multiplex_Index,
    report  <- logLine

(* The list implements the profile: Counter counts the samples of a loop,  *)
(* PMC_End - PMC_Start is what was counted while execution stayed inside   *)
(* it, and a line reports exactly that, once, when the record is removed.  *)
ImplementsProfile == Profile!Spec
=============================================================================
