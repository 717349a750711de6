--------------------------- MODULE LogFileProofs ---------------------------
(***************************************************************************)
(* Theorems about LogFile, for every set of names and loops, every number  *)
(* of groups and counters, and any number of reads, requests and failures. *)
(***************************************************************************)
EXTENDS LogFile, TLAPS, SequenceTheorems

(* A piece of a line, not the columns. *)
LinePiece ==
  [kind : {"loop"}, loop : Loops]
    \cup [kind : {"cell"}, loop : Loops, group : Group, counter : OutSet .. MAX_PMCx - 1,
          times : MlpxValues]
    \cup {EndOfLine}

(* How many groups a line may have. *)
Widths == {n \in Nat : n = 0 \/ n \in MlpxValues}

WriterLocals ==
  [pc : {"name", "open", "create", "buffer", "write", "next"}, loop : Loops,
   piece : LinePiece,
   file : [process : Processes \cup {NoProcess}, name : LogNames],
   EndOfFile : Nat, buffer : Seq(Piece)]

Writing == writer.pc \in {"buffer", "write"}

(* Behind a list that has its columns come pieces that are none; an empty *)
(* list gets them first.                                                   *)
Behind(list, buffer) ==
  /\ buffer # <<>>
  /\ \A i \in DOMAIN buffer : buffer[i].kind = "columns" <=> list = <<>> /\ i = 1

(* Unless its size or position could not be had, the file is as long as it *)
(* was when it was opened, and the buffer is what may follow it.           *)
Placed ==
  /\ Writing => writer.file \in Paths
  /\ Writing /\ writer.file \notin adrift => writer.EndOfFile = Len(files[writer.file])
  /\ writer.pc = "write" /\ writer.file \notin adrift =>
       Behind(files[writer.file], writer.buffer)

(* One handle is open while a piece is written, and one for each buffer    *)
(* there was no memory for.                                                *)
Handles == hFiles = IF Writing THEN unbuffered + 1 ELSE unbuffered

LInv ==
  /\ TypeOK
  /\ writer \in WriterLocals \cup {Idle}
  /\ ColumnsOnce /\ Placed /\ Handles
  /\ adrift \subseteq spoiled

LEMMA LocalsFacts ==
  ASSUME writer \in WriterLocals \cup {Idle}, ~Quiet
  PROVE  writer \in WriterLocals
BY DEF Quiet, Idle

LEMMA PathType ==
  ASSUME TypeOK
  PROVE  Path \in [process : Processes \cup {NoProcess}, name : LogNames]
BY DEF TypeOK, Path

LEMMA LinePieces ==
  /\ \A l \in Loops : LoopPiece(l) \in LinePiece
  /\ EndOfLine \in LinePiece
  /\ LinePiece \subseteq Piece
  /\ \A x \in LinePiece : x.kind # "columns"
BY DEF LinePiece, Piece, LoopPiece, EndOfLine

LEMMA GroupsFacts ==
  ASSUME iMLPX \in MlpxValues
  PROVE  /\ Groups \in Widths /\ (Groups # 0 => Groups = iMLPX)
         /\ \A i \in Nat : IsGroup(i) <=> i < Groups
BY LogAssumption DEF LogAssumption, Groups, Widths, IsGroup

LEMMA ColumnsType ==
  ASSUME NEW n \in Widths
  PROVE  Columns(n) \in Piece /\ Columns(n).kind = "columns"
BY DEF Widths, Columns, Piece

LEMMA AfterType ==
  ASSUME TypeOK, NEW piece \in LinePiece, writer \in WriterLocals
  PROVE  After(piece) \in LinePiece
<1> DEFINE l == writer.loop
<1>1. /\ iMLPX \in MlpxValues /\ l \in Loops
      /\ OutSet \in Nat /\ MAX_PMCx \in Nat /\ OutSet < MAX_PMCx
  BY LogAssumption DEF LogAssumption, TypeOK, WriterLocals
<1>2. ASSUME NEW i \in Group, NEW j \in OutSet .. MAX_PMCx - 1
      PROVE  CellPiece(l, i, j, iMLPX) \in LinePiece
  BY <1>1, <1>2 DEF CellPiece, LinePiece
<1>3. \A i \in Nat : IsGroup(i) => i \in Group
  BY <1>1 DEF IsGroup, Group
<1>4. OutSet \in OutSet .. MAX_PMCx - 1  BY <1>1
<1>5. CASE piece.kind = "loop" /\ IsGroup(0)
  <2>1. 0 \in Group  BY <1>3, <1>5
  <2> QED  BY <1>2, <1>4, <1>5, <2>1 DEF After
<1>6. CASE piece.kind = "cell"
  <2>1. piece.group \in Group /\ piece.counter \in OutSet .. MAX_PMCx - 1
    BY <1>6 DEF LinePiece, EndOfLine
  <2>2. CASE piece.counter + 1 < MAX_PMCx
    <3>1. piece.counter + 1 \in OutSet .. MAX_PMCx - 1  BY <1>1, <2>1, <2>2
    <3> QED  BY <1>1, <1>2, <1>6, <2>1, <2>2, <3>1 DEF After
  <2>3. CASE ~(piece.counter + 1 < MAX_PMCx) /\ IsGroup(piece.group + 1)
    <3>1. piece.group + 1 \in Nat  BY <2>1 DEF Group
    <3>2. piece.group + 1 \in Group  BY <1>3, <2>3, <3>1
    <3> QED  BY <1>2, <1>4, <1>6, <2>3, <3>2 DEF After
  <2>4. CASE ~(piece.counter + 1 < MAX_PMCx)
             /\ ~IsGroup(piece.group + 1)
    BY <1>6, <2>4, LinePieces DEF After
  <2> QED  BY <2>2, <2>3, <2>4
<1>7. CASE piece.kind # "cell" /\ ~(piece.kind = "loop" /\ IsGroup(0))
  BY <1>7, LinePieces DEF After
<1> QED  BY <1>5, <1>6, <1>7

LEMMA InitEstablishesLInv == Init => LInv
<1> SUFFICES ASSUME Init PROVE LInv  OBVIOUS
<1>1. <<>> \in Seq(Piece) /\ <<>> \in Seq(Loops) /\ DOMAIN <<>> = {}  OBVIOUS
<1>2. TypeOK  BY <1>1, LogAssumption DEF Init, TypeOK, LogAssumption
<1> QED
  BY <1>1, <1>2 DEF Init, LInv, ColumnsOnce, Placed, Handles, Writing, Idle

(* Steps that leave the disk and the writer alone. *)
LEMMA RequestKeepsLInv ==
  ASSUME LInv, UNCHANGED <<disk, writer, due, adrift, unbuffered>>, Disturb,
         Unicode_ProcessName' \in Processes \cup {NoProcess},
         szLogFileName' \in LogNames, iMLPX' \in MlpxValues
  PROVE  LInv'
<1>1. spoiled' \subseteq Paths /\ spoiled \subseteq spoiled'
  BY DEF LInv, TypeOK, Disturb
<1>2. TypeOK'  BY <1>1 DEF LInv, TypeOK, disk, Paths, Piece, EndOfLine
<1>3. Handles'  BY DEF LInv, Handles, Writing, disk
<1>4. ColumnsOnce' /\ Placed'
  BY DEF LInv, ColumnsOnce, Placed, Behind, Writing, disk, Paths
<1>5. adrift' \subseteq spoiled'  BY <1>1 DEF LInv
<1> QED
  BY <1>2, <1>3, <1>4, <1>5 DEF LInv, disk, Idle, WriterLocals, LinePiece, Piece, EndOfLine

LEMMA ReadKeepsLInv ==
  ASSUME LInv, NEW l \in Loops, Read(l)
  PROVE  LInv'
<1>1. /\ writer' = [pc |-> "name", loop |-> l, piece |-> LoopPiece(l), file |-> Path,
                    EndOfFile |-> 0, buffer |-> <<>>]
      /\ UNCHANGED <<settings, disk, adrift, unbuffered>> /\ Quiet
  BY DEF Read
<1>2. writer' \in WriterLocals
  <2>1. <<>> \in Seq(Piece)  OBVIOUS
  <2> QED  BY <1>1, <2>1, PathType, LinePieces DEF WriterLocals, LInv
<1>3. due' \in [Paths -> Seq(Loops)]
  <2>1. \A p \in Paths : due[p] \in Seq(Loops) /\ Append(due[p], l) \in Seq(Loops)
    BY DEF LInv, TypeOK
  <2> QED  BY <2>1 DEF Read
<1>4. spoiled' \subseteq Paths /\ spoiled \subseteq spoiled'  BY DEF Read, LInv, TypeOK
<1>5. TypeOK'  BY <1>1, <1>3, <1>4 DEF LInv, TypeOK, settings, disk
<1>6. ~Writing' /\ ~Writing /\ writer'.pc # "write"  BY <1>1 DEF Writing, Quiet
<1>7. ColumnsOnce' /\ Placed' /\ Handles' /\ adrift' \subseteq spoiled'
  BY <1>1, <1>4, <1>6 DEF LInv, ColumnsOnce, Placed, Handles, disk
<1> QED  BY <1>2, <1>5, <1>7 DEF LInv

(* Steps that write no file and end outside of WriteFileA's middle.        *)
LEMMA StepKeepsLInv ==
  ASSUME LInv, UNCHANGED <<settings, files, due, adrift>>,
         directories' \subseteq Processes, spoiled' \subseteq Paths, spoiled \subseteq spoiled',
         writer' \in WriterLocals \cup {Idle}, writer'.pc \notin {"buffer", "write"},
         unbuffered' \in Nat, hFiles' = unbuffered'
  PROVE  LInv'
<1>1. TypeOK'  BY DEF LInv, TypeOK, settings
<1>2. ~Writing' /\ writer'.pc # "write"  BY DEF Writing
<1>3. ColumnsOnce' /\ Placed' /\ Handles' /\ adrift' \subseteq spoiled'
  BY <1>2 DEF LInv, ColumnsOnce, Placed, Handles
<1> QED  BY <1>1, <1>3 DEF LInv

(* How many handles are open at a place of WriteFileA.                     *)
LEMMA HandlesOpen ==
  ASSUME LInv
  PROVE  /\ unbuffered \in Nat /\ hFiles = IF Writing THEN unbuffered + 1 ELSE unbuffered
         /\ spoiled \subseteq Paths /\ directories \subseteq Processes
BY DEF LInv, TypeOK, Handles

(* The file is opened, with the right size or one it does not have.        *)
LEMMA OpensKeepsLInv ==
  ASSUME LInv, CanOpen, NEW size \in Nat, Opens(size),
         spoiled \subseteq spoiled', spoiled' \subseteq Paths,
         adrift \subseteq adrift', adrift' \subseteq spoiled',
         size = Len(files[writer.file]) \/ writer.file \in adrift'
  PROVE  LInv'
<1>1. writer \in WriterLocals /\ ~Writing  BY LocalsFacts DEF LInv, CanOpen, At, Quiet, Writing
<1>2. writer.file \in Paths
  BY <1>1 DEF CanOpen, LInv, TypeOK, WriterLocals, Paths
<1>3. /\ writer' = [writer EXCEPT !.pc = "buffer", !.EndOfFile = size]
      /\ hFiles' = hFiles + 1
      /\ UNCHANGED <<settings, directories, files, due, unbuffered>>
  BY DEF Opens
<1>4. /\ writer' \in WriterLocals /\ writer'.pc = "buffer" /\ writer'.file = writer.file
      /\ writer'.EndOfFile = size
  BY <1>1, <1>3 DEF WriterLocals
<1>5. hFiles = unbuffered /\ hFiles' = unbuffered' + 1 /\ hFiles' \in Nat
  BY <1>1, <1>3, HandlesOpen
<1>6. TypeOK'  BY <1>3, <1>5 DEF LInv, TypeOK, settings
<1>7. Writing'  BY <1>4 DEF Writing
<1>8. ColumnsOnce' /\ Placed' /\ Handles'
  BY <1>2, <1>3, <1>4, <1>5, <1>7 DEF LInv, ColumnsOnce, Placed, Handles
<1> QED  BY <1>4, <1>6, <1>8 DEF LInv

LEMMA FillBufferKeepsLInv ==
  ASSUME LInv, FillBuffer
  PROVE  LInv'
<1>1. writer \in WriterLocals /\ Writing
  BY LocalsFacts DEF LInv, FillBuffer, At, Quiet, Writing
<1>2. /\ writer' = [writer EXCEPT !.pc = "write", !.buffer = Content(writer.piece)]
      /\ UNCHANGED <<settings, disk, history>>
  BY DEF FillBuffer
<1>3. /\ writer.piece \in Piece /\ writer.piece.kind # "columns"
      /\ Columns(Groups) \in Piece /\ Columns(Groups).kind = "columns"
      /\ writer.file \in Paths /\ files[writer.file] \in Seq(Piece)
  BY <1>1, LinePieces, GroupsFacts, ColumnsType DEF LInv, TypeOK, Placed, WriterLocals
<1>4. Content(writer.piece) \in Seq(Piece)
  <2> HIDE DEF Groups
  <2>1. <<Columns(Groups), writer.piece>> \in Seq(Piece) /\ <<writer.piece>> \in Seq(Piece)
    BY <1>3
  <2> QED  BY <2>1 DEF Content
<1>5. ASSUME writer.file \notin adrift
      PROVE  /\ writer.EndOfFile = Len(files[writer.file])
             /\ Behind(files[writer.file], Content(writer.piece))
  <2>0. writer.EndOfFile = Len(files[writer.file])  BY <1>1, <1>5 DEF LInv, Placed
  <2>1. CASE files[writer.file] = <<>>
    <3>1. Content(writer.piece) = <<Columns(Groups), writer.piece>>
      BY <1>3, <2>0, <2>1 DEF Content
    <3> QED  BY <1>3, <2>0, <2>1, <3>1 DEF Behind
  <2>2. CASE files[writer.file] # <<>>
    <3>1. Content(writer.piece) = <<writer.piece>>  BY <1>3, <2>0, <2>2 DEF Content
    <3> QED  BY <1>3, <2>0, <2>2, <3>1 DEF Behind
  <2> QED  BY <2>1, <2>2
<1>6. /\ writer' \in WriterLocals /\ writer'.pc = "write" /\ writer'.file = writer.file
      /\ writer'.EndOfFile = writer.EndOfFile /\ writer'.buffer = Content(writer.piece)
  BY <1>1, <1>2, <1>4 DEF WriterLocals
<1>7. TypeOK'  BY <1>2 DEF LInv, TypeOK, settings, disk, history
<1>8. Writing'  BY <1>6 DEF Writing
<1>9. ColumnsOnce' /\ Placed' /\ Handles' /\ adrift' \subseteq spoiled'
  BY <1>1, <1>2, <1>3, <1>5, <1>6, <1>8
  DEF LInv, ColumnsOnce, Placed, Handles, disk, history
<1> QED  BY <1>6, <1>7, <1>9 DEF LInv

(* What is written follows what was there. *)
LEMMA WriteAppends ==
  ASSUME LInv, Writes(writer.EndOfFile), writer.file \notin adrift
  PROVE  files' = [files EXCEPT ![writer.file] = @ \o writer.buffer]
<1>1. Writing  BY DEF Writes, At, Writing
<1>2. writer.EndOfFile = Len(files[writer.file])  BY <1>1 DEF LInv, Placed
<1> QED  BY <1>2 DEF Writes, WithBuffer

LEMMA BufferType ==
  ASSUME LInv, At("write")
  PROVE  /\ writer \in WriterLocals /\ Writing /\ writer.file \in Paths
         /\ files[writer.file] \in Seq(Piece) /\ writer.buffer \in Seq(Piece)
<1>1. writer \in WriterLocals /\ Writing
  BY LocalsFacts DEF LInv, At, Quiet, Writing
<1> QED  BY <1>1 DEF LInv, Placed, TypeOK, WriterLocals

LEMMA ColumnsBehind ==
  ASSUME NEW S, NEW list \in Seq(S), NEW buffer \in Seq(S), Behind(list, buffer),
         \A k \in DOMAIN list : list[k].kind = "columns" <=> k = 1
  PROVE  \A i \in DOMAIN (list \o buffer) : (list \o buffer)[i].kind = "columns" <=> i = 1
<1> TAKE i \in DOMAIN (list \o buffer)
<1>1. /\ list \o buffer \in Seq(S) /\ Len(list) \in Nat /\ Len(buffer) \in Nat
      /\ Len(list \o buffer) = Len(list) + Len(buffer)
  BY ConcatProperties
<1>2. i \in 1 .. Len(list) + Len(buffer)  BY <1>1
<1>3. CASE i <= Len(list)
  <2>1. i \in DOMAIN list /\ (list \o buffer)[i] = list[i]  BY <1>1, <1>2, <1>3
  <2> QED  BY <2>1
<1>4. CASE i > Len(list)
  <2>1. i - Len(list) \in 1 .. Len(buffer)  BY <1>1, <1>2, <1>4
  <2>2. (list \o buffer)[i] = buffer[i - Len(list)]  BY <1>1, <1>2, <1>4
  <2>3. list = <<>> <=> Len(list) = 0  OBVIOUS
  <2>4. list = <<>> /\ i - Len(list) = 1 <=> i = 1  BY <1>1, <1>2, <1>4, <2>3
  <2> QED  BY <2>1, <2>2, <2>4 DEF Behind
<1> QED  BY <1>1, <1>2, <1>3, <1>4

(* The buffer is written at the end of the file, or the file is torn.      *)
LEMMA WritesKeepsLInv ==
  ASSUME LInv, NEW offset \in Nat, Writes(offset),
         spoiled \subseteq spoiled', spoiled' \subseteq Paths,
         adrift \subseteq adrift', adrift' \subseteq spoiled',
         offset = writer.EndOfFile \/ writer.file \in adrift'
  PROVE  LInv'
<1> DEFINE file == files[writer.file]
<1>1. /\ writer \in WriterLocals /\ Writing /\ writer.pc = "write" /\ writer.file \in Paths
      /\ file \in Seq(Piece) /\ writer.buffer \in Seq(Piece)
  BY BufferType DEF Writes, At
<1>2. /\ writer' = [writer EXCEPT !.pc = "next"] /\ hFiles' = hFiles - 1
      /\ files' = [files EXCEPT ![writer.file] = WithBuffer(file, offset)]
      /\ UNCHANGED <<settings, directories, due, unbuffered>>
  BY DEF Writes, Goto
<1>3. writer' \in WriterLocals /\ ~Writing' /\ writer'.pc # "write"
  BY <1>1, <1>2 DEF WriterLocals, Writing
<1>4. files' \in [Paths -> Seq(Piece)]
  <2>1. file \o writer.buffer \in Seq(Piece)  BY <1>1, ConcatProperties
  <2>2. <<Torn>> \in Seq(Piece)
    <3>1. Torn \in Piece  BY DEF Piece
    <3> QED  BY <3>1
  <2>3. WithBuffer(file, offset) \in Seq(Piece)  BY <2>1, <2>2 DEF WithBuffer
  <2> QED  BY <1>2, <2>3 DEF LInv, TypeOK
<1>5. hFiles' = unbuffered' /\ unbuffered' \in Nat  BY <1>1, <1>2, HandlesOpen
<1>6. TypeOK'  BY <1>2, <1>4, <1>5 DEF LInv, TypeOK, settings
<1>7. ColumnsOnce'
  <2> SUFFICES ASSUME NEW p \in Paths \ adrift', NEW i \in DOMAIN files'[p]
               PROVE  files'[p][i].kind = "columns" <=> i = 1
    BY DEF ColumnsOnce, Paths
  <2>1. CASE p # writer.file
    <3>1. files'[p] = files[p] /\ p \notin adrift  BY <1>2, <2>1 DEF LInv, TypeOK
    <3> QED  BY <3>1 DEF LInv, ColumnsOnce
  <2>2. CASE p = writer.file
    <3>1. offset = writer.EndOfFile /\ writer.file \notin adrift  BY <2>2
    <3>2. files'[p] = file \o writer.buffer
      BY <1>1, <2>2, <3>1, WriteAppends DEF LInv, TypeOK
    <3>3. Behind(file, writer.buffer) /\ \A k \in DOMAIN file : file[k].kind = "columns" <=> k = 1
      BY <1>1, <3>1 DEF LInv, Placed, ColumnsOnce
    <3> HIDE DEF file
    <3> QED  BY <1>1, <3>2, <3>3, ColumnsBehind
  <2> QED  BY <2>1, <2>2
<1>8. Placed' /\ Handles'
  BY <1>3, <1>5 DEF Placed, Handles
<1> QED  BY <1>3, <1>6, <1>7, <1>8 DEF LInv

LEMMA NextKeepsLInv == LInv /\ [Next]_vars => LInv'
<1> SUFFICES ASSUME LInv, [Next]_vars PROVE LInv'  OBVIOUS
<1> USE HandlesOpen
<1>1. \A l \in Loops : Read(l) => LInv'  BY ReadKeepsLInv
<1>2. ASSUME NextPiece PROVE LInv'
  <2>1. writer \in WriterLocals /\ ~Writing
    BY <1>2, LocalsFacts DEF LInv, NextPiece, At, Quiet, Writing
  <2>2. After(writer.piece) \in LinePiece  BY <2>1, AfterType DEF LInv, WriterLocals
  <2>3. writer' \in WriterLocals \cup {Idle} /\ writer'.pc \notin {"buffer", "write"}
    BY <1>2, <2>1, <2>2 DEF NextPiece, WriterLocals, Idle
  <2> QED  BY <1>2, <2>1, <2>3, StepKeepsLInv DEF NextPiece, disk, history
<1>3. ASSUME IniteFileName PROVE LInv'
  <2>1. writer \in WriterLocals /\ ~Writing
    BY <1>3, LocalsFacts DEF LInv, IniteFileName, At, Quiet, Writing
  <2>2. writer' \in WriterLocals /\ writer'.pc \notin {"buffer", "write"}
    BY <1>3, <2>1, PathType DEF IniteFileName, WriterLocals, LInv
  <2> QED  BY <1>3, <2>1, <2>2, StepKeepsLInv DEF IniteFileName, disk, history
<1>4. ASSUME CreateDirectory PROVE LInv'
  <2>1. writer \in WriterLocals /\ ~Writing
    BY <1>4, LocalsFacts DEF LInv, CreateDirectory, At, Quiet, Writing
  <2>2. writer' \in WriterLocals /\ writer'.pc \notin {"buffer", "write"}
    BY <1>4, <2>1 DEF CreateDirectory, Goto, WriterLocals
  <2>3. directories' \subseteq Processes  BY <1>4 DEF CreateDirectory
  <2> QED  BY <1>4, <2>1, <2>2, <2>3, StepKeepsLInv DEF CreateDirectory, history
<1>5. ASSUME CanOpen
      PROVE  writer.file \in Paths /\ Len(files[writer.file]) \in Nat
  <2>1. writer \in WriterLocals
    BY <1>5, LocalsFacts DEF LInv, CanOpen, At, Quiet
  <2>2. writer.file \in Paths  BY <1>5, <2>1 DEF CanOpen, WriterLocals, Paths
  <2>3. files[writer.file] \in Seq(Piece)  BY <2>2 DEF LInv, TypeOK
  <2> QED  BY <2>2, <2>3
<1>6. ASSUME OpenLog PROVE LInv'
  BY <1>5, <1>6, OpensKeepsLInv DEF OpenLog, LInv
<1>7. ASSUME QueryFails PROVE LInv'
  <2>1. CanOpen /\ writer.file \in Paths  BY <1>5, <1>7 DEF QueryFails
  <2>2. PICK size \in 0 .. Len(files[writer.file]) + 1 : Opens(size)  BY <1>7 DEF QueryFails
  <2>3. size \in Nat  BY <1>5, <2>1, <2>2
  <2>4. /\ spoiled' = spoiled \cup {writer.file} /\ adrift' = adrift \cup {writer.file}
    BY <1>7, <2>1 DEF QueryFails, Lose
  <2> QED  BY <2>1, <2>2, <2>3, <2>4, OpensKeepsLInv DEF LInv
<1>8. ASSUME OpenFails PROVE LInv'
  <2>1. writer \in WriterLocals /\ ~Writing
    BY <1>8, LocalsFacts DEF LInv, OpenFails, At, Quiet, Writing
  <2>2. writer' \in WriterLocals /\ writer'.pc \notin {"buffer", "write"}
    BY <1>8, <2>1 DEF OpenFails, Goto, WriterLocals
  <2>3. spoiled \subseteq spoiled' /\ spoiled' \subseteq Paths  BY <1>8 DEF OpenFails, Lose
  <2> QED  BY <1>8, <2>1, <2>2, <2>3, StepKeepsLInv DEF OpenFails, disk
<1>9. FillBuffer => LInv'  BY FillBufferKeepsLInv
<1>10. ASSUME NoBuffer PROVE LInv'
  <2>1. writer \in WriterLocals /\ Writing
    BY <1>10, LocalsFacts DEF LInv, NoBuffer, At, Quiet, Writing
  <2>2. writer' \in WriterLocals /\ writer'.pc \notin {"buffer", "write"}
    BY <1>10, <2>1 DEF NoBuffer, Goto, WriterLocals
  <2>3. spoiled \subseteq spoiled' /\ spoiled' \subseteq Paths  BY <1>10 DEF NoBuffer, Lose
  <2>4. hFiles' = unbuffered' /\ unbuffered' \in Nat  BY <1>10, <2>1 DEF NoBuffer, disk
  <2> QED  BY <1>10, <2>2, <2>3, <2>4, StepKeepsLInv DEF NoBuffer, disk
<1>11. ASSUME At("write") PROVE writer.file \in Paths /\ writer.EndOfFile \in Nat
  BY <1>11, BufferType DEF WriterLocals
<1>12. ASSUME WriteLog PROVE LInv'
  <2>1. Writes(writer.EndOfFile) /\ UNCHANGED <<spoiled, adrift>> /\ At("write")
    BY <1>12 DEF WriteLog, Writes
  <2> QED  BY <1>11, <2>1, WritesKeepsLInv DEF LInv
<1>13. ASSUME PositionFails PROVE LInv'
  <2>1. Writes(0) /\ writer.file \in Paths  BY <1>11, <1>13 DEF PositionFails, Writes
  <2>2. spoiled' = spoiled \cup {writer.file} /\ adrift' = adrift \cup {writer.file}
    BY <1>13, <2>1 DEF PositionFails, Lose
  <2> QED  BY <2>1, <2>2, WritesKeepsLInv DEF LInv
<1>14. ASSUME WriteFails PROVE LInv'
  <2>1. writer \in WriterLocals /\ Writing
    BY <1>14, BufferType DEF WriteFails
  <2>2. writer' \in WriterLocals /\ writer'.pc \notin {"buffer", "write"}
    BY <1>14, <2>1 DEF WriteFails, Goto, WriterLocals
  <2>3. spoiled \subseteq spoiled' /\ spoiled' \subseteq Paths  BY <1>14 DEF WriteFails, Lose
  <2>4. hFiles' = unbuffered' /\ unbuffered' \in Nat  BY <1>14, <2>1 DEF WriteFails
  <2> QED  BY <1>14, <2>2, <2>3, <2>4, StepKeepsLInv DEF WriteFails
<1>15. ASSUME NEW process \in Processes, SendPname(process) PROVE LInv'
  BY <1>15, RequestKeepsLInv DEF SendPname, LInv, TypeOK
<1>16. ASSUME NEW name \in LogNames, SendLogFileName(name) PROVE LInv'
  BY <1>16, RequestKeepsLInv DEF SendLogFileName, LInv, TypeOK
<1>17. ASSUME NEW n \in MlpxValues, SendMlpx(n) PROVE LInv'
  BY <1>17, RequestKeepsLInv DEF SendMlpx, LInv, TypeOK
<1>18. ASSUME UNCHANGED vars PROVE LInv'
  BY <1>18 DEF vars, settings, disk, history, LInv, TypeOK, ColumnsOnce, Placed, Handles, Writing
<1> QED
  BY <1>1, <1>2, <1>3, <1>4, <1>6, <1>7, <1>8, <1>9, <1>10, <1>12, <1>13, <1>14, <1>15, <1>16,
     <1>17, <1>18
  DEF Next, WriterStep

(* The files, the handles and the names are well typed, whatever fails and *)
(* whatever is sent while a line is written.                               *)
THEOREM LogTypes == Spec => []TypeOK
<1>1. LInv => TypeOK  BY DEF LInv
<1> QED  BY <1>1, InitEstablishesLInv, NextKeepsLInv, PTL DEF Spec

(* A file whose size and position could always be had begins with its      *)
(* columns and has them once: neither what the other failures drop nor the *)
(* settings a request changes bring them back.                             *)
THEOREM LogColumnsOnce == Spec => []ColumnsOnce
<1>1. LInv => ColumnsOnce  BY DEF LInv
<1> QED  BY <1>1, InitEstablishesLInv, NextKeepsLInv, PTL DEF Spec

(* Between two reads as many handles of WriteFileA are open as there were  *)
(* buffers without memory: it closes every other, and never one of those.  *)
THEOREM LogHandlesReturned == Spec => []HandlesReturned
<1>1. LInv => HandlesReturned  BY DEF LInv, Handles, HandlesReturned, Writing, Quiet
<1> QED  BY <1>1, InitEstablishesLInv, NextKeepsLInv, PTL DEF Spec

LEMMA ConcatHasPrefix ==
  ASSUME NEW S, NEW s \in Seq(S), NEW t \in Seq(S)
  PROVE  IsPrefix(s, s \o t)
<1>1. /\ Len(s) \in Nat /\ Len(t) \in Nat /\ Len(s \o t) = Len(s) + Len(t)
  BY ConcatProperties
<1>2. SubSeq(s, 1, Len(s)) = SubSeq(s \o t, 1, Len(s))
  <2>1. CASE Len(s) = 0  BY <2>1, SubSeqEmpty
  <2>2. CASE Len(s) # 0
    <3>1. 1 \in 1 .. Len(s) /\ Len(s) \in 1 .. Len(s)  BY <1>1, <2>2
    <3> QED  BY <3>1, SubSeqOfConcat1
  <2> QED  BY <2>1, <2>2
<1> QED  BY <1>1, <1>2 DEF IsPrefix

(* Only the file at hand is written, and not by every step. *)
LEMMA StepsWriteOneFile ==
  ASSUME LInv, [Next]_vars
  PROVE  WriteLog \/ PositionFails \/ files' = files
BY DEF Next, WriterStep, Read, NextPiece, IniteFileName, CreateDirectory, OpenLog, QueryFails,
       Opens, OpenFails, FillBuffer, NoBuffer, WriteFails, SendPname, SendLogFileName, SendMlpx,
       vars, disk

LEMMA StepsGrowFiles ==
  ASSUME LInv, [Next]_vars
  PROVE  \A p \in Paths \ adrift' : IsPrefix(files[p], files'[p])
<1>1. \A p \in Paths : files[p] \in Seq(Piece)  BY DEF LInv, TypeOK
<1>2. ASSUME NEW p \in Paths \ adrift' PROVE files[p] \in Seq(Piece) /\ IsPrefix(files[p], files[p])
  BY <1>1 DEF IsPrefix
<1>3. CASE WriteLog
  <2> TAKE p \in Paths \ adrift'
  <2>1. Writes(writer.EndOfFile) /\ adrift' = adrift /\ At("write")  BY <1>3 DEF WriteLog, Writes
  <2>2. writer.buffer \in Seq(Piece)  BY <2>1, BufferType
  <2>3. CASE p = writer.file
    <3>1. files'[p] = files[p] \o writer.buffer
      BY <2>1, <2>3, WriteAppends DEF LInv, TypeOK
    <3> QED  BY <1>1, <2>2, <3>1, ConcatHasPrefix
  <2>4. CASE p # writer.file
    <3>1. files'[p] = files[p]  BY <2>1, <2>4 DEF Writes, LInv, TypeOK
    <3> QED  BY <1>2, <3>1
  <2> QED  BY <2>3, <2>4
<1>4. CASE PositionFails
  <2> TAKE p \in Paths \ adrift'
  <2>1. p # writer.file /\ Writes(0)  BY <1>4 DEF PositionFails
  <2>2. files'[p] = files[p]  BY <2>1 DEF Writes, LInv, TypeOK
  <2> QED  BY <1>2, <2>2
<1>5. CASE files' = files  BY <1>2, <1>5
<1> QED  BY <1>3, <1>4, <1>5, StepsWriteOneFile

(* Nothing that was written into a file whose size and position could      *)
(* always be had is ever overwritten.                                      *)
THEOREM LogOnlyGrows == Spec => FilesOnlyGrow
<1>1. LInv /\ [Next]_vars => [\A p \in Paths \ adrift' : IsPrefix(files[p], files'[p])]_vars
  BY StepsGrowFiles
<1> QED  BY <1>1, InitEstablishesLInv, NextKeepsLInv, PTL DEF Spec, FilesOnlyGrow

-----------------------------------------------------------------------------
(* Lines, piece by piece                                                   *)

Counters == MAX_PMCx - OutSet

LEMMA DivMod ==
  ASSUME NEW a \in Nat, NEW w \in Nat, w # 0
  PROVE  a = (a \div w) * w + (a % w) /\ a % w \in 0 .. w - 1 /\ a \div w \in Nat
OBVIOUS

LEMMA DivModOf ==
  ASSUME NEW q \in Nat, NEW w \in Nat, NEW r \in 0 .. w - 1
  PROVE  (q * w + r) \div w = q /\ (q * w + r) % w = r
OBVIOUS

LEMMA Products ==
  ASSUME NEW q \in Nat, NEW n \in Nat, NEW w \in Nat
  PROVE  /\ q * w \in Nat /\ (q + 1) * w = q * w + w
         /\ q < n => q * w + w <= n * w
         /\ q * w < n * w => q < n
OBVIOUS

(* The places of n blocks of w each. *)
LEMMA Place ==
  ASSUME NEW n \in Nat, NEW w \in Nat, w # 0, NEW k \in 1 .. n * w
  PROVE  /\ (k - 1) \div w \in 0 .. n - 1 /\ (k - 1) % w \in 0 .. w - 1
         /\ k - 1 = ((k - 1) \div w) * w + ((k - 1) % w)
<1> DEFINE q == (k - 1) \div w
           r == (k - 1) % w
<1>1. k - 1 \in Nat /\ n * w \in Nat  BY Products
<1>2. k - 1 = q * w + r /\ r \in 0 .. w - 1 /\ q \in Nat  BY <1>1, DivMod
<1> HIDE DEF q, r
<1>3. q * w \in Nat /\ q * w < n * w  BY <1>1, <1>2, Products
<1>4. q < n  BY <1>2, <1>3, Products
<1> QED  BY <1>2, <1>4 DEF q, r

LEMMA LineFacts ==
  ASSUME NEW l \in Loops, NEW n \in Widths
  PROVE  /\ Counters \in Nat \ {0} /\ LineLength(n) = n * Counters + 2
         /\ n * Counters \in Nat
         /\ Line(l, n) \in Seq(LinePiece) /\ Len(Line(l, n)) = LineLength(n)
         /\ Line(l, n)[1] = LoopPiece(l)
         /\ \A m \in 1 .. n * Counters :
              Line(l, n)[m + 1] =
                CellPiece(l, (m - 1) \div Counters, OutSet + ((m - 1) % Counters), n)
         /\ Line(l, n)[LineLength(n)] = EndOfLine
<1> DEFINE cell(k) == CellPiece(l, (k - 1) \div Counters, OutSet + ((k - 1) % Counters), n)
           cells == [k \in 1 .. n * Counters |-> cell(k)]
<1>1. /\ Counters \in Nat \ {0} /\ OutSet \in Nat /\ MAX_PMCx = OutSet + Counters
      /\ n \in Nat /\ (n # 0 => n \in MlpxValues)
  BY LogAssumption DEF LogAssumption, Counters, Widths
<1>2. n * Counters \in Nat /\ LineLength(n) = n * Counters + 2
  <2>1. n * Counters \in Nat  BY <1>1, Products
  <2> QED  BY <2>1 DEF LineLength, Counters
<1>3. \A k \in 1 .. n * Counters : cell(k) \in LinePiece
  <2> TAKE k \in 1 .. n * Counters
  <2>1. (k - 1) \div Counters \in 0 .. n - 1 /\ (k - 1) % Counters \in 0 .. Counters - 1
    BY <1>1, Place
  <2>2. /\ (k - 1) \div Counters \in Group /\ n \in MlpxValues
        /\ OutSet + ((k - 1) % Counters) \in OutSet .. MAX_PMCx - 1
    <3> DEFINE q == (k - 1) \div Counters
               c == (k - 1) % Counters
    <3>1. q \in 0 .. n - 1 /\ c \in 0 .. Counters - 1  BY <2>1
    <3> HIDE DEF Counters, q, c
    <3>2. q \in Nat /\ q < n /\ n # 0  BY <1>1, <3>1
    <3>3. OutSet + c \in OutSet .. MAX_PMCx - 1  BY <1>1, <3>1
    <3> QED  BY <1>1, <3>2, <3>3 DEF Group, q, c
  <2> HIDE DEF Counters
  <2> QED  BY <2>2 DEF CellPiece, LinePiece
<1>4. Line(l, n) = (<<LoopPiece(l)>> \o cells) \o <<EndOfLine>>  BY DEF Line, Counters
<1> HIDE DEF Counters, cell
<1>5. cells \in Seq(LinePiece) /\ Len(cells) = n * Counters
  BY <1>2, <1>3
<1>6. <<LoopPiece(l)>> \in Seq(LinePiece) /\ <<EndOfLine>> \in Seq(LinePiece)
  BY LinePieces
<1> DEFINE head == <<LoopPiece(l)>> \o cells
<1>7. /\ head \in Seq(LinePiece) /\ Len(head) = 1 + n * Counters
      /\ head[1] = LoopPiece(l) /\ \A m \in 1 .. n * Counters : head[m + 1] = cells[m]
  <2> HIDE DEF cells
  <2>1. /\ head \in Seq(LinePiece) /\ Len(head) = 1 + Len(cells)
        /\ \A i \in 1 .. 1 + Len(cells) :
             head[i] = IF i <= 1 THEN <<LoopPiece(l)>>[i] ELSE cells[i - 1]
    BY <1>5, <1>6, ConcatProperties
  <2> HIDE DEF head
  <2> QED  BY <1>2, <1>5, <2>1
<1> HIDE DEF head
<1>8. /\ Line(l, n) \in Seq(LinePiece) /\ Len(Line(l, n)) = n * Counters + 2
      /\ \A i \in 1 .. n * Counters + 1 : Line(l, n)[i] = head[i]
      /\ Line(l, n)[n * Counters + 2] = EndOfLine
  <2>1. Line(l, n) = head \o <<EndOfLine>>  BY <1>4 DEF head
  <2>2. /\ Line(l, n) \in Seq(LinePiece) /\ Len(Line(l, n)) = Len(head) + 1
        /\ \A i \in 1 .. Len(head) + 1 :
             Line(l, n)[i] = IF i <= Len(head) THEN head[i] ELSE <<EndOfLine>>[i - Len(head)]
    BY <1>6, <1>7, <2>1, ConcatProperties
  <2> QED  BY <1>2, <1>7, <2>2
<1> QED  BY <1>1, <1>2, <1>7, <1>8 DEF cell

(* The loops over the groups and the counters make the line in its order.  *)
LEMMA AfterIsNext ==
  ASSUME NEW l \in Loops, writer.loop = l, iMLPX \in MlpxValues,
         NEW k \in 1 .. LineLength(Groups)
  PROVE  /\ Line(l, Groups)[k] = EndOfLine <=> k = LineLength(Groups)
         /\ k # LineLength(Groups) => After(Line(l, Groups)[k]) = Line(l, Groups)[k + 1]
<1> DEFINE n == Groups
           piece == Line(l, n)[k]
<1>0. n \in Widths /\ (n # 0 => iMLPX = n) /\ \A i \in Nat : IsGroup(i) <=> i < n
  BY GroupsFacts
<1> HIDE DEF n
<1>1. /\ Counters \in Nat \ {0} /\ LineLength(n) = n * Counters + 2
      /\ n * Counters \in Nat /\ n \in Nat
      /\ Line(l, n)[1] = LoopPiece(l) /\ Line(l, n)[LineLength(n)] = EndOfLine
      /\ \A m \in 1 .. n * Counters :
           Line(l, n)[m + 1] =
             CellPiece(l, (m - 1) \div Counters, OutSet + ((m - 1) % Counters), n)
  BY <1>0, LineFacts DEF Widths
<1>2. OutSet \in Nat /\ MAX_PMCx = OutSet + Counters /\ k \in 1 .. LineLength(n)
  BY LogAssumption DEF LogAssumption, Counters, n
<1> HIDE DEF Counters
<1>a. CASE k = 1 /\ n = 0
  <2>1. piece = LoopPiece(l) /\ piece.kind = "loop" /\ piece # EndOfLine
    BY <1>1, <1>a DEF LoopPiece, EndOfLine
  <2>2. After(piece) = EndOfLine
    BY <1>0, <1>a, <2>1 DEF After
  <2>3. LineLength(n) = 2
    <3>1. 0 * Counters = 0  BY <1>1
    <3> QED  BY <1>1, <1>a, <3>1
  <2> QED  BY <1>1, <1>a, <2>1, <2>2, <2>3 DEF n
<1>3. CASE k = 1 /\ n # 0
  <2>1. piece = LoopPiece(l) /\ piece.kind = "loop" /\ piece # EndOfLine
    BY <1>1, <1>3 DEF LoopPiece, EndOfLine
  <2>2. After(piece) = CellPiece(l, 0, OutSet, n)
    BY <1>0, <1>1, <1>3, <2>1 DEF After
  <2>3. 0 \div Counters = 0 /\ 0 % Counters = 0  BY <1>1, DivModOf
  <2>4. 1 \in 1 .. n * Counters
    <3>1. 0 * Counters + Counters <= n * Counters  BY <1>1, <1>3, Products
    <3>2. 0 * Counters = 0  BY <1>1
    <3> QED  BY <1>1, <3>1, <3>2
  <2>5. Line(l, n)[1 + 1] = CellPiece(l, 0, OutSet, n)
    <3>1. Line(l, n)[1 + 1] =
            CellPiece(l, (1 - 1) \div Counters, OutSet + ((1 - 1) % Counters), n)
      BY <1>1, <2>4
    <3>2. 1 - 1 = 0 /\ OutSet + 0 = OutSet  BY <1>2
    <3> QED  BY <2>3, <3>1, <3>2
  <2> QED  BY <1>1, <1>3, <2>1, <2>2, <2>4, <2>5 DEF n
<1>4. CASE k = LineLength(n)
  BY <1>1, <1>4 DEF n
<1>5. CASE k # 1 /\ k # LineLength(n)
  <2> DEFINE m == k - 1
             q == (m - 1) \div Counters
             r == (m - 1) % Counters
  <2>1. m \in 1 .. n * Counters /\ k = m + 1  BY <1>1, <1>2, <1>5
  <2>2. /\ q \in 0 .. n - 1 /\ r \in 0 .. Counters - 1
        /\ m - 1 = q * Counters + r
    BY <1>1, <2>1, Place
  <2>a. n # 0 /\ iMLPX = n  BY <1>0, <1>1, <2>2
  <2> HIDE DEF m, q, r
  <2>3. piece = CellPiece(l, q, OutSet + r, n)  BY <1>1, <2>1 DEF q, r
  <2>4. piece.kind = "cell" /\ piece.group = q /\ piece.counter = OutSet + r
        /\ piece # EndOfLine
    BY <2>3 DEF CellPiece, EndOfLine
  <2>5. CASE r + 1 < Counters
    <3>1. After(piece) = CellPiece(l, q, OutSet + (r + 1), n)
      <4>1. (OutSet + r) + 1 < MAX_PMCx /\ (OutSet + r) + 1 = OutSet + (r + 1)
        BY <1>1, <1>2, <2>2, <2>5
      <4> QED  BY <2>a, <2>4, <4>1 DEF After
    <3>2. m = q * Counters + (r + 1) /\ r + 1 \in 0 .. Counters - 1 /\ q \in Nat
      <4>1. q * Counters \in Nat  BY <1>1, <2>2, Products
      <4> QED  BY <1>1, <2>1, <2>2, <2>5, <4>1
    <3>3. m \div Counters = q /\ m % Counters = r + 1  BY <1>1, <3>2, DivModOf
    <3>4. m + 1 \in 1 .. n * Counters
      <4>1. q * Counters \in Nat /\ q * Counters + Counters <= n * Counters
        BY <1>1, <2>2, Products
      <4> QED  BY <1>1, <2>1, <2>5, <3>2, <4>1
    <3>5. Line(l, n)[(m + 1) + 1] = CellPiece(l, q, OutSet + (r + 1), n)
      <4>1. (m + 1) - 1 = m  BY <2>1
      <4> QED  BY <1>1, <3>3, <3>4, <4>1
    <3> QED  BY <1>5, <2>1, <2>4, <3>1, <3>5 DEF n
  <2>6. CASE ~(r + 1 < Counters)
    <3>1. r = Counters - 1 /\ m = (q + 1) * Counters
      <4>1. q * Counters \in Nat /\ (q + 1) * Counters = q * Counters + Counters
        BY <1>1, <2>2, Products
      <4> QED  BY <1>1, <2>1, <2>2, <2>6, <4>1
    <3>2. ~(piece.counter + 1 < MAX_PMCx)  BY <1>1, <1>2, <2>4, <3>1
    <3>3. CASE q + 1 < n
      <4>1. After(piece) = CellPiece(l, q + 1, OutSet, n)
        BY <1>0, <2>a, <2>2, <2>4, <3>2, <3>3 DEF After
      <4>2. m \div Counters = q + 1 /\ m % Counters = 0
        <5>1. q + 1 \in Nat /\ 0 \in 0 .. Counters - 1
              /\ (q + 1) * Counters + 0 = (q + 1) * Counters
          BY <1>1, <2>1, <2>2, <3>1
        <5>2. ((q + 1) * Counters + 0) \div Counters = q + 1
              /\ ((q + 1) * Counters + 0) % Counters = 0
          BY <1>1, <5>1, DivModOf
        <5> QED  BY <3>1, <5>1, <5>2
      <4>3. m + 1 \in 1 .. n * Counters
        <5>1. (q + 1) * Counters \in Nat /\ (q + 1) * Counters + Counters <= n * Counters
          BY <1>1, <2>2, <3>3, Products
        <5> QED  BY <1>1, <3>1, <5>1
      <4>4. Line(l, n)[(m + 1) + 1] = CellPiece(l, q + 1, OutSet, n)
        <5>1. (m + 1) - 1 = m /\ OutSet + 0 = OutSet  BY <1>2, <2>1
        <5> QED  BY <1>1, <4>2, <4>3, <5>1
      <4> QED  BY <1>5, <2>1, <2>4, <4>1, <4>4 DEF n
    <3>4. CASE ~(q + 1 < n)
      <4>1. q + 1 = n  BY <1>1, <2>2, <3>4
      <4>2. k + 1 = LineLength(n)  BY <1>1, <2>1, <3>1, <4>1
      <4>3. After(piece) = EndOfLine  BY <1>0, <2>2, <2>4, <3>2, <3>4 DEF After
      <4> QED  BY <1>1, <1>5, <2>4, <4>2, <4>3 DEF n
    <3> QED  BY <3>3, <3>4
  <2> QED  BY <2>5, <2>6
<1> QED  BY <1>a, <1>3, <1>4, <1>5

(* One line more. *)
LEMMA LinesFacts ==
  ASSUME NEW list \in Seq(Loops), NEW n \in Widths
  PROVE  /\ Lines(list, n) \in Seq(LinePiece)
         /\ Len(Lines(list, n)) = Len(list) * LineLength(n)
         /\ \A k \in 1 .. Len(list) * LineLength(n) :
              Lines(list, n)[k] = Line(list[((k - 1) \div LineLength(n)) + 1], n)
                                      [((k - 1) % LineLength(n)) + 1]
<1> DEFINE length == LineLength(n)
           piece(k) == Line(list[((k - 1) \div length) + 1], n)[((k - 1) % length) + 1]
<1>1. length \in Nat \ {0}
  <2>1. \A m \in Nat : m + 2 \in Nat \ {0}  OBVIOUS
  <2>2. Counters \in Nat /\ n \in Nat  BY LogAssumption DEF LogAssumption, Counters, Widths
  <2>3. n * Counters \in Nat  BY <2>2, Products
  <2> QED  BY <2>1, <2>3 DEF LineLength, Counters
<1>2. Len(list) \in Nat /\ Len(list) * length \in Nat  BY <1>1, Products
<1>3. \A k \in 1 .. Len(list) * length : piece(k) \in LinePiece
  <2> TAKE k \in 1 .. Len(list) * length
  <2> DEFINE q == (k - 1) \div length
             r == (k - 1) % length
  <2>1. q \in 0 .. Len(list) - 1 /\ r \in 0 .. length - 1  BY <1>1, <1>2, Place
  <2> HIDE DEF q, r, length
  <2>2. q + 1 \in 1 .. Len(list) /\ r + 1 \in 1 .. length  BY <1>1, <1>2, <2>1
  <2>3. list[q + 1] \in Loops  BY <2>2
  <2>4. Line(list[q + 1], n) \in Seq(LinePiece) /\ Len(Line(list[q + 1], n)) = length
    BY <2>3, LineFacts DEF length
  <2>5. Line(list[q + 1], n)[r + 1] \in LinePiece  BY <2>2, <2>4
  <2> QED  BY <2>5 DEF q, r, length
<1>4. Lines(list, n) = [k \in 1 .. Len(list) * length |-> piece(k)]  BY DEF Lines
<1> HIDE DEF piece
<1>5. Lines(list, n) \in Seq(LinePiece) /\ Len(Lines(list, n)) = Len(list) * length
  <2> HIDE DEF length
  <2> QED  BY <1>2, <1>3, <1>4
<1>6. \A k \in 1 .. Len(list) * length : Lines(list, n)[k] = piece(k)  BY <1>4
<1> QED  BY <1>5, <1>6 DEF piece

LEMMA AppendedLine ==
  ASSUME NEW list \in Seq(Loops), NEW l \in Loops, NEW n \in Widths
  PROVE  Lines(Append(list, l), n) = Lines(list, n) \o Line(l, n)
<1> DEFINE length == LineLength(n)
           c == Len(list)
           longer == Append(list, l)
           lines == Lines(list, n)
           line == Line(l, n)
           more == Lines(longer, n)
<1>1. /\ length \in Nat \ {0} /\ line \in Seq(LinePiece) /\ Len(line) = length
  BY LineFacts
<1>2. /\ longer \in Seq(Loops) /\ Len(longer) = c + 1 /\ c \in Nat
      /\ \A i \in 1 .. c : longer[i] = list[i]
      /\ longer[c + 1] = l
  OBVIOUS
<1>3. /\ lines \in Seq(LinePiece) /\ Len(lines) = c * length
      /\ \A k \in 1 .. c * length :
           lines[k] = Line(list[((k - 1) \div length) + 1], n)[((k - 1) % length) + 1]
  BY LinesFacts
<1>4. /\ more \in Seq(LinePiece) /\ Len(more) = (c + 1) * length
      /\ \A k \in 1 .. (c + 1) * length :
           more[k] = Line(longer[((k - 1) \div length) + 1], n)[((k - 1) % length) + 1]
  <2> HIDE DEF longer
  <2> QED  BY <1>2, LinesFacts
<1> HIDE DEF length, c, longer, lines, line, more
<1>5. c * length \in Nat /\ (c + 1) * length = c * length + length  BY <1>1, <1>2, Products
<1>6. /\ lines \o line \in Seq(LinePiece) /\ Len(lines \o line) = c * length + length
      /\ \A k \in 1 .. c * length + length :
           (lines \o line)[k] = IF k <= c * length THEN lines[k] ELSE line[k - c * length]
  <2>1. /\ lines \o line \in Seq(LinePiece) /\ Len(lines \o line) = Len(lines) + Len(line)
        /\ \A k \in 1 .. Len(lines) + Len(line) :
             (lines \o line)[k] = IF k <= Len(lines) THEN lines[k] ELSE line[k - Len(lines)]
    BY <1>1, <1>3, ConcatProperties
  <2>2. Len(lines) = c * length /\ Len(line) = length  BY <1>1, <1>3
  <2> QED  BY <2>1, <2>2
<1>7. ASSUME NEW k \in 1 .. c * length PROVE more[k] = lines[k]
  <2>1. (k - 1) \div length \in 0 .. c - 1  BY <1>1, <1>2, Place
  <2>2. ((k - 1) \div length) + 1 \in 1 .. c  BY <1>2, <2>1
  <2>3. k \in 1 .. (c + 1) * length  BY <1>1, <1>5
  <2> QED  BY <1>2, <1>3, <1>4, <2>2, <2>3
<1>8. ASSUME NEW k \in 1 .. length PROVE more[c * length + k] = line[k]
  <2>1. k - 1 \in 0 .. length - 1  BY <1>1
  <2>2. (c * length + (k - 1)) \div length = c /\ (c * length + (k - 1)) % length = k - 1
    BY <1>1, <1>2, <2>1, DivModOf
  <2>3. /\ c * length + k \in 1 .. (c + 1) * length
        /\ (c * length + k) - 1 = c * length + (k - 1) /\ (k - 1) + 1 = k
    BY <1>1, <1>5
  <2>4. more[c * length + k] = Line(longer[c + 1], n)[k]  BY <1>4, <2>2, <2>3
  <2> QED  BY <1>2, <2>4 DEF line
<1>9. ASSUME NEW k \in 1 .. c * length + length PROVE more[k] = (lines \o line)[k]
  <2>1. CASE k <= c * length
    <3>1. k \in 1 .. c * length  BY <1>5, <2>1
    <3> QED  BY <1>6, <1>7, <2>1, <3>1
  <2>2. CASE ~(k <= c * length)
    <3>1. k - c * length \in 1 .. length /\ c * length + (k - c * length) = k
      BY <1>1, <1>5, <2>2
    <3>2. more[k] = line[k - c * length]  BY <1>8, <3>1
    <3> QED  BY <1>6, <2>2, <3>2
  <2> QED  BY <2>1, <2>2
<1>10. more = lines \o line  BY <1>4, <1>5, <1>6, <1>9, SeqEqual
<1> QED  BY <1>10 DEF more, lines, line, longer

(* A table of the loops of a list, and the first k pieces of a line more.  *)
Begun(list, l, n, k) ==
  IF list = <<>> /\ k = 0
  THEN <<>>
  ELSE (<<Columns(n)>> \o Lines(list, n)) \o SubSeq(Line(l, n), 1, k)

LEMMA BegunFacts ==
  ASSUME NEW list \in Seq(Loops), NEW l \in Loops, NEW n \in Widths
  PROVE  /\ <<Columns(n)>> \o Lines(list, n) \in Seq(Piece)
         /\ <<Columns(n)>> \o Lines(list, n) # <<>>
         /\ (<<Columns(n)>> \o Lines(list, n))[1] = Columns(n)
         /\ list = <<>> => <<Columns(n)>> \o Lines(list, n) = <<Columns(n)>>
         /\ \A k \in 0 .. LineLength(n) : SubSeq(Line(l, n), 1, k) \in Seq(Piece)
<1>1. Columns(n) \in Piece  BY ColumnsType
<1>2. Lines(list, n) \in Seq(Piece) /\ Line(l, n) \in Seq(Piece) /\ Len(Line(l, n)) = LineLength(n)
      /\ Len(Lines(list, n)) = Len(list) * LineLength(n) /\ LineLength(n) \in Nat
  BY LineFacts, LinesFacts, LinePieces
<1>3. /\ <<Columns(n)>> \o Lines(list, n) \in Seq(Piece)
      /\ Len(<<Columns(n)>> \o Lines(list, n)) = 1 + Len(Lines(list, n))
      /\ (<<Columns(n)>> \o Lines(list, n))[1] = Columns(n)
      /\ Len(Lines(list, n)) \in Nat
  <2> DEFINE lines == Lines(list, n)
  <2> HIDE DEF lines
  <2>1. lines \in Seq(Piece) /\ <<Columns(n)>> \in Seq(Piece)  BY <1>1, <1>2 DEF lines
  <2>2. /\ <<Columns(n)>> \o lines \in Seq(Piece)
        /\ Len(<<Columns(n)>> \o lines) = 1 + Len(lines) /\ Len(lines) \in Nat
        /\ (<<Columns(n)>> \o lines)[1] = Columns(n)
    BY <2>1, ConcatProperties
  <2> QED  BY <2>2 DEF lines
<1>4. list = <<>> => <<Columns(n)>> \o Lines(list, n) = <<Columns(n)>>
  <2>1. list = <<>> => Len(Lines(list, n)) = 0  BY <1>2, Products
  <2>2. list = <<>> => Lines(list, n) = <<>>  BY <1>2, <2>1
  <2>3. <<Columns(n)>> \in Seq(Piece)  BY <1>1
  <2> QED  BY <2>2, <2>3, ConcatEmptySeq
<1>5. ASSUME NEW k \in 0 .. LineLength(n) PROVE SubSeq(Line(l, n), 1, k) \in Seq(Piece)
  <2>1. \A i \in 1 .. k : Line(l, n)[i] \in Piece  BY <1>2
  <2> QED  BY <2>1, SubSeqProperties
<1> QED  BY <1>3, <1>4, <1>5

LEMMA PairIsConcat ==
  ASSUME NEW S, NEW a \in S, NEW b \in S
  PROVE  <<a>> \o <<b>> = <<a, b>>
<1>1. /\ <<a>> \in Seq(S) /\ <<b>> \in Seq(S) /\ <<a, b>> \in Seq(S)
      /\ Len(<<a>>) = 1 /\ Len(<<b>>) = 1 /\ Len(<<a, b>>) = 2
  OBVIOUS
<1> DEFINE both == <<a>> \o <<b>>
<1>2. both \in Seq(S) /\ Len(both) = 2 /\ both[1] = a /\ both[2] = b
  BY <1>1, ConcatProperties
<1>3. \A i \in 1 .. 2 : both[i] = <<a, b>>[i]
  <2> HIDE DEF both
  <2>1. <<a, b>>[1] = a /\ <<a, b>>[2] = b  OBVIOUS
  <2>2. \A i \in 1 .. 2 : i = 1 \/ i = 2  OBVIOUS
  <2> QED  BY <1>2, <2>1, <2>2
<1> HIDE DEF both
<1>4. both = <<a, b>>  BY <1>1, <1>2, <1>3, SeqEqual
<1> QED  BY <1>4 DEF both

(* The next piece of the line, behind the columns if there are none yet.   *)
LEMMA BegunGrows ==
  ASSUME NEW list \in Seq(Loops), NEW l \in Loops, NEW n \in Widths,
         NEW k \in 1 .. LineLength(n)
  PROVE  LET file == Begun(list, l, n, k - 1) IN
         Begun(list, l, n, k) =
           file \o (IF file = <<>> THEN <<Columns(n), Line(l, n)[k]>> ELSE <<Line(l, n)[k]>>)
<1> DEFINE head == <<Columns(n)>> \o Lines(list, n)
           line == Line(l, n)
           start == SubSeq(line, 1, k - 1)
<1>1. /\ line \in Seq(Piece) /\ Len(line) = LineLength(n) /\ line[k] \in Piece
      /\ LineLength(n) \in Nat
  BY LineFacts, LinePieces
<1>2. k - 1 \in 0 .. LineLength(n) /\ k # 0 /\ (k - 1 = 0 <=> k = 1)  BY <1>1
<1>3. /\ head \in Seq(Piece) /\ head # <<>> /\ start \in Seq(Piece)
      /\ list = <<>> => head = <<Columns(n)>>
  BY <1>2, BegunFacts
<1>4. SubSeq(line, 1, k) = start \o <<line[k]>>
  <2>1. 1 \in 1 .. Len(line) /\ k \in 1 .. Len(line)  BY <1>1
  <2> HIDE DEF line
  <2> QED  BY <1>1, <2>1, SubSeqRecursiveSecond
<1>5. Begun(list, l, n, k) = head \o SubSeq(line, 1, k)  BY <1>2 DEF Begun
<1>6. Begun(list, l, n, k - 1) = IF list = <<>> /\ k = 1 THEN <<>> ELSE head \o start
  BY <1>2 DEF Begun
<1>7. k = 1 => start = <<>>  BY SubSeqEmpty
<1> HIDE DEF head, line, start
<1>8. <<line[k]>> \in Seq(Piece)  BY <1>1
<1>9. CASE list = <<>> /\ k = 1
  <2>1. Begun(list, l, n, k) = <<Columns(n)>> \o <<line[k]>>
    <3>1. SubSeq(line, 1, k) = <<line[k]>>  BY <1>4, <1>7, <1>8, <1>9, ConcatEmptySeq
    <3> QED  BY <1>3, <1>5, <1>9, <3>1
  <2>2. <<Columns(n)>> \o <<line[k]>> = <<Columns(n), line[k]>>
    <3>1. Columns(n) \in Piece  BY ColumnsType
    <3> QED  BY <1>1, <3>1, PairIsConcat
  <2>3. <<Columns(n), line[k]>> \in Seq(Piece)
    <3>1. Columns(n) \in Piece  BY ColumnsType
    <3> QED  BY <1>1, <3>1
  <2> QED  BY <1>6, <1>9, <2>1, <2>2, <2>3, ConcatEmptySeq DEF line
<1>10. CASE ~(list = <<>> /\ k = 1)
  <2>1. head \o start # <<>>  BY <1>3, ConcatEqualIffEmpty
  <2>2. (head \o start) \o <<line[k]>> = head \o (start \o <<line[k]>>)
    BY <1>3, <1>8, ConcatAssociative
  <2> QED  BY <1>4, <1>5, <1>6, <1>10, <2>1, <2>2 DEF line
<1> QED  BY <1>9, <1>10

(* The end of the line makes it a table again. *)
LEMMA BegunEnds ==
  ASSUME NEW list \in Seq(Loops), NEW l \in Loops, NEW n \in Widths
  PROVE  /\ Begun(list, l, n, LineLength(n)) = <<Columns(n)>> \o Lines(Append(list, l), n)
         /\ Begun(list, l, n, 0) = IF list = <<>> THEN <<>> ELSE <<Columns(n)>> \o Lines(list, n)
<1> DEFINE line == Line(l, n)
           lines == Lines(list, n)
<1>1. /\ line \in Seq(Piece) /\ Len(line) = LineLength(n) /\ lines \in Seq(Piece)
      /\ LineLength(n) # 0
  <2>1. n * Counters \in Nat /\ LineLength(n) = n * Counters + 2  BY LineFacts
  <2>2. \A m \in Nat : m + 2 # 0  OBVIOUS
  <2> QED  BY <2>1, <2>2, LineFacts, LinesFacts, LinePieces
<1>2. <<Columns(n)>> \in Seq(Piece)
  <2>1. Columns(n) \in Piece  BY ColumnsType
  <2> QED  BY <2>1
<1>3. Lines(Append(list, l), n) = lines \o line  BY AppendedLine
<1>4. Begun(list, l, n, LineLength(n)) =
        (<<Columns(n)>> \o lines) \o SubSeq(line, 1, LineLength(n))
  BY <1>1 DEF Begun
<1>5. Begun(list, l, n, 0) =
        IF list = <<>> THEN <<>> ELSE (<<Columns(n)>> \o lines) \o SubSeq(line, 1, 0)
  BY DEF Begun
<1>6. <<Columns(n)>> \o lines \in Seq(Piece)  BY BegunFacts
<1>7. SubSeq(line, 1, 0) = <<>>  BY SubSeqEmpty
<1> HIDE DEF line, lines
<1>8. SubSeq(line, 1, LineLength(n)) = line  BY <1>1, SubSeqFull
<1>9. (<<Columns(n)>> \o lines) \o line = <<Columns(n)>> \o (lines \o line)
  BY <1>1, <1>2, ConcatAssociative
<1>10. (<<Columns(n)>> \o lines) \o <<>> = <<Columns(n)>> \o lines
  BY <1>6, ConcatEmptySeq
<1> QED  BY <1>3, <1>4, <1>5, <1>7, <1>8, <1>9, <1>10 DEF lines

-----------------------------------------------------------------------------
(* The tables                                                              *)

(* A file that no line is being written into is the table of its loops.    *)
Whole(p) ==
  IF due[p] = <<>>
  THEN files[p] = <<>>
  ELSE /\ Width(p) \in Widths
       /\ files[p] = <<Columns(Width(p))>> \o Lines(due[p], Width(p))

(* The file of the running line holds the pieces before the one at hand,   *)
(* or this one too, and the settings are those the line began with.        *)
Running(p) ==
  /\ writer.file = p
  /\ due[p] # <<>> /\ Last(due[p]) = writer.loop
  /\ \E k \in 1 .. LineLength(Groups) :
       /\ writer.piece = Line(writer.loop, Groups)[k]
       /\ files[p] = Begun(Front(due[p]), writer.loop, Groups, IF At("next") THEN k ELSE k - 1)
  /\ At("write") => writer.buffer = Content(writer.piece)

(* A line goes into the file of the present names, unless that is spoiled. *)
Tables ==
  \A p \in Paths \ spoiled :
    IF ~Quiet /\ p = Path THEN Running(p) ELSE (~Quiet => writer.file # p) /\ Whole(p)

LEMMA FrontAndLast ==
  ASSUME NEW list \in Seq(Loops)
  PROVE  /\ list # <<>> =>
              Front(list) \in Seq(Loops) /\ Append(Front(list), Last(list)) = list
         /\ \A l \in Loops : /\ Append(list, l) # <<>> /\ Front(Append(list, l)) = list
                             /\ Last(Append(list, l)) = l
<1>1. ASSUME list # <<>>
      PROVE  Front(list) \in Seq(Loops) /\ Append(Front(list), Last(list)) = list
  <2> DEFINE n == Len(list)
             front == SubSeq(list, 1, n - 1)
  <2>1. n \in Nat \ {0} /\ \A i \in 1 .. n : list[i] \in Loops  BY <1>1
  <2>2. front \in Seq(Loops) /\ Len(front) = n - 1 /\ \A i \in 1 .. n - 1 : front[i] = list[i]
    <3>1. \A i \in 1 .. n - 1 : list[i] \in Loops  BY <2>1
    <3>2. /\ front \in Seq(Loops) /\ Len(front) = IF 1 <= n - 1 THEN (n - 1) - 1 + 1 ELSE 0
          /\ \A i \in 1 .. (n - 1) - 1 + 1 : front[i] = list[1 + i - 1]
      <4> HIDE DEF n
      <4>1. 1 \in Int /\ n - 1 \in Int  BY <2>1
      <4> QED  BY <3>1, <4>1, SubSeqProperties
    <3> HIDE DEF front, n
    <3> QED  BY <2>1, <3>2
  <2> HIDE DEF front
  <2>3. /\ Append(front, list[n]) \in Seq(Loops) /\ Len(Append(front, list[n])) = n
        /\ \A i \in 1 .. n : Append(front, list[n])[i] = list[i]
    BY <2>1, <2>2, AppendProperties
  <2>4. Append(front, list[n]) = list  BY <2>3, SeqEqual
  <2> QED  BY <2>2, <2>4 DEF Front, Last, front
<1>2. ASSUME NEW l \in Loops
      PROVE  /\ Append(list, l) # <<>> /\ Front(Append(list, l)) = list
             /\ Last(Append(list, l)) = l
  <2> DEFINE longer == Append(list, l)
             n == Len(list)
  <2>1. /\ longer \in Seq(Loops) /\ longer # <<>> /\ Len(longer) = n + 1 /\ n \in Nat
        /\ longer[n + 1] = l /\ \A i \in 1 .. n : longer[i] = list[i]
    BY AppendProperties
  <2> HIDE DEF longer
  <2>2. (n + 1) - 1 = n /\ 1 \in Int /\ n \in Int  BY <2>1
  <2>3. \A i \in 1 .. n : longer[i] \in Loops  BY <2>1
  <2> DEFINE front == SubSeq(longer, 1, n)
  <2>4. /\ front \in Seq(Loops) /\ Len(front) = IF 1 <= n THEN n - 1 + 1 ELSE 0
        /\ \A i \in 1 .. n - 1 + 1 : front[i] = longer[1 + i - 1]
    <3> HIDE DEF n
    <3> QED  BY <2>2, <2>3, SubSeqProperties
  <2> HIDE DEF front
  <2>5. Len(front) = n /\ \A i \in 1 .. n : front[i] = list[i]  BY <2>1, <2>4
  <2>6. front = list  BY <2>4, <2>5, SeqEqual
  <2> QED  BY <2>1, <2>2, <2>6 DEF Front, Last, longer, front
<1> QED  BY <1>1, <1>2

LEMMA SettingsType ==
  ASSUME LInv
  PROVE  /\ iMLPX \in MlpxValues /\ Groups \in Widths /\ \A p \in Paths : due[p] \in Seq(Loops)
         /\ ~Quiet => writer \in WriterLocals /\ writer.loop \in Loops
BY LocalsFacts, GroupsFacts DEF LInv, TypeOK, WriterLocals

LEMMA InitMakesTables == Init => Tables
BY DEF Init, Tables, Quiet, Idle, Whole

LEMMA ReadKeepsTables ==
  ASSUME LInv, Tables, NEW l \in Loops, Read(l)
  PROVE  Tables'
<1> SUFFICES ASSUME NEW p \in Paths \ spoiled'
             PROVE  IF p = Path THEN Running(p)' ELSE writer'.file # p /\ Whole(p)'
  <2>1. ~Quiet'  BY DEF Read, Quiet
  <2>2. Path' = Path  BY DEF Read, settings, Path
  <2>3. Paths' = Paths  BY DEF Paths
  <2> QED  BY <2>1, <2>2, <2>3 DEF Tables
<1>1. /\ Quiet /\ p \notin spoiled /\ Whole(p)
      /\ p = Path => files[p] = <<>> \/ Width(p) = Groups
  BY DEF Read, Tables
<1>2. /\ writer' = [pc |-> "name", loop |-> l, piece |-> LoopPiece(l), file |-> Path,
                    EndOfFile |-> 0, buffer |-> <<>>]
      /\ due'[p] = IF p = Path THEN Append(due[p], l) ELSE due[p]
      /\ Groups' = Groups /\ files' = files
  BY DEF Read, settings, disk, Groups
<1>3. Groups \in Widths /\ due[p] \in Seq(Loops)  BY SettingsType
<1>4. ASSUME p = Path PROVE Running(p)'
  <2>1. /\ due'[p] # <<>> /\ Last(due'[p]) = l /\ Front(due'[p]) = due[p]
    BY <1>2, <1>3, <1>4, FrontAndLast
  <2>2. 1 \in 1 .. LineLength(Groups) /\ Line(l, Groups)[1] = LoopPiece(l)
    <3> HIDE DEF Groups
    <3>1. \A m \in Nat : 1 \in 1 .. m + 2  OBVIOUS
    <3> QED  BY <1>3, <3>1, LineFacts
  <2>3. files[p] = Begun(due[p], l, Groups, 0)
    <3> HIDE DEF Groups
    <3>1. CASE due[p] = <<>>
      BY <1>1, <3>1 DEF Whole, Begun
    <3>2. CASE due[p] # <<>>
      <4>1. files[p] # <<>>  BY <1>1, <1>3, <3>2, BegunFacts DEF Whole
      <4>2. files[p] = <<Columns(Groups)>> \o Lines(due[p], Groups)
        BY <1>1, <1>4, <3>2, <4>1 DEF Whole
      <4> QED  BY <1>3, <3>2, <4>2, BegunEnds
    <3> QED  BY <3>1, <3>2
  <2>4. /\ writer'.file = p /\ writer'.loop = l /\ writer'.piece = LoopPiece(l)
        /\ writer'.pc = "name"
    BY <1>2, <1>4
  <2> HIDE DEF Groups
  <2> QED  BY <1>2, <2>1, <2>2, <2>3, <2>4 DEF Running, At
<1>5. ASSUME p # Path PROVE writer'.file # p /\ Whole(p)'
  BY <1>1, <1>2, <1>5 DEF Whole, Width
<1> QED  BY <1>4, <1>5

(* Steps of WriteFileA that write nothing into a file that counts, and go  *)
(* to the next piece only when they lose this one.                         *)
LEMMA MovesKeepTables ==
  ASSUME LInv, Tables, UNCHANGED <<settings, due>>, spoiled \subseteq spoiled',
         \A p \in Paths \ spoiled' : files'[p] = files[p],
         ~Quiet, writer.pc # "next", writer'.pc # "idle",
         writer'.loop = writer.loop, writer'.piece = writer.piece,
         writer'.file = writer.file \/ writer'.file = Path,
         writer'.pc = "next" => ({writer.file} \cap Paths) \subseteq spoiled',
         writer'.pc = "write" => writer'.buffer = Content(writer.piece)'
  PROVE  Tables'
<1> SUFFICES ASSUME NEW p \in Paths \ spoiled'
             PROVE  IF p = Path THEN Running(p)' ELSE writer'.file # p /\ Whole(p)'
  BY DEF Tables, Quiet, settings, Path, Paths
<1>1. IF p = Path THEN Running(p) ELSE writer.file # p /\ Whole(p)  BY DEF Tables
<1>2. ASSUME p = Path PROVE Running(p)'
  <2>0. Groups' = Groups  BY DEF settings, Groups
  <2> HIDE DEF Groups
  <2>1. PICK k \in 1 .. LineLength(Groups) :
          /\ writer.piece = Line(writer.loop, Groups)[k]
          /\ files[p] = Begun(Front(due[p]), writer.loop, Groups, k - 1)
    BY <1>1, <1>2 DEF Running, At
  <2>2. writer'.pc # "next"  BY <1>1, <1>2 DEF Running
  <2> QED  BY <1>1, <1>2, <2>0, <2>1, <2>2 DEF Running, At
<1>3. ASSUME p # Path PROVE writer'.file # p /\ Whole(p)'
  BY <1>1, <1>3 DEF Whole, Width
<1> QED  BY <1>2, <1>3

LEMMA NextPieceKeepsTables ==
  ASSUME LInv, Tables, NextPiece
  PROVE  Tables'
<1> SUFFICES ASSUME NEW p \in Paths \ spoiled'
             PROVE  IF ~Quiet' /\ p = Path THEN Running(p)'
                    ELSE (~Quiet' => writer'.file # p) /\ Whole(p)'
  BY DEF Tables, NextPiece, settings, Path, Paths
<1>1. /\ ~Quiet /\ writer.pc = "next" /\ p \notin spoiled
      /\ writer' = IF writer.piece = EndOfLine THEN Idle
                   ELSE [writer EXCEPT !.pc = "name", !.piece = After(writer.piece)]
      /\ UNCHANGED <<iMLPX, files, due>> /\ Groups' = Groups
  BY DEF NextPiece, At, Quiet, settings, disk, history, Groups
<1>2. IF p = Path THEN Running(p) ELSE writer.file # p /\ Whole(p)  BY <1>1 DEF Tables
<1>3. /\ iMLPX \in MlpxValues /\ Groups \in Widths /\ due[p] \in Seq(Loops)
      /\ writer \in WriterLocals /\ writer.loop \in Loops
  BY <1>1, SettingsType
<1>4. writer.piece # EndOfLine =>
        /\ writer'.pc = "name" /\ writer'.piece = After(writer.piece)
        /\ writer'.loop = writer.loop /\ writer'.file = writer.file
  BY <1>1, <1>3 DEF WriterLocals
<1>5. ASSUME p = Path
      PROVE  IF writer.piece = EndOfLine THEN Whole(p)' ELSE Running(p)'
  <2> DEFINE done == Front(due[p])
             l == writer.loop
             n == Groups
  <2>0. n \in Widths /\ n' = n  BY <1>1, <1>3
  <2> HIDE DEF Groups
  <2>1. PICK k \in 1 .. LineLength(n) :
          writer.piece = Line(l, n)[k] /\ files[p] = Begun(done, l, n, k)
    BY <1>1, <1>2, <1>5 DEF Running, At
  <2>2. /\ due[p] # <<>> /\ done \in Seq(Loops) /\ Append(done, l) = due[p]
        /\ writer.file = p /\ Last(due[p]) = l
    BY <1>2, <1>3, <1>5, FrontAndLast DEF Running
  <2>3. ASSUME writer.piece = EndOfLine PROVE Whole(p)'
    <3>1. k = LineLength(n)  BY <1>3, <2>1, <2>3, AfterIsNext
    <3>2. files[p] = <<Columns(n)>> \o Lines(due[p], n)
      <4> HIDE DEF done
      <4>1. Begun(done, l, n, LineLength(n)) = <<Columns(n)>> \o Lines(Append(done, l), n)
        BY <1>3, <2>2, BegunEnds
      <4>2. files[p] = Begun(done, l, n, LineLength(n))  BY <2>1, <3>1
      <4> QED  BY <2>2, <4>1, <4>2
    <3>3. (<<Columns(n)>> \o Lines(due[p], n))[1] = Columns(n)  BY <1>3, BegunFacts
    <3>4. Width(p) = n  BY <3>2, <3>3 DEF Width, Columns
    <3> QED  BY <1>1, <1>3, <2>2, <3>2, <3>4 DEF Whole, Width
  <2>4. ASSUME writer.piece # EndOfLine PROVE Running(p)'
    <3>1. k # LineLength(n) /\ After(writer.piece) = Line(l, n)[k + 1]
      BY <1>3, <2>1, <2>4, AfterIsNext
    <3>2. k + 1 \in 1 .. LineLength(n) /\ (k + 1) - 1 = k
      <4>1. LineLength(n) \in Nat  BY <1>3, LineFacts
      <4> QED  BY <2>1, <3>1, <4>1
    <3>3. writer'.piece = Line(l, n)[k + 1]  BY <1>4, <2>4, <3>1
    <3>4. files[p] = Begun(done, l, n, (k + 1) - 1)  BY <2>1, <3>2
    <3> HIDE DEF done
    <3> QED  BY <1>1, <1>4, <2>2, <2>4, <3>2, <3>3, <3>4 DEF Running, At, done
  <2> QED  BY <2>3, <2>4
<1>6. p # Path => writer.file # p /\ Whole(p)'  BY <1>1, <1>2 DEF Whole, Width
<1>7. writer.piece = EndOfLine <=> Quiet'
  BY <1>1, <1>4 DEF Quiet, Idle
<1> QED  BY <1>4, <1>5, <1>6, <1>7

LEMMA WriteLogKeepsTables ==
  ASSUME LInv, Tables, WriteLog
  PROVE  Tables'
<1>1. /\ ~Quiet /\ writer.pc = "write" /\ writer' = [writer EXCEPT !.pc = "next"]
      /\ UNCHANGED <<settings, due, spoiled>> /\ Groups' = Groups
      /\ Writes(writer.EndOfFile) /\ At("write")
  BY DEF WriteLog, Writes, Goto, At, Quiet, settings, Groups
<1>2. /\ writer \in WriterLocals /\ writer.loop \in Loops /\ Groups \in Widths
      /\ \A p \in Paths : due[p] \in Seq(Loops)
  BY <1>1, SettingsType
<1>3. /\ writer'.pc = "next" /\ writer'.loop = writer.loop /\ writer'.piece = writer.piece
      /\ writer'.file = writer.file
  BY <1>1, <1>2 DEF WriterLocals
<1> SUFFICES ASSUME NEW p \in Paths \ spoiled
             PROVE  IF p = Path THEN Running(p)' ELSE writer.file # p /\ Whole(p)'
  BY <1>1, <1>3 DEF Tables, Quiet, settings, Path, Paths
<1>4. IF p = Path THEN Running(p) ELSE writer.file # p /\ Whole(p)  BY <1>1 DEF Tables
<1>5. files'[p] = IF p = writer.file THEN files[p] \o writer.buffer ELSE files[p]
  <2>1. p \notin adrift  BY DEF LInv
  <2>2. CASE p = writer.file  BY <1>1, <2>1, <2>2, WriteAppends DEF LInv, TypeOK
  <2>3. CASE p # writer.file  BY <1>1, <2>3 DEF Writes, LInv, TypeOK
  <2> QED  BY <2>2, <2>3
<1>6. ASSUME p = Path PROVE Running(p)'
  <2> DEFINE done == Front(due[p])
             l == writer.loop
             n == Groups
  <2> HIDE DEF Groups
  <2>1. PICK k \in 1 .. LineLength(n) :
          writer.piece = Line(l, n)[k] /\ files[p] = Begun(done, l, n, k - 1)
    BY <1>1, <1>4, <1>6 DEF Running, At
  <2>2. /\ due[p] # <<>> /\ done \in Seq(Loops)
        /\ writer.file = p /\ Last(due[p]) = l /\ writer.buffer = Content(writer.piece)
    BY <1>1, <1>2, <1>4, <1>6, FrontAndLast DEF Running, At
  <2>3. writer.EndOfFile = 0 <=> files[p] = <<>>
    <3>1. writer.EndOfFile = Len(files[p]) /\ files[p] \in Seq(Piece)
      BY <1>1, <2>2 DEF LInv, Placed, Writing, TypeOK, Tables
    <3> QED  BY <3>1
  <2>4. files'[p] = Begun(done, l, n, k)
    <3> HIDE DEF done
    <3>1. Begun(done, l, n, k) =
            Begun(done, l, n, k - 1) \o (IF Begun(done, l, n, k - 1) = <<>>
                                         THEN <<Columns(n), Line(l, n)[k]>>
                                         ELSE <<Line(l, n)[k]>>)
      BY <1>2, <2>1, <2>2, BegunGrows
    <3>2. writer.buffer = IF files[p] = <<>> THEN <<Columns(n), Line(l, n)[k]>>
                          ELSE <<Line(l, n)[k]>>
      BY <2>1, <2>2, <2>3 DEF Content
    <3>3. files'[p] = files[p] \o writer.buffer  BY <1>5, <2>2
    <3> QED  BY <2>1, <3>1, <3>2, <3>3
  <2> HIDE DEF done
  <2>5. UNCHANGED due /\ n' = n  BY <1>1
  <2> QED  BY <1>3, <2>1, <2>2, <2>4, <2>5 DEF Running, At, done
<1>7. ASSUME p # Path PROVE writer.file # p /\ Whole(p)'
  BY <1>1, <1>4, <1>5, <1>7 DEF Whole, Width
<1> QED  BY <1>6, <1>7

LEMMA RequestKeepsTables ==
  ASSUME Tables, UNCHANGED <<disk, writer, due>>, Disturb
  PROVE  Tables'
<1>1. UNCHANGED <<files, due, writer>>  BY DEF disk
<1>2. Quiet' = Quiet  BY <1>1 DEF Quiet
<1> SUFFICES ASSUME NEW p \in Paths \ spoiled'
             PROVE  IF ~Quiet /\ p = Path' THEN Running(p)'
                    ELSE (~Quiet => writer.file # p) /\ Whole(p)'
  BY <1>1, <1>2 DEF Tables, Paths
<1>3. p \notin spoiled /\ (~Quiet => p # Path /\ p # Path')  BY DEF Disturb
<1>4. (~Quiet => writer.file # p) /\ Whole(p)  BY <1>3 DEF Tables
<1> QED  BY <1>1, <1>3, <1>4 DEF Whole, Width

LEMMA NextKeepsTables == LInv /\ Tables /\ [Next]_vars => Tables'
<1> SUFFICES ASSUME LInv, Tables, [Next]_vars PROVE Tables'  OBVIOUS
<1> USE SettingsType
<1>1. \A l \in Loops : Read(l) => Tables'  BY ReadKeepsTables
<1>2. NextPiece => Tables'  BY NextPieceKeepsTables
<1>3. ASSUME IniteFileName PROVE Tables'
  BY <1>3, MovesKeepTables
  DEF IniteFileName, At, Quiet, WriterLocals, disk, history
<1>4. ASSUME CreateDirectory PROVE Tables'
  BY <1>4, MovesKeepTables DEF CreateDirectory, At, Goto, Quiet, WriterLocals, history
<1>5. ASSUME OpenLog PROVE Tables'
  BY <1>5, MovesKeepTables DEF OpenLog, CanOpen, Opens, At, Quiet, WriterLocals
<1>6. ASSUME QueryFails PROVE Tables'
  BY <1>6, MovesKeepTables DEF QueryFails, CanOpen, Opens, Lose, At, Quiet, WriterLocals
<1>7. ASSUME OpenFails PROVE Tables'
  BY <1>7, MovesKeepTables DEF OpenFails, Lose, At, Goto, Quiet, WriterLocals, disk
<1>8. ASSUME FillBuffer PROVE Tables'
  BY <1>8, MovesKeepTables
  DEF FillBuffer, Content, Groups, At, Quiet, WriterLocals, settings, disk, history
<1>9. ASSUME NoBuffer PROVE Tables'
  BY <1>9, MovesKeepTables DEF NoBuffer, Lose, At, Goto, Quiet, WriterLocals, disk
<1>10. WriteLog => Tables'  BY WriteLogKeepsTables
<1>11. ASSUME PositionFails PROVE Tables'
  <2>1. Writes(0) /\ At("write") /\ Lose  BY <1>11 DEF PositionFails, Writes
  <2>2. \A p \in Paths \ spoiled' : files'[p] = files[p]
    BY <2>1 DEF Writes, Lose, LInv, TypeOK
  <2> QED  BY <2>1, <2>2, MovesKeepTables DEF Writes, Lose, At, Goto, Quiet, WriterLocals
<1>12. ASSUME WriteFails PROVE Tables'
  BY <1>12, MovesKeepTables DEF WriteFails, Lose, At, Goto, Quiet, WriterLocals
<1>13. ASSUME NEW process \in Processes, SendPname(process) PROVE Tables'
  BY <1>13, RequestKeepsTables DEF SendPname
<1>14. ASSUME NEW name \in LogNames, SendLogFileName(name) PROVE Tables'
  BY <1>14, RequestKeepsTables DEF SendLogFileName
<1>15. ASSUME NEW n \in MlpxValues, SendMlpx(n) PROVE Tables'
  BY <1>15, RequestKeepsTables DEF SendMlpx
<1>16. ASSUME UNCHANGED vars PROVE Tables'
  BY <1>16
  DEF vars, settings, disk, history, Tables, Quiet, Path, Paths, Running, Whole, Width, At,
      Content, Groups
<1> QED
  BY <1>1, <1>2, <1>3, <1>4, <1>5, <1>6, <1>7, <1>8, <1>9, <1>10, <1>11, <1>12, <1>13, <1>14,
     <1>15, <1>16
  DEF Next, WriterStep

(* A file that no failure and no change of settings went over holds its    *)
(* columns and one whole line, in order and piece by piece, for each loop  *)
(* that was read into it.                                                  *)
THEOREM LogIsTables == Spec => []FilesAreTables
<1>1. Tables => FilesAreTables  BY DEF Tables, Whole, FilesAreTables
<1> QED
  BY <1>1, InitEstablishesLInv, NextKeepsLInv, InitMakesTables, NextKeepsTables, PTL DEF Spec
=============================================================================
