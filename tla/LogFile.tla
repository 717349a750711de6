------------------------------ MODULE LogFile ------------------------------
(***************************************************************************)
(* The log of WriteFile/WriteFile.c.  Remove_LoopList writes the line of a *)
(* loop in pieces, and WriteFileA opens, extends and closes the file anew  *)
(* for each of them, under the names and the iMLPX of that moment.  Those  *)
(* are set by requests (DispatchIoctl) of any other thread.                *)
(*                                                                         *)
(* One thread at a time reads.  Names and column names fit the buffers the *)
(* code has for them, and its string functions succeed.  A piece is an     *)
(* element of a file: its text is left out.                                *)
(*                                                                         *)
(* A definition under "Mutant" is the one after it with a plausible slip.  *)
(***************************************************************************)
EXTENDS Integers, Sequences, SequencesExt

CONSTANTS
  Processes,         \* the process names IOCTL_SEND_PNAME may carry
  NoProcess,         \* no name was sent: the path of the log is then no path
  LogNames,          \* the names IOCTL_SEND_LOGFILENAME may carry ...
  TmpCsv,            \* ... and "tmp.csv", the name until one is sent
  MlpxValues,        \* the numbers IOCTL_SEND_MLPX may carry; 1 is the initial one
  OutSet, MAX_PMCx,  \* the counters printed: OutSet .. MAX_PMCx - 1
  Loops,             \* the records that are read
  MaxReads,          \* bound on the reads
  MaxRequests,       \* bound on the requests
  MaxFailures        \* bound on the calls of the kernel that fail

ASSUME LogAssumption ==
  /\ NoProcess \notin Processes
  /\ TmpCsv \in LogNames
  /\ MlpxValues \subseteq Int /\ 1 \in MlpxValues
  /\ OutSet \in Nat /\ MAX_PMCx \in Nat /\ OutSet < MAX_PMCx
  /\ MaxReads \in Nat /\ MaxRequests \in Nat /\ MaxFailures \in Nat

VARIABLES
  Unicode_ProcessName, szLogFileName, iMLPX,  \* what requests set
  directories,  \* the processes whose directory exists
  files,        \* the pieces of every file that has been opened
  hFiles,       \* how many file handles are open
  writer,       \* Remove_LoopList and the WriteFileA it runs: place and locals
  reads, requests, failures,
  due,          \* history: the loops whose line belongs into a file, in order
  spoiled,      \* history: the files a failure or a change of settings went over
  adrift,       \* history: the files whose size or position could not be had once
  unbuffered    \* history: how often there was no memory for the buffer

settings == <<Unicode_ProcessName, szLogFileName, iMLPX>>
disk == <<directories, files, hFiles>>
counts == <<reads, requests, failures>>
history == <<due, spoiled, adrift, unbuffered>>
vars == <<settings, disk, writer, counts, history>>

Paths == [process : Processes, name : LogNames]
Path == [process |-> Unicode_ProcessName, name |-> szLogFileName]

(* The pieces: the column names, the branch and count of a loop, a total   *)
(* multiplied by the iMLPX of the moment, and the end of the line.         *)
Columns(n) == [kind |-> "columns", groups |-> n]
LoopPiece(l) == [kind |-> "loop", loop |-> l]
CellPiece(l, i, j, n) == [kind |-> "cell", loop |-> l, group |-> i, counter |-> j, times |-> n]
EndOfLine == [kind |-> "eol"]

(* A file some of which was written over, or with a gap in it.             *)
Torn == [kind |-> "torn"]

(* Both loops over the groups pass as many; none, if iMLPX is not positive. *)
Groups == IF iMLPX > 0 THEN iMLPX ELSE 0

Idle == [pc |-> "idle"]
Quiet == writer.pc = "idle"

Init ==
  /\ Unicode_ProcessName = NoProcess
  /\ szLogFileName = TmpCsv
  /\ iMLPX = 1
  /\ directories = {}
  /\ files = [p \in Paths |-> <<>>]
  /\ hFiles = 0
  /\ writer = Idle
  /\ reads = 0 /\ requests = 0 /\ failures = 0
  /\ due = [p \in Paths |-> <<>>]
  /\ spoiled = {} /\ adrift = {} /\ unbuffered = 0

At(pc) == writer.pc = pc
Goto(pc) == writer' = [writer EXCEPT !.pc = pc]

(* A call of the kernel fails. *)
Failure == failures < MaxFailures /\ failures' = failures + 1

-----------------------------------------------------------------------------
(* Remove_LoopList                                                         *)

(* How many groups of columns a file has. *)
Width(p) == files[p][1].groups

(* A loop that is reported: its first piece is put into szBuffer_BASE.     *)
Read(l) ==
  /\ Quiet
  /\ reads < MaxReads /\ reads' = reads + 1
  /\ writer' = [pc |-> "name", loop |-> l, piece |-> LoopPiece(l), file |-> Path,
                EndOfFile |-> 0, buffer |-> <<>>]
  /\ due' = [p \in Paths |-> IF p = Path THEN Append(due[p], l) ELSE due[p]]
  /\ spoiled' = spoiled \cup
       {p \in Paths \ spoiled : p = Path /\ files[p] # <<>> /\ Width(p) # Groups}
  /\ UNCHANGED <<settings, disk, requests, failures, adrift, unbuffered>>

(* Mutant: the line has no totals of the last group. *)
OneGroupLess(i) == i + 1 < iMLPX

(* Mutant: the line has totals of a group behind the last. *)
OneGroupMore(i) == i <= iMLPX

(* The loop over the groups looks at iMLPX anew before each of them.       *)
IsGroup(i) == i < iMLPX

(* What follows a piece: both loops of Remove_LoopList, over the groups    *)
(* and over the counters.                                                  *)
After(piece) ==
  LET l == writer.loop IN
  IF piece.kind = "loop" /\ IsGroup(0)
  THEN CellPiece(l, 0, OutSet, iMLPX)
  ELSE IF piece.kind = "cell" /\ piece.counter + 1 < MAX_PMCx
  THEN CellPiece(l, piece.group, piece.counter + 1, iMLPX)
  ELSE IF piece.kind = "cell" /\ IsGroup(piece.group + 1)
  THEN CellPiece(l, piece.group + 1, OutSet, iMLPX)
  ELSE EndOfLine

(* WriteFileA has returned; what it returned is not looked at.             *)
NextPiece ==
  /\ At("next")
  /\ writer' = IF writer.piece = EndOfLine
               THEN Idle
               ELSE [writer EXCEPT !.pc = "name", !.piece = After(@)]
  /\ UNCHANGED <<settings, disk, counts, history>>

-----------------------------------------------------------------------------
(* WriteFileA                                                              *)

(* The process' name without ".exe" is the directory. *)
IniteFileName ==
  /\ At("name")
  /\ writer' = [writer EXCEPT !.pc = "open", !.file = Path]
  /\ UNCHANGED <<settings, disk, counts, history>>

Lose == spoiled' = spoiled \cup ({writer.file} \cap Paths)

(* The directory is made if it can be; its status is not looked at.        *)
CreateDirectory ==
  /\ At("open")
  /\ \/ /\ directories' = directories \cup ({writer.file.process} \cap Processes)
        /\ UNCHANGED failures
     \/ Failure /\ UNCHANGED directories
  /\ Goto("create")
  /\ UNCHANGED <<settings, files, hFiles, reads, requests, history>>

CanOpen == At("create") /\ writer.file.process \in directories

(* FILE_OPEN_IF; fsi says the file has a size. *)
Opens(size) ==
  /\ hFiles' = hFiles + 1
  /\ writer' = [writer EXCEPT !.pc = "buffer", !.EndOfFile = size]
  /\ UNCHANGED <<settings, directories, files, reads, requests, due, unbuffered>>

OpenLog ==
  /\ CanOpen
  /\ Opens(Len(files[writer.file]))
  /\ UNCHANGED <<failures, spoiled, adrift>>

(* The size cannot be had, and fsi is what it was: an offset in the file   *)
(* or behind it.                                                           *)
QueryFails ==
  /\ CanOpen
  /\ \E size \in 0 .. Len(files[writer.file]) + 1 : Opens(size)
  /\ Failure
  /\ adrift' = adrift \cup {writer.file}
  /\ Lose

(* Mutant: the piece is tried again. *)
OpenAgain ==
  /\ At("create")
  /\ \/ writer.file.process \notin directories /\ UNCHANGED failures
     \/ Failure
  /\ Goto("name")
  /\ UNCHANGED <<settings, disk, reads, requests, history>>

(* Without a path or a directory, or when ZwCreateFile fails: the piece is *)
(* lost.                                                                   *)
OpenFails ==
  /\ At("create")
  /\ \/ writer.file.process \notin directories /\ UNCHANGED failures
     \/ Failure
  /\ Goto("next")
  /\ Lose
  /\ UNCHANGED <<settings, disk, reads, requests, due, adrift, unbuffered>>

(* Mutant: the columns are repeated before every loop. *)
ContentPerLoop(piece) ==
  IF piece.kind = "loop" THEN <<Columns(Groups), piece>> ELSE <<piece>>

(* An empty file gets its columns first. *)
Content(piece) ==
  IF writer.EndOfFile = 0 THEN <<Columns(Groups), piece>> ELSE <<piece>>

FillBuffer ==
  /\ At("buffer")
  /\ writer' = [writer EXCEPT !.pc = "write", !.buffer = Content(writer.piece)]
  /\ UNCHANGED <<settings, disk, counts, history>>

(* No memory for the buffer: WriteFileA returns and leaves the file open.  *)
NoBuffer ==
  /\ At("buffer")
  /\ Failure
  /\ Goto("next")
  /\ Lose
  /\ unbuffered' = unbuffered + 1
  /\ UNCHANGED <<settings, disk, reads, requests, due, adrift>>

(* A file with a buffer written into it at an offset. *)
WithBuffer(file, offset) ==
  IF offset = Len(file) THEN file \o writer.buffer ELSE <<Torn>>

(* The buffer is written and freed, and the file closed. *)
Writes(offset) ==
  /\ At("write")
  /\ files' = [files EXCEPT ![writer.file] = WithBuffer(@, offset)]
  /\ hFiles' = hFiles - 1
  /\ Goto("next")
  /\ UNCHANGED <<settings, directories, reads, requests, due, unbuffered>>

(* Mutant: the position is not set. *)
WriteLogAtStart == Writes(0) /\ UNCHANGED <<failures, spoiled, adrift>>

(* Mutant: the file is not closed. *)
WriteLogOpen ==
  /\ At("write")
  /\ files' = [files EXCEPT ![writer.file] = WithBuffer(@, writer.EndOfFile)]
  /\ Goto("next")
  /\ UNCHANGED <<settings, directories, hFiles, counts, history>>

(* The position is set to the size read before. *)
WriteLog == Writes(writer.EndOfFile) /\ UNCHANGED <<failures, spoiled, adrift>>

(* The position cannot be set, and is still the beginning of the file.     *)
PositionFails ==
  /\ Writes(0)
  /\ Failure
  /\ adrift' = adrift \cup {writer.file}
  /\ Lose

(* Nothing is written; the file is closed all the same. *)
WriteFails ==
  /\ At("write")
  /\ Failure
  /\ hFiles' = hFiles - 1
  /\ Goto("next")
  /\ Lose
  /\ UNCHANGED <<settings, directories, files, reads, requests, due, adrift, unbuffered>>

-----------------------------------------------------------------------------
(* DispatchIoctl, as far as the log depends on it                          *)

Request == requests < MaxRequests /\ requests' = requests + 1

(* A change while a line is being written goes over both files. *)
Disturb == spoiled' = IF Quiet THEN spoiled ELSE spoiled \cup ({Path, Path'} \cap Paths)

SendPname(process) ==
  /\ Request
  /\ Unicode_ProcessName' = process
  /\ UNCHANGED <<szLogFileName, iMLPX, disk, writer, reads, failures, due, adrift, unbuffered>>
  /\ Disturb

SendLogFileName(name) ==
  /\ Request
  /\ szLogFileName' = name
  /\ UNCHANGED <<Unicode_ProcessName, iMLPX, disk, writer, reads, failures, due, adrift, unbuffered>>
  /\ Disturb

SendMlpx(n) ==
  /\ Request
  /\ iMLPX' = n
  /\ UNCHANGED <<Unicode_ProcessName, szLogFileName, disk, writer, reads, failures, due, adrift, unbuffered>>
  /\ Disturb

WriterStep ==
  \/ NextPiece \/ IniteFileName \/ CreateDirectory
  \/ OpenLog \/ OpenFails \/ QueryFails
  \/ FillBuffer \/ NoBuffer
  \/ WriteLog \/ PositionFails \/ WriteFails

Next ==
  \/ \E l \in Loops : Read(l)
  \/ WriterStep
  \/ \E process \in Processes : SendPname(process)
  \/ \E name \in LogNames : SendLogFileName(name)
  \/ \E n \in MlpxValues : SendMlpx(n)

Spec == Init /\ [][Next]_vars

(* The reading thread is not starved. *)
FairSpec == Spec /\ WF_vars(WriterStep)

-----------------------------------------------------------------------------
(* Properties                                                              *)

(* The groups that one of the numbers sent makes a line have. *)
Group == {i \in Nat : \E n \in MlpxValues : i < n}

Piece ==
  [kind : {"columns"}, groups : MlpxValues \cup {0}]
    \cup [kind : {"loop"}, loop : Loops]
    \cup [kind : {"cell"}, loop : Loops, group : Group, counter : OutSet .. MAX_PMCx - 1,
          times : MlpxValues]
    \cup {EndOfLine, Torn}

(* Every variable has the type its declaration in the source gives it, and *)
(* no piece is of a group that no iMLPX has had.                           *)
TypeOK ==
  /\ Unicode_ProcessName \in Processes \cup {NoProcess}
  /\ szLogFileName \in LogNames
  /\ iMLPX \in MlpxValues
  /\ directories \subseteq Processes
  /\ files \in [Paths -> Seq(Piece)]
  /\ hFiles \in Nat
  /\ due \in [Paths -> Seq(Loops)] /\ spoiled \subseteq Paths
  /\ adrift \subseteq Paths /\ unbuffered \in Nat

(* A line with n groups: the loop, its totals group by group and counter   *)
(* by counter, each multiplied by n, and the end of the line.              *)
Line(l, n) ==
  LET width == MAX_PMCx - OutSet
      cells == [k \in 1 .. n * width |->
                  CellPiece(l, (k - 1) \div width, OutSet + ((k - 1) % width), n)]
  IN  <<LoopPiece(l)>> \o cells \o <<EndOfLine>>

LineLength(n) == n * (MAX_PMCx - OutSet) + 2

(* The lines of a list of loops, one behind the other.                     *)
Lines(list, n) ==
  LET length == LineLength(n)
  IN  [k \in 1 .. Len(list) * length |->
         Line(list[((k - 1) \div length) + 1], n)[((k - 1) % length) + 1]]

(* A file over which no call failed, and no setting changed while it was  *)
(* written or between its lines, is one table: the columns once, then a    *)
(* whole line for every loop read, in the order of the reads, each with    *)
(* the totals its columns name.                                            *)
FilesAreTables ==
  Quiet => \A p \in Paths \ spoiled :
             files[p] = IF due[p] = <<>> THEN <<>>
                        ELSE <<Columns(Width(p))>> \o Lines(due[p], Width(p))

(* Whatever directories, files, buffers and writes fail, and whatever is   *)
(* sent in the middle of a line, a file that has anything in it begins     *)
(* with its columns and has them once.  Where the size or the position of  *)
(* a file could not be had, WriteFileA writes over it, and all is open.    *)
ColumnsOnce ==
  \A p \in Paths \ adrift :
    \A i \in DOMAIN files[p] : files[p][i].kind = "columns" <=> i = 1

(* What was written into such a file stays as it was written: a piece goes *)
(* behind the last one, although it is placed by a size read before the    *)
(* buffer was made, and although earlier pieces may have been lost.        *)
FilesOnlyGrow == [][\A p \in Paths \ adrift' : IsPrefix(files[p], files'[p])]_vars

(* The handle opened for each piece is closed again, whatever fails and    *)
(* whatever is sent; but each time there was no memory for the buffer one  *)
(* stays open for ever.                                                    *)
HandlesReturned == Quiet => hFiles = unbuffered

(* Every Read ends, whatever it could not write. *)
ReadsEnd == ~Quiet ~> Quiet
=============================================================================
