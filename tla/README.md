# LoopHPCs: a verification project

LoopHPCs (`src/src/`) is a Windows kernel driver that profiles the loops of a
running program. It programs the performance counters of one core so that the
hardware stores a PEBS record and raises an interrupt after a number of
events; the interrupt handler reads the record and the branch in the LBR, and
charges what the counters measured to the loop that branch closes. A client
opens the device to start a capture, closes it to stop, and reads to have
loops written to a log file.

This directory holds TLA+ modules of the driver, the TLC configurations that
check them on small instances, and theorems about them that TLAPS checks for
every value of the constants. Paths below are relative to `src/src/`.

## 1. The system

| Component | State | Operations | Talks to |
|---|---|---|---|
| **Loop list** `list/list.c` | `LoopList_Header` (records: branch, sample count, active flag, start and end totals per event group), `LenofLoopList`; `Multiplex_Index`, `iMLPX` | `Find_Insert_LoopList`, `Remove_LoopList`, `create_list`, `destroy_list` | fed by `get_LBR` at interrupt level; emptied by `Read` and by unloading |
| **Capture session** `IO/IO.c`, `Threading/thread.c`, `simple-pebs.c`, `LBR/LBR.c` | per core: `GLOBAL_CTRL`, `PEBS_ENABLE`, `EVNTSEL`, the DS area MSR, the LVT entry, LBR; globals `DS_BASE`, `PEBS_BUFFER`, `Old_DS`, `DLAListHeader` | `Create` (`ThreadStart`: attach, `setup_PEBDS`, `enable_PEB`, `enable_LBR`), `Close` (`ThreadStop`: the way back) | the PMU; the interrupt handler, through the globals |
| **Interrupt handler** `PMI.c`, `MyCode.c` | the PMU of the interrupted core, the record in the DS area | `PMI`: stop, `MyCode`, reset the index, arm again | called by the hardware; calls `get_LBR` and the list |
| **Read and IOCTLs** `IO/IO.c` | names, `iMLPX`, `g_pSemaphore`, `Unicode_ProcessName` | `Read`, `DispatchIoctl`, `NotSupported` | the client; the list |
| **Log file** `WriteFile/WriteFile.c` | the names requests set (`Unicode_ProcessName`, `szLogFileName`), the buffers `szBuffer_BASE` and `wcstr`, the files themselves | `WriteFileA`: name, directory, open, columns, append, close, once for each piece of text | called by `Remove_LoopList`; reads what `DispatchIoctl` sets |
| **Loading and unloading** `LoopHPCs.c`, `device/device.c` | device object, symbolic link, hook, list header, log buffer | `DriverEntry`, `CreateDevice`, `LoopHPCsUnload` | the I/O manager; every component's globals |
| **Hardware checks** `checks/` | `pebs_record_size`, `LBR_SIZE` | `perform_checks` | CPUID, MSRs; its result is used by `DriverEntry`, its record size by `MyCode` |
| Debug output `dbg/`, thread suspension `StopThread.c`, `Threading/SuspendThread.cpp`, magic check `MagicCheck/` | none used by the driver | prints; the others are never called | |

What is hard about it:

- **Interleaving.** `PMI` interrupts the target core between any two
  instructions of `Create` and `Close`, and works on the same globals and
  MSRs. `Read` runs on another core while `PMI` changes the list; the list's
  spin lock is initialised and never taken.
- **Order.** Which of "MSR off", "global changed", "memory freed" comes first
  decides whether the hardware and the handler ever use freed memory.
- **Steps inside a call.** A record is linked and unlinked in several writes,
  and freed before it is unlinked; a log line is written in pieces, each of
  which opens the file again under the names of that moment.
- **Long sequences.** What a loop cost is reconstructed from the branches that
  were seen: in and out of nested loops, across captures, with event groups
  taking turns and totals that wrap.
- **Sharing.** One set of globals serves all handles, and nothing stops a
  second `CreateFile`.
- **Partial failure.** No allocation for the capture is looked at, and
  `DriverEntry` prints failures and goes on; nor does `LoopHPCsUnload` look
  whether the hook and the link are gone. A piece of the log that cannot be
  written is dropped and the line goes on without it, and one whose place in
  the file is not known is written all the same.

What makes each component correct:

- *List*: one record per loop; an active flag that says where the program is;
  the difference of the totals is what was counted inside the loop; a line of
  the log says that and nothing else.
- *Session*: an open handle means that the core samples and its interrupts get
  through; a closed one, that nothing counts, the memory is back and of the
  hardware only what the code does not restore has changed; at any moment
  the handler and the hardware mean the same DS area, allocated, with the
  record that raised the interrupt; only the target core is involved; every
  call returns.
- *List in memory*: after every call the links form one ring over exactly the
  records that are allocated, and the call did what it does on the abstract
  list; every walk ends.
- *Log*: columns once and at the top, then whole lines in the order of the
  reads; nothing written is overwritten; every handle is closed; each of these
  but where a named call failed.
- *Loading*: what unloading leaves behind is exactly what the code forgets or
  a failing call refused; the system is brought down only for one of the
  causes named; unloading ends.

`PROJECT.json` lists the components, the hazards by line, and the source lines
each definition stands for.

## 2. Modules

| Module | Models |
|---|---|
| `LoopTypes` | constants and pure operators: the branch filter, what a loop is, arithmetic that wraps |
| `LoopProfile` | **abstract**: what the list promises, a map from loops to sample counts and costs |
| `LoopList` | the list of `list.c`, one call per step; implements `LoopProfile` |
| `LoopListMem` | the same calls in memory, the writes of the links and of the length one per step; implements `LoopList` where calls do not overlap |
| `LogFile` | the log: pieces, files, names, requests in between, failures |
| `Capture` | **abstract**: what start and stop promise, a stream of samples each handed over once |
| `PebsSession` | `Create`, `Close`, the PMU and `PMI`, step by step, on several cores; implements `Capture` |
| `Driver` | `DriverEntry`, `LoopHPCsUnload`, the checks, and what clients make the driver hold |
| `MCLoopList`, `MCLoopListMem`, `MCLogFile`, `MCPebsSession`, `MCDriver` | instances for TLC |
| `LoopListProofs`, `LoopListRefinement`, `LoopListMemProofs`, `LoopListMemRefinement`, `LogFileProofs`, `PebsSessionProofs`, `DriverProofs` | theorems |

They compose by refinement and by what they assume of one another:
`LoopListMem` implements `LoopList`, which implements `LoopProfile`.
`PebsSession` lets the handler choose any group to count next, as long as it
is a row of `StaticMask`; `LoopList` is what chooses it, and `NeverBroken`
with its type invariant is the proof that it chooses a row. In the other
direction `LoopList` takes the reading of a sample to be of the group
`Multiplex_Index`, which is `ReadingsMatchGroup`. `LogFile` writes the pieces
of the line that `LoopList` computes as one value.

A definition under a comment "Mutant" is a neighbour with a plausible slip. No
specification uses it: each shows, when put in place of that neighbour, that a
property of a run would notice the slip.

### LoopList and LoopProfile

State variables carry the names of the source. `Find_Insert_LoopList(FROM, TO,
reading)` is one sample that passed the filters (`Profiled`, `IsLoop`):
`Visit` is what the search does to each record it passes (re-entry moves the
start totals, every sample moves the end totals, the active flag follows the
target), `NewLoop` is the record appended for a loop met for the first time,
with only the rows below `iMLPX` set to 0; the others hold `Junk`.
`Remove_LoopList` takes the oldest record and yields its log line. `SetMlpx`
is `IOCTL_SEND_MLPX`, `StartCapture` the part of `Create` the list depends on.
`iMLPX` may be any number of 32 bits, as `atoi` gives it; the remainder that
chooses the next group is unsigned, so that a negative one counts from the
width of the sample count down. What C does not define (dividing by `iMLPX` =
0, a row past an array, removing from an empty list) is a step to `broken`,
from which nothing continues.

`LoopProfile` says the same without records: a loop gains a sample, and what
was counted since the last sample is its cost if execution had not left it.
The mapping reads a loop's cost as `PMC_End - PMC_Start` (mod 2^64) and the
inside set as the active flags (`ImplementsProfile`).

The four totals of the source that are kept alike (instructions, cycles, the
counters) are the members of `PMCs`.

### LoopListMem

The variables are the links of every cell (`Flink`, `Blink`; the header is a
cell), what each block holds (`info`), which blocks are allocated, and the
place and local variables of the calls in progress: one search in the
interrupt handler of the target core (`search`), one removal per reading
thread (`removal`). `SearchVisit` is one turn of the loop, `Allocate` the new
record, `LinkEntry` (both links of the entry), `LinkLast` and `LinkHeader` are
`InsertTailList`,
`RemoveFree` frees the first record, `RemoveLinks` (both links read),
`UnlinkForward` and `UnlinkBackward` are `RemoveEntryList`, and `LenofLoopList` is read and
written in steps of its own. What happens to a record is `Visit`, `NewLoop`
and `LogLine` of `LoopList`, taken over by INSTANCE. `list_lock` has no place
in the model, since nothing takes it. Three steps are coarser than single
accesses: a turn of the search with all it does to one record, the two writes
to an entry that is not in the ring yet, and the two reads of the entry that is
removed. With `Overlap` = FALSE a call begins
when no other is running (the client reads between captures).

Two history variables, which no step reads, carry the properties. `order` is
the blocks inserted and not removed, oldest first: `LinksWhole` compares the
ring with it. `settled` is the list as it was when a call last returned:
`ImplementsList` maps it to the list of `LoopList`, so that a call takes effect
where it returns and every earlier access is a stutter.

### LogFile

`writer` is the one Read in progress: which loop, which piece of its line, and
where `WriteFileA` is (`name`, `open`, `create`, `buffer`, `write`, `next`),
with its local copy of the size. A file is the sequence of its pieces: the
columns for a number of groups, the branch and count of a loop, a total with
the factor it was multiplied by, the end of a line. `After` is both loops of
`Remove_LoopList`, which look at `iMLPX` again before each group. `SendPname`,
`SendLogFileName` and `SendMlpx` may come between any two steps.
Six calls may fail, one at a time up to a bound, and the code goes on as it
does. `CreateDirectory`: nobody notices unless the directory is needed.
`OpenFails` and `WriteFails`: the piece is lost. `NoBuffer`: it is lost and its
handle stays open. `QueryFails`: the size is whatever `fsi` held, an offset in
the file or behind it. `PositionFails`: the piece goes to the beginning of the
file. A file written over, or with a gap, is `Torn`. The string functions of
the kernel are taken to succeed.

The history variable `due` lists the loops whose line belongs into a file,
`spoiled` the files a failure or a change of settings went over, `adrift`
those whose size or position could not be had once, and `unbuffered` counts
the buffers that could not be had. `FilesAreTables` speaks of the files that
are not spoiled, `ColumnsOnce` and `FilesOnlyGrow` of those not adrift, and
`HandlesReturned` says that `unbuffered` handles are open and no other.

### Capture and PebsSession

`Capture` has a phase (off, starting, on, stopping), the group being counted
and the sample on its way, and says what `IO.c` means by "Create/CLose work as
Start/Stop": samples are taken one at a time, handed over once and as one of
the group counted, and none is left when the stop is done. `PebsSession` maps
its phase to where the IRPs are (`CapturePhase`), and the sample to a record
that stands in the DS area of the target core and that `MyCode` has not read,
with the row the first counter was armed from as its group (`PendingSample`).
`ImplementsCapture` thereby relates the hardware, the globals, the handler and
the client's calls.

`pc[c]` is the step of a client thread's IRP, named after the code that comes
next; a step is what runs between two accesses of state the handler also uses.
`Step` lets a thread run only when its core is not in the handler. The PMU is
a record per core. `Overflow` is the hardware: it stores a record through the
DS area *MSR*, and interrupts if the LVT is open, which masks the LVT.
`PmiStop`, `PmiMyCode`, `PmiRearm` go through the *globals*, as the code does.
A PMI overtakes every thread of its core, and two cores are never ordered.
Freed blocks may be allocated again; touching or freeing a block that is not
allocated is a bug check (`crashed`). `Migrate` is the scheduler, for threads
without system affinity. MyCode's choice of the next group is any row here,
because `LoopList` decides it.

`ClosedMeansStopped` says what is left when no handle is open and no call in
progress: every core is off and the pool empty. Two things of the target core
are not as before, and the property says how they are: `Old_DS` keeps 32 bits
of the DS area there was (`RestoredDS`), and the LVT entry stays open, as
Create left it. A third is the thread that opened: `ThreadStart` binds it to
the target core, and only `ThreadStop` lets go, of the thread that closes.
The history variable `left` holds the openers whose handle another thread
closed; `PinnedAreOpeners` says that these and the openers of the handles in
use are the threads bound to the core.

### Driver

One action per step of `DriverEntry` and `LoopHPCsUnload`. `stage` says which
is next. `held` is the set of resources that exist. `Machine` is what the checks look at, and each check a predicate
of it. The I/O manager's rules are guards: no client before `DriverEntry`
returned, no unloading with a handle open. A capture is one flag here.

May fail: `CreateDevice`, `hook_handler`, `unhook_handler`,
`IoDeleteSymbolicLink`, `ObReferenceObjectByHandle` (`IoMayFail`) and every
allocation, those of `Create` included, but that of a name (`PoolMayFail`); the
code goes on as the source does. A hook or a link that could not be removed is
still there at the next load: the link keeps `CreateDevice` from making its
own, and the hook leads into an image that is gone (`old_hook`) until another
is put in its place. `extensions` counts the blocks of the device extension,
which are allocated at each load and never freed while `_PMI_` is defined.

Clients may send any `iMLPX`, read an empty list, and send names, empty ones
too, and semaphores again: `Read` takes an empty list apart as the code does,
a sample divides by `iMLPX`, and a row past those of a record is a step that
may crash (`MayCrash`), remembered in `astray` when it is the group to count
next. The history variables say what happened since the load: `failed` and
`reckless` are the causes that `CrashHasACause` admits, and `lost` counts the
names and semaphores no pointer leads to any more, which
`UnloadReleasesRequests` says are the only ones kept. A name's conversion to
Unicode is taken to succeed.

## 3. Runs

Runs that pass:

| Run | Shows | States |
|---|---|---|
| `list_groups` | two event groups taking turns, overlapping loops, careful client: `TypeOK`, `OneRecordPerLoop`, `NeverBroken`, `LogsMeasuredRows`, and the list implements the profile | 45,718 |
| `list_reckless` | three loops, one of which contains the others; any `iMLPX`, negative, 0 and too large included, and reads of an empty list: up to the first undefined step `OneRecordPerLoop`, `ActiveAtOneTarget` and the profile hold | 154,796 |
| `mem_serial` | the list in memory, write by write: `TypeOK`, `LinksWhole` after every call, each call one step of `LoopList`, `CallsReturn` | 106,414 |
| `log_file` | two reads, three requests and one failure, of any of six calls, in every order: `FilesAreTables`, `ColumnsOnce`, `HandlesReturned`, `FilesOnlyGrow`, `ReadsEnd` | 823,310 |
| `pebs_session` | handles opened in turn, and closed by their own thread or by another on another core, under interrupts, the cores having had a DS area before: all session properties, `PinnedAreOpeners`, `ImplementsCapture`, `EverySampleRead` and `EveryCallReturns` | 84,976 |
| `pebs_overlap` | calls of two threads that overlap, and failing allocations: still `OnlyTargetCounts` | 1.0 M |
| `driver_loads` | two loads, on machines that pass the checks and machines that fail each check alone, any calls failing, with clients that send names, semaphores and any `iMLPX` and read an empty list: `TypeOK`, `UnloadUndoesLoad`, `UnloadReleasesRequests`, `CrashHasACause`, `UnloadEnds` | 327,776 |

Runs that end in a counterexample, each a place where the code and a sentence
of the source disagree (quoted in `PROJECT.json`, "findings"):

| Run | Violated | Because |
|---|---|---|
| `list_empty_read` | `EmptyReadHarmless` | a Read with no loop recorded frees the list header |
| `list_late_mlpx` | `LogsMeasuredRows` | raising `iMLPX` while a loop is recorded prints totals nobody set |
| `mem_overlap` | `LinksWhole` | a Read removes the only record between two of the writes that link a new one: the header's backward link stays on freed memory |
| `pebs_two_handles_stop` | `ClosedMeansStopped` | a second `Create` forgets what the first one allocated |
| `driver_relocated` | `LoadPassedChecks` | the status of failed checks is overwritten |

Deadlock is checked where the system cannot stop. It is off where it can:
after a bug check or an undefined step, when `Driver` has been loaded
`MaxLoads` times, and when `LogFile` has used up its bounds. `mem_serial` and
`pebs_session`, where nothing may stop, check it.

### Bounds, and why they are enough

- *Addresses*: four or five, so that loops overlap, nest, or contain one
  another, a target lies in several loops or none, a branch is too long or out
  of the image, and one loop falls into the original code that is not reported.
- `Width` = 2, `CounterWidth` = 3 or 4: totals and the sample count wrap after
  a few samples, so that every wrap meets every state of the list. The
  theorems hold for any widths.
- `Multiplexing` = 2 event groups as in `simple-pebs.h`, or 1 where the client
  is reckless; `iMLPX` -1, 0 and one more than the groups besides the legal
  ones (-1 and 0 are the same to the log: no groups).
- *Clients, cores*: two of each; the target core and another. Two clients are
  what it takes to hand over, to overlap, and to close for one another.
- *Blocks*: three are what one session allocates, so that a leaked or doubly
  freed block shows at once; four where calls overlap, so that a second Create
  runs over a session that is complete. Two handles are never both open then,
  for which six blocks would be needed, more than TLC gets through;
  `SessionOnlyTargetCounts` is proved for any number.
- *List blocks* 2, one reader: a list of none, one and two records, so that a
  record is inserted and removed at the front, at the end and as the only one,
  its neighbours being the header or a record; a freed block is used again.
  Three addresses make two loops that share a target, which is then met as an
  entry by one and as a branch by the other.
- *Log*: two reads, so that a file is begun and continued; three requests, so
  that the name can be changed and changed back, or the name and `iMLPX` both,
  within or between lines; one failure, which may hit any of the six calls.
- *Requests* to `Driver`: two names and two semaphores held at a time, of which
  the second makes the first lost; names of length 0 and 1; `iMLPX` 0, 1, 3.
- *Loads* 2: the second load starts from what the first left. *Machines*: one
  that fails each check alone, and the formats just below and above the known.

### Fairness

`PebsSession!FairSpec`: the handler, once entered, runs to its end (WF), since
nothing preempts it. Steps of an IRP get strong fairness: interrupts disable
them again and again, but the counters count user mode only, so a kernel
thread is not interrupted for ever, and the scheduler starves nobody. Opening,
closing, moving and overflowing are never required to happen.
`Driver!FairSpec`: a thread that has begun to unload goes on (WF). `LogFile!FairSpec`: the reading thread is not starved (WF of its next step).
`LoopListMem!FairSpec`: the handler runs to its end, and no reading thread is
starved (WF of the steps of each call, without overlap, where nothing disables
them); beginning a call is never due. `LoopList` and `pebs_overlap` assume no
fairness.

## 4. Proofs

| Theorem | For all values of the constants |
|---|---|
| `LoopListProofs!TypeCorrect`, `LoopsUnique` | the list is well typed; a loop has one record and the length is right, for any client |
| `LoopListProofs!CarefulNeverBroken`, `CarefulLogsMeasured` | a careful client (`iMLPX` in 1 .. `Multiplexing`, set while the list is empty, no read of an empty list) never meets an undefined step nor an uninitialised total |
| `LoopListProofs!ActiveFlagsAgree` | some address lies in exactly the loops flagged active, for any client; there is an address at all (`Addr` # {}) |
| `LoopListRefinement!ListImplementsProfile` | the list implements `LoopProfile` |
| `LoopListMemProofs!RingWhole` | without overlap, the links are whole after every call, over exactly the allocated blocks |
| `LoopListMemRefinement!MemTypes`, `MemImplementsList`, `MemImplementsProfile` | without overlap, the list in memory is well typed and implements `LoopList`, and with it `LoopProfile` |
| `LogFileProofs!LogTypes` | files, handles and names are well typed, whatever fails |
| `LogFileProofs!LogColumnsOnce`, `LogOnlyGrows` | every file whose size and position could always be had begins with its columns, has them once, and only grows, for any number of reads, requests and failures of the other calls |
| `LogFileProofs!LogHandlesReturned` | between reads as many handles are open as there were buffers that could not be had |
| `LogFileProofs!LogIsTables` | a file that no failure and no change of settings went over is its columns and one whole line for each loop read, for any number of groups and counters |
| `PebsSessionProofs!SessionTypes` | well typed even with overlapping sessions and failing allocations |
| `PebsSessionProofs!SessionPmiReadsItsRecord`, `SessionReadingsMatchGroup`, `SessionNoBugcheck`, `SessionOpenMeansCapturing`, `SessionImplementsCapture` | with one session at a time (`Overlap` = FALSE), whatever DS area the cores had before; `SessionNoBugcheck` also with no failing allocation |
| `PebsSessionProofs!SessionClosedMeansStopped` | with one session at a time, whatever DS area the cores had: when it is over the memory is back and every core is off; the target core has 32 bits of its DS area and an open LVT entry |
| `PebsSessionProofs!SessionPinnedAreOpeners` | with one session at a time, the threads bound to the target core between calls are the opener of the handle in use and those whose handle another thread closed |
| `PebsSessionProofs!SessionOnlyTargetCounts` | only the target core is set up, even with overlapping sessions and failing allocations |
| `DriverProofs!DriverTypes` | nothing is given back twice |
| `DriverProofs!UnloadIsComplete` | unloading leaves the link or the hook where the call that removes it failed, one device extension for each load, and nothing else |
| `DriverProofs!OnlyCausedCrashes` | a crash has one of the causes `CrashHasACause` lists |
| `DriverProofs!UnloadReleases` | unloading gives back every name and semaphore but those whose pointer was lost, for any number of them and names of any length |

**The list.** `OneRecordPerLoop` is inductive with the types. `NeverBroken`
and `LogsMeasuredRows` need `iMLPX` to stay legal and every record to have its
rows below `iMLPX` initialised, which is why the client must not move `iMLPX`
under recorded loops. The refinement goes record by record: the mapping's
`CHOOSE` is resolved by uniqueness, a sample by what `Visit` does to the
difference of the totals modulo `Width`. For `ActiveAtOneTarget` the witness is
the target of the last sample: `Visit` sets the flag of every record by it.

**The list in memory.** `LinksWhole` says nothing while a call runs, so the
invariant `RInv` says at every step how far the ring is ahead of, or behind,
`order`: `Ring` gives the links between calls, `InsertProgress` which of the
three writes of an insertion are done and that the new block is not yet in the
ring, `RemoveProgress` the same for a removal, `Owned` that the allocated
blocks are those of `order`, but for the one being inserted or removed, and
`OneCall` that only one of these is under way. The removal of the first of a
sequence is the one argument about sequences; it is done on indices.

*Its refinement.* `MInv` adds to `RInv` what a running call has made of the
list it started from (`settled`). A search that has passed k records has
applied `Visit` to these and to no other (`WorkedUpTo`), and `Multiplex_Index`
is still that of the start unless the one record of the sample's loop is among
them (`GroupAfter`). That a record met later reads the group already switched
does no harm, because `Visit` adds the reading to the row of the group only in
that one record: this needs `OneRecordPerLoop` of the settled list, so that the
invariant of `LoopList` is a conjunct of `MInv`, kept by the very step that is
being shown. A new record is `NewLoop` from its allocation on, and on the ring
behind the last after `LinkHeader`. A removal has printed the line of the
oldest record, and after `UnlinkBackward` the ring holds the tail. `SearchReturn`
and `LenIncrement` are then `Find_Insert_LoopList`, `LenDecrement` is
`Remove_LoopList`, and every other access of a call is a stutter.
`LenofLoopList`, read in one step and written in another, is not stale, since
only one call runs. The lemmas of `LoopListProofs` and the theorem of
`LoopListRefinement` are used through INSTANCE, as statements about the settled
list; that is how `MemImplementsProfile` follows.

**The log.** The invariant `LInv` ties `EndOfFile` and the buffer of the writer
to the file they were read from while it is between `OpenLog` and `WriteLog`
(`Placed`), and counts the open handles by the place of the writer and the
buffers that could not be had (`Handles`). Only one thread writes, so the size
is not stale when it is used; this is where the restriction to one reading
thread enters. A file is excepted from `Placed` once its size or position could
not be had: nothing is said of what is in it then, and it is among the spoiled.

*Its tables.* `Tables` says of every file that is not spoiled that it is whole,
or, of the one the running line goes into, that it is a table of the earlier
loops and the first pieces of one line more (`Begun`), that the piece at hand
is the next one of that line, and that the names and `iMLPX` are those the line
began with. What `After` computes from the piece at hand, in two nested loops,
is thus compared with the line as a whole, whose pieces are given by their
index (`AfterIsNext`: the group is the quotient and the counter the remainder
by the number of counters). A request or a failure in the middle of a line
spoils the files concerned at once, so that nothing need be said of them.
`Lines` gives the pieces of several lines by their index as well, since what is
folded over a list would have to be proved by induction over it; the run
`log_file` checks the ASSUME `LinesFlatten`, that this is the lines put end to
end.

**The session.** No property is inductive alone: what the handler may find
depends on how far the only session has come. `Phase` derives that from `pc`
and `opened`. The invariant `SInv` says, phase by phase, which blocks are
allocated and that they differ (`Owned`), that the thread is on the target
core (`Placed`), and what the target's MSRs, handler and record count are
(`TargetPMU`, through `Fits`); the other cores are as they were (`OthersOff`).
There is one lemma per step; each property then follows from `SInv` by its
phase. Nothing is assumed of the DS area a core had before: until a session sets its
own, the MSR of the target core holds that one or 32 bits of it (`Foreign`),
neither of which is memory of the driver, and afterwards the latter, since
keeping 32 bits of what was kept changes nothing more. The refinement of `Capture` reads off the phase and the sample in the
same way (`PhasesOfCapture`, `SampleOnItsWay`) and goes through the steps:
only four of those of a client and two of the hardware's change the capture,
and the others stutter. `PinnedAreOpeners` follows from `Bound`, which says
the same of each thread that is not between `ThreadStart` and `ThreadStop` of
its own call. `OnlyTargetCounts` does not need the phases: a thread about to
write an MSR is pinned to the target core (`Placed`), whatever overlaps.

**The driver.** `Undone` gives the resources that may be held at each stage
(`MayHold`), so that a resource created by `DriverEntry` is seen to be taken
away by its step of `LoopHPCsUnload`, and says that a hook or a link still
there behind that step is one whose removal failed. `Counted` says that a name
buffer or semaphore is the one its pointer leads to or is lost, and that the
pointer is gone behind its step of unloading. `Caused` says that at the point
of use only what failed is missing, that the record size is known after passing
checks, and that only a reckless client makes `iMLPX` or the group to count
next name a row that is not there.

The larger invariants were checked by TLC before they were proved, on the
instances of the runs: `MInv`, but for its sets of records and sequences, in
the 106,414 states of `mem_serial`, `Tables` in the 823,310 of `log_file`,
`SInv` in the 84,976 of `pebs_session`, and `Counted`, `Undone` and `Caused` in
the 327,776 of `driver_loads`.
Every safety property and every refinement that a passing run
checks is also a theorem.

Only model-checked: the liveness properties (`CallsReturn`, `ReadsEnd`,
`EveryCallReturns`, `EverySampleRead`, `UnloadEnds`), which rest on fairness,
where the prover does not reach, and `LinesFlatten`, which speaks of a fold. The
counterexamples are TLC's.

## 5. Not modelled

- Two Reads at once. They would share `szBuffer_BASE` and `wcstr` besides the
  list; `mem_overlap` shows one of them against the handler.
- Two IOCTLs at once, which share the buffer `tmp`.
- The reply of `Read` (it copies `bdata`, which is never set), the status of
  IOCTLs, and the values they store that the driver never reads (PID, TID,
  addresses).
- The text of the log: the label of a column (group 0 is headed by the name of
  another event than the one `StaticMask` counts, `WriteFile/WriteFile.c:21`
  and `simple-pebs.c:14`), names longer than their buffers, the Unicode string
  leaked for each piece, files of 4 GiB (only `EndOfFile.LowPart` is used). The
  string functions of the kernel, which allocate that string, do not fail.
- Debug output. Thread suspension (`StopThread.c`,
  `Threading/SuspendThread.cpp`), the magic check, `CleanLoop`, `ListLength`
  and the affinity tests of `LoopHPCs.c`, which nothing calls.
- What the device extension holds (it is unused when `_PMI_` is defined) and
  the affinity of the thread that loads the driver.
- Layout and sizes of memory: the list header allocated with the size of a
  pointer, the periods read past the end of a `StaticMask` row, the 16-bit
  `NumberofPMCs`. The value a counter is armed with, and hence that PMC1,
  armed at -1, is read back as if it had started at 0. The hazard list names
  them.

Two further disagreements are consequences of findings above and have no run
of their own: when a Create overlaps a session a sample may be read through the
wrong `DS_BASE` (`PmiReadsItsRecord` fails where `Overlap` is TRUE), and a failed
`CreateDevice` is followed by a write through NULL (a cause `CrashHasACause`
admits).

## 6. Plan

Done: all modules of section 2, their runs, and the theorems of section 4.
Left:

1. The list in memory with overlapping calls: what still holds then, for
   instance that an insertion and a removal of different records keep the
   forward links whole.
2. Overlapping sessions: which properties survive a second `Create`, beyond
   `OnlyTargetCounts`.
