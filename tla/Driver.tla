------------------------------- MODULE Driver -------------------------------
(***************************************************************************)
(* Loading and unloading: DriverEntry and LoopHPCsUnload (LoopHPCs.c) with *)
(* the hardware checks (checks/) and CreateDevice (device/device.c), and   *)
(* in between what a client does to the resources they own.  A whole       *)
(* capture is one handle here; PebsSession takes it apart.  The conversion *)
(* of a name that is sent succeeds.                                        *)
(*                                                                         *)
(* The I/O manager lets clients in only when DriverEntry has returned, and *)
(* unloads a driver only when none of its handles is open.                 *)
(*                                                                         *)
(* A definition under "Mutant" is the one after it with a plausible slip;  *)
(* nothing uses it but the experiments that break a property on purpose.   *)
(***************************************************************************)
EXTENDS Integers

CONSTANTS
  Machines,      \* the machines the driver may be loaded on
  MaxLoads,      \* bound on the number of times it is loaded
  MaxLoops,      \* bound on the loops recorded at a time
  MaxRequests,   \* bound on the names, and on the semaphores, that are held at a time
  Lengths,       \* the lengths a process name may have
  MlpxValues,    \* the numbers IOCTL_SEND_MLPX may carry; 1 is the initial one
  Multiplexing,  \* the rows of totals a record has
  IoMayFail,     \* TRUE: a call of the I/O manager, the HAL or the object manager may fail
  PoolMayFail    \* TRUE: ExAllocatePool may return NULL

(* What the checks look at: the vendor, the base of the local APIC, the    *)
(* CPUID bits DTES64 and DS, the BTS-unavailable bit, the PEBS format.     *)
Machine ==
  [intel : BOOLEAN, remapped : BOOLEAN, dtes64 : BOOLEAN, ds : BOOLEAN,
   bts_unavailable : BOOLEAN, PEBs_V : 0 .. 15]

ASSUME DriverAssumption ==
  /\ Machines \subseteq Machine
  /\ MaxLoads \in Nat /\ MaxLoops \in Nat /\ MaxRequests \in Nat
  /\ Lengths \subseteq Nat
  /\ MlpxValues \subseteq Int /\ 1 \in MlpxValues
  /\ Multiplexing \in Nat \ {0}
  /\ IoMayFail \in BOOLEAN /\ PoolMayFail \in BOOLEAN

VARIABLES
  machine,
  stage,             \* "absent", a step of DriverEntry or LoopHPCsUnload, "loaded"
  loads,             \* how often the driver was loaded
  pebs_record_size,
  held,              \* what the driver holds of Resources
  extensions,        \* the blocks allocated for DeviceExtension
  loops,             \* the records in the list
  handle,            \* a client has the device open, and a capture runs
  astray,            \* Multiplex_Index is no row of a record
  iMLPX,             \* how many rows a client wants used
  names, Length,     \* name buffers allocated; Unicode_ProcessName.Length
  Buffer,            \* TRUE: Unicode_ProcessName.Buffer is not NULL
  semaphores,        \* references held to semaphores
  g_pSemaphore,      \* TRUE: not NULL
  crashed,           \* a bug check, or a step whose effect is undefined
  failed,            \* history: the calls that failed since the load
  reckless,          \* history: since the load a client sent an iMLPX that is no number
                     \* of rows, or read an empty list
  lost               \* history: the names and semaphores no pointer leads to any more

(* DeviceObject, its symbolic link, the hook of the profile interrupt,     *)
(* such a hook that leads into an image unloaded since, LoopList_Header,   *)
(* szBuffer_BASE                                                           *)
Resources == {"device", "link", "hook", "old_hook", "list", "buffer"}

entry == <<machine, loads, pebs_record_size, held, extensions>>
list == <<loops, astray>>
requests == <<iMLPX, names, Length, Buffer, semaphores, g_pSemaphore>>
history == <<failed, reckless, lost>>
vars == <<stage, entry, list, handle, requests, crashed, history>>

Init ==
  /\ machine \in Machines
  /\ stage = "absent" /\ loads = 0 /\ pebs_record_size = 0
  /\ held = {} /\ extensions = 0
  /\ loops = 0 /\ astray = FALSE /\ handle = FALSE
  /\ iMLPX = 1 /\ names = 0 /\ Length = 0 /\ Buffer = FALSE
  /\ semaphores = 0 /\ g_pSemaphore = FALSE
  /\ crashed = FALSE
  /\ failed = {} /\ reckless = FALSE /\ lost = [names |-> 0, semaphores |-> 0]

At(from, to) == ~crashed /\ stage = from /\ stage' = to

(* A call that fails only when the run lets it: TRUE when it does not.     *)
Outcomes(mayFail) == {ok \in BOOLEAN : mayFail \/ ok}
Note(call, ok) == failed' = IF ok THEN failed ELSE failed \cup {call}

(* A step whose effect the language leaves open under a condition.         *)
MayCrash(condition) == crashed' \in {b \in BOOLEAN : b => condition}

-----------------------------------------------------------------------------
(* The checks                                                              *)

CPU_check(m) == m.intel
check_apic(m) == ~m.remapped
check_is_64(m) == m.dtes64
check_has_ds(m) == m.ds
check_has_bts(m) == ~m.bts_unavailable

(* TRUE: NO_ERROR *)
perform_checks(m) ==
  CPU_check(m) /\ check_apic(m) /\ check_is_64(m) /\ check_has_ds(m) /\ check_has_bts(m)
    /\ m.PEBs_V \in 1 .. 3

(* Mutant: the case of format 3 is missing.                                *)
RecordSizeTwoFormats(format) ==
  CASE format = 1 -> 22 [] format = 2 -> 24 [] OTHER -> 0

(* sizeof the record of a format, in 64-bit words; no format is read, and  *)
(* the size stays 0, when an earlier check fails.                          *)
RecordSize(format) ==
  CASE format = 1 -> 22 [] format = 2 -> 24 [] format = 3 -> 25 [] OTHER -> 0

-----------------------------------------------------------------------------
(* DriverEntry                                                             *)

Load ==
  /\ loads < MaxLoads
  /\ At("absent", "check")
  /\ loads' = loads + 1
  /\ failed' = {} /\ reckless' = FALSE
  /\ UNCHANGED <<machine, pebs_record_size, held, extensions, list, handle, requests, crashed, lost>>

(* A failed check is printed, and its status lost to CreateDevice's.       *)
Check ==
  /\ At("check", "device")
  /\ pebs_record_size' = IF perform_checks(machine) THEN RecordSize(machine.PEBs_V) ELSE 0
  /\ UNCHANGED <<machine, loads, held, extensions, list, handle, requests, crashed, history>>

(* What a step of loading leaves alone. *)
SameButHeld ==
  UNCHANGED <<machine, loads, pebs_record_size, list, handle, requests, reckless, lost>>

(* Without its link the device is deleted again; a link that is still      *)
(* there cannot be created.                                                *)
CreateDevice ==
  /\ At("device", "extension")
  /\ \E ok \in Outcomes(IoMayFail \/ "link" \in held) :
       /\ ok => "link" \notin held
       /\ held' = IF ok THEN held \cup {"device", "link"} ELSE held
       /\ Note("CreateDevice", ok)
  /\ SameButHeld /\ UNCHANGED <<extensions, crashed>>

(* The extension is reached through DeviceObject, be it NULL.              *)
SetExtension ==
  /\ At("extension", "hook")
  /\ \E ok \in Outcomes(PoolMayFail) : extensions' = IF ok THEN extensions + 1 ELSE extensions
  /\ crashed' = ("device" \notin held)
  /\ SameButHeld /\ UNCHANGED <<held, failed>>

hook_handler ==
  /\ At("hook", "list")
  /\ \E ok \in Outcomes(IoMayFail) :
       /\ held' = IF ok THEN (held \cup {"hook"}) \ {"old_hook"} ELSE held
       /\ Note("hook_handler", ok)
  /\ SameButHeld /\ UNCHANGED <<extensions, crashed>>

create_list ==
  /\ At("list", "buffer")
  /\ \E ok \in Outcomes(PoolMayFail) :
       /\ held' = IF ok THEN held \cup {"list"} ELSE held
       /\ Note("create_list", ok)
  /\ SameButHeld /\ UNCHANGED <<extensions, crashed>>

(* The buffer is cleared without looking whether there is one.             *)
AllocBuffer ==
  /\ At("buffer", "loaded")
  /\ \E ok \in Outcomes(PoolMayFail) :
       /\ held' = IF ok THEN held \cup {"buffer"} ELSE held
       /\ crashed' = ~ok
       /\ Note("AllocBuffer", ok)
  /\ SameButHeld /\ UNCHANGED extensions

-----------------------------------------------------------------------------
(* A client                                                                *)

(* A step of a client or of the hardware while the driver is loaded.       *)
Busy == ~crashed /\ stage = "loaded" /\ UNCHANGED <<stage, entry>>

(* An MSR the processor does not have faults.                              *)
HasPebs(m) == m.intel /\ m.ds

(* Create uses what it allocates without looking at it.                    *)
Open ==
  /\ Busy
  /\ "link" \in held /\ ~handle
  /\ handle' = TRUE
  /\ \E ok \in Outcomes(PoolMayFail) :
       /\ crashed' = (~HasPebs(machine) \/ ~ok)
       /\ Note("Create", ok)
  /\ astray' = FALSE
  /\ UNCHANGED <<loops, requests, reckless, lost>>

CloseHandle ==
  /\ Busy
  /\ handle
  /\ handle' = FALSE
  /\ UNCHANGED <<list, requests, crashed, history>>

(* A loop that is new: the rows below iMLPX are zeroed.                    *)
NewLoop ==
  /\ loops < MaxLoops /\ loops' = loops + 1
  /\ MayCrash(iMLPX > Multiplexing)
  /\ UNCHANGED astray

(* A loop that is in the list: a row is added to, and the next one comes   *)
(* from a division by iMLPX.                                               *)
KnownLoop ==
  /\ loops > 0
  /\ IF iMLPX = 0 THEN crashed' = TRUE /\ UNCHANGED astray
     ELSE /\ MayCrash(astray)
          /\ astray' \in {b \in BOOLEAN : b => iMLPX \notin 1 .. Multiplexing}
  /\ UNCHANGED loops

(* The interrupt finds the hook: MyCode divides by pebs_record_size, looks *)
(* for a loop if there is a list, and the row says what is counted next.   *)
Sample ==
  /\ Busy
  /\ handle
  /\ \/ /\ "old_hook" \in held \/ ("hook" \in held /\ pebs_record_size = 0)
        /\ crashed' = TRUE
        /\ UNCHANGED list
     \/ /\ "hook" \in held /\ pebs_record_size # 0
        /\ \/ "list" \in held /\ (NewLoop \/ KnownLoop)
           \/ MayCrash(astray) /\ UNCHANGED list
  /\ UNCHANGED <<handle, requests, history>>

(* Remove_LoopList of a record prints the rows below iMLPX.                *)
RemoveRecord ==
  /\ loops > 0 /\ loops' = loops - 1
  /\ MayCrash(iMLPX > Multiplexing)

(* Remove_LoopList does not ask whether there is a list; of an empty one   *)
(* it takes the header for a record, and frees it.                         *)
Read ==
  /\ Busy
  /\ handle
  /\ \/ "list" \in held /\ RemoveRecord /\ UNCHANGED reckless
     \/ "list" \in held /\ loops = 0 /\ crashed' = TRUE /\ reckless' = TRUE /\ UNCHANGED loops
     \/ "list" \notin held /\ crashed' = TRUE /\ UNCHANGED <<loops, reckless>>
  /\ UNCHANGED <<astray, handle, requests, failed, lost>>

SendMlpx(n) ==
  /\ Busy
  /\ handle
  /\ iMLPX' = n
  /\ reckless' = (reckless \/ n \notin 1 .. Multiplexing)
  /\ UNCHANGED <<list, handle, names, Length, Buffer, semaphores, g_pSemaphore, crashed, failed, lost>>

(* IOCTL_SEND_PNAME: a buffer is allocated even for an empty name, and the *)
(* one of the name before forgotten.                                       *)
SendPname(length) ==
  /\ Busy
  /\ handle /\ names < MaxRequests
  /\ names' = names + 1
  /\ Length' = length /\ Buffer' = TRUE
  /\ lost' = IF Buffer THEN [lost EXCEPT !.names = @ + 1] ELSE lost
  /\ UNCHANGED <<list, handle, iMLPX, semaphores, g_pSemaphore, crashed, failed, reckless>>

(* IOCTL_SET_Semp: a call that fails returns no pointer; the one before is *)
(* forgotten either way.                                                   *)
SetSemp ==
  /\ Busy
  /\ handle /\ semaphores < MaxRequests
  /\ g_pSemaphore' \in Outcomes(IoMayFail)
  /\ semaphores' = IF g_pSemaphore' THEN semaphores + 1 ELSE semaphores
  /\ lost' = IF g_pSemaphore THEN [lost EXCEPT !.semaphores = @ + 1] ELSE lost
  /\ UNCHANGED <<list, handle, iMLPX, names, Length, Buffer, crashed, failed, reckless>>

-----------------------------------------------------------------------------
(* LoopHPCsUnload                                                          *)

(* What most steps of unloading leave alone. *)
SameOnUnload == UNCHANGED <<machine, loads, pebs_record_size, extensions, handle, astray, reckless>>

unhook_handler ==
  /\ ~handle
  /\ At("loaded", "destroy")
  /\ \E ok \in Outcomes(IoMayFail) :
       /\ held' = IF ok THEN held \ {"hook", "old_hook"} ELSE held
       /\ Note("unhook_handler", ok)
  /\ SameOnUnload /\ UNCHANGED <<loops, requests, crashed, lost>>

(* Mutant: the line is written and the record stays.                       *)
DestroyWritesOnly ==
  /\ loops > 0
  /\ At("destroy", "destroy")
  /\ UNCHANGED vars

(* destroy_list: one record after the other, then the header               *)
DestroyRecord ==
  /\ At("destroy", "destroy")
  /\ RemoveRecord
  /\ SameOnUnload /\ UNCHANGED <<held, requests, failed, lost>>

DestroyHeader ==
  /\ loops = 0
  /\ At("destroy", "name")
  /\ held' = held \ {"list"}
  /\ SameOnUnload /\ UNCHANGED <<loops, requests, crashed, failed, lost>>

(* Mutant: the buffer is freed even if no name was sent.                   *)
FreeNameAlways ==
  /\ At("name", "delete")
  /\ names' = names - 1 /\ Length' = 0 /\ Buffer' = FALSE
  /\ SameOnUnload
  /\ UNCHANGED <<held, loops, iMLPX, semaphores, g_pSemaphore, crashed, failed, lost>>

(* The buffer of an empty name is not freed. *)
FreeName ==
  /\ At("name", "delete")
  /\ IF Length # 0
     THEN names' = names - 1 /\ Length' = 0 /\ Buffer' = FALSE
     ELSE UNCHANGED <<names, Length, Buffer>>
  /\ SameOnUnload
  /\ UNCHANGED <<held, loops, iMLPX, semaphores, g_pSemaphore, crashed, failed, lost>>

(* Mutant: the link is left to name a device that is gone.                 *)
DeleteDeviceOnly ==
  /\ At("delete", "semaphore")
  /\ held' = held \ {"device"}
  /\ SameOnUnload /\ UNCHANGED <<loops, requests, crashed, failed, lost>>

DeleteDevice ==
  /\ At("delete", "semaphore")
  /\ \E ok \in Outcomes(IoMayFail) :
       /\ held' = held \ (IF ok THEN {"link", "device"} ELSE {"device"})
       /\ Note("IoDeleteSymbolicLink", ok)
  /\ SameOnUnload /\ UNCHANGED <<loops, requests, crashed, lost>>

(* Mutant: the pointer is cleared before it is looked at.                  *)
ClearSemaphore ==
  /\ At("semaphore", "free")
  /\ g_pSemaphore' = FALSE
  /\ SameOnUnload
  /\ UNCHANGED <<held, loops, iMLPX, names, Length, Buffer, semaphores, crashed, failed, lost>>

DropSemaphore ==
  /\ At("semaphore", "free")
  /\ semaphores' = IF g_pSemaphore THEN semaphores - 1 ELSE semaphores
  /\ g_pSemaphore' = FALSE
  /\ SameOnUnload
  /\ UNCHANGED <<held, loops, iMLPX, names, Length, Buffer, crashed, failed, lost>>

(* The last step; the image and its globals go with it, and what a hook    *)
(* leads to.                                                               *)
FreeBuffer ==
  /\ At("free", "absent")
  /\ held' = {IF r = "hook" THEN "old_hook" ELSE r : r \in held \ {"buffer"}}
  /\ pebs_record_size' = 0 /\ iMLPX' = 1 /\ astray' = FALSE
  /\ Length' = 0 /\ Buffer' = FALSE
  /\ lost' = IF Buffer /\ Length = 0 THEN [lost EXCEPT !.names = @ + 1] ELSE lost
  /\ UNCHANGED <<machine, loads, extensions, loops, handle, names, semaphores, g_pSemaphore,
                 crashed, failed, reckless>>

DriverEntry ==
  Check \/ CreateDevice \/ SetExtension \/ hook_handler \/ create_list \/ AllocBuffer

LoopHPCsUnload ==
  DestroyRecord \/ DestroyHeader \/ FreeName \/ DeleteDevice \/ DropSemaphore \/ FreeBuffer

Next ==
  \/ Load \/ DriverEntry
  \/ Open \/ CloseHandle \/ Sample \/ Read \/ SetSemp
  \/ \E length \in Lengths : SendPname(length)
  \/ \E n \in MlpxValues : SendMlpx(n)
  \/ unhook_handler \/ LoopHPCsUnload

Spec == Init /\ [][Next]_vars

(* A thread that has begun to unload the driver goes on.                   *)
FairSpec == Spec /\ WF_vars(LoopHPCsUnload)
-----------------------------------------------------------------------------
(* Properties                                                              *)

(* The variables stay within their types: a record, a name buffer or a     *)
(* semaphore is never given back more often than it was taken.             *)
TypeOK ==
  /\ machine \in Machines
  /\ stage \in {"absent", "check", "device", "extension", "hook", "list", "buffer", "loaded",
                "destroy", "name", "delete", "semaphore", "free"}
  /\ loads \in 0 .. MaxLoads
  /\ pebs_record_size \in {0, 22, 24, 25}
  /\ held \subseteq Resources /\ extensions \in Nat
  /\ loops \in 0 .. MaxLoops /\ astray \in BOOLEAN
  /\ iMLPX \in MlpxValues
  /\ names \in Nat /\ Length \in Nat /\ Buffer \in BOOLEAN
  /\ semaphores \in Nat /\ g_pSemaphore \in BOOLEAN
  /\ handle \in BOOLEAN /\ crashed \in BOOLEAN
  /\ failed \subseteq {"CreateDevice", "hook_handler", "create_list", "AllocBuffer", "Create",
                       "unhook_handler", "IoDeleteSymbolicLink"}
  /\ reckless \in BOOLEAN /\ lost \in [names : Nat, semaphores : Nat]

(* What a failing call refused to take back at the last unload.            *)
Refused ==
  (IF "unhook_handler" \in failed THEN {"old_hook"} ELSE {})
    \cup (IF "IoDeleteSymbolicLink" \in failed THEN {"link"} ELSE {})

(* LoopHPCsUnload undoes DriverEntry, whichever of its steps had failed,   *)
(* and whatever the captures in between recorded: the device, its name,    *)
(* the hook, the list with its records and the buffer are gone.  What it   *)
(* leaves is the link or the hook where the call that removes it failed,   *)
(* for nobody looks, and of each load one block at most, the               *)
(* DeviceExtension, for nobody frees it.                                   *)
UnloadUndoesLoad ==
  stage = "absent" => held \subseteq Refused /\ loops = 0 /\ extensions <= loads

(* What the clients had the driver allocate or refer to is given back by   *)
(* the unload, except for what was lost before: the name buffers and the   *)
(* semaphores whose pointer a later request overwrote, and the buffer of   *)
(* a last name that is empty.                                              *)
UnloadReleasesRequests ==
  stage = "absent" => names = lost.names /\ semaphores = lost.semaphores

(* The driver brings the system down only on a processor its checks        *)
(* refuse, after the creation of its device or an allocation failed, where *)
(* a hook of an earlier load was neither removed nor replaced, or after a  *)
(* client read an empty list or sent an iMLPX that is no number of rows.   *)
CrashHasACause ==
  crashed =>
    \/ ~perform_checks(machine)
    \/ failed \cap {"CreateDevice", "create_list", "AllocBuffer", "Create"} # {}
    \/ "old_hook" \in held /\ "hook_handler" \in failed
    \/ reckless

(* Unloading comes to its end: destroy_list empties the list, unless the   *)
(* rows it prints bring the system down.                                   *)
UnloadEnds == stage = "destroy" ~> stage = "absent" \/ crashed

(* A driver that is loaded runs on a machine its checks accept: apic.c     *)
(* says of a relocated APIC that an error is raised.                       *)
LoadPassedChecks == stage = "loaded" => perform_checks(machine)
=============================================================================
