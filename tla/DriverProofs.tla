---------------------------- MODULE DriverProofs ----------------------------
(***************************************************************************)
(* Theorems about Driver: for every set of machines, every bound, whatever *)
(* clients send and whatever fails, what unloading leaves behind is known, *)
(* and so is what brings the system down.                                  *)
(***************************************************************************)
EXTENDS Driver, TLAPS

USE DriverAssumption

(* LoopHPCsUnload has begun. *)
Unloading == stage \in {"destroy", "name", "delete", "semaphore", "free"}

(* What may be held at each step of loading and unloading.                 *)
MayHold ==
  CASE stage \in {"absent", "check", "device"} -> {"link", "old_hook"}
    [] stage \in {"extension", "hook"} -> {"device", "link", "old_hook"}
    [] stage = "list" -> {"device", "link", "hook", "old_hook"}
    [] stage \in {"buffer", "loaded", "destroy"} -> Resources
    [] stage \in {"name", "delete"} -> {"device", "link", "hook", "old_hook", "buffer"}
    [] OTHER -> {"link", "hook", "old_hook", "buffer"}

(* A buffer and a semaphore are held by the pointer to them or lost; the   *)
(* pointer is gone when its step of LoopHPCsUnload has given it back.      *)
Counted ==
  /\ names = lost.names + (IF Buffer THEN 1 ELSE 0)
  /\ semaphores = lost.semaphores + (IF g_pSemaphore THEN 1 ELSE 0)
  /\ Length # 0 => Buffer
  /\ Buffer => stage = "loaded" \/ Unloading
  /\ Buffer /\ stage \in {"delete", "semaphore", "free"} => Length = 0
  /\ g_pSemaphore => stage \in {"loaded", "destroy", "name", "delete", "semaphore"}

(* Records exist only while there is a list to hold them; a load has at    *)
(* most one DeviceExtension; and what is left of the hook and the link is  *)
(* what a call refused to remove.                                          *)
Undone ==
  /\ held \subseteq MayHold
  /\ loops > 0 => stage \in {"loaded", "destroy"}
  /\ extensions <= loads
  /\ stage \in {"check", "device", "extension"} => extensions < loads
  /\ Unloading /\ ("hook" \in held \/ "old_hook" \in held) => "unhook_handler" \in failed
  /\ stage \in {"semaphore", "free"} /\ "link" \in held => "IoDeleteSymbolicLink" \in failed
  /\ UnloadUndoesLoad

(* Of what DriverEntry needs, only what failed is missing when it is used; *)
(* the record size is known where the checks passed; and only a reckless   *)
(* client makes the driver use a row that is not there.                    *)
Caused ==
  /\ stage \in {"extension", "hook", "list", "buffer", "loaded"} =>
       "device" \in held \/ "CreateDevice" \in failed
  /\ stage \in {"list", "buffer", "loaded"} =>
       "old_hook" \notin held \/ "hook_handler" \in failed
  /\ stage \in {"buffer", "loaded"} => "list" \in held \/ "create_list" \in failed
  /\ stage \notin {"absent", "check"} /\ perform_checks(machine) => pebs_record_size # 0
  /\ astray \/ iMLPX \notin 1 .. Multiplexing =>
       reckless /\ (stage = "loaded" \/ Unloading)
  /\ CrashHasACause

LEMMA InitOK == Init => TypeOK /\ Counted /\ Undone /\ Caused
<1> SUFFICES ASSUME Init PROVE TypeOK /\ Counted /\ Undone /\ Caused
  OBVIOUS
<1>1. ~handle /\ ~g_pSemaphore /\ ~crashed /\ ~Buffer /\ ~astray /\ ~reckless
  BY DEF Init
<1>2. /\ handle \in BOOLEAN /\ g_pSemaphore \in BOOLEAN /\ crashed \in BOOLEAN
      /\ Buffer \in BOOLEAN /\ astray \in BOOLEAN /\ reckless \in BOOLEAN
  BY Zenon DEF Init
<1>3. TypeOK
  BY <1>2, SMT DEF Init, TypeOK
<1>4. Counted /\ Undone /\ Caused
  BY <1>1, SMT DEF Init, Counted, Undone, UnloadUndoesLoad, Unloading, MayHold, Caused,
                   CrashHasACause
<1> QED
  BY <1>3, <1>4

(***************************************************************************)
(* Types, and what clients sent                                            *)
(***************************************************************************)

(* Steps that have nothing to do with the requests. *)
LEMMA RequestsAside ==
  ASSUME Counted, UNCHANGED <<names, Length, Buffer, semaphores, g_pSemaphore, lost>>,
         \/ stage' = stage
         \/ ~Buffer /\ ~g_pSemaphore
         \/ stage \in {"loaded", "destroy"} /\ stage' \in {"destroy", "name"}
         \/ stage = "delete" /\ stage' = "semaphore"
  PROVE  Counted'
BY DEF Counted, Unloading

LEMMA CountedStep == TypeOK /\ Counted /\ [Next]_vars => Counted'
<1> SUFFICES ASSUME TypeOK, Counted, [Next]_vars PROVE Counted'
  OBVIOUS
<1>1. CASE DriverEntry \/ Load
  <2>1. /\ stage \in {"absent", "check", "device", "extension", "hook", "list", "buffer"}
        /\ UNCHANGED <<requests, lost>>
    BY <1>1 DEF DriverEntry, Load, Check, CreateDevice, SetExtension, hook_handler, create_list,
                AllocBuffer, SameButHeld, At, history
  <2>2. ~Buffer /\ ~g_pSemaphore  BY <2>1 DEF Counted, Unloading
  <2> QED  BY <2>1, <2>2, RequestsAside DEF requests
<1>2. CASE Open \/ CloseHandle \/ Sample \/ Read \/ \E n \in MlpxValues : SendMlpx(n)
  BY <1>2, RequestsAside
  DEF Open, CloseHandle, Sample, Read, SendMlpx, Busy, requests, history
<1>3. CASE SetSemp
  <2>1. /\ ~crashed /\ stage = "loaded" /\ stage' = "loaded"
        /\ UNCHANGED <<names, Length, Buffer>> /\ lost'.names = lost.names
        /\ lost'.semaphores = lost.semaphores + (IF g_pSemaphore THEN 1 ELSE 0)
        /\ semaphores' = semaphores + (IF g_pSemaphore' THEN 1 ELSE 0)
    BY <1>3 DEF SetSemp, Busy, TypeOK
  <2> QED  BY <2>1 DEF Counted, Unloading, TypeOK
<1>4. CASE \E length \in Lengths : SendPname(length)
  <2>1. PICK length \in Lengths : SendPname(length)  BY <1>4
  <2>2. /\ stage = "loaded" /\ stage' = "loaded" /\ Buffer'
        /\ UNCHANGED <<semaphores, g_pSemaphore>> /\ lost'.semaphores = lost.semaphores
        /\ lost'.names = lost.names + (IF Buffer THEN 1 ELSE 0) /\ names' = names + 1
    BY <2>1 DEF SendPname, Busy, TypeOK
  <2> QED  BY <2>2 DEF Counted, Unloading, TypeOK
<1>5. CASE unhook_handler \/ DestroyRecord \/ DestroyHeader \/ DeleteDevice
  BY <1>5, RequestsAside
  DEF unhook_handler, DestroyRecord, DestroyHeader, DeleteDevice, At, requests
<1>6. CASE FreeName
  BY <1>6 DEF FreeName, At, Counted, Unloading, TypeOK
<1>7. CASE DropSemaphore
  <2>1. ~g_pSemaphore' /\ UNCHANGED <<names, Length, Buffer, lost>>
        /\ stage = "semaphore" /\ stage' = "free"
        /\ semaphores' = IF g_pSemaphore THEN semaphores - 1 ELSE semaphores
    BY <1>7 DEF DropSemaphore, At
  <2> QED  BY <2>1 DEF Counted, Unloading, TypeOK
<1>8. CASE FreeBuffer
  <2>1. /\ stage = "free" /\ ~Buffer' /\ Length' = 0
        /\ UNCHANGED <<names, semaphores, g_pSemaphore>>
        /\ lost' = IF Buffer /\ Length = 0 THEN [lost EXCEPT !.names = @ + 1] ELSE lost
    BY <1>8 DEF FreeBuffer, At
  <2>2. ~g_pSemaphore /\ (Buffer => Length = 0)  BY <2>1 DEF Counted
  <2>3. /\ lost'.names = lost.names + (IF Buffer THEN 1 ELSE 0)
        /\ lost'.semaphores = lost.semaphores
    BY <2>1, <2>2 DEF TypeOK
  <2> QED  BY <2>1, <2>2, <2>3 DEF Counted, Unloading, TypeOK
<1>9. CASE UNCHANGED vars
  BY <1>9, RequestsAside DEF vars, requests, history
<1> QED
  BY <1>1, <1>2, <1>3, <1>4, <1>5, <1>6, <1>7, <1>8, <1>9 DEF Next, LoopHPCsUnload

(* The two halves of TypeOK: the flags, and everything else.               *)
Flags ==
  /\ astray \in BOOLEAN /\ Buffer \in BOOLEAN /\ g_pSemaphore \in BOOLEAN
  /\ handle \in BOOLEAN /\ crashed \in BOOLEAN /\ reckless \in BOOLEAN

Values ==
  /\ machine \in Machines
  /\ stage \in {"absent", "check", "device", "extension", "hook", "list", "buffer", "loaded",
                "destroy", "name", "delete", "semaphore", "free"}
  /\ loads \in 0 .. MaxLoads
  /\ pebs_record_size \in {0, 22, 24, 25}
  /\ held \subseteq Resources /\ extensions \in Nat
  /\ loops \in 0 .. MaxLoops /\ iMLPX \in MlpxValues
  /\ names \in Nat /\ Length \in Nat /\ semaphores \in Nat
  /\ failed \subseteq {"CreateDevice", "hook_handler", "create_list", "AllocBuffer", "Create",
                       "unhook_handler", "IoDeleteSymbolicLink"}
  /\ lost \in [names : Nat, semaphores : Nat]

LEMMA TwoHalves == TypeOK <=> Flags /\ Values
BY Zenon DEF TypeOK, Flags, Values

LEMMA FlagsStep == Flags /\ [Next]_vars => Flags'
<1> SUFFICES ASSUME Flags, [Next]_vars PROVE Flags'
  OBVIOUS
<1> USE DEF Flags, requests, history, entry, list, At, Busy, SameButHeld, SameOnUnload, Outcomes,
            MayCrash
<1>1. CASE DriverEntry
  BY <1>1, Zenon DEF DriverEntry, Check, CreateDevice, SetExtension, hook_handler, create_list,
                     AllocBuffer
<1>2. CASE Load \/ Open \/ CloseHandle
  BY <1>2, Zenon DEF Load, Open, CloseHandle
<1>3. CASE Sample
  <2>1. astray' \in BOOLEAN /\ crashed' \in BOOLEAN
    BY <1>3, Zenon DEF Sample, NewLoop, KnownLoop
  <2> QED
    BY <1>3, <2>1, Zenon DEF Sample
<1>4. CASE Read
  BY <1>4, Zenon DEF Read, RemoveRecord
<1>5. CASE SetSemp
  BY <1>5, Zenon DEF SetSemp
<1>6. CASE \E length \in Lengths : SendPname(length)
  <2>1. TRUE \in BOOLEAN
    OBVIOUS
  <2> QED
    BY <1>6, <2>1, Zenon DEF SendPname
<1>7. CASE \E n \in MlpxValues : SendMlpx(n)
  BY <1>7, Zenon DEF SendMlpx
<1>8. CASE unhook_handler
  BY <1>8, Zenon DEF unhook_handler
<1>9. CASE LoopHPCsUnload
  BY <1>9, Zenon DEF LoopHPCsUnload, DestroyRecord, DestroyHeader, FreeName, DeleteDevice,
                     DropSemaphore, FreeBuffer, RemoveRecord
<1>10. CASE UNCHANGED vars
  BY <1>10, Zenon DEF vars
<1> QED
  BY <1>1, <1>2, <1>3, <1>4, <1>5, <1>6, <1>7, <1>8, <1>9, <1>10 DEF Next

LEMMA ValuesStep == Values /\ Counted /\ [Next]_vars => Values'
<1> SUFFICES ASSUME Values, Counted, [Next]_vars PROVE Values'
  OBVIOUS
<1> USE DEF Values, requests, history, entry, list, At, Busy, SameButHeld, SameOnUnload, Note,
            Resources
<1>1. CASE Load
  BY <1>1, SMT DEF Load
<1>2. CASE Check
  BY <1>2, SMT DEF Check, RecordSize
<1>3. CASE CreateDevice
  BY <1>3, SMT DEF CreateDevice
<1>4. CASE SetExtension
  BY <1>4, SMT DEF SetExtension
<1>5. CASE hook_handler
  BY <1>5, SMT DEF hook_handler
<1>6. CASE create_list
  BY <1>6, SMT DEF create_list
<1>7. CASE AllocBuffer
  BY <1>7, SMT DEF AllocBuffer
<1>8. CASE Open
  BY <1>8, SMT DEF Open
<1>9. CASE CloseHandle
  BY <1>9, SMT DEF CloseHandle
<1>10. CASE Sample
  BY <1>10, SMT DEF Sample, NewLoop, KnownLoop
<1>11. CASE Read
  BY <1>11, SMT DEF Read, RemoveRecord
<1>12. CASE SetSemp
  BY <1>12, SMT DEF SetSemp
<1>13. CASE \E length \in Lengths : SendPname(length)
  BY <1>13, SMT DEF SendPname
<1>14. CASE \E n \in MlpxValues : SendMlpx(n)
  BY <1>14, SMT DEF SendMlpx
<1>15. CASE unhook_handler
  BY <1>15, SMT DEF unhook_handler
<1>16. CASE DestroyRecord
  BY <1>16, SMT DEF DestroyRecord, RemoveRecord
<1>17. CASE DestroyHeader
  BY <1>17, SMT DEF DestroyHeader
<1>18. CASE FreeName
  BY <1>18, SMT DEF FreeName, Counted
<1>19. CASE DeleteDevice
  BY <1>19, SMT DEF DeleteDevice
<1>20. CASE DropSemaphore
  BY <1>20, SMT DEF DropSemaphore, Counted
<1>21. CASE FreeBuffer
  BY <1>21, SMT DEF FreeBuffer
<1>22. CASE UNCHANGED vars
  BY <1>22, SMT DEF vars
<1> QED
  BY <1>1, <1>2, <1>3, <1>4, <1>5, <1>6, <1>7, <1>8, <1>9, <1>10, <1>11, <1>12, <1>13,
     <1>14, <1>15, <1>16, <1>17, <1>18, <1>19, <1>20, <1>21, <1>22
     DEF Next, DriverEntry, LoopHPCsUnload

LEMMA TypeStep == TypeOK /\ Counted /\ [Next]_vars => (TypeOK /\ Counted)'
<1>1. (Flags /\ Values)' => TypeOK'
  BY Zenon DEF TypeOK, Flags, Values
<1> QED
  BY <1>1, CountedStep, TwoHalves, FlagsStep, ValuesStep

(* Everything stays within its type: nothing is given back more often than *)
(* it was taken, whatever fails and whatever the clients send.             *)
THEOREM DriverTypes == Spec => []TypeOK
<1>1. Init => TypeOK /\ Counted
  BY InitOK
<1> QED
  BY <1>1, TypeStep, PTL DEF Spec

(* The unload gives back the name buffers and the semaphores except those  *)
(* that were lost before: overwritten by a later request, or the buffer of *)
(* a last name that is empty.                                              *)
THEOREM UnloadReleases == Spec => []UnloadReleasesRequests
<1>1. Init => TypeOK /\ Counted
  BY InitOK
<1>2. TypeOK /\ Counted => UnloadReleasesRequests
  BY DEF Counted, Unloading, UnloadReleasesRequests, TypeOK
<1> QED
  BY <1>1, <1>2, TypeStep, PTL DEF Spec

(***************************************************************************)
(* Unloading                                                               *)
(***************************************************************************)
LEMMA UndoneStep == TypeOK /\ Undone /\ [Next]_vars => Undone'
<1> SUFFICES ASSUME TypeOK, Undone, [Next]_vars PROVE Undone'
  OBVIOUS
<1>0. Values
  BY TwoHalves
<1> USE DEF Values, Undone, MayHold, Unloading, UnloadUndoesLoad, Refused, Resources, requests,
            history, entry, list, At, Busy, SameButHeld, SameOnUnload, Note
<1>1. CASE Load
  BY <1>0, <1>1, SMT DEF Load
<1>2. CASE Check \/ CreateDevice \/ SetExtension
  BY <1>0, <1>2, SMT DEF Check, CreateDevice, SetExtension
<1>3. CASE hook_handler \/ create_list \/ AllocBuffer
  BY <1>0, <1>3, SMT DEF hook_handler, create_list, AllocBuffer
<1>4. CASE Open \/ CloseHandle \/ SetSemp
  BY <1>0, <1>4, SMT DEF Open, CloseHandle, SetSemp
<1>5. CASE Sample \/ Read
  BY <1>0, <1>5, SMT DEF Sample, NewLoop, KnownLoop, Read, RemoveRecord
<1>6. CASE \E length \in Lengths : SendPname(length)
  BY <1>0, <1>6, SMT DEF SendPname
<1>7. CASE \E n \in MlpxValues : SendMlpx(n)
  BY <1>0, <1>7, SMT DEF SendMlpx
<1>8. CASE unhook_handler
  BY <1>0, <1>8, SMT DEF unhook_handler
<1>9. CASE DestroyRecord \/ DestroyHeader \/ FreeName
  BY <1>0, <1>9, SMT DEF DestroyRecord, DestroyHeader, FreeName, RemoveRecord
<1>10. CASE DeleteDevice \/ DropSemaphore
  BY <1>0, <1>10, SMT DEF DeleteDevice, DropSemaphore
<1>11. CASE FreeBuffer
  BY <1>0, <1>11, SMT DEF FreeBuffer
<1>12. CASE UNCHANGED vars
  BY <1>0, <1>12, SMT DEF vars
<1> QED
  BY <1>1, <1>2, <1>3, <1>4, <1>5, <1>6, <1>7, <1>8, <1>9, <1>10, <1>11, <1>12
     DEF Next, DriverEntry, LoopHPCsUnload

(* LoopHPCsUnload leaves nothing of what DriverEntry created, whichever of *)
(* its steps failed and however many loops were recorded, but the link and *)
(* the hook that a call refused to remove, and a DeviceExtension per load. *)
THEOREM UnloadIsComplete == Spec => []UnloadUndoesLoad
<1>1. Init => TypeOK /\ Undone
  BY InitOK
<1>2. Undone => UnloadUndoesLoad
  BY DEF Undone
<1> QED
  BY <1>1, <1>2, UndoneStep, DriverTypes, PTL DEF Spec

(***************************************************************************)
(* Crashes                                                                 *)
(***************************************************************************)
LEMMA CausedStep == TypeOK /\ Undone /\ Caused /\ [Next]_vars => Caused'
<1> SUFFICES ASSUME TypeOK, Undone, Caused, [Next]_vars PROVE Caused'
  OBVIOUS
<1>0. Values /\ Flags
  BY TwoHalves
<1> USE DEF Values, Flags, Caused, CrashHasACause, Unloading, requests, history, entry, list, At,
            Busy, SameButHeld, SameOnUnload, Note, Outcomes, MayCrash
<1>1. CASE Load
  BY <1>0, <1>1, SMT DEF Load
<1>2. CASE Check
  BY <1>0, <1>2, SMT DEF Check, perform_checks, RecordSize
<1>3. CASE CreateDevice \/ hook_handler \/ create_list
  BY <1>0, <1>3, SMT DEF CreateDevice, hook_handler, create_list
<1>4. CASE SetExtension
  BY <1>0, <1>4, SMT DEF SetExtension
<1>5. CASE AllocBuffer
  BY <1>0, <1>5, SMT DEF AllocBuffer
<1>6. CASE Open
  <2>1. ~HasPebs(machine) => ~perform_checks(machine)
    BY DEF HasPebs, perform_checks, CPU_check, check_has_ds
  <2> QED
    BY <1>0, <1>6, <2>1, SMT DEF Open
<1>7. CASE CloseHandle \/ SetSemp
  BY <1>0, <1>7, SMT DEF CloseHandle, SetSemp
<1>8. CASE Sample
  BY <1>0, <1>8, SMT DEF Sample, NewLoop, KnownLoop
<1>9. CASE Read
  BY <1>0, <1>9, SMT DEF Read, RemoveRecord
<1>10. CASE \E length \in Lengths : SendPname(length)
  BY <1>0, <1>10, SMT DEF SendPname
<1>11. CASE \E n \in MlpxValues : SendMlpx(n)
  <2>1. PICK n \in MlpxValues : SendMlpx(n)
    BY <1>11
  <2>2. /\ astray' = astray /\ iMLPX' = n
        /\ reckless' <=> reckless \/ n \notin 1 .. Multiplexing
    BY <2>1 DEF SendMlpx
  <2>3. astray' \/ iMLPX' \notin 1 .. Multiplexing => reckless'
    BY <2>2, Zenon
  <2> QED
    BY <1>0, <2>1, <2>3, SMT DEF SendMlpx
<1>12. CASE unhook_handler
  BY <1>0, <1>12, SMT DEF unhook_handler
<1>13. CASE DestroyRecord \/ DestroyHeader
  BY <1>0, <1>13, SMT DEF DestroyRecord, DestroyHeader, RemoveRecord
<1>14. CASE FreeName \/ DeleteDevice \/ DropSemaphore
  BY <1>0, <1>14, SMT DEF FreeName, DeleteDevice, DropSemaphore
<1>15. CASE FreeBuffer
  BY <1>0, <1>15, SMT DEF FreeBuffer
<1>16. CASE UNCHANGED vars
  BY <1>0, <1>16, SMT DEF vars
<1> QED
  BY <1>1, <1>2, <1>3, <1>4, <1>5, <1>6, <1>7, <1>8, <1>9, <1>10, <1>11, <1>12, <1>13, <1>14,
     <1>15, <1>16
     DEF Next, DriverEntry, LoopHPCsUnload

(* A machine that passes the checks is brought down only after a call that *)
(* failed, by a hook left by an earlier load, or by a reckless client.     *)
THEOREM OnlyCausedCrashes == Spec => []CrashHasACause
<1>1. Init => Undone /\ Caused
  BY InitOK
<1>2. TypeOK /\ Undone /\ Caused /\ [Next]_vars => (Undone /\ Caused)'
  BY UndoneStep, CausedStep
<1>3. Caused => CrashHasACause
  BY DEF Caused
<1> QED
  BY <1>1, <1>2, <1>3, DriverTypes, PTL DEF Spec
=============================================================================
