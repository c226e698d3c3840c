-------------------------- MODULE KernelCallLibrary --------------------------
(***************************************************************************)
(* The kernel function call subsystem as a library, on its own: a program  *)
(* calls kernel_call_init and kernel_call_deinit one after the other, in   *)
(* any order and any number of times.  pc at rest is the result of the     *)
(* last call.                                                              *)
(***************************************************************************)
EXTENDS KernelCall

Rest == {"idle", "ready", "init_failed", "deinited"}

LibraryInit ==
    /\ pc = "idle" /\ returnTo = "deinited"
    /\ UserInit
    /\ KernelInit
    /\ HistoryInit

InitCall ==
    /\ pc \in Rest
    /\ Goto(InitEntry)
    /\ UNCHANGED <<user, kernelState, history>>

DeinitCall ==
    /\ pc \in Rest
    /\ CallDeinit("deinited")
    /\ UNCHANGED <<user, kernelState, history>>

LibraryNext ==
    \/ InitCall
    \/ DeinitCall
    \/ \E interrupted \in BOOLEAN : Call7InitStep(interrupted)
    \/ ArchInitStep
    \/ ArchDeinitStep
    \/ Call7DeinitStep

LibrarySpec == LibraryInit /\ [][LibraryNext]_kcVars

-----------------------------------------------------------------------------
(***************************************************************************)
(* Every variable keeps its type.  The kernel's pointers are never the     *)
(* address 0: the steps that write them only follow a successful           *)
(* allocation.                                                             *)
(***************************************************************************)
LibraryTypeOK ==
    /\ pc \in Rest \cup Steps
    /\ returnTo \in {"deinited", "init_failed"}
    /\ StateTypeOK

(***************************************************************************)
(* Between calls, the blocks allocated in the kernel are those the state   *)
(* of the library still names, unless the kernel refused to take one back. *)
(***************************************************************************)
Owned == {hook.hookedVtable, hook.trap, jopPayload} \ {None}
NoLeak == pc \in Rest /\ "deallocate" \notin refused => kmem = Owned

(***************************************************************************)
(* After kernel_call_deinit, and after a kernel_call_init that failed, the *)
(* kernel is as it was found, if it refused none of the writes that put it *)
(* back: whatever partial initialization came before.                      *)
(***************************************************************************)
RestoredAtRest == pc \in {"idle", "init_failed", "deinited"} /\ refused = {} => Clean

=============================================================================
