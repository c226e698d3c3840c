------------------------------ MODULE KernelCall ------------------------------
(***************************************************************************)
(* The kernel function call subsystem: kernel_call_init and                *)
(* kernel_call_deinit of libmemctl/kernel_call.c with the architecture's   *)
(* own mechanism, the system call hook of x86_64 or the payload page of    *)
(* arm64.  Both calls change the kernel in steps, each of which can fail,  *)
(* and each of which can be the last one the process takes.                *)
(*                                                                         *)
(* The running activation is at the step named by pc.  The kernel side     *)
(* keeps what matters to it: the user client whose vtable pointer and      *)
(* registry entry ID are overwritten, the blocks of kernel memory that are *)
(* allocated for the hook, the system call table entry and the text of the *)
(* function the system call runs.  How the user client is recognised among *)
(* those of other processes, which bytes are written and where symbols     *)
(* come from is left out: such a step succeeds or fails.                   *)
(***************************************************************************)


CONSTANTS
    Arch,    \* "x86_64" or "arm64"
    Blocks,  \* blocks of kernel memory kernel_allocate can return
    None,    \* the address 0
    Original \* the kernel's own value of a field of the user client

ASSUME ArchAssumption == Arch \in {"x86_64", "arm64"}
ASSUME ValuesAssumption == None \notin Blocks /\ Original \notin Blocks

VARIABLES
    pc,          \* the step the running activation takes next
    returnTo,    \* the step after kernel_call_7_deinit
    hook,        \* struct iokit_trap_hook
    syscallHook, \* struct syscall_hook: function # 0, and what original holds
    jopPayload,  \* jop_payload
    client,      \* kernel: the user client (open, vtable pointer, entry ID)
    kmem,        \* kernel: the blocks allocated to memctl
    sysent,      \* kernel: entry SYSCALL_CODE, "nosys" or "hook"
    text,        \* kernel: the target function: "original", "hook" or "torn"
    refused,     \* history: operations refused with the kernel modified
    doubleFree   \* history: a block was deallocated that was not allocated

user == <<hook, syscallHook, jopPayload>>
kernelState == <<client, kmem, sysent, text>>
history == <<refused, doubleFree>>
control == <<pc, returnTo>>
kcVars == <<control, user, kernelState, history>>

-----------------------------------------------------------------------------
(* The statics of a process that has just started are zero. *)
NoHook == [connection |-> FALSE, hookedVtable |-> None, trap |-> None, hooked |-> FALSE]
NoSyscallHook == [function |-> FALSE, original |-> "unset"]

UserInit ==
    /\ hook = NoHook
    /\ syscallHook = NoSyscallHook
    /\ jopPayload = None

KernelInit ==
    /\ client = [open |-> FALSE, vtable |-> Original, id |-> Original]
    /\ kmem = {}
    /\ sysent = "nosys"
    /\ text = "original"

HistoryInit ==
    /\ refused = {}
    /\ doubleFree = FALSE

At(step) == pc = step
Goto(step) == pc' = step /\ UNCHANGED returnTo
Call7Deinit(step) == pc' = "unhook" /\ returnTo' = step

(***************************************************************************)
(* kernel_allocate: the caller's address is only set on success.           *)
(***************************************************************************)
Free == Blocks \ kmem

(***************************************************************************)
(* kernel_deallocate(addr, size, false): a failure is only a warning.      *)
(***************************************************************************)
Deallocate(block) ==
    \/ /\ kmem' = kmem \ {block}
       /\ doubleFree' = (doubleFree \/ block \notin kmem)
       /\ UNCHANGED refused
    \/ /\ refused' = refused \cup {"deallocate"}
       /\ UNCHANGED <<kmem, doubleFree>>

-----------------------------------------------------------------------------
(* kernel_call_7_init *)

(***************************************************************************)
(* The entry of kernel_call_init.  An installed hook is kept, and only the *)
(* architecture's mechanism is tried again.                                *)
(***************************************************************************)
InitEntry == IF hook.hooked THEN "arch_init" ELSE "create_client"

(***************************************************************************)
(* create_user_client up to open_service_with_known_connection_id: the     *)
(* connection is stored only when it was opened and its ID is known; in    *)
(* every other outcome the service was closed again.                       *)
(***************************************************************************)
CreateUserClient ==
    /\ At("create_client")
    /\ \/ /\ hook' = [hook EXCEPT !.connection = TRUE]
          /\ client' = [client EXCEPT !.open = TRUE, !.vtable = Original, !.id = Original]
          /\ Goto("find_client")
       \/ /\ Goto("init_fail")
          /\ UNCHANGED <<hook, client>>
    /\ UNCHANGED <<syscallHook, jopPayload, kmem, sysent, text, history>>

(***************************************************************************)
(* find_registry_entry_with_id, and the symbols and the read of the vtable *)
(* that create_hooked_vtable needs before it allocates: no state changes.  *)
(* An interrupted scan fails.                                              *)
(***************************************************************************)
FindUserClient(interrupted) ==
    /\ At("find_client")
    /\ \/ Goto("init_fail")
       \/ ~interrupted /\ Goto("allocate_vtable")
    /\ UNCHANGED <<user, kernelState, history>>

(* create_hooked_vtable: kernel_allocate. *)
AllocateVtable ==
    /\ At("allocate_vtable")
    /\ \/ \E b \in Free :
             /\ kmem' = kmem \cup {b}
             /\ hook' = [hook EXCEPT !.hookedVtable = b]
             /\ Goto("write_vtable")
       \/ /\ Goto("init_fail")
          /\ UNCHANGED <<kmem, hook>>
    /\ UNCHANGED <<syscallHook, jopPayload, client, sysent, text, history>>

(* create_hooked_vtable: the copy of the vtable is written. *)
WriteVtable ==
    /\ At("write_vtable")
    /\ Goto("allocate_trap") \/ Goto("init_fail")
    /\ UNCHANGED <<user, kernelState, history>>

(* patch_user_client: the IOExternalTrap. *)
AllocateTrap ==
    /\ At("allocate_trap")
    /\ \/ \E b \in Free :
             /\ kmem' = kmem \cup {b}
             /\ hook' = [hook EXCEPT !.trap = b]
             /\ Goto("write_id")
       \/ /\ Goto("init_fail")
          /\ UNCHANGED <<kmem, hook>>
    /\ UNCHANGED <<syscallHook, jopPayload, client, sysent, text, history>>

(* A faulty patch_user_client, which forgets the registry entry ID. *)
SkipEntryId == At("write_id") /\ Goto("hook_vtable") /\ UNCHANGED <<user, kernelState, history>>

(* patch_user_client: one word, the registry entry ID becomes the trap. *)
WriteEntryId ==
    /\ At("write_id")
    /\ \/ client' = [client EXCEPT !.id = hook.trap] /\ Goto("hook_vtable")
       \/ UNCHANGED client /\ Goto("init_fail")
    /\ UNCHANGED <<user, kmem, sysent, text, history>>

(* patch_user_client: one word, the vtable pointer is replaced. *)
HookVtable ==
    /\ At("hook_vtable")
    /\ \/ client' = [client EXCEPT !.vtable = hook.hookedVtable] /\ Goto("set_hooked")
       \/ UNCHANGED client /\ Goto("init_fail")
    /\ UNCHANGED <<user, kmem, sysent, text, history>>

SetHooked ==
    /\ At("set_hooked")
    /\ hook' = [hook EXCEPT !.hooked = TRUE]
    /\ Goto("arch_init")
    /\ UNCHANGED <<syscallHook, jopPayload, kernelState, history>>

(* Any failure above undoes what was done so far with kernel_call_7_deinit. *)
FailInit ==
    /\ At("init_fail")
    /\ Call7Deinit("init_failed")
    /\ UNCHANGED <<user, kernelState, history>>

Call7InitStep(interrupted) ==
    \/ CreateUserClient
    \/ FindUserClient(interrupted)
    \/ AllocateVtable
    \/ WriteVtable
    \/ AllocateTrap
    \/ WriteEntryId
    \/ HookVtable
    \/ SetHooked
    \/ FailInit

-----------------------------------------------------------------------------
(* The architecture's mechanism.  kernel_call_init succeeds without it: its *)
(* errors become warnings.                                                  *)

(***************************************************************************)
(* kernel_call_init_syscall_x86_64 up to the first write.  The target      *)
(* entry must be _nosys; the text of the target function, whatever it is   *)
(* now, is saved as the original.  Failing before or after the allocation  *)
(* of the copy differs only in a leak on the user side.                    *)
(***************************************************************************)
PrepareSyscallHook ==
    /\ At("arch_init") /\ Arch = "x86_64"
    /\ \/ /\ sysent = "nosys"
          /\ syscallHook' = [syscallHook EXCEPT !.original = text]
          /\ Goto("write_text")
       \/ /\ Goto("ready")
          /\ UNCHANGED syscallHook
    /\ UNCHANGED <<hook, jopPayload, kernelState, history>>

(* A faulty install_syscall_hook, which does not look at the result. *)
WriteTextUnchecked ==
    /\ At("write_text")
    /\ text' \in {"hook", "torn", text} /\ Goto("write_sysent")
    /\ UNCHANGED <<user, client, kmem, sysent, history>>

(***************************************************************************)
(* install_syscall_hook: the target function first.  A write of many words *)
(* that fails may have written some of them, which leaves the text torn;   *)
(* of a table entry the first word, sy_call, is the one that decides.      *)
(***************************************************************************)
WriteText ==
    /\ At("write_text")
    /\ \/ text' = "hook" /\ Goto("write_sysent")
          /\ UNCHANGED refused
       \/ text' \in {text, "torn"} /\ Goto("ready")
          /\ refused' = refused \cup {"install"}
    /\ UNCHANGED <<user, client, kmem, sysent, doubleFree>>

(* install_syscall_hook: then the system call table; nothing is refused. *)
WriteSysent ==
    /\ At("write_sysent")
    /\ \/ sysent' = "hook" /\ Goto("set_function")
          /\ UNCHANGED refused
       \/ sysent' \in {"nosys", "hook"} /\ Goto("ready")
          /\ refused' = refused \cup {"install"}
    /\ UNCHANGED <<user, client, kmem, text, doubleFree>>

SetFunction ==
    /\ At("set_function")
    /\ syscallHook' = [syscallHook EXCEPT !.function = TRUE]
    /\ Goto("ready")
    /\ UNCHANGED <<hook, jopPayload, kernelState, history>>

(* A faulty kernel_call_init_arm64: a second page replaces the first. *)
AllocatePayloadAgain ==
    /\ At("arch_init") /\ Arch = "arm64"
    /\ \/ \E b \in Free :
             /\ kmem' = kmem \cup {b}
             /\ jopPayload' = b
       \/ UNCHANGED <<kmem, jopPayload>>
    /\ Goto("ready")
    /\ UNCHANGED <<hook, syscallHook, client, sysent, text, history>>

(***************************************************************************)
(* kernel_call_init_arm64: a payload page that is there is kept; otherwise *)
(* gadgets and a strategy must be found and the page allocated.            *)
(***************************************************************************)
AllocatePayload ==
    /\ At("arch_init") /\ Arch = "arm64"
    /\ \/ /\ jopPayload = None
          /\ \E b \in Free :
                /\ kmem' = kmem \cup {b}
                /\ jopPayload' = b
       \/ UNCHANGED <<kmem, jopPayload>>
    /\ Goto("ready")
    /\ UNCHANGED <<hook, syscallHook, client, sysent, text, history>>

ArchInitStep ==
    \/ PrepareSyscallHook
    \/ WriteText
    \/ WriteSysent
    \/ SetFunction
    \/ AllocatePayload

-----------------------------------------------------------------------------
(* kernel_call_deinit: the architecture's part, then kernel_call_7_deinit.  *)

(* A faulty kernel_call_deinit, without the architecture's part. *)
CallDeinit7(step) == pc' = "unhook" /\ returnTo' = step

(* The first step of kernel_call_deinit, for a caller that goes on at step. *)
CallDeinit(step) ==
    /\ pc' = CASE Arch = "x86_64" /\ syscallHook.function -> "clear_function"
               [] Arch = "arm64" /\ jopPayload # None     -> "free_payload"
               [] OTHER                                   -> "unhook"
    /\ returnTo' = step

(***************************************************************************)
(* remove_syscall_hook: the function address is forgotten first, so that   *)
(* the writes below go through kernel_call_7.                              *)
(***************************************************************************)
ClearFunction ==
    /\ At("clear_function")
    /\ syscallHook' = [syscallHook EXCEPT !.function = FALSE]
    /\ Goto("restore_sysent")
    /\ UNCHANGED <<hook, jopPayload, kernelState, history>>

(* A failed restoring write is only a warning. *)
RestoreSysent ==
    /\ At("restore_sysent")
    /\ \/ sysent' = "nosys" /\ UNCHANGED refused
       \/ sysent' \in {"nosys", sysent} /\ refused' = refused \cup {"sysent"}
    /\ Goto("restore_text")
    /\ UNCHANGED <<user, client, kmem, text, doubleFree>>

RestoreText ==
    /\ At("restore_text")
    /\ \/ text' = syscallHook.original /\ UNCHANGED refused
       \/ text' \in {text, "torn"} /\ refused' = refused \cup {"text"}
    /\ Goto("unhook")
    /\ UNCHANGED <<user, client, kmem, sysent, doubleFree>>

(* kernel_call_deinit_arm64: the page is freed, then forgotten. *)
FreePayload ==
    /\ At("free_payload")
    /\ Deallocate(jopPayload)
    /\ Goto("forget_payload")
    /\ UNCHANGED <<user, client, sysent, text>>

ForgetPayload ==
    /\ At("forget_payload")
    /\ jopPayload' = None
    /\ Goto("unhook")
    /\ UNCHANGED <<hook, syscallHook, kernelState, history>>

ArchDeinitStep ==
    \/ ClearFunction
    \/ RestoreSysent
    \/ RestoreText
    \/ FreePayload
    \/ ForgetPayload

(* kernel_call_7_deinit, which the failing kernel_call_7_init calls too. *)
Unhook ==
    /\ At("unhook")
    /\ IF hook.hooked
       THEN /\ \/ client' = [client EXCEPT !.vtable = Original] /\ UNCHANGED refused
               \/ UNCHANGED client /\ refused' = refused \cup {"vtable"}
            /\ Goto("clear_hooked")
       ELSE Goto("close") /\ UNCHANGED <<client, refused>>
    /\ UNCHANGED <<user, kmem, sysent, text, doubleFree>>

ClearHooked ==
    /\ At("clear_hooked")
    /\ hook' = [hook EXCEPT !.hooked = FALSE]
    /\ Goto("close")
    /\ UNCHANGED <<syscallHook, jopPayload, kernelState, history>>

(* IOServiceClose: the kernel destroys the user client. *)
CloseConnection ==
    /\ At("close")
    /\ IF hook.connection
       THEN client' = [client EXCEPT !.open = FALSE] /\ Goto("forget_connection")
       ELSE UNCHANGED client /\ Goto("free_vtable")
    /\ UNCHANGED <<user, kmem, sysent, text, history>>

ForgetConnection ==
    /\ At("forget_connection")
    /\ hook' = [hook EXCEPT !.connection = FALSE]
    /\ Goto("free_vtable")
    /\ UNCHANGED <<syscallHook, jopPayload, kernelState, history>>

FreeVtable ==
    /\ At("free_vtable")
    /\ IF hook.hookedVtable # None
       THEN Deallocate(hook.hookedVtable) /\ Goto("forget_vtable")
       ELSE UNCHANGED <<kmem, history>> /\ Goto("free_trap")
    /\ UNCHANGED <<user, client, sysent, text>>

(* A faulty kernel_call_7_deinit, which does not reset the address. *)
KeepVtable ==
    At("forget_vtable") /\ Goto("free_trap") /\ UNCHANGED <<user, kernelState, history>>

ForgetVtable ==
    /\ At("forget_vtable")
    /\ hook' = [hook EXCEPT !.hookedVtable = None]
    /\ Goto("free_trap")
    /\ UNCHANGED <<syscallHook, jopPayload, kernelState, history>>

FreeTrap ==
    /\ At("free_trap")
    /\ IF hook.trap # None
       THEN Deallocate(hook.trap) /\ Goto("forget_trap")
       ELSE UNCHANGED <<kmem, history>> /\ Goto(returnTo)
    /\ UNCHANGED <<user, client, sysent, text>>

ForgetTrap ==
    /\ At("forget_trap")
    /\ hook' = [hook EXCEPT !.trap = None]
    /\ Goto(returnTo)
    /\ UNCHANGED <<syscallHook, jopPayload, kernelState, history>>

Call7DeinitStep ==
    \/ Unhook
    \/ ClearHooked
    \/ CloseConnection
    \/ ForgetConnection
    \/ FreeVtable
    \/ ForgetVtable
    \/ FreeTrap
    \/ ForgetTrap

-----------------------------------------------------------------------------
InitSteps == {"create_client", "find_client", "allocate_vtable", "write_vtable",
              "allocate_trap", "write_id", "hook_vtable", "set_hooked", "init_fail"}
ArchInitSteps == {"arch_init", "write_text", "write_sysent", "set_function"}
ArchDeinitSteps == {"clear_function", "restore_sysent", "restore_text",
                    "free_payload", "forget_payload"}
Deinit7Steps == {"unhook", "clear_hooked", "close", "forget_connection",
                 "free_vtable", "forget_vtable", "free_trap", "forget_trap"}
Steps == InitSteps \cup ArchInitSteps \cup ArchDeinitSteps \cup Deinit7Steps

Address == Blocks \cup {None}
Refusals == {"vtable", "sysent", "text", "deallocate", "install"}

UserTypeOK ==
    /\ hook \in [connection : BOOLEAN, hookedVtable : Address,
                 trap : Address, hooked : BOOLEAN]
    /\ syscallHook \in [function : BOOLEAN,
                        original : {"unset", "original", "hook", "torn"}]
    /\ jopPayload \in Address

KernelTypeOK ==
    /\ client \in [open : BOOLEAN, vtable : Blocks \cup {Original},
                   id : Blocks \cup {Original}]
    /\ kmem \subseteq Blocks
    /\ sysent \in {"nosys", "hook"}
    /\ text \in {"original", "hook", "torn"}
    /\ refused \subseteq Refusals
    /\ doubleFree \in BOOLEAN

StateTypeOK == UserTypeOK /\ KernelTypeOK

(***************************************************************************)
(* What the kernel follows when the user client is used or destroyed is    *)
(* always there: while the client is open, a vtable pointer or an entry ID *)
(* that memctl replaced points to memory that is still allocated, in every *)
(* step of setting up, of failing half way, and of taking down.            *)
(***************************************************************************)
NothingDangling ==
    client.open => {client.vtable, client.id} \subseteq kmem \cup {Original}

(***************************************************************************)
(* getRegistryEntryID, which a hooked vtable answers external traps with,  *)
(* returns the trap and never the real registry entry ID: patch_user_client*)
(* sets the ID before the vtable.                                          *)
(***************************************************************************)
HookedReturnsTrap ==
    client.open /\ client.vtable # Original => client.id # Original

(***************************************************************************)
(* kernel_call_7 works whenever the code goes through it: for the client   *)
(* that was told the system is ready, and for the kernel writes of the     *)
(* system call hook, which physical_write_unsafe makes with kernel_call,   *)
(* when it is installed and when it is removed.                            *)
(***************************************************************************)
Usable ==
    /\ hook.hooked /\ hook.connection
    /\ client.open /\ client.vtable = hook.hookedVtable /\ client.id = hook.trap
    /\ {hook.hookedVtable, hook.trap} \subseteq kmem

HookUsable == pc \in {"ready"} \cup ArchInitSteps \cup ArchDeinitSteps => Usable

(***************************************************************************)
(* The three together: at no step of setting up, failing, using and taking *)
(* down the user client's hook is the kernel led astray by it.             *)
(***************************************************************************)
HookWorks == NothingDangling /\ HookedReturnsTrap /\ HookUsable

(* No block is given back twice. *)
NoDoubleFree == ~doubleFree

(* The kernel as it was found. *)
Clean == ~client.open /\ kmem = {} /\ sysent = "nosys" /\ text = "original"

(***************************************************************************)
(* The system call never runs text that is not the hook's: text is         *)
(* overwritten before the table entry and restored after it, also when one *)
(* of the writes fails.  Only a refusal to restore the entry is excepted.  *)
(***************************************************************************)
SyscallStable == "sysent" \notin refused /\ sysent = "hook" => text = "hook"

=============================================================================
