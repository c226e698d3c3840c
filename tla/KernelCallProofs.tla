--------------------------- MODULE KernelCallProofs ---------------------------
(***************************************************************************)
(* The inductive invariant of the kernel function call subsystem and the   *)
(* proof that every step of it keeps the invariant, whatever runs around   *)
(* it.  The invariant only speaks of pc inside the subsystem, so that both *)
(* a program that calls the library and the memctl process, whose signal   *)
(* handler may leave the subsystem at any step, can be proved with it.     *)
(***************************************************************************)
EXTENDS KernelCallLibrary, TLAPS

(* Only a client the process holds a connection to is open. *)
ConnectionKnown == client.open => hook.connection

(* What memctl wrote into the open client are its own live blocks. *)
PointersOwned ==
    client.open =>
        /\ client.vtable # Original =>
              /\ client.vtable = hook.hookedVtable
              /\ client.vtable \in kmem
              /\ client.id # Original
        /\ client.id # Original =>
              /\ client.id = hook.trap
              /\ client.id \in kmem

(* The architecture's mechanism is only there on top of a usable hook. *)
MechanismUsable ==
    syscallHook.function \/ jopPayload # None =>
        Usable /\ jopPayload \notin {hook.hookedVtable, hook.trap}

HookSteps == {"write_text", "write_sysent", "set_function",
              "clear_function", "restore_sysent", "restore_text"}
OneArch ==
    /\ syscallHook.function \/ pc \in HookSteps => Arch = "x86_64"
    /\ jopPayload # None \/ pc \in {"free_payload", "forget_payload"} => Arch = "arm64"

(* There is a text to restore, and the hook is forgotten before it is. *)
OriginalSaved ==
    /\ syscallHook.function \/ pc \in HookSteps => syscallHook.original # "unset"
    /\ pc \in {"restore_sysent", "restore_text"} => ~syscallHook.function

(* It is gone before kernel_call_7 is taken down. *)
MechanismFirst ==
    pc \in Deinit7Steps => ~syscallHook.function /\ jopPayload = None

(* How far kernel_call_7_init has come. *)
InitProgress ==
    /\ pc \in InitSteps => ~hook.hooked
    /\ pc \in InitSteps \ {"create_client", "init_fail"} =>
          client.open /\ hook.connection
    /\ pc \in {"find_client", "allocate_vtable", "write_vtable", "allocate_trap", "write_id"} =>
          client.id = Original
    /\ pc \in {"find_client", "allocate_vtable", "write_vtable", "allocate_trap", "write_id",
               "hook_vtable"} => client.vtable = Original
    /\ pc \in {"write_vtable", "allocate_trap", "write_id", "hook_vtable", "set_hooked"} =>
          hook.hookedVtable \in kmem
    /\ pc \in {"write_id", "hook_vtable", "set_hooked"} => hook.trap \in kmem
    /\ pc \in {"hook_vtable", "set_hooked"} => client.id = hook.trap
    /\ pc = "set_hooked" => client.vtable = hook.hookedVtable

(* The client is closed, and so gone, before its memory is freed. *)
ClosedBeforeFree ==
    pc \in {"forget_connection", "free_vtable", "forget_vtable", "free_trap", "forget_trap"} =>
        ~client.open

Unhooked ==
    pc \in {"close", "forget_connection", "free_vtable", "forget_vtable", "free_trap",
            "forget_trap", "init_failed"} => ~hook.hooked

KInv ==
    /\ UserTypeOK
    /\ KernelTypeOK
    /\ returnTo \in {"deinited", "init_failed"}
    /\ ConnectionKnown
    /\ PointersOwned
    /\ HookUsable
    /\ MechanismUsable
    /\ OneArch
    /\ OriginalSaved
    /\ MechanismFirst
    /\ InitProgress
    /\ ClosedBeforeFree
    /\ Unhooked

(***************************************************************************)
(* The blocks of kernel memory that the statics name.  This is no part of  *)
(* KInv: a signal in kernel_call_deinit may leave the name of a block that *)
(* was just freed.                                                         *)
(***************************************************************************)
(* A block that is named is allocated, except just after it was freed. *)
Live ==
    /\ pc # "forget_vtable" => hook.hookedVtable \in kmem \cup {None}
    /\ pc # "forget_trap" => hook.trap \in kmem \cup {None}
    /\ pc # "forget_payload" => jopPayload \in kmem \cup {None}
    /\ pc = "free_payload" => jopPayload # None

Distinct ==
    /\ hook.hookedVtable # None => hook.hookedVtable # hook.trap
    /\ jopPayload # None => jopPayload \notin {hook.hookedVtable, hook.trap}

-----------------------------------------------------------------------------
(* A step of kernel_call_7_init keeps the invariant. *)
LEMMA Call7InitPreserves ==
    ASSUME KInv, NEW interrupted \in BOOLEAN, Call7InitStep(interrupted)
    PROVE  KInv'
<1> USE ArchAssumption, ValuesAssumption
<1> USE DEF KInv, At, Goto, user, kernelState, history
<1>1. CASE CreateUserClient
    <2> USE <1>1 DEF CreateUserClient
    <2>1. UserTypeOK' /\ returnTo' \in {"deinited", "init_failed"}
        BY DEF UserTypeOK
    <2>2. KernelTypeOK'
        BY DEF KernelTypeOK
    <2>3. ConnectionKnown' /\ PointersOwned'
        BY DEF ConnectionKnown, PointersOwned, InitProgress, UserTypeOK, KernelTypeOK
    <2>4. HookUsable' /\ MechanismUsable' /\ OneArch' /\ OriginalSaved'
        BY DEF HookUsable, MechanismUsable, OneArch, OriginalSaved, InitSteps,
            ArchInitSteps, ArchDeinitSteps, Deinit7Steps, HookSteps, Usable, InitProgress
    <2>5. MechanismFirst' /\ InitProgress' /\ ClosedBeforeFree' /\ Unhooked'
        BY DEF MechanismFirst, InitProgress, ClosedBeforeFree, Unhooked, InitSteps,
            ArchInitSteps, ArchDeinitSteps, Deinit7Steps, UserTypeOK, KernelTypeOK
    <2> QED
        BY <2>1, <2>2, <2>3, <2>4, <2>5
<1>2. CASE FindUserClient(interrupted)
    <2> USE <1>2 DEF FindUserClient
    <2>1. UserTypeOK' /\ returnTo' \in {"deinited", "init_failed"}
        BY DEF UserTypeOK
    <2>2. KernelTypeOK'
        BY DEF KernelTypeOK
    <2>3. ConnectionKnown' /\ PointersOwned'
        BY DEF ConnectionKnown, PointersOwned
    <2>4. HookUsable' /\ MechanismUsable' /\ OneArch' /\ OriginalSaved'
        BY DEF HookUsable, MechanismUsable, OneArch, OriginalSaved, InitSteps,
            ArchInitSteps, ArchDeinitSteps, Deinit7Steps, HookSteps, Usable
    <2>5. MechanismFirst' /\ InitProgress' /\ ClosedBeforeFree' /\ Unhooked'
        BY DEF MechanismFirst, InitProgress, ClosedBeforeFree, Unhooked, InitSteps,
            ArchInitSteps, ArchDeinitSteps, Deinit7Steps
    <2> QED
        BY <2>1, <2>2, <2>3, <2>4, <2>5
<1>3. CASE AllocateVtable
    <2> USE <1>3 DEF AllocateVtable, Free
    <2>1. UserTypeOK' /\ returnTo' \in {"deinited", "init_failed"}
        BY DEF UserTypeOK, Address
    <2>2. KernelTypeOK'
        BY DEF KernelTypeOK
    <2>3. ConnectionKnown' /\ PointersOwned'
        BY DEF ConnectionKnown, PointersOwned, InitProgress, UserTypeOK, KernelTypeOK
    <2>4. HookUsable' /\ MechanismUsable' /\ OneArch' /\ OriginalSaved'
        BY DEF HookUsable, MechanismUsable, OneArch, OriginalSaved, InitSteps,
            ArchInitSteps, ArchDeinitSteps, Deinit7Steps, HookSteps, Usable, InitProgress
    <2>5. MechanismFirst' /\ InitProgress' /\ ClosedBeforeFree' /\ Unhooked'
        BY DEF MechanismFirst, InitProgress, ClosedBeforeFree, Unhooked, InitSteps,
            ArchInitSteps, ArchDeinitSteps, Deinit7Steps, UserTypeOK
    <2> QED
        BY <2>1, <2>2, <2>3, <2>4, <2>5
<1>4. CASE WriteVtable
    <2> USE <1>4 DEF WriteVtable
    <2>1. UserTypeOK' /\ returnTo' \in {"deinited", "init_failed"}
        BY DEF UserTypeOK
    <2>2. KernelTypeOK'
        BY DEF KernelTypeOK
    <2>3. ConnectionKnown' /\ PointersOwned'
        BY DEF ConnectionKnown, PointersOwned
    <2>4. HookUsable' /\ MechanismUsable' /\ OneArch' /\ OriginalSaved'
        BY DEF HookUsable, MechanismUsable, OneArch, OriginalSaved, InitSteps,
            ArchInitSteps, ArchDeinitSteps, Deinit7Steps, HookSteps, Usable
    <2>5. MechanismFirst' /\ InitProgress' /\ ClosedBeforeFree' /\ Unhooked'
        BY DEF MechanismFirst, InitProgress, ClosedBeforeFree, Unhooked, InitSteps,
            ArchInitSteps, ArchDeinitSteps, Deinit7Steps
    <2> QED
        BY <2>1, <2>2, <2>3, <2>4, <2>5
<1>5. CASE AllocateTrap
    <2> USE <1>5 DEF AllocateTrap, Free
    <2>1. UserTypeOK' /\ returnTo' \in {"deinited", "init_failed"}
        BY DEF UserTypeOK, Address
    <2>2. KernelTypeOK'
        BY DEF KernelTypeOK
    <2>3. ConnectionKnown' /\ PointersOwned'
        BY DEF ConnectionKnown, PointersOwned, InitProgress, UserTypeOK, KernelTypeOK
    <2>4. HookUsable' /\ MechanismUsable' /\ OneArch' /\ OriginalSaved'
        BY DEF HookUsable, MechanismUsable, OneArch, OriginalSaved, InitSteps,
            ArchInitSteps, ArchDeinitSteps, Deinit7Steps, HookSteps, Usable, InitProgress
    <2>5. MechanismFirst' /\ InitProgress' /\ ClosedBeforeFree' /\ Unhooked'
        BY DEF MechanismFirst, InitProgress, ClosedBeforeFree, Unhooked, InitSteps,
            ArchInitSteps, ArchDeinitSteps, Deinit7Steps, UserTypeOK
    <2> QED
        BY <2>1, <2>2, <2>3, <2>4, <2>5
<1>6. CASE WriteEntryId
    <2> USE <1>6 DEF WriteEntryId
    <2>1. UserTypeOK' /\ returnTo' \in {"deinited", "init_failed"}
        BY DEF UserTypeOK
    <2>2. KernelTypeOK'
        BY DEF UserTypeOK, KernelTypeOK, Address, Refusals, InitProgress
    <2>3. ConnectionKnown' /\ PointersOwned'
        BY DEF ConnectionKnown, PointersOwned, InitProgress, KernelTypeOK
    <2>4. HookUsable' /\ MechanismUsable' /\ OneArch' /\ OriginalSaved'
        BY DEF HookUsable, MechanismUsable, OneArch, OriginalSaved, InitSteps,
            ArchInitSteps, ArchDeinitSteps, Deinit7Steps, HookSteps, Usable, InitProgress
    <2>5. MechanismFirst' /\ InitProgress' /\ ClosedBeforeFree' /\ Unhooked'
        BY DEF MechanismFirst, InitProgress, ClosedBeforeFree, Unhooked, InitSteps,
            ArchInitSteps, ArchDeinitSteps, Deinit7Steps, KernelTypeOK
    <2> QED
        BY <2>1, <2>2, <2>3, <2>4, <2>5
<1>7. CASE HookVtable
    <2> USE <1>7 DEF HookVtable
    <2>1. UserTypeOK' /\ returnTo' \in {"deinited", "init_failed"}
        BY DEF UserTypeOK
    <2>2. KernelTypeOK'
        BY DEF UserTypeOK, KernelTypeOK, Address, Refusals, InitProgress
    <2>3. ConnectionKnown' /\ PointersOwned'
        BY DEF ConnectionKnown, PointersOwned, InitProgress, KernelTypeOK
    <2>4. HookUsable' /\ MechanismUsable' /\ OneArch' /\ OriginalSaved'
        BY DEF HookUsable, MechanismUsable, OneArch, OriginalSaved, InitSteps,
            ArchInitSteps, ArchDeinitSteps, Deinit7Steps, HookSteps, Usable, InitProgress
    <2>5. MechanismFirst' /\ InitProgress' /\ ClosedBeforeFree' /\ Unhooked'
        BY DEF MechanismFirst, InitProgress, ClosedBeforeFree, Unhooked, InitSteps,
            ArchInitSteps, ArchDeinitSteps, Deinit7Steps, KernelTypeOK
    <2> QED
        BY <2>1, <2>2, <2>3, <2>4, <2>5
<1>8. CASE SetHooked
    <2> USE <1>8 DEF SetHooked
    <2>1. UserTypeOK' /\ returnTo' \in {"deinited", "init_failed"}
        BY DEF UserTypeOK
    <2>2. KernelTypeOK'
        BY DEF KernelTypeOK
    <2>3. ConnectionKnown' /\ PointersOwned'
        BY DEF ConnectionKnown, PointersOwned
    <2>4. HookUsable' /\ MechanismUsable' /\ OneArch' /\ OriginalSaved'
        BY DEF HookUsable, MechanismUsable, OneArch, OriginalSaved, InitSteps,
            ArchInitSteps, ArchDeinitSteps, Deinit7Steps, HookSteps, Usable, InitProgress
    <2>5. MechanismFirst' /\ InitProgress' /\ ClosedBeforeFree' /\ Unhooked'
        BY DEF MechanismFirst, InitProgress, ClosedBeforeFree, Unhooked, InitSteps,
            ArchInitSteps, ArchDeinitSteps, Deinit7Steps
    <2> QED
        BY <2>1, <2>2, <2>3, <2>4, <2>5
<1>9. CASE FailInit
    <2> USE <1>9 DEF FailInit, Call7Deinit
    <2>1. UserTypeOK' /\ returnTo' \in {"deinited", "init_failed"}
        BY DEF UserTypeOK
    <2>2. KernelTypeOK'
        BY DEF KernelTypeOK
    <2>3. ConnectionKnown' /\ PointersOwned'
        BY DEF ConnectionKnown, PointersOwned
    <2>4. HookUsable' /\ MechanismUsable' /\ OneArch' /\ OriginalSaved'
        BY DEF HookUsable, MechanismUsable, OneArch, OriginalSaved, InitSteps,
            ArchInitSteps, ArchDeinitSteps, Deinit7Steps, HookSteps, Usable
    <2>5. MechanismFirst' /\ InitProgress' /\ ClosedBeforeFree' /\ Unhooked'
        BY DEF MechanismFirst, InitProgress, ClosedBeforeFree, Unhooked, InitSteps,
            ArchInitSteps, ArchDeinitSteps, Deinit7Steps, MechanismUsable, Usable, OneArch
    <2> QED
        BY <2>1, <2>2, <2>3, <2>4, <2>5
<1> QED
    BY <1>1, <1>2, <1>3, <1>4, <1>5, <1>6, <1>7, <1>8, <1>9 DEF Call7InitStep

(* A step of the architecture's init function keeps the invariant. *)
LEMMA ArchInitPreserves ==
    ASSUME KInv, ArchInitStep
    PROVE  KInv'
<1> USE ArchAssumption, ValuesAssumption
<1> USE DEF KInv, At, Goto, user, kernelState, history
<1>1. CASE PrepareSyscallHook
    <2> USE <1>1 DEF PrepareSyscallHook
    <2>1. UserTypeOK' /\ returnTo' \in {"deinited", "init_failed"}
        BY DEF UserTypeOK, KernelTypeOK, Address
    <2>2. KernelTypeOK'
        BY DEF KernelTypeOK
    <2>3. ConnectionKnown' /\ PointersOwned'
        BY DEF ConnectionKnown, PointersOwned
    <2>4. HookUsable' /\ MechanismUsable' /\ OneArch' /\ OriginalSaved'
        BY DEF HookUsable, MechanismUsable, OneArch, OriginalSaved, InitSteps,
            ArchInitSteps, ArchDeinitSteps, Deinit7Steps, HookSteps, Usable, UserTypeOK,
            KernelTypeOK
    <2>5. MechanismFirst' /\ InitProgress' /\ ClosedBeforeFree' /\ Unhooked'
        BY DEF MechanismFirst, InitProgress, ClosedBeforeFree, Unhooked, InitSteps,
            ArchInitSteps, ArchDeinitSteps, Deinit7Steps
    <2> QED
        BY <2>1, <2>2, <2>3, <2>4, <2>5
<1>2. CASE WriteText
    <2> USE <1>2 DEF WriteText
    <2>1. UserTypeOK' /\ returnTo' \in {"deinited", "init_failed"}
        BY DEF UserTypeOK
    <2>2. KernelTypeOK'
        BY DEF KernelTypeOK, Refusals
    <2>3. ConnectionKnown' /\ PointersOwned'
        BY DEF ConnectionKnown, PointersOwned
    <2>4. HookUsable' /\ MechanismUsable' /\ OneArch' /\ OriginalSaved'
        BY DEF HookUsable, MechanismUsable, OneArch, OriginalSaved, InitSteps,
            ArchInitSteps, ArchDeinitSteps, Deinit7Steps, HookSteps, Usable
    <2>5. MechanismFirst' /\ InitProgress' /\ ClosedBeforeFree' /\ Unhooked'
        BY DEF MechanismFirst, InitProgress, ClosedBeforeFree, Unhooked, InitSteps,
            ArchInitSteps, ArchDeinitSteps, Deinit7Steps
    <2> QED
        BY <2>1, <2>2, <2>3, <2>4, <2>5
<1>3. CASE WriteSysent
    <2> USE <1>3 DEF WriteSysent
    <2>1. UserTypeOK' /\ returnTo' \in {"deinited", "init_failed"}
        BY DEF UserTypeOK
    <2>2. KernelTypeOK'
        BY DEF KernelTypeOK, Refusals
    <2>3. ConnectionKnown' /\ PointersOwned'
        BY DEF ConnectionKnown, PointersOwned
    <2>4. HookUsable' /\ MechanismUsable' /\ OneArch' /\ OriginalSaved'
        BY DEF HookUsable, MechanismUsable, OneArch, OriginalSaved, InitSteps,
            ArchInitSteps, ArchDeinitSteps, Deinit7Steps, HookSteps, Usable
    <2>5. MechanismFirst' /\ InitProgress' /\ ClosedBeforeFree' /\ Unhooked'
        BY DEF MechanismFirst, InitProgress, ClosedBeforeFree, Unhooked, InitSteps,
            ArchInitSteps, ArchDeinitSteps, Deinit7Steps
    <2> QED
        BY <2>1, <2>2, <2>3, <2>4, <2>5
<1>4. CASE SetFunction
    <2> USE <1>4 DEF SetFunction
    <2>1. UserTypeOK' /\ returnTo' \in {"deinited", "init_failed"}
        BY DEF UserTypeOK
    <2>2. KernelTypeOK'
        BY DEF KernelTypeOK
    <2>3. ConnectionKnown' /\ PointersOwned'
        BY DEF ConnectionKnown, PointersOwned
    <2>4. HookUsable' /\ MechanismUsable' /\ OneArch' /\ OriginalSaved'
        BY DEF HookUsable, MechanismUsable, OneArch, OriginalSaved, InitSteps,
            ArchInitSteps, ArchDeinitSteps, Deinit7Steps, HookSteps, Usable, UserTypeOK,
            KernelTypeOK
    <2>5. MechanismFirst' /\ InitProgress' /\ ClosedBeforeFree' /\ Unhooked'
        BY DEF MechanismFirst, InitProgress, ClosedBeforeFree, Unhooked, InitSteps,
            ArchInitSteps, ArchDeinitSteps, Deinit7Steps
    <2> QED
        BY <2>1, <2>2, <2>3, <2>4, <2>5
<1>5. CASE AllocatePayload
    <2> USE <1>5 DEF AllocatePayload, Free
    <2>1. UserTypeOK' /\ returnTo' \in {"deinited", "init_failed"}
        BY DEF UserTypeOK, Address
    <2>2. KernelTypeOK'
        BY DEF KernelTypeOK
    <2>3. ConnectionKnown' /\ PointersOwned'
        BY DEF ConnectionKnown, PointersOwned
    <2>4. HookUsable' /\ MechanismUsable' /\ OneArch' /\ OriginalSaved'
        BY DEF HookUsable, MechanismUsable, OneArch, OriginalSaved, InitSteps,
            ArchInitSteps, ArchDeinitSteps, Deinit7Steps, HookSteps, Usable
    <2>5. MechanismFirst' /\ InitProgress' /\ ClosedBeforeFree' /\ Unhooked'
        BY DEF MechanismFirst, InitProgress, ClosedBeforeFree, Unhooked, InitSteps,
            ArchInitSteps, ArchDeinitSteps, Deinit7Steps
    <2> QED
        BY <2>1, <2>2, <2>3, <2>4, <2>5
<1> QED
    BY <1>1, <1>2, <1>3, <1>4, <1>5 DEF ArchInitStep

(* A step of the architecture's deinit function keeps the invariant. *)
LEMMA ArchDeinitPreserves ==
    ASSUME KInv, ArchDeinitStep
    PROVE  KInv'
<1> USE ArchAssumption, ValuesAssumption
<1> USE DEF KInv, At, Goto, user, kernelState, history
<1>1. CASE ClearFunction
    <2> USE <1>1 DEF ClearFunction
    <2>1. UserTypeOK' /\ returnTo' \in {"deinited", "init_failed"}
        BY DEF UserTypeOK
    <2>2. KernelTypeOK'
        BY DEF KernelTypeOK
    <2>3. ConnectionKnown' /\ PointersOwned'
        BY DEF ConnectionKnown, PointersOwned
    <2>4. HookUsable' /\ MechanismUsable' /\ OneArch' /\ OriginalSaved'
        BY DEF HookUsable, MechanismUsable, OneArch, OriginalSaved, InitSteps,
            ArchInitSteps, ArchDeinitSteps, Deinit7Steps, HookSteps, Usable
    <2>5. MechanismFirst' /\ InitProgress' /\ ClosedBeforeFree' /\ Unhooked'
        BY DEF MechanismFirst, InitProgress, ClosedBeforeFree, Unhooked, InitSteps,
            ArchInitSteps, ArchDeinitSteps, Deinit7Steps
    <2> QED
        BY <2>1, <2>2, <2>3, <2>4, <2>5
<1>2. CASE RestoreSysent
    <2> USE <1>2 DEF RestoreSysent
    <2>1. UserTypeOK' /\ returnTo' \in {"deinited", "init_failed"}
        BY DEF UserTypeOK
    <2>2. KernelTypeOK'
        BY DEF KernelTypeOK, Refusals
    <2>3. ConnectionKnown' /\ PointersOwned'
        BY DEF ConnectionKnown, PointersOwned
    <2>4. HookUsable' /\ MechanismUsable' /\ OneArch' /\ OriginalSaved'
        BY DEF HookUsable, MechanismUsable, OneArch, OriginalSaved, InitSteps,
            ArchInitSteps, ArchDeinitSteps, Deinit7Steps, HookSteps, Usable
    <2>5. MechanismFirst' /\ InitProgress' /\ ClosedBeforeFree' /\ Unhooked'
        BY DEF MechanismFirst, InitProgress, ClosedBeforeFree, Unhooked, InitSteps,
            ArchInitSteps, ArchDeinitSteps, Deinit7Steps
    <2> QED
        BY <2>1, <2>2, <2>3, <2>4, <2>5
<1>3. CASE RestoreText
    <2> USE <1>3 DEF RestoreText
    <2>1. UserTypeOK' /\ returnTo' \in {"deinited", "init_failed"}
        BY DEF UserTypeOK
    <2>2. KernelTypeOK'
        BY DEF UserTypeOK, KernelTypeOK, Address, Refusals, OriginalSaved, HookSteps
    <2>3. ConnectionKnown' /\ PointersOwned'
        BY DEF ConnectionKnown, PointersOwned
    <2>4. HookUsable' /\ MechanismUsable' /\ OneArch' /\ OriginalSaved'
        BY DEF HookUsable, MechanismUsable, OneArch, OriginalSaved, InitSteps,
            ArchInitSteps, ArchDeinitSteps, Deinit7Steps, HookSteps
    <2>5. MechanismFirst' /\ InitProgress' /\ ClosedBeforeFree' /\ Unhooked'
        BY DEF MechanismFirst, InitProgress, ClosedBeforeFree, Unhooked, InitSteps,
            ArchInitSteps, ArchDeinitSteps, Deinit7Steps, OneArch, OriginalSaved, HookSteps
    <2> QED
        BY <2>1, <2>2, <2>3, <2>4, <2>5
<1>4. CASE FreePayload
    <2> USE <1>4 DEF FreePayload, Deallocate
    <2>1. UserTypeOK' /\ returnTo' \in {"deinited", "init_failed"}
        BY DEF UserTypeOK
    <2>2. KernelTypeOK'
        BY DEF KernelTypeOK, Refusals
    <2>3. ConnectionKnown' /\ PointersOwned'
        BY DEF ConnectionKnown, PointersOwned, InitProgress, UserTypeOK, KernelTypeOK,
            ClosedBeforeFree, HookUsable, Usable, MechanismUsable, ArchDeinitSteps, Address
    <2>4. HookUsable' /\ MechanismUsable' /\ OneArch' /\ OriginalSaved'
        BY DEF HookUsable, MechanismUsable, OneArch, OriginalSaved, InitSteps,
            ArchInitSteps, ArchDeinitSteps, Deinit7Steps, HookSteps, Usable, UserTypeOK,
            KernelTypeOK
    <2>5. MechanismFirst' /\ InitProgress' /\ ClosedBeforeFree' /\ Unhooked'
        BY DEF MechanismFirst, InitProgress, ClosedBeforeFree, Unhooked, InitSteps,
            ArchInitSteps, ArchDeinitSteps, Deinit7Steps
    <2> QED
        BY <2>1, <2>2, <2>3, <2>4, <2>5
<1>5. CASE ForgetPayload
    <2> USE <1>5 DEF ForgetPayload
    <2>1. UserTypeOK' /\ returnTo' \in {"deinited", "init_failed"}
        BY DEF UserTypeOK, Address
    <2>2. KernelTypeOK'
        BY DEF KernelTypeOK
    <2>3. ConnectionKnown' /\ PointersOwned'
        BY DEF ConnectionKnown, PointersOwned
    <2>4. HookUsable' /\ MechanismUsable' /\ OneArch' /\ OriginalSaved'
        BY DEF HookUsable, MechanismUsable, OneArch, OriginalSaved, InitSteps,
            ArchInitSteps, ArchDeinitSteps, Deinit7Steps, HookSteps
    <2>5. MechanismFirst' /\ InitProgress' /\ ClosedBeforeFree' /\ Unhooked'
        BY DEF MechanismFirst, InitProgress, ClosedBeforeFree, Unhooked, InitSteps,
            ArchInitSteps, ArchDeinitSteps, Deinit7Steps, OneArch, OriginalSaved, HookSteps
    <2> QED
        BY <2>1, <2>2, <2>3, <2>4, <2>5
<1> QED
    BY <1>1, <1>2, <1>3, <1>4, <1>5 DEF ArchDeinitStep

(* A step of kernel_call_7_deinit keeps the invariant. *)
LEMMA Call7DeinitPreserves ==
    ASSUME KInv, Call7DeinitStep
    PROVE  KInv'
<1> USE ArchAssumption, ValuesAssumption
<1> USE DEF KInv, At, Goto, user, kernelState, history
<1>1. CASE Unhook
    <2> USE <1>1 DEF Unhook
    <2>1. UserTypeOK' /\ returnTo' \in {"deinited", "init_failed"}
        BY DEF UserTypeOK
    <2>2. KernelTypeOK'
        BY DEF KernelTypeOK, Refusals
    <2>3. ConnectionKnown' /\ PointersOwned'
        BY DEF ConnectionKnown, PointersOwned, InitProgress, KernelTypeOK
    <2>4. HookUsable' /\ MechanismUsable' /\ OneArch' /\ OriginalSaved'
        BY DEF HookUsable, MechanismUsable, OneArch, OriginalSaved, InitSteps,
            ArchInitSteps, ArchDeinitSteps, Deinit7Steps, HookSteps, Usable, MechanismFirst
    <2>5. MechanismFirst' /\ InitProgress' /\ ClosedBeforeFree' /\ Unhooked'
        BY DEF MechanismFirst, InitProgress, ClosedBeforeFree, Unhooked, InitSteps,
            ArchInitSteps, ArchDeinitSteps, Deinit7Steps
    <2> QED
        BY <2>1, <2>2, <2>3, <2>4, <2>5
<1>2. CASE ClearHooked
    <2> USE <1>2 DEF ClearHooked
    <2>1. UserTypeOK' /\ returnTo' \in {"deinited", "init_failed"}
        BY DEF UserTypeOK
    <2>2. KernelTypeOK'
        BY DEF KernelTypeOK
    <2>3. ConnectionKnown' /\ PointersOwned'
        BY DEF ConnectionKnown, PointersOwned
    <2>4. HookUsable' /\ MechanismUsable' /\ OneArch' /\ OriginalSaved'
        BY DEF HookUsable, MechanismUsable, OneArch, OriginalSaved, InitSteps,
            ArchInitSteps, ArchDeinitSteps, Deinit7Steps, HookSteps, Usable, MechanismFirst
    <2>5. MechanismFirst' /\ InitProgress' /\ ClosedBeforeFree' /\ Unhooked'
        BY DEF MechanismFirst, InitProgress, ClosedBeforeFree, Unhooked, InitSteps,
            ArchInitSteps, ArchDeinitSteps, Deinit7Steps
    <2> QED
        BY <2>1, <2>2, <2>3, <2>4, <2>5
<1>3. CASE CloseConnection
    <2> USE <1>3 DEF CloseConnection
    <2>1. UserTypeOK' /\ returnTo' \in {"deinited", "init_failed"}
        BY DEF UserTypeOK
    <2>2. KernelTypeOK'
        BY DEF KernelTypeOK
    <2>3. ConnectionKnown' /\ PointersOwned'
        BY DEF ConnectionKnown, PointersOwned, InitProgress, KernelTypeOK
    <2>4. HookUsable' /\ MechanismUsable' /\ OneArch' /\ OriginalSaved'
        BY DEF HookUsable, MechanismUsable, OneArch, OriginalSaved, InitSteps,
            ArchInitSteps, ArchDeinitSteps, Deinit7Steps, HookSteps, Usable, MechanismFirst
    <2>5. MechanismFirst' /\ InitProgress' /\ ClosedBeforeFree' /\ Unhooked'
        BY DEF UserTypeOK, KernelTypeOK, MechanismUsable, Usable, MechanismFirst,
            InitProgress, ClosedBeforeFree, Unhooked, ConnectionKnown, OneArch,
            OriginalSaved, HookSteps, InitSteps, ArchInitSteps, ArchDeinitSteps,
            Deinit7Steps
    <2> QED
        BY <2>1, <2>2, <2>3, <2>4, <2>5
<1>4. CASE ForgetConnection
    <2> USE <1>4 DEF ForgetConnection
    <2>1. UserTypeOK' /\ returnTo' \in {"deinited", "init_failed"}
        BY DEF UserTypeOK
    <2>2. KernelTypeOK'
        BY DEF KernelTypeOK
    <2>3. ConnectionKnown' /\ PointersOwned'
        BY DEF ConnectionKnown, PointersOwned, ClosedBeforeFree
    <2>4. HookUsable' /\ MechanismUsable' /\ OneArch' /\ OriginalSaved'
        BY DEF HookUsable, MechanismUsable, OneArch, OriginalSaved, InitSteps,
            ArchInitSteps, ArchDeinitSteps, Deinit7Steps, HookSteps, Usable, MechanismFirst
    <2>5. MechanismFirst' /\ InitProgress' /\ ClosedBeforeFree' /\ Unhooked'
        BY DEF MechanismFirst, InitProgress, ClosedBeforeFree, Unhooked, InitSteps,
            ArchInitSteps, ArchDeinitSteps, Deinit7Steps
    <2> QED
        BY <2>1, <2>2, <2>3, <2>4, <2>5
<1>5. CASE FreeVtable
    <2> USE <1>5 DEF FreeVtable, Deallocate
    <2>1. UserTypeOK' /\ returnTo' \in {"deinited", "init_failed"}
        BY DEF UserTypeOK
    <2>2. KernelTypeOK'
        BY DEF KernelTypeOK, Refusals
    <2>3. ConnectionKnown' /\ PointersOwned'
        BY DEF ConnectionKnown, PointersOwned, ClosedBeforeFree
    <2>4. HookUsable' /\ MechanismUsable' /\ OneArch' /\ OriginalSaved'
        BY DEF HookUsable, MechanismUsable, OneArch, OriginalSaved, InitSteps,
            ArchInitSteps, ArchDeinitSteps, Deinit7Steps, HookSteps, Usable, MechanismFirst
    <2>5. MechanismFirst' /\ InitProgress' /\ ClosedBeforeFree' /\ Unhooked'
        BY DEF MechanismFirst, InitProgress, ClosedBeforeFree, Unhooked, InitSteps,
            ArchInitSteps, ArchDeinitSteps, Deinit7Steps
    <2> QED
        BY <2>1, <2>2, <2>3, <2>4, <2>5
<1>6. CASE ForgetVtable
    <2> USE <1>6 DEF ForgetVtable
    <2>1. UserTypeOK' /\ returnTo' \in {"deinited", "init_failed"}
        BY DEF UserTypeOK, Address
    <2>2. KernelTypeOK'
        BY DEF KernelTypeOK
    <2>3. ConnectionKnown' /\ PointersOwned'
        BY DEF ConnectionKnown, PointersOwned, ClosedBeforeFree
    <2>4. HookUsable' /\ MechanismUsable' /\ OneArch' /\ OriginalSaved'
        BY DEF HookUsable, MechanismUsable, OneArch, OriginalSaved, InitSteps,
            ArchInitSteps, ArchDeinitSteps, Deinit7Steps, HookSteps, Usable, MechanismFirst
    <2>5. MechanismFirst' /\ InitProgress' /\ ClosedBeforeFree' /\ Unhooked'
        BY DEF MechanismFirst, InitProgress, ClosedBeforeFree, Unhooked, InitSteps,
            ArchInitSteps, ArchDeinitSteps, Deinit7Steps
    <2> QED
        BY <2>1, <2>2, <2>3, <2>4, <2>5
<1>7. CASE FreeTrap
    <2> USE <1>7 DEF FreeTrap, Deallocate
    <2>1. UserTypeOK' /\ returnTo' \in {"deinited", "init_failed"}
        BY DEF UserTypeOK
    <2>2. KernelTypeOK'
        BY DEF KernelTypeOK, Refusals
    <2>3. ConnectionKnown' /\ PointersOwned'
        BY DEF ConnectionKnown, PointersOwned, ClosedBeforeFree
    <2>4. HookUsable' /\ MechanismUsable' /\ OneArch' /\ OriginalSaved'
        BY DEF HookUsable, MechanismUsable, OneArch, OriginalSaved, InitSteps,
            ArchInitSteps, ArchDeinitSteps, Deinit7Steps, HookSteps, Usable, MechanismFirst
    <2>5. MechanismFirst' /\ InitProgress' /\ ClosedBeforeFree' /\ Unhooked'
        BY DEF MechanismFirst, InitProgress, ClosedBeforeFree, Unhooked, InitSteps,
            ArchInitSteps, ArchDeinitSteps, Deinit7Steps
    <2> QED
        BY <2>1, <2>2, <2>3, <2>4, <2>5
<1>8. CASE ForgetTrap
    <2> USE <1>8 DEF ForgetTrap
    <2>1. UserTypeOK' /\ returnTo' \in {"deinited", "init_failed"}
        BY DEF UserTypeOK, Address
    <2>2. KernelTypeOK'
        BY DEF KernelTypeOK
    <2>3. ConnectionKnown' /\ PointersOwned'
        BY DEF ConnectionKnown, PointersOwned, ClosedBeforeFree
    <2>4. HookUsable' /\ MechanismUsable' /\ OneArch' /\ OriginalSaved'
        BY DEF HookUsable, MechanismUsable, OneArch, OriginalSaved, InitSteps,
            ArchInitSteps, ArchDeinitSteps, Deinit7Steps, HookSteps, Usable, MechanismFirst
    <2>5. MechanismFirst' /\ InitProgress' /\ ClosedBeforeFree' /\ Unhooked'
        BY DEF MechanismFirst, InitProgress, ClosedBeforeFree, Unhooked, InitSteps,
            ArchInitSteps, ArchDeinitSteps, Deinit7Steps
    <2> QED
        BY <2>1, <2>2, <2>3, <2>4, <2>5
<1> QED
    BY <1>1, <1>2, <1>3, <1>4, <1>5, <1>6, <1>7, <1>8 DEF Call7DeinitStep

-----------------------------------------------------------------------------
(* What surrounds the subsystem. *)

LEMMA InitialTypes ==
    /\ UserInit => UserTypeOK
    /\ KernelInit /\ HistoryInit => KernelTypeOK
<1>1. ASSUME UserInit PROVE UserTypeOK
    BY <1>1 DEF UserInit, NoHook, NoSyscallHook, UserTypeOK, Address
<1>2. ASSUME KernelInit PROVE client \in [open : BOOLEAN, vtable : Blocks \cup {Original},
                                          id : Blocks \cup {Original}]
    BY <1>2 DEF KernelInit
<1> QED
    BY <1>1, <1>2 DEF KernelInit, HistoryInit, KernelTypeOK

(* The state of a new process on a kernel where its client is not open. *)
LEMMA InitialInv ==
    ASSUME UserInit, KernelTypeOK, ~client.open, returnTo \in {"deinited", "init_failed"},
           pc \notin Steps \cup {"ready", "init_failed"}
    PROVE  KInv
<1>1. UserTypeOK
    BY InitialTypes
<1>2. ~syscallHook.function /\ jopPayload = None /\ ~hook.hooked
    BY DEF UserInit, NoHook, NoSyscallHook
<1> QED
    BY <1>1, <1>2 DEF KInv, ConnectionKnown, PointersOwned, HookUsable, MechanismUsable,
        OneArch, OriginalSaved, MechanismFirst, InitProgress, ClosedBeforeFree, Unhooked,
        Steps, InitSteps, ArchInitSteps, ArchDeinitSteps, Deinit7Steps, HookSteps

(* A step outside the subsystem that leaves its state alone. *)
LEMMA ElsewherePreserves ==
    ASSUME KInv, UNCHANGED <<user, kernelState, history>>,
           returnTo' \in {"deinited", "init_failed"},
           pc' \notin Steps \cup {"ready", "init_failed"}
    PROVE  KInv'
<1> USE DEF user, kernelState, history
<1>1. UserTypeOK' /\ KernelTypeOK'
    BY DEF KInv, UserTypeOK, KernelTypeOK
<1> QED
    BY <1>1 DEF KInv, ConnectionKnown, PointersOwned, HookUsable, Usable, MechanismUsable,
        OneArch, OriginalSaved, MechanismFirst, InitProgress, ClosedBeforeFree, Unhooked,
        Steps, InitSteps, ArchInitSteps, ArchDeinitSteps, Deinit7Steps, HookSteps

(* A call of kernel_call_init: an installed hook must be usable then. *)
LEMMA InitCallPreserves ==
    ASSUME KInv, UNCHANGED <<user, kernelState, history, returnTo>>, pc' = InitEntry,
           hook.hooked => Usable
    PROVE  KInv'
<1> USE DEF user, kernelState, history
<1>1. UserTypeOK' /\ KernelTypeOK'
    BY DEF KInv, UserTypeOK, KernelTypeOK
<1>2. /\ hook.hooked => pc' = "arch_init"
      /\ ~hook.hooked => pc' = "create_client"
    BY DEF InitEntry
<1> QED
    BY <1>1, <1>2 DEF KInv, ConnectionKnown, PointersOwned, HookUsable, Usable,
        MechanismUsable, OneArch, OriginalSaved, MechanismFirst, InitProgress,
        ClosedBeforeFree, Unhooked, InitSteps, ArchInitSteps, ArchDeinitSteps, Deinit7Steps,
        HookSteps

(* A call of kernel_call_deinit, from anywhere: from a signal handler too. *)
LEMMA DeinitCallPreserves ==
    ASSUME KInv, UNCHANGED <<user, kernelState, history>>, CallDeinit("deinited")
    PROVE  KInv'
<1> USE DEF user, kernelState, history
<1>1. UserTypeOK' /\ KernelTypeOK'
    BY DEF KInv, UserTypeOK, KernelTypeOK
<1>2. syscallHook.function => pc' = "clear_function"
    BY DEF KInv, OneArch, CallDeinit
<1>4. jopPayload # None => pc' = "free_payload"
    BY DEF KInv, OneArch, CallDeinit
<1>5. ~syscallHook.function /\ jopPayload = None => pc' = "unhook"
    BY DEF CallDeinit
<1>3. returnTo' = "deinited"
    BY DEF CallDeinit
<1> QED
    BY <1>1, <1>2, <1>3, <1>4, <1>5 DEF KInv, ConnectionKnown, PointersOwned, HookUsable,
        Usable,
        MechanismUsable, OneArch, OriginalSaved, MechanismFirst, InitProgress,
        ClosedBeforeFree, Unhooked, InitSteps, ArchInitSteps, ArchDeinitSteps, Deinit7Steps,
        HookSteps

(* The subsystem's steps stay inside it until they return. *)
Returns == {"ready", "init_failed", "deinited"}

LEMMA StepTarget ==
    ASSUME KInv,
           \/ \E interrupted \in BOOLEAN : Call7InitStep(interrupted)
           \/ ArchInitStep
           \/ ArchDeinitStep
           \/ Call7DeinitStep
    PROVE  pc' \in Steps \cup Returns /\ returnTo' \in {"deinited", "init_failed"}
<1> USE DEF KInv, Steps, Returns, Goto
<1>1. ASSUME NEW interrupted \in BOOLEAN, Call7InitStep(interrupted)
      PROVE  /\ pc' \in InitSteps \cup {"arch_init", "unhook"}
             /\ returnTo' \in {"deinited", "init_failed"}
    BY <1>1 DEF Call7InitStep, CreateUserClient, FindUserClient, AllocateVtable,
        WriteVtable,
        AllocateTrap, WriteEntryId, HookVtable, SetHooked, FailInit, Call7Deinit, InitSteps
<1>2. CASE ArchInitStep
    BY <1>2 DEF ArchInitStep, PrepareSyscallHook, WriteText, WriteSysent, SetFunction,
        AllocatePayload, ArchInitSteps
<1>3. CASE ArchDeinitStep
    BY <1>3 DEF ArchDeinitStep, ClearFunction, RestoreSysent, RestoreText, FreePayload,
        ForgetPayload, ArchDeinitSteps, Deinit7Steps
<1>4. CASE Call7DeinitStep
    BY <1>4 DEF Call7DeinitStep, Unhook, ClearHooked, CloseConnection, ForgetConnection,
        FreeVtable, ForgetVtable, FreeTrap, ForgetTrap, Deinit7Steps
<1> QED
    BY <1>1, <1>2, <1>3, <1>4 DEF ArchInitSteps, Deinit7Steps

LEMMA StepPreserves ==
    ASSUME KInv,
           \/ \E interrupted \in BOOLEAN : Call7InitStep(interrupted)
           \/ ArchInitStep
           \/ ArchDeinitStep
           \/ Call7DeinitStep
    PROVE  KInv'
BY Call7InitPreserves, ArchInitPreserves, ArchDeinitPreserves, Call7DeinitPreserves

(* What the invariant is for. *)
LEMMA InvConsequences ==
    ASSUME KInv
    PROVE  NothingDangling /\ HookedReturnsTrap /\ HookUsable
BY DEF KInv, PointersOwned, NothingDangling, HookedReturnsTrap

-----------------------------------------------------------------------------
(* No name is overwritten while it names a block. *)
Cleared ==
    /\ pc \in {"create_client", "find_client", "allocate_vtable", "free_trap", "forget_trap"} =>
          hook.hookedVtable = None
    /\ pc \in {"create_client", "find_client", "allocate_vtable", "write_vtable",
               "allocate_trap"} => hook.trap = None
    /\ pc \notin Steps /\ ~hook.hooked => hook.hookedVtable = None /\ hook.trap = None

(* If the kernel took back all it was given, what is allocated is named. *)
Accounted ==
    "deallocate" \notin refused =>
        /\ kmem \subseteq {hook.hookedVtable, hook.trap, jopPayload}
        /\ pc = "forget_vtable" => hook.hookedVtable \notin kmem
        /\ pc = "forget_trap" => hook.trap \notin kmem
        /\ pc = "forget_payload" => jopPayload \notin kmem

Accounts == Live /\ Distinct /\ Cleared /\ Accounted /\ ~doubleFree

(* Every step of the library keeps the accounts. *)
LEMMA Init7Accounts ==
    ASSUME KInv, Accounts, NEW interrupted \in BOOLEAN, Call7InitStep(interrupted)
    PROVE  Accounts'
<1> USE ValuesAssumption
<1> USE DEF KInv, At, Goto, user, kernelState, history
<1> USE DEF Accounts, Live, Distinct, Cleared, Accounted, UserTypeOK, KernelTypeOK, Address,
        MechanismFirst, MechanismUsable, Usable, InitProgress, Unhooked, Refusals,
        Steps, InitSteps, ArchInitSteps, ArchDeinitSteps, Deinit7Steps
<1>1. CASE CreateUserClient
    BY <1>1 DEF CreateUserClient
<1>2. CASE FindUserClient(interrupted)
    BY <1>2 DEF FindUserClient
<1>3. CASE AllocateVtable
    BY <1>3 DEF AllocateVtable, Free
<1>4. CASE WriteVtable
    BY <1>4 DEF WriteVtable
<1>5. CASE AllocateTrap
    BY <1>5 DEF AllocateTrap, Free
<1>6. CASE WriteEntryId
    BY <1>6 DEF WriteEntryId
<1>7. CASE HookVtable
    BY <1>7 DEF HookVtable
<1>8. CASE SetHooked
    BY <1>8 DEF SetHooked
<1>9. CASE FailInit
    BY <1>9 DEF FailInit, Call7Deinit
<1> QED
    BY <1>1, <1>2, <1>3, <1>4, <1>5, <1>6, <1>7, <1>8, <1>9 DEF Call7InitStep

LEMMA ArchInitAccounts ==
    ASSUME KInv, Accounts, ArchInitStep
    PROVE  Accounts'
<1> USE ValuesAssumption
<1> USE DEF KInv, At, Goto, user, kernelState, history
<1> USE DEF Accounts, Live, Distinct, Cleared, Accounted, UserTypeOK, KernelTypeOK, Address,
        MechanismFirst, MechanismUsable, Usable, InitProgress, Unhooked, Refusals, HookUsable,
        Steps, InitSteps, ArchInitSteps, ArchDeinitSteps, Deinit7Steps
<1>1. CASE PrepareSyscallHook
    BY <1>1 DEF PrepareSyscallHook
<1>2. CASE WriteText
    BY <1>2 DEF WriteText
<1>3. CASE WriteSysent
    BY <1>3 DEF WriteSysent
<1>4. CASE SetFunction
    BY <1>4 DEF SetFunction
<1>5. CASE AllocatePayload
    BY <1>5 DEF AllocatePayload, Free
<1> QED
    BY <1>1, <1>2, <1>3, <1>4, <1>5 DEF ArchInitStep

LEMMA ArchDeinitAccounts ==
    ASSUME KInv, Accounts, ArchDeinitStep
    PROVE  Accounts'
<1> USE ValuesAssumption
<1> USE DEF KInv, At, Goto, user, kernelState, history
<1> USE DEF Accounts, Live, Distinct, Cleared, Accounted, UserTypeOK, KernelTypeOK, Address,
        MechanismFirst, MechanismUsable, Usable, InitProgress, Unhooked, Refusals,
        Steps, InitSteps, ArchInitSteps, ArchDeinitSteps, Deinit7Steps
<1>1. CASE ClearFunction
    BY <1>1 DEF ClearFunction
<1>2. CASE RestoreSysent
    BY <1>2 DEF RestoreSysent
<1>3. CASE RestoreText
    BY <1>3 DEF RestoreText
<1>4. CASE FreePayload
    BY <1>4 DEF FreePayload, Deallocate
<1>5. CASE ForgetPayload
    BY <1>5 DEF ForgetPayload
<1> QED
    BY <1>1, <1>2, <1>3, <1>4, <1>5 DEF ArchDeinitStep

LEMMA Deinit7Accounts ==
    ASSUME KInv, Accounts, Call7DeinitStep
    PROVE  Accounts'
<1> USE ValuesAssumption
<1> USE DEF KInv, At, Goto, user, kernelState, history
<1> USE DEF Accounts, Live, Distinct, Cleared, Accounted, UserTypeOK, KernelTypeOK, Address,
        MechanismFirst, MechanismUsable, Usable, InitProgress, Unhooked, Refusals,
        Steps, InitSteps, ArchInitSteps, ArchDeinitSteps, Deinit7Steps
<1>1. CASE Unhook
    BY <1>1 DEF Unhook
<1>2. CASE ClearHooked
    BY <1>2 DEF ClearHooked
<1>3. CASE CloseConnection
    BY <1>3 DEF CloseConnection
<1>4. CASE ForgetConnection
    BY <1>4 DEF ForgetConnection
<1>5. CASE FreeVtable
    BY <1>5 DEF FreeVtable, Deallocate
<1>6. CASE ForgetVtable
    BY <1>6 DEF ForgetVtable
<1>7. CASE FreeTrap
    BY <1>7 DEF FreeTrap, Deallocate
<1>8. CASE ForgetTrap
    BY <1>8 DEF ForgetTrap
<1> QED
    BY <1>1, <1>2, <1>3, <1>4, <1>5, <1>6, <1>7, <1>8 DEF Call7DeinitStep

(* A call of kernel_call_init or kernel_call_deinit from outside, or another *)
(* step there, keeps the accounts.                                           *)
LEMMA OutsideAccounts ==
    ASSUME Accounts, pc \notin Steps, UNCHANGED <<user, kernelState, history>>,
           \/ pc' \notin Steps
           \/ pc' = InitEntry
           \/ CallDeinit("deinited")
    PROVE  Accounts'
<1> USE DEF user, kernelState, history
<1>1. CASE pc' \notin Steps
    BY <1>1 DEF Accounts, Live, Distinct, Cleared, Accounted, Steps, InitSteps, ArchDeinitSteps,
        Deinit7Steps
<1>2. CASE pc' = InitEntry
    <2>1. /\ hook.hooked => pc' = "arch_init"
          /\ ~hook.hooked => pc' = "create_client"
        BY <1>2 DEF InitEntry
    <2> QED
        BY <2>1 DEF Accounts, Live, Distinct, Cleared, Accounted, Steps, InitSteps,
            ArchInitSteps, ArchDeinitSteps, Deinit7Steps
<1>3. CASE CallDeinit("deinited")
    <2>1. /\ pc' \in {"clear_function", "free_payload", "unhook"}
          /\ pc' = "free_payload" => jopPayload # None
        BY <1>3 DEF CallDeinit
    <2> QED
        BY <2>1 DEF Accounts, Live, Distinct, Cleared, Accounted, Steps, InitSteps,
            ArchDeinitSteps, Deinit7Steps
<1> QED
    BY <1>1, <1>2, <1>3

LEMMA StepAccounts ==
    ASSUME KInv, Accounts,
           \/ \E interrupted \in BOOLEAN : Call7InitStep(interrupted)
           \/ ArchInitStep
           \/ ArchDeinitStep
           \/ Call7DeinitStep
    PROVE  Accounts'
BY Init7Accounts, ArchInitAccounts, ArchDeinitAccounts, Deinit7Accounts

LEMMA InitialAccounts ==
    ASSUME UserInit, KernelInit, HistoryInit, pc \notin Steps
    PROVE  Accounts
BY DEF UserInit, NoHook, KernelInit, HistoryInit, Accounts, Live, Distinct, Cleared, Accounted,
    Steps, InitSteps, ArchDeinitSteps, Deinit7Steps

-----------------------------------------------------------------------------
(***************************************************************************)
(* What is written where for the system call of x86_64, as long as nothing *)
(* was refused: the hook's function is set exactly while both the table    *)
(* entry and the text are the hook's, and original holds the kernel's text.*)
(***************************************************************************)
SystemCall(entry, code) == sysent = entry /\ text = code

Installed ==
    refused = {} =>
        /\ pc \in HookSteps \/ syscallHook.function => syscallHook.original = "original"
        /\ pc = "write_text" => SystemCall("nosys", "original")
        /\ pc = "write_sysent" => SystemCall("nosys", "hook")
        /\ pc \in {"set_function", "clear_function", "restore_sysent"} => SystemCall("hook", "hook")
        /\ pc = "restore_text" => SystemCall("nosys", "hook")
        /\ pc \notin HookSteps =>
              IF syscallHook.function THEN SystemCall("hook", "hook")
              ELSE SystemCall("nosys", "original")

LEMMA StepInstalled ==
    ASSUME KInv, Installed,
           \/ \E interrupted \in BOOLEAN : Call7InitStep(interrupted)
           \/ ArchInitStep
           \/ ArchDeinitStep
           \/ Call7DeinitStep
    PROVE  Installed'
<1> USE DEF At, Goto, HookSteps, Installed, SystemCall, user, kernelState, history
<1>1. /\ returnTo \in {"deinited", "init_failed"}
      /\ syscallHook \in [function : BOOLEAN,
                          original : {"unset", "original", "hook", "torn"}]
    BY DEF KInv, UserTypeOK
<1>2. ASSUME NEW interrupted \in BOOLEAN, Call7InitStep(interrupted)
      PROVE  Installed'
    BY <1>2 DEF Call7InitStep, CreateUserClient, FindUserClient, AllocateVtable, WriteVtable,
        AllocateTrap, WriteEntryId, HookVtable, SetHooked, FailInit, Call7Deinit
<1>3. CASE ArchInitStep
    <2>1. CASE PrepareSyscallHook
        BY <1>1, <2>1 DEF PrepareSyscallHook
    <2>2. CASE WriteText
        BY <2>2 DEF WriteText
    <2>3. CASE WriteSysent
        BY <2>3 DEF WriteSysent
    <2>4. CASE SetFunction
        BY <1>1, <2>4 DEF SetFunction
    <2>5. CASE AllocatePayload
        BY <2>5 DEF AllocatePayload
    <2> QED
        BY <1>3, <2>1, <2>2, <2>3, <2>4, <2>5 DEF ArchInitStep
<1>4. CASE ArchDeinitStep
    <2>1. CASE ClearFunction
        BY <1>1, <2>1 DEF ClearFunction, KInv, HookUsable
    <2>2. CASE RestoreSysent
        BY <2>2 DEF RestoreSysent
    <2>3. CASE RestoreText
        BY <2>3 DEF RestoreText, KInv, OriginalSaved
    <2>4. CASE FreePayload
        BY <2>4 DEF FreePayload, Deallocate
    <2>5. CASE ForgetPayload
        BY <2>5 DEF ForgetPayload
    <2> QED
        BY <1>4, <2>1, <2>2, <2>3, <2>4, <2>5 DEF ArchDeinitStep
<1>5. CASE Call7DeinitStep
    BY <1>1, <1>5 DEF Call7DeinitStep, Unhook, ClearHooked, CloseConnection, ForgetConnection,
        FreeVtable, ForgetVtable, FreeTrap, ForgetTrap, Deallocate
<1> QED
    BY <1>2, <1>3, <1>4, <1>5

LEMMA OutsideInstalled ==
    ASSUME Installed, pc \notin Steps, UNCHANGED <<user, kernelState, history>>,
           \/ pc' \notin Steps
           \/ pc' = InitEntry
           \/ CallDeinit("deinited")
    PROVE  Installed'
<1>1. pc \notin HookSteps
    BY DEF HookSteps, Steps, ArchInitSteps, ArchDeinitSteps
<1>2. pc' \notin HookSteps \/ (pc' = "clear_function" /\ syscallHook.function)
    <2>1. CASE pc' \notin Steps \/ pc' = InitEntry
        BY <2>1 DEF HookSteps, InitEntry, Steps, ArchInitSteps, ArchDeinitSteps
    <2>2. CASE CallDeinit("deinited") /\ Arch = "x86_64" /\ syscallHook.function
        BY <2>2 DEF CallDeinit
    <2>3. CASE CallDeinit("deinited") /\ ~(Arch = "x86_64" /\ syscallHook.function)
        BY <2>3 DEF CallDeinit, HookSteps
    <2> QED
        BY <2>1, <2>2, <2>3
<1> QED
    BY <1>1, <1>2 DEF Installed, SystemCall, HookSteps, user, kernelState, history

LEMMA InitialInstalled ==
    ASSUME UserInit, KernelInit, pc \notin Steps
    PROVE  Installed
<1>1. pc \notin HookSteps
    BY DEF HookSteps, Steps, ArchInitSteps, ArchDeinitSteps
<1> QED
    BY <1>1 DEF UserInit, NoSyscallHook, KernelInit, Installed, SystemCall, HookSteps

(***************************************************************************)
(* Both accounts at a time when the library has no hook: the kernel is as  *)
(* it was found, but for what it refused to put back.                      *)
(***************************************************************************)
LEMMA CleanWithoutHook ==
    ASSUME KInv, Accounts, Installed, pc \notin Steps, ~hook.hooked, ~client.open, refused = {}
    PROVE  Clean
<1>1. ~syscallHook.function /\ jopPayload = None
    BY DEF KInv, MechanismUsable, Usable
<1>2. hook.hookedVtable = None /\ hook.trap = None
    BY DEF Accounts, Cleared
<1>3. kmem = {}
    BY <1>1, <1>2, ValuesAssumption DEF Accounts, Accounted, KInv, KernelTypeOK
<1>4. sysent = "nosys" /\ text = "original"
    BY <1>1 DEF Installed, SystemCall, HookSteps, Steps, ArchInitSteps, ArchDeinitSteps
<1> QED
    BY <1>3, <1>4 DEF Clean

-----------------------------------------------------------------------------
(***************************************************************************)
(* The library on its own: what holds for any program that calls           *)
(* kernel_call_init and kernel_call_deinit one after the other, for any    *)
(* blocks of memory.                                                       *)
(***************************************************************************)
(* Between calls, a hook that the statics claim to be installed is usable. *)
RestUsable == pc \in Rest /\ hook.hooked => Usable

LInv == KInv /\ pc \in Rest \cup Steps /\ RestUsable

-----------------------------------------------------------------------------
LEMMA LInvInit == LibraryInit => LInv
<1> SUFFICES ASSUME LibraryInit PROVE LInv
    OBVIOUS
<1>1. pc = "idle" /\ returnTo = "deinited" /\ UserInit /\ KernelInit /\ HistoryInit
    BY DEF LibraryInit
<1>2. KernelTypeOK /\ ~client.open /\ ~hook.hooked
    BY <1>1, InitialTypes DEF UserInit, KernelInit, NoHook
<1>3. KInv
    BY <1>1, <1>2, InitialInv DEF Steps, InitSteps, ArchInitSteps, ArchDeinitSteps, Deinit7Steps
<1> QED
    BY <1>1, <1>2, <1>3 DEF LInv, Rest, RestUsable

(* A step that returns to the caller leaves a usable hook or none. *)
LEMMA ReturnUsable ==
    ASSUME KInv, KInv',
           \/ \E interrupted \in BOOLEAN : Call7InitStep(interrupted)
           \/ ArchInitStep
           \/ ArchDeinitStep
           \/ Call7DeinitStep
    PROVE  RestUsable'
<1> USE DEF Goto, RestUsable, Rest
<1>1. ASSUME NEW interrupted \in BOOLEAN, Call7InitStep(interrupted)
      PROVE  pc' \notin Rest
    BY <1>1 DEF Call7InitStep, CreateUserClient, FindUserClient, AllocateVtable, WriteVtable,
        AllocateTrap, WriteEntryId, HookVtable, SetHooked, FailInit, Call7Deinit
<1>2. CASE ArchInitStep
    <2>1. pc' = "ready" \/ pc' \notin Rest
        BY <1>2 DEF ArchInitStep, PrepareSyscallHook, WriteText, WriteSysent, SetFunction,
            AllocatePayload
    <2> QED
        BY <2>1 DEF KInv, HookUsable
<1>3. CASE ArchDeinitStep
    BY <1>3 DEF ArchDeinitStep, ClearFunction, RestoreSysent, RestoreText, FreePayload,
        ForgetPayload
<1>4. CASE Call7DeinitStep
    <2>1. CASE FreeTrap \/ ForgetTrap
        <3>1. ~hook.hooked
            BY <2>1 DEF FreeTrap, ForgetTrap, At, KInv, Unhooked
        <3>2. hook' = hook \/ hook' = [hook EXCEPT !.trap = None]
            BY <2>1 DEF FreeTrap, ForgetTrap, user
        <3> QED
            BY <3>1, <3>2 DEF KInv, UserTypeOK
    <2>2. CASE ~(FreeTrap \/ ForgetTrap)
        BY <1>4, <2>2 DEF Call7DeinitStep, Unhook, ClearHooked, CloseConnection,
            ForgetConnection, FreeVtable, ForgetVtable
    <2> QED
        BY <2>1, <2>2
<1> QED
    BY <1>1, <1>2, <1>3, <1>4

(* Every step of the program and of the library keeps the invariant. *)
LEMMA LInvNext == LInv /\ [LibraryNext]_kcVars => LInv'
<1> SUFFICES ASSUME LInv, [LibraryNext]_kcVars PROVE LInv'
    OBVIOUS
<1> USE DEF LInv
<1>1. CASE InitCall
    <2>1. KInv'
        BY <1>1, InitCallPreserves DEF InitCall, Goto, RestUsable
    <2>2. pc' \in {"arch_init", "create_client"}
        BY <1>1 DEF InitCall, InitEntry, Goto
    <2> QED
        BY <2>1, <2>2 DEF RestUsable, Rest, Steps, InitSteps, ArchInitSteps
<1>2. CASE DeinitCall
    <2>1. KInv'
        BY <1>2, DeinitCallPreserves DEF DeinitCall
    <2>2. pc' \in {"clear_function", "free_payload", "unhook"}
        BY <1>2 DEF DeinitCall, CallDeinit
    <2> QED
        BY <2>1, <2>2 DEF RestUsable, Rest, Steps, ArchDeinitSteps, Deinit7Steps
<1>3. CASE \/ \E interrupted \in BOOLEAN : Call7InitStep(interrupted)
           \/ ArchInitStep
           \/ ArchDeinitStep
           \/ Call7DeinitStep
    <2>1. KInv'
        BY <1>3, StepPreserves
    <2>2. pc' \in Steps \cup Returns
        BY <1>3, StepTarget
    <2> QED
        BY <1>3, <2>1, <2>2, ReturnUsable DEF Returns, Rest
<1>4. CASE UNCHANGED kcVars
    <2> USE <1>4 DEF kcVars, control, user, kernelState, history
    <2>1. UserTypeOK' /\ KernelTypeOK'
        BY DEF KInv, UserTypeOK, KernelTypeOK
    <2>2. KInv'
        BY <2>1 DEF KInv, ConnectionKnown, PointersOwned, HookUsable, Usable, MechanismUsable,
            OneArch, OriginalSaved, MechanismFirst, InitProgress, ClosedBeforeFree, Unhooked
    <2> QED
        BY <2>2 DEF RestUsable, Usable
<1> QED
    BY <1>1, <1>2, <1>3, <1>4 DEF LibraryNext

LEMMA LibraryInvariant == LibrarySpec => []LInv
BY LInvInit, LInvNext, PTL DEF LibrarySpec

-----------------------------------------------------------------------------
(***************************************************************************)
(* The blocks of kernel memory and the system call are accounted for, and  *)
(* a library without a hook has no open client.                            *)
(***************************************************************************)
NothingOpen == pc \in Rest \ {"ready"} => ~hook.hooked /\ ~client.open

Books == Accounts /\ Installed /\ NothingOpen

LEMMA RestOutside == Rest \cap Steps = {}
BY DEF Rest, Steps, InitSteps, ArchInitSteps, ArchDeinitSteps, Deinit7Steps

LEMMA InitBooks == LibraryInit => Books
<1> SUFFICES ASSUME LibraryInit PROVE Books
    OBVIOUS
<1>1. pc = "idle" /\ UserInit /\ KernelInit /\ HistoryInit
    BY DEF LibraryInit
<1>2. pc \notin Steps
    BY <1>1, RestOutside DEF Rest
<1> QED
    BY <1>1, <1>2, InitialAccounts, InitialInstalled
       DEF Books, NothingOpen, UserInit, NoHook, KernelInit

(* A call that returns without a hook has closed its client. *)
LEMMA ReturnNothingOpen ==
    ASSUME LInv,
           \/ \E interrupted \in BOOLEAN : Call7InitStep(interrupted)
           \/ ArchInitStep
           \/ ArchDeinitStep
           \/ Call7DeinitStep
    PROVE  NothingOpen'
<1> USE DEF Goto, NothingOpen, Rest
<1>1. ASSUME NEW interrupted \in BOOLEAN, Call7InitStep(interrupted)
      PROVE  pc' \notin Rest
    BY <1>1 DEF Call7InitStep, CreateUserClient, FindUserClient, AllocateVtable, WriteVtable,
        AllocateTrap, WriteEntryId, HookVtable, SetHooked, FailInit, Call7Deinit
<1>2. CASE ArchInitStep
    BY <1>2 DEF ArchInitStep, PrepareSyscallHook, WriteText, WriteSysent, SetFunction,
        AllocatePayload
<1>3. CASE ArchDeinitStep
    BY <1>3 DEF ArchDeinitStep, ClearFunction, RestoreSysent, RestoreText, FreePayload,
        ForgetPayload
<1>4. CASE FreeTrap \/ ForgetTrap
    <2>1. ~hook.hooked /\ ~client.open
        BY <1>4 DEF FreeTrap, ForgetTrap, At, LInv, KInv, Unhooked, ClosedBeforeFree
    <2>2. hook' = hook \/ hook' = [hook EXCEPT !.trap = None]
        BY <1>4 DEF FreeTrap, ForgetTrap, user
    <2>3. client' = client
        BY <1>4 DEF FreeTrap, ForgetTrap, kernelState
    <2> QED
        BY <2>1, <2>2, <2>3 DEF LInv, KInv, UserTypeOK
<1>5. CASE Call7DeinitStep /\ ~(FreeTrap \/ ForgetTrap)
    BY <1>5 DEF Call7DeinitStep, Unhook, ClearHooked, CloseConnection, ForgetConnection,
        FreeVtable, ForgetVtable
<1> QED
    BY <1>1, <1>2, <1>3, <1>4, <1>5

LEMMA NextBooks == LInv /\ Books /\ [LibraryNext]_kcVars => Books'
<1> SUFFICES ASSUME LInv, Books, [LibraryNext]_kcVars PROVE Books'
    OBVIOUS
<1> USE DEF Books
<1>1. CASE InitCall \/ DeinitCall
    <2>1. /\ pc \in Rest /\ UNCHANGED <<user, kernelState, history>>
          /\ pc' = InitEntry \/ CallDeinit("deinited")
        BY <1>1 DEF InitCall, DeinitCall, Goto
    <2>2. pc' \notin Rest
        BY <2>1 DEF InitEntry, CallDeinit, Rest
    <2> QED
        BY <2>1, <2>2, RestOutside, OutsideAccounts, OutsideInstalled DEF NothingOpen
<1>2. CASE \/ \E interrupted \in BOOLEAN : Call7InitStep(interrupted)
           \/ ArchInitStep
           \/ ArchDeinitStep
           \/ Call7DeinitStep
    BY <1>2, StepAccounts, StepInstalled, ReturnNothingOpen DEF LInv
<1>3. CASE UNCHANGED kcVars
    BY <1>3 DEF kcVars, control, user, kernelState, history, Accounts, Live, Distinct, Cleared,
        Accounted, Installed, SystemCall, NothingOpen
<1> QED
    BY <1>1, <1>2, <1>3 DEF LibraryNext

LEMMA BooksInvariant == LibrarySpec => []Books
BY LibraryInvariant, InitBooks, NextBooks, PTL DEF LibrarySpec

-----------------------------------------------------------------------------
(* Every variable of the library keeps its type. *)
THEOREM LibraryTypeCorrect == LibrarySpec => []LibraryTypeOK
<1>1. LInv => LibraryTypeOK
    BY DEF LInv, KInv, LibraryTypeOK, StateTypeOK
<1> QED
    BY LibraryInvariant, <1>1, PTL

(***************************************************************************)
(* Memory the open client points to stays allocated, a hooked vtable never *)
(* answers getRegistryEntryID with the real ID, and kernel_call_7 works    *)
(* wherever the library calls it, in any sequence of calls in which any    *)
(* step may fail.                                                          *)
(***************************************************************************)
THEOREM HookSound == LibrarySpec => []HookWorks
<1>1. LInv => HookWorks
    BY InvConsequences DEF LInv, HookWorks
<1> QED
    BY LibraryInvariant, <1>1, PTL

(***************************************************************************)
(* Between calls, the blocks allocated in the kernel are exactly those     *)
(* that the library can still give back, if it was never refused: neither  *)
(* a failure half way nor a repeated call loses one.                       *)
(***************************************************************************)
THEOREM NothingLeaks == LibrarySpec => []NoLeak
<1>1. LInv /\ Books => NoLeak
    <2> SUFFICES ASSUME LInv, Books, pc \in Rest, "deallocate" \notin refused
                 PROVE  kmem = Owned
        BY DEF NoLeak
    <2>1. {hook.hookedVtable, hook.trap, jopPayload} \subseteq kmem \cup {None}
        BY DEF Books, Accounts, Live, Rest
    <2>2. kmem \subseteq {hook.hookedVtable, hook.trap, jopPayload}
        BY DEF Books, Accounts, Accounted
    <2>3. None \notin kmem
        BY ValuesAssumption DEF LInv, KInv, KernelTypeOK
    <2> QED
        BY <2>1, <2>2, <2>3 DEF Owned
<1> QED
    BY LibraryInvariant, BooksInvariant, <1>1, PTL

(* No sequence of calls gives a block of kernel memory back twice. *)
THEOREM NothingFreedTwice == LibrarySpec => []NoDoubleFree
<1>1. Books => NoDoubleFree
    BY DEF Books, Accounts, NoDoubleFree
<1> QED
    BY BooksInvariant, <1>1, PTL

(***************************************************************************)
(* After kernel_call_deinit, and after a kernel_call_init that failed, the *)
(* kernel is as the library found it if it refused nothing: no client, no  *)
(* block and no word of the system call is left, whatever sequence of      *)
(* calls, failures half way and repeated initializations came before.      *)
(***************************************************************************)
THEOREM KernelRestored == LibrarySpec => []RestoredAtRest
<1>1. LInv /\ Books => RestoredAtRest
    <2> SUFFICES ASSUME LInv, Books, pc \in Rest \ {"ready"}, refused = {}
                 PROVE  Clean
        BY DEF RestoredAtRest, Rest
    <2>1. pc \notin Steps
        BY RestOutside
    <2> QED
        BY <2>1, CleanWithoutHook DEF LInv, Books, NothingOpen
<1> QED
    BY LibraryInvariant, BooksInvariant, <1>1, PTL

=============================================================================
