---------------------------- MODULE SessionProofs ----------------------------
(***************************************************************************)
(* What holds of memctl although a signal handler may deinitialize at any  *)
(* step of the rest: proved for any blocks of kernel memory, any signals   *)
(* and any number of processes one after the other.                        *)
(***************************************************************************)
EXTENDS Session, KernelCallProofs

(* Where main is when it is not inside the kernel call subsystem: a hook   *)
(* that the statics claim to be installed can then be used.                *)
Outside == {"main", "prompt", "reading", "initialize", "run", "leave"}

HookedIsUsable == pc \in Outside /\ hook.hooked => Usable

(* A process that has ended has no statics, and its client is closed. *)
Ended == pc = "exited" => UserInit /\ ~client.open

SInv == KInv /\ TypeOK /\ HookedIsUsable /\ Ended

-----------------------------------------------------------------------------
LEMMA SessionInit == Init => SInv
<1> SUFFICES ASSUME Init PROVE SInv
    OBVIOUS
<1>1. /\ UserInit /\ KernelInit /\ HistoryInit
      /\ pc = "main" /\ returnTo = "deinited"
      /\ loaded = {} /\ wanted = {} /\ up = {} /\ abandoned = {}
      /\ stage = 1 /\ runs = 1 /\ armed = Signals
      /\ inRepl = FALSE /\ interrupted = FALSE
    BY DEF Init, ProcessInit
<1>2. UserTypeOK /\ KernelTypeOK /\ ~client.open /\ ~hook.hooked
    BY <1>1, InitialTypes DEF UserInit, KernelInit, NoHook
<1>3. stage \in 1 .. 9 /\ runs \in 1 .. MaxRuns
    BY <1>1, MaxRunsAssumption
<1>4. pc \in MainSteps
    BY <1>1 DEF MainSteps
<1>5. TypeOK
    BY <1>1, <1>2, <1>3, <1>4 DEF TypeOK, StateTypeOK
<1>6. KInv
    BY <1>1, <1>2, InitialInv DEF Steps, InitSteps, ArchInitSteps, ArchDeinitSteps, Deinit7Steps
<1> QED
    BY <1>1, <1>2, <1>5, <1>6 DEF SInv, HookedIsUsable, Ended

(* A step of the subsystem. *)
LEMMA KernelCallStepPreserves ==
    ASSUME SInv, KernelCallStep
    PROVE  SInv'
<1> USE DEF SInv
<1>1. KInv'
    BY StepPreserves DEF KernelCallStep, TypeOK
<1>2. pc' \in Steps \cup Returns /\ returnTo' \in {"deinited", "init_failed"}
    BY StepTarget DEF KernelCallStep, TypeOK
<1>3. TypeOK'
    BY <1>1, <1>2 DEF KernelCallStep, memctl, signals, TypeOK, StateTypeOK, KInv, Returns
<1>4. pc' \notin Outside \cup {"exited"}
    BY <1>2 DEF Outside, Returns, Steps, InitSteps, ArchInitSteps, ArchDeinitSteps, Deinit7Steps
<1> QED
    BY <1>1, <1>3, <1>4 DEF HookedIsUsable, Ended

(* Any other step that neither enters the subsystem nor ends the process. *)
LEMMA OutsidePreserves ==
    ASSUME SInv, TypeOK', UNCHANGED <<user, kernelState, history, returnTo>>,
           pc' \in Outside \cup {"exit"},
           pc \in Outside \cup {"ready", "init_failed", "deinited", "exited"},
           pc = "deinited" => pc' = "exit"
    PROVE  SInv'
<1> USE DEF SInv
<1>1. KInv'
    BY ElsewherePreserves DEF KInv, Outside, Steps, InitSteps, ArchInitSteps, ArchDeinitSteps,
        Deinit7Steps
<1>2. CASE pc = "ready"
    BY <1>1, <1>2 DEF KInv, HookUsable, HookedIsUsable, Ended, Usable, Outside, user, kernelState
<1>3. CASE pc = "init_failed"
    BY <1>1, <1>3 DEF KInv, Unhooked, HookedIsUsable, Ended, Outside, user
<1>4. CASE pc = "exited"
    BY <1>1, <1>4 DEF HookedIsUsable, Ended, UserInit, NoHook, Outside, user
<1>5. CASE pc = "deinited"
    BY <1>1, <1>5 DEF HookedIsUsable, Ended, Outside
<1>6. CASE pc \in Outside
    BY <1>1, <1>6 DEF HookedIsUsable, Ended, Usable, Outside, user, kernelState
<1> QED
    BY <1>2, <1>3, <1>4, <1>5, <1>6

(* deinitialize, called from anywhere. *)
LEMMA DeinitializePreserves ==
    ASSUME SInv, TypeOK', UNCHANGED <<user, kernelState, history>>, Deinitialize
    PROVE  SInv'
<1> USE DEF SInv
<1>1. CASE KERNEL_CALL \subseteq loaded
    <2>1. KInv' /\ pc' \in {"clear_function", "free_payload", "unhook"}
        BY <1>1, DeinitCallPreserves DEF Deinitialize, CallDeinit
    <2> QED
        BY <2>1 DEF HookedIsUsable, Ended, Outside
<1>2. CASE ~(KERNEL_CALL \subseteq loaded)
    <2>1. pc' = "deinited" /\ returnTo' = "deinited"
        BY <1>2 DEF Deinitialize
    <2>2. KInv'
        BY <2>1, ElsewherePreserves DEF Steps, InitSteps, ArchInitSteps, ArchDeinitSteps,
            Deinit7Steps
    <2> QED
        BY <2>1, <2>2 DEF HookedIsUsable, Ended, Outside
<1> QED
    BY <1>1, <1>2

(* The target of a deinitialize is a step of the model. *)
LEMMA DeinitializeTarget ==
    ASSUME Deinitialize
    PROVE  pc' \in Steps \cup {"deinited"} /\ returnTo' = "deinited"
BY DEF Deinitialize, CallDeinit, Steps, ArchDeinitSteps, Deinit7Steps

LEMMA ExitPreserves ==
    ASSUME SInv, Exit
    PROVE  SInv'
<1> USE DEF SInv
<1>1. /\ pc' = "exited" /\ returnTo' = returnTo
      /\ UserInit'
      /\ client' = [client EXCEPT !.open = FALSE]
      /\ UNCHANGED <<kmem, sysent, text, refused, doubleFree>>
      /\ UNCHANGED <<abandoned, runs>>
      /\ loaded' = {} /\ up' = {} /\ wanted' = {} /\ stage' = 1
      /\ inRepl' = FALSE /\ interrupted' = FALSE /\ armed' = Signals
    BY DEF Exit, Goto, UserInit, history
<1>2. KernelTypeOK' /\ ~client'.open
    BY <1>1 DEF TypeOK, StateTypeOK, KernelTypeOK
<1>3. UserTypeOK'
    BY <1>1 DEF UserInit, NoHook, NoSyscallHook, UserTypeOK, Address
<1>4. stage' \in 1 .. 9
    BY <1>1
<1>5. pc' \in MainSteps
    BY <1>1 DEF MainSteps
<1>6. TypeOK'
    BY <1>1, <1>2, <1>3, <1>4, <1>5 DEF TypeOK, StateTypeOK
<1>7. ~syscallHook'.function /\ jopPayload' = None /\ ~hook'.hooked
    BY <1>1 DEF UserInit, NoHook, NoSyscallHook
<1>8. KInv'
    BY <1>1, <1>2, <1>3, <1>7 DEF KInv, ConnectionKnown, PointersOwned, HookUsable,
        MechanismUsable, OneArch, OriginalSaved, MechanismFirst, InitProgress,
        ClosedBeforeFree, Unhooked, InitSteps, ArchInitSteps, ArchDeinitSteps, Deinit7Steps,
        HookSteps
<1> QED
    BY <1>1, <1>2, <1>6, <1>8 DEF HookedIsUsable, Ended, Outside

-----------------------------------------------------------------------------
(* The masks are sets of features. *)
LEMMA MaskTypes ==
    /\ \A i \in Stages : Bit[i] \in Bits /\ Feature[i] \subseteq Bits
    /\ KERNEL_CALL \subseteq Bits /\ "call" \in Bits
<1>1. Bits = {"task", "basic", "image", "slide", "call", "memory", "process", "class"}
    BY DEF Bits, Stages, Bit
<1>2. ASSUME NEW i \in Stages PROVE Bit[i] \in Bits /\ Feature[i] \subseteq Bits
    <2>1. i \in {1, 2, 3, 4, 5, 6, 7, 8}
        BY <1>2 DEF Stages
    <2>2. Bit[i] \in Bits
        BY <1>2 DEF Bits
    <2>3. Feature[i] \in {KERNEL_TASK, KERNEL_MEMORY_BASIC, KERNEL_IMAGE, KERNEL_SLIDE,
                          KERNEL_CALL, KERNEL_MEMORY, PROCESS, CLASS}
        BY <2>1 DEF Feature
    <2> QED
        BY <2>2, <2>3, <1>1 DEF KERNEL_TASK, KERNEL_MEMORY_BASIC, KERNEL_IMAGE, KERNEL_SLIDE,
            KERNEL_SYMBOLS, KERNEL_CALL, KERNEL_MEMORY, PROCESS, CLASS
<1> QED
    BY <1>1, <1>2 DEF KERNEL_TASK, KERNEL_MEMORY_BASIC, KERNEL_IMAGE, KERNEL_SLIDE,
        KERNEL_SYMBOLS, KERNEL_CALL

LEMMA StateTypesUnchanged ==
    ASSUME SInv, UNCHANGED <<user, kernelState, history>>
    PROVE  StateTypeOK'
BY DEF SInv, TypeOK, StateTypeOK, UserTypeOK, KernelTypeOK, user, kernelState, history

(* A step that leaves all of the subsystem and its pc alone. *)
LEMMA KcUnchanged ==
    ASSUME SInv, UNCHANGED kcVars
    PROVE  KInv' /\ StateTypeOK' /\ HookedIsUsable' /\ Ended'
<1> USE DEF SInv, kcVars, control, user, kernelState, history
<1>1. UserTypeOK' /\ KernelTypeOK'
    BY DEF KInv, UserTypeOK, KernelTypeOK
<1>2. KInv'
    BY <1>1 DEF KInv, ConnectionKnown, PointersOwned, HookUsable, Usable, MechanismUsable,
        OneArch, OriginalSaved, MechanismFirst, InitProgress, ClosedBeforeFree, Unhooked
<1> QED
    BY <1>1, <1>2 DEF StateTypeOK, HookedIsUsable, Usable, Ended, UserInit

-----------------------------------------------------------------------------
(* Every step of memctl keeps the invariant. *)
LEMMA SessionNext == SInv /\ [Next]_vars => SInv'
<1> SUFFICES ASSUME SInv, [Next]_vars PROVE SInv'
    OBVIOUS
<1> USE DEF At, Goto
<1>1. CASE KernelCallStep
    BY <1>1, KernelCallStepPreserves
<1>2. CASE LoadFeature
    <2>1. /\ pc = "initialize" /\ pc' \in Outside
          /\ UNCHANGED <<user, kernelState, history, returnTo, wanted, inRepl, signals, runs>>
          /\ stage' \in Stages
          /\ \/ UNCHANGED <<loaded, up>>
             \/ loaded' = loaded \cup Feature[stage'] /\ up' = up \cup {Bit[stage']}
        BY <1>2 DEF LoadFeature, CommandDone, Outside
    <2>2. Bit[stage'] \in Bits /\ Feature[stage'] \subseteq Bits
        BY <2>1, MaskTypes DEF Bits
    <2>3. TypeOK'
        BY <2>1, <2>2, StateTypesUnchanged DEF SInv, TypeOK, Outside, MainSteps, signals, Stages
    <2> QED
        BY <2>1, <2>3, OutsidePreserves DEF Outside
<1>3. CASE CallKernelCallInit
    <2>1. /\ pc = "initialize" /\ pc' = InitEntry
          /\ UNCHANGED <<user, kernelState, history, returnTo, loaded, wanted, up, inRepl,
                         signals, runs>>
          /\ stage' = CALL
        BY <1>3 DEF CallKernelCallInit
    <2>2. KInv'
        BY <2>1, InitCallPreserves DEF SInv, HookedIsUsable, Outside
    <2>3. pc' \in {"arch_init", "create_client"}
        BY <2>1 DEF InitEntry
    <2>4. TypeOK'
        BY <2>1, <2>2, <2>3 DEF SInv, TypeOK, StateTypeOK, KInv, Steps, InitSteps,
            ArchInitSteps, CALL, signals
    <2> QED
        BY <2>2, <2>3, <2>4 DEF SInv, HookedIsUsable, Ended, Outside
<1>4. CASE KernelCallLoaded
    <2>1. KERNEL_CALL \subseteq Bits /\ "call" \in Bits
        BY MaskTypes
    <2>2. TypeOK'
        BY <1>4, <2>1, StateTypesUnchanged DEF KernelCallLoaded, SInv, TypeOK, MainSteps, signals
    <2> QED
        BY <1>4, <2>2, OutsidePreserves DEF KernelCallLoaded, Outside
<1>5. CASE KernelCallFailed \/ FinishCommand
    <2>1. TypeOK'
        BY <1>5, StateTypesUnchanged DEF KernelCallFailed, FinishCommand, CommandDone, SInv,
            TypeOK, MainSteps, memctl, signals
    <2> QED
        BY <1>5, <2>1, OutsidePreserves DEF KernelCallFailed, FinishCommand, CommandDone, Outside
<1>6. CASE Initialized \/ Unload
    <2>1. TypeOK'
        BY <1>6, StateTypesUnchanged DEF Initialized, Unload, SInv, TypeOK, MainSteps, memctl,
            signals
    <2> QED
        BY <1>6, <2>1, OutsidePreserves DEF Initialized, Unload, Outside
<1>7. CASE Prompt \/ DiscardLine \/ EndOfInput
    <2>1. TypeOK'
        BY <1>7, StateTypesUnchanged DEF Prompt, DiscardLine, EndOfInput, SInv, TypeOK,
            MainSteps, memctl, signals
    <2> QED
        BY <1>7, <2>1, OutsidePreserves DEF Prompt, DiscardLine, EndOfInput, Outside
<1>8. CASE Main \/ ReadLine \/ ResolveArgument
    <2>1. /\ pc \in Outside /\ pc' \in Outside
          /\ UNCHANGED <<user, kernelState, history, returnTo, loaded, up, signals, runs>>
          /\ wanted' = wanted \/ wanted' \in Requests
          /\ stage' = stage \/ stage' = 1
          /\ inRepl' \in {inRepl, TRUE, FALSE}
        BY <1>8 DEF Main, ReadLine, ResolveArgument, Request, Outside
    <2>2. wanted' \subseteq Bits
        BY <2>1, RequestsAssumption DEF SInv, TypeOK
    <2>3. stage' \in 1 .. 9
        BY <2>1 DEF SInv, TypeOK
    <2>4. pc' \in MainSteps
        BY <2>1 DEF Outside, MainSteps
    <2>5. TypeOK'
        BY <2>1, <2>2, <2>3, <2>4, StateTypesUnchanged DEF SInv, TypeOK, signals
    <2> QED
        BY <2>1, <2>5, OutsidePreserves DEF Outside
<1>9. CASE RootCommand \/ Leave
    <2>1. Deinitialize /\ UNCHANGED <<user, kernelState, history, memctl, signals, runs>>
        BY <1>9 DEF RootCommand, Leave
    <2>2. TypeOK'
        BY <2>1, DeinitializeTarget, StateTypesUnchanged DEF SInv, TypeOK, memctl, signals
    <2> QED
        BY <2>1, <2>2, DeinitializePreserves
<1>10. CASE Exit
    BY <1>10, ExitPreserves
<1>11. CASE NewProcess
    <2>1. runs' \in 1 .. MaxRuns
        BY <1>11, MaxRunsAssumption DEF NewProcess, SInv, TypeOK
    <2>2. TypeOK'
        BY <1>11, <2>1, StateTypesUnchanged DEF NewProcess, SInv, TypeOK, MainSteps, memctl,
            signals
    <2> QED
        BY <1>11, <2>2, OutsidePreserves DEF NewProcess, Outside
<1>12. CASE Interrupt
    <2>1. UNCHANGED kcVars /\ interrupted' = TRUE /\ UNCHANGED <<memctl, armed, abandoned, runs>>
        BY <1>12 DEF Interrupt
    <2> QED
        BY <2>1, KcUnchanged DEF SInv, TypeOK, memctl, kcVars, control
<1>13. ASSUME NEW signal \in Signals, Terminate(signal) PROVE SInv'
    <2>1. /\ Deinitialize
          /\ UNCHANGED <<user, kernelState, history, memctl, runs>>
          /\ armed' \subseteq armed /\ interrupted' = TRUE
        BY <1>13 DEF Terminate
    <2>2. abandoned' \subseteq {"init", "deinit"}
        BY <1>13 DEF Terminate, SInv, TypeOK
    <2>3. TypeOK'
        BY <2>1, <2>2, DeinitializeTarget, StateTypesUnchanged DEF SInv, TypeOK, memctl
    <2> QED
        BY <2>1, <2>3, DeinitializePreserves
<1>14. CASE UNCHANGED vars
    BY <1>14, KcUnchanged DEF vars, SInv, TypeOK, memctl, signals, kcVars, control
<1> QED
    BY <1>1, <1>2, <1>3, <1>4, <1>5, <1>6, <1>7, <1>8, <1>9, <1>10, <1>11, <1>12, <1>13, <1>14
       DEF Next, Step

(* The proof of invariance. *)
LEMMA SessionInvariant == Spec => []SInv
BY SessionInit, SessionNext, PTL DEF Spec

(* Every variable of a memctl session keeps its type. *)
THEOREM TypeCorrect == Spec => []TypeOK
<1>1. SInv => TypeOK
    BY DEF SInv
<1> QED
    BY SessionInvariant, <1>1, PTL

(***************************************************************************)
(* Whatever a signal interrupts, and whatever process came before, the     *)
(* kernel never follows a pointer to memory that was given back, a hooked  *)
(* vtable never answers with the real ID, and kernel_call_7 is there       *)
(* whenever memctl goes through it: the handler's kernel_call_deinit may   *)
(* start at any step of kernel_call_init, of kernel_call_deinit or of the  *)
(* rest of memctl.                                                         *)
(***************************************************************************)
THEOREM HookSoundWithSignals == Spec => []HookWorks
<1>1. SInv => HookWorks
    BY InvConsequences DEF SInv, HookWorks
<1> QED
    BY SessionInvariant, <1>1, PTL

-----------------------------------------------------------------------------
(* A terminating signal is being handled only while the process ends, and  *)
(* the next process has handlers that were not entered yet.                *)
EndInv ==
    /\ armed # Signals => Ending
    /\ pc = "exited" => armed = Signals

(* A step of kernel_call_deinit is followed by another, or by its return. *)
LEMMA DeinitStepsEnd ==
    ASSUME InKernelCallDeinit, KernelCallStep
    PROVE  Ending'
<1> USE DEF At, Goto, InKernelCallDeinit, Ending, ArchDeinitSteps, Deinit7Steps
<1>1. pc \notin InitSteps \cup ArchInitSteps
    BY DEF InitSteps, ArchInitSteps
<1>2. ~ArchInitStep
    BY <1>1 DEF ArchInitStep, PrepareSyscallHook, WriteText, WriteSysent, SetFunction,
        AllocatePayload, ArchInitSteps
<1>3. ~Call7InitStep(interrupted)
    BY <1>1 DEF Call7InitStep, CreateUserClient, FindUserClient, AllocateVtable, WriteVtable,
        AllocateTrap, WriteEntryId, HookVtable, SetHooked, FailInit, InitSteps
<1>4. CASE ArchDeinitStep
    BY <1>4 DEF ArchDeinitStep, ClearFunction, RestoreSysent, RestoreText, FreePayload,
        ForgetPayload
<1>5. CASE Call7DeinitStep
    BY <1>5 DEF Call7DeinitStep, Unhook, ClearHooked, CloseConnection, ForgetConnection,
        FreeVtable, ForgetVtable, FreeTrap, ForgetTrap
<1> QED
    BY <1>2, <1>3, <1>4, <1>5 DEF KernelCallStep

(* The subsystem's steps are its own, and the process never ends in one. *)
LEMMA KernelCallStepPlaces ==
    ASSUME SInv, KernelCallStep
    PROVE  armed' = armed /\ pc' # "exited" /\ pc \notin {"deinited", "exit", "exited"}
<1> USE DEF At
<1>1. armed' = armed
    BY DEF KernelCallStep, signals
<1>2. pc' \in Steps \cup Returns
    BY StepTarget DEF SInv, TypeOK, KernelCallStep
<1>3. pc' # "exited"
    BY <1>2 DEF Steps, Returns, InitSteps, ArchInitSteps, ArchDeinitSteps, Deinit7Steps
<1>4. CASE Call7InitStep(interrupted)
    BY <1>1, <1>3, <1>4 DEF Call7InitStep, CreateUserClient, FindUserClient, AllocateVtable, WriteVtable,
        AllocateTrap, WriteEntryId, HookVtable, SetHooked, FailInit
<1>5. CASE ArchInitStep
    BY <1>1, <1>3, <1>5 DEF ArchInitStep, PrepareSyscallHook, WriteText, WriteSysent, SetFunction,
        AllocatePayload
<1>6. CASE ArchDeinitStep
    BY <1>1, <1>3, <1>6 DEF ArchDeinitStep, ClearFunction, RestoreSysent, RestoreText, FreePayload,
        ForgetPayload
<1>7. CASE Call7DeinitStep
    BY <1>1, <1>3, <1>7 DEF Call7DeinitStep, Unhook, ClearHooked, CloseConnection, ForgetConnection,
        FreeVtable, ForgetVtable, FreeTrap, ForgetTrap
<1> QED
    BY <1>4, <1>5, <1>6, <1>7 DEF KernelCallStep

(* deinitialize leads into kernel_call_deinit or to its end. *)
LEMMA DeinitializeEnds ==
    ASSUME Deinitialize
    PROVE  Ending'
BY DEF Deinitialize, CallDeinit, Ending, InKernelCallDeinit, ArchDeinitSteps, Deinit7Steps

LEMMA EndNext == SInv /\ EndInv /\ [Next]_vars => EndInv' /\ (armed # Signals => Ending')
<1> SUFFICES ASSUME SInv, EndInv, [Next]_vars PROVE EndInv' /\ (armed # Signals => Ending')
    OBVIOUS
<1>1. CASE \E signal \in Signals : Terminate(signal)
    <2>1. Deinitialize
        BY <1>1 DEF Terminate
    <2>2. pc' # "exited"
        BY <2>1 DEF Deinitialize, CallDeinit
    <2> QED
        BY <2>1, <2>2, DeinitializeEnds DEF EndInv
<1>2. CASE Exit
    BY <1>2 DEF Exit, Goto, EndInv, Ending
<1>3. CASE KernelCallStep
    <2>1. armed' = armed /\ pc' # "exited" /\ pc \notin {"deinited", "exit", "exited"}
        BY <1>3, KernelCallStepPlaces
    <2> QED
        BY <1>3, <2>1, DeinitStepsEnd DEF EndInv, Ending
<1>4. CASE Unload
    BY <1>4 DEF Unload, Goto, signals, EndInv, Ending
<1>5. CASE Interrupt \/ UNCHANGED vars
    BY <1>5 DEF Interrupt, vars, kcVars, control, signals, EndInv, Ending, InKernelCallDeinit
<1>6. CASE \/ LoadFeature \/ CallKernelCallInit \/ KernelCallLoaded \/ KernelCallFailed
           \/ Initialized \/ Prompt \/ DiscardLine \/ FinishCommand \/ RootCommand
           \/ Leave \/ Main \/ ReadLine \/ ResolveArgument \/ EndOfInput \/ NewProcess
    <2>1. /\ armed' = armed
          /\ pc \in Outside \cup {"ready", "init_failed", "exited"}
          /\ pc' # "exited"
        BY <1>6 DEF LoadFeature, CallKernelCallInit, KernelCallLoaded, KernelCallFailed,
            Initialized, Prompt, DiscardLine, FinishCommand, RootCommand, Leave, Main,
            ReadLine, ResolveArgument, EndOfInput, NewProcess, At, Goto, Request, CommandDone,
            Deinitialize, CallDeinit, InitEntry, Outside, signals
    <2>2. armed = Signals
        BY <2>1 DEF EndInv, Ending, InKernelCallDeinit, Outside, ArchDeinitSteps, Deinit7Steps
    <2> QED
        BY <2>1, <2>2 DEF EndInv
<1> QED
    BY <1>1, <1>2, <1>3, <1>4, <1>5, <1>6 DEF Next, Step

(***************************************************************************)
(* From the moment a terminating signal is handled the process only takes  *)
(* its hook down and ends, however many signals follow and whichever of    *)
(* its kernel calls fail: signal_handler never returns to main.            *)
(***************************************************************************)
THEOREM HandlerOnlyEnds == Spec => Terminates
<1>1. Init => EndInv
    BY DEF Init, ProcessInit, EndInv
<1>2. EndInv /\ (armed # Signals => Ending') => (armed # Signals => Ending /\ Ending')
    BY DEF EndInv
<1> QED
    BY <1>1, <1>2, EndNext, SessionInvariant, PTL DEF Spec, Terminates

-----------------------------------------------------------------------------
(***************************************************************************)
(* The order of the writes to the system call: the table entry is nosys    *)
(* when the text is about to be overwritten, and is nosys again, or refused*)
(* to be, when the text is about to be restored.                           *)
(***************************************************************************)
WritesInOrder ==
    /\ pc = "write_text" => sysent = "nosys"
    /\ pc = "write_sysent" => text = "hook"
    /\ pc = "restore_text" => sysent = "nosys" \/ "sysent" \in refused

SyscallInv == SyscallStable /\ WritesInOrder

(* The steps at which the system call is written. *)
WriteSteps == {"write_text", "write_sysent", "restore_text"}

(* Nothing happens to the system call elsewhere. *)
LEMMA SyscallUntouched ==
    ASSUME SyscallInv, UNCHANGED <<sysent, text, refused>>, pc' \notin WriteSteps \/ pc' = pc
    PROVE  SyscallInv'
BY DEF SyscallInv, SyscallStable, WritesInOrder, WriteSteps

LEMMA KernelCallStepSyscall ==
    ASSUME SInv, SyscallInv, KernelCallStep
    PROVE  SyscallInv'
<1> USE DEF At, Goto
<1>1. returnTo \notin WriteSteps
    BY DEF SInv, TypeOK, WriteSteps
<1>2. CASE Call7InitStep(interrupted)
    <2>1. UNCHANGED <<sysent, text, refused>> /\ pc' \notin WriteSteps
        BY <1>2 DEF Call7InitStep, CreateUserClient, FindUserClient, AllocateVtable,
            WriteVtable, AllocateTrap, WriteEntryId, HookVtable, SetHooked, FailInit,
            Call7Deinit, user, kernelState, history, WriteSteps
    <2> QED
        BY <2>1, SyscallUntouched
<1>3. CASE PrepareSyscallHook
    BY <1>3 DEF PrepareSyscallHook, kernelState, history, SyscallInv, SyscallStable,
        WritesInOrder
<1>4. CASE WriteText
    BY <1>4 DEF WriteText, SyscallInv, SyscallStable, WritesInOrder
<1>5. CASE WriteSysent
    BY <1>5 DEF WriteSysent, SyscallInv, SyscallStable, WritesInOrder
<1>6. CASE SetFunction \/ AllocatePayload \/ ClearFunction \/ FreePayload \/ ForgetPayload
    <2>1. CASE SetFunction \/ AllocatePayload
        BY <1>6, <2>1, SyscallUntouched DEF SetFunction, AllocatePayload, kernelState, history,
            WriteSteps
    <2>2. CASE ClearFunction \/ ForgetPayload
        BY <1>6, <2>2, SyscallUntouched DEF ClearFunction, ForgetPayload, kernelState, history,
            WriteSteps
    <2>3. CASE FreePayload
        <3>1. UNCHANGED <<sysent, text>> /\ pc' = "forget_payload"
            BY <2>3 DEF FreePayload
        <3>2. refused \subseteq refused'
            BY <2>3 DEF FreePayload, Deallocate
        <3> QED
            BY <3>1, <3>2 DEF SyscallInv, SyscallStable, WritesInOrder
    <2> QED
        BY <1>6, <2>1, <2>2, <2>3
<1>7. CASE RestoreSysent
    BY <1>7 DEF RestoreSysent, SyscallInv, SyscallStable, WritesInOrder
<1>8. CASE RestoreText
    BY <1>8 DEF RestoreText, SyscallInv, SyscallStable, WritesInOrder
<1>9. CASE Call7DeinitStep
    <2>1. UNCHANGED <<sysent, text>> /\ pc' \notin WriteSteps
        BY <1>1, <1>9 DEF Call7DeinitStep, Unhook, ClearHooked, CloseConnection,
            ForgetConnection, FreeVtable, ForgetVtable, FreeTrap, ForgetTrap, kernelState,
            WriteSteps
    <2>2. refused \subseteq refused'
        BY <1>9 DEF Call7DeinitStep, Unhook, ClearHooked, CloseConnection, ForgetConnection,
            FreeVtable, ForgetVtable, FreeTrap, ForgetTrap, Deallocate, history
    <2> QED
        BY <2>1, <2>2 DEF SyscallInv, SyscallStable, WritesInOrder, WriteSteps
<1> QED
    BY <1>2, <1>3, <1>4, <1>5, <1>6, <1>7, <1>8, <1>9
       DEF KernelCallStep, ArchInitStep, ArchDeinitStep

LEMMA SyscallNext == SInv /\ SyscallInv /\ [Next]_vars => SyscallInv'
<1> SUFFICES ASSUME SInv, SyscallInv, [Next]_vars PROVE SyscallInv'
    OBVIOUS
<1>1. CASE KernelCallStep
    BY <1>1, KernelCallStepSyscall
<1>2. CASE \/ LoadFeature \/ CallKernelCallInit \/ KernelCallLoaded \/ KernelCallFailed
           \/ Initialized \/ Unload \/ Prompt \/ DiscardLine \/ FinishCommand \/ Exit
           \/ Main \/ ReadLine \/ ResolveArgument \/ EndOfInput \/ NewProcess
    <2>1. UNCHANGED <<sysent, text, refused>>
        BY <1>2 DEF LoadFeature, CallKernelCallInit, KernelCallLoaded, KernelCallFailed,
            Initialized, Unload, Prompt, DiscardLine, FinishCommand, Exit, Main, ReadLine,
            ResolveArgument, EndOfInput, NewProcess, kernelState, history
    <2>2. pc' \notin WriteSteps \/ pc' = pc
        BY <1>2 DEF LoadFeature, CallKernelCallInit, KernelCallLoaded, KernelCallFailed,
            Initialized, Unload, Prompt, DiscardLine, FinishCommand, Exit, Main, ReadLine,
            ResolveArgument, EndOfInput, NewProcess, Goto, Request, CommandDone, InitEntry,
            WriteSteps
    <2> QED
        BY <2>1, <2>2, SyscallUntouched
<1>3. CASE RootCommand \/ Leave \/ \E signal \in Signals : Terminate(signal)
    <2>1. Deinitialize /\ UNCHANGED <<sysent, text, refused>>
        BY <1>3 DEF RootCommand, Leave, Terminate, kernelState, history
    <2>2. pc' \notin WriteSteps
        BY <2>1 DEF Deinitialize, CallDeinit, WriteSteps
    <2> QED
        BY <2>1, <2>2, SyscallUntouched
<1>4. CASE Interrupt \/ UNCHANGED vars
    BY <1>4, SyscallUntouched DEF Interrupt, vars, kcVars, control, kernelState, history
<1> QED
    BY <1>1, <1>2, <1>3, <1>4 DEF Next, Step

(***************************************************************************)
(* A table entry that leads to the hook finds the hook's text, whichever   *)
(* writes of install_syscall_hook and remove_syscall_hook fail, at which   *)
(* step signals interrupt them and whatever an earlier process left: but   *)
(* for the entry that refused to be restored.                              *)
(***************************************************************************)
THEOREM SystemCallSound == Spec => []SyscallStable
<1>1. Init => SyscallInv
    BY DEF Init, KernelInit, SyscallInv, SyscallStable, WritesInOrder
<1>2. SyscallInv => SyscallStable
    BY DEF SyscallInv
<1> QED
    BY <1>1, <1>2, SyscallNext, SessionInvariant, PTL DEF Spec

-----------------------------------------------------------------------------
(* kernel_call_init only runs while loaded_features lacks the feature.     *)
InitUnloaded ==
    /\ InKernelCallInit => ~(KERNEL_CALL \subseteq loaded)
    /\ pc \in ArchDeinitSteps => returnTo = "deinited"

(***************************************************************************)
(* What the statics name is allocated as long as a deinitialize can still  *)
(* act on it: a process that ends without deinitializing may have been cut *)
(* short after it freed a block and before it forgot it.                   *)
(***************************************************************************)
Beyond == pc \in {"deinited", "exit"} /\ ~(KERNEL_CALL \subseteq loaded)

FreeInv ==
    /\ InitUnloaded
    /\ "deinit" \notin abandoned => ~doubleFree /\ (Beyond \/ (Live /\ Distinct))

(* The steps of kernel_call_init and kernel_call_deinit free what is live. *)
LEMMA StepFrees ==
    ASSUME SInv, Live, Distinct, ~doubleFree, KernelCallStep
    PROVE  Live' /\ Distinct' /\ ~doubleFree'
<1> USE ValuesAssumption
<1> USE DEF SInv, KInv, At, Goto, user, kernelState, history
<1> USE DEF Live, Distinct, UserTypeOK, KernelTypeOK, Address, MechanismFirst,
        MechanismUsable, Usable
<1>1. returnTo \in {"deinited", "init_failed"}
    OBVIOUS
<1>2. CASE Call7InitStep(interrupted)
    <2>1. CASE AllocateVtable
        BY <2>1 DEF AllocateVtable, Free, InitProgress, InitSteps
    <2>2. CASE AllocateTrap
        BY <2>2 DEF AllocateTrap, Free, InitProgress, InitSteps
    <2>3. CASE CreateUserClient
        BY <2>3 DEF CreateUserClient
    <2>4. CASE FindUserClient(interrupted)
        BY <2>4 DEF FindUserClient
    <2>5. CASE WriteVtable \/ WriteEntryId \/ HookVtable
        BY <2>5 DEF WriteVtable, WriteEntryId, HookVtable
    <2>6. CASE SetHooked
        BY <2>6 DEF SetHooked
    <2>7. CASE FailInit
        BY <2>7 DEF FailInit, Call7Deinit
    <2> QED
        BY <1>2, <2>1, <2>2, <2>3, <2>4, <2>5, <2>6, <2>7 DEF Call7InitStep
<1>3. CASE ArchInitStep
    <2>1. CASE PrepareSyscallHook
        BY <2>1 DEF PrepareSyscallHook
    <2>2. CASE WriteText \/ WriteSysent
        BY <2>2 DEF WriteText, WriteSysent
    <2>3. CASE SetFunction
        BY <2>3 DEF SetFunction
    <2>4. CASE AllocatePayload
        BY <2>4 DEF AllocatePayload, Free, HookUsable, ArchInitSteps
    <2> QED
        BY <1>3, <2>1, <2>2, <2>3, <2>4 DEF ArchInitStep
<1>4. CASE ArchDeinitStep
    <2>1. CASE ClearFunction
        BY <2>1 DEF ClearFunction
    <2>2. CASE RestoreSysent \/ RestoreText
        BY <2>2 DEF RestoreSysent, RestoreText
    <2>3. CASE FreePayload
        BY <2>3 DEF FreePayload, Deallocate
    <2>4. CASE ForgetPayload
        BY <2>4 DEF ForgetPayload
    <2> QED
        BY <1>4, <2>1, <2>2, <2>3, <2>4 DEF ArchDeinitStep
<1>5. CASE Call7DeinitStep
    <2>1. CASE Unhook
        BY <2>1 DEF Unhook
    <2>2. CASE ClearHooked \/ CloseConnection \/ ForgetConnection
        BY <2>2 DEF ClearHooked, CloseConnection, ForgetConnection, Deinit7Steps
    <2>3. CASE FreeVtable
        BY <2>3 DEF FreeVtable, Deallocate, Deinit7Steps
    <2>4. CASE ForgetVtable
        BY <2>4 DEF ForgetVtable
    <2>5. CASE FreeTrap
        BY <1>1, <2>5 DEF FreeTrap, Deallocate, Deinit7Steps
    <2>6. CASE ForgetTrap
        BY <1>1, <2>6 DEF ForgetTrap
    <2> QED
        BY <1>5, <2>1, <2>2, <2>3, <2>4, <2>5, <2>6 DEF Call7DeinitStep
<1> QED
    BY <1>2, <1>3, <1>4, <1>5 DEF KernelCallStep

(* They stay in the call they belong to. *)
LEMMA StepCalls ==
    ASSUME SInv, InitUnloaded, KernelCallStep
    PROVE  InitUnloaded'
<1> USE DEF At, Goto, InitUnloaded, InKernelCallInit, memctl
<1> USE DEF InitSteps, ArchInitSteps, ArchDeinitSteps, Deinit7Steps
<1>1. UNCHANGED loaded
    BY DEF KernelCallStep
<1>2. returnTo \in {"deinited", "init_failed"}
    BY DEF SInv, KInv
<1>3. CASE Call7InitStep(interrupted)
    BY <1>1, <1>3 DEF Call7InitStep, CreateUserClient, FindUserClient, AllocateVtable,
        WriteVtable, AllocateTrap, WriteEntryId, HookVtable, SetHooked, FailInit, Call7Deinit
<1>4. CASE ArchInitStep
    BY <1>1, <1>4 DEF ArchInitStep, PrepareSyscallHook, WriteText, WriteSysent, SetFunction,
        AllocatePayload
<1>5. CASE ArchDeinitStep
    BY <1>1, <1>5 DEF ArchDeinitStep, ClearFunction, RestoreSysent, RestoreText, FreePayload,
        ForgetPayload
<1>6. CASE Call7DeinitStep
    BY <1>1, <1>2, <1>6 DEF Call7DeinitStep, Unhook, ClearHooked, CloseConnection,
        ForgetConnection, FreeVtable, ForgetVtable, FreeTrap, ForgetTrap
<1> QED
    BY <1>3, <1>4, <1>5, <1>6 DEF KernelCallStep

(* Where the names of blocks can be relied on outside the subsystem.       *)
Elsewhere == Outside \cup {"ready", "init_failed", "deinited", "exit", "exited"}

(* Whatever leaves the subsystem's state alone keeps the blocks.           *)
LEMMA LiveElsewhere ==
    ASSUME Live, Distinct, ~doubleFree, pc \in Elsewhere,
           UNCHANGED <<user, kernelState, history>>,
           pc' = "free_payload" => jopPayload # None
    PROVE  Live' /\ Distinct' /\ ~doubleFree'
BY DEF Live, Distinct, Elsewhere, Outside, user, kernelState, history

(* NextStage only names a feature that is not loaded. *)
LEMMA StageNeeded ==
    ASSUME SInv, NextStage(stage) = CALL
    PROVE  ~(KERNEL_CALL \subseteq loaded)
<1> DEFINE needed == {j \in stage .. 8 : NEED(j)}
<1>1. needed # {} /\ CALL = CHOOSE j \in needed : \A k \in needed : j <= k
    BY DEF NextStage, CALL
<1>2. \E j \in needed : \A k \in needed : j <= k
    <2>1. PICK n \in needed : TRUE
        BY <1>1
    <2>2. needed \subseteq {1, 2, 3, 4, 5, 6, 7, 8}
        BY DEF SInv, TypeOK
    <2>3. \/ 1 \in needed \/ 2 \in needed \/ 3 \in needed \/ 4 \in needed
          \/ 5 \in needed \/ 6 \in needed \/ 7 \in needed \/ 8 \in needed
        BY <2>1, <2>2
    <2> HIDE DEF needed
    <2> QED
        BY <2>2, <2>3
<1>3. CALL \in needed
    BY <1>1, <1>2
<1> QED
    BY <1>3 DEF NEED, CALL, Feature

LEMMA FreeNext == SInv /\ FreeInv /\ [Next]_vars => FreeInv'
<1> SUFFICES ASSUME SInv, FreeInv, [Next]_vars PROVE FreeInv'
    OBVIOUS
<1>1. CASE KernelCallStep
    <2>1. pc \notin {"deinited", "exit"}
        BY <1>1, KernelCallStepPlaces
    <2>2. UNCHANGED abandoned
        BY <1>1 DEF KernelCallStep, signals
    <2> QED
        BY <1>1, <2>1, <2>2, StepFrees, StepCalls DEF FreeInv, Beyond
<1>2. CASE CallKernelCallInit
    <2>1. /\ pc = "initialize" /\ pc' \in {"arch_init", "create_client"}
          /\ UNCHANGED <<user, kernelState, history, loaded, abandoned>>
          /\ ~(KERNEL_CALL \subseteq loaded)
        BY <1>2, StageNeeded DEF CallKernelCallInit, At, Goto, InitEntry, signals
    <2> QED
        BY <2>1, LiveElsewhere DEF FreeInv, InitUnloaded, Beyond, Elsewhere, Outside,
            ArchDeinitSteps
<1>3. CASE \/ LoadFeature \/ KernelCallLoaded \/ KernelCallFailed \/ Initialized \/ Prompt
           \/ DiscardLine \/ FinishCommand \/ Main \/ ReadLine \/ ResolveArgument
           \/ EndOfInput \/ NewProcess
    <2>1. UNCHANGED <<user, kernelState, history, abandoned>>
        BY <1>3 DEF LoadFeature, KernelCallLoaded, KernelCallFailed, Initialized, Prompt,
            DiscardLine, FinishCommand, Main, ReadLine, ResolveArgument, EndOfInput,
            NewProcess, signals
    <2>2. pc \in Outside \cup {"ready", "init_failed", "exited"} /\ pc' \in Outside
        BY <1>3 DEF LoadFeature, KernelCallLoaded, KernelCallFailed, Initialized, Prompt,
            DiscardLine, FinishCommand, Main, ReadLine, ResolveArgument, EndOfInput,
            NewProcess, At, Goto, Request, CommandDone, Outside
    <2>3. ~InKernelCallInit' /\ pc' \notin ArchDeinitSteps /\ ~Beyond /\ pc' # "free_payload"
        BY <2>2 DEF InKernelCallInit, Beyond, Outside, InitSteps, ArchInitSteps,
            ArchDeinitSteps, Deinit7Steps
    <2>4. pc \in Elsewhere
        BY <2>2 DEF Elsewhere
    <2> QED
        BY <2>1, <2>3, <2>4, LiveElsewhere DEF FreeInv, InitUnloaded
<1>4. CASE Unload
    <2>1. /\ pc = "deinited" /\ pc' = "exit" /\ loaded' = {}
          /\ UNCHANGED <<user, kernelState, history, abandoned>>
        BY <1>4 DEF Unload, At, Goto, signals
    <2>2. ~(KERNEL_CALL \subseteq loaded')
        BY <2>1 DEF KERNEL_CALL
    <2> QED
        BY <2>1, <2>2 DEF FreeInv, InitUnloaded, Beyond, ArchDeinitSteps, history
<1>5. CASE Exit
    <2>1. /\ pc' = "exited" /\ UNCHANGED <<doubleFree, abandoned>>
          /\ hook' = NoHook /\ jopPayload' = None
        BY <1>5 DEF Exit, Goto, history
    <2> QED
        BY <2>1 DEF FreeInv, InitUnloaded, InKernelCallInit, Live, Distinct, NoHook, InitSteps,
            ArchInitSteps, ArchDeinitSteps, Deinit7Steps
<1>6. CASE RootCommand \/ Leave \/ \E signal \in Signals : Terminate(signal)
    <2>1. Deinitialize /\ UNCHANGED <<user, kernelState, history, loaded>>
        BY <1>6 DEF RootCommand, Leave, Terminate, memctl
    <2>2. /\ abandoned \subseteq abandoned'
          /\ InKernelCallDeinit => "deinit" \in abandoned'
        BY <1>6 DEF RootCommand, Leave, Terminate, At, signals, InKernelCallDeinit,
            ArchDeinitSteps, Deinit7Steps
    <2>3. returnTo' = "deinited" /\ (pc' = "free_payload" => jopPayload # None)
        BY <2>1 DEF Deinitialize, CallDeinit
    <2>4. ~InKernelCallInit'
        BY <2>1 DEF Deinitialize, CallDeinit, InKernelCallInit, InitSteps, ArchInitSteps
    <2>5. CASE ~(KERNEL_CALL \subseteq loaded)
        <3>1. Beyond'
            BY <2>1, <2>5 DEF Deinitialize, Beyond
        <3> QED
            BY <2>1, <2>2, <2>3, <2>4, <3>1 DEF FreeInv, InitUnloaded, history
    <2>6. CASE (KERNEL_CALL \subseteq loaded) /\ ~InKernelCallDeinit
        <3>1. ~InKernelCallInit /\ ~Beyond
            BY <2>6 DEF FreeInv, InitUnloaded, Beyond
        <3>2. pc \in Elsewhere
            BY <2>6, <3>1 DEF SInv, TypeOK, FreeInv, InitUnloaded, Elsewhere, Outside,
                MainSteps, Steps, InKernelCallInit, InKernelCallDeinit
        <3> QED
            BY <2>1, <2>2, <2>3, <2>4, <3>1, <3>2, LiveElsewhere DEF FreeInv, InitUnloaded
    <2>7. CASE InKernelCallDeinit
        BY <2>2, <2>3, <2>4, <2>7 DEF FreeInv, InitUnloaded
    <2> QED
        BY <2>5, <2>6, <2>7
<1>7. CASE Interrupt \/ UNCHANGED vars
    <2>1. UNCHANGED <<kcVars, memctl, abandoned>>
        BY <1>7 DEF Interrupt, vars, signals
    <2> QED
        BY <2>1 DEF FreeInv, InitUnloaded, InKernelCallInit, Beyond, Live, Distinct, kcVars,
            control, user, kernelState, history, memctl
<1> QED
    BY <1>1, <1>2, <1>3, <1>4, <1>5, <1>6, <1>7 DEF Next, Step

LEMMA FreeInvariant == Spec => []FreeInv
<1>1. Init => FreeInv
    BY DEF Init, ProcessInit, UserInit, HistoryInit, NoHook, FreeInv, InitUnloaded,
        InKernelCallInit, Live, Distinct, InitSteps, ArchInitSteps, ArchDeinitSteps,
        Deinit7Steps
<1> QED
    BY <1>1, FreeNext, SessionInvariant, PTL DEF Spec

(***************************************************************************)
(* No block of kernel memory is given back twice, but by the handler of a  *)
(* signal that cut kernel_call_deinit short: a signal in kernel_call_init, *)
(* also while that frees what it had allocated, never leads to another     *)
(* deallocation, because loaded_features does not have the feature yet.    *)
(***************************************************************************)
THEOREM FreedOnceWithSignals == Spec => []FreedOnce
<1>1. FreeInv => FreedOnce
    BY DEF FreeInv, FreedOnce
<1> QED
    BY <1>1, FreeInvariant, PTL

-----------------------------------------------------------------------------
(***************************************************************************)
(* The features.  A mask needs only what comes before it in initialize.    *)
(***************************************************************************)
LEMMA MaskOrder ==
    ASSUME NEW i \in Stages
    PROVE  /\ Bit[i] \in Feature[i]
           /\ \A b \in Feature[i] \ {Bit[i]} :
                 \E j \in 1 .. i - 1 : b = Bit[j] /\ Feature[j] \subseteq Feature[i]
           /\ Uses[i] \subseteq Feature[i] \ {Bit[i]}
           /\ "call" \in Feature[i] => i = CALL \/ "call" \in Feature[i] \ {Bit[i]}
<1> USE DEF Feature, Bit, Uses, CALL, KERNEL_TASK, KERNEL_MEMORY_BASIC, KERNEL_IMAGE,
        KERNEL_SLIDE, KERNEL_SYMBOLS, KERNEL_CALL, KERNEL_MEMORY, PROCESS, CLASS
<1>1. i \in {1, 2, 3, 4, 5, 6, 7, 8}
    BY DEF Stages
<1>2. CASE i = 1
    BY <1>2
<1>3. CASE i = 2
    BY <1>3
<1>4. CASE i = 3
    BY <1>4
<1>5. CASE i = 4
    BY <1>5
<1>6. CASE i = 5
    BY <1>6
<1>7. CASE i = 6
    BY <1>7
<1>8. CASE i = 7
    BY <1>8
<1>9. CASE i = 8
    BY <1>9
<1> QED
    BY <1>1, <1>2, <1>3, <1>4, <1>5, <1>6, <1>7, <1>8, <1>9

(* NextStage is the first feature that is still needed, if there is one. *)
LEMMA NextStageFirst ==
    ASSUME stage \in 1 .. 9
    PROVE  LET n == NextStage(stage) IN
           /\ n \in stage .. 9
           /\ n # 9 => NEED(n)
           /\ \A j \in stage .. 8 : j < n => ~NEED(j)
<1> DEFINE needed == {j \in stage .. 8 : NEED(j)}
<1>1. CASE needed = {}
    BY <1>1 DEF NextStage
<1>2. CASE needed # {}
    <2>1. \E j \in needed : \A k \in needed : j <= k
        <3>1. PICK n \in needed : TRUE
            BY <1>2
        <3>2. needed \subseteq {1, 2, 3, 4, 5, 6, 7, 8}
            OBVIOUS
        <3>3. \/ 1 \in needed \/ 2 \in needed \/ 3 \in needed \/ 4 \in needed
              \/ 5 \in needed \/ 6 \in needed \/ 7 \in needed \/ 8 \in needed
            BY <3>1, <3>2
        <3> HIDE DEF needed
        <3> QED
            BY <3>2, <3>3
    <2>2. NextStage(stage) \in needed /\ \A k \in needed : NextStage(stage) <= k
        BY <1>2, <2>1 DEF NextStage
    <2> QED
        BY <2>2
<1> QED
    BY <1>1, <1>2

(* What the features before a stage have loaded, if they are wanted. *)
Passed(i) == \A j \in 1 .. i - 1 : Feature[j] \subseteq wanted => Feature[j] \subseteq loaded

(***************************************************************************)
(* What initialize knows at each step, and what its success has left:      *)
(* wanted is a mask, what is loaded was set up, the features before the    *)
(* current one are loaded as far as they are wanted, and loaded_features   *)
(* has the kernel call feature only while there is a hook.                 *)
(***************************************************************************)
FeatureInv ==
    /\ \A i \in Stages : Bit[i] \in wanted => Feature[i] \subseteq wanted
    /\ loaded \subseteq up
    /\ pc = "initialize" \/ InKernelCallInit => Passed(stage)
    /\ InKernelCallInit =>
          stage = CALL /\ KERNEL_CALL \subseteq wanted /\ "call" \notin loaded
    /\ pc = "run" => wanted \subseteq loaded
    /\ pc \in Outside /\ "call" \in loaded => hook.hooked
    /\ pc = "exited" => loaded = {}

(* The next feature that is needed finds what its mask names loaded. *)
LEMMA NeededLast ==
    ASSUME TypeOK, Passed(stage), NextStage(stage) # 9
    PROVE  LET n == NextStage(stage) IN
           /\ n \in Stages /\ NEED(n) /\ Passed(n)
           /\ Feature[n] \ {Bit[n]} \subseteq loaded
<1> DEFINE n == NextStage(stage)
<1>1. stage \in 1 .. 9
    BY DEF TypeOK
<1>2. n \in 1 .. 8 /\ NEED(n)
    BY <1>1, NextStageFirst
<1>3. Passed(n)
    <2> SUFFICES ASSUME NEW j \in 1 .. n - 1, Feature[j] \subseteq wanted
                 PROVE  Feature[j] \subseteq loaded
        BY DEF Passed
    <2>1. CASE j < stage
        BY <1>1, <1>2, <2>1 DEF Passed
    <2>2. CASE j >= stage
        <3>1. j \in stage .. 8 /\ j < n
            BY <1>1, <1>2, <2>2
        <3> QED
            BY <1>1, <3>1, NextStageFirst DEF NEED
    <2> QED
        BY <1>1, <2>1, <2>2
<1>4. ASSUME NEW b \in Feature[n] \ {Bit[n]} PROVE b \in loaded
    <2> HIDE DEF n
    <2>1. PICK j \in 1 .. n - 1 : b = Bit[j] /\ Feature[j] \subseteq Feature[n]
        BY <1>2, <1>4, MaskOrder DEF Stages
    <2>2. Feature[j] \subseteq wanted
        BY <1>2, <2>1 DEF NEED
    <2>3. Bit[j] \in Feature[j]
        BY <1>2, <2>1, MaskOrder DEF Stages
    <2> QED
        BY <1>3, <2>1, <2>2, <2>3 DEF Passed
<1> QED
    BY <1>2, <1>3, <1>4 DEF Stages

LEMMA CallMask == KERNEL_CALL = Feature[CALL] /\ Bit[CALL] = "call" /\ CALL \in Stages
BY DEF Feature, Bit, CALL, Stages

(* A step of the subsystem does not concern the features. *)
LEMMA StepFeatures ==
    ASSUME SInv, FreeInv, FeatureInv, KernelCallStep
    PROVE  FeatureInv'
<1> USE DEF At, Goto
<1>1. UNCHANGED <<loaded, wanted, stage, up>>
    BY DEF KernelCallStep, memctl
<1>2. pc' \in Steps \cup Returns
    BY StepTarget DEF SInv, TypeOK, KernelCallStep
<1>3. pc' \notin Outside \cup {"exited"}
    BY <1>2 DEF Outside, Steps, Returns, InitSteps, ArchInitSteps, ArchDeinitSteps,
        Deinit7Steps
<1>4. InKernelCallInit' => InKernelCallInit
    <2> USE DEF InKernelCallInit, InitSteps, ArchInitSteps, Deinit7Steps, ArchDeinitSteps
    <2>1. CASE Call7InitStep(interrupted)
        BY <2>1 DEF Call7InitStep, CreateUserClient, FindUserClient, AllocateVtable,
            WriteVtable, AllocateTrap, WriteEntryId, HookVtable, SetHooked, FailInit
    <2>2. CASE ArchInitStep
        BY <2>2 DEF ArchInitStep, PrepareSyscallHook, WriteText, WriteSysent, SetFunction,
            AllocatePayload
    <2>3. CASE ArchDeinitStep
        BY <2>3 DEF FreeInv, InitUnloaded, ArchDeinitStep, ClearFunction, RestoreSysent, RestoreText, FreePayload,
            ForgetPayload
    <2>4. CASE Call7DeinitStep
        BY <2>4 DEF Call7DeinitStep, Unhook, ClearHooked, CloseConnection, ForgetConnection,
            FreeVtable, ForgetVtable, FreeTrap, ForgetTrap, SInv, KInv
    <2> QED
        BY <2>1, <2>2, <2>3, <2>4 DEF KernelCallStep
<1> QED
    BY <1>1, <1>3, <1>4 DEF FeatureInv, Passed, Outside

LEMMA FeatureNext == SInv /\ FreeInv /\ FeatureInv /\ [Next]_vars => FeatureInv'
<1> SUFFICES ASSUME SInv, FreeInv, FeatureInv, [Next]_vars PROVE FeatureInv'
    OBVIOUS
<1> USE DEF At, Goto
<1>1. CASE KernelCallStep
    BY <1>1, StepFeatures
<1>2. CASE LoadFeature
    <2> DEFINE n == NextStage(stage)
    <2>1. /\ pc = "initialize" /\ pc' \in Outside \ {"run"} /\ stage' = n
          /\ n # 9 /\ n # CALL
          /\ UNCHANGED <<hook, wanted>>
          /\ \/ UNCHANGED <<loaded, up>> /\ pc' # "initialize"
             \/ loaded' = loaded \cup Feature[n] /\ up' = up \cup {Bit[n]}
        BY <1>2 DEF LoadFeature, CommandDone, Outside, Stages, user
    <2>2. n \in Stages /\ Passed(n) /\ Feature[n] \ {Bit[n]} \subseteq loaded
        BY <2>1, NeededLast DEF SInv, FeatureInv
    <2>3. ~InKernelCallInit'
        BY <2>1 DEF InKernelCallInit, Outside, InitSteps, ArchInitSteps, Deinit7Steps
    <2>4. loaded' \subseteq up'
        BY <2>1, <2>2 DEF FeatureInv
    <2>5. Passed(stage)'
        BY <2>1, <2>2 DEF Passed
    <2>6. "call" \in loaded' => hook'.hooked
        BY <2>1, <2>2, MaskOrder DEF FeatureInv, Outside
    <2> QED
        BY <2>1, <2>3, <2>4, <2>5, <2>6 DEF FeatureInv, Outside
<1>3. CASE CallKernelCallInit
    <2>1. /\ pc = "initialize" /\ pc' \in {"arch_init", "create_client"}
          /\ NextStage(stage) = CALL /\ stage' = CALL /\ CALL # 9
          /\ UNCHANGED <<wanted, loaded, up>>
        BY <1>3 DEF CallKernelCallInit, InitEntry, CALL
    <2>2. NEED(CALL) /\ Passed(CALL) /\ Feature[CALL] \ {Bit[CALL]} \subseteq loaded
        BY <2>1, NeededLast DEF SInv, FeatureInv
    <2>3. KERNEL_CALL \subseteq wanted /\ "call" \notin loaded
        BY <2>2, CallMask DEF NEED
    <2>4. Passed(stage)'
        BY <2>1, <2>2 DEF Passed
    <2> QED
        BY <2>1, <2>3, <2>4 DEF FeatureInv, Outside
<1>4. CASE KernelCallLoaded
    <2>1. /\ pc = "ready" /\ pc' = "initialize"
          /\ loaded' = loaded \cup KERNEL_CALL /\ up' = up \cup {"call"}
          /\ UNCHANGED <<hook, wanted, stage>>
        BY <1>4 DEF KernelCallLoaded, user
    <2>2. InKernelCallInit /\ ~InKernelCallInit'
        BY <2>1 DEF InKernelCallInit, InitSteps, ArchInitSteps, Deinit7Steps
    <2>3. KERNEL_CALL \ {"call"} \subseteq loaded
        <3>1. ASSUME NEW b \in KERNEL_CALL \ {"call"} PROVE b \in loaded
            <4>1. PICK j \in 1 .. CALL - 1 : b = Bit[j] /\ Feature[j] \subseteq KERNEL_CALL
                BY <3>1, MaskOrder, CallMask
            <4>2. Bit[j] \in Feature[j]
                BY <4>1, MaskOrder DEF CALL, Stages
            <4> QED
                BY <2>2, <4>1, <4>2 DEF FeatureInv, Passed
        <3> QED
            BY <3>1
    <2>4. hook.hooked
        BY <2>1 DEF SInv, KInv, HookUsable, Usable
    <2>5. Passed(stage)'
        BY <2>1, <2>2 DEF FeatureInv, Passed
    <2> QED
        BY <2>1, <2>2, <2>3, <2>4, <2>5 DEF FeatureInv, Outside
<1>5. CASE KernelCallFailed
    <2>1. pc = "init_failed" /\ pc' \in {"prompt", "leave"} /\ UNCHANGED memctl
        BY <1>5 DEF KernelCallFailed, CommandDone
    <2>2. InKernelCallInit /\ ~InKernelCallInit'
        BY <2>1 DEF InKernelCallInit, InitSteps, ArchInitSteps, Deinit7Steps
    <2> QED
        BY <2>1, <2>2 DEF FeatureInv, memctl
<1>6. CASE Initialized
    <2>1. /\ pc = "initialize" /\ pc' = "run" /\ NextStage(stage) = 9
          /\ UNCHANGED <<memctl, hook>>
        BY <1>6 DEF Initialized, user
    <2>2. ASSUME NEW b \in wanted PROVE b \in loaded
        <3>1. PICK i \in Stages : b = Bit[i]
            BY DEF SInv, TypeOK, Bits
        <3>2. Feature[i] \subseteq wanted /\ Bit[i] \in Feature[i]
            BY <3>1, MaskOrder DEF FeatureInv
        <3>3. CASE i < stage
            BY <2>1, <3>1, <3>2, <3>3 DEF FeatureInv, Passed, SInv, TypeOK, Stages
        <3>4. CASE i >= stage
            BY <2>1, <3>1, <3>2, <3>4, NextStageFirst DEF NEED, SInv, TypeOK, Stages
        <3> QED
            BY <3>3, <3>4 DEF SInv, TypeOK, Stages
    <2>3. ~InKernelCallInit'
        BY <2>1 DEF InKernelCallInit, InitSteps, ArchInitSteps, Deinit7Steps
    <2> QED
        BY <2>1, <2>2, <2>3 DEF FeatureInv, memctl, Outside
<1>7. CASE Main \/ ReadLine \/ ResolveArgument
    <2>1. /\ pc \in Outside /\ pc' \in Outside \ {"run"}
          /\ UNCHANGED <<hook, loaded, up>>
          /\ \/ UNCHANGED <<wanted, stage>> /\ pc' # "initialize"
             \/ wanted' \in Requests /\ stage' = 1
        BY <1>7 DEF Main, ReadLine, ResolveArgument, Request, Outside, user
    <2>2. ~InKernelCallInit'
        BY <2>1 DEF InKernelCallInit, Outside, InitSteps, ArchInitSteps, Deinit7Steps
    <2>3. \A i \in Stages : Bit[i] \in wanted' => Feature[i] \subseteq wanted'
        BY <2>1, MasksAssumption DEF FeatureInv
    <2>4. stage' = 1 => Passed(stage)'
        BY DEF Passed
    <2> QED
        BY <2>1, <2>2, <2>3, <2>4 DEF FeatureInv, Outside
<1>8. CASE Prompt \/ DiscardLine \/ EndOfInput \/ FinishCommand \/ NewProcess
    <2>1. /\ pc \in Outside \cup {"exited"} /\ pc' \in Outside \ {"run", "initialize"}
          /\ UNCHANGED <<hook, loaded, up, wanted, stage>>
          /\ pc = "exited" => loaded = {}
        BY <1>8 DEF Prompt, DiscardLine, EndOfInput, FinishCommand, NewProcess, CommandDone,
            Outside, user, memctl, FeatureInv
    <2>2. ~InKernelCallInit'
        BY <2>1 DEF InKernelCallInit, Outside, InitSteps, ArchInitSteps, Deinit7Steps
    <2> QED
        BY <2>1, <2>2 DEF FeatureInv, Outside
<1>9. CASE RootCommand \/ Leave \/ \E signal \in Signals : Terminate(signal)
    <2>1. Deinitialize /\ UNCHANGED memctl
        BY <1>9 DEF RootCommand, Leave, Terminate
    <2>2. pc' \notin Outside \cup {"exited"} /\ ~InKernelCallInit'
        BY <2>1 DEF Deinitialize, CallDeinit, Outside, InKernelCallInit, InitSteps, ArchInitSteps
    <2> QED
        BY <2>1, <2>2 DEF FeatureInv, memctl, Outside
<1>10. CASE Unload \/ Exit
    <2>1. /\ pc' \in {"exit", "exited"} /\ loaded' = {}
          /\ wanted' = wanted \/ wanted' = {}
        BY <1>10 DEF Unload, Exit
    <2>2. pc' \notin Outside /\ ~InKernelCallInit'
        BY <2>1 DEF Outside, InKernelCallInit, InitSteps, ArchInitSteps, Deinit7Steps
    <2> QED
        BY <2>1, <2>2 DEF FeatureInv, Outside
<1>11. CASE Interrupt \/ UNCHANGED vars
    <2>1. UNCHANGED <<kcVars, memctl>>
        BY <1>11 DEF Interrupt, vars
    <2> QED
        BY <2>1 DEF FeatureInv, InKernelCallInit, Passed, kcVars, control, user, memctl
<1> QED
    BY <1>1, <1>2, <1>3, <1>4, <1>5, <1>6, <1>7, <1>8, <1>9, <1>10, <1>11 DEF Next, Step

LEMMA FeatureInvariant == Spec => []FeatureInv
<1>1. Init => FeatureInv
    BY DEF Init, ProcessInit, FeatureInv, Outside, InKernelCallInit, InitSteps, ArchInitSteps,
        Deinit7Steps
<1> QED
    BY <1>1, FeatureNext, SessionInvariant, FreeInvariant, PTL DEF Spec

(***************************************************************************)
(* The init function of a feature only runs when everything it uses was    *)
(* set up, for any masks commands pass and whatever failed before.         *)
(***************************************************************************)
THEOREM InitOrderSound == Spec => []DependenciesUp
<1>1. SInv /\ FeatureInv => DependenciesUp
    <2> SUFFICES ASSUME SInv, FeatureInv, pc = "initialize", NextStage(stage) # 9
                 PROVE  Uses[NextStage(stage)] \subseteq up
        BY DEF DependenciesUp, At
    <2> QED
        BY NeededLast, MaskOrder DEF SInv, FeatureInv
<1> QED
    BY <1>1, SessionInvariant, FeatureInvariant, PTL

(***************************************************************************)
(* A command runs with all it asked for, and what loaded_features records  *)
(* was set up and, for kernel calls, works, also after initializations     *)
(* that failed half way.                                                   *)
(***************************************************************************)
THEOREM CommandsGetFeatures == Spec => []RequestMet
<1>1. SInv /\ FeatureInv => RequestMet
    BY DEF RequestMet, At, SInv, FeatureInv, HookedIsUsable, Outside, MainSteps, KERNEL_CALL
<1> QED
    BY <1>1, SessionInvariant, FeatureInvariant, PTL

-----------------------------------------------------------------------------
(***************************************************************************)
(* What the kernel holds of memctl as long as no signal has cut a call     *)
(* short: blocks and system call are accounted for, a hook is recorded in  *)
(* loaded_features while main could still leave, and gone afterwards.      *)
(***************************************************************************)
HookRecorded ==
    /\ pc \in Outside /\ hook.hooked => KERNEL_CALL \subseteq loaded
    /\ pc \in {"deinited", "exit", "exited"} => ~hook.hooked

ExitInv == abandoned = {} => Accounts /\ Installed /\ HookRecorded

LEMMA OutsideIsOutside ==
    (Outside \cup {"ready", "init_failed", "deinited", "exit", "exited"}) \cap Steps = {}
BY DEF Outside, Steps, InitSteps, ArchInitSteps, ArchDeinitSteps, Deinit7Steps

(* kernel_call_deinit returns without a hook. *)
LEMMA DeinitUnhooks ==
    ASSUME SInv, KernelCallStep, pc' = "deinited"
    PROVE  ~hook'.hooked
<1> USE DEF Goto
<1>1. ~Call7InitStep(interrupted)
    BY DEF Call7InitStep, CreateUserClient, FindUserClient, AllocateVtable, WriteVtable,
        AllocateTrap, WriteEntryId, HookVtable, SetHooked, FailInit, Call7Deinit
<1>2. ~ArchInitStep
    BY DEF ArchInitStep, PrepareSyscallHook, WriteText, WriteSysent, SetFunction,
        AllocatePayload
<1>3. ~ArchDeinitStep
    BY DEF ArchDeinitStep, ClearFunction, RestoreSysent, RestoreText, FreePayload,
        ForgetPayload
<1>4. CASE FreeTrap \/ ForgetTrap
    <2>1. ~hook.hooked
        BY <1>4 DEF FreeTrap, ForgetTrap, At, SInv, KInv, Unhooked
    <2>2. hook' = hook \/ hook' = [hook EXCEPT !.trap = None]
        BY <1>4 DEF FreeTrap, ForgetTrap, user
    <2> QED
        BY <2>1, <2>2 DEF SInv, KInv, UserTypeOK
<1>5. CASE Call7DeinitStep /\ ~(FreeTrap \/ ForgetTrap)
    BY <1>5 DEF Call7DeinitStep, Unhook, ClearHooked, CloseConnection, ForgetConnection,
        FreeVtable, ForgetVtable
<1> QED
    BY <1>1, <1>2, <1>3, <1>4, <1>5 DEF KernelCallStep

(* A deinitialize that cuts nothing short takes down what is recorded. *)
LEMMA DeinitializeAccounts ==
    ASSUME SInv, Accounts, Installed, HookRecorded, pc \notin Steps,
           pc \notin {"ready", "init_failed"},
           UNCHANGED <<user, kernelState, history>>, Deinitialize
    PROVE  Accounts' /\ Installed' /\ HookRecorded'
<1>1. CASE KERNEL_CALL \subseteq loaded
    <2>1. CallDeinit("deinited")
        BY <1>1 DEF Deinitialize
    <2>2. pc' \notin Outside \cup {"deinited", "exit", "exited"}
        BY <2>1 DEF CallDeinit, Outside
    <2> QED
        BY <2>1, <2>2, OutsideAccounts, OutsideInstalled DEF HookRecorded
<1>2. CASE ~(KERNEL_CALL \subseteq loaded)
    <2>1. pc' = "deinited"
        BY <1>2 DEF Deinitialize
    <2>2. pc' \notin Steps
        BY <2>1, OutsideIsOutside
    <2>3. ~hook.hooked
        BY <1>2 DEF HookRecorded, SInv, TypeOK, MainSteps, Outside
    <2> QED
        BY <2>1, <2>2, <2>3, OutsideAccounts, OutsideInstalled DEF HookRecorded, Outside, user
<1> QED
    BY <1>1, <1>2

LEMMA ExitNext == SInv /\ FreeInv /\ ExitInv /\ [Next]_vars => ExitInv'
<1> SUFFICES ASSUME SInv, FreeInv, Accounts, Installed, HookRecorded, [Next]_vars,
                    abandoned' = {}
             PROVE  Accounts' /\ Installed' /\ HookRecorded'
    <2>1. ASSUME [Next]_vars, abandoned' = {} PROVE abandoned = {}
        BY <2>1 DEF Next, Step, vars, KernelCallStep, LoadFeature, CallKernelCallInit,
            KernelCallLoaded, KernelCallFailed, Initialized, Unload, Prompt, DiscardLine,
            FinishCommand, RootCommand, Leave, Exit, Main, ReadLine, ResolveArgument,
            EndOfInput, Interrupt, Terminate, NewProcess, signals
    <2> QED
        BY <2>1 DEF ExitInv
<1> USE DEF At, Goto
<1>1. CASE KernelCallStep
    <2>1. pc' \in Steps \cup Returns
        BY <1>1, StepTarget DEF SInv, TypeOK, KernelCallStep
    <2>2. pc' \notin Outside \cup {"exit", "exited"}
        BY <2>1 DEF Outside, Steps, Returns, InitSteps, ArchInitSteps, ArchDeinitSteps,
            Deinit7Steps
    <2>3. HookRecorded'
        BY <1>1, <2>2, DeinitUnhooks DEF HookRecorded
    <2>4. Accounts' /\ Installed'
        BY <1>1, StepAccounts, StepInstalled DEF SInv, TypeOK, KernelCallStep
    <2> QED
        BY <2>3, <2>4
<1>2. CASE CallKernelCallInit
    <2>1. /\ pc = "initialize" /\ pc' = InitEntry
          /\ UNCHANGED <<user, kernelState, history>>
        BY <1>2 DEF CallKernelCallInit
    <2>2. pc \notin Steps
        BY <2>1, OutsideIsOutside DEF Outside
    <2>3. pc' \in {"arch_init", "create_client"}
        BY <2>1 DEF InitEntry
    <2> QED
        BY <2>1, <2>2, <2>3, OutsideAccounts, OutsideInstalled DEF HookRecorded, Outside
<1>3. CASE \/ LoadFeature \/ KernelCallLoaded \/ KernelCallFailed \/ Initialized \/ Unload
           \/ Prompt \/ DiscardLine \/ FinishCommand \/ Main \/ ReadLine \/ ResolveArgument
           \/ EndOfInput \/ NewProcess
    <2>1. /\ UNCHANGED <<user, kernelState, history>>
          /\ pc \in Outside \cup {"ready", "init_failed", "deinited", "exited"}
          /\ pc' \in Outside \cup {"exit"}
        BY <1>3 DEF LoadFeature, KernelCallLoaded, KernelCallFailed, Initialized, Unload,
            Prompt, DiscardLine, FinishCommand, Main, ReadLine, ResolveArgument, EndOfInput,
            NewProcess, Request, CommandDone, Outside
    <2>2. /\ pc = "deinited" => pc' = "exit"
          /\ pc \in Outside => pc' \in Outside /\ loaded \subseteq loaded'
          /\ pc = "ready" => pc' \in Outside /\ KERNEL_CALL \subseteq loaded'
        BY <1>3 DEF LoadFeature, KernelCallLoaded, KernelCallFailed, Initialized, Unload,
            Prompt, DiscardLine, FinishCommand, Main, ReadLine, ResolveArgument, EndOfInput,
            NewProcess, Request, CommandDone, Outside, memctl
    <2>3. pc = "init_failed" => ~hook.hooked
        BY DEF SInv, KInv, Unhooked
    <2>4. HookRecorded'
        BY <2>1, <2>2, <2>3 DEF HookRecorded, Outside, user
    <2> QED
        BY <2>1, <2>4, OutsideIsOutside, OutsideAccounts, OutsideInstalled
<1>4. CASE Exit
    <2>1. /\ pc = "exit" /\ pc' = "exited"
          /\ hook' = NoHook /\ syscallHook' = NoSyscallHook /\ jopPayload' = None
          /\ UNCHANGED <<kmem, sysent, text, refused, doubleFree>>
        BY <1>4 DEF Exit, history
    <2>2. pc \notin Steps /\ pc' \notin Steps
        BY <2>1, OutsideIsOutside
    <2>3. ~hook.hooked
        BY <2>1 DEF HookRecorded
    <2>4. ~syscallHook.function /\ jopPayload = None
        BY <2>3 DEF SInv, KInv, MechanismUsable, Usable
    <2>5. hook.hookedVtable = None /\ hook.trap = None
        BY <2>2, <2>3 DEF Accounts, Cleared
    <2>6. Accounts'
        BY <2>1, <2>4, <2>5 DEF NoHook, Accounts, Live, Distinct, Cleared, Accounted
    <2>7. Installed'
        BY <2>1, <2>4 DEF NoSyscallHook, Installed, SystemCall, HookSteps
    <2>8. HookRecorded'
        BY <2>1 DEF NoHook, HookRecorded, Outside
    <2> QED
        BY <2>6, <2>7, <2>8
<1>5. CASE RootCommand \/ Leave
    <2>1. pc \in Outside /\ Deinitialize /\ UNCHANGED <<user, kernelState, history>>
        BY <1>5 DEF RootCommand, Leave, Outside
    <2> QED
        BY <2>1, OutsideIsOutside, DeinitializeAccounts DEF Outside
<1>6. ASSUME NEW signal \in Signals, Terminate(signal)
      PROVE  Accounts' /\ Installed' /\ HookRecorded'
    <2>1. Deinitialize /\ UNCHANGED <<user, kernelState, history>>
        BY <1>6 DEF Terminate
    <2>2. ~InKernelCallInit /\ ~InKernelCallDeinit
        BY <1>6 DEF Terminate
    <2>3. pc \in Outside \cup {"deinited", "exit", "exited"}
        BY <2>2 DEF SInv, TypeOK, FreeInv, InitUnloaded, Outside, MainSteps, Steps,
            InKernelCallInit, InKernelCallDeinit
    <2> QED
        BY <2>1, <2>3, OutsideIsOutside, DeinitializeAccounts DEF Outside
<1>7. CASE Interrupt \/ UNCHANGED vars
    <2>1. UNCHANGED <<kcVars, loaded>>
        BY <1>7 DEF Interrupt, vars, memctl
    <2> QED
        BY <2>1 DEF kcVars, control, user, kernelState, history, Accounts, Live, Distinct,
            Cleared, Accounted, Installed, SystemCall, HookRecorded
<1> QED
    BY <1>1, <1>2, <1>3, <1>4, <1>5, <1>6, <1>7 DEF Next, Step

(***************************************************************************)
(* A process that ends leaves the kernel as it found it, by whichever of   *)
(* its ways it ends and for any number of processes: it suffices that no   *)
(* signal cut kernel_call_init or kernel_call_deinit short and that the    *)
(* kernel refused nothing.                                                 *)
(***************************************************************************)
THEOREM LeavesKernelClean == Spec => []CleanExit
<1>1. Init => ExitInv
    <2> SUFFICES ASSUME Init PROVE ExitInv
        OBVIOUS
    <2>1. pc = "main" /\ UserInit /\ KernelInit /\ HistoryInit
        BY DEF Init, ProcessInit
    <2>2. pc \notin Steps
        BY <2>1, OutsideIsOutside DEF Outside
    <2> QED
        BY <2>1, <2>2, InitialAccounts, InitialInstalled
           DEF ExitInv, HookRecorded, Outside, UserInit, NoHook
<1>2. SInv /\ ExitInv => CleanExit
    <2> SUFFICES ASSUME SInv, ExitInv, pc = "exited", abandoned = {}, refused = {}
                 PROVE  Clean
        BY DEF CleanExit, At
    <2>1. pc \notin Steps
        BY OutsideIsOutside
    <2> QED
        BY <2>1, CleanWithoutHook DEF SInv, Ended, ExitInv, HookRecorded
<1> QED
    BY <1>1, <1>2, ExitNext, SessionInvariant, FreeInvariant, PTL DEF Spec

=============================================================================
