------------------------------- MODULE Session -------------------------------
(***************************************************************************)
(* A run of the memctl tool around the kernel function call subsystem:     *)
(* main and the read-eval-print loop of memctl.c, the features loaded on   *)
(* demand by initialize, deinitialize, and the signal handler, which can   *)
(* interrupt the rest between any two steps and deinitialize in its place. *)
(*                                                                         *)
(* The handler of a terminating signal always ends the process: by exit    *)
(* for SIGINT, and otherwise by a signal that is raised while blocked and  *)
(* delivered with its default action when the handler returns.  What it    *)
(* interrupted is therefore never resumed, and one pc is enough: a signal  *)
(* moves it.  The kernel outlives the process, and a new one may start.    *)
(*                                                                         *)
(* What a command does once its features are loaded is left out, except    *)
(* for quitting, for resolving a symbol among its arguments, and for the   *)
(* root command, which deinitializes and replaces the process.             *)
(***************************************************************************)
EXTENDS KernelCall, Features, Naturals, Sequences

CONSTANTS
    Requests,  \* the masks commands pass to initialize
    Signals,   \* the terminating signals, "INT" among them
    MaxRuns    \* bound: processes that may run one after the other

VARIABLES
    loaded,       \* loaded_features
    wanted,       \* the features argument of the current initialize
    stage,        \* the position of initialize among the features
    up,           \* what the features' own init functions have set up
    inRepl,       \* in_repl
    interrupted,  \* the libmemctl global
    armed,        \* signals whose terminating handler has not run
    abandoned,    \* history: what a signal cut short, "init" or "deinit"
    runs          \* processes started

memctl == <<loaded, wanted, stage, up, inRepl>>
signals == <<interrupted, armed, abandoned>>
vars == <<kcVars, memctl, signals, runs>>

-----------------------------------------------------------------------------
CALL == 5
Stages == 1 .. 8
Bits == {Bit[i] : i \in Stages}

ASSUME RequestsAssumption == Requests \subseteq SUBSET Bits
(* The mask of a feature contains those of the features it needs. *)
ASSUME MasksAssumption ==
    \A features \in Requests, i \in Stages :
        Bit[i] \in features => Feature[i] \subseteq features
ASSUME SignalsAssumption == "INT" \in Signals
ASSUME MaxRunsAssumption == MaxRuns \in Nat \ {0}

NEED(i) == Feature[i] \subseteq wanted /\ ~(Feature[i] \subseteq loaded)

(* A faulty order of the features, which skips the first. *)
NextStageAfter(i) ==
    LET needed == {j \in i + 1 .. 8 : NEED(j)}
    IN  IF needed = {} THEN 9 ELSE CHOOSE j \in needed : \A k \in needed : j <= k

(* The first feature from the i-th on that is needed, 9 when there is none. *)
NextStage(i) ==
    LET needed == {j \in i .. 8 : NEED(j)}
    IN  IF needed = {} THEN 9 ELSE CHOOSE j \in needed : \A k \in needed : j <= k

-----------------------------------------------------------------------------
ProcessInit ==
    /\ UserInit
    /\ loaded = {} /\ up = {}
    /\ wanted = {} /\ stage = 1
    /\ inRepl = FALSE
    /\ interrupted = FALSE
    /\ armed = Signals

Init ==
    /\ pc = "main" /\ returnTo = "deinited"
    /\ ProcessInit
    /\ KernelInit
    /\ HistoryInit
    /\ abandoned = {}
    /\ runs = 1

-----------------------------------------------------------------------------
(* initialize *)

(* initialize(features), which a command calls before it does anything else. *)
Request(features) ==
    /\ wanted' = features
    /\ stage' = 1
    /\ Goto("initialize")

(* What a command leads back to: the loop, or the end of main. *)
CommandDone == IF inRepl THEN "prompt" ELSE "leave"

(* The functions of the features that are not the kernel call subsystem:  *)
(* process_init and class_init cannot fail.                               *)
LoadFeature ==
    /\ At("initialize")
    /\ stage' = NextStage(stage)
    /\ stage' \in Stages \ {CALL}
    /\ \/ /\ loaded' = loaded \cup Feature[stage']
          /\ up' = up \cup {Bit[stage']}
          /\ UNCHANGED pc
       \/ /\ Bit[stage'] \notin {"process", "class"}
          /\ pc' = CommandDone
          /\ UNCHANGED <<loaded, up>>
    /\ UNCHANGED <<returnTo, user, kernelState, history, wanted, inRepl, signals, runs>>

CallKernelCallInit ==
    /\ At("initialize")
    /\ stage' = NextStage(stage)
    /\ stage' = CALL
    /\ Goto(InitEntry)
    /\ UNCHANGED <<user, kernelState, history, loaded, wanted, up, inRepl, signals, runs>>

KernelCallLoaded ==
    /\ At("ready")
    /\ loaded' = loaded \cup KERNEL_CALL
    /\ up' = up \cup {"call"}
    /\ Goto("initialize")
    /\ UNCHANGED <<user, kernelState, history, wanted, stage, inRepl, signals, runs>>

KernelCallFailed ==
    /\ At("init_failed")
    /\ Goto(CommandDone)
    /\ UNCHANGED <<user, kernelState, history, memctl, signals, runs>>

Initialized ==
    /\ At("initialize")
    /\ NextStage(stage) = 9
    /\ Goto("run")
    /\ UNCHANGED <<user, kernelState, history, memctl, signals, runs>>

-----------------------------------------------------------------------------
(* A faulty deinitialize, without kernel_call_deinit. *)
DeinitializeNothing == pc' = "deinited" /\ returnTo' = "deinited"

(* deinitialize: every path that calls it ends the process. *)
Deinitialize ==
    IF KERNEL_CALL \subseteq loaded
    THEN CallDeinit("deinited")
    ELSE pc' = "deinited" /\ returnTo' = "deinited"

(* A faulty handler, which returns to the loop instead of ending the process. *)
UnloadAndReturn ==
    /\ At("deinited")
    /\ loaded' = {}
    /\ Goto(CommandDone)
    /\ UNCHANGED <<user, kernelState, history, wanted, stage, up, inRepl, signals, runs>>

Unload ==
    /\ At("deinited")
    /\ loaded' = {}
    /\ Goto("exit")
    /\ UNCHANGED <<user, kernelState, history, wanted, stage, up, inRepl, signals, runs>>

-----------------------------------------------------------------------------
(* main and run_repl *)

(* main runs one command, or the loop. *)
Main ==
    /\ At("main")
    /\ \/ \E features \in Requests : Request(features) /\ UNCHANGED inRepl
       \/ inRepl' = TRUE /\ Goto("prompt") /\ UNCHANGED <<wanted, stage>>
    /\ UNCHANGED <<user, kernelState, history, loaded, up, signals, runs>>

(* The head of the loop clears interrupted and waits in el_gets. *)
Prompt ==
    /\ At("prompt")
    /\ IF inRepl
       THEN interrupted' = FALSE /\ Goto("reading")
       ELSE UNCHANGED interrupted /\ Goto("leave")
    /\ UNCHANGED <<user, kernelState, history, memctl, armed, abandoned, runs>>

(* ^C at the prompt discards the line. *)
DiscardLine ==
    /\ At("reading") /\ interrupted
    /\ interrupted' = FALSE
    /\ Goto("prompt")
    /\ UNCHANGED <<user, kernelState, history, memctl, armed, abandoned, runs>>

(* A line: a command with its features, quit_command, or one with neither. *)
ReadLine ==
    /\ At("reading") /\ ~interrupted
    /\ \/ \E features \in Requests : Request(features) /\ UNCHANGED inRepl
       \/ inRepl' \in {inRepl, FALSE} /\ Goto("prompt") /\ UNCHANGED <<wanted, stage>>
    /\ UNCHANGED <<user, kernelState, history, loaded, up, signals, runs>>

EndOfInput ==
    /\ At("reading") /\ ~interrupted
    /\ inRepl' = FALSE
    /\ Goto("leave")
    /\ UNCHANGED <<user, kernelState, history, loaded, wanted, stage, up, signals, runs>>

(* A symbol among the arguments is resolved before the command runs. *)
ResolveArgument ==
    /\ At("run") /\ wanted = KERNEL_SYMBOLS
    /\ \E features \in Requests : Request(features)
    /\ UNCHANGED <<user, kernelState, history, loaded, up, inRepl, signals, runs>>

(* The command's own work ends. *)
FinishCommand ==
    /\ At("run")
    /\ Goto(CommandDone)
    /\ UNCHANGED <<user, kernelState, history, memctl, signals, runs>>

(* root_command, whose execve or exit follows deinitialize(false). *)
RootCommand ==
    /\ At("run") /\ wanted = PRIVESC
    /\ Deinitialize
    /\ UNCHANGED <<user, kernelState, history, memctl, signals, runs>>

Leave ==
    /\ At("leave")
    /\ Deinitialize
    /\ UNCHANGED <<user, kernelState, history, memctl, signals, runs>>

(***************************************************************************)
(* The kernel closes the connection of a process that ends; the process's  *)
(* own state goes, and a next one starts from that of ProcessInit.         *)
(***************************************************************************)
Exit ==
    /\ At("exit")
    /\ Goto("exited")
    /\ client' = [client EXCEPT !.open = FALSE]
    /\ hook' = NoHook /\ syscallHook' = NoSyscallHook /\ jopPayload' = None
    /\ loaded' = {} /\ up' = {} /\ wanted' = {} /\ stage' = 1
    /\ inRepl' = FALSE /\ interrupted' = FALSE
    /\ armed' = Signals
    /\ UNCHANGED <<kmem, sysent, text, history, abandoned, runs>>

NewProcess ==
    /\ At("exited") /\ runs < MaxRuns
    /\ runs' = runs + 1
    /\ Goto("main")
    /\ UNCHANGED <<user, kernelState, history, memctl, signals>>

-----------------------------------------------------------------------------
(* signal_handler *)

(* The first SIGINT only sets the flag that long operations poll. *)
Interrupt ==
    /\ pc # "exited"
    /\ ~interrupted
    /\ interrupted' = TRUE
    /\ UNCHANGED <<kcVars, memctl, armed, abandoned, runs>>

(* kernel_call_init runs until its success is recorded in loaded_features. *)
InKernelCallInit ==
    \/ pc \in InitSteps \cup ArchInitSteps \cup {"ready", "init_failed"}
    \/ pc \in Deinit7Steps /\ returnTo = "init_failed"
InKernelCallDeinit ==
    pc \in ArchDeinitSteps \cup Deinit7Steps /\ returnTo = "deinited"

(***************************************************************************)
(* Another signal, or SIGINT when the flag is set: the handler of each is  *)
(* entered once, because the signal is blocked while its handler runs.     *)
(***************************************************************************)
Terminate(signal) ==
    /\ pc # "exited"
    /\ signal \in armed
    /\ signal = "INT" => interrupted
    /\ armed' = armed \ {signal}
    /\ interrupted' = TRUE
    /\ Deinitialize
    /\ abandoned' = abandoned \cup {a \in {"init", "deinit"} :
                        \/ a = "init" /\ InKernelCallInit
                        \/ a = "deinit" /\ InKernelCallDeinit}
    /\ UNCHANGED <<user, kernelState, history, memctl, runs>>

-----------------------------------------------------------------------------
KernelCallStep ==
    /\ \/ Call7InitStep(interrupted)
       \/ ArchInitStep
       \/ ArchDeinitStep
       \/ Call7DeinitStep
    /\ UNCHANGED <<memctl, signals, runs>>

(* The steps the process takes by itself; it waits for its user's lines. *)
Step ==
    \/ KernelCallStep
    \/ LoadFeature
    \/ CallKernelCallInit
    \/ KernelCallLoaded
    \/ KernelCallFailed
    \/ Initialized
    \/ Unload
    \/ Prompt
    \/ DiscardLine
    \/ FinishCommand
    \/ RootCommand
    \/ Leave
    \/ Exit

Next ==
    \/ Step
    \/ Main
    \/ ReadLine
    \/ ResolveArgument
    \/ EndOfInput
    \/ Interrupt
    \/ \E signal \in Signals : Terminate(signal)
    \/ NewProcess

Spec == Init /\ [][Next]_vars

-----------------------------------------------------------------------------
MainSteps == {"main", "prompt", "reading", "initialize", "run", "leave", "exit", "exited"}

(* Every variable keeps its type. *)
TypeOK ==
    /\ pc \in MainSteps \cup Steps \cup {"ready", "init_failed", "deinited"}
    /\ returnTo \in {"deinited", "init_failed"}
    /\ StateTypeOK
    /\ loaded \subseteq Bits /\ wanted \subseteq Bits /\ up \subseteq Bits
    /\ stage \in 1 .. 9
    /\ inRepl \in BOOLEAN /\ interrupted \in BOOLEAN
    /\ armed \subseteq Signals
    /\ abandoned \subseteq {"init", "deinit"}
    /\ runs \in 1 .. MaxRuns

(***************************************************************************)
(* When the init function of a feature runs, what it uses was set up by    *)
(* the functions of other features before: kernel_memory_init needs the    *)
(* kernel task, kernel_slide_init the task and the kernel image, and those *)
(* that resolve kernel symbols or call the kernel all of it.  This is what *)
(* the masks of feature_t and the order in initialize are for.             *)
(***************************************************************************)
Uses == LET symbols == {"task", "basic", "image", "slide"} IN
        <<{}, {"task"}, {}, {"task", "image"}, symbols,
          symbols \cup {"call"}, symbols \cup {"call"}, symbols \cup {"call"}>>

DependenciesUp ==
    At("initialize") /\ NextStage(stage) # 9 => Uses[NextStage(stage)] \subseteq up

(***************************************************************************)
(* A command only runs with all the features it asked for, and a feature   *)
(* that loaded_features records was really set up: also in a loop where    *)
(* earlier initializations failed half way.  While the process is not being*)
(* deinitialized, loaded_features vouches for a hook that can be used.     *)
(***************************************************************************)
RequestMet ==
    /\ At("run") => wanted \subseteq loaded /\ loaded \subseteq up
    /\ pc \in MainSteps \ {"exit", "exited"} /\ KERNEL_CALL \subseteq loaded => Usable

(***************************************************************************)
(* A process that has ended leaves the kernel as it found it, whichever    *)
(* way it ended, if no signal cut kernel_call_init or kernel_call_deinit   *)
(* short and the kernel refused nothing.                                   *)
(***************************************************************************)
CleanExit == At("exited") /\ abandoned = {} /\ refused = {} => Clean

(***************************************************************************)
(* A block is freed twice only by the handler of a signal that interrupts  *)
(* a deinitialization between freeing the block and forgetting it.         *)
(***************************************************************************)
FreedOnce == doubleFree => "deinit" \in abandoned

(***************************************************************************)
(* Once the handler of a terminating signal runs, the process takes its    *)
(* kernel hook down and ends: no step leads back to a command, the loop or *)
(* an initialization, whatever was interrupted and whatever fails.         *)
(***************************************************************************)
Ending == InKernelCallDeinit \/ pc \in {"deinited", "exit", "exited"}

Terminates == [][armed # Signals => Ending /\ Ending']_vars

=============================================================================
