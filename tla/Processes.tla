------------------------------ MODULE Processes ------------------------------
(***************************************************************************)
(* The processes of libmemctl/process.c: references to a proc struct of the*)
(* kernel taken by proc_find and proc_find_path and given back, the task   *)
(* port of a process and references to credentials.  Each function is a    *)
(* few calls into the kernel, any of which may fail; between two of them   *)
(* processes exit, start or execute another file.                          *)
(*                                                                         *)
(* A proc is a process ID and the number of processes that had it before.  *)
(* The kernel does not reuse an ID while its proc struct is referenced.    *)
(***************************************************************************)
EXTENDS Naturals, FiniteSetsExt

CONSTANTS
    Pids,        \* process IDs
    Paths,       \* paths of executables
    Beginnings,    \* the paths that a path begins with, itself among them
    Gone,        \* the path of no process
    NoProc,      \* the proc 0
    MaxPids,     \* PROC_FIND_PATH_PID_COUNT
    MaxTries,    \* the tries of proc_find_path
    MaxBirths,   \* bound: processes that use an ID one after the other
    MaxRefs,     \* bound: references to one proc
    MaxCreds,    \* bound: references to credentials that clients hold
    MaxFailures  \* bound: failures of the calls for task ports and credentials

ASSUME PidsAssumption == Pids \subseteq Nat \ {0}
ASSUME PathsAssumption == Gone \notin Paths
ASSUME BeginningsAssumption ==
    Beginnings \in [Paths -> SUBSET Paths] /\ \A p \in Paths : p \in Beginnings[p]
ASSUME BoundsAssumption ==
    /\ MaxPids \in Nat /\ MaxTries \in Nat \ {0} /\ MaxBirths \in Nat /\ MaxRefs \in Nat \ {0}
    /\ MaxCreds \in Nat /\ MaxFailures \in Nat

Procs == Pids \X (0 .. MaxBirths)
ASSUME NoProcAssumption == NoProc \notin Procs

VARIABLES
    path,      \* kernel: the executable of each process ID
    births,    \* kernel: the processes that had the ID before
    refs,      \* kernel: the references memctl took to each proc struct
    owned,     \* references that clients of libmemctl hold
    lost,      \* history: references whose release failed
    taken,     \* kernel: how many of Things were taken and not given back
    creds,     \* references to credentials that clients of libmemctl hold
    failed,    \* history: how often each of Calls failed
    op, pc,    \* the running function, and where it is
    pid, proc, tries,     \* its locals
    had        \* history: the paths of proc since it was referenced

kernel == <<path, births>>
counts == <<refs, owned, lost>>
things == <<taken, creds, failed>>
locals == <<pid, proc, tries, had>>
vars == <<kernel, counts, things, op, pc, locals>>

NoOp == [name |-> "none", path |-> Gone, release |-> FALSE]

(***************************************************************************)
(* What else the functions take in the kernel, and the calls that do: where*)
(* a function goes on after each of them ("idle" if it returns), and what  *)
(* the call takes and gives back or uses up.                               *)
(***************************************************************************)
Things == {"credential", "buffer", "task_reference", "send_right"}
Step(next, takes, gives) == [next |-> next, takes |-> takes, gives |-> gives]

TaskSteps ==
    [proc_task |-> Step("task_reference", {}, {}),
     task_reference |-> Step("convert_task_to_port", {"task_reference"}, {}),
     convert_task_to_port |-> Step("get_task_ipcspace", {"send_right"}, {"task_reference"}),
     get_task_ipcspace |-> Step("ipc_port_copyout_send", {}, {}),
     ipc_port_copyout_send |-> Step("idle", {}, {"send_right"})]

CredSteps ==
    [kernel_allocate |-> Step("kernel_write_word", {"buffer"}, {}),
     kernel_write_word |-> Step("kauth_cred_unref", {}, {}),
     kauth_cred_unref |-> Step("kernel_deallocate", {}, {"credential"}),
     kernel_deallocate |-> Step("idle", {}, {"buffer"})]

(* A faulty way out, which frees nothing. *)
ReturnAtOnce(call) == "idle"

(* The labels fail_0 and fail_1 of kauth_cred_unref. *)
AfterFailure(call) ==
    IF call \in {"kernel_write_word", "kauth_cred_unref"} THEN "kernel_deallocate" ELSE "idle"

Calls == DOMAIN TaskSteps \cup DOMAIN CredSteps

Init ==
    /\ path \in [Pids -> Paths \cup {Gone}]
    /\ births = [p \in Pids |-> 0]
    /\ refs = [p \in Procs |-> 0] /\ owned = refs /\ lost = refs
    /\ taken = [t \in Things |-> 0] /\ creds = 0 /\ failed = [c \in Calls |-> 0]
    /\ op = NoOp /\ pc = "idle"
    /\ pid = 0 /\ proc = NoProc /\ tries = 0 /\ had = {}

ProcOf(p) == <<p, births[p]>>

-----------------------------------------------------------------------------
(* Other processes. *)

Exit(p) ==
    /\ path[p] # Gone
    /\ path' = [path EXCEPT ![p] = Gone]
    /\ UNCHANGED <<births, counts, things, op, pc, locals>>

Exec(p, new) ==
    /\ path[p] # Gone
    /\ path' = [path EXCEPT ![p] = new]
    /\ had' = IF proc = ProcOf(p) THEN had \cup {new} ELSE had
    /\ UNCHANGED <<births, counts, things, op, pc, pid, proc, tries>>

Start(p, new) ==
    /\ path[p] = Gone /\ refs[ProcOf(p)] = 0 /\ births[p] < MaxBirths
    /\ path' = [path EXCEPT ![p] = new]
    /\ births' = [births EXCEPT ![p] = @ + 1]
    /\ UNCHANGED <<counts, things, op, pc, locals>>

-----------------------------------------------------------------------------
Return ==
    /\ pc' = "idle" /\ op' = NoOp
    /\ pid' = 0 /\ proc' = NoProc /\ tries' = 0 /\ had' = {}

Goto(label) == pc' = label /\ UNCHANGED <<op, pid, proc, tries, had>>

(* A reference given back, or not if the call of proc_rele fails. *)
Release(p) ==
    \/ refs' = [refs EXCEPT ![p] = @ - 1] /\ UNCHANGED lost
    \/ lost' = [lost EXCEPT ![p] = @ + 1] /\ UNCHANGED refs

(* proc_find *)
CallProcFind(p, release) ==
    /\ pc = "idle"
    /\ op' = [name |-> "proc_find", path |-> Gone, release |-> release]
    /\ pid' = p /\ pc' = "find"
    /\ UNCHANGED <<kernel, counts, things, proc, tries, had>>

(* proc_find_path *)
CallProcFindPath(wanted, release) ==
    /\ pc = "idle"
    /\ op' = [name |-> "proc_find_path", path |-> wanted, release |-> release]
    /\ pc' = "list"
    /\ UNCHANGED <<kernel, counts, things, locals>>

(***************************************************************************)
(* proc_pids_find_path compares the length of the path that the process    *)
(* has: a path that the wanted one begins with matches, too.               *)
(***************************************************************************)
Matching == {p \in Pids : path[p] # Gone /\ path[p] \in Beginnings[op.path]}

(* The smallest of the processes; without one proc_find_path returns 0.     *)
ListPids ==
    /\ pc = "list"
    /\ \/ /\ Matching # {} /\ Cardinality(Matching) <= MaxPids
          /\ pid' = Min(Matching) /\ pc' = "find"
          /\ UNCHANGED <<op, proc, tries, had>>
       \/ Return    \* libproc failed, no process matched, or too many
    /\ UNCHANGED <<kernel, counts, things>>

(* XNU's proc_find takes a reference to the process, if there is one. *)
Find ==
    /\ pc = "find"
    /\ \/ /\ path[pid] # Gone /\ refs[ProcOf(pid)] < MaxRefs
          /\ refs' = [refs EXCEPT ![ProcOf(pid)] = @ + 1]
          /\ proc' = ProcOf(pid) /\ had' = {path[pid]}
          /\ pc' = IF op.release THEN "release" ELSE "check"
          /\ UNCHANGED <<op, pid, tries>>
       \/ path[pid] = Gone /\ Goto("check") /\ UNCHANGED refs
       \/ Return /\ UNCHANGED refs
    /\ UNCHANGED <<kernel, owned, lost, things>>

(* With release the proc is looked at no more. *)
FindReleases ==
    /\ pc = "release"
    /\ Release(proc)
    /\ Return
    /\ UNCHANGED <<kernel, owned, things>>

(* A faulty check, which trusts the list of processes. *)
StillThere == TRUE

(* proc_pidpath once more. *)
StillItself == path[pid] = op.path

(***************************************************************************)
(* What proc_find gives is the client's; proc_find_path first makes sure   *)
(* that it is the right process still.                                     *)
(***************************************************************************)
Found ==
    /\ pc = "check"
    /\ op.name = "proc_find" \/ op.release \/ StillItself
    /\ owned' = IF proc = NoProc THEN owned ELSE [owned EXCEPT ![proc] = @ + 1]
    /\ Return
    /\ UNCHANGED <<kernel, refs, lost, things>>

CheckFails ==
    /\ pc = "check"
    /\ op.name = "proc_find_path" /\ ~op.release /\ ~StillItself
    /\ Goto("drop")
    /\ UNCHANGED <<kernel, counts, things>>

TryAgain ==
    IF tries + 1 < MaxTries
    THEN /\ tries' = tries + 1 /\ proc' = NoProc /\ pid' = 0 /\ had' = {}
         /\ pc' = "list" /\ UNCHANGED op
    ELSE Return

(* A faulty retry, which keeps the reference. *)
DropKeeping ==
    /\ pc = "drop" /\ proc # NoProc
    /\ TryAgain
    /\ UNCHANGED <<kernel, counts, things>>

(* The wrong process is released, and the list is read again. *)
Drop ==
    /\ pc = "drop" /\ proc # NoProc
    /\ Release(proc)
    /\ TryAgain
    /\ UNCHANGED <<kernel, owned, things>>

(* A process that was gone before proc_find: proc_rele asserts that the     *)
(* proc is not 0, and the program aborts.                                   *)
DropAborts ==
    /\ pc = "drop" /\ proc = NoProc
    /\ Goto("aborted")
    /\ UNCHANGED <<kernel, counts, things>>

(* proc_rele by a client. *)
ProcRele(p) ==
    /\ pc = "idle" /\ owned[p] > 0
    /\ Release(p)
    /\ owned' = [owned EXCEPT ![p] = @ - 1]
    /\ UNCHANGED <<kernel, things, op, pc, locals>>

-----------------------------------------------------------------------------
(* A call succeeds, or fails and has done nothing. *)
One(condition) == IF condition THEN 1 ELSE 0

Succeeds(step) ==
    /\ taken' = [t \in Things |-> taken[t] + One(t \in step.takes) - One(t \in step.gives)]
    /\ UNCHANGED failed

Failures == MapThenSumSet(LAMBDA call : failed[call], Calls)

Fails(call) ==
    /\ Failures < MaxFailures
    /\ failed' = [failed EXCEPT ![call] = @ + 1]
    /\ UNCHANGED taken

Continue(label) == IF label = "idle" THEN Return ELSE Goto(label)

(***************************************************************************)
(* proc_to_task_port: the task of the process gets a reference, which      *)
(* becomes a send right, which becomes a name of this task's.  When a call *)
(* fails the function returns at once, whatever it has taken.              *)
(***************************************************************************)
CallProcToTaskPort(p) ==
    /\ pc = "idle" /\ owned[p] > 0
    /\ op' = [name |-> "proc_to_task_port", path |-> Gone, release |-> FALSE]
    /\ pc' = "proc_task"
    /\ UNCHANGED <<kernel, counts, things, locals>>

TaskToTaskPort ==
    /\ pc \in DOMAIN TaskSteps
    /\ \/ Succeeds(TaskSteps[pc]) /\ Continue(TaskSteps[pc].next)
       \/ Fails(pc) /\ Return
    /\ UNCHANGED <<kernel, counts, creds>>

(* kauth_cred_proc_ref: the credentials of a process, referenced. *)
CredProcRef ==
    /\ pc = "idle" /\ creds < MaxCreds
    /\ creds' = creds + 1 /\ taken' = [taken EXCEPT !["credential"] = @ + 1]
    /\ UNCHANGED <<kernel, counts, failed, op, pc, locals>>

(***************************************************************************)
(* kauth_cred_unref: the pointer to the credentials goes through kernel    *)
(* memory, which is freed in the end whatever failed.  Nobody looks whether*)
(* freeing it does.                                                        *)
(***************************************************************************)
CallCredUnref ==
    /\ pc = "idle" /\ creds > 0
    /\ op' = [name |-> "kauth_cred_unref", path |-> Gone, release |-> FALSE]
    /\ creds' = creds - 1 /\ pc' = "kernel_allocate"
    /\ UNCHANGED <<kernel, counts, taken, failed, locals>>

CredUnref ==
    /\ pc \in DOMAIN CredSteps
    /\ \/ Succeeds(CredSteps[pc]) /\ Continue(CredSteps[pc].next)
       \/ Fails(pc) /\ Continue(AfterFailure(pc))
    /\ UNCHANGED <<kernel, counts, creds>>

Next ==
    \/ \E p \in Pids : Exit(p)
    \/ \E p \in Pids, new \in Paths : Exec(p, new) \/ Start(p, new)
    \/ \E p \in Pids, r \in BOOLEAN : CallProcFind(p, r)
    \/ \E wanted \in Paths, r \in BOOLEAN : CallProcFindPath(wanted, r)
    \/ ListPids
    \/ Find
    \/ FindReleases
    \/ Found
    \/ CheckFails
    \/ Drop
    \/ DropAborts
    \/ \E p \in Procs : ProcRele(p) \/ CallProcToTaskPort(p)
    \/ TaskToTaskPort
    \/ CredProcRef
    \/ CallCredUnref
    \/ CredUnref

Spec == Init /\ [][Next]_vars

-----------------------------------------------------------------------------
(***************************************************************************)
(* process_init: which functions there are, from the kernel symbols that   *)
(* are found.  The symbols are looked up when the kernel has a slide: one  *)
(* that really has none gets no functions.                                 *)
(***************************************************************************)
Symbols == {"current_proc", "proc_find", "proc_rele", "proc_task", "proc_ucred",
            "task_reference", "convert_task_to_port", "get_task_ipcspace",
            "ipc_port_copyout_send"}

initialize_proc_dump_offsets(fns, currentproc, currenttask, dump) ==
    IF ~currentproc \/ ~dump THEN {}
    ELSE (IF currenttask THEN {"task"} ELSE {})
         \cup (IF "proc_ucred" \in fns THEN {"p_ucred"} ELSE {})

When(condition, name) == IF condition THEN {name} ELSE {}

process_init(symbols, base, slide, dump) ==
    LET resolved == IF base /\ slide # 0 THEN symbols ELSE {}
        currentproc == "current_proc" \in resolved
        currenttask == currentproc /\ "proc_task" \in resolved
        offsets == initialize_proc_dump_offsets(resolved, currentproc, currenttask, dump)
        path_fn == When({"proc_find", "proc_rele"} \subseteq resolved, "proc_find_path")
        port_fn == When({"task_reference", "convert_task_to_port", "get_task_ipcspace",
                         "ipc_port_copyout_send"} \subseteq resolved, "task_to_task_port")
        set_fn == When("p_ucred" \in offsets, "proc_set_ucred")
        proc_port == When("proc_task" \in resolved /\ currenttask /\ port_fn # {},
                          "proc_to_task_port")
    IN [functions |-> resolved \cup path_fn \cup port_fn \cup set_fn \cup proc_port,
        offsets |-> offsets]

-----------------------------------------------------------------------------
(***************************************************************************)
(* Whatever fails and however often proc_find_path tries again: a proc that*)
(* was referenced is referenced by a client in the end, unless the call of *)
(* proc_rele itself failed.  No proc is released twice.                    *)
(***************************************************************************)
ReferencesOwned ==
    \A p \in Procs :
        refs[p] = owned[p] + lost[p]
                  + One(p = proc /\ pc \in {"release", "check", "drop"})

(***************************************************************************)
(* What else was taken in the kernel is still there only while a function  *)
(* is at the steps between, a client holds it, or one of these calls       *)
(* failed: nothing but kernel_deallocate leaves the memory of              *)
(* kauth_cred_unref allocated; a failure of kauth_cred_unref before that   *)
(* leaves the credentials referenced; and proc_to_task_port, which undoes  *)
(* nothing, leaves the reference to the task if it cannot be converted and *)
(* the send right if it cannot be given to this task.                      *)
(***************************************************************************)
TakenAccounted ==
    /\ taken["credential"] =
          creds + failed["kernel_allocate"] + failed["kernel_write_word"]
          + failed["kauth_cred_unref"]
          + One(pc \in {"kernel_allocate", "kernel_write_word", "kauth_cred_unref"})
    /\ taken["buffer"] =
          failed["kernel_deallocate"]
          + One(pc \in {"kernel_write_word", "kauth_cred_unref", "kernel_deallocate"})
    /\ taken["task_reference"] =
          failed["convert_task_to_port"] + One(pc = "convert_task_to_port")
    /\ taken["send_right"] =
          failed["get_task_ipcspace"] + failed["ipc_port_copyout_send"]
          + One(pc \in {"get_task_ipcspace", "ipc_port_copyout_send"})

(***************************************************************************)
(* A proc that proc_find_path hands out with a reference has been a process*)
(* with the wanted path while it was referenced: neither a process that    *)
(* executed another file since the list was read, nor one whose path is    *)
(* only the beginning of the wanted one.                                   *)
(***************************************************************************)
PathRight ==
    [][\A p \in Procs : owned'[p] > owned[p] /\ op.name = "proc_find_path" =>
          op.path \in had]_vars

=============================================================================
