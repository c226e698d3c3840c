--------------------------- MODULE ProcessesProofs ---------------------------
(***************************************************************************)
(* What holds of process.c for any processes, paths and numbers of tries:  *)
(* every reference that was taken to a proc struct has an owner, what else *)
(* was taken in the kernel is given back or left by one of the calls named,*)
(* and the proc that is handed out for a path is a process that had it.    *)
(***************************************************************************)
EXTENDS Processes, WellFoundedInduction, TLAPS

(* Where a function has a reference that it has to give away. *)
Holding == {"release", "check", "drop"}
Labels == {"idle", "list", "find", "aborted"} \cup Holding \cup Calls
Names == {"none", "proc_find", "proc_to_task_port", "kauth_cred_unref"}

Types ==
    /\ path \in [Pids -> Paths \cup {Gone}]
    /\ births \in [Pids -> 0 .. MaxBirths]
    /\ refs \in [Procs -> Nat] /\ owned \in [Procs -> Nat] /\ lost \in [Procs -> Nat]
    /\ pc \in Labels
    /\ op.name \in Names \/ (op.name = "proc_find_path" /\ op.path \in Paths)
    /\ proc \in Procs \cup {NoProc}
    /\ tries \in Nat
    /\ taken \in [Things -> Int] /\ creds \in Nat /\ failed \in [Calls -> Nat]

(* One reference for each owner, and one for the function that runs.       *)
Referenced(p) == IF p = proc /\ pc \in Holding THEN 1 ELSE 0
Balanced == \A p \in Procs : refs[p] = owned[p] + lost[p] + Referenced(p)

(* The process that is referenced cannot be replaced by another with its   *)
(* ID, only exit or execute a file.                                        *)
Itself ==
    proc # NoProc =>
        /\ pc \in Holding
        /\ proc = ProcOf(pid)
        /\ path[pid] # Gone => path[pid] \in had

Place ==
    /\ pc \in {"find"} \cup Holding => pid \in Pids
    /\ pc = "release" => proc # NoProc
    /\ pc = "check" /\ op.release => proc = NoProc

PInv == Types /\ Balanced /\ Itself /\ Place /\ TakenAccounted

-----------------------------------------------------------------------------
LEMMA InitInv == Init => PInv
<1> SUFFICES ASSUME Init PROVE PInv
    OBVIOUS
<1>1. Types
    BY BoundsAssumption DEF Init, Types, NoOp, Labels, Names
<1>2. Balanced
    BY DEF Init, Balanced, Referenced, Holding
<1>3. Itself /\ Place
    BY DEF Init, Itself, Place, Holding
<1>4. TakenAccounted
    BY DEF Init, TakenAccounted, One, Things, Calls, TaskSteps, CredSteps
<1> QED
    BY <1>1, <1>2, <1>3, <1>4 DEF PInv

(* The calls, and where nothing is owed but to clients. *)
LEMMA CallLabels ==
    Calls = {"proc_task", "task_reference", "convert_task_to_port", "get_task_ipcspace",
             "ipc_port_copyout_send", "kernel_allocate", "kernel_write_word",
             "kauth_cred_unref", "kernel_deallocate"}
BY DEF Calls, TaskSteps, CredSteps

LEMMA Counted ==
    ASSUME Types
    PROVE  /\ \A c \in Calls : failed[c] \in Nat
           /\ taken["credential"] \in Int /\ taken["buffer"] \in Int
           /\ taken["task_reference"] \in Int /\ taken["send_right"] \in Int
           /\ creds \in Nat
BY DEF Types, Things

LEMMA Elsewhere ==
    ASSUME TakenAccounted, UNCHANGED things, pc \notin Calls, pc' \notin Calls \ {"proc_task"}
    PROVE  TakenAccounted'
BY CallLabels DEF TakenAccounted, things, One

LEMMA ProcOfType ==
    ASSUME PInv, NEW p \in Pids
    PROVE  ProcOf(p) \in Procs
BY DEF PInv, Types, ProcOf, Procs

(* The smallest of the matching processes is one of them. *)
LEMMA LeastMatching ==
    ASSUME Matching # {}
    PROVE  Min(Matching) \in Matching
<1>1. Matching \in SUBSET Nat
    BY PidsAssumption DEF Matching
<1>2. PICK x \in Matching : \A y \in Matching : ~ (<<y, x>> \in OpToRel(<, Nat))
    BY <1>1, WFMin, NatLessThanWellFounded, Zenon
<1>3. ASSUME NEW y \in Matching, y < x PROVE <<y, x>> \in OpToRel(<, Nat)
    <2>1. <<y, x>> \in Nat \X Nat /\ <<y, x>>[1] < <<y, x>>[2]
        BY <1>1, <1>3
    <2> QED
        BY <2>1, Zenon DEF OpToRel
<1>4. \A y \in Matching : ~ (y < x)
    BY <1>2, <1>3, Zenon
<1>5. \E z \in Matching : \A y \in Matching : z <= y
    BY <1>1, <1>4
<1> QED
    BY <1>5 DEF Min

(* Giving a reference back or losing it takes it from its owner. *)
LEMMA ReleaseTakes ==
    ASSUME PInv, NEW p \in Procs, Release(p), refs[p] > 0
    PROVE  /\ refs' \in [Procs -> Nat] /\ lost' \in [Procs -> Nat]
           /\ \A q \in Procs : refs'[q] - lost'[q] = refs[q] - lost[q] - IF q = p THEN 1 ELSE 0
BY DEF PInv, Types, Release

-----------------------------------------------------------------------------
(* What other processes do. *)

LEMMA OthersPreserve ==
    ASSUME PInv,
           NEW p \in Pids, NEW new \in Paths,
           Exit(p) \/ Exec(p, new) \/ Start(p, new)
    PROVE  PInv'
<1> USE DEF PInv
<1>0. /\ UNCHANGED <<refs, owned, lost, taken, creds, failed, op, pc, pid, proc, tries>>
      /\ path' \in [Pids -> Paths \cup {Gone}]
    BY DEF Exit, Exec, Start, Types, counts, things, locals
<1>1. Balanced'
    BY <1>0 DEF Balanced, Referenced
<1>2. Place' /\ TakenAccounted'
    BY <1>0 DEF Place, TakenAccounted
<1>3. CASE Exit(p)
    <2>1. births' = births /\ had' = had
        BY <1>3 DEF Exit, locals
    <2>2. Itself'
        BY <1>0, <1>3, <2>1 DEF Exit, Itself, ProcOf, Types, Place
    <2> QED
        BY <1>0, <1>1, <1>2, <2>1, <2>2 DEF Types
<1>4. CASE Exec(p, new)
    <2>1. births' = births
        BY <1>4 DEF Exec
    <2>2. Itself'
        BY <1>0, <1>4, <2>1 DEF Exec, Itself, ProcOf, Types, Place
    <2> QED
        BY <1>0, <1>1, <1>2, <2>1, <2>2 DEF Types
<1>5. CASE Start(p, new)
    <2>1. /\ births' = [births EXCEPT ![p] = @ + 1] /\ had' = had
          /\ births[p] < MaxBirths /\ path' = [path EXCEPT ![p] = new]
        BY <1>5 DEF Start, locals
    <2>2. births' \in [Pids -> 0 .. MaxBirths]
        BY <2>1, BoundsAssumption DEF Types
    <2>3. ASSUME proc # NoProc PROVE pid # p
        <3>1. proc = ProcOf(pid) /\ pc \in Holding /\ proc \in Procs
            BY <2>3 DEF Itself, Types
        <3>2. refs[proc] > 0
            BY <3>1 DEF Balanced, Referenced, Types
        <3> QED
            BY <1>5, <3>1, <3>2 DEF Start
    <2>4. Itself'
        BY <1>0, <2>1, <2>3 DEF Itself, ProcOf, Types, Place
    <2> QED
        BY <1>0, <1>1, <1>2, <2>2, <2>4 DEF Types
<1> QED
    BY <1>3, <1>4, <1>5

-----------------------------------------------------------------------------
(* The functions. *)

LEMMA SettledInv ==
    ASSUME PInv, Return, UNCHANGED <<path, births>>,
           taken' \in [Things -> Int], creds' \in Nat, failed' \in [Calls -> Nat],
           TakenAccounted',
           refs' \in [Procs -> Nat], owned' \in [Procs -> Nat], lost' \in [Procs -> Nat],
           \A p \in Procs : refs'[p] = owned'[p] + lost'[p]
    PROVE  PInv'
<1>1. Balanced'
    BY DEF Return, Balanced, Referenced, Holding
<1> QED
    BY <1>1 DEF PInv, Types, Return, Itself, Place, NoOp, Names, Labels, Holding

LEMMA ReturnInv ==
    ASSUME PInv, Return, UNCHANGED <<path, births>>, UNCHANGED things, pc \notin Calls,
           refs' \in [Procs -> Nat], owned' \in [Procs -> Nat], lost' \in [Procs -> Nat],
           \A p \in Procs : refs'[p] = owned'[p] + lost'[p]
    PROVE  PInv'
<1>1. pc' \notin Calls
    BY CallLabels DEF Return
<1>2. TakenAccounted' /\ taken' \in [Things -> Int] /\ creds' \in Nat /\ failed' \in [Calls -> Nat]
    BY <1>1, Elsewhere DEF PInv, Types, things
<1> QED
    BY <1>2, SettledInv

(* Where no reference is held none is owed. *)
LEMMA NotHolding ==
    ASSUME PInv, pc \notin Holding
    PROVE  proc = NoProc /\ \A p \in Procs : refs[p] = owned[p] + lost[p]
BY DEF PInv, Itself, Balanced, Referenced, Types

LEMMA GotoInv ==
    ASSUME PInv, UNCHANGED <<kernel, counts, proc, tries>>, proc = NoProc,
           taken' \in [Things -> Int], creds' \in Nat, failed' \in [Calls -> Nat],
           TakenAccounted',
           pc' \in Labels, pc' # "release",
           op'.name \in Names \/ (op'.name = "proc_find_path" /\ op'.path \in Paths),
           pc' \in {"find"} \cup Holding => pid' \in Pids
    PROVE  PInv'
<1>1. Balanced'
    BY NoProcAssumption DEF PInv, Balanced, Referenced, counts
<1> QED
    BY <1>1 DEF PInv, Types, Itself, Place, counts, kernel

LEMMA CallsPreserve ==
    ASSUME PInv,
           \/ \E p \in Pids, r \in BOOLEAN : CallProcFind(p, r)
           \/ \E wanted \in Paths, r \in BOOLEAN : CallProcFindPath(wanted, r)
           \/ \E p \in Procs : CallProcToTaskPort(p)
           \/ CallCredUnref
    PROVE  PInv'
<1>1. pc = "idle" /\ proc = NoProc
    BY NotHolding DEF CallProcFind, CallProcFindPath, CallProcToTaskPort, CallCredUnref, Holding
<1>2. UNCHANGED <<kernel, counts, proc, tries, taken, failed>>
    BY DEF CallProcFind, CallProcFindPath, CallProcToTaskPort, CallCredUnref, locals, things
<1>3. pc' \in Labels \ Holding /\ (pc' = "find" => pid' \in Pids)
    BY CallLabels DEF CallProcFind, CallProcFindPath, CallProcToTaskPort, CallCredUnref, Labels,
        Holding
<1>4. op'.name \in Names \/ (op'.name = "proc_find_path" /\ op'.path \in Paths)
    BY DEF CallProcFind, CallProcFindPath, CallProcToTaskPort, CallCredUnref, Names
<1>5. creds' \in Nat /\ TakenAccounted'
    <2>1. CASE CallCredUnref
        <3>1. creds' = creds - 1 /\ creds > 0 /\ pc' = "kernel_allocate"
            BY <2>1 DEF CallCredUnref
        <3>2. creds \in Nat /\ \A c \in Calls : failed[c] \in Nat
            BY Counted DEF PInv
        <3>3. TakenAccounted'
            BY <1>1, <1>2, <3>1, <3>2, CallLabels DEF PInv, TakenAccounted, One
        <3> QED
            BY <3>1, <3>2, <3>3
    <2>2. CASE ~CallCredUnref
        <3>1. UNCHANGED things /\ pc' \in {"find", "list", "proc_task"}
            BY <2>2 DEF CallProcFind, CallProcFindPath, CallProcToTaskPort
        <3> QED
            BY <1>1, <3>1, CallLabels, Elsewhere DEF PInv, Types, things
    <2> QED
        BY <2>1, <2>2
<1> QED
    BY <1>1, <1>2, <1>3, <1>4, <1>5, GotoInv DEF Holding, PInv, Types

LEMMA FindPreserves ==
    ASSUME PInv, Find
    PROVE  PInv'
<1>1. /\ pc = "find" /\ pid \in Pids /\ proc = NoProc /\ pc \notin Calls
      /\ \A p \in Procs : refs[p] = owned[p] + lost[p]
    BY NotHolding, CallLabels DEF Find, PInv, Place, Holding
<1>2. ProcOf(pid) \in Procs
    BY <1>1, ProcOfType
<1>3. UNCHANGED <<path, births, owned, lost>> /\ UNCHANGED things
    BY DEF Find, kernel
<1>4. CASE Return /\ UNCHANGED refs
    BY <1>1, <1>3, <1>4, ReturnInv DEF PInv, Types
<1>5. CASE path[pid] = Gone /\ Goto("check") /\ UNCHANGED refs
    <2>1. /\ UNCHANGED <<kernel, counts, proc, tries>>
          /\ pc' = "check" /\ op' = op /\ pid' = pid
        BY <1>3, <1>5 DEF Goto, kernel, counts
    <2>2. TakenAccounted'
        BY <1>1, <1>3, <2>1, CallLabels, Elsewhere DEF PInv
    <2> QED
        BY <1>1, <1>3, <2>1, <2>2, GotoInv DEF Labels, Holding, PInv, Types, things
<1>6. CASE /\ refs' = [refs EXCEPT ![ProcOf(pid)] = @ + 1]
           /\ proc' = ProcOf(pid) /\ had' = {path[pid]}
           /\ pc' = IF op.release THEN "release" ELSE "check"
           /\ UNCHANGED <<op, pid, tries>>
    <2>1. proc' # NoProc /\ pc' \in Holding /\ pc' \in Labels
        BY <1>2, <1>6, NoProcAssumption DEF Holding, Labels
    <2>2. refs' \in [Procs -> Nat]
        BY <1>2, <1>6 DEF PInv, Types
    <2>3. Types'
        BY <1>2, <1>3, <1>6, <2>1, <2>2 DEF PInv, Types, things
    <2>4. Balanced'
        BY <1>1, <1>2, <1>3, <1>6, <2>1 DEF PInv, Types, Balanced, Referenced
    <2>5. Itself'
        BY <1>3, <1>6, <2>1 DEF Itself, ProcOf
    <2>6. Place'
        BY <1>1, <1>3, <1>6, <2>1 DEF Place
    <2>7. TakenAccounted'
        BY <1>1, <1>3, <1>6, CallLabels, Elsewhere DEF PInv
    <2> QED
        BY <2>3, <2>4, <2>5, <2>6, <2>7 DEF PInv
<1> QED
    BY <1>4, <1>5, <1>6 DEF Find

LEMMA ListPreserves ==
    ASSUME PInv, ListPids
    PROVE  PInv'
<1>1. /\ pc = "list" /\ proc = NoProc /\ pc \notin Calls
      /\ \A p \in Procs : refs[p] = owned[p] + lost[p]
    BY NotHolding, CallLabels DEF ListPids, Holding
<1>2. UNCHANGED <<kernel, counts>> /\ UNCHANGED things
    BY DEF ListPids
<1>3. CASE Return
    BY <1>1, <1>2, <1>3, ReturnInv DEF PInv, Types, kernel, counts
<1>4. CASE /\ Matching # {} /\ pid' = Min(Matching) /\ pc' = "find"
           /\ UNCHANGED <<op, proc, tries, had>>
    <2>1. pid' \in Pids
        BY <1>4, LeastMatching DEF Matching
    <2>2. TakenAccounted'
        BY <1>1, <1>2, <1>4, CallLabels, Elsewhere DEF PInv
    <2> QED
        BY <1>1, <1>2, <1>4, <2>1, <2>2, GotoInv DEF Labels, Holding, PInv, Types, things
<1> QED
    BY <1>3, <1>4 DEF ListPids

(* With a reference in its hands, a function leaves it to a client, gives  *)
(* it back or drops it and tries again.                                    *)
LEMMA HeldReference ==
    ASSUME PInv, pc \in Holding, proc # NoProc
    PROVE  /\ proc \in Procs /\ pc \notin Calls /\ refs[proc] > 0
           /\ \A p \in Procs :
                 refs[p] = owned[p] + lost[p] + IF p = proc THEN 1 ELSE 0
<1>1. proc \in Procs /\ pc \notin Calls
    BY CallLabels DEF PInv, Types, Holding
<1>2. \A p \in Procs : refs[p] = owned[p] + lost[p] + IF p = proc THEN 1 ELSE 0
    BY DEF PInv, Balanced, Referenced
<1>3. owned[proc] \in Nat /\ lost[proc] \in Nat
    BY <1>1 DEF PInv, Types
<1> QED
    BY <1>1, <1>2, <1>3

LEMMA ReleaseSettles ==
    ASSUME PInv, pc \in Holding, proc # NoProc, Release(proc), UNCHANGED owned
    PROVE  /\ refs' \in [Procs -> Nat] /\ owned' \in [Procs -> Nat] /\ lost' \in [Procs -> Nat]
           /\ \A p \in Procs : refs'[p] = owned'[p] + lost'[p]
<1>1. /\ proc \in Procs /\ refs[proc] > 0
      /\ \A p \in Procs : refs[p] = owned[p] + lost[p] + IF p = proc THEN 1 ELSE 0
    BY HeldReference
<1>2. /\ refs' \in [Procs -> Nat] /\ lost' \in [Procs -> Nat]
      /\ \A q \in Procs : refs'[q] - lost'[q] = refs[q] - lost[q] - IF q = proc THEN 1 ELSE 0
    BY <1>1, ReleaseTakes
<1>3. owned' \in [Procs -> Nat] /\ owned \in [Procs -> Nat] /\ refs \in [Procs -> Nat]
      /\ lost \in [Procs -> Nat]
    BY DEF PInv, Types
<1> QED
    BY <1>1, <1>2, <1>3

LEMMA FindReleasesPreserves ==
    ASSUME PInv, FindReleases
    PROVE  PInv'
<1>1. pc \in Holding /\ proc # NoProc /\ Release(proc) /\ UNCHANGED owned /\ Return
      /\ UNCHANGED <<path, births>> /\ UNCHANGED things
    BY DEF FindReleases, PInv, Place, Holding, kernel
<1> QED
    BY <1>1, HeldReference, ReleaseSettles, ReturnInv

LEMMA FoundPreserves ==
    ASSUME PInv, Found
    PROVE  PInv'
<1>1. /\ pc \in Holding /\ pc \notin Calls /\ Return
      /\ UNCHANGED <<path, births, refs, lost>> /\ UNCHANGED things
    BY CallLabels DEF Found, kernel, Holding
<1>2. CASE proc = NoProc
    <2>1. \A p \in Procs : refs[p] = owned[p] + lost[p]
        BY <1>2, NoProcAssumption DEF PInv, Types, Balanced, Referenced
    <2>2. UNCHANGED owned
        BY <1>2 DEF Found
    <2> QED
        BY <1>1, <2>1, <2>2, ReturnInv DEF PInv, Types
<1>3. CASE proc # NoProc
    <2>1. /\ proc \in Procs
          /\ \A p \in Procs : refs[p] = owned[p] + lost[p] + IF p = proc THEN 1 ELSE 0
        BY <1>1, <1>3, HeldReference
    <2>2. owned' = [owned EXCEPT ![proc] = @ + 1]
        BY <1>3 DEF Found
    <2>3. owned' \in [Procs -> Nat] /\ \A p \in Procs : refs'[p] = owned'[p] + lost'[p]
        BY <1>1, <2>1, <2>2 DEF PInv, Types
    <2> QED
        BY <1>1, <2>1, <2>3, ReturnInv DEF PInv, Types
<1> QED
    BY <1>2, <1>3

LEMMA CheckFailsPreserves ==
    ASSUME PInv, CheckFails
    PROVE  PInv'
<1>1. /\ pc = "check" /\ pc' = "drop"
      /\ UNCHANGED <<path, births, refs, owned, lost, op, pid, proc, tries, had>>
      /\ UNCHANGED things
    BY DEF CheckFails, Goto, kernel, counts
<1>2. Balanced'
    BY <1>1 DEF PInv, Balanced, Referenced, Holding
<1>3. Itself'
    BY <1>1 DEF PInv, Itself, ProcOf, Holding
<1>4. TakenAccounted'
    BY <1>1, CallLabels, Elsewhere DEF PInv
<1> QED
    BY <1>1, <1>2, <1>3, <1>4 DEF PInv, Types, Place, Holding, Labels, things

LEMMA DropPreserves ==
    ASSUME PInv, Drop
    PROVE  PInv'
<1>1. pc \in Holding /\ proc # NoProc /\ Release(proc) /\ UNCHANGED owned
      /\ UNCHANGED <<path, births>> /\ UNCHANGED things
    BY DEF Drop, kernel, Holding
<1>2. /\ refs' \in [Procs -> Nat] /\ owned' \in [Procs -> Nat] /\ lost' \in [Procs -> Nat]
      /\ \A p \in Procs : refs'[p] = owned'[p] + lost'[p]
    BY <1>1, ReleaseSettles
<1>3. pc \notin Calls
    BY <1>1, HeldReference
<1>4. CASE Return
    BY <1>1, <1>2, <1>3, <1>4, ReturnInv
<1>5. CASE ~Return
    <2>1. /\ tries' = tries + 1 /\ proc' = NoProc /\ pc' = "list" /\ op' = op
        BY <1>5 DEF Drop, TryAgain
    <2>2. Balanced'
        BY <1>2, <2>1 DEF Balanced, Referenced, Holding
    <2>3. Types'
        BY <1>1, <1>2, <2>1 DEF PInv, Types, Labels, things
    <2>4. TakenAccounted'
        BY <1>1, <1>3, <2>1, CallLabels, Elsewhere DEF PInv
    <2> QED
        BY <2>1, <2>2, <2>3, <2>4 DEF PInv, Itself, Place, Holding
<1> QED
    BY <1>4, <1>5

LEMMA RelePreserves ==
    ASSUME PInv, NEW p \in Procs, ProcRele(p)
    PROVE  PInv'
<1>1. /\ pc = "idle" /\ proc = NoProc /\ owned[p] > 0
      /\ \A q \in Procs : refs[q] = owned[q] + lost[q]
    BY NotHolding DEF ProcRele, Holding
<1>2. /\ Release(p) /\ owned' = [owned EXCEPT ![p] = @ - 1]
      /\ UNCHANGED <<path, births, op, pc, pid, proc, tries, had>> /\ UNCHANGED things
    BY DEF ProcRele, kernel, locals
<1>3. /\ owned \in [Procs -> Nat] /\ refs \in [Procs -> Nat] /\ lost \in [Procs -> Nat]
    BY DEF PInv, Types
<1>4. refs[p] > 0
    BY <1>1, <1>3
<1>5. /\ refs' \in [Procs -> Nat] /\ lost' \in [Procs -> Nat]
      /\ \A q \in Procs : refs'[q] - lost'[q] = refs[q] - lost[q] - IF q = p THEN 1 ELSE 0
    BY <1>2, <1>4, ReleaseTakes
<1>6. owned' \in [Procs -> Nat]
    BY <1>1, <1>2, <1>3
<1>7. \A q \in Procs : refs'[q] = owned'[q] + lost'[q]
    BY <1>1, <1>2, <1>3, <1>5, <1>6
<1>8. Balanced'
    <2>1. pc' = "idle"
        BY <1>1, <1>2
    <2> QED
        BY <1>5, <1>6, <1>7, <2>1 DEF Balanced, Referenced, Holding
<1>9. Types'
    BY <1>2, <1>5, <1>6 DEF PInv, Types, things
<1>10. TakenAccounted'
    BY <1>1, <1>2, CallLabels, Elsewhere DEF PInv
<1> QED
    BY <1>1, <1>2, <1>8, <1>9, <1>10 DEF PInv, Itself, Place

-----------------------------------------------------------------------------
(* The functions that take other things. *)

(* A step changes what was taken as it says it does. *)
LEMMA TaskTakes ==
    ASSUME PInv, TaskToTaskPort
    PROVE  /\ taken' \in [Things -> Int] /\ failed' \in [Calls -> Nat] /\ TakenAccounted'
           /\ Return \/ (pc' \in DOMAIN TaskSteps /\ UNCHANGED <<op, pid, proc, tries, had>>)
<1>1. /\ pc \in {"proc_task", "task_reference", "convert_task_to_port", "get_task_ipcspace",
                 "ipc_port_copyout_send"}
      /\ creds' = creds
    BY DEF TaskToTaskPort, TaskSteps
<1>2. /\ taken \in [Things -> Int] /\ failed \in [Calls -> Nat] /\ creds \in Nat
      /\ TakenAccounted /\ \A c \in Calls : failed[c] \in Nat
    BY Counted DEF PInv, Types
<1>3. CASE Fails(pc) /\ Return
    <2>1. /\ taken' = taken /\ failed' = [failed EXCEPT ![pc] = @ + 1] /\ pc' = "idle"
        BY <1>3 DEF Fails, Return
    <2>2. failed' \in [Calls -> Nat]
        BY <1>1, <1>2, <2>1, CallLabels
    <2>3. TakenAccounted'
        BY <1>1, <1>2, <2>1, CallLabels DEF TakenAccounted, One
    <2> QED
        BY <1>2, <1>3, <2>1, <2>2, <2>3
<1>4. CASE Succeeds(TaskSteps[pc]) /\ Continue(TaskSteps[pc].next)
    <2>1. /\ taken' = [t \in Things |-> taken[t] + One(t \in TaskSteps[pc].takes)
                                                - One(t \in TaskSteps[pc].gives)]
          /\ failed' = failed
        BY <1>4 DEF Succeeds
    <2>2. \A condition : One(condition) \in {0, 1}
        BY DEF One
    <2>3. taken' \in [Things -> Int]
        BY <1>2, <2>1, <2>2
    <2>4. pc' = TaskSteps[pc].next
        BY <1>4 DEF Continue, Return, Goto
    <2>5. TakenAccounted'
        BY <1>1, <1>2, <2>1, <2>4, CallLabels DEF TakenAccounted, One, TaskSteps, Step, Things
    <2>6. Return \/ (pc' \in DOMAIN TaskSteps /\ UNCHANGED <<op, pid, proc, tries, had>>)
        <3>1. TaskSteps[pc].next \in DOMAIN TaskSteps \cup {"idle"}
            BY <1>1 DEF TaskSteps, Step
        <3> QED
            BY <1>4, <3>1 DEF Continue, Goto
    <2> QED
        BY <1>2, <2>1, <2>3, <2>5, <2>6
<1> QED
    BY <1>3, <1>4 DEF TaskToTaskPort

LEMMA CredTakes ==
    ASSUME PInv, CredUnref
    PROVE  /\ taken' \in [Things -> Int] /\ failed' \in [Calls -> Nat] /\ TakenAccounted'
           /\ Return \/ (pc' \in DOMAIN CredSteps /\ UNCHANGED <<op, pid, proc, tries, had>>)
<1>1. /\ pc \in {"kernel_allocate", "kernel_write_word", "kauth_cred_unref",
                 "kernel_deallocate"}
      /\ creds' = creds
    BY DEF CredUnref, CredSteps
<1>2. /\ taken \in [Things -> Int] /\ failed \in [Calls -> Nat] /\ creds \in Nat
      /\ TakenAccounted /\ \A c \in Calls : failed[c] \in Nat
    BY Counted DEF PInv, Types
<1>3. CASE Fails(pc) /\ Continue(AfterFailure(pc))
    <2>1. /\ taken' = taken /\ failed' = [failed EXCEPT ![pc] = @ + 1]
          /\ pc' = AfterFailure(pc)
        BY <1>3 DEF Fails, Continue, Return, Goto
    <2>2. failed' \in [Calls -> Nat]
        BY <1>1, <1>2, <2>1, CallLabels
    <2>3. TakenAccounted'
        BY <1>1, <1>2, <2>1, CallLabels DEF TakenAccounted, One, AfterFailure
    <2>4. Return \/ (pc' \in DOMAIN CredSteps /\ UNCHANGED <<op, pid, proc, tries, had>>)
        BY <1>3 DEF Continue, Goto, AfterFailure, CredSteps
    <2> QED
        BY <1>2, <2>1, <2>2, <2>3, <2>4
<1>4. CASE Succeeds(CredSteps[pc]) /\ Continue(CredSteps[pc].next)
    <2>1. /\ taken' = [t \in Things |-> taken[t] + One(t \in CredSteps[pc].takes)
                                                - One(t \in CredSteps[pc].gives)]
          /\ failed' = failed
        BY <1>4 DEF Succeeds
    <2>2. \A condition : One(condition) \in {0, 1}
        BY DEF One
    <2>3. taken' \in [Things -> Int]
        BY <1>2, <2>1, <2>2
    <2>4. pc' = CredSteps[pc].next
        BY <1>4 DEF Continue, Return, Goto
    <2>5. TakenAccounted'
        BY <1>1, <1>2, <2>1, <2>4, CallLabels DEF TakenAccounted, One, CredSteps, Step, Things
    <2>6. Return \/ (pc' \in DOMAIN CredSteps /\ UNCHANGED <<op, pid, proc, tries, had>>)
        <3>1. CredSteps[pc].next \in DOMAIN CredSteps \cup {"idle"}
            BY <1>1 DEF CredSteps, Step
        <3> QED
            BY <1>4, <3>1 DEF Continue, Goto
    <2> QED
        BY <1>2, <2>1, <2>3, <2>5, <2>6
<1> QED
    BY <1>3, <1>4 DEF CredUnref

LEMMA TasksPreserve ==
    ASSUME PInv, TaskToTaskPort \/ CredUnref
    PROVE  PInv'
<1>1. UNCHANGED <<kernel, counts, creds>> /\ pc \in Calls
    BY DEF TaskToTaskPort, CredUnref, Calls
<1>2. proc = NoProc /\ \A p \in Procs : refs[p] = owned[p] + lost[p]
    BY <1>1, CallLabels, NotHolding DEF Holding
<1>3. /\ taken' \in [Things -> Int] /\ failed' \in [Calls -> Nat] /\ TakenAccounted'
      /\ Return \/ (pc' \in Calls /\ UNCHANGED <<op, pid, proc, tries, had>>)
    BY TaskTakes, CredTakes DEF Calls
<1>4. CASE Return
    BY <1>1, <1>2, <1>3, <1>4, SettledInv DEF PInv, Types, kernel, counts
<1>5. CASE pc' \in Calls /\ UNCHANGED <<op, pid, proc, tries, had>>
    <2>1. pc' \in Labels /\ pc' \notin {"find"} \cup Holding
        BY <1>5, CallLabels DEF Labels, Holding
    <2> QED
        BY <1>1, <1>2, <1>3, <1>5, <2>1, GotoInv DEF PInv, Types, Holding
<1> QED
    BY <1>3, <1>4, <1>5

LEMMA CredRefPreserves ==
    ASSUME PInv, CredProcRef
    PROVE  PInv'
<1>1. /\ pc = "idle" /\ creds' = creds + 1 /\ taken' = [taken EXCEPT !["credential"] = @ + 1]
      /\ UNCHANGED <<failed, path, births, refs, owned, lost, op, pc, pid, proc, tries, had>>
    BY DEF CredProcRef, kernel, counts, locals
<1>2. TakenAccounted'
    <2>1. /\ taken \in [Things -> Int] /\ creds \in Nat /\ \A c \in Calls : failed[c] \in Nat
        BY Counted DEF PInv, Types
    <2> QED
        BY <1>1, <2>1, CallLabels DEF PInv, TakenAccounted, One, Things
<1>3. Types'
    <2>1. taken' \in [Things -> Int] /\ creds' \in Nat
        BY <1>1 DEF PInv, Types, Things
    <2> QED
        BY <1>1, <2>1 DEF PInv, Types
<1>4. Balanced' /\ Itself' /\ Place'
    BY <1>1 DEF PInv, Balanced, Referenced, Itself, ProcOf, Place
<1> QED
    BY <1>2, <1>3, <1>4 DEF PInv

LEMMA AbortPreserves ==
    ASSUME PInv, DropAborts
    PROVE  PInv'
<1>1. /\ UNCHANGED <<kernel, counts>> /\ UNCHANGED things
      /\ pc = "drop" /\ proc = NoProc /\ pc' = "aborted" /\ UNCHANGED <<op, pid, proc, tries>>
    BY DEF DropAborts, Goto
<1>2. TakenAccounted'
    BY <1>1, CallLabels, Elsewhere DEF PInv
<1> QED
    BY <1>1, <1>2, GotoInv DEF PInv, Types, Labels, Holding, things

LEMMA Invariance == Spec => []PInv
<1>1. PInv /\ UNCHANGED vars => PInv'
    BY DEF PInv, Types, Balanced, Referenced, Itself, ProcOf, Place, TakenAccounted, vars, kernel,
        counts, things, locals
<1>2. ASSUME PInv, Next PROVE PInv'
    <2>1. ASSUME NEW p \in Pids, Exit(p) PROVE PInv'
        <3>1. path[p] \in Paths
            BY <1>2, <2>1 DEF Exit, PInv, Types
        <3> QED
            BY <1>2, <2>1, <3>1, OthersPreserve
    <2>2. ASSUME NEW p \in Pids, NEW new \in Paths, Exec(p, new) \/ Start(p, new) PROVE PInv'
        BY <1>2, <2>2, OthersPreserve
    <2>3. CASE \/ \E p \in Pids, r \in BOOLEAN : CallProcFind(p, r)
               \/ \E wanted \in Paths, r \in BOOLEAN : CallProcFindPath(wanted, r)
               \/ \E p \in Procs : CallProcToTaskPort(p)
               \/ CallCredUnref
        BY <1>2, <2>3, CallsPreserve
    <2>4. CASE \E p \in Procs : ProcRele(p)
        BY <1>2, <2>4, RelePreserves
    <2>5. CASE ListPids \/ Find
        BY <1>2, <2>5, ListPreserves, FindPreserves
    <2>6. CASE FindReleases \/ Found \/ CheckFails \/ Drop
        BY <1>2, <2>6, FindReleasesPreserves, FoundPreserves, CheckFailsPreserves, DropPreserves
    <2>7. CASE TaskToTaskPort \/ CredUnref \/ CredProcRef \/ DropAborts
        BY <1>2, <2>7, TasksPreserve, CredRefPreserves, AbortPreserves
    <2> QED
        BY <1>2, <2>1, <2>2, <2>3, <2>4, <2>5, <2>6, <2>7 DEF Next
<1> QED
    BY InitInv, <1>1, <1>2, PTL DEF Spec

-----------------------------------------------------------------------------
(***************************************************************************)
(* Every reference to a proc struct is a client's in the end or one whose  *)
(* release failed: for any number of processes, tries and references, and  *)
(* whatever exits, starts or fails in between.                             *)
(***************************************************************************)
THEOREM ReferencesHaveOwners == Spec => []ReferencesOwned
<1>1. PInv => ReferencesOwned
    BY DEF PInv, Balanced, Referenced, Holding, One, ReferencesOwned
<1> QED
    BY Invariance, <1>1, PTL

(***************************************************************************)
(* What proc_to_task_port and kauth_cred_unref leave in the kernel, over   *)
(* any number of calls: for each failure of convert_task_to_port one       *)
(* reference to a task, for each of get_task_ipcspace and                  *)
(* ipc_port_copyout_send one send right, for each of kernel_deallocate one *)
(* word of memory, for each earlier one in kauth_cred_unref a reference to *)
(* credentials; and nothing else, in the middle of a call only what its    *)
(* next steps use up or give back.                                         *)
(***************************************************************************)
THEOREM TakenIsAccounted == Spec => []TakenAccounted
<1>1. PInv => TakenAccounted
    BY DEF PInv
<1> QED
    BY Invariance, <1>1, PTL

(* The property of a step that PathRight is about. *)
HandsOutRight ==
    \A p \in Procs : owned'[p] > owned[p] /\ op.name = "proc_find_path" => op.path \in had

LEMMA StepHandsOutRight ==
    ASSUME PInv, Next
    PROVE  HandsOutRight
<1>1. CASE UNCHANGED owned
    BY <1>1 DEF HandsOutRight, PInv, Types
<1>2. ASSUME NEW q \in Procs, ProcRele(q) PROVE HandsOutRight
    <2>1. owned \in [Procs -> Nat] /\ owned' = [owned EXCEPT ![q] = @ - 1]
        BY <1>2 DEF ProcRele, PInv, Types
    <2> QED
        BY <2>1 DEF HandsOutRight
<1>3. CASE Found
    <2> SUFFICES ASSUME NEW p \in Procs, owned'[p] > owned[p], op.name = "proc_find_path"
                 PROVE  op.path \in had
        BY DEF HandsOutRight
    <2>1. owned \in [Procs -> Nat] /\ op.path \in Paths
        BY DEF PInv, Types, Names
    <2>2. proc # NoProc /\ pc = "check"
        BY <1>3, <2>1 DEF Found
    <2>3. StillItself
        BY <1>3, <2>2 DEF Found, PInv, Place
    <2>4. path[pid] = op.path /\ path[pid] # Gone
        BY <2>1, <2>3, PathsAssumption DEF StillItself
    <2> QED
        BY <2>2, <2>4 DEF PInv, Itself
<1> QED
    BY <1>1, <1>2, <1>3 DEF Next, Exit, Exec, Start, CallProcFind, CallProcFindPath, ListPids,
        Find, FindReleases, CheckFails, Drop, DropAborts, CallProcToTaskPort, TaskToTaskPort,
        CredProcRef, CallCredUnref, CredUnref, counts

(***************************************************************************)
(* The proc that proc_find_path hands out has been a process with exactly  *)
(* the wanted path while it was referenced, for any paths that begin with  *)
(* one another and any reuse of process IDs.                               *)
(***************************************************************************)
THEOREM PathIsRight == Spec => PathRight
<1>1. PInv /\ [Next]_vars => [HandsOutRight]_vars
    BY StepHandsOutRight
<1> QED
    BY Invariance, <1>1, PTL DEF Spec, PathRight, HandsOutRight

-----------------------------------------------------------------------------
(***************************************************************************)
(* process_init provides a function only with those it calls, whatever     *)
(* symbols the kernel has; a kernel that was not slid gets none.           *)
(***************************************************************************)
THEOREM FunctionsAreUsable ==
    ASSUME NEW symbols \in SUBSET Symbols, NEW base \in BOOLEAN, NEW dump \in BOOLEAN,
           NEW slide
    PROVE  LET init == process_init(symbols, base, slide, dump)
           IN  /\ "proc_find_path" \in init.functions =>
                      {"proc_find", "proc_rele"} \subseteq init.functions
               /\ "proc_to_task_port" \in init.functions =>
                      {"task_to_task_port", "proc_task", "current_proc"} \subseteq init.functions
               /\ "proc_set_ucred" \in init.functions =>
                      {"current_proc", "proc_ucred"} \subseteq init.functions
               /\ init.offsets # {} => "current_proc" \in init.functions
               /\ slide = 0 => init.functions = {} /\ init.offsets = {}
<1> DEFINE init == process_init(symbols, base, slide, dump)
           resolved == IF base /\ slide # 0 THEN symbols ELSE {}
           currentproc == "current_proc" \in resolved
           currenttask == currentproc /\ "proc_task" \in resolved
           port_fn == When({"task_reference", "convert_task_to_port", "get_task_ipcspace",
                            "ipc_port_copyout_send"} \subseteq resolved, "task_to_task_port")
<1>1. init.offsets = initialize_proc_dump_offsets(resolved, currentproc, currenttask, dump)
    BY DEF process_init
<1>2. init.functions =
        resolved
        \cup When({"proc_find", "proc_rele"} \subseteq resolved, "proc_find_path")
        \cup port_fn
        \cup When("p_ucred" \in init.offsets, "proc_set_ucred")
        \cup When("proc_task" \in resolved /\ currenttask /\ port_fn # {}, "proc_to_task_port")
    BY DEF process_init
<1>3. resolved \subseteq Symbols
    OBVIOUS
<1>4. /\ "p_ucred" \in init.offsets => currentproc /\ "proc_ucred" \in resolved
      /\ init.offsets # {} => currentproc
    BY <1>1 DEF initialize_proc_dump_offsets
<1>5. "proc_find_path" \in init.functions => {"proc_find", "proc_rele"} \subseteq init.functions
    BY <1>2, <1>3 DEF When, Symbols
<1>6. "proc_to_task_port" \in init.functions =>
          {"task_to_task_port", "proc_task", "current_proc"} \subseteq init.functions
    BY <1>2, <1>3 DEF When, Symbols
<1>7. "proc_set_ucred" \in init.functions =>
          {"current_proc", "proc_ucred"} \subseteq init.functions
    BY <1>2, <1>3, <1>4 DEF When, Symbols
<1>8. slide = 0 => init.functions = {} /\ init.offsets = {}
    <2> SUFFICES ASSUME slide = 0 PROVE init.functions = {} /\ init.offsets = {}
        OBVIOUS
    <2>1. resolved = {} /\ init.offsets = {}
        BY <1>4
    <2> QED
        BY <1>2, <2>1 DEF When
<1>9. init.offsets # {} => "current_proc" \in init.functions
    BY <1>2, <1>4
<1> QED
    BY <1>5, <1>6, <1>7, <1>8, <1>9

=============================================================================
