----------------------------- MODULE KernelFinders -----------------------------
(***************************************************************************)
(* The symbol finders of arm64/finder, which look for what a stripped      *)
(* kernelcache does not name by simulating its code: the vtables of a kext *)
(* (vtables.c), pthread_callbacks, kauth_cred_setsvuidgid, kfree_addr and  *)
(* zone_element_size, and pmap_cache_attributes.                           *)
(*                                                                         *)
(* They share nothing but the symbol table: one of them is run.            *)
(***************************************************************************)
EXTENDS Ksim, FiniteSets

CONSTANTS
    X0, X1, X3,       \* the registers of the arguments
    FirstCode,        \* the first address of __TEXT_EXEC
    Functions,        \* where the symbol a finder starts from may be; 0 if there is none
    mod_init_func,    \* the initializers of a kext
    Vtables,          \* its vtables: those that look like one, with method 7
    Data, Text,       \* the addresses in __DATA; those of strings in __TEXT
    CStrings,         \* where the string that is referred to may be; 0 if there is none
    STORE_ADDR,       \* the fake argument of pthread_kext_register
    Callbacks,        \* pthread_callbacks as it is in the file: address to version and functions
    MaxInstructions,  \* bound: the limits of the code (8, 12, 18, 20, 32, 50, 256) are this
    MaxClasses        \* bound: the metaclasses collected

VARIABLES finder, symbols

finderVars == <<ksimVars, finder, symbols>>

Finders == {"vtables", "pthread_callbacks", "kauth", "zone_element_size", "pmap"}

FindersInit ==
    /\ KsimInit
    /\ \E name \in Finders, ios11 \in BOOLEAN :
          \E known \in IF name = "kauth" THEN CStrings ELSE Functions :
             finder = [name |-> name, ios11 |-> ios11, known |-> known, stage |-> "start",
                       index |-> 0, classes |-> <<>>]
    /\ symbols = {}

At(name, stage) == pc = "client" /\ finder.name = name /\ finder.stage = stage
Goto(stage) == finder' = [finder EXCEPT !.stage = stage]
Exec(until, address) == ksim_exec_until(until, address, <<"all_false">>, MaxInstructions)

(* A symbol that is there is not added again.                               *)
symbol_table_add_symbol(symbol, address) ==
    symbols' = IF \E s \in symbols : s[1] = symbol THEN symbols
               ELSE symbols \cup {<<symbol, address>>}

(* ksim_set_pc asserts that a segment of code holds the address.            *)
ksim_set_pc(address, until, step, stage) ==
    IF address \notin Code
    THEN Goto("aborted") /\ UNCHANGED ksimVars
    ELSE /\ StartAt(sim_set_pc(NoSim, address), address, "scan", Exec(until, step))
         /\ Goto(stage)

Forward == AARCH64_INSTRUCTION_SIZE
Backward == Modulus - AARCH64_INSTRUCTION_SIZE

-----------------------------------------------------------------------------
(* kext_find_vtables                                                        *)
collect_metaclasses ==
    /\ At("vtables", "start")
    /\ IF finder.index = Len(mod_init_func)
       THEN finder' = [finder EXCEPT !.stage = "search", !.index = 0] /\ UNCHANGED ksimVars
       ELSE LET address == mod_init_func[finder.index + 1]
            IN /\ StartAt(ksim_init_sim(address), address, "exec", Exec("call", 0))
               /\ finder' = [finder EXCEPT !.stage = "initializer", !.index = @ + 1]
    /\ UNCHANGED symbols

(* No call is left in this initializer.                                     *)
InitializerEnds ==
    /\ At("vtables", "initializer")
    /\ ~exec.found
    /\ Goto("start")
    /\ UNCHANGED <<ksimVars, symbols>>

(* A call: its arguments are those of OSMetaClass::OSMetaClass, perhaps.    *)
(* The arrays may fail to grow, and then the search is given up.            *)
LooksLikeMetaclass ==
    /\ ksim_reg(sim, X0) \in Data
    /\ ksim_reg(sim, X1) \in Text
    /\ ksim_reg(sim, X3) \in 1 .. 2 ^ WBITS - 2

add_metaclass ==
    /\ Len(finder.classes) < MaxClasses
    /\ finder' = [finder EXCEPT !.classes = Append(@, <<ksim_reg(sim, X0), ksim_reg(sim, X1)>>)]
    /\ Continue(Exec("call", 0))

collect_metaclass_from_call ==
    /\ At("vtables", "initializer")
    /\ exec.found
    /\ IF ~LooksLikeMetaclass THEN Continue(Exec("call", 0)) /\ UNCHANGED finder
       ELSE add_metaclass \/ (Goto("done") /\ UNCHANGED ksimVars)
    /\ UNCHANGED symbols

search_for_vtables ==
    /\ At("vtables", "search")
    /\ IF finder.index = Len(Vtables) THEN Goto("done") /\ UNCHANGED ksimVars
       ELSE LET method == Vtables[finder.index + 1].getMetaClass
            IN /\ finder' = [finder EXCEPT !.stage = "getMetaClass", !.index = @ + 1]
               /\ IF {method, method + AARCH64_INSTRUCTION_SIZE} \subseteq Code
                  THEN StartAt(ksim_init_sim(method), method, "exec", Exec("return", 0))
                  ELSE exec' = NoExec /\ UNCHANGED <<code, structKsim, pc, machine>>
    /\ UNCHANGED symbols

(* The first class collected with that metaclass. *)
ClassesOf(metaclass) == SelectSeq(finder.classes, LAMBDA c : c[1] = metaclass)

(* Both symbols, unless a symbol is known at the address of the vtable or   *)
(* the first is refused.                                                    *)
add_symbols(class_name, metaclass, vtable) ==
    symbols' = IF \E s \in symbols : s[2] = vtable \/ s[1] = <<"vtable", class_name>>
               THEN symbols
               ELSE symbols \cup {<<<<"vtable", class_name>>, vtable>>}
                            \cup (IF \E s \in symbols : s[1] = <<"metaclass", class_name>> THEN {}
                                  ELSE {<<<<"metaclass", class_name>>, metaclass>>})

simulate_getMetaClass ==
    /\ At("vtables", "getMetaClass")
    /\ Goto("search")
    /\ LET metaclass == IF exec.found THEN ksim_reg(sim, X0) ELSE 0
           named == ClassesOf(metaclass)
       IN IF metaclass = 0 \/ named = <<>> THEN UNCHANGED symbols
          ELSE add_symbols(Head(named)[2], metaclass, Vtables[finder.index].vtable)
    /\ UNCHANGED ksimVars

-----------------------------------------------------------------------------
(* kernel_find_pthread_callbacks: the second argument is where the function *)
(* stores the address that is wanted.                                       *)
pthread_kext_register ==
    /\ At("pthread_callbacks", "start")
    /\ IF finder.known = 0 THEN Goto("done") /\ UNCHANGED ksimVars
       ELSE /\ sim' = ksim_setreg(ksim_init_sim(finder.known), X1, STORE_ADDR)
            /\ machine' = [JunkMachine(finder.known) EXCEPT !.X[X1] = STORE_ADDR]
            /\ exec' = Exec("store", STORE_ADDR)
            /\ clear_temporaries' = FALSE /\ did_stop' = FALSE /\ pc' = "exec"
            /\ Goto("stored") /\ UNCHANGED code
    /\ UNCHANGED symbols

extract_symbols(address) ==
    IF address \notin DOMAIN Callbacks \/ Callbacks[address].version # 1 THEN {}
    ELSE Callbacks[address].functions

kernel_find_pthread_callbacks ==
    /\ At("pthread_callbacks", "stored")
    /\ Goto("done")
    /\ symbols' = IF exec.value = 0 THEN symbols
                  ELSE {<<"_pthread_callbacks", exec.value>>} \cup extract_symbols(exec.value)
    /\ UNCHANGED ksimVars

-----------------------------------------------------------------------------
(* kernel_find_kauth_cred_setsvuidgid: from the reference to its name back  *)
(* to the first instruction of the function.                                *)
ksim_string_reference ==
    /\ At("kauth", "start")
    /\ IF finder.known = 0 THEN Goto("done") /\ UNCHANGED ksimVars
       ELSE /\ StartAt(sim_set_pc(NoSim, FirstCode), FirstCode, "reference",
                       [Exec("reference", finder.known) EXCEPT !.instructions_left = 1])
            /\ Goto("referred")
    /\ UNCHANGED symbols

ScanForStart ==
    /\ At("kauth", "referred")
    /\ IF exec.value = 0 THEN Goto("done") /\ UNCHANGED ksimVars
       ELSE ksim_set_pc(exec.value, IF finder.ios11 THEN "sub_sp" ELSE "stp_sp", Backward, "last")
    /\ UNCHANGED symbols

-----------------------------------------------------------------------------
(* kernel_find_zone_element_size and kernel_find_pmap_cache_attributes: the *)
(* target of a jump, the target of a call.  The first instruction of the    *)
(* function is not looked at.                                               *)
ScanForTarget ==
    /\ At("zone_element_size", "start") \/ At("pmap", "start")
    /\ IF finder.known = 0 THEN Goto("done") /\ UNCHANGED ksimVars
       ELSE IF finder.name = "pmap" THEN ksim_set_pc(finder.known, "bl", Forward, "last")
       ELSE ksim_set_pc(finder.known, "jump", Forward, "jump")
    /\ UNCHANGED symbols

KfreeAddr ==
    /\ At("zone_element_size", "jump")
    /\ IF exec.value = 0 THEN Goto("done") /\ UNCHANGED <<ksimVars, symbols>>
       ELSE /\ symbol_table_add_symbol("_kfree_addr", exec.value)
            /\ IF finder.ios11 THEN Goto("done") /\ UNCHANGED ksimVars
               ELSE ksim_set_pc(exec.value, "bl", Forward, "last")

LastSymbol ==
    /\ finder.stage = "last"
    /\ pc = "client"
    /\ Goto("done")
    /\ IF exec.value = 0 THEN UNCHANGED symbols
       ELSE symbol_table_add_symbol(finder.name, exec.value)
    /\ UNCHANGED ksimVars

FindersNext ==
    \/ KsimNext /\ UNCHANGED <<finder, symbols>>
    \/ collect_metaclasses
    \/ InitializerEnds
    \/ collect_metaclass_from_call
    \/ search_for_vtables
    \/ simulate_getMetaClass
    \/ pthread_kext_register
    \/ kernel_find_pthread_callbacks
    \/ ksim_string_reference
    \/ ScanForStart
    \/ ScanForTarget
    \/ KfreeAddr
    \/ LastSymbol

FindersSpec == FindersInit /\ [][FindersNext]_finderVars
===============================================================================
