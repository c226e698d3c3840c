----------------------------- MODULE MCProcesses -----------------------------
(* Two processes, and a path that is the beginning of another. *)
EXTENDS Processes, Sequences, TLC

MCPids == {1, 2}
MCPaths == {1, 2}
MCBeginnings == <<{1}, {1, 2}>>

-----------------------------------------------------------------------------
(* Every function that process_init provides has what it calls. *)
ASSUME FunctionsUsable ==
    \A symbols \in SUBSET Symbols, base, dump \in BOOLEAN, slide \in 0 .. 1 :
       LET init == process_init(symbols, base, slide, dump)
       IN /\ "proc_find_path" \in init.functions =>
                {"proc_find", "proc_rele"} \subseteq init.functions
          /\ "proc_to_task_port" \in init.functions =>
                {"task_to_task_port", "proc_task", "current_proc"} \subseteq init.functions
          /\ init.offsets # {} => "current_proc" \in init.functions
          /\ slide = 0 => init.functions = {}

-----------------------------------------------------------------------------
CC == INSTANCE Classes

(* Names of up to two characters, N and E among them. *)
ClassNames == {<<c>> : c \in {10, 11, 12}} \cup {<<12, c>> : c \in {1, 10, 11}}
Nested == {<<n>> : n \in ClassNames} \cup (ClassNames \X ClassNames)
          \cup ({<<12>>} \X ClassNames \X {<<11>>})

(* What is written is read as it was. *)
ASSUME Demangled ==
    \A names \in Nested :
       /\ CC!demangle_class_vtable(CC!mangle_class_vtable(names)) = names
       /\ CC!demangle_class_vtable(CC!mangle_class_name(names)) = <<>>

(* The length of a name is read as it is written, in at most three digits,  *)
(* or refused -- or wrapped to a value that is not less than what was read  *)
(* before the last digit, which the test for overflow misses.               *)
ASSUME LengthMissed ==
    \A d \in [1 .. 3 -> 0 .. 9] :
       LET exact == 100 * d[1] + 10 * d[2] + d[3]
           len == CC!LengthOf(d)
       IN /\ exact < CC!UnsignedWidth => len = exact
          /\ exact >= CC!UnsignedWidth /\ len # -1 => len < CC!UnsignedWidth
ASSUME SomeLengthMissed == CC!LengthOf(<<1, 0, 0>>) = 36

(* A class is found by its vtable, and its vtable by the class; only the    *)
(* vtable of a nested class aborts the lookup.                              *)
VtableOf(names) == CC!mangle_class_vtable(names)
ASSUME ClassesFound ==
    \A names \in Nested :
       LET symbols == VtableOf(names) :> [address |-> 10, size |-> 6]
           looked == CC!class_vtable_lookup(symbols, 12)
       IN IF Len(names) = 1
          THEN /\ looked = [kr |-> "SUCCESS", class |-> names[1]]
               /\ CC!class_vtable(symbols, names[1]) =
                     [kr |-> "SUCCESS", address |-> 12, size |-> 4]
          ELSE looked.kr = "ABORTS"

=============================================================================
