------------------------------- MODULE Commands --------------------------------
(***************************************************************************)
(* The commands: the handlers of memctl/cli.c, the functions of            *)
(* memctl/memctl.c they call, and below these the choice of a function     *)
(* that reads or writes in memory.c and the region queries of vmmap.c.     *)
(* A command is written as the sequence of its steps, among them every     *)
(* call of the library that needs a feature or can fail, and for each step *)
(* the one the code continues with when it fails.                          *)
(*                                                                         *)
(* What the calls compute is left out; how memory is read is the subject   *)
(* of MemoryCommands.                                                      *)
(***************************************************************************)
EXTENDS CommandLine, Features, FiniteSets

VARIABLES
    program,    \* the steps of the command
    step,       \* the next one; 0 to return
    loaded,     \* loaded_features
    present_fn, \* the library functions found to be there, not NULL
    held,       \* references, memory and descriptors the command has to give back
    checked,    \* check_address has accepted the address
    touched     \* history: the memory functions called, and whether the address was checked

handler == <<program, step, loaded, present_fn, held, checked, touched>>
allVars == <<vars, handler>>

-----------------------------------------------------------------------------
(* Steps.  One that fails leads to the step number fail, or to the return.  *)
Do(kind, what) == [do |-> kind, what |-> what, fail |-> 0]
Else(s, i) == [s EXCEPT !.fail = i]
Load(features) == Do("load", features)
Call(fn) == Do("call", fn)
CallIfThere(fn) == <<Do("there", fn), Call(fn)>>
Take_(what) == Do("acquire", what)
Give(what) == Do("release", what)
Refuse == Do("refuse", "usage")          \* an error whatever happens
MayRefuse == Do("may_refuse", "usage")   \* a check of what was entered
When(condition, steps) == IF condition THEN steps ELSE <<>>

(* What each function needs to have been loaded. *)
FeatureOf == [
    kernel_read_unsafe |-> KERNEL_MEMORY_BASIC, kernel_write_unsafe |-> KERNEL_MEMORY_BASIC,
    kernel_read_safe |-> KERNEL_MEMORY, kernel_write_safe |-> KERNEL_MEMORY,
    physical_read_unsafe |-> KERNEL_MEMORY, physical_write_unsafe |-> KERNEL_MEMORY,
    physical_read_safe |-> KERNEL_MEMORY, physical_write_safe |-> KERNEL_MEMORY,
    kernel_virtual_to_physical |-> KERNEL_MEMORY, zone_element_size |-> KERNEL_MEMORY,
    pmap_cache_attributes |-> KERNEL_MEMORY, kernel_call |-> KERNEL_CALL,
    proc_find |-> PROCESS, class_size |-> CLASS,
    kernel_allocate |-> KERNEL_TASK, kernel_deallocate |-> KERNEL_TASK,
    mach_vm_region |-> KERNEL_TASK, mach_vm_protect |-> KERNEL_TASK,
    resolve_symbol |-> KERNEL_SYMBOLS, class_vtable |-> KERNEL_SYMBOLS,
    class_metaclass |-> KERNEL_SYMBOLS, kext_resolve_address |-> KERNEL_SYMBOLS]

(* The pointers that can be NULL although the feature is loaded; of those   *)
(* that initialize looks at itself it has made sure.                        *)
MayBeNull == {"kernel_read_safe", "kernel_write_safe", "physical_read_safe",
              "physical_write_safe", "kernel_write_unsafe", "zone_element_size",
              "pmap_cache_attributes", "proc_find", "class_size"}

Unsafe == {"kernel_read_unsafe", "kernel_write_unsafe", "physical_read_unsafe",
           "physical_write_unsafe"}
Physical == {"physical_read_unsafe", "physical_write_unsafe", "physical_read_safe",
             "physical_write_safe"}
Writes == {"kernel_write_unsafe", "kernel_write_safe", "physical_write_unsafe",
           "physical_write_safe"}
MemoryFunctions == Unsafe \cup Physical \cup {"kernel_read_safe", "kernel_write_safe"}

(* What the user typed. *)
Typed(letter) == \E i \in DOMAIN arguments :
                     arguments[i].option = <<letter>> /\ arguments[i].present
Given(name) == \E i \in DOMAIN arguments :
                   arguments[i].argument = name /\ arguments[i].present

-----------------------------------------------------------------------------
(* read_kernel and write_kernel: which function make_memflags and select_fn *)
(* choose.                                                                  *)
ReadKernel(force, physical) ==
    CASE physical -> <<Load(KERNEL_MEMORY)>> \o CallIfThere(
                         IF force THEN "physical_read_unsafe" ELSE "physical_read_safe")
      [] ~physical /\ force -> <<Load(KERNEL_MEMORY_BASIC)>> \o CallIfThere("kernel_read_unsafe")
      [] ~physical /\ ~force -> <<Load(KERNEL_MEMORY)>> \o CallIfThere("kernel_read_safe")

WriteKernel(force, physical) ==
    CASE physical -> <<Load(KERNEL_MEMORY)>> \o CallIfThere(
                         IF force THEN "physical_write_unsafe" ELSE "physical_write_safe")
      [] ~physical /\ force -> <<Load(KERNEL_MEMORY_BASIC)>> \o CallIfThere("kernel_write_unsafe")
      [] ~physical /\ ~force -> <<Load(KERNEL_MEMORY)>> \o CallIfThere("kernel_write_safe")

(* A faulty order, which reads before it checks. *)
CheckedAfterwards(access) == access \o When(~Typed("f"), <<Do("check", "address")>>)

(* r, rb, ri, rs, w, wd, ws: check_address unless -f is given. *)
Checked(access) == When(~Typed("f"), <<Do("check", "address")>>) \o access

Reading == Checked(ReadKernel(Typed("f"), Typed("p")))
Writing == Checked(WriteKernel(Typed("f"), Typed("p")))
ResolveEarly == <<Load(KERNEL_IMAGE), Call("resolve_symbol")>>  \* faulty: without the slide
ResolveSymbol == <<Load(KERNEL_SYMBOLS), Call("resolve_symbol")>>

(* memctl_vmregion, memctl_vmmap and memctl_vmprotect *)
VmRegion == <<Load(KERNEL_TASK), Call("mach_vm_region")>>
VmMap == <<Load(KERNEL_TASK), Do("loop", "mach_vm_region")>>
VmProtect == <<Load(KERNEL_TASK), Call("mach_vm_protect")>>

(* default_virtual_range: one query finds the start of the range, the next  *)
(* ones its end.                                                            *)
DefaultRange == VmRegion \o <<Do("loop", "mach_vm_region")>>
(* memctl_find, which goes on when a read fails *)
Find(physical) == <<Load(KERNEL_MEMORY)>> \o
                  CallIfThere(IF physical THEN "physical_read_safe" ELSE "kernel_read_safe")
(* validate_options_b_k *)
BundleOptions == When(Typed("b") /\ Typed("k"), <<Refuse>>)
FindVtable == <<Load(KERNEL_SYMBOLS), Call("class_vtable")>>
FindMetaclass == <<Load(KERNEL_SYMBOLS), Call("class_metaclass")>>

MemoryProgram(h) ==
    CASE h \in {"r", "rb", "ri", "rs"} -> Reading
      [] h \in {"w", "wd", "ws"} -> Writing
      [] h = "rif" -> ResolveSymbol \o ReadKernel(Typed("f"), FALSE)
      [] h = "f" ->
            When(Typed("p") /\ Typed("h"), <<Refuse>>) \o
            When(~Typed("p") /\ ~Typed("h"), DefaultRange) \o Find(Typed("p"))

(* class_vtable_lookup, six steps, and lookup_vtable, which calls it; n    *)
(* steps come before.                                                      *)
ClassVtableLookup(n) ==
    <<Take_("kext"), Else(Call("kext_resolve_address"), n + 5), Else(MayRefuse, n + 5),
      Else(Take_("class_name"), n + 5), Give("kext"), Do("return_if_failed", "success")>>

LookupVtable(n, allow_internal) ==
    <<Load(KERNEL_SYMBOLS)>> \o ClassVtableLookup(n + 1) \o
    When(~allow_internal, <<Else(MayRefuse, n + 9)>>) \o <<Give("class_name")>>

ClassProgram(h) ==
    CASE h = "fc" -> BundleOptions \o FindVtable \o Find(FALSE)
      [] h = "cm" -> BundleOptions \o FindMetaclass
      [] h = "cz" -> BundleOptions \o FindMetaclass \o <<Load(CLASS)>> \o CallIfThere("class_size")
      [] h = "vt" -> BundleOptions \o FindVtable
      [] h = "vtl" -> LookupVtable(0, TRUE)
      [] h = "lc" -> ReadKernel(FALSE, FALSE) \o LookupVtable(3, FALSE)

(* fpr, and the calls of functions, which take at most 32 arguments *)
CallProgram(h) ==
    CASE h = "fpr" -> <<MayRefuse, Load(PROCESS)>> \o CallIfThere("proc_find")
      [] h = "kc" -> <<MayRefuse, Load(KERNEL_CALL), Call("kernel_call")>>
      [] h = "kcv" -> <<MayRefuse>> \o ReadKernel(FALSE, FALSE) \o ReadKernel(FALSE, FALSE) \o
                      <<Load(KERNEL_CALL), Call("kernel_call")>>

KernelProgram(h) ==
    CASE h = "kp" -> <<Load(KERNEL_MEMORY), Call("kernel_virtual_to_physical")>>
      [] h = "kpm" -> DefaultRange \o <<Load(KERNEL_MEMORY),
                                        Do("loop", "kernel_virtual_to_physical")>>
      [] h = "zs" -> <<Load(KERNEL_MEMORY)>> \o CallIfThere("zone_element_size")
      [] h = "pca" -> <<Load(KERNEL_MEMORY), Do("there", "pmap_cache_attributes")>> \o
                      When(Typed("v"), <<Call("kernel_virtual_to_physical")>>) \o
                      <<Call("pmap_cache_attributes")>>

(* parse_protection: the letters of rwx that are set, in this order; a dash *)
(* stands for one that is not, and letters may be left out.                 *)
parse_protection(s) ==
    LET template == <<"r", "w", "x">>
        parse[i \in 1 .. 4, p \in 1 .. Len(s) + 1] ==   \* from template[i] and s[p]
            IF p > Len(s) THEN IF s = <<>> THEN {"invalid"} ELSE {}
            ELSE IF i = 4 THEN {"invalid"}
            ELSE parse[i + 1, IF s[p] \in {"-", template[i]} THEN p + 1 ELSE p]
                     \cup (IF s[p] = template[i] THEN {s[p]} ELSE {})
    IN parse[1, 1]

VirtualMemoryProgram(h) ==
    CASE h \in {"vm", "vmm"} -> VmMap
      [] h = "vma" -> <<Load(KERNEL_TASK), Call("kernel_allocate")>>
      [] h = "vmd" -> When(~Given("size"), VmRegion) \o
                      <<Load(KERNEL_TASK), Call("kernel_deallocate")>>
      [] h = "vmp" -> When("invalid" \in parse_protection(arguments[1].text), <<Refuse>>) \o
                      <<Do("check", "address")>> \o VmProtect

(* A faulty kcd, which returns as soon as the kernelcache cannot be read. *)
DecompressReturning ==
    LET out == IF Given("output") THEN 1 ELSE 0
    IN When(out = 1, <<Take_("output")>>) \o
       <<Take_("kernelcache"), Else(Do("loop", "write"), out + 3), Give("kernelcache")>> \o
       When(out = 1, <<Give("output")>>)

(* kcd *)
Decompress ==
    LET out == IF Given("output") THEN 1 ELSE 0
    IN When(out = 1, <<Take_("output")>>) \o
       <<Else(Take_("kernelcache"), out + 4), Else(Do("loop", "write"), out + 3),
         Give("kernelcache")>> \o
       When(out = 1, <<Give("output")>>)

SymbolProgram(h) ==
    CASE h = "ks" -> <<Load(KERNEL_SLIDE)>>
      [] h = "a" -> ResolveSymbol
      [] h = "ap" -> <<Load(KERNEL_SYMBOLS \cup KERNEL_MEMORY_BASIC), Call("resolve_symbol"),
                       Call("kernel_read_unsafe")>>
      [] h = "s" -> <<Load(KERNEL_SYMBOLS), Take_("kext"), Else(Call("kext_resolve_address"), 4),
                      Give("kext")>>
      [] h = "kcd" -> Decompress

(* root, which does not come back *)
RootProgram == <<Load(PRIVESC), Call("setuid_root"), Do("leave", "execve")>>

Program(h) ==
    CASE h \in DOMAIN MemoryHandlers \ {"i"} -> MemoryProgram(h)
      [] h \in {"fc", "cm", "cz", "vt", "vtl", "lc"} -> ClassProgram(h)
      [] h \in {"fpr", "kc", "kcv"} -> CallProgram(h)
      [] h \in {"kp", "kpm", "zs", "pca"} -> KernelProgram(h)
      [] h \in {"vm", "vmm", "vma", "vmd", "vmp"} -> VirtualMemoryProgram(h)
      [] h \in {"ks", "a", "ap", "s", "kcd"} -> SymbolProgram(h)
      [] h = "i" -> <<>>
      [] h = "quit" -> <<Refuse>>       \* not in the REPL
      [] h = "root" -> RootProgram

-----------------------------------------------------------------------------
InitCommands ==
    /\ Init
    /\ program = <<>> /\ step = 0
    /\ loaded = {} /\ present_fn = {} /\ held = {} /\ checked = FALSE /\ touched = {}

(* run_command *)
EnterHandler ==
    /\ pc = "handler"
    /\ program' = Program(commands[cmd].handler)
    /\ step' = 1
    /\ pc' = "run" /\ success' = TRUE
    /\ UNCHANGED <<line, cmd, at, first, bad_option, arguments, heap,
                   loaded, present_fn, held, checked, touched>>

Doing(kind) == pc = "run" /\ step \in DOMAIN program /\ program[step].do = kind
What == program[step].what
Succeed == step' = step + 1 /\ UNCHANGED success
Fail ==
    /\ success' = FALSE
    /\ step' = IF program[step].fail = 0 THEN Len(program) + 1 ELSE program[step].fail
Elsewhere == UNCHANGED <<line, pc, cmd, at, first, bad_option, arguments, heap, program>>

(* initialize, which may have loaded some features before one fails *)
LoadFeatures ==
    /\ Doing("load")
    /\ \/ Succeed /\ loaded' = loaded \cup What
       \/ /\ ~(What \subseteq loaded)
          /\ Fail
          /\ \E n \in 0 .. 7 :
                loaded' = loaded \cup
                          UNION {Feature[i] : i \in {j \in 1 .. n : Feature[j] \subseteq What}}
          /\ loaded' # loaded \cup What
    /\ UNCHANGED <<present_fn, held, checked, touched>> /\ Elsewhere

LookAtPointer ==
    /\ Doing("there")
    /\ \/ Succeed /\ present_fn' = present_fn \cup {What}
       \/ What \in MayBeNull /\ Fail /\ UNCHANGED present_fn
    /\ UNCHANGED <<loaded, held, checked, touched>> /\ Elsewhere

CheckAddress ==
    /\ Doing("check")
    /\ \/ Succeed /\ checked' = TRUE
       \/ Fail /\ UNCHANGED checked
    /\ UNCHANGED <<loaded, present_fn, held, touched>> /\ Elsewhere

CallFunction ==
    /\ Doing("call")
    /\ touched' = IF What \in MemoryFunctions THEN touched \cup {[fn |-> What, checked |-> checked]}
                  ELSE touched
    /\ Succeed \/ Fail
    /\ UNCHANGED <<loaded, present_fn, held, checked>> /\ Elsewhere

(* Again, until the end is reached, a call fails or SIGINT has set interrupted. *)
CallInLoop ==
    /\ Doing("loop")
    /\ Succeed \/ Fail \/ UNCHANGED <<step, success>>
    /\ UNCHANGED <<loaded, present_fn, held, checked, touched>> /\ Elsewhere

Acquire ==
    /\ Doing("acquire")
    /\ \/ Succeed /\ held' = held \cup {What}
       \/ Fail /\ UNCHANGED held
    /\ UNCHANGED <<loaded, present_fn, checked, touched>> /\ Elsewhere

Release ==
    /\ Doing("release")
    /\ held' = held \ {What}
    /\ step' = step + 1
    /\ UNCHANGED <<success, loaded, present_fn, checked, touched>> /\ Elsewhere

CheckInput ==
    /\ Doing("refuse") \/ Doing("may_refuse")
    /\ Fail \/ (Doing("may_refuse") /\ Succeed)
    /\ UNCHANGED <<loaded, present_fn, held, checked, touched>> /\ Elsewhere

ReturnIfFailed ==
    /\ Doing("return_if_failed")
    /\ step' = IF success THEN step + 1 ELSE Len(program) + 1
    /\ UNCHANGED <<success, loaded, present_fn, held, checked, touched>> /\ Elsewhere

HandlerReturns ==
    /\ pc = "run" /\ step > Len(program)
    /\ pc' = "cleanup"
    /\ UNCHANGED <<line, cmd, at, first, bad_option, arguments, heap, success>>
    /\ UNCHANGED handler

(* root: deinitialize, then execve or exit *)
HandlerLeaves ==
    /\ Doing("leave")
    /\ pc' = "left" /\ loaded' = {}
    /\ UNCHANGED <<line, cmd, at, first, bad_option, arguments, heap, success>>
    /\ UNCHANGED <<program, step, present_fn, held, checked, touched>>

Parse_ == ParserNext /\ UNCHANGED handler

HandlerNext ==
    \/ EnterHandler \/ LoadFeatures \/ LookAtPointer \/ CheckAddress \/ CallFunction
    \/ CallInLoop \/ Acquire \/ Release \/ CheckInput \/ ReturnIfFailed \/ HandlerReturns
    \/ HandlerLeaves

(* The process ends. *)
Ended == pc \in {"done", "aborted", "left"} /\ UNCHANGED allVars

Next == Parse_ \/ HandlerNext \/ Ended

Spec == InitCommands /\ [][Next]_allVars

-----------------------------------------------------------------------------
(* The handler finds in the vector what it asserts to be there: the table   *)
(* and the handler number the arguments alike, and whatever was typed the   *)
(* parser leaves the type the handler reads.                                *)
HandlerReady ==
    pc = "handler" =>
        LET uses == Uses(commands[cmd].handler) IN
        /\ DOMAIN uses \subseteq DOMAIN arguments
        /\ \A i \in DOMAIN uses : Asserts(uses[i], arguments[i])

Count(c, s) == Cardinality({i \in DOMAIN s : s[i] = c})

(* Nothing that was typed is dropped: when the handler runs, each character *)
(* of the line, but for dashes, is in the name of the command, in that of   *)
(* an option that is present or in the text of one argument.                *)
NothingIgnored ==
    pc = "handler" =>
        LET typed == FlattenSeq(line)
            names == {i \in DOMAIN arguments : arguments[i].present /\ SpecIsOption(arguments[i])}
        IN \A c \in ToSet(typed) \ {"-"} :
              Count(c, typed) = Count(c, commands[cmd].command)
                  + FoldFunctionOnSet(+, 0, [i \in names |-> Count(c, arguments[i].option)], names)
                  + FoldFunction(+, 0, [i \in DOMAIN arguments |-> Count(c, arguments[i].text)])

(* However a command ends, it has given back the references, memory and     *)
(* descriptors it held, and the parser the memory of the arguments (all but *)
(* the words before one that is no word, which belong to no argument yet).  *)
NothingHeld ==
    pc \in {"done", "left"} =>
        /\ held = {}
        /\ heap \subseteq {0}
        /\ heap # {} => commands[cmd].handler \in {"kc", "kcv"}

(* Unsafe access is made only when -f was typed and physical memory is only *)
(* touched when -p was; without -f an address the user gave is checked      *)
(* before memory is written and before anything reads what it names.        *)
OnlyAsAsked ==
    \A t \in touched :
        /\ t.fn \in Unsafe => Typed("f") \/ commands[cmd].handler = "ap"
        /\ t.fn \in Physical => Typed("p")
        /\ t.fn \in Writes /\ ~Typed("f") => t.checked
        /\ commands[cmd].handler \in {"r", "rb", "ri", "rs"} /\ ~Typed("f") => t.checked

(* A function of the library is called when the feature it belongs to has   *)
(* been loaded and, if its pointer may be NULL nonetheless, after a look at *)
(* the pointer.                                                             *)
CallsReady ==
    Doing("call") \/ Doing("loop") =>
        /\ What \in DOMAIN FeatureOf => FeatureOf[What] \subseteq loaded
        /\ What \in MayBeNull => What \in present_fn

(* What the parser has left: words, characters of the current one, and      *)
(* options or arguments to try there.                                       *)
WordsLeft == Len(at.argv)
CharactersLeft == Len(at.arg)
SpecsLeft == Len(Specs) + 1 - first

(* The parser ends: each turn of its two loops goes on to a later word or,  *)
(* in the same word, takes characters from it or, taking nothing, sets an   *)
(* option or an argument aside for good.                                    *)
ParserProgresses ==
    [][pc' = pc /\ pc \in {"options", "arguments"} =>
          \/ WordsLeft' < WordsLeft
          \/ WordsLeft' = WordsLeft /\ CharactersLeft' < CharactersLeft
          \/ /\ WordsLeft' = WordsLeft /\ CharactersLeft' = CharactersLeft
             /\ SpecsLeft' < SpecsLeft]_allVars

===============================================================================
