-------------------------- MODULE MCMemoryCommands --------------------------
(***************************************************************************)
(* MemoryCommands on a memory of three pages.  For each function the pages *)
(* differ in what it looks at, and one kind of page fails unexpectedly.    *)
(***************************************************************************)
EXTENDS MemoryCommands

CONSTANT UserAccesses, Starts, Ends

Plain == [vm |-> "zone", mapped |-> TRUE, virtual |-> Ordinary, physical |-> Ordinary,
          cache |-> "plain", fails |-> FALSE]
Failing == [Plain EXCEPT !.fails = TRUE]
Vm(vm) == [Plain EXCEPT !.vm = vm]
Unmapped == [Plain EXCEPT !.mapped = FALSE]
Virtual(width) == [Plain EXCEPT !.virtual = width]
Physical(width) == [Plain EXCEPT !.physical = width]
Cache(cache) == [Plain EXCEPT !.cache = cache]

MCPageTypes(fn) ==
    {Plain, Failing} \cup
    CASE fn = "heap" -> {Vm("hole"), Vm("other"), Vm("kalloc")}
      [] fn = "safe" -> {Vm("hole"), Vm("error"), Vm("barred"), Unmapped}
      [] fn = "all" -> {Unmapped, Virtual(0), Virtual(1), Physical(0), Physical(1),
                        [Virtual(1) EXCEPT !.physical = 2]}
      [] fn = "physical_safe" -> {Cache("guarded"), Cache("unknown")}
      [] OTHER -> {}

MCAccesses == UserAccesses
MCSpans == Starts \X Ends \cup {<<a, a>> : a \in Ends}

=============================================================================
