# memctl in TLA+

memctl is a kernel introspection tool for macOS and iOS: a library, libmemctl,
that reads and writes kernel memory and calls kernel functions, and a command
line around it. It changes a running kernel and must put everything back, and it
does so in plain C with static state, many steps that can fail, and signal
handlers that clean up in the middle of anything. This project models that
program step by step, checks it with TLC and proves the core of it with TLAPS.

Paths below are relative to the repository (`src/libmemctl`, `src/memctl`,
`include/memctl`).

## The system

| component | state | operations | what is hard |
|---|---|---|---|
| kernel function calls, `kernel_call.c` | the `hook` struct; in the kernel a patched user client, a copy of its vtable, a trap | `kernel_call_init`, `kernel_call_deinit`, `kernel_call` | nine steps that can fail, an order that must never leave the kernel a bad pointer, interruption by signals |
| new client's ID, `kernel_call.c` | two listings of registry entries | `open_service_with_known_connection_id` | other processes open and close clients meanwhile |
| x86_64 system call hook, `x86_64/kernel_call_syscall_x86_64.c` | `syscall_hook`; in the kernel a table entry and the text of a function | install, remove | two writes in a fixed order, removal goes through the mechanism below it |
| arm64 payload, `arm64/kernel_call_arm64.c` | `jop_payload` | init, deinit | its block of kernel memory |
| features and signals, `initialize.c` | `loaded_features`, `interrupted` | `initialize`, `deinitialize`, `signal_handler` | partial loads, masks that imply others, handlers at any step |
| loop, `memctl.c` | `in_repl` | commands, `quit`, `root` | ^C, ends of the process |
| error stack, `error.c` | a thread-local growing stack | push, pop, clear, stop, start, free | allocation failures, ownership of error data |
| kexts, `kernel.c`, `oskext.c` | sorted array of reference-counted structs, symbol finders | `kernel_init`, `kernel_kext`, `kext_release`, walks, `kernel_deinit` | kexts are reloaded while cached or held |
| kernelcache, `kernelcache.c` | data and prelink information | initialization, lookup by ID and address | ways out with some of it allocated |
| Mach-O files, `macho.c` | none | validation, segments, sections, symbols | limits and layouts |
| symbol table, `symbol_table.c`, `algorithm.c` | arrays with sorted permutations | init, resolve by name and address, insert | duplicates, ends of segments, failing allocations |
| kernel slide, `kernel_slide.c` | `kernel_slide` | `kernel_slide_init` | unsafe probes, a global set before it is validated |
| kernel and task memory, `kernel_memory.c`, `task_memory.c` | function pointers | transfers in chunks | unmapped and dangerous pages, short transfers |
| memory commands, `read.c`, `find.c`, `memory.c` | page buffers | r, rd, rb, ri, rs, f | values across pages, holes, SIGINT |
| command line, `command.c`, `cli.c`, `strparse.c` | parser state with save points | parse, handlers | unnamed and attached options, numbers at their limits |
| commands, `memctl.c`, `vmmap.c` | references and memory while a command runs | one for each command | order of loading, checking, calling and giving back |
| processes, `process.c` | addresses of kernel functions; references in the kernel | find, release, task ports | references held in the kernel, processes that exit |
| classes, `class.c`, `mangle.c` | none | vtables by name, names by vtable | lengths in names |
| arm64 simulator, `arm64/sim.c`, `arm64/ksim.c` | registers with taints | step, run until | what may be believed after calls and unknown instructions |
| arm64 decoders, `arm64/disasm.c` | none | one for each form | which registers, which widths |
| arm64 finders, `arm64/finder/*` | the symbol table | five finders | loops over code of unknown shape |
| JOP strategies, disassembly listing, privileges, output, platform | - | - | tables, layouts, text |

How they interact: `main` runs a command or a loop of them (`memctl.c`). The
command line parser leaves a vector of arguments to a handler (`cli.c`), which
calls a command (`memctl.c`). The command calls `initialize` with a mask of
features; `initialize` calls `core_load`, `kernel_memory_init`, `kernel_init`,
`kernel_slide_init`, `kernel_call_init`, `process_init` and `class_init` in a fixed
order, skipping what `loaded_features` holds. `kernel_init` reads the kernel's image
(a file or a kernelcache), makes its symbol table and runs the symbol finders, on
arm64 with the simulator. `kernel_call_init` uses kernel memory and symbols and
reports through the error stack. `deinitialize` calls `kernel_call_deinit` from the
end of `main`, from the root command and from the signal handler.

What makes it correct is written in the repository's README: "leave the kernel
in a consistent state: it should clean up any allocated kernel resources and
restore all important system data it modifies before exiting". The properties
below take this apart.

## The modules

### KernelCall, KernelCallLibrary, Features, Session

`KernelCall` has one action for each step of `kernel_call_init` and
`kernel_call_deinit` that changes state or can fail, on both architectures
(`Arch`). `pc` is the step that runs next, `returnTo` where
`kernel_call_7_deinit` returns to, since the failing initialization calls it
too. `hook`, `syscallHook` and `jopPayload` are the statics of those names.
`client`, `kmem`, `sysent` and `text` are the kernel: the user client with its
vtable pointer and entry ID, the blocks allocated for memctl, the system call's
table entry, and the text it runs. `refused` and `doubleFree` are history: which
restoring writes the kernel refused, and whether a block was deallocated that was
not allocated. A write of one word happens or not; a longer one that fails may
have left its target torn.

Nothing about the contents is kept: which bytes the vtable has, how the object
is found in the heap, where symbols come from. Such a step succeeds or fails.

Two modules compose it. `KernelCallLibrary` lets a program call the two
functions in any order and any number of times, one at a time.
`Session` is memctl itself: `main`, the loop, `initialize` with the masks of
`feature_t` (module `Features`), `deinitialize`, and the signal handler at any
step. The handler of a terminating signal never returns to what it interrupted
(SIGINT ends in `exit`, the others are raised again while blocked with their
default action restored), so that one `pc` is enough: the signal moves it. When a
process ends the kernel closes its connection and nothing else; another process may
start and meets what is left. `abandoned` is history: whether a signal cut an
initialization or a deinitialization short.

### OpenClient

Inside `KernelCall!CreateUserClient` lies the search for the new client's
registry entry ID. `OpenClient` is that function: a listing, IOServiceOpen,
another listing, the difference. Other processes open and close clients of the
service at any time; a child that comes or goes during a listing may be in it or
not. IDs are never used twice by the kernel; the model uses one again once nothing
remembers it, which no comparison in the code can tell apart, so that the
interference has no bound.

### ErrorStack

`error.c` for one thread: the buffer's capacity, the stack of data pointers,
the nesting of `error_stop`, the allocated data blocks. `realloc` fails into an
assertion (`aborted`), `calloc` into a push that does nothing but may have grown
the buffer.

### Macho, BinarySearch, SymbolMap, SymbolTable, KernelSlide

`Macho` holds `macho.c` as operators over an image, which is a sequence of load
commands. `BinarySearch` is `binary_search`, one turn of the loop per step.
`SymbolTable` extends both: the arrays of `symbol_table.c` with their two
permutations, built while any allocation may fail, searched with the steps of
`BinarySearch`, extended one insertion at a time, given up again. `SymbolMap` is what
`symbol_table.h` promises, a set of names and addresses that is asked and extended
in single steps; `SymbolTable` instantiates it with a mapping of its arrays to the
set and of its searches to their results.

`KernelSlide` adds the running kernel (`env`): what it tells of its slide, its
region of memory, the symbol at its end, pointers in its heap. The searches of
`kernel_slide.c` go probe by probe; `kernel_init` resets and slides the base of the
image; both may be called again after a failure.

### KextCache, Kexts, Kernelcache

`KextCache` is the array of kexts in `kernel.c`, with a heap of structs,
the references clients hold, and a system (`running`) whose kexts change
between any two steps of `kernel_kext`, on both builds (the variable `build` is
chosen at the start). `Kexts` composes it with the operations that walk over all kexts
or search them with a callback: a walk works on the list it got when it began, and
its kext may be gone when it is asked for. `Kernelcache` is `kernelcache.c` as
functions of a file: for every kind of file what initialization returns and what is
then allocated, and the lookups by ID and by address.

### KernelMemory, MemoryCommands

`KernelMemory` is one call of a `kernel_read` function: `task_perform_transfer`
with its turns (`io`), the range functions of `kernel_memory.c` (`range`), and the
two transfer functions (`tx`). Each turn of a loop is a step. Memory is a row of
pages; a page is what the code can learn of it: the region of the kernel's map,
whether it has a physical frame, the special virtual and physical regions, the
cache attributes; and whether a transfer of it fails although all of these are
fine. A byte is its address, so that `data`, the caller's buffer, says where
everything in it comes from, stale bytes included. A failed
`mach_vm_read_overwrite` copies nothing and leaves the size alone that
`task_transfer` set to the size of the chunk before, so that the failing chunk is
reported as read (and the chunks before it are not): the commands then take what
the buffer holds for that page.

`MemoryCommands` composes it with the commands that use it: `select_fn` and the
choice in `memctl_find` over the functions that `kernel_memory_init` may have set,
then the loops of r, rd, rb, ri, rs and f, with SIGINT where each polls for it.
`out` is what was printed, `tested` the windows that f compared. Formatting is
left out, except that rd prints only whole lines. rd looks at the result of a read
only when it needs another one, and rs may end at a NUL that an earlier read left.

### StrParse, Cli, CommandLine, Commands

`StrParse` parses integers, in words of `WordBits` bits that overflow as in C, data
and protections. `Cli` is the table of commands with what each handler reads from
its arguments. `CommandLine` is the parser of `command.c`: one step takes a name, an
option, an attached value or an argument, or takes one back to a save point when
it is no value. `Commands` continues where the handler is called: a command is the
sequence of its steps (load features, check an address, call the library, take and
give back references and memory), and each of them that can fail has the step the
code goes to then. The root command is the one whose last step does not come back
(`HandlerLeaves`).

### Processes, Classes

`Processes` has the kernel's reference counts and the processes behind them, which
exit, begin and execute other files between any two kernel calls. A proc is a process
ID and how many processes had the ID before. `proc_find`, `proc_find_path` and
`proc_rele` take and release references to procs (`refs`). `proc_to_task_port` with
its `proc_task` and `task_to_task_port`, and `kauth_cred_proc_ref` and
`kauth_cred_unref`, take other things: a reference to a task, a send right, a
reference to credentials, a word of kernel memory (`taken`). Their calls are the rows
of two tables, `TaskSteps` and `CredSteps`: what each takes, what it gives back,
where the function goes on. Each call may fail, and `failed` counts how often it
did. A failed call of `task_to_task_port` ends it at once; `kauth_cred_unref` goes on
to free its memory, and nobody looks whether that fails.

`Classes` writes and reads mangled names and looks up vtables.

### Disassembler, Simulator, Arm, Ksim, KernelFinders

An instruction is a record of its fields; `Disassembler` makes of it what the decoder
reports. `Simulator` is `sim.c`: the effect of each instruction on registers, flags
and their taints. `Arm` is what a processor does; it is not taken from the code
but is what the code is compared with. `Ksim` is `ksim.c`, one turn of
`aarch64_sim_step` per step, beside a processor (`machine`) that takes the same path
through the same code and finds arbitrary values where the simulator cannot know.
The code is chosen as it is first read. `KernelFinders` drives `Ksim` with the five
finders of `arm64/finder`, from the symbol they start with to those they add.

## The runs

| run | instance | shows |
|---|---|---|
| `error_stack` | 3 blocks, depth 6, nesting 2 | room for one more error always, one owner per block |
| `library_x86_64` | 4 blocks | pointers and restoration under any failures |
| `library_arm64` | 4 blocks | no leak, with the payload page as a third block |
| `session` | x86_64, 3 blocks, 2 processes, SIGINT and SIGTERM, 3 requests | the same with signals anywhere and a second process; order of features, honesty of `loaded_features`, the way out of a handler |
| `open_client` | 4 IDs, 3 tries, fair | the right ID, nothing left open, an end |
| `memory` | 3 pages of 4 bytes, words of 2, 3 spans, one of them empty, fair | allowed accesses, windows neither wrong nor missed, output in order, an end |
| `memory_binary` | as above, smaller | a disagreement of rb with its documentation |
| `kexts` | 2 builds, 2 IDs, 2 loads, 2 slides, 3 structs, 2 references each | counts, order, answers, what clients see |
| `kernel_image` | pages of 2, slides 0, 4 and 8, 4 symbols, 2 initializations | the table implements its interface, the slide is true, probes are safe, the search is right |
| `commands` | words of 7 bits, lines of up to three words for every command | arguments complete and of the right type, calls ready, nothing kept, the parser ends |
| `processes` | 2 process IDs, 2 paths, one the beginning of the other, 3 tries, 2 references, 2 more to credentials, a failure of any call for task ports or credentials | references, the right process, what a failed call leaves in the kernel |
| `simulator` | registers of 16 bits, 5 of them, 6 instructions of 5 or 6 candidates each | what the simulator claims is so, for every finder |

Why the bounds are enough. The hook owns two blocks on x86_64 and three on
arm64; four in the library runs leave room for blocks the kernel refused to take back
and for a second initialization. The code treats all blocks alike, so
they are symmetric. Two processes are enough for a second one to meet what the
first left, in each of the shapes the first can leave it, and every later one
meets the same shapes. The requests of `session` reach every stage of `initialize`
but that of kernel memory, which differs from the one after it only in its bit. The
first SIGINT only sets a flag, another one terminates; with two signals, a handler
interrupts the deinitialization of another. Two loads let a kext be
reloaded, unloaded and reloaded back; three structs hold two bundle IDs and an
outdated one. The error stack's buffer grows by four: six errors make it grow a
second time. Three pages let a page have a neighbour of each kind on both sides;
reads of a page's size from an aligned and an unaligned address lie in one page or
cross two; a word is smaller than a page and larger than a byte, so that f has
every relation of width and alignment. The symbol tables of `kernel_image` contain
each difficult pair (two symbols at an address, two with a name, one at the end of its
segment, one outside all segments, an entry that is no symbol); its kernels need each
search and run into what each can run into. Words of 7 bits overflow within three
digits in each base. The lines of `commands` put every command beside wrong, missing,
glued, repeated and unnamed options. A second process ID lets a path's owner change;
two paths, one the beginning of the other, tell apart what `strncmp` compares. What
a failed call leaves in the kernel stays there through all later calls, and no function
looks at it, so that one failure (`MaxFailures`), of any of the nine calls for task
ports and credentials, is enough; two references to credentials let one be released
while the other is held. The code of `simulator` has, at each address, what makes a finder go on, what makes it
stop, a call, a branch, a store and something it cannot decode.
Depth, nesting, references, births and initializations are bounds on counters
(`MaxErrors`, `MaxStops`, `MaxHeld`, `MaxRuns`, `MaxRefs`, `MaxCreds`,
`MaxFailures`, `MaxBirths`, `MaxInits`); the code has no behaviour at their limits.
`MaxPids`, `MaxTries` and `MaxInstructions` are limits the code has, made smaller.

Deadlock is checked in the library runs and in `commands`, where a program may always
call again or says that it ended. The other runs stop where the program does: a
process that exited, an aborted one, a search that ended.

Fairness. `OpenClient` assumes weak fairness of the process: it is scheduled when it
can take a step. It assumes nothing of the others, which may interfere forever.
`MemoryCommands` assumes it of the one process there is. The other specifications
need none: `Terminates` of `Session` is an action property, and since
`kernel_call_deinit` has no loop, a process that is scheduled reaches its end.

Pure functions are checked by assumptions of the MC modules, which TLC evaluates over
all the inputs named there: in `MCCommands` integers parsed exactly, protections,
and the overflows that are missed; in `MCKernelImage` sections by number, section data,
resolution by name and back, agreement of `macho_resolve_symbol` with the symbol
table, the search for data, validation; in `MCKexts` what a kernelcache owns
after each way out of its initialization, and which kext an address belongs to; in
`MCProcesses` that a function is provided only with all it calls, and that names
are read as they are written; in `MCKernelFinders` each form of instruction against
`Arm`, with those that `sim.c` gets wrong named one by one.

## What the properties say

*The kernel is never left a bad pointer.* `HookWorks` has three parts.
`NothingDangling`: while the user
client is open, a vtable pointer or entry ID that memctl replaced points to
allocated memory, in every step, failure, signal and restart. The order in
`kernel_call_7_deinit` (unhook, close, free) is what makes it true even when the
vtable cannot be restored. `HookedReturnsTrap`: a hooked vtable never answers with
the real entry ID. `HookUsable`: whenever the code relies on `kernel_call_7`,
among others for the writes that remove the system call hook, it works.

*Everything is given back.* `NoLeak` and `RestoredAtRest` for the library (that it
never frees a block twice, `NoDoubleFree`, is proved and not run by itself:
`FreedOnce` contains it); `CleanExit` and `FreedOnce` for the tool, where signals make exceptions
that the properties name exactly: only a signal that cuts kernel_call_init or
kernel_call_deinit short can leave something behind, and only one that cuts a
deinitialization short can free a block twice.

*The system call.* `SyscallStable`: a table entry that points to the hook finds the
hook's text, over installation, removal, failure and crash, unless the table
itself refused to be restored: `remove_syscall_hook` then restores the text all
the same, and the call runs the start of `_bsd_init`.

*Features.* `DependenciesUp`: what an init function uses was set up by other
init functions before, for every mask and after every partial failure.
`RequestMet`: a command runs with all it asked for, and the bit of kernel calls
vouches for a usable hook. `Terminates`: no step leads from a handler back to main.

*The ID.* `RightClient`, with the assert in
`open_service_with_known_connection_id_once`; `NoClientLeft`; `Returns`.

*Errors.* `RoomForOne` is the invariant the comment of `reserve` promises;
`DataOwnedOnce` that every data block belongs to one error.

*Memory.* `SafeTransfer`: the access about to be made is one that the function's
checks allow, at the width they found, whatever range it is part of.
`FindExact`: f compares the right bytes, over page ends, short
reads and holes, and all of them that can be read. `OutputFaithful`: the others
print each byte once, in order, and report success only for all of them. Both
except, by name, the bytes of a page whose transfer failed, which the code takes for
read: f may compare anything there (`Fails`), and the other commands may print
anything there, but only after the read that failed, which must be the last one
(`Unread`); of these only rd may report success then. A failed page is thus never
the reason for a wrong byte of another page or of a later read. `Returns`.

*Kexts.* `Balanced`: an operation that returns left no reference behind, each struct
has the count of its references and is freed with the last, and the error
stack is stopped while a callback runs and only then. `Sorted`: the array is what
the search relies on, over removals between search and insertion. `Answered`: a
reference handed out is for the load the system reported in this call.
`FoundRight`: the kext found for an address has it. `HeldStable`: what a client holds
does not change under it. `FindersReady`: each symbol finder is registered once.

*The image.* `Implements`: the symbol table refines `SymbolMap`. `NamesOwned`: each
name is owned once, whichever allocation failed. `Correct` and `Halves`: the binary
search. `SlideTrue`: a slide that is reported is the kernel's, and the base is
moved by it once. `ProbesSafe`: no probe outside what is known to be mapped.

*Commands.* `HandlerReady`: the handler finds the arguments it asserts.
`NothingIgnored`: every character typed is in a name or an argument.
`ParserProgresses`: each turn of the parser's loops uses up something, so it ends.
`CallsReady`: a library function is called with its feature loaded and its pointer
tested. `OnlyAsAsked`: nothing unsafe or physical without the option, nothing
written unchecked without -f. `NothingHeld`: all ways out give everything back.

*Processes.* `ReferencesOwned`: references to procs in the kernel are those of clients,
those whose release failed, and the one of the function that runs. `TakenAccounted`
says the same of the task references, send rights, credentials and words of memory.
Not all of them are given back: the property says exactly which failure leaves which
of them behind, so that a success, another failure or any sequence of calls leaves
nothing. `PathRight`: the process found had the path while it was referenced.

*Simulator.* `SimulationTrue`: where the simulator stops, an execution of that path
stands there too, passed nothing it was to stop at, and has in each register that
is said to be known the value that is said.

## Disagreements found

`memory_binary` shows one as a run: `memctl_dump_binary` never advances its address
and writes the first page again and again.

The others are visible in the exceptions that properties make, in assumptions of MC
modules, or in the modules, without a run of their own.

Kernel calls and signals:

- When `install_syscall_hook` fails after the text was overwritten,
  `syscall_hook.function` is still 0 and `remove_syscall_hook` returns early; the text
  is never restored (`refused` in `RestoredAtRest`).
- A signal during `kernel_call_init` finds `loaded_features` without the bit and
  deinitializes nothing; one during a deinitialization repeats a deallocation
  (`abandoned` in `CleanExit` and `FreedOnce`).

Kexts and the kernel's image:

- `create_kext_info` returns `KEXT_SUCCESS` with an uninitialized pointer when `malloc`
  fails (`Wild`).
- Kexts of a kernelcache that are cached before the slide is known keep a slide of 0; a
  kext that is reloaded between list and query is returned without having the address
  (`FoundRight`).
- A kernel slide that failed validation stays in `kernel_slide`, and the next
  `kernel_slide_init` reports it as found (`was_invalid` in `SlideTrue`). A true slide
  of 0 is searched for again each time. The scan of the heap is safe only if its lowest
  pointer is genuine (`pointers_good` in `ProbesSafe`).
- `kernelcache.c` loses prelink information that is not a dictionary (`FilesOwned`).
- A symbol outside every segment aborts a resolution that asks for its size;
  `macho_resolve_symbol` finds debugging entries that the symbol table skips.

Memory:

- `task_memory.h` promises "the number of bytes actually read"; when
  `mach_vm_read_overwrite` fails, `task_transfer` reports the size that it was about to
  read (`TransferPage`). r, rd, ri and rs may then print, and f compare, what the
  buffer held before (`Unread` in `OutputFaithful`, `Fails` in `FindExact`).
- `memctl_dump` says that it reports an error of the last read; when that read
  failed and the bytes it reported are all that were left, it prints them and returns
  true (rd in `OutputFaithful`).
- `f -h` ("Search heap memory") uses `kernel_read_safe`, which also reads memory
  that is not heap (`FindFn`).
- `physical_transfer_range_cache_safe` answers success with a size of 0 when the
  attributes of a page cannot be had; the transfer asks again forever (`Asking` in
  `Returns`).
- `next` after a transfer that failed unexpectedly is the end of what was asked
  for: f from an unaligned address then leaves out the start of the next page
  (`NoSurprise` in `FindExact`).
- rd does not print the line that a failed read leaves unfinished, although its
  bytes arrived.

Command line:

- The overflow tests of `strparse.c:102` miss values that wrap to larger ones
  (`OverflowMissed`), as does that for lengths in `mangle.c` (`SomeLengthMissed`).
  `0b` before hexadecimal digits is taken for the binary prefix.
- A data argument without digits is an assertion; a word list with a bad later word
  loses the memory of the words before (`NothingHeld`).
- `memctl.c` compares a NULL bundle ID with `strcmp` before it tests it, and the loop
  over pages of `kpm` wraps at the end of the address space.

Processes and classes:

- `task_to_task_port` undoes nothing: when `convert_task_to_port` fails, the
  reference to the task stays, and when `get_task_ipcspace` or `ipc_port_copyout_send`
  does, the send right. When `kauth_cred_unref` fails before its last call, the
  credentials stay referenced, and when that one fails, its word of kernel memory
  stays allocated (`TakenAccounted`).
- A release that fails keeps its reference in the kernel (`lost` in
  `ReferencesOwned`). In `proc_find_path` without reference, a process that ended
  between list and look-up is the proc 0, whose release aborts (`DropAborts`).
- `class_vtable_lookup` aborts on the vtable of a nested class (`ClassesFound`).

arm64:

- An arithmetic shift right of a negative number is a logical one, an extended
  register addition uses the wrong register, W registers keep the upper half that the
  processor clears, and loads that extend the sign do so to the wrong width
  (`FormsRight`, `ExtendedWrong`, `UpperHalfKept`).
- X30 is stale after a call, and a store is recognised at any offset of its base
  register (exceptions of `SimulationTrue`).
- `collect_metaclasses_from_initializer` does not end when the code it runs over
  loops through a call.

## What is proved

For every value of the constants, from the named assumptions of the modules alone.
Most say of which kind a constant is (a block is not the address 0; an architecture is
one of two; the buffer grows by at least two; registry entry IDs are finitely many
at a time; a page and a word have a size, and a word is not larger than a page). Those
that say something about the system are named below where they are needed.

### Kernel calls and the session

`KernelCallProofs` has the inductive invariant `KInv` that both compositions
share. `NothingDangling` alone is not inductive: it must be known which steps are
reached with which blocks allocated and recorded. `KInv` adds, for each step, what
the activation has done so far (a client that is hooked has its two blocks, an
address in the statics that is not about to be forgotten is allocated, and the
client is closed before the blocks go). `StepPreserves` shows that every step
keeps it, one lemma for each group of steps, and `InvConsequences` that it implies the
properties. Beside it stand two invariants on what must be put back: `Accounts` (no
name is overwritten while it names a block, and unless the kernel refused to take
a block back everything allocated is named) and `Installed` (which of table entry
and text are the hook's at each step of the system call hook, unless a
write was refused).

For the library on its own (`KernelCallLibrary`), with calls between steps, the same
module proves `LibraryTypeCorrect`, `HookSound` (`HookWorks`), `NothingLeaks`
(`NoLeak`), `NothingFreedTwice` (`NoDoubleFree`), and `KernelRestored`
(`RestoredAtRest`), which takes both invariants (`Books`) to the point where the library
is at rest without a hook.

`SessionProofs` adds main, signals and new processes: `TypeCorrect`,
`HookSoundWithSignals` and `HandlerOnlyEnds` (`Terminates`). The step that matters is
the signal: it enters `kernel_call_deinit` from any step, and `KInv` was written so
that it holds there. For `HandlerOnlyEnds` the invariant is that a signal is being
handled only at steps of a deinitialization that returns to the end.
`SystemCallSound` (`SyscallStable`) follows the order of the writes: the entry is
`nosys` whenever text is overwritten, and `nosys` or refused when it is restored.
`FreedOnceWithSignals` (`FreedOnce`) needs that the statics name only live blocks as
long as a deinitialization can still act on them, and that `kernel_call_init` runs
only while `loaded_features` lacks the feature.
`InitOrderSound` (`DependenciesUp`) and `CommandsGetFeatures` (`RequestMet`) share
`FeatureInv`: what is loaded was set up, and all features before the current stage
that are wanted are loaded. They rest on `MasksAssumption`, that a mask in a
request contains the masks of the features it needs, which is how `initialize.h`
defines them. `LeavesKernelClean` (`CleanExit`) follows from `ExitInv`: until a
signal cuts an initialization or a deinitialization short, `Accounts` and `Installed`
hold and `loaded_features` knows of the hook.

### Two small parts

`LibmemctlProofs` treats two parts that need no other. Of `OpenClient` it proves
`RightClient` and `NoClientLeft` for any number of IDs and tries. The invariant says
that the client opened in this try was in no earlier listing and, since nobody else
closes it, is among those that every later listing contains; so a single new child can
be no other.

Of `ErrorStack` it proves the type, `RoomForOne` and `DataOwnedOnce`.

### Kexts

`KextProofs` proves all that the run `kexts` checks: `KextsBalanced` (`Balanced`),
`KextsSorted` (`Sorted`), `KextsAnswered` (`Answered`), `FindersRegistered`
(`FindersReady`), `AddressFoundRight` (`FoundRight`) and the action property
`HeldKextsStable` (`HeldStable`), for any number of bundle IDs, loads, slides,
structs and references, on both builds, while kexts change between any two steps. The
properties speak of operations that have returned; `KextInv` says what holds inside
them. `Counts`: an exact count for each struct, and where a struct that is not in
the array can be (outdated and held, lost, or about to be inserted). `Array`: no
outdated struct is in it, the IDs ascend, and the insertion point found by the search
still separates smaller from larger IDs when the new struct is inserted; this is
what a change of kexts in between could break and does not, since only this
function changes the array. `Fitting`: the struct about to be inserted or returned
is of the load that the system reported. `FromCache` and `Aim`: where that load is
from, and that the address asked for was in it. `MarkersAssumption` says that the
markers (no kext, a wild pointer, an unused struct) are no values of the real kind.

### The image of the kernel

`KernelImageProofs` treats `BinarySearch`, `SymbolTable` and `KernelSlide`, which share
their variables. `SearchCorrect`, with the invariant that everything left of the range
is smaller than the key and everything right of it greater, and `RangeHalves` are
about the search alone, on every sorted array.

`TableInv` is the invariant of the table. `Ordered` says that both permutations sort
their arrays (a permutation sorts if it takes each index once and the values
ascend along it), that of the addresses one element later than that of the names
while a symbol is added; `Searched` what is searched for what, so that the invariant of
the search applies to whichever operation started it (`TableSearches`); `Located` what
is known from the searches that have ended; `Owned` which arrays and names exist. From
it follow `NamesAreOwned` (`NamesOwned`) and the refinement `TableImplementsMap`
(`Implements`): every step of the table, its searches and the slide above it is a step
of `SymbolMap` or none, and each answer is the one that the set of symbols has. This is
proved for any image: `ImagesAssumption` says only that it has segments and that what
is read of it are numbers.

`SlideInv` has what each way of searching for the slide knows (`Scans`), what the
reported slide may be (`Slide`), that the base has been moved by it once (`Kernel`),
and that only the image, never a finder, tells where `_last_kernel_symbol` is
(`Last`). `SlideIsTrue` (`SlideTrue`) and `ProbesAreSafe` (`ProbesSafe`) follow. A
program cannot know its kernel's slide without believing something of the kernel, and
`EnvironmentsAssumption` states what `kernel_slide.c` believes: the kernel lies where
its image says, moved by a slide that passes the check of slides; on macOS the end of the
kernel's region is that of the last symbol's page (`RegionEndsKernel`); on a kernelcache
nothing but the kernel's header looks like one where the scans read
(`ScansFindKernel`); and when the pointers of the heap are good, they point into
the kernel. That they may not be good, and that a rejected slide stays, are the
exceptions in the properties themselves (`pointers_good`, `was_invalid`).
`SlideAssumption` says that slides are whole pages and that the symbol finders
add no second `_last_kernel_symbol`.

### Memory commands

`MemoryCommandsProofs` proves `TransfersAreSafe` (`SafeTransfer`) and
`OutputIsFaithful` (`OutputFaithful`) for any memory, span, and sizes of pages, words,
lines and instructions. Neither is inductive. A range is worked out piece by
piece and used later, so `MemInv` follows what was established about each byte of it:
while a range function runs, every byte so far passes its checks at the access
width found so far (`Passed`); when the transfer begins that holds for all of the
range, and each chunk takes its part away from the front. `RangeAsks` proves it
for each range function on its own: a run of pages of a region ends
where the region does, and a truncation ends before the page that failed. `Placed`
keeps the nested ranges inside each other and inside the memory, `Filled` says that
byte i of the buffer is the one at cursor + i as far as the transfer has come, whatever
an earlier read left behind, and `Printed` that what was printed, with the
unfinished line, is all that lies behind the cursor. Both except `Unread`, the bytes
of failing pages once a transfer has failed. That set is empty while a command reads
on, since no command but f goes on after a failure, and it stays as it is from the
failure to the command's end (`UnreadStays`): a wrong byte gets into the output only
at the very end. The lemmas on sequences
(`Appended`, `Cut`) and on whole instructions (`WholeInstructions`) carry it through
lines and instructions that a read cuts.

`FindsNothingWrong` (`WindowsTrue`, the first half of `FindExact`) adds `WindowInv`: the
bytes kept before the buffer are those before the cursor (`Kept`), unless their page
fails: f does go on after a failure, and then keeps bytes that never arrived. f keeps them only
after a whole page, and goes on at `io.next`; that this is then the address behind the
page, although every obstacle sets `io.next` to something else, is what `Follows`
carries through the transfer.

`FindIsExact` proves all of `FindExact`: f misses no window it could read either. Its
invariant, `SearchInv`, has two parts. `Searched` says that every aligned window
before `cursor + p` whose bytes can all be read was looked at, that the cursor is aligned,
and that p is 0 or goes back just far enough for the windows across the cursor.
`Skips` follows a transfer: it comes to the end of what was wanted, or stops where
nothing can be read up to `io.next`, which begins a page (`StopsAt`). `RangeStops`
shows this for each range function of f, `TransferSkips` carries it to the transfer's
end, and `FindWindowsSearches` puts the two together: a window before the next cursor ends
in what was transferred (`LooksAt`), or reaches into what is skipped and cannot be
read (`Skipped`), or lies across the end of a page that was read whole and is left
to the next read. That windows stay aligned from page to page needs
`PowersAssumption`: a word size divides the page size, both being powers of two.

The invariants `MemInv`, `WindowInv` and `SearchInv` were checked with TLC on the
instance of `memory` before they were proved.

### Processes

`ProcessesProofs` proves `ReferencesHaveOwners` (`ReferencesOwned`),
`TakenIsAccounted` (`TakenAccounted`) and `PathIsRight` (`PathRight`) for any
processes, paths and bounds, while processes exit, begin and execute files between any
two kernel calls. `PInv` joins what they need. Each reference to a proc is a client's,
lost, or the one of the function that runs (`Balanced`), which has one exactly at the
steps from which it gives it away. `TakenAccounted` is inductive beside the types:
each call of the two tables moves what the function holds by what the call takes and
gives (`TaskTakes`, `CredTakes`), and a failure turns it into a count of that call or
leads to where it is freed. The process behind a reference cannot be replaced by
another with its ID, only exit or execute a file, so that the path read from its ID,
if there is one, is one that it had (`Itself`). That the path compared is the wanted
one, and not one that begins with it, rests on the order of the two tests, whatever
`BeginningsAssumption` lets begin with what. `FunctionsAreUsable` is about
`process_init` alone: whichever symbols are missing, a function is provided only with
all those it calls.

### The command line and the commands

`CommandsProofs` proves four of the invariants that the run `commands` checks, for any
lines of any words and integers of any width: `HandlersAreReady` (`HandlerReady`),
`EverythingGivenBack` (`NothingHeld`), `AccessIsAsAsked` (`OnlyAsAsked`) and
`CallsAreReady` (`CallsReady`). None is inductive, since each speaks of a few
steps, and what makes it true there was done many steps before. The fifth theorem is
about the steps themselves: `ParserEnds` (`ParserProgresses`). The proof has four
parts.

The table: every row of every command has its options first, then the arguments it
needs, then at most one that may be left out, and each macro of its handler names an
entry of the type it reads (`RowOK`, proved row by row). This is what `cli.c` needs
of the table and nothing there checks.

The parser (`ParserInv`): the vector of arguments has the shape of the row
throughout (`Shaped`), and what a parser returned for an entry has the type that the
table wants. Options are filled in any order and may be taken back to a save point;
arguments are filled from the front, none behind `first` is there yet, and the
handler is entered only when the rest may be left out (`AllThere`). Who owns
the strings is part of it (`Owners`, `Freed`).

The place (`PlaceInv`): the parser is somewhere in the line, and every function that
parses takes it further or leaves it where it is (`ParseGoesOn`, through the parsers of
integers, widths and the rest). An option with a letter goes behind the dash or behind
the letter (`ParseOptionGoesOn`); the option without one, and an argument, may take nothing,
and are then behind `first`. A word may be left for the next and nothing goes back, so
that words, characters and options left decrease in this order. `LinesAssumption`
says only that a line is a sequence of words of characters.

The programs: a step that fails never jumps past a loading, a look at a pointer or a
check of the address (`WellMade`), so whatever comes before a step in its
program was done when it runs (`Passed`), on every path. What a command may hold is
stated by an account: for each step, and for either value of `success`, the sets
that may be held there, starting and ending with nothing (`Account`). Each
program is shown to have one, piece by piece where the programs are concatenated, and
`Running` says that the handler keeps to it.

### What is only model-checked

For the bounds above: `NothingIgnored` of `Commands`, which joins
the words of a line with folds; and `SimulationTrue`, because
the simulator's modules use `Bitwise`, which no module with a proof may reach. The
liveness properties `Returns` are out of this prover's reach, as is `ENABLED`. What
recursive functions compute for every input (the folds over lines and images, the
kernelcache's and the class names') needs induction over data and stays with TLC, too.

## What is not modelled

- IOKit, Mach, CoreFoundation, decompression, the core that provides the kernel task
  port, the kernel's allocator: external, abstracted to their outcomes.
- JOP strategies and gadgets: layouts of payload pages that the kernel executes; memctl
  observes nothing of them but the result of a call.
- `privilege_escalation.c`: it changes the credentials of the process by calls whose
  reference counts live in the kernel. `Session` and `Commands` have its command
  (`RootCommand`, `RootProgram`), because it deinitializes and does not return, and
  nothing of what it does.
- The disassembly listing, error messages, usage and output formats: text.
- Bit layouts of instructions and the predicates for aliases: `Disassembler` begins
  with an instruction's fields.
- Writes of kernel memory, which take the path of reads with another transfer call, and
  `mapped_region.c`.

## What comes next

1. `NothingIgnored` for every value of the constants, in a prover that has induction
   over sequences.
2. `KernelCallLibrary` as the refinement of an abstract resource that is on or
   off, with a kernel that is clean when it is off.
3. Writes of kernel memory with the report of failed chunks.
