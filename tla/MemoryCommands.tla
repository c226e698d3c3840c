---------------------------- MODULE MemoryCommands ----------------------------
(***************************************************************************)
(* The commands that read kernel memory page by page: r and rd (read.c,    *)
(* memctl_read and memctl_dump), rb, ri and rs (memctl_dump_binary,        *)
(* memctl_disassemble, memctl_read_string), and f (find.c).  Each chooses  *)
(* one of the kernel_read functions, runs it in a loop (KernelMemory) and  *)
(* prints what reached its buffer.                                         *)
(*                                                                         *)
(* The memory is chosen with the function: nothing looks at it before.     *)
(***************************************************************************)
EXTENDS KernelMemory, Sequences, SequencesExt

CONSTANTS
    PageTypes(_),  \* the pages to choose from, for each function
    Accesses,      \* values of the access option
    Spans,         \* bound: the <<start, end>> that a command is given
    Line,          \* bytes in a line of the dump
    Instruction,   \* bytes in an instruction
    Nuls           \* the addresses of the bytes that end a string

ASSUME PageTypesAssumption == \A k \in Kinds : PageTypes(k) \subseteq PageType
ASSUME AccessesAssumption == Accesses \subseteq 0 .. Word
ASSUME SpansAssumption == Spans \subseteq (0 .. Top) \X (0 .. Top)
ASSUME LineAssumption == Line \in Nat \ {0} /\ Instruction \in 1 .. PageSize

Readers == {"r", "rd", "rb", "ri", "rs"}
None == "none"

VARIABLES
    command,  \* name, start, end, and for f the width and the alignment
    cursor,   \* address: where the next read begins
    size,     \* size: bytes left to read
    p,        \* find: the offset in data of the next window
    tested,   \* find: the windows looked at, as reported and as they are
    out,      \* the addresses of the bytes printed
    line,     \* dump: those of an unfinished line
    outcome   \* "running", "success", "failure" or "interrupted"

mcVars == <<command, cursor, size, p, tested, out, line, outcome>>
vars == <<kmVars, mcVars>>

(***************************************************************************)
(* kernel_memory_init: which functions there are depends on the features   *)
(* and symbols that could be had.                                          *)
(***************************************************************************)
Availability ==
    LET basic == {"unsafe", "heap"}  translating == {"safe", "all"}
    IN  {{}} \cup {basic \cup t \cup w : t \in {{}, translating},
                   w \in {{}, {"physical_unsafe"}, {"physical_unsafe", "physical_safe"}}}

(* select_fn of memory.c, and the choice at the head of memctl_find *)
SelectFn(functions, force, physical, safe_memory) ==
    LET wanted == IF physical THEN IF force THEN "physical_unsafe" ELSE "physical_safe"
                  ELSE IF force THEN "unsafe"
                  ELSE IF safe_memory THEN "safe" ELSE "all"
        instead == IF physical \/ force THEN wanted
                   ELSE IF safe_memory THEN "heap" ELSE "unsafe"
    IN  IF wanted \in functions THEN wanted
        ELSE IF instead \in functions THEN instead ELSE None

FindFn(functions, physical, heap) ==
    LET wanted == IF physical THEN "physical_safe" ELSE IF heap THEN "safe" ELSE "all"
        instead == IF physical THEN None ELSE "safe"
    IN  IF wanted \in functions THEN wanted
        ELSE IF instead \in functions THEN instead ELSE None

RoundUp(a, b) == ((a + b - 1) \div b) * b

-----------------------------------------------------------------------------
Init ==
    /\ pc = "command" /\ mem = <<>> /\ kind = None /\ access = 0
    /\ io = [start |-> 0, address |-> 0, left |-> 0, next |-> 0, result |-> "success"]
    /\ range = [address |-> 0, left |-> 0, size |-> 0, access |-> 0]
    /\ tx = [address |-> 0, left |-> 0, access |-> 0]
    /\ data = [i \in -Word .. PageSize - 1 |-> -1]
    /\ command = [name |-> None] /\ cursor = 0 /\ size = 0 /\ p = 0
    /\ tested = {} /\ out = <<>> /\ line = <<>>
    /\ outcome = "running"

Finish(how) == outcome' = how /\ Goto("end")

(* A command with its arguments, its function and the memory. *)
Request(fn, newCommand) ==
    /\ command' = newCommand
    /\ kind' = fn
    /\ IF fn = None
       THEN /\ Finish("failure")
            /\ UNCHANGED <<mem, access, cursor, size>>
       ELSE /\ mem' \in [0 .. Pages - 1 -> PageTypes(fn)]
            /\ access' \in Accesses
            /\ cursor' = newCommand.start
            /\ size' = IF newCommand.name = "f" THEN 0 ELSE newCommand.end - newCommand.start
            /\ Goto("loop")
            /\ UNCHANGED outcome
    /\ UNCHANGED <<io, range, tx, data, p, tested, out, line>>

ReadCommand ==
    /\ At("command")
    /\ \E functions \in Availability, force, physical, safe_memory \in BOOLEAN,
          name \in Readers, span \in Spans :
           /\ span[1] <= span[2]
           /\ name = "ri" => span[1] % Instruction = 0
           /\ Request(SelectFn(functions, force, physical, safe_memory),
                      [name |-> name, start |-> span[1], end |-> span[2]])

FindCommand ==
    /\ At("command")
    /\ \E functions \in Availability, physical, heap \in BOOLEAN, span \in Spans,
          width, align \in WordSizes :
           /\ ~(physical /\ heap)
           /\ Request(FindFn(functions, physical, heap),
                      [name |-> "f", start |-> RoundUp(span[1], align), end |-> span[2],
                       width |-> width, align |-> align])

-----------------------------------------------------------------------------
Running(names) == At("loop") /\ command.name \in names

(***************************************************************************)
(* The next chunk is read.  rs and ri read one even when nothing is left.  *)
(* A transfer of no bytes ends at once.                                    *)
(***************************************************************************)
Read ==
    /\ Running(Readers)
    /\ size > 0 \/ command.name \in {"ri", "rs"}
    /\ PerformTransfer(cursor, Least(size, PageSize))
    /\ UNCHANGED <<request, range, tx, data, mcVars>>

NothingLeft ==
    /\ Running({"r", "rd", "rb"}) /\ size = 0
    /\ Finish("success")
    /\ UNCHANGED <<request, io, range, tx, data, command, cursor, size, p, tested, out, line>>

HasRead(name) == command.name = name /\ TransferDone
Succeeded == io.result = "success"
Bytes(n) == [i \in 1 .. n |-> data[i - 1]]

(* SIGINT arrived before the command polled interrupted. *)
Interrupted ==
    /\ TransferDone /\ command.name # "rb" /\ command.name # "r"
    /\ Finish("interrupted")
    /\ UNCHANGED <<request, io, range, tx, data, command, cursor, size, p, tested, out, line>>

(* r polls before each word that it prints, rb before each fwrite.  A word *)
(* and what fwrite takes may be any number of bytes.                       *)
InterruptedPrinting ==
    /\ HasRead("r") \/ HasRead("rb")
    /\ Transferred > 0
    /\ \E n \in 0 .. Transferred - 1 : out' = out \o Bytes(n)
    /\ Finish("interrupted")
    /\ UNCHANGED <<request, io, range, tx, data, command, cursor, size, p, tested, line>>

(* The loop goes on, or ends because the read failed. *)
Continue(newCursor) ==
    /\ IF Succeeded
       THEN /\ size' = size - Transferred /\ Goto("loop") /\ UNCHANGED outcome
       ELSE Finish("failure") /\ UNCHANGED size
    /\ cursor' = newCursor
    /\ UNCHANGED <<request, io, range, tx, data, command, p, tested>>

PrintWords ==
    /\ HasRead("r") /\ UNCHANGED line
    /\ out' = out \o Bytes(Transferred)
    /\ Continue(cursor + Transferred)

(* memctl_dump_binary reads from the same address again. *)
DumpBinary ==
    /\ HasRead("rb") /\ UNCHANGED line
    /\ out' = out \o Bytes(Transferred)
    /\ Continue(cursor)

(***************************************************************************)
(* memctl_dump prints a line when it is full or nothing is left.  A line   *)
(* that a failed read leaves unfinished is not printed.  The failure is    *)
(* reported when the bytes that did arrive are used up and there are more  *)
(* to come: after the last of them nobody looks at it.                     *)
(***************************************************************************)
LineStart(a) == (a \div Line) * Line

(* A faulty one, which prints no line that is not full. *)
UnfinishedToo(text, end) == Least(Len(text), end - LineStart(end))

(* How much of the text up to an address is in a line that is not printed yet. *)
Unfinished(text, end) ==
    IF size = Transferred THEN 0 ELSE Least(Len(text), end - LineStart(end))

DumpLines ==
    /\ HasRead("rd")
    /\ LET new == cursor + Transferred
           text == line \o Bytes(Transferred)
           full == Len(text) - Unfinished(text, new)
       IN  IF Transferred = 0
           THEN /\ Finish("failure")
                /\ UNCHANGED <<request, io, range, tx, data, command, cursor, size, p,
                               tested, out, line>>
           ELSE /\ out' = out \o SubSeq(text, 1, full)
                /\ line' = SubSeq(text, full + 1, Len(text))
                /\ IF Succeeded \/ Transferred < size THEN Continue(new)
                   ELSE /\ cursor' = new /\ size' = 0 /\ Finish("success")
                        /\ UNCHANGED <<request, io, range, tx, data, command, p, tested>>

(* The whole instructions are printed; the bytes after them are read again. *)
Disassemble ==
    /\ HasRead("ri")
    /\ LET whole == Transferred - (Transferred % Instruction) IN
       /\ out' = out \o Bytes(whole)
       /\ IF ~Succeeded THEN Finish("failure") /\ UNCHANGED <<cursor, size>>
          ELSE IF Transferred = size THEN Finish("success") /\ UNCHANGED <<cursor, size>>
          ELSE /\ cursor' = cursor + whole /\ size' = size - whole
               /\ Goto("loop") /\ UNCHANGED outcome
    /\ UNCHANGED <<request, io, range, tx, data, command, p, tested, line>>

(* What was in the buffer before may end the string too. *)
ReadString ==
    /\ HasRead("rs")
    /\ \E old \in SUBSET {i \in 1 .. Transferred : data[i - 1] = -1} :
       LET nuls == old \cup {i \in 1 .. Transferred : data[i - 1] \in Nuls}
           len == IF nuls = {} THEN Transferred ELSE Min(nuls) - 1
       IN  /\ out' = out \o Bytes(len)
           /\ size' = size - Transferred /\ cursor' = cursor + Transferred
           /\ IF ~Succeeded THEN Finish("failure")
              ELSE IF len < Transferred \/ size' = 0 THEN Finish("success")
              ELSE Goto("loop") /\ UNCHANGED outcome
    /\ UNCHANGED <<request, io, range, tx, data, command, p, tested, line>>

-----------------------------------------------------------------------------
(* f *)

RangeTooSmall ==
    cursor = command.start /\ command.start + command.width - 1 >= command.end

FindNothing ==
    /\ Running({"f"}) /\ RangeTooSmall
    /\ Finish("success")
    /\ UNCHANGED <<request, io, range, tx, data, command, cursor, size, p, tested, out, line>>

FindRead ==
    /\ Running({"f"}) /\ ~RangeTooSmall
    /\ PerformTransfer(cursor, Least(command.end - cursor, PageSize))
    /\ UNCHANGED <<request, range, tx, data, mcVars>>

(* The windows in the buffer, as offsets, and one of them with its bytes. *)
Windows ==
    {q \in p .. Transferred - command.width : (q - p) % command.align = 0}
Window(q) == [at |-> cursor + q, bytes |-> [i \in 0 .. command.width - 1 |-> data[q + i]]]

(* A faulty end of a read: the last word is kept after any of them.         *)
KeepLastWordAlways ==
    IF command.align < command.width
    THEN /\ p' = command.align - command.width
         /\ data' = [i \in DOMAIN data |-> IF i < 0 THEN data[PageSize + i] ELSE data[i]]
    ELSE p' = 0 /\ UNCHANGED data

(* After a full page the last word stays, for the windows across its end. *)
KeepLastWord ==
    IF command.align < command.width /\ Transferred = PageSize
    THEN /\ p' = command.align - command.width
         /\ data' = [i \in DOMAIN data |-> IF i < 0 THEN data[PageSize + i] ELSE data[i]]
    ELSE p' = 0 /\ UNCHANGED data

FindWindows ==
    /\ HasRead("f")
    /\ tested' = IF Transferred > 0 THEN tested \cup {Window(q) : q \in Windows} ELSE tested
    /\ IF Transferred > 0 THEN KeepLastWord ELSE p' = 0 /\ UNCHANGED data
    /\ IF io.next = 0 \/ io.next >= command.end
       THEN Finish("success") /\ UNCHANGED cursor
       ELSE cursor' = io.next /\ Goto("loop") /\ UNCHANGED outcome
    /\ UNCHANGED <<request, io, range, tx, command, size, out, line>>

-----------------------------------------------------------------------------
CommandStep ==
    \/ Read \/ NothingLeft \/ Interrupted \/ InterruptedPrinting
    \/ PrintWords \/ DumpBinary \/ DumpLines \/ Disassemble \/ ReadString
    \/ FindNothing \/ FindRead \/ FindWindows

Next ==
    \/ ReadCommand \/ FindCommand
    \/ CommandStep
    \/ TransferStep /\ UNCHANGED mcVars

(* The program runs on, and the calls it makes return. *)
Spec == Init /\ [][Next]_vars /\ WF_vars(Next)

-----------------------------------------------------------------------------
(***************************************************************************)
(* Whatever command and memory, the next access of a transfer is one that  *)
(* the checks of its function allow: on the heap, in memory that looks     *)
(* safe and is mapped, not in an inaccessible special region and not wider *)
(* than a special region is accessed unless the user chose the width, not  *)
(* in guarded memory.  The range was worked out before, for many pages.    *)
(***************************************************************************)
Chunk == IF kind \in {"physical_unsafe", "physical_safe"} THEN WordChunk ELSE PageChunk
Narrow(region) == region = Ordinary \/ access # 0 \/ region >= Chunk
SafeTransfer ==
    At("transfer") /\ tx.left > 0 =>
        LET page == mem[PageOf(tx.address)] IN
        CASE kind = "heap" -> IsHeap(PageOf(tx.address))
          [] kind = "safe" -> LooksSafe(PageOf(tx.address)) /\ page.mapped
          [] kind = "all" -> page.mapped /\ Narrow(page.virtual) /\ Narrow(page.physical)
          [] kind = "physical_safe" -> page.cache = "plain"
          [] OTHER -> TRUE

(***************************************************************************)
(* Each window that f compares with the value consists of the bytes at the *)
(* address it would report, although it may span two reads, holes between  *)
(* them and the end of what was read; but for bytes of a page whose        *)
(* transfer fails, which are reported as read and are not.                 *)
(***************************************************************************)
Fails(a) == mem[PageOf(a)].fails
WindowsTrue ==
    \A w \in tested : \A i \in 0 .. command.width - 1 :
        w.bytes[i] = w.at + i \/ Fails(w.at + i)

Readable(a) ==
    LET page == mem[PageOf(a)] IN
    CASE kind = "safe" -> LooksSafe(PageOf(a)) /\ page.mapped
      [] kind = "all" ->
            /\ page.mapped
            /\ access = 0 => page.virtual # 0 /\ page.physical # 0
            /\ \/ page.physical = Ordinary \/ page.virtual \in {Ordinary, 0, page.physical}
      [] kind = "physical_safe" -> page.cache = "plain"
NoSurprise ==
    \A n \in 0 .. Pages - 1 : ~mem[n].fails /\ mem[n].vm # "error" /\ mem[n].cache # "unknown"

(***************************************************************************)
(* No window that f looks at is wrong but where a transfer failed, and     *)
(* when it ends it has looked at every aligned window of the range whose   *)
(* bytes can all be read, provided that no transfer of memory that looked  *)
(* readable failed and no lookup of a region or attribute did.             *)
(***************************************************************************)
FindExact ==
    /\ WindowsTrue
    /\ command.name = "f" /\ outcome = "success" /\ NoSurprise =>
           \A a \in command.start .. command.end - command.width :
               /\ a % command.align = 0
               /\ \A i \in 0 .. command.width - 1 : Readable(a + i)
               => \E w \in tested : w.at = a

(***************************************************************************)
(* What a reading command prints are the bytes from its start on, each of  *)
(* them once and in order, and all of them (rs: up to the NUL, ri: whole   *)
(* instructions) if it reports success; rb is left to its own property.    *)
(* After a failed read, which is the last, what it prints of the page that *)
(* failed may be anything.  Only rd may report success after such a read.  *)
(***************************************************************************)
Unread == IF pc \in {"perform", "end"} /\ io.left = 0 /\ ~Succeeded
          THEN {a \in Nat : Fails(a)} ELSE {}
Right(byte, a) == byte = a \/ a \in Unread
InOrder == \A i \in DOMAIN out : Right(out[i], command.start + i - 1)
OutputFaithful ==
    command.name \in Readers \ {"rb"} =>
        /\ InOrder
        /\ LET n == command.end - command.start IN
           outcome = "success" =>
              /\ command.name = "rd" \/ Succeeded
              /\ CASE command.name = "rs" -> Len(out) = n \/ command.start + Len(out) \in Nuls
                   [] command.name = "ri" -> Len(out) = n - (n % Instruction)
                   [] OTHER -> Len(out) = n

(* Dump raw kernel memory to stdout (read.h, memctl_dump_binary). *)
BinaryInOrder == command.name = "rb" => InOrder

(***************************************************************************)
(* Every command ends.  The transfer of physical memory whose attributes   *)
(* cannot be had does not: it goes on to ask for them.                     *)
(***************************************************************************)
Asking == kind = "physical_safe" /\ \E n \in 0 .. Pages - 1 : mem[n].cache = "unknown"
Returns == <>(outcome # "running" \/ Asking)

=============================================================================
