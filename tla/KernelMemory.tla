----------------------------- MODULE KernelMemory -----------------------------
(***************************************************************************)
(* Transfers of kernel memory: task_perform_transfer, which alternates     *)
(* between a function that finds how much can be transferred from an       *)
(* address on, and one that transfers it; the range functions of           *)
(* kernel_memory.c (whole, heap, safe, all, cache); and the two transfer   *)
(* functions, page by page through Mach and word by word through calls.    *)
(*                                                                         *)
(* Memory is a number of pages, which do not change during a transfer.     *)
(* The tables of special regions hold whole pages, and so do the models.   *)
(* A byte is known by its address: data maps the offsets of the caller's   *)
(* buffer to the addresses of the bytes last stored there.                 *)
(***************************************************************************)
EXTENDS Integers, FiniteSetsExt

CONSTANTS
    PageSize,  \* page_size, a power of two
    Pages,     \* bound: the memory's pages
    Word,      \* sizeof(kword_t), a power of two not above PageSize
    Ordinary   \* the access of memory outside of the special regions

ASSUME PageSizeAssumption == PageSize \in Nat \ {0}
ASSUME WordAssumption == Word \in 1 .. PageSize
(* Since both are powers of two, the words of a page fill it. *)
ASSUME PowersAssumption == \A w \in {1, 2, 4, 8} : w <= Word => PageSize % w = 0
ASSUME PagesAssumption == Pages \in Nat \ {0}
ASSUME OrdinaryAssumption == Ordinary \notin Int

Top == Pages * PageSize
PageOf(a) == a \div PageSize
NextPage(a) == (PageOf(a) + 1) * PageSize
Least(a, b) == IF a < b THEN a ELSE b

(***************************************************************************)
(* What there is to know of a page: the region of the kernel's map it is   *)
(* in (none, one without read permission, other memory, or a heap region   *)
(* of either tag; "error": looking it up fails), whether pmap_find_phys    *)
(* has a frame for it, its special regions, what pmap_cache_attributes     *)
(* says of it, and whether transfers fail although nothing of this tells.  *)
(***************************************************************************)
PageType == [vm : {"hole", "error", "barred", "other", "zone", "kalloc"}, mapped : BOOLEAN,
             virtual : {Ordinary} \cup 0 .. Word, physical : {Ordinary} \cup 0 .. Word,
             cache : {"plain", "guarded", "unknown"}, fails : BOOLEAN]

VARIABLES
    pc,
    mem,     \* the pages
    kind,    \* which of the kernel_read functions is called
    access,  \* its access_width argument
    io,      \* task_perform_transfer: start, address, left, next, result
    range,   \* the transfer_range function: address, left, size, access
    tx,      \* the transfer function: address, left, access
    data     \* the buffer; -1 stands for what it held before

kmVars == <<pc, mem, kind, access, io, range, tx, data>>
request == <<mem, kind, access>>

At(step) == pc = step
Goto(step) == pc' = step

Kinds == {"unsafe", "heap", "safe", "all", "physical_unsafe", "physical_safe"}

(* The end of the run of pages in S from page p on. *)
RunEnd(p, S) == PageSize * Min({q \in p + 1 .. Pages : q \notin S})

-----------------------------------------------------------------------------
(* task_perform_transfer *)

PerformTransfer(address, size) ==
    /\ io' = [start |-> address, address |-> address, left |-> size,
              next |-> 0, result |-> "success"]
    /\ Goto("perform")

FindRange ==
    /\ At("perform") /\ io.left > 0
    /\ range' = [address |-> io.address, left |-> io.left, size |-> 0, access |-> 0]
    /\ io' = [io EXCEPT !.next = io.address + io.left]
    /\ Goto("range")
    /\ UNCHANGED <<request, tx, data>>

(* The loop of a range function ends, with all that was asked for or less. *)
RangeEnds(result, next) ==
    /\ io' = [io EXCEPT !.next = next, !.result = result]
    /\ Goto("ranged")
    /\ UNCHANGED <<request, range, tx, data>>

RangeComplete ==
    /\ At("range") /\ range.left = 0
    /\ RangeEnds("success", io.next)

(* It goes on after size more bytes. *)
RangeGrows(size, newAccess) ==
    /\ range' = [address |-> range.address + size, left |-> range.left - size,
                 size |-> range.size + size, access |-> newAccess]
    /\ UNCHANGED <<pc, request, io, tx, data>>

(* A partial range is transferred, but nothing after it. *)
StartTransfer ==
    /\ At("ranged") /\ (io.result = "success" \/ range.size > 0)
    /\ io' = [io EXCEPT !.left = IF io.result = "success" THEN @ ELSE range.size]
    /\ tx' = [address |-> io.address, left |-> range.size,
              access |-> IF access = 0 THEN range.access ELSE access]
    /\ Goto("transfer")
    /\ UNCHANGED <<request, range, data>>

(* A faulty one, which takes a failure for a range of no bytes. *)
NothingToTransferYet ==
    /\ At("ranged") /\ io.result # "success" /\ range.size = 0
    /\ Goto("perform")
    /\ UNCHANGED <<request, io, range, tx, data>>

NothingToTransfer ==
    /\ At("ranged") /\ io.result # "success" /\ range.size = 0
    /\ io' = [io EXCEPT !.left = 0]
    /\ Goto("perform")
    /\ UNCHANGED <<request, range, tx, data>>

(* The transfer function returns with size bytes reported. *)
TransferReturns(size, result) ==
    /\ io' = [io EXCEPT !.address = @ + size,
                        !.left = IF result = "success" THEN @ - size ELSE 0,
                        !.result = IF result = "success" THEN @ ELSE result]
    /\ Goto("perform")

TransferComplete ==
    /\ At("transfer") /\ tx.left = 0
    /\ TransferReturns(tx.address - io.address, "success")
    /\ UNCHANGED <<request, range, tx, data>>

(* The caller's size and the address after what was transferred. *)
Transferred == io.address - io.start
TransferDone == At("perform") /\ io.left = 0

-----------------------------------------------------------------------------
(* The range functions *)

(* task_transfer_range_all, of the unsafe functions *)
RangeWhole ==
    /\ At("range") /\ kind \in {"unsafe", "physical_unsafe"} /\ range.left > 0
    /\ RangeGrows(range.left, 0)

(* The regions of the kernel's memory map: runs of pages that look alike. *)
InMap == {p \in 0 .. Pages - 1 : mem[p].vm \notin {"hole", "error"}}
RegionEnd(p) == RunEnd(p, {q \in 0 .. Pages - 1 : mem[q].vm = mem[p].vm})

(* region_is_heap and region_looks_safe *)
IsHeap(p) == mem[p].vm \in {"zone", "kalloc"}
LooksSafe(p) == mem[p].vm \in {"other", "zone", "kalloc"}
Viable(p) == IF kind = "heap" THEN IsHeap(p) ELSE LooksSafe(p)

(***************************************************************************)
(* What transfer_range_heap and transfer_range_safe make of the region at  *)
(* or after the address: it must begin there and be viable.                *)
(***************************************************************************)
RangeOutsideMap ==
    /\ At("range") /\ kind \in {"heap", "safe"} /\ range.left > 0
    /\ LET here == PageOf(range.address)
           above == {p \in InMap : p >= here}
           first == Min(above)
       IN  IF mem[here].vm = "error" THEN RangeEnds("error", NextPage(range.address))
           ELSE IF above = {} THEN RangeEnds("unmapped", 0)
           ELSE IF first > here
                THEN RangeEnds("unmapped",
                               IF Viable(first) THEN first * PageSize ELSE RegionEnd(first))
           ELSE ~Viable(here) /\ RangeEnds("protection", RegionEnd(here))

InViable == Viable(PageOf(range.address))
ViableSize == Least(range.left, RegionEnd(PageOf(range.address)) - range.address)

RangeHeap ==
    /\ At("range") /\ kind = "heap" /\ range.left > 0 /\ InViable
    /\ RangeGrows(ViableSize, 0)

(* transfer_range_safe truncates the region at the first unmapped page. *)
RangeSafe ==
    /\ At("range") /\ kind = "safe" /\ range.left > 0 /\ InViable
    /\ LET end == range.address + ViableSize
           unmapped == {p \in PageOf(range.address) .. PageOf(end - 1) : ~mem[p].mapped}
           p == Min(unmapped)
           size == IF p * PageSize > range.address THEN p * PageSize - range.address ELSE 0
       IN  \/ unmapped = {} /\ RangeGrows(ViableSize, 0)
           \/ /\ unmapped # {}
              /\ range' = [range EXCEPT !.address = @ + size, !.left = @ - size,
                                        !.size = @ + size]
              /\ io' = [io EXCEPT !.next = (p + 1) * PageSize, !.result = "unmapped"]
              /\ Goto("ranged")
              /\ UNCHANGED <<request, tx, data>>

(***************************************************************************)
(* transfer_range_all looks at one piece at a time.  Since every special   *)
(* region begins and ends with a page, a piece ends at the end of its page *)
(* or of the transfer, and is in a region altogether or not at all.        *)
(***************************************************************************)
PieceSize == Least(range.left, NextPage(range.address) - range.address)
InSpecial == mem[PageOf(range.address)].virtual # Ordinary
SpecialEnd == LET here == PageOf(range.address)
              IN  RunEnd(here, {p \in 0 .. Pages - 1 : mem[p].virtual = mem[here].virtual})

VirtualAccess == IF InSpecial THEN mem[PageOf(range.address)].virtual ELSE 0
PhysicalAccess == LET p == mem[PageOf(range.address)].physical
                  IN  IF p = Ordinary THEN VirtualAccess ELSE p

Barred(region) == access = 0 /\ region = 0

RangeAllStops ==
    /\ At("range") /\ kind = "all" /\ range.left > 0
    /\ LET page == mem[PageOf(range.address)]
           here == NextPage(range.address)
       IN  IF Barred(page.virtual) THEN RangeEnds("inaccessible", SpecialEnd)
           ELSE IF ~page.mapped THEN RangeEnds("unmapped", here)
           ELSE /\ \/ Barred(page.physical)
                   \/ page.physical # Ordinary /\ VirtualAccess \notin {0, page.physical}
                /\ RangeEnds("inaccessible", here)

(* A faulty transfer_range_all, which does not look for special regions. *)
RangeAllVirtual ==
    /\ At("range") /\ kind = "all" /\ range.left > 0
    /\ mem[PageOf(range.address)].mapped /\ RangeGrows(PieceSize, 0)

RangeAll ==
    /\ At("range") /\ kind = "all" /\ range.left > 0
    /\ LET page == mem[PageOf(range.address)] IN
       /\ ~Barred(page.virtual) /\ page.mapped /\ ~Barred(page.physical)
       /\ page.physical # Ordinary => VirtualAccess \in {0, page.physical}
    /\ IF PhysicalAccess # range.access /\ range.access # 0
       THEN RangeEnds("success", range.address)
       ELSE RangeGrows(PieceSize, PhysicalAccess)

(* physical_transfer_range_cache_safe: a failing call ends the range too. *)
RangeCache ==
    /\ At("range") /\ kind = "physical_safe" /\ range.left > 0
    /\ LET cache == mem[PageOf(range.address)].cache IN
       \/ cache = "unknown" /\ RangeEnds("success", io.next)
       \/ cache = "guarded" /\ RangeEnds("protection", NextPage(range.address))
       \/ /\ cache = "plain"
          /\ RangeGrows(PieceSize, 0)

-----------------------------------------------------------------------------
(* The transfer functions *)

(* n bytes from the address of tx reach the buffer. *)
Store(n) ==
    data' = [i \in DOMAIN data |->
                LET a == io.start + i
                IN  IF a \in tx.address .. tx.address + n - 1 THEN a ELSE data[i]]

Advance(n) == tx' = [tx EXCEPT !.address = @ + n, !.left = @ - n]

(* task_transfer: up to the end of the page and the access width. *)
PageChunk ==
    LET inPage == Least(tx.left, NextPage(tx.address) - tx.address)
    IN  IF tx.access = 0 THEN inPage ELSE Least(tx.access, inPage)

(***************************************************************************)
(* A failed chunk: mach_vm_read_overwrite copies nothing and leaves        *)
(* out_size as it was, at the size of the chunk.  That is the size         *)
(* reported, whatever was transferred before.                              *)
(***************************************************************************)
TransferPage ==
    /\ At("transfer") /\ kind \in {"unsafe", "heap", "safe", "all"} /\ tx.left > 0
    /\ \/ /\ ~mem[PageOf(tx.address)].fails
          /\ Store(PageChunk) /\ Advance(PageChunk)
          /\ UNCHANGED <<pc, io>>
       \/ /\ mem[PageOf(tx.address)].fails
          /\ TransferReturns(PageChunk, "error")
          /\ UNCHANGED <<tx, data>>
    /\ UNCHANGED <<request, range>>

(***************************************************************************)
(* transfer_physical_words_unsafe: aligned words, of the largest size that *)
(* a call can return (trunc_32 only lowers Word).                          *)
(***************************************************************************)
WordSizes == {1, 2, 4, 8} \cap (1 .. Word)
WordChunk ==
    Max({w \in WordSizes : w <= tx.left /\ tx.address % w = 0 /\ (tx.access = 0 \/ w <= tx.access)})

TransferWord ==
    /\ At("transfer") /\ kind \in {"physical_unsafe", "physical_safe"} /\ tx.left > 0
    /\ \/ /\ ~mem[PageOf(tx.address)].fails
          /\ Store(WordChunk) /\ Advance(WordChunk)
          /\ UNCHANGED <<pc, io>>
       \/ /\ mem[PageOf(tx.address)].fails
          /\ TransferReturns(tx.address - io.address, "error")
          /\ UNCHANGED <<tx, data>>
    /\ UNCHANGED <<request, range>>

TransferStep ==
    \/ FindRange \/ RangeComplete
    \/ RangeWhole \/ RangeOutsideMap \/ RangeHeap \/ RangeSafe
    \/ RangeAllStops \/ RangeAll \/ RangeCache
    \/ StartTransfer \/ NothingToTransfer
    \/ TransferPage \/ TransferWord \/ TransferComplete

=============================================================================
