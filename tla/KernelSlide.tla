------------------------------ MODULE KernelSlide ------------------------------
(***************************************************************************)
(* kernel_slide.c: how far the running kernel is from where its image says *)
(* it is.  The kernel may tell (TASK_DYLD_INFO).  If not, on macOS the end *)
(* of the kernel's region is compared with the symbol at the end of the    *)
(* image; with a kernelcache memory is searched for the kernel's header,   *)
(* in three ways, each less safe than the one before.                      *)
(*                                                                         *)
(* The running kernel, kernel_init and the table of the kernel's symbols   *)
(* complete the module: the table is asked for the last symbol, and what   *)
(* kernel_init makes of the slide is where clients look for a symbol.      *)
(***************************************************************************)
EXTENDS SymbolTable

CONSTANTS
    Environments,     \* the kernels it may run on
    page_size,
    slide_increment,
    max_slide,
    LastSymbol,       \* _last_kernel_symbol
    MaxInits          \* bound: calls of kernel_slide_init

LastSymbolRequest == [what |-> "symbol", symbol |-> LastSymbol, size |-> FALSE]

ASSUME SlideAssumption ==
    /\ page_size \in Nat \ {0} /\ slide_increment \in Nat \ {0} /\ max_slide \in Nat
    /\ slide_increment % page_size = 0
    /\ LastSymbolRequest \in Requests
    /\ \A r \in Requests : r.what = "add" => r.symbol # LastSymbol  \* the finders add others

KernelHeader == -1
Unmapped == -2
UnsafeScanStart == -1

(* The mask of a valid slide admits twice the slides that are tried. *)
is_kernel_slide(slide) ==
    slide \in 0 .. 2 * max_slide - slide_increment /\ slide % slide_increment = 0

round_down(a, unit) == a - (a % unit)
round2_up(a, unit) == round_down(a + unit - 1, unit)

-----------------------------------------------------------------------------
(* What is read of a running kernel.  Its memory holds what is worth        *)
(* reading; all other addresses in it hold 0.                               *)
ReadIn(e, address) == IF address \in DOMAIN e.memory THEN e.memory[address] ELSE 0

(* The region that holds the address, or the next. *)
RegionIn(e, address) == First({i \in DOMAIN e.regions : address < e.regions[i].end})

(* find_kernel_region: the first region of the size and the protection of   *)
(* the kernel's.                                                            *)
KernelRegion(e) == First({i \in DOMAIN e.regions : e.regions[i].kernel})

(* Regions of the heap at depth 0 that are readable, writable and resident  *)
(* in part may hold zones ...                                               *)
IsZone(r) == r.zone /\ r.depth = 0 /\ r.writable /\ r.resident > 0

(* ... and start with a pointer to zone_array, which points back.           *)
PointsBackIn(e, region, r) ==
    /\ region.start < ReadIn(e, r.start) /\ ReadIn(e, r.start) < region.end
    /\ ReadIn(e, ReadIn(e, r.start)) = r.start

(* Pointers into a region at the start of a page of the heap proper.        *)
IsHeap(r) == r.zone /\ r.depth = 1 /\ r.writable /\ r.resident * page_size = r.end - r.start
HeapPages(e) ==
    UNION {{a \in e.heap[i].start .. e.heap[i].end - 1 :
               (a - e.heap[i].start) % page_size = 0} :
           i \in {j \in DOMAIN e.heap : IsHeap(e.heap[j])}}
PointersIn(e, region) == {ReadIn(e, a) : a \in HeapPages(e)} \cap (region.start .. region.end - 1)

(* find_kernelcache_pre_header_segments *)
PreHeaderIn(m, base) == {i \in Segments(m) : m[i].vmsize # 0 /\ m[i].vmaddr < base}
StartOf(m, segments) == Min({m[i].vmaddr : i \in segments})
EndOf(m, segments) == Max({m[i].vmaddr + m[i].vmsize : i \in segments})

(***************************************************************************)
(* What is taken for granted of a running kernel: it lies where its image  *)
(* says, moved by a slide that is valid, and tells no other valid slide.   *)
(***************************************************************************)
RegionEndsKernel(e) ==
    \A entry \in ImageContents(e.image).entries :
        LET i == RegionIn(e, macho_find_base(e.image))
            distance == e.regions[i].end - round2_up(entry.address, page_size)
        IN entry.symbol = LastSymbol /\ i # NULL /\ is_kernel_slide(distance)
              => distance = e.slide

(* The scans find a header that is the kernel's or none.  Good pointers are *)
(* those into the kernel: from a zone array; from the heap, if there are    *)
(* any, the lowest to what is before the header.                            *)
ScansFindKernel(e) ==
    LET m == e.image
        base == macho_find_base(m)
        end == EndOf(m, Segments(m))
        before == PreHeaderIn(m, base)
        region == e.regions[KernelRegion(e)]
        header_found == ReadIn(e, base + e.slide) = KernelHeader
    IN /\ base < end
       /\ before # {} => EndOf(m, before) <= base
       /\ \A i \in Segments(m) : m[i].fileoff + m[i].filesize \in Nat
       /\ \A a \in DOMAIN e.memory :
             e.memory[a] \in Int /\ (e.memory[a] = KernelHeader => a = base + e.slide)
       /\ e.pointers_good /\ KernelRegion(e) # NULL =>
             /\ \A i \in DOMAIN e.heap :
                   IsZone(e.heap[i]) /\ PointsBackIn(e, region, e.heap[i])
                      => ReadIn(e, e.heap[i].start) < end + e.slide
             /\ before # {} /\ PointersIn(e, region) # {} =>
                   /\ end + e.slide <= region.end
                   /\ Min(PointersIn(e, region))
                         \in StartOf(m, before) + e.slide .. EndOf(m, before) + e.slide - 1
                   /\ header_found \/ EndOf(m, before) - StartOf(m, before) <= end - base
             /\ e.before_16_3 => header_found /\ region.start <= base + e.slide

ASSUME EnvironmentsAssumption ==
    \A e \in Environments :
        /\ e.image \in Images /\ is_kernel_slide(e.slide)
        /\ e.dyld_info # 0 /\ is_kernel_slide(e.dyld_info) => e.dyld_info = e.slide
        /\ e.regions \in Seq(Range(e.regions))
        /\ \A i \in DOMAIN e.regions : e.regions[i].start \in Int /\ e.regions[i].end \in Int
        /\ IF e.kernelcache THEN ScansFindKernel(e) ELSE RegionEndsKernel(e)

-----------------------------------------------------------------------------
VARIABLES
    env,           \* the running kernel: image, slide, what it tells, its memory
    kernel,        \* kernel.base and kernel.slide
    kernel_slide,
    spc,
    scan,          \* locals: the kernel's region, the heap's region, the next address or slide
    probed,        \* history: where check_kernel_base looked
    inits,         \* history: how often kernel_slide_init was called,
    slide_result,  \* what it returned,
    was_invalid    \* and whether it ever rejected a slide it had computed

slideVars == <<env, kernel, kernel_slide, spc, scan, probed, inits, slide_result, was_invalid>>
allVars == <<slideVars, tableVars, searchVars>>

Read(address) == ReadIn(env, address)

NoScan == [start |-> 0, end |-> 0, zone |-> 1, next |-> 0]

SlideInit ==
    /\ TableInit
    /\ env \in Environments /\ image = env.image
    /\ kernel = [base |-> 0, slide |-> 0] /\ kernel_slide = 0
    /\ spc = "idle" /\ scan = NoScan /\ probed = {}
    /\ inits = 0 /\ slide_result = "none" /\ was_invalid = FALSE

-----------------------------------------------------------------------------
UnchangedTable == UNCHANGED tableVars /\ UNCHANGED searchVars
UnchangedSearch == UNCHANGED <<env, kernel_slide, spc, scan, probed, inits, slide_result,
                               was_invalid>>

(* kernel_init: the base of the image is moved by the slide known so far.   *)
KernelInit ==
    /\ CollectSegments
    /\ kernel' = [base |-> macho_find_base(image) + kernel_slide, slide |-> kernel_slide]
    /\ UnchangedSearch

(* A faulty reset, which forgets the slide the base has already. *)
BaseAgain == kernel.base + kernel_slide

(* kernel_init for the kernel that is initialized already: reset the base.  *)
NewBase == (kernel.base - kernel.slide) + kernel_slide
ResetBase ==
    /\ pc = "ready" /\ spc = "idle"
    /\ kernel' = [base |-> NewBase, slide |-> kernel_slide]
    /\ UnchangedSearch /\ UnchangedTable

-----------------------------------------------------------------------------
Searching_(p, s) == spc' = p /\ scan' = s /\ UNCHANGED <<env, kernel, inits>>
SlideReturns(result) ==
    /\ Searching_("idle", NoScan)
    /\ slide_result' = result
    /\ was_invalid' = (was_invalid \/ (result = "invalid"))
Goto(p, s) ==
    /\ Searching_(p, s)
    /\ UNCHANGED <<slide_result, was_invalid>>

(* kernel_slide_init and kernel_slide_init_task_dyld_info *)
KernelSlideInit ==
    /\ pc = "ready" /\ spc = "idle" /\ answer # Aborted /\ inits < MaxInits
    /\ inits' = inits + 1 /\ probed' = {}
    /\ LET told == env.dyld_info # 0 /\ is_kernel_slide(env.dyld_info)
           known == kernel_slide # 0
       IN /\ kernel_slide' = IF ~known /\ told THEN env.dyld_info ELSE kernel_slide
          /\ slide_result' = IF known \/ told THEN "ok" ELSE "none"
          /\ spc' = CASE known \/ told -> "idle"
                      [] ~(known \/ told) /\ env.kernelcache -> "region"
                      [] ~(known \/ told) /\ ~env.kernelcache -> "macos"
    /\ UNCHANGED <<env, kernel, scan, was_invalid>> /\ UnchangedTable

(* validate_kernel_slide: a slide that is not valid stays in kernel_slide.  *)
Validate ==
    /\ spc = "validate"
    /\ SlideReturns(IF is_kernel_slide(kernel_slide) THEN "ok" ELSE "invalid")
    /\ UNCHANGED <<kernel_slide, probed>> /\ UnchangedTable

-----------------------------------------------------------------------------
(* kernel_slide_init_macos                                                  *)
AskLastSymbol ==
    /\ spc = "macos" /\ pc = "ready"
    /\ request' = LastSymbolRequest
    /\ pc' = "symbol" /\ answer' = NoAnswer
    /\ Goto("macos_symbol", scan)
    /\ UNCHANGED <<image, table, allocated, strings, noted, kernel_slide, probed>>
    /\ UNCHANGED searchVars

NoLastSymbol ==
    /\ spc = "macos_symbol" /\ pc = "ready" /\ answer = NotFound
    /\ SlideReturns("failed")
    /\ UNCHANGED <<kernel_slide, probed>> /\ UnchangedTable

(* The region of the base of the image or the next; kernel_symbol has slid. *)
RegionOf(address) == RegionIn(env, address)
MacosRegion ==
    /\ spc = "macos_symbol" /\ pc = "ready" /\ answer.result = "ok"
    /\ RegionOf(kernel.base) # NULL
    /\ kernel_slide' = env.regions[RegionOf(kernel.base)].end
                       - round2_up(answer.address + kernel.slide, page_size)
    /\ Goto("validate", scan)
    /\ UNCHANGED probed /\ UnchangedTable

NoMacosRegion ==
    /\ spc = "macos_symbol" /\ pc = "ready" /\ answer.result = "ok"
    /\ RegionOf(kernel.base) = NULL
    /\ SlideReturns("failed")
    /\ UNCHANGED <<kernel_slide, probed>> /\ UnchangedTable

-----------------------------------------------------------------------------
(* kernel_slide_init_ios; an interrupt ends find_kernel_region, too.        *)
FindKernelRegion ==
    /\ spc = "region"
    /\ KernelRegion(env) # NULL
    /\ Goto("zone", [NoScan EXCEPT !.start = env.regions[KernelRegion(env)].start,
                                   !.end = env.regions[KernelRegion(env)].end])
    /\ UNCHANGED <<kernel_slide, probed>> /\ UnchangedTable

NoKernelRegion ==
    /\ spc = "region"
    /\ SlideReturns("failed")
    /\ UNCHANGED <<kernel_slide, probed>> /\ UnchangedTable

(* check_kernel_base: the words of the header.  What comes next otherwise?  *)
CheckKernelBase(base, otherwise) ==
    /\ probed' = probed \cup {base}
    /\ kernel_slide' = IF Read(base) = KernelHeader THEN base - kernel.base ELSE kernel_slide
    /\ Goto(IF Read(base) = KernelHeader THEN "validate" ELSE spc, otherwise)

(* kernel_slide_init_ios_heap_scan *)
PointsBack(r) == PointsBackIn(env, scan, r)
NotZoneArray ==
    /\ spc = "zone" /\ scan.zone \in DOMAIN env.heap
    /\ LET r == env.heap[scan.zone] IN ~IsZone(r) \/ ~PointsBack(r)
    /\ Goto("zone", [scan EXCEPT !.zone = @ + 1])
    /\ UNCHANGED <<kernel_slide, probed>> /\ UnchangedTable

ZoneArray ==
    /\ spc = "zone" /\ scan.zone \in DOMAIN env.heap
    /\ LET r == env.heap[scan.zone] IN
          /\ IsZone(r) /\ PointsBack(r)
          /\ Goto("backwards", [scan EXCEPT !.next = round_down(Read(r.start), page_size)])
    /\ UNCHANGED <<kernel_slide, probed>> /\ UnchangedTable

(* From there, find_kernel_slide_from_heap_zone goes back page by page.     *)
Backwards ==
    /\ spc = "backwards" /\ scan.next >= scan.start
    /\ CheckKernelBase(scan.next, [scan EXCEPT !.next = @ - page_size])
    /\ UnchangedTable

NotBackwards ==
    /\ spc = "backwards" /\ scan.next < scan.start
    /\ Goto("zone", [scan EXCEPT !.zone = @ + 1])
    /\ UNCHANGED <<kernel_slide, probed>> /\ UnchangedTable

(* kernel_slide_init_ios_heap_scan_2_unsafe: the lowest of the pointers. *)
PreHeader == PreHeaderIn(image, kernel.base)
preheader_start == StartOf(image, PreHeader)
preheader_end == EndOf(image, PreHeader)
Pointers == PointersIn(env, scan)
kernel_ptr == Min(Pointers)

HeapScan ==
    /\ spc = "zone" /\ scan.zone \notin DOMAIN env.heap
    /\ PreHeader # {} /\ Pointers # {}
    /\ Goto("slides", [scan EXCEPT !.next = 0])
    /\ UNCHANGED <<kernel_slide, probed>> /\ UnchangedTable

NothingInHeap ==
    /\ spc = "zone" /\ scan.zone \notin DOMAIN env.heap
    /\ PreHeader = {} \/ Pointers = {}
    /\ Goto("unsafe", [scan EXCEPT !.next = UnsafeScanStart])
    /\ UNCHANGED <<kernel_slide, probed>> /\ UnchangedTable

(* A faulty test, against where the segments are in the image. *)
ConsistentUnslid(slide) == preheader_start <= kernel_ptr /\ kernel_ptr < preheader_end + slide

(* The slid segments before the header hold the pointer. *)
Consistent(slide) == preheader_start + slide <= kernel_ptr /\ kernel_ptr < preheader_end + slide

(* From the lowest slide to the highest. *)
TrySlide ==
    /\ spc = "slides" /\ scan.next < max_slide /\ Consistent(scan.next)
    /\ CheckKernelBase(kernel.base + scan.next, [scan EXCEPT !.next = @ + slide_increment])
    /\ UnchangedTable

SkipSlide ==
    /\ spc = "slides" /\ scan.next < max_slide /\ ~Consistent(scan.next)
    /\ Goto("slides", [scan EXCEPT !.next = @ + slide_increment])
    /\ UNCHANGED <<kernel_slide, probed>> /\ UnchangedTable

NoSlideFits ==
    /\ spc = "slides" /\ scan.next >= max_slide
    /\ Goto("unsafe", [scan EXCEPT !.next = UnsafeScanStart])
    /\ UNCHANGED <<kernel_slide, probed>> /\ UnchangedTable

(* kernel_slide_init_ios_unsafe_scan, for old kernels only.                 *)
min_slide ==
    IF scan.start > kernel.base THEN round2_up(scan.start - kernel.base, slide_increment)
    ELSE 0
macho_size == Max({image[i].fileoff + image[i].filesize : i \in Segments(image)})

StartUnsafeScan ==
    /\ spc = "unsafe" /\ scan.next = UnsafeScanStart /\ env.before_16_3
    /\ Goto("unsafe", [scan EXCEPT !.next = min_slide])
    /\ UNCHANGED <<kernel_slide, probed>> /\ UnchangedTable

TryUnsafe ==
    /\ spc = "unsafe" /\ scan.next \in 0 .. max_slide - 1
    /\ kernel.base + scan.next < scan.end - macho_size
    /\ CheckKernelBase(kernel.base + scan.next, [scan EXCEPT !.next = @ + slide_increment])
    /\ UnchangedTable

SlideNotFound ==
    /\ spc = "unsafe"
    /\ \/ scan.next = UnsafeScanStart /\ ~env.before_16_3
       \/ scan.next >= max_slide
       \/ scan.next \in Nat /\ kernel.base + scan.next >= scan.end - macho_size
    /\ SlideReturns("failed")
    /\ UNCHANGED <<kernel_slide, probed>> /\ UnchangedTable

-----------------------------------------------------------------------------
(* The table is used between the calls, and by the one that asks it.        *)
UseTable ==
    /\ pc = "ready" => spc = "idle"
    /\ UNCHANGED slideVars
    /\ TableNext

SlideNext ==
    \/ KernelInit \/ ResetBase \/ KernelSlideInit \/ Validate
    \/ AskLastSymbol \/ NoLastSymbol \/ MacosRegion \/ NoMacosRegion
    \/ FindKernelRegion \/ NoKernelRegion
    \/ NotZoneArray \/ ZoneArray \/ Backwards \/ NotBackwards
    \/ HeapScan \/ NothingInHeap \/ TrySlide \/ SkipSlide \/ NoSlideFits
    \/ StartUnsafeScan \/ TryUnsafe \/ SlideNotFound
    \/ UseTable

SlideSpec == SlideInit /\ [][SlideNext]_allVars

-----------------------------------------------------------------------------
StaticBase == macho_find_base(image)
StaticEnd == EndOf(image, Segments(image))

(***************************************************************************)
(* A slide that kernel_slide_init reports is that of the running kernel,   *)
(* and what kernel_init makes of it, however often it resets the base, is  *)
(* the address in the image moved once.  The exception is a slide that was *)
(* computed, found invalid and left in kernel_slide: the next call reports *)
(* it as found.                                                            *)
(***************************************************************************)
SlideTrue ==
    /\ slide_result = "ok" /\ ~was_invalid => kernel_slide = env.slide
    /\ pc = "ready" => kernel.base = StaticBase + kernel.slide

(***************************************************************************)
(* The search looks for the header in the kernel's region only, and never  *)
(* beyond the kernel that is there: a read of what is not mapped may panic *)
(* the system.  The scan of the heap is as good as the lowest pointer that *)
(* it found: that has to point before the header, and the unsafe scan on   *)
(* finding a header.                                                       *)
(***************************************************************************)
ProbesSafe ==
    spc # "idle" =>
        \A p \in probed :
            /\ scan.start <= p
            /\ env.pointers_good => p < scan.end /\ p < StaticEnd + env.slide

===============================================================================
