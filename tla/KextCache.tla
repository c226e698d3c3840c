------------------------------ MODULE KextCache ------------------------------
(***************************************************************************)
(* The kexts of libmemctl/kernel.c: the sorted array of reference-counted  *)
(* kext_info structs that kernel_kext searches and fills, kext_release,    *)
(* and the initialization of the kernel image they depend on.              *)
(*                                                                         *)
(* On macOS the system may load, unload or reload a kext between any two   *)
(* steps: kernel_kext compares what it cached with what is loaded now, and *)
(* an outdated struct leaves the array but lives on while a client holds   *)
(* it.  With a kernelcache nothing is ever outdated, and a kext's runtime  *)
(* address comes from the kernel slide alone.                              *)
(*                                                                         *)
(* Mach-O files, symbol tables and what symbol finders do are left out:    *)
(* building a struct succeeds or fails.  binary_search returns the element *)
(* or its insertion point, as module BinarySearch shows for sorted arrays. *)
(***************************************************************************)
EXTENDS Naturals, FiniteSets, SequencesExt

CONSTANTS
    Builds,      \* the builds: with KERNELCACHE or without
    Ids,         \* bundle identifiers, ordered as strcmp orders them
    Loads,       \* what oskext_load_info tells loads apart by, named by the base
    NotLoaded,   \* a kext that is not loaded
    Slots,       \* the addresses malloc can return for a kext_info
    Unused,      \* the content of a slot that is not allocated
    Wild,        \* an uninitialized pointer
    NoKext,      \* the result of a kernel_kext that failed
    Slides,      \* values of kernel_slide, 0 among them
    MaxHeld      \* bound: references clients hold

ASSUME BuildsAssumption == Builds \subseteq {"macos", "kernelcache"}
ASSUME IdsAssumption == Ids \subseteq Nat \ {0}
ASSUME SlidesAssumption == Slides \subseteq Nat /\ 0 \in Slides
ASSUME BoundAssumption == MaxHeld \in Nat \ {0}

(* struct kext_info; slide is what the addresses of the kext were moved by. *)
KextInfo == [id : Ids, load : Loads, slide : Slides, refcount : Nat, outdated : BOOLEAN]

ASSUME MarkersAssumption ==
    /\ NotLoaded \notin Loads
    /\ Wild \notin Slots /\ NoKext \notin Slots
    /\ Unused \notin KextInfo

VARIABLES
    build,        \* the build of this process
    running,      \* system: what is loaded for each bundle ID
    kernelSlide,  \* the kernel_slide global
    initialized,  \* initialized_kernel # NULL
    finders,      \* all_analyzers: how often the symbol finder is registered
    kexts,        \* the array, of addresses
    heap,         \* the kext_info structs
    held,         \* references that clients hold to each struct
    pc, id, li, index, ki,  \* the running kernel_kext and its locals
    got,          \* what it returns: a reference of the caller
    lost          \* history: structs abandoned when array_insert failed

kernelState == <<build, kernelSlide, initialized, finders>>
cache == <<kexts, heap>>
locals == <<id, li, index, ki, got>>
cacheVars == <<running, kernelState, cache, held, pc, locals, lost>>

KernelCache == build = "kernelcache"
NoLoad == [load |-> NotLoaded, slide |-> 0]

(* No two kexts are loaded at an address. *)
Apart(loaded) == \A i, j \in Ids : i # j => loaded[i] # loaded[j] \/ loaded[i] = NotLoaded

CacheInit ==
    /\ build \in Builds
    /\ running \in [Ids -> Loads \cup {NotLoaded}] /\ Apart(running)
    /\ kernelSlide = 0 /\ initialized = FALSE
    /\ finders = 0
    /\ kexts = <<>>
    /\ heap = [s \in Slots |-> Unused]
    /\ held = [s \in Slots |-> 0]
    /\ pc = "idle"
    /\ id = 0 /\ li = NoLoad /\ index = 0 /\ ki = Wild /\ got = NoKext
    /\ lost = {}

-----------------------------------------------------------------------------
(* The surroundings. *)

(* kextload, kextunload, an upgrade; a kernelcache cannot change. *)
Reload ==
    /\ ~KernelCache
    /\ \E i \in Ids, load \in Loads \cup {NotLoaded} :
          running' = [running EXCEPT ![i] = load]
    /\ Apart(running')
    /\ UNCHANGED <<kernelState, cache, held, pc, locals, lost>>

(* kernel_slide_init, which looks for the slide while it is 0. *)
FindSlide ==
    /\ pc = "idle" /\ kernelSlide = 0
    /\ kernelSlide' \in Slides
    /\ UNCHANGED <<build, running, initialized, finders, cache, held, pc, locals,
                   lost>>

-----------------------------------------------------------------------------
InArray == Range(kexts)

(* destroy_kext_info for each of some structs. *)
Destroy(slots) == [s \in Slots |-> IF s \in slots THEN Unused ELSE heap[s]]

(***************************************************************************)
(* clear_kexts: references to the structs it frees are invalid from now    *)
(* on.  Those to an outdated struct, which is not in the array, are not.   *)
(***************************************************************************)
ClearKexts ==
    /\ heap' = Destroy(InArray)
    /\ held' = [s \in Slots |-> IF s \in InArray THEN 0 ELSE held[s]]
    /\ kexts' = <<>>

(***************************************************************************)
(* initialize, whenever there is no kernel image: the symbol finders are   *)
(* registered, which may run out of memory, and nobody checks.  The model  *)
(* follows one finder that could be registered.                            *)
(***************************************************************************)
RegisterFinders ==
    /\ pc = "idle" /\ ~initialized
    /\ finders' = finders + 1
    /\ pc' = "init"
    /\ UNCHANGED <<build, running, kernelSlide, initialized, cache, held, locals, lost>>

(* A faulty kernel_deinit, which keeps the symbol finders. *)
FindersKept == ClearKexts /\ UNCHANGED finders

(* kernel_deinit: clear_all_analyzers and clear_kexts. *)
Deinitialized == ClearKexts /\ finders' = 0

(* Then kernel_init is called; if it fails, it deinitializes.               *)
KernelInit ==
    /\ pc = "init"
    /\ \/ initialized' = TRUE /\ UNCHANGED <<cache, held, finders>>
       \/ initialized' = FALSE /\ Deinitialized
    /\ pc' = "idle"
    /\ UNCHANGED <<build, running, kernelSlide, locals, lost>>

KernelDeinit ==
    /\ pc = "idle"
    /\ initialized' = FALSE
    /\ Deinitialized
    /\ UNCHANGED <<build, running, kernelSlide, pc, locals, lost>>

-----------------------------------------------------------------------------
(* kernel_kext *)

(* Most of its locals are gone when it returns. *)
Return(result) ==
    /\ pc' = "returned" /\ got' = result /\ index' = 0 /\ ki' = Wild
    /\ UNCHANGED <<id, li>>

(* Its caller goes on. *)
Resume(p) == pc' = p /\ id' = 0 /\ li' = NoLoad /\ got' = NoKext /\ UNCHANGED <<index, ki>>

(* A call.  The kernel's own ID is answered with &kernel by the callers.    *)
KernelKext(i) ==
    /\ id' = i
    /\ pc' = IF KernelCache THEN "search" ELSE "load_info"
    /\ UNCHANGED <<running, kernelState, cache, held, li, index, ki, got, lost>>

(***************************************************************************)
(* oskext_load_info: what is loaded, at the base moved by kernel_slide;    *)
(* KEXT_NO_KEXT or KEXT_ERROR.                                             *)
(***************************************************************************)
LoadInfo ==
    /\ pc = "load_info"
    /\ \/ /\ running[id] # NotLoaded
          /\ li' = [load |-> running[id], slide |-> kernelSlide]
          /\ pc' = "search"
          /\ UNCHANGED <<id, index, ki, got>>
       \/ Return(NoKext)
    /\ UNCHANGED <<running, kernelState, cache, held, lost>>

(* binary_search: the place of an element with this ID, or for one. *)
Place == 1 + Cardinality({i \in DOMAIN kexts : heap[kexts[i]].id < id})
Found == Place \in DOMAIN kexts /\ heap[kexts[Place]].id = id

(* A faulty hit, brought up to date in place. *)
HitInPlace ==
    /\ pc = "search" /\ Found
    /\ LET s == kexts[Place] IN
          /\ heap' = [heap EXCEPT ![s].refcount = @ + 1,
                                  ![s].load = IF KernelCache THEN @ ELSE li.load,
                                  ![s].slide = IF KernelCache THEN @ ELSE li.slide]
          /\ Return(s)
    /\ UNCHANGED <<running, kernelState, kexts, held, lost>>

(* Faulty tests of is_outdated. *)
NeverOutdated(s) == FALSE

(* is_outdated: the base, the version or the UUID differs. *)
Outdated(s) == ~KernelCache /\ (heap[s].load # li.load \/ heap[s].slide # li.slide)

(* A struct that is up to date is shared. *)
Hit ==
    /\ pc = "search" /\ Found
    /\ LET s == kexts[Place] IN
          /\ ~Outdated(s)
          /\ heap' = [heap EXCEPT ![s].refcount = @ + 1]
          /\ Return(s)
    /\ UNCHANGED <<running, kernelState, kexts, held, lost>>

(* handle_kext_release, given the struct as it is now. *)
Released(s, info) ==
    [heap EXCEPT ![s] = IF ~KernelCache /\ info.refcount = 0 /\ info.outdated
                        THEN Unused ELSE info]

(* A faulty removal, which forgets to take the struct out of the array. *)
RemoveInPlace ==
    /\ pc = "search" /\ Found
    /\ LET s == kexts[Place] IN
          /\ Outdated(s)
          /\ heap' = Released(s, [heap[s] EXCEPT !.outdated = TRUE])
    /\ index' = Place
    /\ pc' = "create"
    /\ UNCHANGED <<running, kernelState, kexts, held, id, li, ki, got, lost>>

(* One that is outdated leaves the array and is freed if nobody holds it. *)
RemoveOutdated ==
    /\ pc = "search" /\ Found
    /\ LET s == kexts[Place] IN
          /\ Outdated(s)
          /\ heap' = Released(s, [heap[s] EXCEPT !.outdated = TRUE])
    /\ kexts' = RemoveAt(kexts, Place)
    /\ index' = Place
    /\ pc' = "create"
    /\ UNCHANGED <<running, kernelState, held, id, li, ki, got, lost>>

Miss ==
    /\ pc = "search" /\ ~Found
    /\ index' = Place
    /\ pc' = "create"
    /\ UNCHANGED <<running, kernelState, cache, held, id, li, ki, got, lost>>

(***************************************************************************)
(* create_kext_info.  When malloc fails it returns KEXT_SUCCESS and leaves *)
(* the caller's pointer uninitialized.                                     *)
(***************************************************************************)
Create ==
    /\ pc = "create"
    /\ \/ /\ KernelCache => running[id] # NotLoaded
          /\ \E s \in Slots :
                /\ heap[s] = Unused
                /\ heap' = [heap EXCEPT ![s] =
                       [id |-> id, load |-> IF KernelCache THEN running[id] ELSE li.load,
                        slide |-> IF KernelCache THEN kernelSlide ELSE li.slide,
                        refcount |-> 1, outdated |-> FALSE]]
                /\ ki' = s
          /\ pc' = "insert" /\ UNCHANGED <<id, li, index, got>>
       \/ pc' = "insert" /\ UNCHANGED <<locals, heap>>
       \/ Return(NoKext) /\ UNCHANGED heap
    /\ UNCHANGED <<running, kernelState, kexts, held, lost>>

(* The new struct is put into the array. *)
Insert ==
    /\ pc = "insert" /\ ki # Wild
    /\ kexts' = InsertAt(kexts, index, ki)
    /\ Return(ki)
    /\ UNCHANGED <<running, kernelState, heap, held, lost>>

(* array_insert fails: the struct is released, which does not free it. *)
InsertFails ==
    /\ pc = "insert" /\ ki # Wild
    /\ heap' = Released(ki, [heap[ki] EXCEPT !.refcount = @ - 1])
    /\ lost' = lost \cup {ki}
    /\ Return(NoKext)
    /\ UNCHANGED <<running, kernelState, kexts, held>>

(***************************************************************************)
(* An uninitialized pointer is stored or released, and handed out.  What   *)
(* the program does when it follows it is undefined: the model stops.      *)
(***************************************************************************)
InsertWild ==
    /\ pc = "insert" /\ ki = Wild
    /\ pc' = "undefined"
    /\ UNCHANGED <<running, kernelState, cache, held, locals, lost>>

(* kext_release, by a client that holds a reference. *)
KextRelease(s) ==
    /\ pc = "idle" /\ held[s] > 0
    /\ held' = [held EXCEPT ![s] = @ - 1]
    /\ heap' = Released(s, [heap[s] EXCEPT !.refcount = @ - 1])
    /\ UNCHANGED <<running, kernelState, kexts, pc, locals, lost>>

CacheStep ==
    \/ FindSlide
    \/ RegisterFinders
    \/ KernelInit
    \/ KernelDeinit
    \/ LoadInfo
    \/ Hit
    \/ RemoveOutdated
    \/ Miss
    \/ Create
    \/ Insert
    \/ InsertFails
    \/ InsertWild
    \/ \E s \in Slots : KextRelease(s)

-----------------------------------------------------------------------------
(* The reference that is on its way from kernel_kext to its caller. *)
OnItsWay(s) == IF s \in {ki, got} THEN 1 ELSE 0

(***************************************************************************)
(* A struct lives as long as a client holds it, and its refcount is the    *)
(* number of references that are held: the assertion of kext_release holds,*)
(* an outdated struct is freed by its last release, and none is freed      *)
(* twice.                                                                  *)
(***************************************************************************)
RefcountExact ==
    \A s \in Slots :
        IF heap[s] = Unused THEN held[s] + OnItsWay(s) = 0
        ELSE heap[s].refcount = held[s] + OnItsWay(s)

(***************************************************************************)
(* A struct that nobody can reach any more was freed: it is in the array,  *)
(* or held, or one that array_insert had no room for.                      *)
(***************************************************************************)
NoLeak ==
    \A s \in Slots :
        heap[s] # Unused => s \in InArray \/ held[s] + OnItsWay(s) > 0 \/ s \in lost

(***************************************************************************)
(* The array stays sorted by bundle ID without repetitions, and holds live *)
(* structs that are not outdated: what the binary search relies on, and    *)
(* what makes the insertion point found before a removal right after it.   *)
(***************************************************************************)
Sorted ==
    /\ \A i \in DOMAIN kexts : heap[kexts[i]] # Unused /\ ~heap[kexts[i]].outdated
    /\ \A i, j \in DOMAIN kexts : i < j => heap[kexts[i]].id < heap[kexts[j]].id
    /\ pc = "insert" =>
          /\ \A i \in DOMAIN kexts : heap[kexts[i]].id # id
          /\ \A i \in DOMAIN kexts : i < index <=> heap[kexts[i]].id < id

(***************************************************************************)
(* A reference that kernel_kext hands out is to the kext it was asked for, *)
(* in the load that the system reported during this call, also when the    *)
(* cached struct was of another load.                                      *)
(***************************************************************************)
Answered ==
    pc = "returned" /\ got # NoKext =>
        /\ heap[got].id = id
        /\ ~KernelCache =>
              heap[got].load = li.load /\ heap[got].slide = li.slide /\ ~heap[got].outdated

(***************************************************************************)
(* While a client holds a kext, its addresses do not change under it.      *)
(***************************************************************************)
HeldStable ==
    [][\A s \in Slots : held[s] > 0 /\ held'[s] > 0 =>
          /\ heap'[s].id = heap[s].id
          /\ heap'[s].load = heap[s].load
          /\ heap'[s].slide = heap[s].slide]_cacheVars

(***************************************************************************)
(* A kernel image has the symbol finders that were registered for it, each *)
(* of them once, however many initializations failed or were undone before.*)
(***************************************************************************)
FindersReady == initialized => finders = 1

=============================================================================
