------------------------------- MODULE Kexts -------------------------------
(***************************************************************************)
(* What memctl does with the kexts of module KextCache: the operations of  *)
(* libmemctl/kernel.c that are composed of kernel_kext, kext_release and a *)
(* walk over the kexts that are loaded.                                    *)
(*                                                                         *)
(* A walk works on the list it got when it began (OSKextCopyLoadedKextInfo,*)
(* or the kernelcache), and a kext is asked for by its ID only then: on    *)
(* macOS it may be gone, or be loaded elsewhere, by that time.             *)
(*                                                                         *)
(* Whether a kext has the symbol or the data that is looked for is left    *)
(* open.  The kernel, whose ID is Kernel here, is neither counted nor      *)
(* released.                                                               *)
(***************************************************************************)
EXTENDS KextCache

CONSTANTS
    Size,        \* the size of every kext in memory
    Addresses    \* the addresses that are asked about

ASSUME SizeAssumption == Size \in Nat \ {0}
ASSUME AddressesAssumption == Addresses \subseteq Nat \ {0}

VARIABLES
    op,          \* the operation that runs
    todo,        \* the rest of the list that is walked
    stopped,     \* how often the error stack is stopped
    asked,       \* the address that kernel_kext_containing_address looks for
    reloaded     \* history: the kext it found was loaded anew since

walk == <<op, todo, stopped>>
question == <<asked, reloaded>>
vars == <<cacheVars, walk, question>>

Kernel == 0

Init ==
    /\ CacheInit
    /\ op = "none" /\ todo = {} /\ stopped = 0
    /\ asked = 0 /\ reloaded = FALSE

LoadedIds == {i \in Ids : running[i] # NotLoaded}

(* An address lies in a kext that was loaded at base and moved by slid. *)
Within(address, base, slid) == address \in base + slid .. base + slid + Size - 1

(* A call, when there is a kernel image; bounds the references of clients. *)
Idle == pc = "idle" /\ initialized /\ MapThenSumSet(LAMBDA s : held[s], Slots) < MaxHeld

-----------------------------------------------------------------------------
(* kernel_kext and kernel_kext_containing_address hand out a reference. *)

CallKernelKext(i) ==
    /\ Idle
    /\ KernelKext(i)
    /\ op' = "kext"
    /\ UNCHANGED <<todo, stopped, question>>

(* A faulty search, for the address where the kext is now. *)
InKextUnslid(address, i) == Within(address, running[i], 0)

(* oskext_find_containing_address and kernelcache_find_containing_address. *)
InKext(address, i) == Within(address, running[i], kernelSlide)

KernelKextContainingAddress(address) ==
    /\ Idle
    /\ \E i \in LoadedIds : InKext(address, i) /\ KernelKext(i)
    /\ op' = "containing" /\ asked' = address /\ reloaded' = FALSE
    /\ UNCHANGED <<todo, stopped>>

TakeKext ==
    /\ pc = "returned" /\ op \in {"kext", "containing"}
    /\ held' = [s \in Slots |-> held[s] + IF s = got THEN 1 ELSE 0]
    /\ Resume("idle")
    /\ op' = "none" /\ asked' = 0 /\ reloaded' = FALSE
    /\ UNCHANGED <<running, kernelState, cache, lost, todo, stopped>>

(* The system goes on loading kexts. *)
ReloadMeanwhile ==
    /\ Reload
    /\ reloaded' = (reloaded \/ (op = "containing" /\ running'[id] # running[id]))
    /\ UNCHANGED <<walk, asked>>

-----------------------------------------------------------------------------
(* What kernel_kext returned is released by the function that called it. *)
ReleaseGot ==
    heap' = IF got = NoKext THEN heap ELSE Released(got, [heap[got] EXCEPT !.refcount = @ - 1])

(* kext_id_find_symbol *)
KextIdFindSymbol(i) ==
    /\ Idle
    /\ KernelKext(i)
    /\ op' = "symbol"
    /\ UNCHANGED <<todo, stopped, question>>

FindSymbol ==
    /\ pc = "returned" /\ op = "symbol"
    /\ ReleaseGot
    /\ Resume("idle")
    /\ op' = "none"
    /\ UNCHANGED <<running, kernelState, kexts, held, lost, todo, stopped, question>>

(***************************************************************************)
(* kernel_and_kexts_find_symbol and kernel_and_kexts_search_data walk over *)
(* the kernel and all kexts.                                               *)
(***************************************************************************)
KextForEach ==
    /\ Idle
    /\ pc' = "each" /\ op' = "search" /\ todo' = LoadedIds \cup {Kernel}
    /\ UNCHANGED <<running, kernelState, cache, held, locals, lost, stopped, question>>

(* The walk goes on, or halts at the first hit. *)
GoOnOrHalt == todo' \in {todo, {}}

(* The callback for the kernel, which comes first in a kernelcache. *)
SearchKernel ==
    /\ pc = "each" /\ Kernel \in todo
    /\ todo' \in {todo \ {Kernel}, {}}
    /\ UNCHANGED <<cacheVars, op, stopped, question>>

(* The callback for a kext: errors are stopped while it is looked at ... *)
SearchKext(i) ==
    /\ pc = "each" /\ i \in todo \ {Kernel}
    /\ KernelCache => Kernel \notin todo
    /\ stopped' = stopped + 1
    /\ todo' = todo \ {i}
    /\ KernelKext(i)
    /\ UNCHANGED <<op, question>>

(* A faulty callback, which leaves early without a kext. *)
SearchedUnlessMissing ==
    /\ pc = "returned" /\ op = "search"
    /\ ReleaseGot
    /\ stopped' = IF got = NoKext THEN stopped ELSE stopped - 1
    /\ GoOnOrHalt
    /\ Resume("each")
    /\ UNCHANGED <<running, kernelState, kexts, held, lost, op, question>>

(* ... and started again whether there was a kext or not. *)
Searched ==
    /\ pc = "returned" /\ op = "search"
    /\ ReleaseGot
    /\ stopped' = stopped - 1
    /\ IF got = NoKext THEN UNCHANGED todo ELSE GoOnOrHalt
    /\ Resume("each")
    /\ UNCHANGED <<running, kernelState, kexts, held, lost, op, question>>

SearchEnds ==
    /\ pc = "each" /\ todo = {}
    /\ pc' = "idle" /\ op' = "none"
    /\ UNCHANGED <<running, kernelState, cache, held, locals, lost, todo, stopped, question>>

Step == CacheStep /\ UNCHANGED <<walk, question>>

Next ==
    \/ ReloadMeanwhile
    \/ Step
    \/ \E i \in Ids : CallKernelKext(i) \/ KextIdFindSymbol(i) \/ SearchKext(i)
    \/ \E a \in Addresses : KernelKextContainingAddress(a)
    \/ TakeKext
    \/ FindSymbol
    \/ KextForEach
    \/ SearchKernel
    \/ Searched
    \/ SearchEnds

Spec == Init /\ [][Next]_vars

-----------------------------------------------------------------------------
(***************************************************************************)
(* An operation that returns, also one that failed or found nothing, left  *)
(* no reference behind and no errors stopped; during a walk the error      *)
(* stack is stopped while a callback runs and only then.                   *)
(***************************************************************************)
Balanced ==
    /\ RefcountExact /\ NoLeak
    /\ pc # "undefined" => stopped = IF op = "search" /\ pc # "each" THEN 1 ELSE 0

(***************************************************************************)
(* The kext that kernel_kext_containing_address returns has the address,   *)
(* unless the kext was loaded elsewhere since the list was read, or, in a  *)
(* kernelcache, its struct is from before the kernel slide was known.      *)
(***************************************************************************)
FoundRight ==
    pc = "returned" /\ op = "containing" /\ got # NoKext /\ ~reloaded =>
        \/ Within(asked, heap[got].load, heap[got].slide)
        \/ KernelCache /\ heap[got].slide # kernelSlide

=============================================================================
