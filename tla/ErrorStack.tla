------------------------------ MODULE ErrorStack ------------------------------
(***************************************************************************)
(* libmemctl's thread-local error stack (libmemctl/error.c): the errors a  *)
(* failing call leaves for its caller, the buffer that holds them, the     *)
(* heap blocks that carry their data, and the nested regions in which      *)
(* errors are stopped.  One thread, one stack.  vsnprintf's formatting and *)
(* the description of an error are left out; what is kept of an error is   *)
(* the block that holds its data.                                          *)
(***************************************************************************)
EXTENDS Integers, Sequences, FiniteSets

CONSTANTS
    Blocks,     \* heap blocks calloc can return for error data
    NoData,     \* NO_DATA: the data pointer of an error of size 0
    Growth,     \* how many elements reserve adds to the buffer (4 in the code)
    MaxErrors,  \* bound: pushes stop at this depth of the stack
    MaxStops    \* bound: nesting depth of error_stop regions

ASSUME NoDataAssumption == NoData \notin Blocks
ASSUME GrowthAssumption == Growth \in Nat /\ Growth >= 2
ASSUME BoundsAssumption == MaxErrors \in Nat /\ MaxStops \in Nat

VARIABLES
    stack,      \* errors.stack[0 .. count-1], each error being its data pointer
    capacity,   \* errors.capacity
    stopCount,  \* errors.stop_count
    buffer,     \* what errors.stack points at: "none" (NULL), "live" or "freed"
    heap,       \* the blocks of error data that are allocated
    aborted     \* an assertion ended the process

errorVars == <<stack, capacity, stopCount, buffer, heap, aborted>>

-----------------------------------------------------------------------------
(* The data pointer an error on the stack can have. *)
ErrorData == Blocks \cup {NoData}

(* A _Thread_local static: all zero before the first call. *)
ErrorStackInit ==
    /\ stack = <<>>
    /\ capacity = 0
    /\ stopCount = 0
    /\ buffer = "none"
    /\ heap = {}
    /\ aborted = FALSE

(* error.h: after error_free the stack must be re-initialized before use. *)
Usable == buffer # "freed" /\ ~aborted

(* A faulty reserve, off by one. *)
EnoughForThis(n) == n + 1 <= capacity

(***************************************************************************)
(* reserve: make sure that after one more push there is still room for an  *)
(* item.  A failed realloc trips assert(new_stack).                        *)
(***************************************************************************)
Enough(n) == n + 2 <= capacity

Reserve(n) ==
    \/ /\ Enough(n)
       /\ UNCHANGED <<capacity, buffer, aborted>>
    \/ /\ ~Enough(n)
       /\ capacity' = capacity + Growth
       /\ buffer' = "live"
       /\ UNCHANGED aborted

(* reserve's own assertion, which must hold whenever it is called. *)
ReserveAsserts == Len(stack) + 1 <= capacity \/ capacity = 0

(***************************************************************************)
(* error_init: forget whatever was there and reserve.                      *)
(* default_initialize calls it once, at start; a stack that was freed may  *)
(* be initialized again.                                                   *)
(***************************************************************************)
ErrorInit ==
    /\ ~aborted
    /\ buffer # "live"
    /\ stack' = <<>>
    /\ stopCount' = 0
    /\ UNCHANGED heap
    /\ \/ /\ capacity' = Growth
          /\ buffer' = "live"
          /\ UNCHANGED aborted
       \/ /\ aborted' = TRUE
          /\ capacity' = 0
          /\ buffer' = "none"

(* A faulty free_data, which forgets the block. *)
ForgetData(e) == heap' = heap

(* free_data: a block goes back to the heap, NO_DATA does not. *)
FreeData(e) == heap' = heap \ {e}

DataOf(s) == {s[i] : i \in DOMAIN s} \ {NoData}

(* error_free: clear, then free the buffer; capacity keeps its old value. *)
ErrorFree ==
    /\ Usable
    /\ stack' = <<>>
    /\ heap' = heap \ DataOf(stack)
    /\ buffer' = IF buffer = "live" THEN "freed" ELSE "none"
    /\ UNCHANGED <<capacity, stopCount, aborted>>

ErrorStop ==
    /\ Usable
    /\ stopCount < MaxStops
    /\ stopCount' = stopCount + 1
    /\ UNCHANGED <<stack, capacity, buffer, heap, aborted>>

(* error_start asserts that a region is open; its callers come in pairs. *)
ErrorStart ==
    /\ Usable
    /\ stopCount > 0
    /\ stopCount' = stopCount - 1
    /\ UNCHANGED <<stack, capacity, buffer, heap, aborted>>

(* What alloc_data returns: a fresh block, or NO_DATA for size 0. *)
Allocated == (Blocks \ heap) \cup {NoData}

(***************************************************************************)
(* error_push: nothing while errors are stopped; otherwise reserve, then   *)
(* push_internal, which returns NULL and pushes nothing when alloc_data    *)
(* fails, though reserve has already run.                                  *)
(***************************************************************************)
ErrorPush(data) ==
    /\ Usable
    /\ Len(stack) < MaxErrors
    /\ stopCount = 0
    /\ ReserveAsserts
    /\ Reserve(Len(stack))
    /\ stack' = Append(stack, data)
    /\ heap' = heap \cup ({data} \ {NoData})
    /\ UNCHANGED stopCount

ErrorPushNoMemory ==
    /\ Usable
    /\ Len(stack) < MaxErrors
    /\ stopCount = 0
    /\ ReserveAsserts
    /\ Reserve(Len(stack))
    /\ UNCHANGED <<stack, heap, stopCount>>

ErrorPushAborts ==
    /\ Usable
    /\ Len(stack) < MaxErrors
    /\ stopCount = 0
    /\ ReserveAsserts => ~Enough(Len(stack))
    /\ aborted' = TRUE
    /\ UNCHANGED <<stack, capacity, stopCount, buffer, heap>>

(* error_pop: does nothing on an empty stack. *)
ErrorPop ==
    /\ Usable
    /\ stack # <<>>
    /\ stack' = SubSeq(stack, 1, Len(stack) - 1)
    /\ FreeData(stack[Len(stack)])
    /\ UNCHANGED <<capacity, stopCount, buffer, aborted>>

(* error_clear, which also ends memctl_errors_convert_to_warnings. *)
ErrorClear ==
    /\ Usable
    /\ stack' = <<>>
    /\ heap' = heap \ DataOf(stack)
    /\ UNCHANGED <<capacity, stopCount, buffer, aborted>>

ErrorStackNext ==
    \/ ErrorInit
    \/ ErrorFree
    \/ ErrorStop
    \/ ErrorStart
    \/ \E data \in Allocated : ErrorPush(data)
    \/ ErrorPushNoMemory
    \/ ErrorPushAborts
    \/ ErrorPop
    \/ ErrorClear

ErrorStackSpec == ErrorStackInit /\ [][ErrorStackNext]_errorVars

-----------------------------------------------------------------------------
(* The type of the error stack's state. *)
ErrorStackTypeOK ==
    /\ stack \in Seq(ErrorData)
    /\ capacity \in Nat
    /\ stopCount \in Nat
    /\ buffer \in {"none", "live", "freed"}
    /\ heap \in SUBSET Blocks
    /\ aborted \in BOOLEAN

(***************************************************************************)
(* reserve's note: "We maintain the invariant that the error stack always  *)
(* has space for at least 1 item on it."  It holds of a live buffer after  *)
(* any mix of pushes, failed pushes, pops and re-initializations; a stack  *)
(* without a buffer has capacity 0, so that the next push makes one.  The  *)
(* assertions of reserve and of push_internal rest on it.  A freed stack   *)
(* is empty, so that error_init, which drops it unseen, leaks nothing.     *)
(***************************************************************************)
RoomForOne ==
    ~aborted => IF buffer = "live"
                THEN Len(stack) + 1 <= capacity
                ELSE stack = <<>> /\ (buffer = "none" => capacity = 0)

(***************************************************************************)
(* The allocated data blocks are exactly those of the errors on the stack, *)
(* each owned by one error: no push, pop, clear or free leaks a block or   *)
(* leaves two errors whose destruction would free the same one.            *)
(***************************************************************************)
DataOwnedOnce ==
    /\ heap = DataOf(stack)
    /\ \A i, j \in DOMAIN stack : stack[i] = stack[j] => i = j \/ stack[i] = NoData
=============================================================================
