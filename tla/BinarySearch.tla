----------------------------- MODULE BinarySearch -----------------------------
(***************************************************************************)
(* binary_search of libmemctl/algorithm.c, one turn of its loop at a time. *)
(* The mapping of bundle IDs to kexts and the symbol finders find their    *)
(* entries, and the places for new ones, with it.  An element is what the  *)
(* comparison sees of it, an integer.  Indices count from 0, as in the     *)
(* code, and right is signed: it is -1 for an empty array.                 *)
(***************************************************************************)
EXTENDS Integers, Sequences

CONSTANTS
    Arrays,  \* the sorted arrays that may be searched
    Keys     \* the keys that may be searched for

Sorted(s) == \A i, j \in 1 .. Len(s) : i <= j => s[i] <= s[j]

ASSUME ArraysAssumption == \A a \in Arrays : a \in Seq(Int) /\ Sorted(a)
ASSUME KeysAssumption == Keys \subseteq Int

VARIABLES array, key, left, right, found, index

vars == <<array, key, left, right, found, index>>

Count == Len(array)
Element(i) == array[i + 1]
mid == (left + right) \div 2
Searching == found = "searching"

Init ==
    /\ array \in Arrays /\ key \in Keys
    /\ left = 0 /\ right = Count - 1
    /\ found = "searching" /\ index = 0

-----------------------------------------------------------------------------
(* A faulty turn: the middle stays in the range. *)
GoLeftKeep ==
    /\ Searching /\ left <= right
    /\ key < Element(mid)
    /\ right' = mid
    /\ UNCHANGED <<array, key, left, found, index>>

GoLeft ==
    /\ Searching /\ left <= right
    /\ key < Element(mid)
    /\ right' = mid - 1
    /\ UNCHANGED <<array, key, left, found, index>>

GoRight ==
    /\ Searching /\ left <= right
    /\ key > Element(mid)
    /\ left' = mid + 1
    /\ UNCHANGED <<array, key, right, found, index>>

Hit ==
    /\ Searching /\ left <= right
    /\ key = Element(mid)
    /\ found' = "yes" /\ index' = mid
    /\ UNCHANGED <<array, key, left, right>>

(* A faulty end: the place is that of the last element compared. *)
MissBefore ==
    /\ Searching /\ right < left
    /\ found' = "no" /\ index' = right
    /\ UNCHANGED <<array, key, left, right>>

Miss ==
    /\ Searching /\ right < left
    /\ found' = "no" /\ index' = left
    /\ UNCHANGED <<array, key, left, right>>

Next == GoLeft \/ GoRight \/ Hit \/ Miss

Spec == Init /\ [][Next]_vars

-----------------------------------------------------------------------------
TypeOK ==
    /\ array \in Arrays /\ key \in Keys
    /\ left \in 0 .. Count /\ right \in -1 .. Count - 1
    /\ found \in {"searching", "yes", "no"}
    /\ index \in 0 .. Count

(* The loop never looks at an element outside the array. *)
InBounds == Searching /\ left <= right => mid \in 0 .. Count - 1

(***************************************************************************)
(* A key that is found is at the index; one that is not belongs there: all *)
(* elements before the index are smaller, all from it on are greater, so   *)
(* inserting the key at the index keeps the array sorted.                  *)
(***************************************************************************)
Correct ==
    /\ found = "yes" => index < Count /\ Element(index) = key
    /\ found = "no" =>
          /\ index \in 0 .. Count
          /\ \A i \in 0 .. index - 1 : Element(i) < key
          /\ \A i \in index .. Count - 1 : key < Element(i)

(***************************************************************************)
(* Every turn of the loop that does not end it leaves at most half of the  *)
(* elements, so that the search ends, after logarithmically many turns.    *)
(***************************************************************************)
Halves ==
    [][Searching /\ Searching' => 2 * (right' - left' + 1) <= right - left + 1]_vars

=============================================================================
